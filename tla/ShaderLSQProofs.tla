--------------------------- MODULE ShaderLSQProofs --------------------------
(***************************************************************************)
(* For any warps, programs, lines, and sizes of the buffer pool, the cache *)
(* and the stages: every access is in exactly one place, the fences count  *)
(* what is in the cache, no stage of the queue goes to sleep on work, and  *)
(* the queue implements WarpMemory.                                        *)
(***************************************************************************)
EXTENDS ShaderLSQ, FiniteSetTheorems, WellFoundedInduction, TLAPS

-----------------------------------------------------------------------------
(* Sequences.                                                              *)

LEMMA ElementsIn ==
  ASSUME NEW S, NEW s \in Seq(S)
  PROVE  /\ Elements(s) \subseteq S
         /\ s = << >> <=> Elements(s) = {}
<1>1. DOMAIN s = 1 .. Len(s) /\ Len(s) \in Nat /\ \A i \in 1 .. Len(s) : s[i] \in S
  OBVIOUS
<1>2. s # << >> => 1 \in 1 .. Len(s)
  OBVIOUS
<1>3. s # << >> => s[1] \in Elements(s)
  BY <1>1, <1>2 DEF Elements
<1>4. s = << >> => Elements(s) = {}
  BY DEF Elements
<1> QED BY <1>1, <1>3, <1>4 DEF Elements

LEMMA ElementsEmpty == Elements(<< >>) = {} /\ NoRepeats(<< >>)
BY DEF Elements, NoRepeats

LEMMA ElementsSingle == \A e : Elements(<<e>>) = {e} /\ NoRepeats(<<e>>)
BY DEF Elements, NoRepeats

LEMMA AppendElements ==
  ASSUME NEW S, NEW s \in Seq(S), NEW e \in S
  PROVE  /\ Append(s, e) \in Seq(S) /\ Append(s, e) # << >>
         /\ Elements(Append(s, e)) = Elements(s) \union {e}
         /\ s # << >> => Head(Append(s, e)) = Head(s)
         /\ s = << >> => Head(Append(s, e)) = e
         /\ NoRepeats(s) /\ e \notin Elements(s) => NoRepeats(Append(s, e))
<1> DEFINE q == Append(s, e)
<1>1. /\ q \in Seq(S) /\ Len(q) = Len(s) + 1 /\ Len(s) \in Nat
      /\ DOMAIN q = 1 .. Len(s) + 1 /\ DOMAIN s = 1 .. Len(s)
      /\ \A i \in DOMAIN s : q[i] = s[i]
      /\ q[Len(s) + 1] = e
  OBVIOUS
<1>2. q # << >>
  BY <1>1
<1>3. Elements(q) = Elements(s) \union {e}
  BY <1>1 DEF Elements
<1>4. ASSUME s # << >> PROVE Head(q) = Head(s)
  BY <1>1, <1>4
<1>5. ASSUME s = << >> PROVE Head(q) = e
  BY <1>1, <1>5
<1>6. ASSUME NoRepeats(s), e \notin Elements(s) PROVE NoRepeats(q)
  BY <1>1, <1>6 DEF NoRepeats, Elements
<1> QED BY <1>1, <1>2, <1>3, <1>4, <1>5, <1>6

LEMMA TailElements ==
  ASSUME NEW S, NEW s \in Seq(S), s # << >>
  PROVE  /\ Head(s) \in S /\ Head(s) \in Elements(s)
         /\ Tail(s) \in Seq(S)
         /\ Elements(s) = Elements(Tail(s)) \union {Head(s)}
         /\ NoRepeats(s) => NoRepeats(Tail(s)) /\ Head(s) \notin Elements(Tail(s))
<1> DEFINE q == Tail(s)
<1>1. /\ q \in Seq(S) /\ Len(s) \in Nat \ {0} /\ Len(q) = Len(s) - 1
      /\ DOMAIN q = 1 .. Len(s) - 1 /\ DOMAIN s = 1 .. Len(s)
      /\ \A i \in DOMAIN q : q[i] = s[i + 1]
      /\ Head(s) = s[1] /\ Head(s) \in S
  OBVIOUS
<1>2. Head(s) \in Elements(s)
  BY <1>1 DEF Elements
<1>3. Elements(s) = Elements(q) \union {Head(s)}
  <2>1. ASSUME NEW x \in Elements(s) PROVE x \in Elements(q) \union {Head(s)}
    <3>1. PICK i \in 1 .. Len(s) : x = s[i]
      BY <1>1 DEF Elements
    <3>2. CASE i = 1
      BY <1>1, <3>1, <3>2
    <3>3. CASE i # 1
      <4>1. i - 1 \in DOMAIN q /\ q[i - 1] = x
        BY <1>1, <3>1, <3>3
      <4> QED BY <4>1 DEF Elements
    <3> QED BY <3>2, <3>3
  <2>2. Elements(q) \subseteq Elements(s)
    BY <1>1 DEF Elements
  <2> QED BY <1>2, <2>1, <2>2
<1>4. ASSUME NoRepeats(s) PROVE NoRepeats(q) /\ Head(s) \notin Elements(q)
  BY <1>1, <1>4 DEF NoRepeats, Elements
<1> QED BY <1>1, <1>2, <1>3, <1>4

LEMMA ConcatElements ==
  ASSUME NEW S, NEW s \in Seq(S), NEW t \in Seq(S)
  PROVE  /\ s \o t \in Seq(S)
         /\ Elements(s \o t) = Elements(s) \union Elements(t)
         /\ (s \o t = << >>) <=> (s = << >> /\ t = << >>)
         /\ NoRepeats(s) /\ NoRepeats(t) /\ Elements(s) \intersect Elements(t) = {}
              => NoRepeats(s \o t)
<1> DEFINE q == s \o t
<1>1. /\ q \in Seq(S) /\ Len(q) = Len(s) + Len(t) /\ Len(s) \in Nat /\ Len(t) \in Nat
      /\ DOMAIN q = 1 .. Len(s) + Len(t)
      /\ DOMAIN s = 1 .. Len(s) /\ DOMAIN t = 1 .. Len(t)
      /\ \A i \in 1 .. Len(s) : q[i] = s[i]
  OBVIOUS
<1>2. \A i \in 1 .. Len(t) : i + Len(s) \in 1 .. Len(s) + Len(t) /\ q[i + Len(s)] = t[i]
  OBVIOUS
<1>3. \A i \in 1 .. Len(s) + Len(t) :
        \/ i \in 1 .. Len(s)
        \/ i - Len(s) \in 1 .. Len(t) /\ q[i] = t[i - Len(s)]
  OBVIOUS
<1>4. (q = << >>) <=> (s = << >> /\ t = << >>)
  OBVIOUS
<1> HIDE DEF q
<1>5. Elements(q) = Elements(s) \union Elements(t)
  <2>1. ASSUME NEW x \in Elements(q) PROVE x \in Elements(s) \union Elements(t)
    <3>1. PICK i \in 1 .. Len(s) + Len(t) : x = q[i]
      BY <1>1 DEF Elements
    <3>2. CASE i \in 1 .. Len(s)
      BY <1>1, <3>1, <3>2 DEF Elements
    <3>3. CASE i - Len(s) \in 1 .. Len(t) /\ q[i] = t[i - Len(s)]
      BY <1>1, <3>1, <3>3 DEF Elements
    <3> QED BY <1>3, <3>2, <3>3
  <2>2. ASSUME NEW x \in Elements(s) PROVE x \in Elements(q)
    <3>1. PICK i \in 1 .. Len(s) : x = s[i]
      BY <1>1 DEF Elements
    <3>2. i \in 1 .. Len(s) + Len(t) /\ q[i] = x
      BY <1>1, <3>1
    <3> QED BY <1>1, <3>2 DEF Elements
  <2>3. ASSUME NEW x \in Elements(t) PROVE x \in Elements(q)
    <3>1. PICK i \in 1 .. Len(t) : x = t[i]
      BY <1>1 DEF Elements
    <3>2. i + Len(s) \in 1 .. Len(s) + Len(t) /\ q[i + Len(s)] = x
      BY <1>2, <3>1
    <3> QED BY <1>1, <3>2 DEF Elements
  <2> QED BY <2>1, <2>2, <2>3
<1>6. ASSUME NoRepeats(s), NoRepeats(t), Elements(s) \intersect Elements(t) = {}
      PROVE  NoRepeats(q)
  <2> SUFFICES ASSUME NEW i \in 1 .. Len(s) + Len(t), NEW j \in 1 .. Len(s) + Len(t),
                      q[i] = q[j]
               PROVE  i = j
    BY <1>1 DEF NoRepeats
  <2>1. CASE i \in 1 .. Len(s) /\ j \in 1 .. Len(s)
    BY <1>1, <1>6, <2>1 DEF NoRepeats
  <2>2. ASSUME NEW k \in 1 .. Len(s), NEW n \in 1 .. Len(t), s[k] = t[n] PROVE FALSE
    <3>1. s[k] \in Elements(s) /\ t[n] \in Elements(t)
      BY <1>1 DEF Elements
    <3> QED BY <1>6, <2>2, <3>1
  <2>3. CASE i \in 1 .. Len(s) /\ j \notin 1 .. Len(s)
    BY <1>1, <1>3, <2>2, <2>3
  <2>4. CASE i \notin 1 .. Len(s) /\ j \in 1 .. Len(s)
    BY <1>1, <1>3, <2>2, <2>4
  <2>5. CASE i \notin 1 .. Len(s) /\ j \notin 1 .. Len(s)
    <3>1. /\ i - Len(s) \in 1 .. Len(t) /\ j - Len(s) \in 1 .. Len(t)
          /\ t[i - Len(s)] = t[j - Len(s)]
      BY <1>3, <2>5
    <3>2. i - Len(s) = j - Len(s)
      BY <1>1, <1>6, <3>1 DEF NoRepeats
    <3> QED BY <1>1, <3>2
  <2> QED BY <2>1, <2>3, <2>4, <2>5
<1> QED BY <1>1, <1>4, <1>5, <1>6 DEF q

\* A sequence is cut in two after its k-th element.
LEMMA CutElements ==
  ASSUME NEW S, NEW s \in Seq(S), NEW k \in 0 .. Len(s)
  PROVE  LET front == SubSeq(s, 1, k)
             rest == SubSeq(s, k + 1, Len(s))
         IN  /\ front \in Seq(S) /\ rest \in Seq(S)
             /\ front = << >> <=> k = 0
             /\ rest = << >> <=> k = Len(s)
             /\ k < Len(s) => Head(rest) = s[k + 1]
             /\ Elements(front) = {s[j] : j \in 1 .. k}
             /\ Elements(s) = Elements(front) \union Elements(rest)
             /\ NoRepeats(s) => /\ NoRepeats(front) /\ NoRepeats(rest)
                                /\ Elements(front) \intersect Elements(rest) = {}
<1> DEFINE front == SubSeq(s, 1, k)
           rest == SubSeq(s, k + 1, Len(s))
<1>1. /\ Len(s) \in Nat /\ DOMAIN s = 1 .. Len(s) /\ k \in Nat /\ k <= Len(s)
      /\ front \in Seq(S) /\ Len(front) = k /\ DOMAIN front = 1 .. k
      /\ \A i \in 1 .. k : front[i] = s[i] /\ i \in 1 .. Len(s)
  OBVIOUS
<1>2. /\ rest \in Seq(S) /\ Len(rest) = Len(s) - k /\ DOMAIN rest = 1 .. Len(s) - k
      /\ \A i \in 1 .. Len(s) - k : rest[i] = s[i + k] /\ i + k \in 1 .. Len(s)
  OBVIOUS
<1>3. \A i \in 1 .. Len(s) : i \notin 1 .. k => i - k \in 1 .. Len(s) - k /\ rest[i - k] = s[i]
  OBVIOUS
<1>4. k < Len(s) => Head(rest) = s[k + 1]
  OBVIOUS
<1>5. (front = << >> <=> k = 0) /\ (rest = << >> <=> k = Len(s))
  OBVIOUS
<1> HIDE DEF front, rest
<1>6. Elements(front) = {s[j] : j \in 1 .. k}
  BY <1>1 DEF Elements
<1>7. Elements(s) = Elements(front) \union Elements(rest)
  <2>1. Elements(front) \subseteq Elements(s)
    BY <1>1 DEF Elements
  <2>2. Elements(rest) \subseteq Elements(s)
    <3>1. ASSUME NEW i \in 1 .. Len(s) - k PROVE rest[i] \in {s[j] : j \in 1 .. Len(s)}
      <4>1. rest[i] = s[i + k] /\ i + k \in 1 .. Len(s)
        BY <1>2
      <4> QED BY <4>1
    <3> QED BY <1>1, <1>2, <3>1 DEF Elements
  <2>3. ASSUME NEW i \in 1 .. Len(s) PROVE s[i] \in Elements(front) \union Elements(rest)
    <3>1. CASE i \in 1 .. k
      BY <1>1, <3>1 DEF Elements
    <3>2. CASE i \notin 1 .. k
      BY <1>2, <1>3, <3>2 DEF Elements
    <3> QED BY <3>1, <3>2
  <2> QED BY <1>1, <2>1, <2>2, <2>3 DEF Elements
<1>8. ASSUME NoRepeats(s)
      PROVE  /\ NoRepeats(front) /\ NoRepeats(rest)
             /\ Elements(front) \intersect Elements(rest) = {}
  <2>1. NoRepeats(front)
    BY <1>1, <1>8 DEF NoRepeats
  <2>2. ASSUME NEW i \in 1 .. Len(s) - k, NEW j \in 1 .. Len(s) - k, rest[i] = rest[j]
        PROVE  i = j
    <3>1. /\ rest[i] = s[i + k] /\ i + k \in 1 .. Len(s)
          /\ rest[j] = s[j + k] /\ j + k \in 1 .. Len(s)
      BY <1>2
    <3>2. i + k = j + k
      BY <1>1, <1>8, <2>2, <3>1 DEF NoRepeats
    <3> QED BY <1>1, <3>2
  <2>3. ASSUME NEW i \in 1 .. k, NEW j \in 1 .. Len(s) - k, front[i] = rest[j]
        PROVE  FALSE
    <3>1. i = j + k
      BY <1>1, <1>2, <1>8, <2>3 DEF NoRepeats
    <3> QED BY <1>1, <3>1
  <2>4. NoRepeats(rest)
    BY <1>2, <2>2 DEF NoRepeats
  <2>5. Elements(front) \intersect Elements(rest) = {}
    BY <1>1, <1>2, <2>3 DEF Elements
  <2> QED BY <2>1, <2>4, <2>5
<1> QED BY <1>1, <1>2, <1>4, <1>5, <1>6, <1>7, <1>8 DEF front, rest

LEMMA ElementsFinite ==
  ASSUME NEW S, NEW s \in Seq(S) PROVE IsFiniteSet(Elements(s))
<1>1. DOMAIN s = 1 .. Len(s) /\ Len(s) \in Nat
  OBVIOUS
<1>2. IsFiniteSet(1 .. Len(s))
  <2>1. 1 \in Int /\ Len(s) \in Int
    BY <1>1
  <2> QED BY <2>1, FS_Interval
<1>3. IsFiniteSet({s[i] : i \in 1 .. Len(s)})
  <2> DEFINE f == [i \in 1 .. Len(s) |-> s[i]]
             R == {s[i] : i \in 1 .. Len(s)}
  <2>1. f \in Surjection(1 .. Len(s), R)
    BY DEF Surjection
  <2> HIDE DEF f, R
  <2>2. IsFiniteSet(R)
    BY <1>2, <2>1, FS_Surjection
  <2> QED BY <2>2 DEF R
<1> QED BY <1>1, <1>3 DEF Elements
-----------------------------------------------------------------------------
(* Filter. Its recursive definition has a solution, by induction.          *)

LEMMA LeastNat ==
  ASSUME NEW T \in SUBSET Nat, T # {}
  PROVE \E m \in T : \A k \in T : m <= k
<1> DEFINE R == OpToRel(<, Nat)
<1>1. \E x \in T : \A y \in T : ~ (<<y, x>> \in R)
  BY NatLessThanWellFounded, WFMin, Zenon
<1>2. \A x, y \in Nat : y < x => <<y, x>> \in R
  BY Zenon DEF OpToRel
<1> HIDE DEF R
<1>3. PICK x \in T : \A y \in T : ~ (<<y, x>> \in R)
  BY <1>1
<1>4. ASSUME NEW y \in T PROVE x <= y
  <2>1. x \in Nat /\ y \in Nat
    OBVIOUS
  <2>2. ~(y < x)
    BY <1>2, <1>3, <2>1, Zenon
  <2> QED BY <2>1, <2>2
<1> QED BY <1>4

LEMMA SetInduction ==
  ASSUME NEW T \in SUBSET Nat, 0 \in T, \A n \in T : n + 1 \in T
  PROVE T = Nat
<1> SUFFICES ASSUME Nat \ T # {} PROVE FALSE
  OBVIOUS
<1>1. PICK m \in Nat \ T : \A k \in Nat \ T : m <= k
  BY LeastNat
<1>2. m # 0 /\ m - 1 \in Nat
  BY <1>1
<1>3. m - 1 \in T
  BY <1>1, <1>2
<1>4. m = (m - 1) + 1
  OBVIOUS
<1> QED BY <1>1, <1>3, <1>4

FilterStep(f, s, S, n) ==
  IF n = 0 THEN << >>
  ELSE IF s[n] \in S THEN Append(f[n - 1], s[n]) ELSE f[n - 1]

Filters(f, s, S, m) == f = [n \in 0 .. m |-> FilterStep(f, s, S, n)]

LEMMA FilterExists ==
  ASSUME NEW s, NEW S, NEW m \in Nat
  PROVE  \E f : Filters(f, s, S, m)
<1> DEFINE T == {k \in Nat : \E f : Filters(f, s, S, k)}
<1>1. 0 \in T
  <2>1. Filters([n \in 0 .. 0 |-> << >>], s, S, 0)
    BY DEF Filters, FilterStep
  <2> QED BY <2>1
<1>2. ASSUME NEW k \in T PROVE k + 1 \in T
  <2>1. PICK f : Filters(f, s, S, k)
    OBVIOUS
  <2> DEFINE g == [n \in 0 .. k + 1 |-> IF n = k + 1 THEN FilterStep(f, s, S, n) ELSE f[n]]
  <2>2. Filters(g, s, S, k + 1)
    <3>1. ASSUME NEW n \in 0 .. k + 1 PROVE g[n] = FilterStep(g, s, S, n)
      <4>1. k \in Nat /\ DOMAIN f = 0 .. k
        BY <2>1 DEF Filters
      <4>2. n # 0 => g[n - 1] = f[n - 1]
        BY <4>1
      <4>3. FilterStep(g, s, S, n) = FilterStep(f, s, S, n)
        BY <4>2 DEF FilterStep
      <4>4. n # k + 1 => f[n] = FilterStep(f, s, S, n)
        BY <2>1, <4>1 DEF Filters
      <4> QED BY <4>3, <4>4
    <3> HIDE DEF g
    <3>2. g = [n \in 0 .. k + 1 |-> g[n]]
      BY DEF g
    <3> QED BY <3>1, <3>2 DEF Filters
  <2> QED BY <2>2
<1>3. T = Nat
  <2> HIDE DEF T
  <2>1. T \in SUBSET Nat
    BY DEF T
  <2> QED BY <1>1, <1>2, <2>1, SetInduction
<1> QED BY <1>3

LEMMA FilterIs ==
  ASSUME NEW s, NEW S, Len(s) \in Nat
  PROVE  \E f : Filters(f, s, S, Len(s)) /\ Filter(s, S) = f[Len(s)]
<1> DEFINE F == CHOOSE f : f = [n \in 0 .. Len(s) |-> FilterStep(f, s, S, n)]
<1>1. Filter(s, S) = F[Len(s)]
  BY DEF Filter, FilterStep
<1>2. \E f : f = [n \in 0 .. Len(s) |-> FilterStep(f, s, S, n)]
  BY FilterExists DEF Filters
<1>3. F = [n \in 0 .. Len(s) |-> FilterStep(F, s, S, n)]
  BY <1>2, Zenon
<1> QED BY <1>1, <1>3 DEF Filters

\* What a filter keeps.
LEMMA FilterElements ==
  ASSUME NEW A, NEW s \in Seq(A), NEW S
  PROVE  /\ Filter(s, S) \in Seq(A)
         /\ Elements(Filter(s, S)) = Elements(s) \intersect S
         /\ NoRepeats(s) => NoRepeats(Filter(s, S))
<1>1. /\ Len(s) \in Nat /\ DOMAIN s = 1 .. Len(s)
      /\ \A i \in 1 .. Len(s) : s[i] \in A
  OBVIOUS
<1>2. PICK f : Filters(f, s, S, Len(s)) /\ Filter(s, S) = f[Len(s)]
  BY <1>1, FilterIs
<1> DEFINE Upto(n) == {s[j] : j \in 1 .. n}
           Kept(n) == /\ f[n] \in Seq(A)
                      /\ Elements(f[n]) = Upto(n) \intersect S
                      /\ NoRepeats(s) => NoRepeats(f[n])
           T == {n \in Nat : n <= Len(s) => Kept(n)}
<1>3. \A n \in 0 .. Len(s) : f[n] = FilterStep(f, s, S, n)
  BY <1>2 DEF Filters
<1>4. 0 \in T
  <2>1. f[0] = << >>
    BY <1>1, <1>3 DEF FilterStep
  <2>2. Upto(0) = {} /\ << >> \in Seq(A)
    OBVIOUS
  <2> QED BY <2>1, <2>2, ElementsEmpty
<1>5. ASSUME NEW n \in T PROVE n + 1 \in T
  <2> SUFFICES ASSUME n + 1 <= Len(s) PROVE Kept(n + 1)
    OBVIOUS
  <2>1. /\ n \in Nat /\ n <= Len(s) /\ n + 1 \in 0 .. Len(s) /\ n + 1 # 0
        /\ (n + 1) - 1 = n /\ n + 1 \in 1 .. Len(s)
    BY <1>1
  <2>2. Kept(n)
    BY <2>1
  <2>3. f[n + 1] = IF s[n + 1] \in S THEN Append(f[n], s[n + 1]) ELSE f[n]
    BY <1>3, <2>1 DEF FilterStep
  <2>4. s[n + 1] \in A
    BY <1>1, <2>1
  <2>5. Upto(n + 1) = Upto(n) \union {s[n + 1]}
    <3>1. 1 .. n + 1 = (1 .. n) \union {n + 1}
      BY <2>1
    <3> QED BY <3>1
  <2>6. NoRepeats(s) => s[n + 1] \notin Upto(n)
    <3>1. ASSUME NoRepeats(s), NEW j \in 1 .. n, s[j] = s[n + 1] PROVE FALSE
      <4>1. j \in 1 .. Len(s) /\ j # n + 1
        BY <2>1
      <4> QED BY <1>1, <2>1, <3>1, <4>1 DEF NoRepeats
    <3> QED BY <3>1
  <2> HIDE DEF Upto
  <2>7. CASE s[n + 1] \in S
    <3>1. f[n + 1] = Append(f[n], s[n + 1])
      BY <2>3, <2>7
    <3>2. NoRepeats(s) => s[n + 1] \notin Elements(f[n])
      BY <2>2, <2>6
    <3>3. /\ f[n + 1] \in Seq(A)
          /\ Elements(f[n + 1]) = Elements(f[n]) \union {s[n + 1]}
          /\ NoRepeats(f[n]) /\ s[n + 1] \notin Elements(f[n]) => NoRepeats(f[n + 1])
      BY <2>2, <2>4, <3>1, AppendElements
    <3> QED BY <2>2, <2>5, <2>7, <3>2, <3>3
  <2>8. CASE s[n + 1] \notin S
    BY <2>2, <2>3, <2>5, <2>8
  <2> QED BY <2>7, <2>8
<1>6. T = Nat
  <2> HIDE DEF T
  <2>1. T \in SUBSET Nat
    BY DEF T
  <2> QED BY <1>4, <1>5, <2>1, SetInduction
<1>7. Kept(Len(s))
  <2> HIDE DEF Kept
  <2>1. Len(s) \in T
    <3> HIDE DEF T
    <3> QED BY <1>1, <1>6
  <2> QED BY <1>1, <2>1
<1>8. Upto(Len(s)) = Elements(s)
  BY <1>1 DEF Elements
<1> QED BY <1>2, <1>7, <1>8

-----------------------------------------------------------------------------
(* Programs.                                                               *)

LEMMA ProgramTyped ==
  ASSUME program \in Programs, NEW w \in Warp
  PROVE  /\ program[w] \in Seq(MemInst) /\ Len(program[w]) \in Nat
         /\ DOMAIN program[w] = 1 .. Len(program[w])
         /\ \A n \in DOMAIN program[w] :
              /\ program[w][n] \in MemInst
              /\ program[w][n].kind \in {"load", "store", "atomic", "fence"}
              /\ program[w][n].lines \in Seq(Line)
              /\ program[w][n].kind = "fence" <=> program[w][n].lines = << >>
<1>1. program \in [Warp -> Seq(MemInst)]
  BY ProgramAssumption
<1>2. program[w] \in Seq(MemInst)
  BY <1>1
<1> HIDE DEF MemInst
<1>3. \A n \in DOMAIN program[w] : program[w][n] \in MemInst
  BY <1>2
<1>4. \A m \in MemInst : /\ m.kind \in {"load", "store", "atomic", "fence"}
                         /\ m.lines \in Seq(Line)
                         /\ m.kind = "fence" <=> m.lines = << >>
  BY DEF MemInst
<1> QED BY <1>2, <1>3, <1>4

LEMMA InstructionFacts ==
  ASSUME program \in Programs, NEW i \in Instructions
  PROVE  /\ i[1] \in Warp /\ i[2] \in DOMAIN program[i[1]] /\ i[2] \in Nat \ {0}
         /\ i = <<i[1], i[2]>>
         /\ Kind(i) \in {"load", "store", "atomic", "fence"}
         /\ IsFence(i) <=> AccessesOf(i) = {}
         /\ AccessesOf(i) \subseteq Accesses
         /\ \A a \in AccessesOf(i) : InstOf(a) = i
<1>0. PICK w \in Warp : i \in {<<w, n>> : n \in DOMAIN program[w]}
  BY DEF Instructions
<1>1. PICK n \in DOMAIN program[w] : i = <<w, n>>
  BY <1>0
<1>2. i[1] = w /\ i[2] = n
  BY <1>1
<1>3. /\ n \in Nat \ {0}
      /\ program[w][n].kind \in {"load", "store", "atomic", "fence"}
      /\ program[w][n].lines \in Seq(Line)
      /\ program[w][n].kind = "fence" <=> program[w][n].lines = << >>
  BY ProgramTyped, <1>1
<1>4. DOMAIN program[w][n].lines = {} <=> program[w][n].lines = << >>
  <2>1. ASSUME NEW s \in Seq(Line) PROVE DOMAIN s = {} <=> s = << >>
    OBVIOUS
  <2> QED BY <1>3, <2>1
<1>5. IsFence(i) <=> AccessesOf(i) = {}
  BY <1>2, <1>3, <1>4 DEF IsFence, Kind, AccessesOf
<1>6. AccessesOf(i) \subseteq Accesses
  BY DEF Accesses
<1>7. \A a \in AccessesOf(i) : InstOf(a) = i
  BY <1>1, <1>2 DEF AccessesOf, InstOf
<1>8. Kind(i) \in {"load", "store", "atomic", "fence"}
  BY <1>2, <1>3 DEF Kind
<1> QED BY <1>1, <1>2, <1>3, <1>5, <1>6, <1>7, <1>8

LEMMA AccessFacts ==
  ASSUME program \in Programs, NEW a \in Accesses
  PROVE  /\ InstOf(a) \in Instructions /\ a \in AccessesOf(InstOf(a))
         /\ LineOf(a) \in Line
         /\ a[1] \in Warp /\ InstOf(a)[1] = a[1] /\ InstOf(a)[2] = a[2]
         /\ ~IsFence(InstOf(a))
<1>1. PICK i \in Instructions : a \in AccessesOf(i)
  BY DEF Accesses
<1>2. /\ i[1] \in Warp /\ i[2] \in DOMAIN program[i[1]] /\ i = <<i[1], i[2]>>
      /\ InstOf(a) = i /\ (IsFence(i) <=> AccessesOf(i) = {})
  BY <1>1, InstructionFacts
<1>3. PICK k \in DOMAIN program[i[1]][i[2]].lines : a = <<i[1], i[2], k>>
  BY <1>1 DEF AccessesOf
<1>4. a[1] = i[1] /\ a[2] = i[2] /\ a[3] = k
  BY <1>3
<1>5. program[i[1]][i[2]].lines \in Seq(Line)
  BY <1>2, ProgramTyped
<1>6. LineOf(a) \in Line
  <2>1. \A s \in Seq(Line) : \A j \in DOMAIN s : s[j] \in Line
    OBVIOUS
  <2> QED BY <1>3, <1>4, <1>5, <2>1 DEF LineOf
<1> QED BY <1>1, <1>2, <1>4, <1>6

LEMMA SameProgram ==
  ASSUME program' = program
  PROVE  /\ Instructions' = Instructions /\ Accesses' = Accesses
         /\ \A i : /\ AccessesOf(i)' = AccessesOf(i)
                   /\ IsFence(i)' = IsFence(i) /\ Kind(i)' = Kind(i)
         /\ \A a : LineOf(a)' = LineOf(a)
BY DEF Instructions, Accesses, AccessesOf, IsFence, Kind, LineOf

-----------------------------------------------------------------------------
(* The inductive invariant.                                                *)

InQueue(i) == i \in Elements(instQueues[i[1]])

\* A warp's queue holds the last instructions it has issued, without a gap.
QueueOf(w) ==
  /\ issued[w] <= Len(program[w]) /\ Len(instQueues[w]) <= issued[w]
  /\ \A j \in DOMAIN instQueues[w] :
       instQueues[w][j] = <<w, issued[w] - Len(instQueues[w]) + j>>

\* An access is translated once. An instruction has all its accesses to inject before
\* it is at the head of its queue, at least one while it is there, and none later.
AccessesKnown ==
  /\ NoRepeats(translated)
  /\ \A a \in coalesced : InQueue(InstOf(a))
  /\ \A a \in Elements(translated) : InstOf(a) \in Issued
  /\ \A i \in Instructions :
       InQueue(i) /\ ~AtHead(i) => AccessesOf(i) \subseteq coalesced
  /\ \A i \in Instructions :
       AtHead(i) /\ ~IsFence(i) => AccessesOf(i) \intersect coalesced # {}

\* An instruction commits once, when nothing of it is left.
Committing ==
  /\ NoRepeats(commitBuffer)
  /\ \A i \in Elements(commitBuffer) :
       /\ i \in Issued /\ ~InQueue(i)
       /\ AccessesOf(i) \intersect (coalesced \union Elements(translated)) = {}

\* The cache has one access to a line, and those that wait for a line are to it.
OnePerLine ==
  /\ \A a, b \in inCache : LineOf(a) = LineOf(b) => a = b
  /\ \A l \in Line : \A a \in Elements(blockedAccesses[l]) : LineOf(a) = l
  /\ NoRepeats(ejectBuffer) /\ Elements(ejectBuffer) \intersect inCache = {}

\* A fence stays in its queue until what its warp injected before is ejected.
FencesWait ==
  \A f \in Issued : IsFence(f) =>
    \A a \in Elements(translated) \ coalesced :
      a[1] = f[1] /\ a[2] < f[2] => InQueue(f)

\* The parts of AccessesAccounted.
InOneBuffer ==
  \A a \in Accesses :
    a \in Queued <=> /\ a \in coalesced /\ a \in Elements(translated)
                     /\ AtHead(InstOf(a))

BuffersApart ==
  /\ NoRepeats(injectBuffer)
  /\ \A l \in Line :
       /\ NoRepeats(blockedAccesses[l])
       /\ Elements(blockedAccesses[l]) \intersect Elements(injectBuffer) = {}

InFlight == Elements(translated) \ coalesced = inCache \union Elements(ejectBuffer)

FlightOf(w) == {a \in Elements(translated) \ coalesced : a[1] = w}
OutstandingOf(w) == outstanding[w] = Cardinality(FlightOf(w))

Busy(i) == \/ \E a \in coalesced \union Elements(translated) : InstOf(a) = i
           \/ InQueue(i)
           \/ i \in Elements(commitBuffer)
BuffersInUse == \A i \in Instructions : i \in active <=> Busy(i)

LinesHeld == blockedLines = {LineOf(a) : a \in inCache}

LinesAwaited ==
  \A l \in Line : blockedAccesses[l] # << >> =>
    l \in blockedLines \/ \E a \in Elements(injectBuffer) : LineOf(a) = l

Queues == \A w \in Warp : QueueOf(w)
Accounts == /\ InOneBuffer /\ BuffersApart /\ InFlight
            /\ \A w \in Warp : OutstandingOf(w)
            /\ BuffersInUse /\ LinesHeld /\ LinesAwaited

Inv == /\ TypeOK /\ NoLostWakeup
       /\ Queues /\ AccessesKnown /\ Committing /\ OnePerLine /\ FencesWait
       /\ Accounts

-----------------------------------------------------------------------------
(* Positions in a queue.                                                   *)

Left(w) == issued[w] - Len(instQueues[w])

LEMMA QueueTyped ==
  ASSUME TypeOK, NEW w \in Warp
  PROVE  /\ program \in Programs
         /\ instQueues[w] \in Seq(Instructions)
         /\ Len(instQueues[w]) \in Nat /\ issued[w] \in Nat /\ Left(w) \in Int
         /\ DOMAIN instQueues[w] = 1 .. Len(instQueues[w])
<1>1. /\ program \in Programs /\ instQueues[w] \in Seq(Instructions)
      /\ issued[w] \in Nat
  BY DEF TypeOK
<1>2. \A s \in Seq(Instructions) : Len(s) \in Nat /\ DOMAIN s = 1 .. Len(s)
  OBVIOUS
<1> QED BY <1>1, <1>2 DEF Left

LEMMA QueuePosition ==
  ASSUME TypeOK, NEW i \in Instructions, QueueOf(i[1])
  PROVE  /\ Left(i[1]) \in Nat /\ issued[i[1]] \in Nat /\ i[2] \in Nat
         /\ InQueue(i) <=> Left(i[1]) < i[2] /\ i[2] <= issued[i[1]]
         /\ AtHead(i) <=> i[2] = Left(i[1]) + 1 /\ i[2] <= issued[i[1]]
         /\ i \in Issued <=> i[2] <= issued[i[1]]
<1> DEFINE w == i[1]
           n == i[2]
           q == instQueues[w]
<1>1. w \in Warp /\ n \in Nat /\ i = <<w, n>>
  BY InstructionFacts DEF TypeOK
<1>2. /\ q \in Seq(Instructions) /\ Len(q) \in Nat /\ issued[w] \in Nat
      /\ DOMAIN q = 1 .. Len(q)
  BY <1>1, QueueTyped
<1>3. /\ Len(q) <= issued[w]
      /\ \A j \in 1 .. Len(q) : q[j] = <<w, issued[w] - Len(q) + j>>
  BY <1>2 DEF QueueOf
<1> HIDE DEF w, n, q
<1>4. Left(w) \in Nat /\ Left(w) = issued[w] - Len(q)
  BY <1>2, <1>3 DEF Left, q
<1>5. \A j \in 1 .. Len(q) : q[j] = <<w, Left(w) + j>>
  BY <1>3, <1>4
<1>6. i \in Elements(q) <=> Left(w) < n /\ n <= issued[w]
  <2>1. ASSUME i \in Elements(q) PROVE Left(w) < n /\ n <= issued[w]
    <3>1. PICK j \in 1 .. Len(q) : i = q[j]
      BY <1>2, <2>1 DEF Elements
    <3>2. n = Left(w) + j
      BY <1>1, <1>5, <3>1
    <3> QED BY <1>2, <1>4, <3>2
  <2>2. ASSUME Left(w) < n, n <= issued[w] PROVE i \in Elements(q)
    <3>1. n - Left(w) \in 1 .. Len(q) /\ Left(w) + (n - Left(w)) = n
      BY <1>1, <1>2, <1>4, <2>2
    <3>2. q[n - Left(w)] = i
      BY <1>1, <1>5, <3>1
    <3> QED BY <1>2, <3>1, <3>2 DEF Elements
  <2> QED BY <2>1, <2>2
<1>7. q # << >> /\ Head(q) = i <=> n = Left(w) + 1 /\ n <= issued[w]
  <2>1. q # << >> <=> 1 \in 1 .. Len(q)
    BY <1>2
  <2>2. q # << >> => Head(q) = q[1] /\ q[1] = <<w, Left(w) + 1>>
    BY <1>2, <1>5, <2>1
  <2>3. q # << >> <=> Left(w) + 1 <= issued[w]
    BY <1>2, <1>4, <2>1
  <2>4. q # << >> => (Head(q) = i <=> n = Left(w) + 1)
    BY <1>1, <2>2
  <2> QED BY <2>3, <2>4
<1>8. i \in Issued <=> n <= issued[w]
  BY DEF Issued, n, w
<1> QED BY <1>1, <1>2, <1>4, <1>6, <1>7, <1>8 DEF InQueue, AtHead, n, w, q

\* Who is in the queue with whom.
LEMMA QueueOrder ==
  ASSUME TypeOK, Queues, NEW i \in Instructions, NEW j \in Instructions, i[1] = j[1]
  PROVE  /\ InQueue(i) => i \in Issued
         /\ AtHead(i) => InQueue(i)
         /\ AtHead(i) /\ AtHead(j) => i = j
         /\ InQueue(i) /\ j \in Issued /\ i[2] < j[2] => InQueue(j)
         /\ AtHead(i) /\ j[2] < i[2] => ~InQueue(j) /\ j \in Issued
         /\ AtHead(i) /\ j \in Issued /\ i[2] < j[2] => InQueue(j) /\ ~AtHead(j)
<1>1. /\ i[1] \in Warp /\ i = <<i[1], i[2]>> /\ j = <<j[1], j[2]>>
  BY InstructionFacts DEF TypeOK
<1>2. QueueOf(i[1]) /\ QueueOf(j[1])
  BY <1>1 DEF Queues
<1>3. /\ Left(i[1]) \in Nat /\ issued[i[1]] \in Nat /\ i[2] \in Nat /\ j[2] \in Nat
      /\ InQueue(i) <=> Left(i[1]) < i[2] /\ i[2] <= issued[i[1]]
      /\ AtHead(i) <=> i[2] = Left(i[1]) + 1 /\ i[2] <= issued[i[1]]
      /\ i \in Issued <=> i[2] <= issued[i[1]]
  BY <1>2, QueuePosition
<1>4. /\ InQueue(j) <=> Left(i[1]) < j[2] /\ j[2] <= issued[i[1]]
      /\ AtHead(j) <=> j[2] = Left(i[1]) + 1 /\ j[2] <= issued[i[1]]
      /\ j \in Issued <=> j[2] <= issued[i[1]]
  BY <1>2, QueuePosition
<1>5. i[2] = j[2] => i = j
  BY <1>1
<1> QED BY <1>3, <1>4, <1>5

\* The invariant says what AccessesAccounted says, and more.
LEMMA InvAccounts == Inv => AccessesAccounted
<1> SUFFICES ASSUME Inv PROVE AccessesAccounted
  OBVIOUS
<1>1. /\ TypeOK /\ Queues /\ OnePerLine /\ Accounts /\ program \in Programs
  BY DEF Inv, TypeOK
<1>2. /\ coalesced \subseteq Accesses /\ translated \in Seq(Accesses)
      /\ injectBuffer \in Seq(Accesses) /\ blockedAccesses \in [Line -> Seq(Accesses)]
      /\ active \subseteq Instructions /\ commitBuffer \in Seq(Instructions)
      /\ instQueues \in [Warp -> Seq(Instructions)]
  BY <1>1 DEF TypeOK
<1>3. /\ Elements(translated) \subseteq Accesses /\ Elements(injectBuffer) \subseteq Accesses
      /\ \A l \in Line : Elements(blockedAccesses[l]) \subseteq Accesses
      /\ Elements(commitBuffer) \subseteq Instructions
      /\ \A w \in Warp : Elements(instQueues[w]) \subseteq Instructions
  BY <1>2, ElementsIn
<1>4. Queued \subseteq Accesses
  BY <1>3 DEF Queued
<1>5. coalesced \intersect Elements(translated) =
        Queued \union {a \in coalesced \intersect Elements(translated) :
                         ~AtHead(InstOf(a))}
  BY <1>1, <1>3, <1>4 DEF Accounts, InOneBuffer
<1>6. \A a \in Queued : AtHead(InstOf(a))
  BY <1>1, <1>4 DEF Accounts, InOneBuffer
<1>7. \A w \in Warp : outstanding[w] =
        Cardinality({a \in Elements(translated) \ coalesced : a[1] = w})
  BY <1>1 DEF Accounts, OutstandingOf, FlightOf
<1>8. active = {InstOf(a) : a \in coalesced \union Elements(translated)}
                 \union (UNION {Elements(instQueues[w]) : w \in Warp})
                 \union Elements(commitBuffer)
  <2>1. ASSUME NEW w \in Warp, NEW i \in Elements(instQueues[w])
        PROVE  i[1] = w /\ i \in Instructions
    <3>1. PICK j \in DOMAIN instQueues[w] : i = instQueues[w][j]
      BY DEF Elements
    <3>2. i = <<w, issued[w] - Len(instQueues[w]) + j>>
      BY <1>1, <3>1 DEF Queues, QueueOf
    <3> QED BY <1>3, <3>2
  <2>2. \A a \in coalesced \union Elements(translated) : InstOf(a) \in Instructions
    BY <1>1, <1>2, <1>3, AccessFacts
  <2>3. \A i \in Instructions : i[1] \in Warp
    BY <1>1, InstructionFacts
  <2>4. \A i \in Instructions : i \in active <=> Busy(i)
    BY <1>1 DEF Accounts, BuffersInUse
  <2> DEFINE touched == {InstOf(a) : a \in coalesced \union Elements(translated)}
             queued == UNION {Elements(instQueues[w]) : w \in Warp}
  <2>5. ASSUME NEW i \in Instructions PROVE i \in queued <=> InQueue(i)
    BY <2>1, <2>3 DEF InQueue
  <2>6. queued \subseteq Instructions
    <3>1. \A i \in queued : \E w \in Warp : i \in Elements(instQueues[w])
      OBVIOUS
    <3> QED BY <2>1, <3>1
  <2>7. touched \subseteq Instructions
    BY <2>2
  <2>8. ASSUME NEW i \in Instructions
        PROVE  i \in touched <=> \E a \in coalesced \union Elements(translated) : InstOf(a) = i
    OBVIOUS
  <2> HIDE DEF touched, queued
  <2>9. ASSUME NEW i \in Instructions
        PROVE  i \in active <=> i \in touched \union queued \union Elements(commitBuffer)
    BY <2>4, <2>5, <2>8 DEF Busy
  <2>10. active = touched \union queued \union Elements(commitBuffer)
    BY <1>2, <1>3, <2>6, <2>7, <2>9
  <2>11. touched = {InstOf(a) : a \in coalesced \union Elements(translated)}
    BY DEF touched
  <2>12. queued = UNION {Elements(instQueues[w]) : w \in Warp}
    BY DEF queued
  <2> QED BY <2>10, <2>11, <2>12, Zenon
<1>9. Cardinality(blockedLines) = Cardinality(inCache)
  <2>1. inCache \subseteq Elements(translated)
    BY <1>1 DEF Accounts, InFlight
  <2>2. IsFiniteSet(inCache)
    BY <1>2, <2>1, ElementsFinite, FS_Subset
  <2> DEFINE f == [a \in inCache |-> LineOf(a)]
  <2>3. f \in Bijection(inCache, blockedLines)
    <3>1. f \in [inCache -> blockedLines]
      BY <1>1 DEF Accounts, LinesHeld
    <3>2. \A a, b \in inCache : f[a] = f[b] => a = b
      BY <1>1 DEF OnePerLine
    <3>3. \A l \in blockedLines : \E a \in inCache : f[a] = l
      BY <1>1 DEF Accounts, LinesHeld
    <3> HIDE DEF f
    <3> QED BY <3>1, <3>2, <3>3 DEF Bijection, Injection, Surjection, IsInjective
  <2>4. ExistsBijection(inCache, blockedLines)
    <3> HIDE DEF f
    <3> QED BY <2>3 DEF ExistsBijection
  <2> QED BY <2>2, <2>4, FS_Bijection
<1> QED BY <1>1, <1>5, <1>6, <1>7, <1>8, <1>9
    DEF AccessesAccounted, Accounts, BuffersApart, InFlight, LinesHeld, LinesAwaited

LEMMA InitInv == Init => Inv
<1> SUFFICES ASSUME Init PROVE Inv
  OBVIOUS
<1>1. program \in Programs
  BY DEF Init
<1>2. /\ Elements(<< >>) = {} /\ NoRepeats(<< >>)
      /\ << >> \in Seq(Accesses) /\ << >> \in Seq(Instructions)
      /\ Len(<< >>) = 0 /\ DOMAIN << >> = {}
  BY ElementsEmpty
<1>3. TypeOK
  <2>1. /\ injectIn \in [Accesses -> Past .. TagCycles] /\ nextInject \in 0 .. StoreCycles
        /\ injectEvent \in Unscheduled .. TagCycles
    BY LSQAssumption DEF Init, Past, Unscheduled
  <2>2. /\ blockedAccesses \in [Line -> Seq(Accesses)]
        /\ instQueues \in [Warp -> Seq(Instructions)]
        /\ outstanding \in [Warp -> Nat] /\ issued \in [Warp -> Nat]
        /\ membar \in [Warp -> BOOLEAN] /\ needsFenceUnblock \in [Warp -> BOOLEAN]
    BY <1>2 DEF Init
  <2>3. /\ commitBuffer \in Seq(Instructions) /\ ejectBuffer \in Seq(Accesses)
        /\ injectBuffer \in Seq(Accesses) /\ translated \in Seq(Accesses)
    BY <1>2 DEF Init
  <2> QED BY <2>1, <2>2, <2>3 DEF Init, TypeOK
<1>4. NoLostWakeup
  BY DEF Init, NoLostWakeup
<1>5. Queues
  <2>1. ASSUME NEW w \in Warp PROVE QueueOf(w)
    <3>1. Len(program[w]) \in Nat
      BY <1>1, ProgramTyped
    <3>2. issued[w] = 0 /\ instQueues[w] = << >>
      BY DEF Init
    <3> QED BY <1>2, <3>1, <3>2 DEF QueueOf
  <2> QED BY <2>1 DEF Queues
<1>6. \A i \in Instructions : ~InQueue(i) /\ ~AtHead(i)
  BY <1>1, <1>2, InstructionFacts DEF Init, InQueue, AtHead
<1>7. AccessesKnown
  BY <1>2, <1>6 DEF Init, AccessesKnown
<1>8. Committing /\ OnePerLine /\ FencesWait
  BY <1>2 DEF Init, Committing, OnePerLine, FencesWait
<1>9. InOneBuffer /\ BuffersApart /\ InFlight /\ LinesHeld /\ LinesAwaited
  BY <1>2 DEF Init, InOneBuffer, BuffersApart, InFlight, LinesHeld, LinesAwaited, Queued
<1>10. BuffersInUse
  BY <1>2, <1>6 DEF Init, BuffersInUse, Busy
<1>11. ASSUME NEW w \in Warp PROVE OutstandingOf(w)
  <2>1. FlightOf(w) = {} /\ outstanding[w] = 0
    BY <1>2 DEF Init, FlightOf
  <2> QED BY <2>1, FS_EmptySet DEF OutstandingOf
<1> QED BY <1>3, <1>4, <1>5, <1>7, <1>8, <1>9, <1>10, <1>11 DEF Inv, Accounts

-----------------------------------------------------------------------------
(* What a step leaves alone.                                               *)

LEMMA Frame ==
  ASSUME program' = program
  PROVE  /\ UNCHANGED <<issued, instQueues>> /\ Queues => Queues'
         /\ UNCHANGED <<issued, instQueues, coalesced, translated>> /\ AccessesKnown
              => AccessesKnown'
         /\ UNCHANGED <<issued, instQueues, coalesced, translated, commitBuffer>> /\ Committing
              => Committing'
         /\ UNCHANGED <<inCache, blockedAccesses, ejectBuffer>> /\ OnePerLine => OnePerLine'
         /\ UNCHANGED <<issued, instQueues, coalesced, translated>> /\ FencesWait
              => FencesWait'
         /\ UNCHANGED <<instQueues, coalesced, translated, injectBuffer, blockedAccesses>>
              /\ InOneBuffer => InOneBuffer'
         /\ UNCHANGED <<injectBuffer, blockedAccesses>> /\ BuffersApart => BuffersApart'
         /\ UNCHANGED <<coalesced, translated, inCache, ejectBuffer>> /\ InFlight => InFlight'
         /\ \A w : UNCHANGED <<coalesced, translated, outstanding>> /\ OutstandingOf(w)
              => OutstandingOf(w)'
         /\ UNCHANGED <<coalesced, translated, instQueues, commitBuffer, active>> /\ BuffersInUse
              => BuffersInUse'
         /\ UNCHANGED <<inCache, blockedLines>> /\ LinesHeld => LinesHeld'
         /\ UNCHANGED <<blockedAccesses, blockedLines, injectBuffer>> /\ LinesAwaited
              => LinesAwaited'
<1>1. /\ Instructions' = Instructions /\ Accesses' = Accesses
      /\ \A i : AccessesOf(i)' = AccessesOf(i) /\ IsFence(i)' = IsFence(i)
      /\ \A a : LineOf(a)' = LineOf(a)
  BY SameProgram
<1>2. ASSUME UNCHANGED <<issued, instQueues>>, Queues PROVE Queues'
  BY <1>2 DEF Queues, QueueOf
<1>3. ASSUME UNCHANGED <<issued, instQueues, coalesced, translated>>, AccessesKnown
      PROVE  AccessesKnown'
  BY <1>1, <1>3 DEF AccessesKnown, InQueue, AtHead, Issued
<1>4. ASSUME UNCHANGED <<issued, instQueues, coalesced, translated, commitBuffer>>, Committing
      PROVE  Committing'
  BY <1>1, <1>4 DEF Committing, InQueue, Issued
<1>5. ASSUME UNCHANGED <<inCache, blockedAccesses, ejectBuffer>>, OnePerLine PROVE OnePerLine'
  BY <1>1, <1>5 DEF OnePerLine
<1>6. ASSUME UNCHANGED <<issued, instQueues, coalesced, translated>>, FencesWait
      PROVE  FencesWait'
  BY <1>1, <1>6 DEF FencesWait, InQueue, Issued
<1>7. ASSUME UNCHANGED <<instQueues, coalesced, translated, injectBuffer, blockedAccesses>>,
             InOneBuffer
      PROVE  InOneBuffer'
  BY <1>1, <1>7 DEF InOneBuffer, Queued, AtHead
<1>8. ASSUME UNCHANGED <<injectBuffer, blockedAccesses>>, BuffersApart PROVE BuffersApart'
  BY <1>8 DEF BuffersApart
<1>9. ASSUME UNCHANGED <<coalesced, translated, inCache, ejectBuffer>>, InFlight PROVE InFlight'
  BY <1>9 DEF InFlight
<1>10. ASSUME NEW w, UNCHANGED <<coalesced, translated, outstanding>>, OutstandingOf(w)
       PROVE  OutstandingOf(w)'
  BY <1>10 DEF OutstandingOf, FlightOf
<1>11. ASSUME UNCHANGED <<coalesced, translated, instQueues, commitBuffer, active>>, BuffersInUse
       PROVE  BuffersInUse'
  BY <1>1, <1>11 DEF BuffersInUse, Busy, InQueue
<1>12. ASSUME UNCHANGED <<inCache, blockedLines>>, LinesHeld PROVE LinesHeld'
  BY <1>1, <1>12 DEF LinesHeld
<1>13. ASSUME UNCHANGED <<blockedAccesses, blockedLines, injectBuffer>>, LinesAwaited
       PROVE  LinesAwaited'
  BY <1>1, <1>13 DEF LinesAwaited
<1> HIDE DEF Queues, AccessesKnown, Committing, OnePerLine, FencesWait, InOneBuffer,
    BuffersApart, InFlight, OutstandingOf, BuffersInUse, LinesHeld, LinesAwaited
<1> QED BY <1>2, <1>3, <1>4, <1>5, <1>6, <1>7, <1>8, <1>9, <1>10, <1>11, <1>12, <1>13

\* Steps that only touch the core, the events or the cycles.
accounted == <<program, issued, active, instQueues, outstanding, coalesced, translated,
               injectBuffer, blockedLines, blockedAccesses, ejectBuffer, commitBuffer, inCache>>

LEMMA NothingMoved ==
  ASSUME Inv, UNCHANGED accounted, TypeOK', NoLostWakeup'
  PROVE  Inv'
BY Frame DEF Inv, Accounts, accounted

-----------------------------------------------------------------------------
(* Steps that move no access.                                              *)

LEMMA PollMembarInv == ASSUME Inv, NEW w \in Warp, PollMembar(w) PROVE Inv'
<1>1. UNCHANGED accounted /\ Instructions' = Instructions /\ Accesses' = Accesses
  BY SameProgram DEF PollMembar, accounted, inject, commit
<1>2. TypeOK'
  BY <1>1 DEF PollMembar, inject, commit, Inv, TypeOK
<1>3. NoLostWakeup'
  BY DEF PollMembar, inject, commit, Inv, NoLostWakeup
<1> QED BY <1>1, <1>2, <1>3, NothingMoved

LEMMA WritebackInv == ASSUME Inv, Writeback PROVE Inv'
<1>1. UNCHANGED accounted /\ Instructions' = Instructions /\ Accesses' = Accesses
  BY SameProgram DEF Writeback, accounted, inject
<1>2. TypeOK'
  <2>1. writebackBlocked' \in BOOLEAN /\ commitEvent' \in BOOLEAN
    BY DEF Writeback, RetryCommit, Inv, TypeOK
  <2> QED BY <1>1, <2>1 DEF Writeback, inject, Inv, TypeOK
<1>3. NoLostWakeup'
  BY DEF Writeback, RetryCommit, inject, Inv, NoLostWakeup, TypeOK
<1> QED BY <1>1, <1>2, <1>3, NothingMoved

LEMMA FinishKernelInv == ASSUME Inv, FinishKernel PROVE Inv'
<1>1. UNCHANGED accounted /\ Instructions' = Instructions /\ Accesses' = Accesses
  BY SameProgram DEF FinishKernel, accounted, inject, commit
<1>2. TypeOK'
  BY <1>1 DEF FinishKernel, inject, commit, Inv, TypeOK
<1>3. NoLostWakeup'
  BY DEF FinishKernel, inject, commit, Inv, NoLostWakeup
<1> QED BY <1>1, <1>2, <1>3, NothingMoved

LEMMA TickInv == ASSUME Inv, Tick PROVE Inv'
<1>1. UNCHANGED accounted /\ Instructions' = Instructions /\ Accesses' = Accesses
  BY SameProgram DEF Tick, accounted, inject, commit
<1>2. /\ injectIn' \in [Accesses -> Past .. TagCycles]
      /\ nextInject' \in 0 .. StoreCycles
      /\ injectEvent' \in Unscheduled .. TagCycles
  <2>1. /\ \A a \in Accesses : injectIn[a] \in Past .. TagCycles
        /\ nextInject \in 0 .. StoreCycles /\ injectEvent \in Unscheduled .. TagCycles
        /\ TagCycles \in Nat /\ StoreCycles \in Nat
    BY LSQAssumption DEF Inv, TypeOK
  <2>2. \A n \in Past .. TagCycles : n # Past => n - 1 \in Past .. TagCycles
    BY <2>1 DEF Past
  <2>3. nextInject' \in 0 .. StoreCycles
    BY <2>1 DEF Tick, Max0
  <2>4. injectEvent' \in Unscheduled .. TagCycles
    BY <2>1 DEF Tick, Unscheduled
  <2> QED BY <2>1, <2>2, <2>3, <2>4 DEF Tick
<1>3. TypeOK'
  BY <1>1, <1>2 DEF Tick, commit, Inv, TypeOK
<1>4. NoLostWakeup'
  <2>1. injectEvent' = Unscheduled <=> injectEvent = Unscheduled
    <3>1. injectEvent \in Unscheduled .. TagCycles /\ TagCycles \in Nat
      BY LSQAssumption DEF Inv, TypeOK
    <3> QED BY <3>1 DEF Tick, Unscheduled
  <2> QED BY <2>1 DEF Tick, commit, Inv, NoLostWakeup
<1> QED BY <1>1, <1>3, <1>4, NothingMoved

LEMMA ScheduleRetryInjectInv == ASSUME Inv, ScheduleRetryInject PROVE Inv'
<1>1. UNCHANGED accounted /\ Instructions' = Instructions /\ Accesses' = Accesses
  BY SameProgram DEF ScheduleRetryInject, core, accounted, commit
<1>2. TypeOK'
  <2>1. 0 \in Unscheduled .. TagCycles
    BY LSQAssumption DEF Unscheduled
  <2> QED BY <1>1, <2>1 DEF ScheduleRetryInject, core, commit, Inv, TypeOK
<1>3. NoLostWakeup'
  BY DEF ScheduleRetryInject, core, commit, Inv, NoLostWakeup, Unscheduled
<1> QED BY <1>1, <1>2, <1>3, NothingMoved

LEMMA StopInv ==
  ASSUME Inv, NEW why \in {"untried", "behind fence", "not fenced"}, Stop(why) PROVE Inv'
<1>1. UNCHANGED accounted /\ Instructions' = Instructions /\ Accesses' = Accesses
  BY SameProgram DEF Stop, core, accounted, inject, commit
<1>2. TypeOK'
  BY <1>1 DEF Stop, core, inject, commit, Inv, TypeOK
<1>3. NoLostWakeup'
  BY DEF Stop, core, inject, commit, Inv, NoLostWakeup
<1> QED BY <1>1, <1>2, <1>3, NothingMoved

LEMMA StutterInv == ASSUME Inv, UNCHANGED vars PROVE Inv'
<1>1. UNCHANGED accounted /\ Instructions' = Instructions /\ Accesses' = Accesses
  BY SameProgram DEF vars, core, accounted, inject, commit
<1>2. TypeOK'
  BY <1>1 DEF vars, core, inject, commit, Inv, TypeOK
<1>3. NoLostWakeup'
  BY DEF vars, core, inject, commit, Inv, NoLostWakeup
<1> QED BY <1>1, <1>2, <1>3, NothingMoved

-----------------------------------------------------------------------------
(* Commit.                                                                 *)

LEMMA CommitWarpInstInv == ASSUME Inv, CommitWarpInst PROVE Inv'
<1> DEFINE i == Head(commitBuffer)
<1>1. /\ UNCHANGED <<program, issued, sent, pending, kernelDone, instQueues, outstanding,
                     coalesced, translated, inject, ejectBuffer, ejectEvent, inCache, halted>>
      /\ commitEvent
  BY DEF CommitWarpInst
<1>2. /\ Instructions' = Instructions /\ Accesses' = Accesses
      /\ \A j : AccessesOf(j)' = AccessesOf(j) /\ IsFence(j)' = IsFence(j)
  BY <1>1, SameProgram
<1>3. /\ TypeOK /\ NoLostWakeup /\ commitBuffer \in Seq(Instructions) /\ commitBuffer # << >>
      /\ ~writebackBlocked /\ active \subseteq Instructions /\ program \in Programs
  BY <1>1 DEF Inv, TypeOK, NoLostWakeup
<1>4. /\ i \in Instructions /\ i \in Elements(commitBuffer)
      /\ Tail(commitBuffer) \in Seq(Instructions)
      /\ Elements(commitBuffer) = Elements(Tail(commitBuffer)) \union {i}
      /\ NoRepeats(commitBuffer) => /\ NoRepeats(Tail(commitBuffer))
                                    /\ i \notin Elements(Tail(commitBuffer))
  BY <1>3, TailElements
<1>5. \/ Release /\ wb' \in {wb, i}
      \/ /\ wb # None /\ wb' = wb /\ writebackBlocked' = TRUE /\ commitEvent' = FALSE
         /\ UNCHANGED <<active, commitBuffer>>
  BY DEF CommitWarpInst
<1>6. membar' \in [Warp -> BOOLEAN] /\ needsFenceUnblock' \in [Warp -> BOOLEAN]
  BY <1>3 DEF CommitWarpInst, TypeOK
<1>7. TypeOK'
  <2>1. /\ wb' \in Instructions \union {None} /\ commitBuffer' \in Seq(Instructions)
        /\ writebackBlocked' \in BOOLEAN /\ commitEvent' \in BOOLEAN
        /\ active' \subseteq Instructions
    BY <1>3, <1>4, <1>5 DEF Release, TypeOK
  <2> QED BY <1>1, <1>2, <1>3, <1>6, <2>1 DEF TypeOK, inject
<1>8. NoLostWakeup'
  <2>1. /\ commitEvent' <=> commitBuffer' # << >> /\ ~writebackBlocked'
        /\ writebackBlocked' => commitBuffer' # << >> /\ wb' # None
    <3>1. CASE Release
      <4>1. (commitEvent' <=> commitBuffer' # << >>) /\ ~writebackBlocked'
        BY <1>3, <3>1 DEF Release
      <4> QED BY <4>1
    <3>2. CASE wb # None /\ wb' = wb /\ writebackBlocked' = TRUE /\ commitEvent' = FALSE
                 /\ commitBuffer' = commitBuffer
      BY <1>3, <3>2
    <3> QED BY <1>5, <3>1, <3>2
  <2> QED BY <1>1, <1>3, <2>1 DEF NoLostWakeup, inject
<1>9. CASE UNCHANGED <<active, commitBuffer>>
  <2>1. UNCHANGED accounted
    BY <1>1, <1>9 DEF accounted, inject
  <2> QED BY <2>1, <1>7, <1>8, NothingMoved
<1>10. CASE Release
  <2>1. /\ commitBuffer' = Tail(commitBuffer) /\ active' = active \ {i}
    BY <1>10 DEF Release
  <2>2. NoRepeats(commitBuffer) /\ Committing
    BY DEF Inv, Committing
  <2> HIDE DEF i
  <2>3. Committing'
    <3>1. Committing' <=>
            /\ NoRepeats(commitBuffer')
            /\ \A j \in Elements(commitBuffer') :
                 /\ j \in Issued /\ ~InQueue(j)
                 /\ AccessesOf(j) \intersect (coalesced \union Elements(translated)) = {}
      BY <1>1, <1>2 DEF Committing, Issued, InQueue
    <3> QED BY <1>4, <2>1, <2>2, <3>1 DEF Committing
  <2>4. BuffersInUse'
    <3>1. ASSUME NEW j \in Instructions
          PROVE  Busy(j)' <=> \/ \E a \in coalesced \union Elements(translated) : InstOf(a) = j
                              \/ InQueue(j)
                              \/ j \in Elements(commitBuffer')
      BY <1>1 DEF Busy, InQueue
    <3>2. ~InQueue(i) /\ AccessesOf(i) \intersect (coalesced \union Elements(translated)) = {}
      BY <1>4, <2>2 DEF Committing
    <3>3. ~ \E a \in coalesced \union Elements(translated) : InstOf(a) = i
      <4>1. coalesced \subseteq Accesses /\ Elements(translated) \subseteq Accesses
        BY <1>3, ElementsIn DEF TypeOK
      <4>2. \A a \in Accesses : a \in AccessesOf(InstOf(a))
        BY <1>3, AccessFacts
      <4> QED BY <3>2, <4>1, <4>2
    <3>4. ASSUME NEW j \in Instructions PROVE j \in active' <=> Busy(j)'
      <4>1. j \in active <=> Busy(j)
        BY DEF Inv, Accounts, BuffersInUse
      <4>2. CASE j = i
        BY <1>4, <2>1, <2>2, <3>1, <3>2, <3>3, <4>2
      <4>3. CASE j # i
        BY <1>4, <2>1, <3>1, <4>1, <4>3 DEF Busy
      <4> QED BY <4>2, <4>3
    <3> QED BY <1>2, <3>4 DEF BuffersInUse
  <2>5. /\ Queues' /\ AccessesKnown' /\ OnePerLine' /\ FencesWait'
        /\ InOneBuffer' /\ BuffersApart' /\ InFlight' /\ (\A w \in Warp : OutstandingOf(w))'
        /\ LinesHeld' /\ LinesAwaited'
    BY <1>1, Frame DEF Inv, Accounts, inject
  <2> QED BY <1>7, <1>8, <2>3, <2>4, <2>5 DEF Inv, Accounts
<1> QED BY <1>5, <1>9, <1>10

-----------------------------------------------------------------------------
(* Translation.                                                            *)

LEMMA InjectTimesTyped ==
  ASSUME TypeOK, NEW pushed
  PROVE  /\ InjectTimes(pushed) \in [Accesses -> Past .. TagCycles]
         /\ TagCycles \in 1 .. TagCycles /\ TagCycles \in Unscheduled .. TagCycles
         /\ TagCycles # Unscheduled
<1>1. TagCycles \in Past .. TagCycles /\ \A a \in Accesses : injectIn[a] \in Past .. TagCycles
  <2>1. injectIn \in [Accesses -> Past .. TagCycles]
    BY DEF TypeOK
  <2>2. TagCycles \in Past .. TagCycles
    BY LSQAssumption DEF Past
  <2> QED BY <2>1, <2>2
<1>2. InjectTimes(pushed) \in [Accesses -> Past .. TagCycles]
  BY <1>1 DEF InjectTimes
<1>3. /\ TagCycles \in 1 .. TagCycles /\ TagCycles \in Unscheduled .. TagCycles
      /\ TagCycles # Unscheduled
  BY LSQAssumption DEF Unscheduled
<1> QED BY <1>2, <1>3

LEMMA FinishTranslationInv ==
  ASSUME Inv, NEW a \in Accesses, FinishTranslation(a) PROVE Inv'
<1> DEFINE T == Elements(translated)
           C == coalesced
<1>1. /\ UNCHANGED <<program, core, active, instQueues, outstanding, coalesced,
                     nextInject, blockedLines, blockedAccesses, mshrsFull,
                     ejectBuffer, ejectEvent, commit, inCache, halted>>
      /\ a \in coalesced /\ a \notin Elements(translated)
      /\ translated' = Append(translated, a)
      /\ \/ /\ AtHead(InstOf(a))
            /\ injectBuffer' = Append(injectBuffer, a)
            /\ injectIn' = InjectTimes(<<a>>)
            /\ injectEvent' = IF injectEvent = Unscheduled /\ ~mshrsFull
                              THEN TagCycles ELSE injectEvent
         \/ /\ ~AtHead(InstOf(a))
            /\ UNCHANGED <<injectBuffer, injectIn, injectEvent>>
  BY DEF FinishTranslation
<1>2. /\ Instructions' = Instructions /\ Accesses' = Accesses
      /\ \A i : AccessesOf(i)' = AccessesOf(i) /\ IsFence(i)' = IsFence(i)
      /\ \A b : LineOf(b)' = LineOf(b)
  BY <1>1, SameProgram
<1>3. /\ TypeOK /\ NoLostWakeup /\ program \in Programs
      /\ translated \in Seq(Accesses) /\ injectBuffer \in Seq(Accesses)
      /\ Queues /\ AccessesKnown /\ Committing /\ FencesWait
      /\ InOneBuffer /\ BuffersApart /\ InFlight /\ BuffersInUse /\ LinesAwaited
  BY DEF Inv, TypeOK, Accounts
<1>4. /\ translated' \in Seq(Accesses)
      /\ Elements(translated') = T \union {a}
      /\ NoRepeats(translated) => NoRepeats(translated')
  BY <1>1, <1>3, AppendElements
<1>5. \/ /\ AtHead(InstOf(a))
         /\ injectBuffer' \in Seq(Accesses)
         /\ Elements(injectBuffer') = Elements(injectBuffer) \union {a}
         /\ injectBuffer' # << >>
         /\ NoRepeats(injectBuffer) /\ a \notin Elements(injectBuffer) => NoRepeats(injectBuffer')
      \/ ~AtHead(InstOf(a)) /\ injectBuffer' = injectBuffer
  <2>1. LET q == Append(injectBuffer, a) IN
        /\ q \in Seq(Accesses) /\ q # << >>
        /\ Elements(q) = Elements(injectBuffer) \union {a}
        /\ NoRepeats(injectBuffer) /\ a \notin Elements(injectBuffer) => NoRepeats(q)
    BY <1>3, AppendElements
  <2> QED BY <1>1, <2>1
<1>6. TypeOK'
  <2>1. /\ injectIn' \in [Accesses -> Past .. TagCycles]
        /\ injectEvent' \in Unscheduled .. TagCycles
        /\ injectBuffer' \in Seq(Accesses)
    <3>1. /\ InjectTimes(<<a>>) \in [Accesses -> Past .. TagCycles]
          /\ TagCycles \in Unscheduled .. TagCycles
          /\ injectIn \in [Accesses -> Past .. TagCycles]
          /\ injectEvent \in Unscheduled .. TagCycles
      BY <1>3, InjectTimesTyped DEF TypeOK
    <3> QED BY <1>1, <1>3, <1>5, <3>1
  <2> QED BY <1>1, <1>2, <1>3, <1>4, <2>1 DEF TypeOK, core, commit
<1>7. NoLostWakeup'
  <2>1. TagCycles # Unscheduled
    BY LSQAssumption DEF Unscheduled
  <2> QED BY <1>1, <1>3, <1>5, <2>1 DEF NoLostWakeup, core, commit
<1>8. /\ C' = C /\ Elements(translated') \ C = T \ C
      /\ C \union Elements(translated') = C \union T
  BY <1>1, <1>4
<1>9. AccessesKnown'
  <2>1. InstOf(a) \in Issued
    <3>1. InstOf(a) \in Instructions /\ InQueue(InstOf(a))
      BY <1>1, <1>3, AccessFacts DEF AccessesKnown
    <3> QED BY <1>3, <3>1, QueueOrder
  <2>2. AccessesKnown' <=>
          /\ NoRepeats(translated')
          /\ \A b \in coalesced : InQueue(InstOf(b))
          /\ \A b \in Elements(translated') : InstOf(b) \in Issued
          /\ \A i \in Instructions :
               InQueue(i) /\ ~AtHead(i) => AccessesOf(i) \subseteq coalesced
          /\ \A i \in Instructions :
               AtHead(i) /\ ~IsFence(i) => AccessesOf(i) \intersect coalesced # {}
    BY <1>1, <1>2 DEF AccessesKnown, InQueue, AtHead, Issued, core
  <2> QED BY <1>3, <1>4, <2>1, <2>2 DEF AccessesKnown
<1>10. Committing'
  <2>1. Committing' <=>
          /\ NoRepeats(commitBuffer)
          /\ \A i \in Elements(commitBuffer) :
               /\ i \in Issued /\ ~InQueue(i)
               /\ AccessesOf(i) \intersect (C \union Elements(translated')) = {}
    BY <1>1, <1>2 DEF Committing, InQueue, Issued, core, commit
  <2> QED BY <1>3, <1>8, <2>1 DEF Committing
<1>11. FencesWait'
  <2>1. FencesWait' <=>
          \A f \in Issued : IsFence(f) =>
            \A b \in Elements(translated') \ C : b[1] = f[1] /\ b[2] < f[2] => InQueue(f)
    BY <1>1, <1>2 DEF FencesWait, InQueue, Issued, core
  <2> QED BY <1>3, <1>8, <2>1 DEF FencesWait
<1>12. InFlight'
  <2>1. InFlight' <=> Elements(translated') \ C = inCache \union Elements(ejectBuffer)
    BY <1>1 DEF InFlight
  <2> QED BY <1>3, <1>8, <2>1 DEF InFlight
<1>13. \A w \in Warp : OutstandingOf(w)'
  <2>1. ASSUME NEW w \in Warp PROVE OutstandingOf(w)'
    <3>1. OutstandingOf(w)
      BY DEF Inv, Accounts
    <3>2. FlightOf(w)' = FlightOf(w)
      BY <1>1, <1>8 DEF FlightOf
    <3> QED BY <1>1, <3>1, <3>2 DEF OutstandingOf
  <2> QED BY <2>1
<1>14. BuffersInUse'
  <2>1. ASSUME NEW i \in Instructions PROVE Busy(i)' <=> Busy(i)
    BY <1>1, <1>8 DEF Busy, InQueue, commit
  <2> QED BY <1>1, <1>2, <1>3, <2>1 DEF BuffersInUse
<1>15. a \notin Queued
  BY <1>1, <1>3 DEF InOneBuffer
<1>16. InOneBuffer'
  <2>1. Queued' = IF AtHead(InstOf(a)) THEN Queued \union {a} ELSE Queued
    BY <1>1, <1>5 DEF Queued
  <2>2. \A i : AtHead(i)' <=> AtHead(i)
    BY <1>1 DEF AtHead
  <2> QED BY <1>1, <1>2, <1>3, <1>4, <2>1, <2>2 DEF InOneBuffer
<1>17. BuffersApart'
  <2>1. a \notin Elements(injectBuffer) /\ \A l \in Line : a \notin Elements(blockedAccesses[l])
    BY <1>15 DEF Queued
  <2> QED BY <1>1, <1>3, <1>5, <2>1 DEF BuffersApart
<1>18. LinesAwaited'
  BY <1>1, <1>2, <1>3, <1>5 DEF LinesAwaited
<1>19. Queues' /\ OnePerLine' /\ LinesHeld'
  BY <1>1, Frame DEF Inv, Accounts, core
<1> QED BY <1>6, <1>7, <1>9, <1>10, <1>11, <1>12, <1>13, <1>14, <1>16, <1>17, <1>18, <1>19
    DEF Inv, Accounts

-----------------------------------------------------------------------------
(* Issue.                                                                  *)

\* The instruction of warp w that is issued next.
NextOf(w) == <<w, issued[w] + 1>>

LEMMA IssueEffect ==
  ASSUME Inv, NEW w \in Warp, IssueMemInst(w)
  PROVE  LET i == NextOf(w) IN
         /\ i \in Instructions /\ i \notin Issued /\ i[1] = w
         /\ Issued' = Issued \union {i}
         /\ coalesced' = coalesced \union AccessesOf(i)
         /\ AccessesOf(i) \intersect (coalesced \union Elements(translated)) = {}
         /\ ~InQueue(i) /\ i \notin Elements(commitBuffer)
         /\ \/ /\ \A j \in Instructions : InQueue(j)' <=> InQueue(j) \/ j = i
               /\ \A j \in Instructions :
                    AtHead(j)' <=> AtHead(j) \/ (j = i /\ instQueues[w] = << >>)
               /\ ~IsFence(i) \/ instQueues[w] # << >> \/ outstanding[w] # 0
               /\ instQueues' = [instQueues EXCEPT ![w] = Append(@, i)]
               /\ UNCHANGED commit
            \/ /\ \A j \in Instructions : /\ InQueue(j)' <=> InQueue(j)
                                          /\ AtHead(j)' <=> AtHead(j)
               /\ IsFence(i) /\ AccessesOf(i) = {} /\ outstanding[w] = 0
               /\ instQueues[w] = << >> /\ UNCHANGED instQueues
               /\ PushToCommit(i)
<1> DEFINE i == NextOf(w)
<1>1. /\ i \in Instructions
      /\ issued' = [issued EXCEPT ![w] = @ + 1]
      /\ program' = program
      /\ IF IsFence(i)
         THEN /\ coalesced' = coalesced
              /\ IF outstanding[w] = 0 /\ instQueues[w] = << >>
                 THEN PushToCommit(i) /\ UNCHANGED instQueues
                 ELSE /\ instQueues' = [instQueues EXCEPT ![w] = Append(@, i)]
                      /\ UNCHANGED commit
         ELSE /\ instQueues' = [instQueues EXCEPT ![w] = Append(@, i)]
              /\ coalesced' = coalesced \union AccessesOf(i)
              /\ UNCHANGED commit
  BY DEF IssueMemInst, NextOf
<1>2. /\ TypeOK /\ Queues /\ program \in Programs /\ AccessesKnown /\ Committing
      /\ issued \in [Warp -> Nat] /\ issued[w] \in Nat
      /\ instQueues \in [Warp -> Seq(Instructions)] /\ instQueues[w] \in Seq(Instructions)
      /\ coalesced \subseteq Accesses /\ Elements(translated) \subseteq Accesses
  BY ElementsIn DEF Inv, TypeOK
<1>3. i[1] = w /\ i[2] = issued[w] + 1 /\ i = <<w, issued[w] + 1>>
  BY DEF NextOf
<1>4. i \notin Issued
  BY <1>2, <1>3 DEF Issued
<1>5. Issued' = Issued \union {i}
  <2>1. Instructions' = Instructions
    BY <1>1, SameProgram
  <2>2. ASSUME NEW j \in Instructions PROVE j[2] <= issued'[j[1]] <=> j \in Issued \/ j = i
    <3>1. /\ j[1] \in Warp /\ j[2] \in Nat /\ j = <<j[1], j[2]>>
      BY <1>2, InstructionFacts
    <3>2. CASE j[1] = w
      <4>1. issued'[j[1]] = issued[w] + 1
        BY <1>1, <1>2, <3>2
      <4>2. j \in Issued <=> j[2] <= issued[w]
        BY <3>2 DEF Issued
      <4>3. j = i <=> j[2] = issued[w] + 1
        BY <1>3, <3>1, <3>2
      <4> QED BY <1>2, <3>1, <4>1, <4>2, <4>3
    <3>3. CASE j[1] # w
      BY <1>1, <1>2, <1>3, <3>1, <3>3 DEF Issued
    <3> QED BY <3>2, <3>3
  <2>3. Issued' = {j \in Instructions : j[2] <= issued'[j[1]]}
    BY <2>1 DEF Issued
  <2>4. Issued \subseteq Instructions
    BY DEF Issued
  <2> QED BY <1>1, <2>2, <2>3, <2>4
<1>6. IsFence(i) <=> AccessesOf(i) = {}
  BY <1>1, <1>2, InstructionFacts
<1>7. AccessesOf(i) \intersect (coalesced \union Elements(translated)) = {}
  <2>1. ASSUME NEW a \in coalesced \union Elements(translated) PROVE InstOf(a) \in Issued
    <3>1. CASE a \in Elements(translated)
      BY <1>2, <3>1 DEF AccessesKnown
    <3>2. CASE a \in coalesced
      <4>1. InstOf(a) \in Instructions /\ InQueue(InstOf(a))
        BY <1>2, <3>2, AccessFacts DEF AccessesKnown
      <4> QED BY <1>2, <4>1, QueueOrder
    <3> QED BY <3>1, <3>2
  <2>2. \A a \in AccessesOf(i) : InstOf(a) = i
    BY <1>1, <1>2, InstructionFacts
  <2> QED BY <1>4, <2>1, <2>2
<1>8. ~InQueue(i) /\ i \notin Elements(commitBuffer)
  <2>1. InQueue(i) => i \in Issued
    BY <1>1, <1>2, QueueOrder
  <2> QED BY <1>2, <1>4, <2>1 DEF Committing
<1> HIDE DEF i
<1>9. ASSUME instQueues' = [instQueues EXCEPT ![w] = Append(@, i)]
      PROVE  /\ \A j \in Instructions : InQueue(j)' <=> InQueue(j) \/ j = i
             /\ \A j \in Instructions :
                  AtHead(j)' <=> AtHead(j) \/ (j = i /\ instQueues[w] = << >>)
  <2>1. LET q == Append(instQueues[w], i) IN
        /\ q # << >> /\ Elements(q) = Elements(instQueues[w]) \union {i}
        /\ instQueues[w] # << >> => Head(q) = Head(instQueues[w])
        /\ instQueues[w] = << >> => Head(q) = i
    BY <1>1, <1>2, AppendElements
  <2>2. /\ instQueues'[w] = Append(instQueues[w], i)
        /\ \A v \in Warp : v # w => instQueues'[v] = instQueues[v]
    BY <1>2, <1>9
  <2>3. ASSUME NEW j \in Instructions
        PROVE  /\ InQueue(j)' <=> InQueue(j) \/ j = i
               /\ AtHead(j)' <=> AtHead(j) \/ (j = i /\ instQueues[w] = << >>)
    <3>1. j[1] \in Warp
      BY <1>2, InstructionFacts
    <3>2. CASE j[1] = w
      <4>1. InQueue(j)' <=> InQueue(j) \/ j = i
        <5>1. InQueue(j) <=> j \in Elements(instQueues[w])
          BY <3>2 DEF InQueue
        <5>2. InQueue(j)' <=> j \in Elements(instQueues'[w])
          BY <3>2 DEF InQueue
        <5> QED BY <2>1, <2>2, <5>1, <5>2
      <4>2. AtHead(j)' <=> Head(instQueues'[w]) = j
        BY <2>1, <2>2, <3>2 DEF AtHead
      <4> QED BY <2>1, <2>2, <3>2, <4>1, <4>2 DEF AtHead
    <3>3. CASE j[1] # w
      BY <1>3, <2>2, <3>1, <3>3 DEF InQueue, AtHead
    <3> QED BY <3>2, <3>3
  <2> QED BY <2>3
<1>10. ASSUME UNCHANGED instQueues
       PROVE  \A j \in Instructions : /\ InQueue(j)' <=> InQueue(j)
                                      /\ AtHead(j)' <=> AtHead(j)
  BY <1>10 DEF InQueue, AtHead
<1>11. i = NextOf(w)
  BY DEF i
<1>12. coalesced' = coalesced \union AccessesOf(i)
  BY <1>1, <1>6
<1>13. CASE IsFence(i) /\ outstanding[w] = 0 /\ instQueues[w] = << >>
  BY <1>1, <1>3, <1>4, <1>5, <1>6, <1>7, <1>8, <1>10, <1>11, <1>12, <1>13
<1>14. CASE ~(IsFence(i) /\ outstanding[w] = 0 /\ instQueues[w] = << >>)
  <2>1. instQueues' = [instQueues EXCEPT ![w] = Append(@, i)] /\ UNCHANGED commit
    BY <1>1, <1>14
  <2>2. ~IsFence(i) \/ instQueues[w] # << >> \/ outstanding[w] # 0
    BY <1>14
  <2> QED BY <1>1, <1>3, <1>4, <1>5, <1>7, <1>8, <1>9, <1>11, <1>12, <2>1, <2>2
<1> QED BY <1>13, <1>14
LEMMA IssueQueues ==
  ASSUME Inv, NEW w \in Warp, IssueMemInst(w) PROVE Queues'
<1> DEFINE i == NextOf(w)
<1>1. /\ i \in Instructions /\ program' = program
      /\ issued' = [issued EXCEPT ![w] = @ + 1]
  BY DEF IssueMemInst, NextOf
<1>2. \/ instQueues' = [instQueues EXCEPT ![w] = Append(@, i)]
      \/ instQueues[w] = << >> /\ UNCHANGED instQueues
  BY IssueEffect
<1>3. /\ TypeOK /\ program \in Programs /\ Queues
      /\ issued \in [Warp -> Nat] /\ issued[w] \in Nat
      /\ instQueues \in [Warp -> Seq(Instructions)] /\ instQueues[w] \in Seq(Instructions)
  BY DEF Inv, TypeOK
<1>4. issued[w] + 1 <= Len(program[w])
  <2>1. i[1] = w /\ i[2] = issued[w] + 1
    BY DEF NextOf
  <2>2. i[2] \in DOMAIN program[w] /\ DOMAIN program[w] = 1 .. Len(program[w])
    BY <1>1, <1>3, <2>1, InstructionFacts, ProgramTyped
  <2> QED BY <2>1, <2>2
<1>5. ASSUME NEW v \in Warp PROVE QueueOf(v)'
  <2>1. QueueOf(v)
    BY <1>3 DEF Queues
  <2>2. CASE v # w
    <3>1. issued'[v] = issued[v] /\ instQueues'[v] = instQueues[v]
      BY <1>1, <1>2, <1>3, <2>2
    <3> QED BY <1>1, <2>1, <3>1 DEF QueueOf
  <2>3. CASE v = w /\ instQueues[w] = << >> /\ UNCHANGED instQueues
    <3>1. issued'[v] = issued[w] + 1 /\ instQueues'[v] = << >>
      BY <1>1, <1>3, <2>3
    <3>2. Len(<< >>) = 0 /\ DOMAIN << >> = {}
      OBVIOUS
    <3> QED BY <1>1, <1>3, <1>4, <2>3, <3>1, <3>2 DEF QueueOf
  <2>4. CASE v = w /\ instQueues' = [instQueues EXCEPT ![w] = Append(@, i)]
    <3> DEFINE q == instQueues[w]
               p == Append(q, i)
    <3>1. issued'[w] = issued[w] + 1 /\ instQueues'[w] = p
      BY <1>1, <1>3, <2>4
    <3>2. /\ Len(q) \in Nat /\ Len(p) = Len(q) + 1 /\ DOMAIN p = 1 .. Len(q) + 1
          /\ DOMAIN q = 1 .. Len(q)
          /\ \A j \in 1 .. Len(q) : p[j] = q[j]
          /\ p[Len(q) + 1] = i
      BY <1>1, <1>3
    <3>3. /\ Len(q) <= issued[w]
          /\ \A j \in 1 .. Len(q) : q[j] = <<w, issued[w] - Len(q) + j>>
      BY <2>1, <2>4, <3>2 DEF QueueOf
    <3> HIDE DEF q, p
    <3>4. ASSUME NEW j \in 1 .. Len(q) + 1
          PROVE  p[j] = <<w, (issued[w] + 1) - (Len(q) + 1) + j>>
      <4>1. CASE j \in 1 .. Len(q)
        <5>1. (issued[w] + 1) - (Len(q) + 1) + j = issued[w] - Len(q) + j
          BY <1>3, <3>2
        <5> QED BY <3>2, <3>3, <4>1, <5>1
      <4>2. CASE j = Len(q) + 1
        <5>1. (issued[w] + 1) - (Len(q) + 1) + j = issued[w] + 1
          BY <1>3, <3>2, <4>2
        <5> QED BY <3>2, <4>2, <5>1 DEF NextOf
      <4> QED BY <3>2, <4>1, <4>2
    <3>5. Len(q) + 1 <= issued[w] + 1
      BY <1>3, <3>2, <3>3
    <3> QED BY <1>1, <1>4, <2>4, <3>1, <3>2, <3>4, <3>5 DEF QueueOf
  <2> QED BY <1>2, <2>2, <2>3, <2>4
<1> QED BY <1>5 DEF Queues

\* The types and wake-ups, which an issue changes in the core and the commit stage.
LEMMA IssueTyped ==
  ASSUME Inv, NEW w \in Warp, IssueMemInst(w) PROVE TypeOK' /\ NoLostWakeup'
<1> DEFINE i == NextOf(w)
<1>1. /\ UNCHANGED <<program, wb, kernelDone, outstanding, translated, inject,
                     ejectBuffer, ejectEvent, inCache, halted>>
      /\ sent' = TRUE /\ issued' = [issued EXCEPT ![w] = @ + 1]
      /\ active' = active \union {i} /\ i \in Instructions
      /\ membar' \in {membar, [membar EXCEPT ![w] = TRUE]}
      /\ needsFenceUnblock' \in {needsFenceUnblock, [needsFenceUnblock EXCEPT ![w] = TRUE]}
      /\ pending' \in {pending, pending \union {i}}
  BY DEF IssueMemInst, NextOf
<1>2. /\ coalesced' = coalesced \union AccessesOf(i)
      /\ \/ instQueues' = [instQueues EXCEPT ![w] = Append(@, i)] /\ UNCHANGED commit
         \/ UNCHANGED instQueues /\ PushToCommit(i)
  BY IssueEffect
<1>3. /\ TypeOK /\ NoLostWakeup /\ program \in Programs
      /\ Instructions' = Instructions /\ Accesses' = Accesses
      /\ issued \in [Warp -> Nat] /\ pending \subseteq Instructions
      /\ instQueues \in [Warp -> Seq(Instructions)] /\ commitBuffer \in Seq(Instructions)
      /\ coalesced \subseteq Accesses /\ active \subseteq Instructions
      /\ membar \in [Warp -> BOOLEAN] /\ needsFenceUnblock \in [Warp -> BOOLEAN]
      /\ writebackBlocked \in BOOLEAN /\ commitEvent \in BOOLEAN
  BY <1>1, SameProgram DEF Inv, TypeOK
<1>4. AccessesOf(i) \subseteq Accesses
  BY <1>1, <1>3, InstructionFacts
<1> HIDE DEF i
<1>5. /\ Append(instQueues[w], i) \in Seq(Instructions)
      /\ Append(commitBuffer, i) \in Seq(Instructions) /\ Append(commitBuffer, i) # << >>
  BY <1>1, <1>3, AppendElements
<1>6. /\ issued' \in [Warp -> Nat]
      /\ membar' \in [Warp -> BOOLEAN] /\ needsFenceUnblock' \in [Warp -> BOOLEAN]
  <2>1. issued' \in [Warp -> Nat]
    <3>1. issued[w] \in Nat
      BY <1>3
    <3>2. issued[w] + 1 \in Nat
      BY <3>1
    <3> QED BY <1>1, <1>3, <3>2
  <2>2. \A f \in [Warp -> BOOLEAN] : [f EXCEPT ![w] = TRUE] \in [Warp -> BOOLEAN]
    OBVIOUS
  <2> QED BY <1>1, <1>3, <2>1, <2>2
<1>7. /\ instQueues' \in [Warp -> Seq(Instructions)] /\ commitBuffer' \in Seq(Instructions)
      /\ writebackBlocked' \in BOOLEAN /\ commitEvent' \in BOOLEAN
  <2>1. CASE instQueues' = [instQueues EXCEPT ![w] = Append(@, i)] /\ UNCHANGED commit
    BY <1>3, <1>5, <2>1 DEF commit
  <2>2. CASE UNCHANGED instQueues /\ PushToCommit(i)
    BY <1>3, <1>5, <2>2 DEF PushToCommit
  <2> QED BY <1>2, <2>1, <2>2
<1>8. TypeOK'
  <2>1. /\ coalesced' \subseteq Accesses /\ active' \subseteq Instructions
        /\ pending' \subseteq Instructions
    BY <1>1, <1>2, <1>3, <1>4
  <2> QED BY <1>1, <1>3, <1>6, <1>7, <2>1 DEF TypeOK, inject
<1>9. NoLostWakeup'
  <2>1. /\ commitEvent' <=> commitBuffer' # << >> /\ ~writebackBlocked'
        /\ writebackBlocked' => commitBuffer' # << >> /\ wb' # None
    <3>1. CASE UNCHANGED commit
      BY <1>1, <1>3, <3>1 DEF NoLostWakeup, commit
    <3>2. CASE PushToCommit(i)
      BY <1>1, <1>3, <1>5, <3>2 DEF NoLostWakeup, PushToCommit
    <3> QED BY <1>2, <3>1, <3>2
  <2> QED BY <1>1, <1>3, <2>1 DEF NoLostWakeup, inject
<1> QED BY <1>8, <1>9

LEMMA IssueMemInstInv ==
  ASSUME Inv, NEW w \in Warp, IssueMemInst(w) PROVE Inv'
<1>0. PICK i \in Instructions : i = NextOf(w)
  BY IssueEffect
<1> DEFINE A == AccessesOf(i)
           T == Elements(translated)
<1>1. /\ UNCHANGED <<program, outstanding, translated, inject, ejectBuffer, inCache>>
      /\ active' = active \union {i}
  BY <1>0 DEF IssueMemInst, NextOf
<1>2. /\ i \in Instructions /\ i \notin Issued /\ i[1] = w
      /\ Issued' = Issued \union {i}
      /\ coalesced' = coalesced \union A
      /\ A \intersect (coalesced \union T) = {}
      /\ ~InQueue(i) /\ i \notin Elements(commitBuffer)
  BY <1>0, IssueEffect
<1>3. \/ /\ \A j \in Instructions : InQueue(j)' <=> InQueue(j) \/ j = i
         /\ \A j \in Instructions :
              AtHead(j)' <=> AtHead(j) \/ (j = i /\ instQueues[w] = << >>)
         /\ ~IsFence(i) \/ instQueues[w] # << >> \/ outstanding[w] # 0
         /\ UNCHANGED commit
      \/ /\ \A j \in Instructions : /\ InQueue(j)' <=> InQueue(j)
                                    /\ AtHead(j)' <=> AtHead(j)
         /\ IsFence(i) /\ A = {} /\ outstanding[w] = 0
         /\ instQueues[w] = << >>
         /\ PushToCommit(i)
  BY <1>0, IssueEffect
<1>4. /\ TypeOK /\ Queues /\ AccessesKnown /\ Committing /\ FencesWait /\ program \in Programs
      /\ InOneBuffer /\ InFlight /\ BuffersInUse
      /\ coalesced \subseteq Accesses /\ T \subseteq Accesses
      /\ commitBuffer \in Seq(Instructions)
  BY ElementsIn DEF Inv, TypeOK, Accounts
<1>5. /\ Instructions' = Instructions /\ Accesses' = Accesses
      /\ \A j : AccessesOf(j)' = AccessesOf(j) /\ IsFence(j)' = IsFence(j)
  BY <1>1, SameProgram
<1>6. /\ \A a \in A : InstOf(a) = i
      /\ \A a \in Accesses : InstOf(a) \in Instructions /\ a \in AccessesOf(InstOf(a))
      /\ IsFence(i) <=> A = {}
      /\ A \subseteq Accesses
  BY <1>2, <1>4, InstructionFacts, AccessFacts
<1>7. ~AtHead(i)
  BY <1>2, <1>4, QueueOrder
<1> HIDE DEF A, T
<1>8. T' = T
  BY <1>1 DEF T
<1>9. Issued \subseteq Instructions
  BY DEF Issued
<1>10. A \intersect coalesced = {} /\ A \intersect T = {}
  BY <1>2
<1>11. AccessesKnown'
  <2>1. \A j \in Instructions : InQueue(j)' /\ ~AtHead(j)' => AccessesOf(j) \subseteq coalesced'
    <3>1. ASSUME NEW j \in Instructions, InQueue(j)', ~AtHead(j)'
          PROVE  AccessesOf(j) \subseteq coalesced'
      <4>1. CASE j = i
        BY <1>2, <4>1 DEF A
      <4>2. CASE j # i
        BY <1>2, <1>3, <1>4, <3>1, <4>2 DEF AccessesKnown
      <4> QED BY <4>1, <4>2
    <3> QED BY <3>1
  <2>2. \A j \in Instructions :
          AtHead(j)' /\ ~IsFence(j) => AccessesOf(j) \intersect coalesced' # {}
    <3>1. ASSUME NEW j \in Instructions, AtHead(j)', ~IsFence(j)
          PROVE  AccessesOf(j) \intersect coalesced' # {}
      <4>1. CASE j = i
        BY <1>2, <1>6, <3>1, <4>1 DEF A
      <4>2. CASE j # i
        BY <1>2, <1>3, <1>4, <3>1, <4>2 DEF AccessesKnown
      <4> QED BY <4>1, <4>2
    <3> QED BY <3>1
  <2>3. \A a \in coalesced' : InQueue(InstOf(a))'
    <3>1. ASSUME NEW a \in coalesced PROVE InQueue(InstOf(a))'
      <4>1. InstOf(a) \in Instructions /\ InQueue(InstOf(a))
        BY <1>4, <1>6 DEF AccessesKnown
      <4> QED BY <1>3, <4>1
    <3>2. ASSUME NEW a \in A PROVE InQueue(InstOf(a))'
      BY <1>2, <1>3, <1>6
    <3> QED BY <1>2, <3>1, <3>2
  <2>4. \A a \in T : InstOf(a) \in Issued'
    BY <1>2, <1>4 DEF AccessesKnown, T
  <2>5. AccessesKnown' <=>
          /\ NoRepeats(translated)
          /\ \A a \in coalesced' : InQueue(InstOf(a))'
          /\ \A a \in T' : InstOf(a) \in Issued'
          /\ \A j \in Instructions :
               InQueue(j)' /\ ~AtHead(j)' => AccessesOf(j) \subseteq coalesced'
          /\ \A j \in Instructions :
               AtHead(j)' /\ ~IsFence(j) => AccessesOf(j) \intersect coalesced' # {}
    BY <1>1, <1>5 DEF AccessesKnown, T, InstOf
  <2>6. NoRepeats(translated)
    BY <1>4 DEF AccessesKnown
  <2> QED BY <1>8, <2>1, <2>2, <2>3, <2>4, <2>5, <2>6
<1>12. Committing'
  <2>1. Committing' <=>
          /\ NoRepeats(commitBuffer')
          /\ \A j \in Elements(commitBuffer') :
               /\ j \in Issued' /\ ~InQueue(j)'
               /\ AccessesOf(j) \intersect (coalesced' \union T') = {}
    BY <1>5 DEF Committing, T
  <2>2. ASSUME NEW j \in Elements(commitBuffer)
        PROVE  /\ j \in Issued' /\ ~InQueue(j)' /\ j \in Instructions
               /\ AccessesOf(j) \intersect (coalesced' \union T) = {}
    <3>1. /\ j \in Issued /\ ~InQueue(j) /\ j \in Instructions
          /\ AccessesOf(j) \intersect (coalesced \union T) = {}
      BY <1>4, <1>9 DEF Committing, T
    <3>2. j # i /\ AccessesOf(j) \intersect A = {}
      <4>1. \A a \in AccessesOf(j) : InstOf(a) = j
        BY <1>4, <3>1, InstructionFacts
      <4> QED BY <1>2, <1>6, <3>1, <4>1
    <3> QED BY <1>2, <1>3, <3>1, <3>2
  <2>3. CASE UNCHANGED commit
    BY <1>4, <1>8, <2>1, <2>2, <2>3 DEF Committing, commit
  <2>4. CASE PushToCommit(i) /\ A = {} /\ ~InQueue(i)'
    <3>1. /\ Elements(commitBuffer') = Elements(commitBuffer) \union {i}
          /\ NoRepeats(commitBuffer')
      BY <1>2, <1>4, <2>4, AppendElements DEF PushToCommit, Committing
    <3>2. i \in Issued' /\ AccessesOf(i) = {}
      BY <1>2, <2>4 DEF A
    <3>3. ASSUME NEW j \in Elements(commitBuffer')
          PROVE  /\ j \in Issued' /\ ~InQueue(j)'
                 /\ AccessesOf(j) \intersect (coalesced' \union T) = {}
      <4>1. CASE j = i
        <5>1. ~InQueue(j)'
          BY <2>4, <4>1
        <5> QED BY <3>2, <4>1, <5>1
      <4>2. CASE j # i
        <5>1. j \in Elements(commitBuffer)
          BY <3>1, <4>2
        <5> QED BY <2>2, <5>1
      <4> QED BY <4>1, <4>2
    <3> QED BY <1>8, <2>1, <3>1, <3>3
  <2>5. CASE \A j \in Instructions : (InQueue(j)' <=> InQueue(j)) /\ PushToCommit(i) /\ A = {}
    <3>1. ~InQueue(i)'
      BY <1>2, <2>5
    <3> QED BY <1>2, <2>4, <2>5, <3>1
  <2> QED BY <1>2, <1>3, <2>3, <2>5
<1>13. T \ coalesced' = T \ coalesced
  BY <1>2, <1>10
<1>14. FencesWait'
  <2>1. FencesWait' <=>
          \A f \in Issued' : IsFence(f) =>
            \A a \in T' \ coalesced' : a[1] = f[1] /\ a[2] < f[2] => InQueue(f)'
    BY <1>5 DEF FencesWait, T
  <2>2. ASSUME NEW f \in Issued, IsFence(f), NEW a \in T \ coalesced,
               a[1] = f[1], a[2] < f[2]
        PROVE  InQueue(f)'
    <3>1. InQueue(f) /\ f \in Instructions
      BY <1>4, <1>9, <2>2 DEF FencesWait, T
    <3> QED BY <1>3, <3>1
  <2>3. ASSUME NEW a \in T \ coalesced, a[1] = i[1] PROVE InQueue(i)'
    <3>1. CASE outstanding[w] = 0
      <4>1. /\ outstanding[w] = Cardinality(FlightOf(w)) /\ a \in FlightOf(w)
        BY <1>2, <2>3 DEF Inv, Accounts, OutstandingOf, FlightOf, T
      <4>2. IsFiniteSet(FlightOf(w))
        <5>1. IsFiniteSet(Elements(translated))
          BY <1>4, ElementsFinite DEF TypeOK
        <5> QED BY <5>1, FS_Subset DEF FlightOf
      <4> QED BY <3>1, <4>1, <4>2, FS_EmptySet
    <3>2. CASE outstanding[w] # 0
      <4>1. \A j \in Instructions : InQueue(j)' <=> InQueue(j) \/ j = i
        BY <1>3, <3>2
      <4>2. InQueue(i)' <=> InQueue(i) \/ i = i
        BY <1>2, <4>1
      <4> QED BY <4>2
    <3> QED BY <3>1, <3>2
  <2>4. ASSUME NEW f \in Issued', IsFence(f), NEW a \in T \ coalesced,
               a[1] = f[1], a[2] < f[2]
        PROVE  InQueue(f)'
    <3>1. CASE f = i
      <4>1. InQueue(i)'
        BY <2>3, <2>4, <3>1
      <4> QED BY <3>1, <4>1
    <3>2. CASE f # i
      <4>1. f \in Issued
        BY <1>2, <3>2
      <4> QED BY <2>2, <2>4, <4>1
    <3> QED BY <3>1, <3>2
  <2> QED BY <1>8, <1>13, <2>1, <2>4
<1>15. InOneBuffer'
  <2>1. Queued' = Queued
    BY <1>1 DEF Queued, inject
  <2>2. ASSUME NEW a \in Accesses
        PROVE  a \in Queued <=> a \in coalesced' /\ a \in T /\ AtHead(InstOf(a))'
    <3>1. a \in Queued <=> a \in coalesced /\ a \in T /\ AtHead(InstOf(a))
      BY <1>4 DEF InOneBuffer, T
    <3>2. CASE a \in A
      BY <1>10, <3>1, <3>2
    <3>3. CASE a \notin A
      <4>1. InstOf(a) \in Instructions
        BY <1>6
      <4>2. InstOf(a) # i
        BY <1>6, <3>3 DEF A
      <4> QED BY <1>2, <1>3, <3>1, <3>3, <4>1, <4>2
    <3> QED BY <3>2, <3>3
  <2>3. InOneBuffer' <=> \A a \in Accesses : a \in Queued' <=>
           a \in coalesced' /\ a \in T' /\ AtHead(InstOf(a))'
    BY <1>5 DEF InOneBuffer, T, InstOf
  <2> QED BY <1>8, <2>1, <2>2, <2>3
<1>16. InFlight'
  <2>1. InFlight' <=> T' \ coalesced' = inCache' \union Elements(ejectBuffer')
    BY DEF InFlight, T
  <2> QED BY <1>1, <1>4, <1>8, <1>13, <2>1 DEF InFlight, T
<1>17. ASSUME NEW v \in Warp PROVE OutstandingOf(v)'
  <2>1. OutstandingOf(v)
    BY DEF Inv, Accounts
  <2>2. FlightOf(v)' = FlightOf(v)
    BY <1>8, <1>13 DEF FlightOf, T
  <2> QED BY <1>1, <2>1, <2>2 DEF OutstandingOf
<1>18. BuffersInUse'
  <2>1. ASSUME NEW j \in Instructions PROVE j \in active' <=> Busy(j)'
    <3>1. j \in active <=> Busy(j)
      BY <1>4 DEF BuffersInUse
    <3>2. Busy(j)' <=> \/ \E a \in coalesced' \union T : InstOf(a) = j
                       \/ InQueue(j)'
                       \/ j \in Elements(commitBuffer')
      BY <1>8 DEF Busy, T, InstOf
    <3>3. /\ InQueue(j)' \/ j \in Elements(commitBuffer')
             <=> InQueue(j) \/ j \in Elements(commitBuffer) \/ j = i
      <4>1. CASE UNCHANGED commit /\ (InQueue(j)' <=> InQueue(j) \/ j = i)
        BY <4>1 DEF commit
      <4>2. CASE PushToCommit(i) /\ (InQueue(j)' <=> InQueue(j))
        <5>1. Elements(commitBuffer') = Elements(commitBuffer) \union {i}
          BY <1>2, <1>4, <4>2, AppendElements DEF PushToCommit
        <5> QED BY <4>2, <5>1
      <4> QED BY <1>3, <4>1, <4>2
    <3>4. (\E a \in coalesced' \union T : InstOf(a) = j) \/ j = i
            <=> (\E a \in coalesced \union T : InstOf(a) = j) \/ j = i
      BY <1>2, <1>6
    <3>5. Busy(j) <=> \/ \E a \in coalesced \union T : InstOf(a) = j
                      \/ InQueue(j)
                      \/ j \in Elements(commitBuffer)
      BY DEF Busy, T
    <3> QED BY <1>1, <3>1, <3>2, <3>3, <3>4, <3>5
  <2> QED BY <1>5, <2>1 DEF BuffersInUse
<1>19. OnePerLine' /\ BuffersApart' /\ LinesHeld' /\ LinesAwaited'
  BY <1>1, Frame DEF Inv, Accounts, inject
<1> QED BY <1>11, <1>12, <1>14, <1>15, <1>16, <1>17, <1>18, <1>19, IssueTyped, IssueQueues
    DEF Inv, Accounts

-----------------------------------------------------------------------------
(* Injection.                                                              *)

\* The prefix of injectBuffer that must wait, and what comes behind it.
LEMMA LineBlockedPrefix ==
  ASSUME TypeOK
  PROVE  /\ LineBlocked \in 0 .. Len(injectBuffer)
         /\ \A j \in 1 .. LineBlocked : LineOf(injectBuffer[j]) \in blockedLines
         /\ nextInject = 0 /\ LineBlocked < Len(injectBuffer) =>
              \/ ~Due(injectBuffer[LineBlocked + 1])
              \/ LineOf(injectBuffer[LineBlocked + 1]) \notin blockedLines
<1> DEFINE n == Len(injectBuffer)
           free == {j \in DOMAIN injectBuffer :
                      \/ ~Due(injectBuffer[j])
                      \/ LineOf(injectBuffer[j]) \notin blockedLines}
           first == CHOOSE j \in free : \A k \in free : j <= k
<1>1. /\ n \in Nat /\ DOMAIN injectBuffer = 1 .. n /\ nextInject \in Nat
  <2>1. injectBuffer \in Seq(Accesses) /\ nextInject \in 0 .. StoreCycles /\ StoreCycles \in Nat
    BY LSQAssumption DEF TypeOK
  <2> QED BY <2>1
<1>2. LineBlocked = IF nextInject > 0 THEN 0 ELSE IF free = {} THEN n ELSE first - 1
  BY DEF LineBlocked
<1>3. CASE nextInject > 0
  BY <1>1, <1>2, <1>3
<1>4. CASE ~(nextInject > 0) /\ free = {}
  <2>1. LineBlocked = n
    BY <1>2, <1>4
  <2>2. \A j \in 1 .. n : LineOf(injectBuffer[j]) \in blockedLines
    BY <1>1, <1>4
  <2> HIDE DEF free
  <2> QED BY <1>1, <2>1, <2>2
<1>5. CASE ~(nextInject > 0) /\ free # {}
  <2>1. free \subseteq 1 .. n
    BY <1>1
  <2>2. \E m \in free : \A k \in free : m <= k
    <3> HIDE DEF free
    <3>1. free \in SUBSET Nat
      BY <1>1, <2>1
    <3> QED BY <1>5, <3>1, LeastNat
  <2>3. first \in free /\ \A k \in free : first <= k
    <3> HIDE DEF free
    <3> QED BY <2>2
  <2>4. \A j \in 1 .. n : j \notin free => LineOf(injectBuffer[j]) \in blockedLines
    BY <1>1
  <2>5. \/ ~Due(injectBuffer[first])
        \/ LineOf(injectBuffer[first]) \notin blockedLines
    <3> HIDE DEF first
    <3> QED BY <2>3
  <2> HIDE DEF free, first
  <2>6. LineBlocked = first - 1 /\ first \in 1 .. n
    BY <1>2, <1>5, <2>1, <2>3
  <2>7. \A j \in 1 .. first - 1 : j \in 1 .. n /\ j \notin free
    BY <1>1, <2>1, <2>3, <2>6
  <2>8. (first - 1) + 1 = first /\ first - 1 \in 0 .. n
    BY <1>1, <2>6
  <2> QED BY <2>4, <2>5, <2>6, <2>7, <2>8
<1> QED BY <1>3, <1>4, <1>5

\* The buffers, when the accesses that must wait have left injectBuffer and rest
\* is what is left of it.
Sorted(rest) ==
  /\ rest \in Seq(Accesses) /\ NoRepeats(rest)
  /\ blockedAccesses' \in [Line -> Seq(Accesses)]
  /\ \A l \in Line :
       /\ NoRepeats(blockedAccesses'[l])
       /\ Elements(blockedAccesses'[l]) \intersect Elements(rest) = {}
       /\ \A a \in Elements(blockedAccesses'[l]) : LineOf(a) = l
       /\ blockedAccesses'[l] # << >> =>
            l \in blockedLines \/ \E a \in Elements(rest) : LineOf(a) = l
  /\ Elements(rest) \union (UNION {Elements(blockedAccesses'[l]) : l \in Line}) = Queued

Ready(rest) == /\ rest # << >> /\ LineOf(Head(rest)) \notin blockedLines
               /\ Head(rest) \in Queued

LEMMA InjectSorts ==
  ASSUME Inv, InjectCacheAccesses
  PROVE  /\ UNCHANGED <<program, core, active, translated, ejectBuffer, ejectEvent,
                        commit, halted>>
         /\ injectEvent = 0 /\ ~mshrsFull
         /\ \E rest \in Seq(Accesses) :
              /\ Sorted(rest)
              /\ \/ InjectNothing(rest)
                 \/ Ready(rest) /\ InjectRefused(rest)
                 \/ Ready(rest) /\ InjectAccepted(rest)
<1> DEFINE k == LineBlocked
           moved == SubSeq(injectBuffer, 1, k)
           rest == SubSeq(injectBuffer, k + 1, Len(injectBuffer))
           on(l) == {a \in Accesses : LineOf(a) = l}
           pushed(l) == Filter(moved, on(l))
<1>1. /\ UNCHANGED <<program, core, active, translated, ejectBuffer, ejectEvent,
                     commit, halted>>
      /\ injectEvent = 0
      /\ blockedAccesses' = [l \in Line |-> blockedAccesses[l] \o pushed(l)]
      /\ \/ InjectNothing(rest)
         \/ rest # << >> /\ nextInject = 0 /\ Due(Head(rest)) /\ InjectRefused(rest)
         \/ rest # << >> /\ nextInject = 0 /\ Due(Head(rest)) /\ InjectAccepted(rest)
  BY DEF InjectCacheAccesses
<1>2. /\ TypeOK /\ NoLostWakeup /\ program \in Programs
      /\ injectBuffer \in Seq(Accesses) /\ blockedAccesses \in [Line -> Seq(Accesses)]
      /\ OnePerLine /\ BuffersApart /\ LinesAwaited
  BY DEF Inv, TypeOK, Accounts
<1>3. ~mshrsFull
  <2>1. 0 # Unscheduled
    BY DEF Unscheduled
  <2> QED BY <1>1, <1>2, <2>1 DEF NoLostWakeup
<1>4. /\ k \in 0 .. Len(injectBuffer)
      /\ \A j \in 1 .. k : LineOf(injectBuffer[j]) \in blockedLines
      /\ nextInject = 0 /\ k < Len(injectBuffer) =>
           \/ ~Due(injectBuffer[k + 1])
           \/ LineOf(injectBuffer[k + 1]) \notin blockedLines
  BY <1>2, LineBlockedPrefix
<1> HIDE DEF k
<1>5. /\ moved \in Seq(Accesses) /\ rest \in Seq(Accesses)
      /\ rest = << >> <=> k = Len(injectBuffer)
      /\ k < Len(injectBuffer) => Head(rest) = injectBuffer[k + 1]
      /\ Elements(moved) = {injectBuffer[j] : j \in 1 .. k}
      /\ Elements(injectBuffer) = Elements(moved) \union Elements(rest)
      /\ NoRepeats(injectBuffer) => /\ NoRepeats(moved) /\ NoRepeats(rest)
                                    /\ Elements(moved) \intersect Elements(rest) = {}
  BY <1>2, <1>4, CutElements
<1> HIDE DEF moved, rest
<1>6. NoRepeats(injectBuffer)
  BY <1>2 DEF BuffersApart
<1>7. \A a \in Elements(moved) : LineOf(a) \in blockedLines
  BY <1>4, <1>5
<1>8. ASSUME NEW l \in Line
      PROVE  /\ pushed(l) \in Seq(Accesses)
             /\ Elements(pushed(l)) = {a \in Elements(moved) : LineOf(a) = l}
             /\ NoRepeats(pushed(l))
  <2>1. Elements(moved) \subseteq Accesses
    BY <1>5, ElementsIn
  <2>2. /\ pushed(l) \in Seq(Accesses)
        /\ Elements(pushed(l)) = Elements(moved) \intersect on(l)
        /\ NoRepeats(moved) => NoRepeats(pushed(l))
    BY <1>5, FilterElements
  <2> QED BY <1>5, <1>6, <2>1, <2>2
<1> HIDE DEF pushed
<1>9. ASSUME NEW l \in Line
      PROVE  /\ blockedAccesses'[l] \in Seq(Accesses)
             /\ Elements(blockedAccesses'[l])
                  = Elements(blockedAccesses[l]) \union {a \in Elements(moved) : LineOf(a) = l}
             /\ NoRepeats(blockedAccesses'[l])
             /\ Elements(blockedAccesses'[l]) \intersect Elements(rest) = {}
             /\ \A a \in Elements(blockedAccesses'[l]) : LineOf(a) = l
             /\ blockedAccesses'[l] # << >> =>
                  l \in blockedLines \/ \E a \in Elements(rest) : LineOf(a) = l
  <2> DEFINE old == blockedAccesses[l]
             new == blockedAccesses'[l]
  <2>1. old \in Seq(Accesses) /\ new = old \o pushed(l)
    BY <1>1, <1>2
  <2>2. /\ NoRepeats(old) /\ Elements(old) \intersect Elements(injectBuffer) = {}
        /\ \A a \in Elements(old) : LineOf(a) = l
        /\ old # << >> =>
             l \in blockedLines \/ \E a \in Elements(injectBuffer) : LineOf(a) = l
    BY <1>2 DEF BuffersApart, OnePerLine, LinesAwaited
  <2> HIDE DEF old, new
  <2>3. /\ new \in Seq(Accesses)
        /\ Elements(new) = Elements(old) \union Elements(pushed(l))
        /\ new = << >> <=> (old = << >> /\ pushed(l) = << >>)
        /\ (/\ NoRepeats(old) /\ NoRepeats(pushed(l))
            /\ Elements(old) \intersect Elements(pushed(l)) = {})
             => NoRepeats(new)
    BY <1>8, <2>1, ConcatElements
  <2>4. pushed(l) # << >> => \E a \in Elements(moved) : LineOf(a) = l
    BY <1>8, ElementsIn
  <2>5. new # << >> => l \in blockedLines \/ \E a \in Elements(rest) : LineOf(a) = l
    BY <1>5, <1>7, <2>2, <2>3, <2>4
  <2>6. NoRepeats(new)
    BY <1>5, <1>8, <2>2, <2>3
  <2>7. /\ Elements(new) \intersect Elements(rest) = {}
        /\ \A a \in Elements(new) : LineOf(a) = l
    BY <1>5, <1>6, <1>8, <2>2, <2>3
  <2> QED BY <1>8, <2>3, <2>5, <2>6, <2>7 DEF old, new
<1>10. blockedAccesses' \in [Line -> Seq(Accesses)]
  <2>1. blockedAccesses' = [l \in Line |-> blockedAccesses'[l]]
    BY <1>1
  <2> QED BY <1>9, <2>1
<1>11. Elements(rest) \union (UNION {Elements(blockedAccesses'[l]) : l \in Line}) = Queued
  <2> DEFINE new == UNION {Elements(blockedAccesses'[l]) : l \in Line}
             old == UNION {Elements(blockedAccesses[l]) : l \in Line}
  <2>1. Queued = Elements(injectBuffer) \union old
    BY DEF Queued
  <2>2. \A a : a \in new <=> \E l \in Line : a \in Elements(blockedAccesses'[l])
    OBVIOUS
  <2>3. \A a : a \in old <=> \E l \in Line : a \in Elements(blockedAccesses[l])
    OBVIOUS
  <2>4. \A a \in Elements(moved) : LineOf(a) \in Line
    <3>1. Elements(moved) \subseteq Accesses
      BY <1>5, ElementsIn
    <3> QED BY <1>2, <3>1, AccessFacts
  <2> HIDE DEF new, old
  <2>5. \A a : a \in new <=> a \in old \/ a \in Elements(moved)
    <3>1. \A a : \A l \in Line : a \in Elements(blockedAccesses'[l]) <=>
             a \in Elements(blockedAccesses[l]) \/ (a \in Elements(moved) /\ LineOf(a) = l)
      BY <1>9
    <3> QED BY <2>2, <2>3, <2>4, <3>1, Zenon
  <2>6. Elements(rest) \union new = Elements(injectBuffer) \union old
    BY <1>5, <2>5
  <2> QED BY <2>1, <2>6 DEF new
<1>12. Sorted(rest)
  BY <1>5, <1>6, <1>9, <1>10, <1>11 DEF Sorted
<1>13. ASSUME rest # << >>, nextInject = 0, Due(Head(rest)) PROVE Ready(rest)
  <2>1. k < Len(injectBuffer)
    <3>1. k <= Len(injectBuffer) /\ k # Len(injectBuffer) /\ k \in Nat /\ Len(injectBuffer) \in Nat
      <4>1. Len(injectBuffer) \in Nat
        BY <1>2
      <4> QED BY <1>4, <1>5, <1>13, <4>1
    <3> QED BY <3>1
  <2>2. LineOf(Head(rest)) \notin blockedLines
    BY <1>4, <1>5, <1>13, <2>1
  <2>3. Head(rest) \in Elements(rest)
    BY <1>5, <1>13, TailElements
  <2> QED BY <1>11, <1>13, <2>2, <2>3 DEF Ready
<1> QED BY <1>1, <1>3, <1>5, <1>12, <1>13

LEMMA RescheduleTyped ==
  ASSUME injectBuffer' \in Seq(Accesses), injectIn' \in [Accesses -> Past .. TagCycles],
         Reschedule
  PROVE  /\ injectEvent' \in Unscheduled .. TagCycles
         /\ injectEvent' # Unscheduled <=> injectBuffer' # << >>
<1>1. TagCycles \in Nat \ {0}
  BY LSQAssumption
<1>2. CASE injectBuffer' = << >>
  BY <1>1, <1>2 DEF Reschedule, Unscheduled
<1>3. CASE injectBuffer' # << >>
  <2>1. Head(injectBuffer') \in Accesses
    BY <1>3, TailElements
  <2>2. injectIn'[Head(injectBuffer')] \in Past .. TagCycles
    BY <2>1
  <2>3. injectEvent' = IF injectIn'[Head(injectBuffer')] > 0
                       THEN injectIn'[Head(injectBuffer')] ELSE 1
    BY <1>3 DEF Reschedule
  <2>4. injectEvent' \in 1 .. TagCycles
    BY <1>1, <2>2, <2>3 DEF Past
  <2> QED BY <1>1, <1>3, <2>4 DEF Unscheduled
<1> QED BY <1>2, <1>3

\* Accesses that only wait are in one buffer or another.
LEMMA SortedInv ==
  ASSUME Inv, Sorted(injectBuffer'), TypeOK', NoLostWakeup',
         UNCHANGED <<program, issued, active, instQueues, outstanding, coalesced, translated,
                     blockedLines, ejectBuffer, commitBuffer, inCache>>
  PROVE  Inv'
<1>1. /\ Instructions' = Instructions /\ Accesses' = Accesses
      /\ \A i : AccessesOf(i)' = AccessesOf(i) /\ IsFence(i)' = IsFence(i)
      /\ \A a : LineOf(a)' = LineOf(a)
  BY SameProgram
<1>2. Queued' = Queued
  BY DEF Sorted, Queued
<1>3. InOneBuffer'
  <2>1. \A i : AtHead(i)' <=> AtHead(i)
    BY DEF AtHead
  <2> QED BY <1>1, <1>2, <2>1 DEF InOneBuffer, Inv, Accounts
<1>4. BuffersApart' /\ LinesAwaited' /\ OnePerLine'
  <2>1. OnePerLine /\ NoRepeats(ejectBuffer') /\ Elements(ejectBuffer') \intersect inCache' = {}
    BY DEF Inv, OnePerLine
  <2> QED BY <1>1, <2>1 DEF Sorted, BuffersApart, LinesAwaited, OnePerLine
<1>5. /\ Queues' /\ AccessesKnown' /\ Committing' /\ FencesWait' /\ InFlight'
      /\ (\A w \in Warp : OutstandingOf(w))' /\ BuffersInUse' /\ LinesHeld'
  BY Frame DEF Inv, Accounts
<1> QED BY <1>3, <1>4, <1>5 DEF Inv, Accounts

LEMMA InjectNothingInv ==
  ASSUME Inv, NEW rest \in Seq(Accesses), Sorted(rest), InjectNothing(rest),
         UNCHANGED <<program, core, active, translated, ejectBuffer, ejectEvent, commit, halted>>,
         ~mshrsFull
  PROVE  Inv'
<1>1. /\ Instructions' = Instructions /\ Accesses' = Accesses /\ injectBuffer' = rest
      /\ UNCHANGED <<instQueues, outstanding, coalesced, injectIn, nextInject,
                     blockedLines, mshrsFull, inCache>>
  BY SameProgram DEF InjectNothing
<1>2. TypeOK /\ NoLostWakeup /\ injectIn \in [Accesses -> Past .. TagCycles]
  BY DEF Inv, TypeOK
<1>3. /\ injectEvent' \in Unscheduled .. TagCycles
      /\ injectEvent' # Unscheduled <=> injectBuffer' # << >>
  BY <1>1, <1>2, RescheduleTyped DEF InjectNothing
<1>4. TypeOK'
  BY <1>1, <1>2, <1>3 DEF TypeOK, Sorted, core, commit
<1>5. NoLostWakeup'
  BY <1>1, <1>2, <1>3 DEF NoLostWakeup, core, commit
<1>6. Sorted(injectBuffer')
  BY <1>1
<1> QED BY <1>1, <1>4, <1>5, <1>6, SortedInv DEF core, commit

LEMMA InjectRefusedInv ==
  ASSUME Inv, NEW rest \in Seq(Accesses), Sorted(rest), Ready(rest), InjectRefused(rest),
         UNCHANGED <<program, core, active, translated, ejectBuffer, ejectEvent, commit, halted>>
  PROVE  Inv'
<1>1. /\ Instructions' = Instructions /\ Accesses' = Accesses /\ injectBuffer' = rest
      /\ mshrsFull' = TRUE /\ injectEvent' = Unscheduled /\ rest # << >>
      /\ UNCHANGED <<instQueues, outstanding, coalesced, injectIn, nextInject,
                     blockedLines, inCache>>
  BY SameProgram DEF InjectRefused, Ready
<1>2. TypeOK /\ NoLostWakeup
  BY DEF Inv
<1>3. Unscheduled \in Unscheduled .. TagCycles
  BY LSQAssumption DEF Unscheduled
<1>4. TypeOK'
  BY <1>1, <1>2, <1>3 DEF TypeOK, Sorted, core, commit
<1>5. NoLostWakeup'
  BY <1>1, <1>2 DEF NoLostWakeup, core, commit
<1>6. Sorted(injectBuffer')
  BY <1>1
<1> QED BY <1>1, <1>4, <1>5, <1>6, SortedInv DEF core, commit

\* The instruction at the head of its queue leaves it.
LEMMA LeaveQueue ==
  ASSUME TypeOK, Queues, NEW w \in Warp, NEW i \in Instructions, AtHead(i), i[1] = w,
         instQueues' = [instQueues EXCEPT ![w] = Tail(@)], UNCHANGED <<program, issued>>
  PROVE  /\ instQueues' \in [Warp -> Seq(Instructions)] /\ Queues'
         /\ \A j \in Instructions : InQueue(j)' <=> InQueue(j) /\ j # i
         /\ \A j \in Instructions : j[1] # w => (AtHead(j)' <=> AtHead(j))
         /\ \A j \in Instructions : j[1] = w =>
              (AtHead(j)' <=> Tail(instQueues[w]) # << >> /\ j = Head(Tail(instQueues[w])))
         /\ Tail(instQueues[w]) # << >> =>
              LET next == Head(Tail(instQueues[w])) IN
              next \in Instructions /\ InQueue(next) /\ next[1] = w /\ next # i
<1> DEFINE q == instQueues[w]
           p == Tail(q)
<1>1. /\ program \in Programs /\ instQueues \in [Warp -> Seq(Instructions)]
      /\ issued \in [Warp -> Nat] /\ QueueOf(w)
  BY DEF TypeOK, Queues
<1>2. q \in Seq(Instructions) /\ q # << >> /\ Head(q) = i
  BY <1>1 DEF AtHead
<1>3. /\ instQueues'[w] = p
      /\ \A v \in Warp : v # w => instQueues'[v] = instQueues[v]
  BY <1>1
<1>4. /\ issued[w] <= Len(program[w]) /\ Len(q) <= issued[w]
      /\ \A j \in DOMAIN q : q[j] = <<w, issued[w] - Len(q) + j>>
  BY <1>1 DEF QueueOf
<1>5. issued[w] \in Nat
  BY <1>1
<1> HIDE DEF q, p
<1>6. /\ p \in Seq(Instructions) /\ Len(q) \in Nat \ {0} /\ Len(p) = Len(q) - 1
      /\ DOMAIN p = 1 .. Len(q) - 1 /\ DOMAIN q = 1 .. Len(q)
      /\ \A j \in DOMAIN p : p[j] = q[j + 1] /\ j + 1 \in DOMAIN q
  BY <1>2 DEF p
<1>7. NoRepeats(q)
  <2>1. ASSUME NEW j \in DOMAIN q, NEW k \in DOMAIN q, q[j] = q[k] PROVE j = k
    <3>1. issued[w] - Len(q) + j = issued[w] - Len(q) + k
      BY <1>4, <2>1
    <3> QED BY <1>5, <1>6, <3>1
  <2> QED BY <2>1 DEF NoRepeats
<1>8. /\ Elements(q) = Elements(p) \union {i} /\ i \notin Elements(p)
  BY <1>2, <1>7, TailElements DEF p
<1>9. instQueues' \in [Warp -> Seq(Instructions)]
  BY <1>1, <1>3, <1>6
<1>10. Queues'
  <2>1. ASSUME NEW v \in Warp PROVE QueueOf(v)'
    <3>1. CASE v # w
      <4>1. QueueOf(v)
        BY DEF Queues
      <4> QED BY <1>3, <3>1, <4>1 DEF QueueOf
    <3>2. CASE v = w
      <4>1. Len(p) <= issued[w]
        BY <1>4, <1>5, <1>6
      <4>2. ASSUME NEW j \in DOMAIN p PROVE p[j] = <<w, issued[w] - Len(p) + j>>
        <5>1. p[j] = <<w, issued[w] - Len(q) + (j + 1)>>
          BY <1>4, <1>6
        <5>2. issued[w] - Len(q) + (j + 1) = issued[w] - Len(p) + j
          <6>1. ASSUME NEW n \in Nat, NEW m \in Nat, NEW k \in Nat
                PROVE  n - m + (k + 1) = n - (m - 1) + k
            OBVIOUS
          <6>2. j \in Nat /\ Len(q) \in Nat /\ Len(p) = Len(q) - 1
            BY <1>6
          <6>3. issued[w] - Len(q) + (j + 1) = issued[w] - (Len(q) - 1) + j
            BY <1>5, <6>1, <6>2, Zenon
          <6> QED BY <6>2, <6>3, Zenon
        <5> QED BY <5>1, <5>2
      <4> QED BY <1>3, <1>4, <3>2, <4>1, <4>2 DEF QueueOf
    <3> QED BY <3>1, <3>2
  <2> QED BY <2>1 DEF Queues
<1>11. ASSUME NEW j \in Instructions PROVE InQueue(j)' <=> InQueue(j) /\ j # i
  <2>1. j[1] \in Warp
    BY <1>1, InstructionFacts
  <2>2. CASE j[1] = w
    <3>1. InQueue(j) <=> j \in Elements(q)
      BY <2>2 DEF InQueue, q
    <3>2. InQueue(j)' <=> j \in Elements(p)
      BY <1>3, <2>2 DEF InQueue
    <3> QED BY <1>8, <3>1, <3>2
  <2>3. CASE j[1] # w
    BY <1>3, <2>1, <2>3 DEF InQueue
  <2> QED BY <2>2, <2>3
<1>12. ASSUME NEW j \in Instructions, j[1] # w PROVE AtHead(j)' <=> AtHead(j)
  <2>1. j[1] \in Warp
    BY <1>1, InstructionFacts
  <2> QED BY <1>3, <1>12, <2>1 DEF AtHead
<1>13. ASSUME NEW j \in Instructions, j[1] = w
       PROVE  AtHead(j)' <=> p # << >> /\ j = Head(p)
  BY <1>3, <1>13 DEF AtHead
<1>14. p # << >> => Head(p) \in Instructions /\ InQueue(Head(p)) /\ Head(p)[1] = w /\ Head(p) # i
  <2> SUFFICES ASSUME p # << >>
               PROVE  Head(p) \in Instructions /\ InQueue(Head(p)) /\ Head(p)[1] = w /\ Head(p) # i
    OBVIOUS
  <2>1. Head(p) \in Instructions /\ Head(p) \in Elements(p)
    BY <1>6, TailElements
  <2>2. Head(p) = p[1] /\ 1 \in DOMAIN p
    BY <1>6
  <2>3. Head(p)[1] = w
    BY <1>4, <1>6, <2>2
  <2> QED BY <1>8, <2>1, <2>3 DEF InQueue, q
<1> QED BY <1>9, <1>10, <1>11, <1>12, <1>13, <1>14 DEF p, q

\* What the cache accepts, and which accesses may be injected after it.
LEMMA AcceptEffect ==
  ASSUME Inv, NEW rest \in Seq(Accesses), Sorted(rest), Ready(rest), InjectAccepted(rest),
         UNCHANGED <<program, core, active, translated, ejectBuffer, ejectEvent, commit, halted>>
  PROVE  LET a == Head(rest)
             i == InstOf(a)
             last == coalesced \intersect AccessesOf(i) = {a}
             next == Tail(instQueues[i[1]])
         IN
         /\ a \in Accesses /\ a \in coalesced /\ a \in Elements(translated)
         /\ i \in Instructions /\ AtHead(i) /\ InQueue(i) /\ a \in AccessesOf(i) /\ ~IsFence(i)
         /\ i[1] \in Warp /\ i[1] = a[1] /\ i[2] = a[2] /\ LineOf(a) \in Line
         /\ instQueues' \in [Warp -> Seq(Instructions)] /\ Queues'
         /\ \E released \in Seq(Accesses) :
              /\ injectBuffer' = Tail(rest) \o released
              /\ injectIn' = InjectTimes(released) /\ NoRepeats(released)
              /\ \/ /\ ~last /\ released = << >>
                    /\ \A j \in Instructions : InQueue(j)' <=> InQueue(j)
                    /\ \A j \in Instructions : AtHead(j)' <=> AtHead(j)
                 \/ /\ last
                    /\ \A j \in Instructions : InQueue(j)' <=> InQueue(j) /\ j # i
                    /\ \A j \in Instructions : j[1] # i[1] => (AtHead(j)' <=> AtHead(j))
                    /\ \A j \in Instructions : j[1] = i[1] =>
                         /\ AtHead(j)' =>
                              /\ InQueue(j) /\ j # i /\ ~AtHead(j)
                              /\ Elements(released) = Elements(translated) \intersect AccessesOf(j)
                         /\ ~AtHead(j)' => Elements(released) \intersect AccessesOf(j) = {}
                    /\ \A b \in Elements(released) :
                         /\ b \in Elements(translated) /\ InstOf(b) \in Instructions
                         /\ InstOf(b)[1] = i[1] /\ AtHead(InstOf(b))' /\ ~AtHead(InstOf(b))
<1> DEFINE a == Head(rest)
           i == InstOf(a)
           w == i[1]
           T == Elements(translated)
           last == coalesced \intersect AccessesOf(i) = {a}
           p == Tail(instQueues[w])
           next == Head(p)
           released == IF last THEN Released(i) ELSE << >>
<1>1. /\ TypeOK /\ Queues /\ program \in Programs /\ InOneBuffer /\ AccessesKnown
      /\ translated \in Seq(Accesses) /\ instQueues \in [Warp -> Seq(Instructions)]
      /\ coalesced \subseteq Accesses
  BY DEF Inv, TypeOK, Accounts
<1>2. /\ instQueues' = [instQueues EXCEPT ![w] = IF last THEN Tail(@) ELSE @]
      /\ injectBuffer' = Tail(rest) \o released
      /\ injectIn' = InjectTimes(released)
      /\ UNCHANGED <<program, issued>>
  BY DEF InjectAccepted, core
<1>3. rest # << >> /\ a \in Queued
  BY DEF Ready
<1>4. a \in Accesses
  BY <1>3
<1>5. a \in coalesced /\ a \in T /\ AtHead(i)
  BY <1>1, <1>3, <1>4 DEF InOneBuffer
<1> HIDE DEF a
<1>6. /\ i \in Instructions /\ a \in AccessesOf(i) /\ ~IsFence(i)
      /\ w \in Warp /\ w = a[1] /\ i[2] = a[2] /\ LineOf(a) \in Line
  BY <1>1, <1>4, AccessFacts
<1> HIDE DEF i
<1>7. InQueue(i)
  BY <1>1, <1>5, <1>6, QueueOrder
<1> HIDE DEF w
<1>8. i[1] = w
  BY DEF w
<1>9. CASE ~last
  <2>1. instQueues' = instQueues /\ released = << >>
    BY <1>1, <1>2, <1>9
  <2>2. Queues'
    BY <1>1, <1>2, <2>1, Frame
  <2>3. /\ \A j \in Instructions : InQueue(j)' <=> InQueue(j)
        /\ \A j \in Instructions : AtHead(j)' <=> AtHead(j)
    BY <2>1 DEF InQueue, AtHead
  <2>4. << >> \in Seq(Accesses) /\ NoRepeats(<< >>)
    BY ElementsEmpty
  <2> QED BY <1>1, <1>2, <1>4, <1>5, <1>6, <1>7, <1>8, <1>9, <2>1, <2>2, <2>3, <2>4 DEF a, i
<1>10. CASE last
  <2> HIDE DEF last, p
  <2>1. instQueues' = [instQueues EXCEPT ![w] = Tail(@)] /\ released = Released(i)
    BY <1>2, <1>10
  <2>2. /\ instQueues' \in [Warp -> Seq(Instructions)] /\ Queues'
        /\ \A j \in Instructions : InQueue(j)' <=> InQueue(j) /\ j # i
        /\ \A j \in Instructions : j[1] # w => (AtHead(j)' <=> AtHead(j))
        /\ \A j \in Instructions : j[1] = w => (AtHead(j)' <=> p # << >> /\ j = next)
        /\ p # << >> => next \in Instructions /\ InQueue(next) /\ next[1] = w /\ next # i
    BY <1>1, <1>2, <1>5, <1>6, <1>8, <2>1, LeaveQueue DEF p
  <2>3. /\ released \in Seq(Accesses) /\ NoRepeats(released)
        /\ Elements(released) = IF p # << >> /\ ~IsFence(next) THEN T \intersect AccessesOf(next)
                                ELSE {}
    <3>1. released = IF p # << >> /\ ~IsFence(next) THEN Filter(translated, AccessesOf(next))
                     ELSE << >>
      BY <1>8, <2>1 DEF Released, p
    <3>2. NoRepeats(translated)
      BY <1>1 DEF AccessesKnown
    <3>3. /\ Filter(translated, AccessesOf(next)) \in Seq(Accesses)
          /\ Elements(Filter(translated, AccessesOf(next))) = T \intersect AccessesOf(next)
          /\ NoRepeats(Filter(translated, AccessesOf(next)))
      BY <1>1, <3>2, FilterElements
    <3>4. << >> \in Seq(Accesses) /\ NoRepeats(<< >>) /\ Elements(<< >>) = {}
      BY ElementsEmpty
    <3> HIDE DEF released, next
    <3>5. CASE p # << >> /\ ~IsFence(next)
      BY <3>1, <3>3, <3>5
    <3>6. CASE ~(p # << >> /\ ~IsFence(next))
      <4>1. released = << >>
        BY <3>1, <3>6
      <4> QED BY <3>4, <3>6, <4>1
    <3> QED BY <3>5, <3>6
  <2> HIDE DEF released
  <2>4. p # << >> => ~AtHead(next) /\ (IsFence(next) <=> AccessesOf(next) = {})
    <3>1. p # << >> => ~AtHead(next)
      BY <1>1, <1>5, <1>6, <1>8, <2>2, QueueOrder
    <3>2. p # << >> => (IsFence(next) <=> AccessesOf(next) = {})
      BY <1>1, <2>2, InstructionFacts
    <3> QED BY <3>1, <3>2
  <2>5. Elements(released) = IF p # << >> THEN T \intersect AccessesOf(next) ELSE {}
    BY <2>3, <2>4
  <2>6. ASSUME NEW j \in Instructions PROVE \A b \in AccessesOf(j) : InstOf(b) = j
    BY <1>1, InstructionFacts
  <2>7. ASSUME NEW j \in Instructions, j[1] = w
        PROVE  /\ AtHead(j)' => /\ InQueue(j) /\ j # i /\ ~AtHead(j)
                                /\ Elements(released) = T \intersect AccessesOf(j)
               /\ ~AtHead(j)' => Elements(released) \intersect AccessesOf(j) = {}
    <3>1. AtHead(j)' <=> p # << >> /\ j = next
      BY <2>2, <2>7
    <3>2. ASSUME p # << >>, j # next PROVE AccessesOf(next) \intersect AccessesOf(j) = {}
      <4>1. next \in Instructions
        BY <2>2, <3>2
      <4>2. /\ \A b \in AccessesOf(j) : InstOf(b) = j
            /\ \A b \in AccessesOf(next) : InstOf(b) = next
        BY <2>6, <4>1
      <4> QED BY <3>2, <4>2
    <3> QED BY <2>2, <2>4, <2>5, <3>1, <3>2
  <2>8. ASSUME NEW b \in Elements(released)
        PROVE  /\ b \in T /\ InstOf(b) \in Instructions
               /\ InstOf(b)[1] = w /\ AtHead(InstOf(b))' /\ ~AtHead(InstOf(b))
    <3>1. p # << >> /\ b \in T /\ b \in AccessesOf(next)
      BY <2>5
    <3>2. next \in Instructions /\ InstOf(b) = next
      BY <2>2, <2>6, <3>1
    <3>3. InstOf(b)[1] = w /\ ~AtHead(InstOf(b))
      BY <2>2, <2>4, <3>1, <3>2
    <3>4. AtHead(InstOf(b))'
      BY <2>2, <3>1, <3>2, <3>3
    <3> QED BY <3>1, <3>2, <3>3, <3>4
  <2> HIDE DEF next, T
  <2>9. /\ \A j \in Instructions : InQueue(j)' <=> InQueue(j) /\ j # i
        /\ \A j \in Instructions : j[1] # i[1] => (AtHead(j)' <=> AtHead(j))
        /\ \A j \in Instructions : j[1] = i[1] =>
             /\ AtHead(j)' => /\ InQueue(j) /\ j # i /\ ~AtHead(j)
                              /\ Elements(released) = T \intersect AccessesOf(j)
             /\ ~AtHead(j)' => Elements(released) \intersect AccessesOf(j) = {}
        /\ \A b \in Elements(released) :
             /\ b \in T /\ InstOf(b) \in Instructions
             /\ InstOf(b)[1] = i[1] /\ AtHead(InstOf(b))' /\ ~AtHead(InstOf(b))
    BY <1>8, <2>2, <2>7, <2>8
  <2>10. /\ a \in Accesses /\ a \in coalesced /\ a \in T
         /\ i \in Instructions /\ AtHead(i) /\ InQueue(i) /\ a \in AccessesOf(i) /\ ~IsFence(i)
         /\ i[1] \in Warp /\ i[1] = a[1] /\ i[2] = a[2] /\ LineOf(a) \in Line
         /\ instQueues' \in [Warp -> Seq(Instructions)] /\ Queues'
    BY <1>4, <1>5, <1>6, <1>7, <1>8, <2>2
  <2> QED BY <1>2, <1>10, <2>3, <2>9, <2>10 DEF a, i, T, last
<1> QED BY <1>9, <1>10

LEMMA InjectAcceptedInv ==
  ASSUME Inv, NEW rest \in Seq(Accesses), Sorted(rest), Ready(rest), InjectAccepted(rest),
         UNCHANGED <<program, core, active, translated, ejectBuffer, ejectEvent, commit, halted>>,
         ~mshrsFull
  PROVE  Inv'
<1> DEFINE a == Head(rest)
           i == InstOf(a)
           w == i[1]
           C == coalesced
           T == Elements(translated)
           last == C \intersect AccessesOf(i) = {a}
<1>1. /\ a \in Accesses /\ a \in C /\ a \in T
      /\ i \in Instructions /\ AtHead(i) /\ InQueue(i) /\ a \in AccessesOf(i) /\ ~IsFence(i)
      /\ w \in Warp /\ w = a[1] /\ i[2] = a[2] /\ LineOf(a) \in Line
      /\ instQueues' \in [Warp -> Seq(Instructions)] /\ Queues'
  BY AcceptEffect
<1>2. PICK released \in Seq(Accesses) :
        /\ injectBuffer' = Tail(rest) \o released
        /\ injectIn' = InjectTimes(released) /\ NoRepeats(released)
        /\ \/ /\ ~last /\ released = << >>
              /\ \A j \in Instructions : InQueue(j)' <=> InQueue(j)
              /\ \A j \in Instructions : AtHead(j)' <=> AtHead(j)
           \/ /\ last
              /\ \A j \in Instructions : InQueue(j)' <=> InQueue(j) /\ j # i
              /\ \A j \in Instructions : j[1] # w => (AtHead(j)' <=> AtHead(j))
              /\ \A j \in Instructions : j[1] = w =>
                   /\ AtHead(j)' => /\ InQueue(j) /\ j # i /\ ~AtHead(j)
                                    /\ Elements(released) = T \intersect AccessesOf(j)
                   /\ ~AtHead(j)' => Elements(released) \intersect AccessesOf(j) = {}
              /\ \A b \in Elements(released) :
                   /\ b \in T /\ InstOf(b) \in Instructions
                   /\ InstOf(b)[1] = w /\ AtHead(InstOf(b))' /\ ~AtHead(InstOf(b))
  BY AcceptEffect, Zenon
<1>3. /\ UNCHANGED <<program, issued, active, translated, ejectBuffer, commitBuffer, mshrsFull>>
      /\ inCache' = inCache \union {a}
      /\ blockedLines' = blockedLines \union {LineOf(a)}
      /\ coalesced' = C \ {a}
      /\ outstanding' = [outstanding EXCEPT ![w] = @ + 1]
      /\ nextInject' \in IF IsWrite(a) THEN 0 .. StoreCycles ELSE {0}
      /\ Reschedule
  BY DEF InjectAccepted, core, commit
<1>4. /\ rest # << >> /\ LineOf(a) \notin blockedLines /\ a \in Queued
  BY DEF Ready
<1>5. /\ TypeOK /\ NoLostWakeup /\ Queues /\ program \in Programs /\ InOneBuffer /\ AccessesKnown
      /\ Committing /\ OnePerLine /\ FencesWait /\ InFlight /\ BuffersInUse /\ LinesHeld
      /\ C \subseteq Accesses /\ T \subseteq Accesses
      /\ outstanding \in [Warp -> Nat] /\ inCache \subseteq Accesses
      /\ translated \in Seq(Accesses)
  BY ElementsIn DEF Inv, TypeOK, Accounts
<1>6. /\ Instructions' = Instructions /\ Accesses' = Accesses
      /\ \A j : AccessesOf(j)' = AccessesOf(j) /\ IsFence(j)' = IsFence(j)
      /\ \A b : LineOf(b)' = LineOf(b)
  BY <1>3, SameProgram
<1>7. /\ \A b \in Accesses : InstOf(b) \in Instructions /\ b \in AccessesOf(InstOf(b))
      /\ \A j \in Instructions : \A b \in AccessesOf(j) : InstOf(b) = j
      /\ \A j \in Instructions : IsFence(j) <=> AccessesOf(j) = {}
  BY <1>5, AccessFacts, InstructionFacts
<1>8. /\ Elements(rest) = Elements(Tail(rest)) \union {a} /\ Tail(rest) \in Seq(Accesses)
      /\ NoRepeats(Tail(rest)) /\ a \notin Elements(Tail(rest))
  BY <1>4, TailElements DEF Sorted
<1> HIDE DEF a
<1>9. InstOf(a) = i
  OBVIOUS
<1> HIDE DEF i, w, C, T, last
<1>10. w = i[1] /\ T' = T /\ coalesced = C /\ T = Elements(translated)
       /\ (last <=> C \intersect AccessesOf(i) = {a})
  BY <1>3 DEF w, T, C, last
<1> DEFINE R == Elements(released)
           B == UNION {Elements(blockedAccesses'[l]) : l \in Line}
<1>11. /\ R \subseteq Accesses /\ R \subseteq T
       /\ \A b \in R : InstOf(b) \in Instructions /\ AtHead(InstOf(b))' /\ ~AtHead(InstOf(b))
  BY <1>2, ElementsIn, ElementsEmpty
<1> HIDE DEF R
<1>12. R \intersect Queued = {}
  BY <1>5, <1>11 DEF InOneBuffer
<1>13. /\ Elements(rest) \union B = Queued /\ a \notin B
       /\ \A l \in Line : Elements(blockedAccesses'[l]) \subseteq B
  BY <1>8 DEF Sorted
<1>14. /\ injectBuffer' \in Seq(Accesses)
       /\ Elements(injectBuffer') = Elements(Tail(rest)) \union R
       /\ NoRepeats(injectBuffer')
  <2> DEFINE s == Tail(rest)
  <2>1. injectBuffer' = s \o released /\ s \in Seq(Accesses) /\ NoRepeats(s)
    BY <1>2, <1>8
  <2>2. Elements(s) \intersect Elements(released) = {}
    BY <1>8, <1>12, <1>13 DEF R
  <2> HIDE DEF s
  <2>3. /\ s \o released \in Seq(Accesses)
        /\ Elements(s \o released) = Elements(s) \union Elements(released)
        /\ NoRepeats(s) /\ NoRepeats(released) /\ Elements(s) \intersect Elements(released) = {}
             => NoRepeats(s \o released)
    BY <2>1, ConcatElements
  <2> QED BY <1>2, <2>1, <2>2, <2>3 DEF R, s
<1>15. Queued' = (Queued \ {a}) \union R
  <2>1. Queued' = Elements(injectBuffer') \union B
    BY DEF Queued
  <2> HIDE DEF B
  <2> QED BY <1>8, <1>13, <1>14, <2>1
<1> HIDE DEF B
<1>16. \A j \in Instructions : InQueue(j)' <=> InQueue(j) /\ (last => j # i)
  BY <1>2
<1>17. \A j \in Instructions : j # i => a \notin AccessesOf(j)
  BY <1>7, <1>9
<1>18. /\ T \ (C \ {a}) = (T \ C) \union {a}
       /\ (C \ {a}) \union T = C \union T
  BY <1>1
<1>19. a \notin T \ C /\ a \notin inCache /\ a \notin Elements(ejectBuffer)
  BY <1>1, <1>5, <1>10 DEF InFlight
<1>20. AccessesKnown'
  <2>1. \A b \in C \ {a} : InQueue(InstOf(b))'
    <3>1. ASSUME NEW b \in C \ {a} PROVE InQueue(InstOf(b))'
      <4>1. InstOf(b) \in Instructions /\ InQueue(InstOf(b)) /\ b \in AccessesOf(InstOf(b))
        BY <1>5, <1>7, <1>10 DEF AccessesKnown
      <4>2. last => InstOf(b) # i
        BY <1>10, <3>1, <4>1
      <4> QED BY <1>16, <4>1, <4>2
    <3> QED BY <3>1
  <2>2. \A j \in Instructions : InQueue(j)' /\ ~AtHead(j)' => AccessesOf(j) \subseteq C \ {a}
    <3>1. ASSUME NEW j \in Instructions, InQueue(j)', ~AtHead(j)'
          PROVE  AccessesOf(j) \subseteq C \ {a}
      <4>1. InQueue(j) /\ (last => j # i)
        BY <1>16, <3>1
      <4>2. ~AtHead(j)
        <5>1. CASE ~last
          BY <1>2, <3>1, <5>1
        <5>2. CASE last /\ j[1] # w
          BY <1>2, <3>1, <5>2
        <5>3. CASE last /\ j[1] = w
          BY <1>1, <1>5, <1>10, <4>1, <5>3, QueueOrder
        <5> QED BY <5>1, <5>2, <5>3
      <4>3. j # i
        BY <1>1, <4>2
      <4> QED BY <1>5, <1>10, <1>17, <4>1, <4>2, <4>3 DEF AccessesKnown
    <3> QED BY <3>1
  <2>3. \A j \in Instructions :
          AtHead(j)' /\ ~IsFence(j) => AccessesOf(j) \intersect (C \ {a}) # {}
    <3>1. ASSUME NEW j \in Instructions, AtHead(j)', ~IsFence(j)
          PROVE  AccessesOf(j) \intersect (C \ {a}) # {}
      <4>1. CASE j = i
        <5>1. ~last
          BY <1>1, <1>2, <1>10, <3>1, <4>1
        <5>2. C \intersect AccessesOf(i) # {a} /\ a \in C \intersect AccessesOf(i)
          BY <1>1, <1>10, <5>1
        <5> QED BY <4>1, <5>2
      <4>2. CASE j # i /\ AtHead(j)
        BY <1>5, <1>10, <1>17, <3>1, <4>2 DEF AccessesKnown
      <4>3. CASE j # i /\ ~AtHead(j)
        <5>1. InQueue(j)
          BY <1>2, <3>1, <4>3
        <5>2. AccessesOf(j) \subseteq C /\ AccessesOf(j) # {}
          BY <1>5, <1>7, <1>10, <3>1, <4>3, <5>1 DEF AccessesKnown
        <5> QED BY <1>17, <4>3, <5>2
      <4> QED BY <4>1, <4>2, <4>3
    <3> QED BY <3>1
  <2>4. (\A b \in T : InstOf(b) \in Issued) /\ Issued' = Issued
    BY <1>3, <1>5, <1>6, <1>10 DEF AccessesKnown, Issued
  <2>5. NoRepeats(translated)
    BY <1>5 DEF AccessesKnown
  <2>6. AccessesKnown' <=>
          /\ NoRepeats(translated')
          /\ \A b \in C \ {a} : InQueue(InstOf(b))'
          /\ \A b \in T : InstOf(b) \in Issued'
          /\ \A j \in Instructions : InQueue(j)' /\ ~AtHead(j)' => AccessesOf(j) \subseteq C \ {a}
          /\ \A j \in Instructions :
               AtHead(j)' /\ ~IsFence(j) => AccessesOf(j) \intersect (C \ {a}) # {}
    BY <1>3, <1>6, <1>10 DEF AccessesKnown, InstOf
  <2> QED BY <1>3, <2>1, <2>2, <2>3, <2>4, <2>5, <2>6
<1>21. Issued' = Issued /\ Issued \subseteq Instructions
  BY <1>3, <1>6 DEF Issued
<1>22. Committing'
  <2>1. Committing' <=>
          /\ NoRepeats(commitBuffer)
          /\ \A j \in Elements(commitBuffer) :
               /\ j \in Issued /\ ~InQueue(j)'
               /\ AccessesOf(j) \intersect ((C \ {a}) \union T) = {}
    BY <1>3, <1>6, <1>10, <1>21 DEF Committing
  <2>2. \A j \in Elements(commitBuffer) : j \in Issued /\ ~InQueue(j)' /\ j \in Instructions
    BY <1>5, <1>16, <1>21 DEF Committing
  <2> QED BY <1>5, <1>10, <1>18, <2>1, <2>2 DEF Committing
<1>23. OnePerLine'
  <2>1. \A b \in inCache : LineOf(b) # LineOf(a)
    BY <1>4, <1>5 DEF LinesHeld
  <2>2. OnePerLine' <=>
          /\ \A b, c \in inCache \union {a} : LineOf(b) = LineOf(c) => b = c
          /\ \A l \in Line : \A b \in Elements(blockedAccesses'[l]) : LineOf(b) = l
          /\ NoRepeats(ejectBuffer) /\ Elements(ejectBuffer) \intersect (inCache \union {a}) = {}
    BY <1>3, <1>6 DEF OnePerLine
  <2>3. \A l \in Line : \A b \in Elements(blockedAccesses'[l]) : LineOf(b) = l
    BY DEF Sorted
  <2> QED BY <1>5, <1>19, <2>1, <2>2, <2>3 DEF OnePerLine
<1>24. FencesWait'
  <2>1. FencesWait' <=>
          \A f \in Issued : IsFence(f) =>
            \A b \in T \ (C \ {a}) : b[1] = f[1] /\ b[2] < f[2] => InQueue(f)'
    BY <1>3, <1>6, <1>10, <1>21 DEF FencesWait
  <2>2. ASSUME NEW f \in Issued, IsFence(f), NEW b \in T \ (C \ {a}),
               b[1] = f[1], b[2] < f[2]
        PROVE  InQueue(f)'
    <3>1. f # i /\ f \in Instructions
      BY <1>1, <1>21, <2>2
    <3>2. CASE b = a
      <4>1. i[1] = f[1] /\ i[2] < f[2]
        BY <1>1, <1>10, <2>2, <3>2
      <4>2. InQueue(f)
        BY <1>1, <1>5, <3>1, <4>1, QueueOrder
      <4> QED BY <1>16, <3>1, <4>2
    <3>3. CASE b \in T \ C
      BY <1>5, <1>10, <1>16, <2>2, <3>1, <3>3 DEF FencesWait
    <3> QED BY <1>18, <3>2, <3>3
  <2> QED BY <2>1, <2>2
<1>25. InOneBuffer'
  <2>1. ASSUME NEW b \in Accesses
        PROVE  b \in Queued' <=> b \in C \ {a} /\ b \in T /\ AtHead(InstOf(b))'
    <3>1. b \in Queued <=> b \in C /\ b \in T /\ AtHead(InstOf(b))
      BY <1>5, <1>10 DEF InOneBuffer
    <3>2. InstOf(b) \in Instructions /\ b \in AccessesOf(InstOf(b))
      BY <1>7
    <3>3. CASE ~last
      <4>1. R = {}
        BY <1>2, <3>3, ElementsEmpty DEF R
      <4> QED BY <1>2, <1>15, <3>1, <3>2, <3>3, <4>1
    <3>4. CASE last /\ InstOf(b)[1] # w
      <4>1. b \notin R
        BY <1>2, <3>4 DEF R
      <4> QED BY <1>2, <1>15, <3>1, <3>2, <3>4, <4>1
    <3>5. CASE last /\ InstOf(b)[1] = w
      <4>1. ~(b \in Queued /\ b # a)
        <5>1. AtHead(InstOf(b)) => InstOf(b) = i
          BY <1>1, <1>5, <1>10, <3>2, <3>5, QueueOrder
        <5> QED BY <1>10, <3>1, <3>2, <3>5, <5>1
      <4>2. CASE AtHead(InstOf(b))'
        <5>1. /\ InQueue(InstOf(b)) /\ InstOf(b) # i /\ ~AtHead(InstOf(b))
              /\ R = T \intersect AccessesOf(InstOf(b))
          BY <1>2, <3>2, <3>5, <4>2 DEF R
        <5>2. b \in C /\ b # a
          BY <1>5, <1>9, <1>10, <3>2, <5>1 DEF AccessesKnown
        <5> QED BY <1>15, <3>2, <4>1, <4>2, <5>1, <5>2
      <4>3. CASE ~AtHead(InstOf(b))'
        <5>1. R \intersect AccessesOf(InstOf(b)) = {}
          BY <1>2, <3>2, <3>5, <4>3 DEF R
        <5> QED BY <1>15, <3>2, <4>1, <4>3, <5>1
      <4> QED BY <4>2, <4>3
    <3> QED BY <3>3, <3>4, <3>5
  <2>2. InOneBuffer' <=> \A b \in Accesses : b \in Queued' <=>
          b \in C \ {a} /\ b \in T /\ AtHead(InstOf(b))'
    BY <1>3, <1>6, <1>10 DEF InOneBuffer, InstOf
  <2> QED BY <2>1, <2>2
<1>26. BuffersApart'
  <2>1. ASSUME NEW l \in Line
        PROVE  /\ NoRepeats(blockedAccesses'[l])
               /\ Elements(blockedAccesses'[l]) \intersect Elements(injectBuffer') = {}
    <3>1. /\ NoRepeats(blockedAccesses'[l])
          /\ Elements(blockedAccesses'[l]) \intersect Elements(rest) = {}
      BY DEF Sorted
    <3>2. Elements(blockedAccesses'[l]) \subseteq Queued
      BY <1>13
    <3> QED BY <1>8, <1>12, <1>14, <3>1, <3>2
  <2> QED BY <1>14, <2>1 DEF BuffersApart
<1>27. InFlight'
  <2>1. InFlight' <=> T \ (C \ {a}) = (inCache \union {a}) \union Elements(ejectBuffer)
    BY <1>3, <1>10 DEF InFlight
  <2> QED BY <1>5, <1>10, <1>18, <2>1 DEF InFlight
<1>28. ASSUME NEW v \in Warp PROVE OutstandingOf(v)'
  <2>1. /\ outstanding[v] = Cardinality(FlightOf(v)) /\ outstanding[v] \in Nat
        /\ FlightOf(v) = {b \in T \ C : b[1] = v}
    BY <1>5, <1>10 DEF Inv, Accounts, OutstandingOf, FlightOf
  <2>2. IsFiniteSet(FlightOf(v))
    <3>1. IsFiniteSet(T)
      BY <1>5, <1>10, ElementsFinite
    <3> QED BY <2>1, <3>1, FS_Subset
  <2>3. FlightOf(v)' = {b \in T \ (C \ {a}) : b[1] = v}
    BY <1>3, <1>10 DEF FlightOf
  <2>4. CASE v = w
    <3>1. FlightOf(v)' = FlightOf(v) \union {a} /\ a \notin FlightOf(v)
      BY <1>1, <1>18, <1>19, <2>1, <2>3, <2>4
    <3>2. Cardinality(FlightOf(v) \union {a}) = Cardinality(FlightOf(v)) + 1
      BY <2>2, <3>1, FS_AddElement
    <3>3. outstanding'[v] = outstanding[v] + 1
      BY <1>3, <1>5, <2>4
    <3> QED BY <2>1, <3>1, <3>2, <3>3 DEF OutstandingOf
  <2>5. CASE v # w
    <3>1. FlightOf(v)' = FlightOf(v)
      BY <1>1, <1>18, <2>1, <2>3, <2>5
    <3>2. outstanding'[v] = outstanding[v]
      BY <1>3, <1>5, <2>5
    <3> QED BY <2>1, <3>1, <3>2 DEF OutstandingOf
  <2> QED BY <2>4, <2>5
<1>29. BuffersInUse'
  <2>1. ASSUME NEW j \in Instructions PROVE Busy(j)' <=> Busy(j)
    <3>1. Busy(j)' <=> \/ \E b \in (C \ {a}) \union T : InstOf(b) = j
                       \/ InQueue(j)'
                       \/ j \in Elements(commitBuffer)
      BY <1>3, <1>10 DEF Busy, InstOf
    <3>2. Busy(j) <=> \/ \E b \in C \union T : InstOf(b) = j
                      \/ InQueue(j)
                      \/ j \in Elements(commitBuffer)
      BY <1>10 DEF Busy
    <3>3. j = i => \E b \in C \union T : InstOf(b) = j
      BY <1>1, <1>9
    <3>4. InQueue(j)' <=> InQueue(j) /\ (last => j # i)
      BY <1>16
    <3> QED BY <1>18, <3>1, <3>2, <3>3, <3>4
  <2> QED BY <1>3, <1>5, <1>6, <2>1 DEF BuffersInUse
<1>30. LinesHeld'
  <2>1. LinesHeld' <=> blockedLines \union {LineOf(a)} = {LineOf(b) : b \in inCache \union {a}}
    BY <1>3, <1>6 DEF LinesHeld
  <2> QED BY <1>5, <2>1 DEF LinesHeld
<1>31. LinesAwaited'
  <2>1. LinesAwaited' <=> \A l \in Line : blockedAccesses'[l] # << >> =>
          l \in blockedLines' \/ \E b \in Elements(injectBuffer') : LineOf(b) = l
    BY <1>6 DEF LinesAwaited
  <2>2. \A l \in Line : blockedAccesses'[l] # << >> =>
          l \in blockedLines \/ \E b \in Elements(rest) : LineOf(b) = l
    BY DEF Sorted
  <2> QED BY <1>3, <1>8, <1>14, <2>1, <2>2
<1>32. /\ injectIn' \in [Accesses -> Past .. TagCycles]
       /\ injectEvent' \in Unscheduled .. TagCycles
       /\ injectEvent' # Unscheduled <=> injectBuffer' # << >>
  <2>1. injectIn' \in [Accesses -> Past .. TagCycles]
    BY <1>2, <1>5, InjectTimesTyped
  <2> QED BY <1>3, <1>14, <2>1, RescheduleTyped
<1>33. TypeOK'
  <2>1. outstanding' \in [Warp -> Nat]
    <3>1. outstanding[w] + 1 \in Nat
      BY <1>1, <1>5
    <3> QED BY <1>3, <1>5, <3>1
  <2>2. nextInject' \in 0 .. StoreCycles
    BY <1>3, LSQAssumption
  <2>3. coalesced' \subseteq Accesses /\ inCache' \subseteq Accesses
    BY <1>1, <1>3, <1>5
  <2>4. blockedLines' \subseteq Line /\ blockedAccesses' \in [Line -> Seq(Accesses)]
    BY <1>1, <1>3, <1>5 DEF TypeOK, Sorted
  <2> QED BY <1>1, <1>3, <1>5, <1>6, <1>14, <1>32, <2>1, <2>2, <2>3, <2>4
      DEF TypeOK, core, commit
<1>34. NoLostWakeup'
  BY <1>3, <1>5, <1>32 DEF NoLostWakeup, core, commit
<1> QED BY <1>1, <1>20, <1>22, <1>23, <1>24, <1>25, <1>26, <1>27, <1>28, <1>29, <1>30, <1>31,
           <1>33, <1>34 DEF Inv, Accounts

LEMMA InjectCacheAccessesInv == ASSUME Inv, InjectCacheAccesses PROVE Inv'
<1>1. /\ UNCHANGED <<program, core, active, translated, ejectBuffer, ejectEvent,
                     commit, halted>>
      /\ ~mshrsFull
      /\ \E rest \in Seq(Accesses) :
           /\ Sorted(rest)
           /\ \/ InjectNothing(rest)
              \/ Ready(rest) /\ InjectRefused(rest)
              \/ Ready(rest) /\ InjectAccepted(rest)
  BY InjectSorts
<1>2. PICK rest \in Seq(Accesses) :
        /\ Sorted(rest)
        /\ \/ InjectNothing(rest)
           \/ Ready(rest) /\ InjectRefused(rest)
           \/ Ready(rest) /\ InjectAccepted(rest)
  BY <1>1
<1> QED BY <1>1, <1>2, InjectNothingInv, InjectRefusedInv, InjectAcceptedInv

-----------------------------------------------------------------------------
(* Ejection.                                                               *)

\* The access to line l that goes on when the line is free.
LEMMA UnblockEffect ==
  ASSUME Inv, NEW l \in Line, UNCHANGED <<program, mshrsFull>>,
         IF blockedAccesses[l] = << >>
         THEN UNCHANGED <<injectBuffer, blockedAccesses, injectEvent>>
         ELSE /\ injectBuffer' = <<Head(blockedAccesses[l])>> \o injectBuffer
              /\ blockedAccesses' = [blockedAccesses EXCEPT ![l] = Tail(@)]
              /\ injectEvent' = IF mshrsFull THEN injectEvent ELSE 0
  PROVE  /\ injectBuffer' \in Seq(Accesses)
         /\ blockedAccesses' \in [Line -> Seq(Accesses)]
         /\ injectEvent' \in Unscheduled .. TagCycles
         /\ injectEvent' # Unscheduled <=> injectBuffer' # << >> /\ ~mshrsFull
         /\ mshrsFull => injectBuffer' # << >>
         /\ Queued' = Queued /\ BuffersApart'
         /\ \A m \in Line : Elements(blockedAccesses'[m]) \subseteq Elements(blockedAccesses[m])
         /\ \A m \in Line : blockedAccesses'[m] # << >> =>
              \/ m # l /\ m \in blockedLines
              \/ \E b \in Elements(injectBuffer') : LineOf(b) = m
<1>1. /\ TypeOK /\ NoLostWakeup /\ BuffersApart /\ LinesAwaited /\ OnePerLine
      /\ injectBuffer \in Seq(Accesses) /\ blockedAccesses \in [Line -> Seq(Accesses)]
      /\ injectEvent \in Unscheduled .. TagCycles
  BY DEF Inv, TypeOK, Accounts
<1>2. CASE blockedAccesses[l] = << >>
  <2>1. UNCHANGED <<injectBuffer, blockedAccesses, injectEvent>>
    BY <1>2
  <2>2. Queued' = Queued /\ BuffersApart'
    BY <1>1, <2>1 DEF Queued, BuffersApart
  <2>3. ASSUME NEW m \in Line, blockedAccesses'[m] # << >>
        PROVE  \/ m # l /\ m \in blockedLines
               \/ \E b \in Elements(injectBuffer') : LineOf(b) = m
    BY <1>1, <1>2, <2>1, <2>3 DEF LinesAwaited
  <2> QED BY <1>1, <2>1, <2>2, <2>3 DEF NoLostWakeup
<1>3. CASE blockedAccesses[l] # << >>
  <2> DEFINE old == blockedAccesses[l]
             next == Head(old)
             rest == Tail(old)
  <2>1. /\ injectBuffer' = <<next>> \o injectBuffer
        /\ blockedAccesses' = [blockedAccesses EXCEPT ![l] = rest]
        /\ injectEvent' = IF mshrsFull THEN injectEvent ELSE 0
    BY <1>3
  <2>2. old \in Seq(Accesses) /\ old # << >>
    BY <1>1, <1>3
  <2>3. /\ next \in Accesses /\ rest \in Seq(Accesses)
        /\ Elements(old) = Elements(rest) \union {next}
        /\ NoRepeats(old) => NoRepeats(rest) /\ next \notin Elements(rest)
    BY <2>2, TailElements
  <2>4. /\ NoRepeats(old) /\ Elements(old) \intersect Elements(injectBuffer) = {}
        /\ NoRepeats(injectBuffer) /\ \A b \in Elements(old) : LineOf(b) = l
    BY <1>1 DEF BuffersApart, OnePerLine
  <2> HIDE DEF next, rest
  <2>5. /\ <<next>> \in Seq(Accesses) /\ <<next>> # << >>
        /\ Elements(<<next>>) = {next} /\ NoRepeats(<<next>>)
    BY <2>3, ElementsSingle
  <2>6. /\ injectBuffer' \in Seq(Accesses) /\ injectBuffer' # << >>
        /\ Elements(injectBuffer') = {next} \union Elements(injectBuffer)
        /\ NoRepeats(injectBuffer')
    <3> DEFINE one == <<next>>
    <3>1. one \in Seq(Accesses) /\ one # << >> /\ Elements(one) = {next} /\ NoRepeats(one)
      BY <2>5
    <3>2. injectBuffer' = one \o injectBuffer
      BY <2>1
    <3> HIDE DEF one
    <3>3. /\ one \o injectBuffer \in Seq(Accesses)
          /\ Elements(one \o injectBuffer) = Elements(one) \union Elements(injectBuffer)
          /\ (one \o injectBuffer = << >>) <=> (one = << >> /\ injectBuffer = << >>)
          /\ NoRepeats(one) /\ NoRepeats(injectBuffer)
               /\ Elements(one) \intersect Elements(injectBuffer) = {}
               => NoRepeats(one \o injectBuffer)
      BY <1>1, <3>1, ConcatElements
    <3> QED BY <2>3, <2>4, <3>1, <3>2, <3>3
  <2>7. /\ blockedAccesses' \in [Line -> Seq(Accesses)] /\ blockedAccesses'[l] = rest
        /\ \A m \in Line : m # l => blockedAccesses'[m] = blockedAccesses[m]
    BY <1>1, <2>1, <2>3
  <2>8. /\ injectEvent' \in Unscheduled .. TagCycles
        /\ injectEvent' # Unscheduled <=> ~mshrsFull
    BY <1>1, <2>1, LSQAssumption DEF NoLostWakeup, Unscheduled
  <2>9. ASSUME NEW m \in Line
        PROVE  /\ Elements(blockedAccesses'[m]) \subseteq Elements(blockedAccesses[m])
               /\ NoRepeats(blockedAccesses'[m])
               /\ Elements(blockedAccesses'[m]) \intersect Elements(injectBuffer') = {}
               /\ blockedAccesses'[m] # << >> =>
                    \/ m # l /\ m \in blockedLines
                    \/ \E b \in Elements(injectBuffer') : LineOf(b) = m
    <3>1. CASE m = l
      BY <2>3, <2>4, <2>6, <2>7, <3>1
    <3>2. CASE m # l
      <4>1. /\ NoRepeats(blockedAccesses[m])
            /\ Elements(blockedAccesses[m]) \intersect Elements(injectBuffer) = {}
            /\ \A b \in Elements(blockedAccesses[m]) : LineOf(b) = m
            /\ blockedAccesses[m] # << >> =>
                 m \in blockedLines \/ \E b \in Elements(injectBuffer) : LineOf(b) = m
        BY <1>1 DEF BuffersApart, OnePerLine, LinesAwaited
      <4>2. LineOf(next) = l
        BY <2>3, <2>4
      <4> QED BY <2>6, <2>7, <3>2, <4>1, <4>2
    <3> QED BY <3>1, <3>2
  <2>10. BuffersApart'
    BY <2>6, <2>9 DEF BuffersApart
  <2>11. Queued' = Queued
    <3> DEFINE new == UNION {Elements(blockedAccesses'[m]) : m \in Line}
               was == UNION {Elements(blockedAccesses[m]) : m \in Line}
    <3>1. Queued = Elements(injectBuffer) \union was
      BY DEF Queued
    <3>2. Queued' = Elements(injectBuffer') \union new
      BY DEF Queued
    <3>3. \A b : b \in was <=> \E m \in Line : b \in Elements(blockedAccesses[m])
      OBVIOUS
    <3>4. \A b : b \in new <=> \E m \in Line : b \in Elements(blockedAccesses'[m])
      OBVIOUS
    <3> HIDE DEF new, was
    <3>5. ASSUME NEW b PROVE b \in was <=> b \in new \/ b = next
      <4>1. CASE \E m \in Line : m # l /\ b \in Elements(blockedAccesses[m])
        BY <2>7, <3>3, <3>4, <4>1
      <4>2. CASE b \in Elements(old)
        BY <2>3, <2>7, <3>3, <3>4, <4>2
      <4>3. CASE \A m \in Line : b \notin Elements(blockedAccesses[m])
        BY <2>3, <2>9, <3>3, <3>4, <4>3
      <4> QED BY <4>1, <4>2, <4>3
    <3> QED BY <2>6, <3>1, <3>2, <3>5
  <2> QED BY <2>6, <2>7, <2>8, <2>9, <2>10, <2>11
<1> QED BY <1>2, <1>3

LEMMA RecvResponseInv ==
  ASSUME Inv, NEW a \in Accesses, RecvResponse(a) PROVE Inv'
<1>1. /\ UNCHANGED <<program, core, active, instQueues, outstanding, coalesced,
                     translated, injectIn, nextInject, mshrsFull, commit, halted>>
      /\ a \in inCache
      /\ inCache' = inCache \ {a}
      /\ ejectBuffer' = Append(ejectBuffer, a)
      /\ ejectEvent' = TRUE
      /\ blockedLines' = blockedLines \ {LineOf(a)}
  BY DEF RecvResponse
<1>2. /\ Instructions' = Instructions /\ Accesses' = Accesses
      /\ \A i : AccessesOf(i)' = AccessesOf(i) /\ IsFence(i)' = IsFence(i)
      /\ \A b : LineOf(b)' = LineOf(b)
  BY <1>1, SameProgram
<1>3. /\ TypeOK /\ NoLostWakeup /\ program \in Programs
      /\ OnePerLine /\ InOneBuffer /\ InFlight /\ LinesHeld
      /\ ejectBuffer \in Seq(Accesses) /\ inCache \subseteq Accesses /\ blockedLines \subseteq Line
  BY DEF Inv, TypeOK, Accounts
<1>4. LineOf(a) \in Line
  BY <1>3, AccessFacts
<1>5. /\ injectBuffer' \in Seq(Accesses)
      /\ blockedAccesses' \in [Line -> Seq(Accesses)]
      /\ injectEvent' \in Unscheduled .. TagCycles
      /\ injectEvent' # Unscheduled <=> injectBuffer' # << >> /\ ~mshrsFull
      /\ mshrsFull => injectBuffer' # << >>
      /\ Queued' = Queued /\ BuffersApart'
      /\ \A m \in Line : Elements(blockedAccesses'[m]) \subseteq Elements(blockedAccesses[m])
      /\ \A m \in Line : blockedAccesses'[m] # << >> =>
           \/ m # LineOf(a) /\ m \in blockedLines
           \/ \E b \in Elements(injectBuffer') : LineOf(b) = m
  <2> DEFINE l == LineOf(a)
  <2>1. /\ IF blockedAccesses[l] = << >>
           THEN UNCHANGED <<injectBuffer, blockedAccesses, injectEvent>>
           ELSE /\ injectBuffer' = <<Head(blockedAccesses[l])>> \o injectBuffer
                /\ blockedAccesses' = [blockedAccesses EXCEPT ![l] = Tail(@)]
                /\ injectEvent' = IF mshrsFull THEN injectEvent ELSE 0
    BY DEF RecvResponse
  <2>2. PICK m \in Line : m = l
    BY <1>4
  <2> HIDE DEF l
  <2>3. /\ IF blockedAccesses[m] = << >>
           THEN UNCHANGED <<injectBuffer, blockedAccesses, injectEvent>>
           ELSE /\ injectBuffer' = <<Head(blockedAccesses[m])>> \o injectBuffer
                /\ blockedAccesses' = [blockedAccesses EXCEPT ![m] = Tail(@)]
                /\ injectEvent' = IF mshrsFull THEN injectEvent ELSE 0
    BY <2>1, <2>2
  <2> HIDE DEF Inv
  <2> QED BY <1>1, <2>2, <2>3, UnblockEffect DEF l
<1>6. /\ ejectBuffer' \in Seq(Accesses) /\ ejectBuffer' # << >>
      /\ Elements(ejectBuffer') = Elements(ejectBuffer) \union {a}
      /\ NoRepeats(ejectBuffer) /\ a \notin Elements(ejectBuffer) => NoRepeats(ejectBuffer')
  BY <1>1, <1>3, AppendElements
<1>7. TypeOK'
  BY <1>1, <1>2, <1>3, <1>5, <1>6 DEF TypeOK, core, commit
<1>8. NoLostWakeup'
  BY <1>1, <1>3, <1>5, <1>6 DEF NoLostWakeup, core, commit
<1>9. OnePerLine'
  <2>1. OnePerLine' <=>
          /\ \A b, c \in inCache \ {a} : LineOf(b) = LineOf(c) => b = c
          /\ \A l \in Line : \A b \in Elements(blockedAccesses'[l]) : LineOf(b) = l
          /\ NoRepeats(ejectBuffer') /\ Elements(ejectBuffer') \intersect (inCache \ {a}) = {}
    BY <1>1, <1>2 DEF OnePerLine
  <2> QED BY <1>1, <1>3, <1>5, <1>6, <2>1 DEF OnePerLine
<1>10. InOneBuffer'
  <2>1. \A i : AtHead(i)' <=> AtHead(i)
    BY <1>1 DEF AtHead
  <2> QED BY <1>1, <1>2, <1>3, <1>5, <2>1 DEF InOneBuffer
<1>11. InFlight'
  <2>1. InFlight' <=> Elements(translated) \ coalesced
                        = (inCache \ {a}) \union (Elements(ejectBuffer) \union {a})
    BY <1>1, <1>6 DEF InFlight
  <2> QED BY <1>1, <1>3, <2>1 DEF InFlight
<1>12. LinesHeld'
  <2>1. LinesHeld' <=> blockedLines \ {LineOf(a)} = {LineOf(b) : b \in inCache \ {a}}
    BY <1>1, <1>2 DEF LinesHeld
  <2>2. \A b, c \in inCache : LineOf(b) = LineOf(c) => b = c
    BY <1>3 DEF OnePerLine
  <2> QED BY <1>1, <1>3, <2>1, <2>2 DEF LinesHeld
<1>13. LinesAwaited'
  <2>1. LinesAwaited' <=> \A m \in Line : blockedAccesses'[m] # << >> =>
          m \in blockedLines \ {LineOf(a)} \/ \E b \in Elements(injectBuffer') : LineOf(b) = m
    BY <1>1, <1>2 DEF LinesAwaited
  <2> QED BY <1>5, <2>1
<1>14. /\ Queues' /\ AccessesKnown' /\ Committing' /\ FencesWait'
       /\ (\A w \in Warp : OutstandingOf(w))' /\ BuffersInUse'
  BY <1>1, Frame DEF Inv, Accounts, core, commit
<1> QED BY <1>5, <1>7, <1>8, <1>9, <1>10, <1>11, <1>12, <1>13, <1>14 DEF Inv, Accounts

\* What an ejection completes: the instruction of the access, if it was its last, and the
\* fences that waited for it, of which there is at most one.
LEMMA EjectEffect ==
  ASSUME Inv, EjectAccessResponses
  PROVE  \E a \in Accesses :
           LET i == InstOf(a)
               w == i[1]
               complete == Unfinished(i) = {a}
           IN
           /\ a = Head(ejectBuffer) /\ ejectBuffer # << >>
           /\ a \in Elements(translated) /\ a \notin coalesced /\ a \notin inCache
           /\ i \in Instructions /\ i \in Issued /\ a \in AccessesOf(i) /\ ~IsFence(i)
           /\ w \in Warp /\ w = a[1]
           /\ complete => ~InQueue(i)
           /\ translated' \in Seq(Accesses) /\ NoRepeats(translated')
           /\ Elements(translated') = Elements(translated) \ {a}
           /\ outstanding' = [outstanding EXCEPT ![w] = @ - 1]
           /\ commitEvent' = (commitEvent \/ (complete /\ ~writebackBlocked))
           /\ instQueues' \in [Warp -> Seq(Instructions)] /\ Queues'
           /\ \E fences \in SUBSET Instructions :
                /\ \A f \in fences : /\ IsFence(f) /\ AtHead(f) /\ f[1] = w
                                     /\ complete /\ outstanding[w] = 1
                /\ \A j \in Instructions : InQueue(j)' <=> InQueue(j) /\ j \notin fences
                /\ \A j \in Instructions : AtHead(j)' <=> AtHead(j) /\ j \notin fences
                /\ commitBuffer' \in Seq(Instructions) /\ NoRepeats(commitBuffer')
                /\ Elements(commitBuffer')
                     = Elements(commitBuffer) \union fences \union (IF complete THEN {i} ELSE {})
<1>1. /\ TypeOK /\ NoLostWakeup /\ Queues /\ program \in Programs /\ AccessesKnown
      /\ Committing /\ InFlight
      /\ ejectBuffer \in Seq(Accesses) /\ translated \in Seq(Accesses)
      /\ commitBuffer \in Seq(Instructions) /\ instQueues \in [Warp -> Seq(Instructions)]
  BY DEF Inv, TypeOK, Accounts
<1>2. ejectBuffer # << >>
  BY <1>1 DEF EjectAccessResponses, NoLostWakeup
<1>3. PICK a \in Accesses : a = Head(ejectBuffer) /\ a \in Elements(ejectBuffer)
  BY <1>1, <1>2, TailElements
<1> DEFINE i == InstOf(a)
           w == i[1]
           T == Elements(translated)
           complete == Unfinished(i) = {a}
           fenced == /\ complete /\ outstanding[w] = 1
                     /\ instQueues[w] # << >> /\ IsFence(Head(instQueues[w]))
           one == IF complete THEN <<i>> ELSE << >>
           two == IF fenced THEN <<Head(instQueues[w])>> ELSE << >>
<1>4. /\ UNCHANGED <<program, issued>>
      /\ fenced => Len(instQueues[w]) = 1
      /\ outstanding' = [outstanding EXCEPT ![w] = @ - 1]
      /\ translated' = Filter(translated, Accesses \ {a})
      /\ commitBuffer' = commitBuffer \o one \o two
      /\ commitEvent' = (commitEvent \/ (complete /\ ~writebackBlocked))
      /\ instQueues' = [instQueues EXCEPT ![w] = IF fenced THEN << >> ELSE @]
  BY <1>3 DEF EjectAccessResponses, core
<1>5. a \in T /\ a \notin coalesced /\ a \notin inCache
  BY <1>1, <1>3 DEF InFlight, Inv, OnePerLine
<1>6. /\ i \in Instructions /\ a \in AccessesOf(i) /\ ~IsFence(i) /\ w \in Warp /\ w = a[1]
      /\ i \in Issued
  BY <1>1, <1>5, AccessFacts DEF AccessesKnown
<1>7. /\ translated' \in Seq(Accesses) /\ NoRepeats(translated') /\ Elements(translated') = T \ {a}
  <2>1. T \subseteq Accesses /\ NoRepeats(translated)
    BY <1>1, ElementsIn DEF AccessesKnown
  <2>2. /\ Filter(translated, Accesses \ {a}) \in Seq(Accesses)
        /\ Elements(Filter(translated, Accesses \ {a})) = T \intersect (Accesses \ {a})
        /\ NoRepeats(translated) => NoRepeats(Filter(translated, Accesses \ {a}))
    BY <1>1, FilterElements
  <2>3. T \intersect (Accesses \ {a}) = T \ {a}
    BY <2>1
  <2> QED BY <1>4, <2>1, <2>2, <2>3
<1> HIDE DEF i
<1>8. complete => ~InQueue(i)
  <2> SUFFICES ASSUME complete, InQueue(i) PROVE FALSE
    OBVIOUS
  <2>1. AccessesOf(i) \intersect coalesced = {}
    BY <1>5 DEF Unfinished
  <2>2. CASE AtHead(i)
    BY <1>1, <1>6, <2>1, <2>2 DEF AccessesKnown
  <2>3. CASE ~AtHead(i)
    BY <1>1, <1>5, <1>6, <2>3 DEF AccessesKnown
  <2> QED BY <2>2, <2>3
<1>9. i \notin Elements(commitBuffer)
  BY <1>1, <1>5, <1>6 DEF Committing
<1> HIDE DEF complete
<1>10. LET b == commitBuffer \o one IN
       /\ b \in Seq(Instructions) /\ NoRepeats(b)
       /\ Elements(b) = Elements(commitBuffer) \union (IF complete THEN {i} ELSE {})
  <2>1. /\ <<i>> \in Seq(Instructions) /\ << >> \in Seq(Instructions)
        /\ Elements(<<i>>) = {i} /\ NoRepeats(<<i>>)
        /\ Elements(<< >>) = {} /\ NoRepeats(<< >>)
    BY <1>6, ElementsEmpty, ElementsSingle
  <2>2. /\ one \in Seq(Instructions) /\ NoRepeats(one)
        /\ Elements(one) = IF complete THEN {i} ELSE {}
    BY <2>1
  <2> HIDE DEF one
  <2>3. /\ commitBuffer \o one \in Seq(Instructions)
        /\ Elements(commitBuffer \o one) = Elements(commitBuffer) \union Elements(one)
        /\ NoRepeats(commitBuffer) /\ NoRepeats(one)
             /\ Elements(commitBuffer) \intersect Elements(one) = {}
             => NoRepeats(commitBuffer \o one)
    BY <1>1, <2>2, ConcatElements
  <2>4. NoRepeats(commitBuffer)
    BY <1>1 DEF Committing
  <2> QED BY <1>9, <2>2, <2>3, <2>4
<1> DEFINE b == commitBuffer \o one
<1>11. /\ b \in Seq(Instructions) /\ NoRepeats(b)
       /\ Elements(b) = Elements(commitBuffer) \union (IF complete THEN {i} ELSE {})
       /\ commitBuffer' = b \o two
  BY <1>4, <1>10
<1> HIDE DEF b, w, one
<1>12. w = i[1]
  BY DEF w
<1>13. CASE ~fenced
  <2>1. instQueues' = instQueues /\ two = << >>
    BY <1>1, <1>4, <1>13
  <2> HIDE DEF two, fenced
  <2>2. Queues'
    BY <1>1, <1>4, <2>1, Frame
  <2>3. b \o << >> = b
    BY <1>11
  <2>4. commitBuffer' = b
    BY <1>11, <2>1, <2>3
  <2>5. \A j \in Instructions : /\ InQueue(j)' <=> InQueue(j) /\ j \notin {}
                                /\ AtHead(j)' <=> AtHead(j) /\ j \notin {}
    BY <2>1 DEF InQueue, AtHead
  <2>6. /\ \A f \in {} : /\ IsFence(f) /\ AtHead(f) /\ f[1] = w
                         /\ complete /\ outstanding[w] = 1
        /\ \A j \in Instructions : InQueue(j)' <=> InQueue(j) /\ j \notin {}
        /\ \A j \in Instructions : AtHead(j)' <=> AtHead(j) /\ j \notin {}
        /\ commitBuffer' \in Seq(Instructions) /\ NoRepeats(commitBuffer')
        /\ Elements(commitBuffer')
             = Elements(commitBuffer) \union {} \union (IF complete THEN {i} ELSE {})
    BY <1>11, <2>4, <2>5
  <2>7. instQueues' \in [Warp -> Seq(Instructions)]
    BY <1>1, <2>1
  <2> WITNESS a \in Accesses
  <2>8. \E fences \in SUBSET Instructions :
          /\ \A f \in fences : /\ IsFence(f) /\ AtHead(f) /\ f[1] = w
                               /\ complete /\ outstanding[w] = 1
          /\ \A j \in Instructions : InQueue(j)' <=> InQueue(j) /\ j \notin fences
          /\ \A j \in Instructions : AtHead(j)' <=> AtHead(j) /\ j \notin fences
          /\ commitBuffer' \in Seq(Instructions) /\ NoRepeats(commitBuffer')
          /\ Elements(commitBuffer')
               = Elements(commitBuffer) \union fences \union (IF complete THEN {i} ELSE {})
    <3> WITNESS {} \in SUBSET Instructions
    <3> QED BY <2>6
  <2> QED BY <1>2, <1>3, <1>4, <1>5, <1>6, <1>7, <1>8, <2>2, <2>7, <2>8 DEF i, w, complete
<1>14. CASE fenced
  <2>1. /\ complete /\ outstanding[w] = 1 /\ instQueues[w] # << >> /\ Len(instQueues[w]) = 1
        /\ instQueues[w] \in Seq(Instructions)
    BY <1>1, <1>4, <1>6, <1>14
  <2>2. PICK f \in Instructions : f = Head(instQueues[w]) /\ IsFence(f)
    BY <1>14, <2>1, TailElements
  <2>3. two = <<f>> /\ Tail(instQueues[w]) = << >>
    <3>1. ASSUME NEW q \in Seq(Instructions), Len(q) = 1 PROVE Tail(q) = << >>
      <4>1. Tail(q) \in Seq(Instructions) /\ Len(Tail(q)) = 0
        BY <3>1
      <4>2. \A s \in Seq(Instructions) : Len(s) = 0 => s = << >>
        OBVIOUS
      <4> QED BY <4>1, <4>2
    <3>2. two = <<f>>
      BY <1>14, <2>2
    <3>3. Tail(instQueues[w]) = << >>
      BY <2>1, <3>1
    <3> QED BY <3>2, <3>3
  <2>4. instQueues' = [instQueues EXCEPT ![w] = Tail(@)]
    BY <1>1, <1>4, <1>14, <2>3
  <2> HIDE DEF two, fenced
  <2>5. f[1] = w
    <3>1. QueueOf(w) /\ DOMAIN instQueues[w] = 1 .. 1 /\ f = instQueues[w][1]
      BY <1>1, <1>6, <2>1, <2>2 DEF Queues
    <3>2. f = <<w, issued[w] - Len(instQueues[w]) + 1>>
      BY <3>1 DEF QueueOf
    <3> QED BY <3>2
  <2>6. AtHead(f)
    BY <2>1, <2>2, <2>5 DEF AtHead
  <2>7. /\ instQueues' \in [Warp -> Seq(Instructions)] /\ Queues'
        /\ \A j \in Instructions : InQueue(j)' <=> InQueue(j) /\ j # f
        /\ \A j \in Instructions : j[1] # w => (AtHead(j)' <=> AtHead(j))
        /\ \A j \in Instructions : j[1] = w => ~AtHead(j)'
    BY <1>1, <1>4, <1>6, <2>3, <2>4, <2>5, <2>6, LeaveQueue
  <2>8. \A j \in Instructions : AtHead(j)' <=> AtHead(j) /\ j # f
    <3>1. ASSUME NEW j \in Instructions PROVE AtHead(j)' <=> AtHead(j) /\ j # f
      <4>1. CASE j[1] = w
        BY <1>1, <2>5, <2>6, <2>7, <4>1, QueueOrder
      <4>2. CASE j[1] # w
        BY <2>5, <2>7, <4>2
      <4> QED BY <4>1, <4>2
    <3> QED BY <3>1
  <2>9. f # i /\ f \notin Elements(commitBuffer)
    <3>1. InQueue(f)
      BY <1>1, <2>6, QueueOrder
    <3> QED BY <1>1, <1>6, <2>2, <3>1 DEF Committing
  <2>10. /\ <<f>> \in Seq(Instructions) /\ Elements(<<f>>) = {f} /\ NoRepeats(<<f>>)
    BY ElementsSingle
  <2>11. /\ commitBuffer' \in Seq(Instructions) /\ NoRepeats(commitBuffer')
         /\ Elements(commitBuffer') = Elements(b) \union {f}
    <3>1. /\ commitBuffer' = b \o two /\ two \in Seq(Instructions)
          /\ Elements(two) = {f} /\ NoRepeats(two)
      BY <1>11, <2>3, <2>10
    <3>2. /\ b \o two \in Seq(Instructions)
          /\ Elements(b \o two) = Elements(b) \union Elements(two)
          /\ NoRepeats(b) /\ NoRepeats(two) /\ Elements(b) \intersect Elements(two) = {}
               => NoRepeats(b \o two)
      BY <1>11, <3>1, ConcatElements
    <3>3. f \notin Elements(b)
      BY <1>11, <2>9
    <3> QED BY <1>11, <3>1, <3>2, <3>3
  <2>12. \E fences \in SUBSET Instructions :
          /\ \A g \in fences : /\ IsFence(g) /\ AtHead(g) /\ g[1] = w
                               /\ complete /\ outstanding[w] = 1
          /\ \A j \in Instructions : InQueue(j)' <=> InQueue(j) /\ j \notin fences
          /\ \A j \in Instructions : AtHead(j)' <=> AtHead(j) /\ j \notin fences
          /\ commitBuffer' \in Seq(Instructions) /\ NoRepeats(commitBuffer')
          /\ Elements(commitBuffer')
               = Elements(commitBuffer) \union fences \union (IF complete THEN {i} ELSE {})
    <3> WITNESS {f} \in SUBSET Instructions
    <3> QED BY <1>11, <2>1, <2>2, <2>5, <2>6, <2>7, <2>8, <2>11
  <2> WITNESS a \in Accesses
  <2> QED BY <1>2, <1>3, <1>4, <1>5, <1>6, <1>7, <1>8, <2>7, <2>12 DEF i, w, complete
<1> QED BY <1>13, <1>14

LEMMA EjectAccessResponsesInv == ASSUME Inv, EjectAccessResponses PROVE Inv'
<1> DEFINE C == coalesced
           T == Elements(translated)
<1>1. /\ UNCHANGED <<program, core, active, coalesced, inject, writebackBlocked,
                     inCache, halted>>
      /\ ejectBuffer' = Tail(ejectBuffer) /\ ejectEvent' = (ejectBuffer' # << >>)
  BY DEF EjectAccessResponses
<1>2. /\ TypeOK /\ NoLostWakeup /\ Queues /\ program \in Programs
      /\ AccessesKnown /\ Committing /\ OnePerLine /\ FencesWait
      /\ InOneBuffer /\ InFlight /\ BuffersInUse
      /\ ejectBuffer \in Seq(Accesses) /\ outstanding \in [Warp -> Nat]
      /\ T \subseteq Accesses /\ C \subseteq Accesses /\ translated \in Seq(Accesses)
  BY ElementsIn DEF Inv, TypeOK, Accounts
<1>3. PICK a \in Accesses :
        LET i == InstOf(a)
            w == i[1]
            complete == Unfinished(i) = {a}
        IN
        /\ a = Head(ejectBuffer) /\ ejectBuffer # << >>
        /\ a \in Elements(translated) /\ a \notin coalesced /\ a \notin inCache
        /\ i \in Instructions /\ i \in Issued /\ a \in AccessesOf(i) /\ ~IsFence(i)
        /\ w \in Warp /\ w = a[1]
        /\ complete => ~InQueue(i)
        /\ translated' \in Seq(Accesses) /\ NoRepeats(translated')
        /\ Elements(translated') = Elements(translated) \ {a}
        /\ outstanding' = [outstanding EXCEPT ![w] = @ - 1]
        /\ commitEvent' = (commitEvent \/ (complete /\ ~writebackBlocked))
        /\ instQueues' \in [Warp -> Seq(Instructions)] /\ Queues'
        /\ \E fences \in SUBSET Instructions :
             /\ \A f \in fences : /\ IsFence(f) /\ AtHead(f) /\ f[1] = w
                                  /\ complete /\ outstanding[w] = 1
             /\ \A j \in Instructions : InQueue(j)' <=> InQueue(j) /\ j \notin fences
             /\ \A j \in Instructions : AtHead(j)' <=> AtHead(j) /\ j \notin fences
             /\ commitBuffer' \in Seq(Instructions) /\ NoRepeats(commitBuffer')
             /\ Elements(commitBuffer')
                  = Elements(commitBuffer) \union fences \union (IF complete THEN {i} ELSE {})
  BY EjectEffect, Zenon
<1> DEFINE i == InstOf(a)
           w == i[1]
           complete == Unfinished(i) = {a}
<1>4. /\ a = Head(ejectBuffer) /\ ejectBuffer # << >>
      /\ a \in T /\ a \notin C /\ a \notin inCache
      /\ i \in Instructions /\ i \in Issued /\ a \in AccessesOf(i) /\ ~IsFence(i)
      /\ w \in Warp /\ w = a[1]
      /\ complete => ~InQueue(i)
      /\ translated' \in Seq(Accesses) /\ NoRepeats(translated')
      /\ Elements(translated') = T \ {a}
      /\ outstanding' = [outstanding EXCEPT ![w] = @ - 1]
      /\ commitEvent' = (commitEvent \/ (complete /\ ~writebackBlocked))
      /\ instQueues' \in [Warp -> Seq(Instructions)] /\ Queues'
  BY <1>3
<1>5. PICK fences \in SUBSET Instructions :
        /\ \A f \in fences : /\ IsFence(f) /\ AtHead(f) /\ f[1] = w
                             /\ complete /\ outstanding[w] = 1
        /\ \A j \in Instructions : InQueue(j)' <=> InQueue(j) /\ j \notin fences
        /\ \A j \in Instructions : AtHead(j)' <=> AtHead(j) /\ j \notin fences
        /\ commitBuffer' \in Seq(Instructions) /\ NoRepeats(commitBuffer')
        /\ Elements(commitBuffer')
             = Elements(commitBuffer) \union fences \union (IF complete THEN {i} ELSE {})
  BY <1>3
<1>6. /\ Instructions' = Instructions /\ Accesses' = Accesses
      /\ \A j : AccessesOf(j)' = AccessesOf(j) /\ IsFence(j)' = IsFence(j)
      /\ \A b : LineOf(b)' = LineOf(b)
  BY <1>1, SameProgram
<1>7. /\ \A b \in Accesses : /\ InstOf(b) \in Instructions /\ b \in AccessesOf(InstOf(b))
                             /\ ~IsFence(InstOf(b)) /\ InstOf(b)[1] = b[1]
      /\ \A j \in Instructions : \A b \in AccessesOf(j) : InstOf(b) = j
      /\ \A j \in Instructions : IsFence(j) <=> AccessesOf(j) = {}
  BY <1>2, AccessFacts, InstructionFacts
<1>8. complete <=> AccessesOf(i) \intersect (C \union T) = {a}
  BY DEF Unfinished
<1>9. InstOf(a) = i
  OBVIOUS
<1> HIDE DEF i, w, complete, C, T
<1>10. T = Elements(translated) /\ C = coalesced /\ w = i[1]
  BY DEF T, C, w
<1>11. /\ ejectBuffer' \in Seq(Accesses)
       /\ Elements(ejectBuffer) = Elements(ejectBuffer') \union {a}
       /\ NoRepeats(ejectBuffer) => NoRepeats(ejectBuffer') /\ a \notin Elements(ejectBuffer')
  BY <1>1, <1>2, <1>4, TailElements
<1>12. /\ Elements(translated') \ coalesced' = (T \ C) \ {a}
       /\ coalesced' \union Elements(translated') = (C \union T) \ {a}
       /\ coalesced' = C
  BY <1>1, <1>4, <1>10
<1>13. Issued' = Issued /\ Issued \subseteq Instructions
  BY <1>1, <1>6 DEF Issued, core
<1>14. \A j \in fences : AtHead(j) /\ InQueue(j) /\ j \in Issued /\ AccessesOf(j) = {} /\ j # i
  <2>1. ASSUME NEW j \in fences
        PROVE  AtHead(j) /\ InQueue(j) /\ j \in Issued /\ AccessesOf(j) = {} /\ j # i
    <3>1. AtHead(j) /\ IsFence(j) /\ j \in Instructions
      BY <1>5
    <3>2. InQueue(j) /\ j \in Issued
      BY <1>2, <3>1, QueueOrder
    <3> QED BY <1>4, <1>7, <3>1, <3>2
  <2> QED BY <2>1
<1>15. AccessesKnown'
  <2>1. \A b \in C : InQueue(InstOf(b))'
    <3>1. ASSUME NEW b \in C PROVE InQueue(InstOf(b))'
      <4>1. InstOf(b) \in Instructions /\ ~IsFence(InstOf(b)) /\ InQueue(InstOf(b))
        BY <1>2, <1>7, <1>10 DEF AccessesKnown
      <4> QED BY <1>5, <4>1
    <3> QED BY <3>1
  <2>2. \A j \in Instructions : InQueue(j)' /\ ~AtHead(j)' => AccessesOf(j) \subseteq C
    BY <1>2, <1>5, <1>10 DEF AccessesKnown
  <2>3. \A j \in Instructions : AtHead(j)' /\ ~IsFence(j) => AccessesOf(j) \intersect C # {}
    BY <1>2, <1>5, <1>10 DEF AccessesKnown
  <2>4. \A b \in T \ {a} : InstOf(b) \in Issued
    BY <1>2, <1>10 DEF AccessesKnown
  <2>5. AccessesKnown' <=>
          /\ NoRepeats(translated')
          /\ \A b \in C : InQueue(InstOf(b))'
          /\ \A b \in T \ {a} : InstOf(b) \in Issued
          /\ \A j \in Instructions : InQueue(j)' /\ ~AtHead(j)' => AccessesOf(j) \subseteq C
          /\ \A j \in Instructions : AtHead(j)' /\ ~IsFence(j) => AccessesOf(j) \intersect C # {}
    BY <1>4, <1>6, <1>12, <1>13 DEF AccessesKnown, InstOf
  <2> QED BY <1>4, <2>1, <2>2, <2>3, <2>4, <2>5
<1>16. Committing'
  <2>1. Committing' <=>
          /\ NoRepeats(commitBuffer')
          /\ \A j \in Elements(commitBuffer') :
               /\ j \in Issued /\ ~InQueue(j)'
               /\ AccessesOf(j) \intersect ((C \union T) \ {a}) = {}
    BY <1>6, <1>12, <1>13 DEF Committing
  <2>2. ASSUME NEW j \in Elements(commitBuffer')
        PROVE  /\ j \in Issued /\ ~InQueue(j)'
               /\ AccessesOf(j) \intersect ((C \union T) \ {a}) = {}
    <3>1. CASE j \in Elements(commitBuffer)
      <4>1. /\ j \in Issued /\ ~InQueue(j) /\ AccessesOf(j) \intersect (C \union T) = {}
        BY <1>2, <1>10, <3>1 DEF Committing
      <4> QED BY <1>5, <1>13, <4>1
    <3>2. CASE j \in fences
      BY <1>5, <1>14, <3>2
    <3>3. CASE complete /\ j = i
      BY <1>4, <1>5, <1>8, <3>3
    <3> QED BY <1>5, <3>1, <3>2, <3>3
  <2> QED BY <1>5, <2>1, <2>2
<1>17. OnePerLine'
  <2>1. OnePerLine' <=>
          /\ \A b, c \in inCache : LineOf(b) = LineOf(c) => b = c
          /\ \A l \in Line : \A b \in Elements(blockedAccesses[l]) : LineOf(b) = l
          /\ NoRepeats(ejectBuffer') /\ Elements(ejectBuffer') \intersect inCache = {}
    BY <1>1, <1>6 DEF OnePerLine, inject
  <2> QED BY <1>2, <1>11, <2>1 DEF OnePerLine
<1>18. ASSUME NEW v \in Warp
       PROVE  /\ outstanding[v] = Cardinality(FlightOf(v)) /\ outstanding[v] \in Nat
              /\ FlightOf(v) = {b \in T \ C : b[1] = v}
              /\ IsFiniteSet(FlightOf(v))
  <2>1. /\ outstanding[v] = Cardinality(FlightOf(v)) /\ outstanding[v] \in Nat
        /\ FlightOf(v) = {b \in T \ C : b[1] = v}
    BY <1>2, <1>10 DEF Inv, Accounts, OutstandingOf, FlightOf
  <2>2. IsFiniteSet(T)
    BY <1>2, <1>10, ElementsFinite
  <2> QED BY <2>1, <2>2, FS_Subset
<1>19. FencesWait'
  <2>1. FencesWait' <=>
          \A f \in Issued : IsFence(f) =>
            \A b \in (T \ C) \ {a} : b[1] = f[1] /\ b[2] < f[2] => InQueue(f)'
    BY <1>6, <1>12, <1>13 DEF FencesWait
  <2>2. ASSUME NEW f \in Issued, IsFence(f), NEW b \in (T \ C) \ {a},
               b[1] = f[1], b[2] < f[2]
        PROVE  InQueue(f)'
    <3>1. InQueue(f) /\ f \in Instructions
      BY <1>2, <1>10, <1>13, <2>2 DEF FencesWait
    <3>2. ASSUME f \in fences PROVE FALSE
      <4>1. outstanding[w] = 1 /\ f[1] = w
        BY <1>5, <3>2
      <4>2. Cardinality(FlightOf(w)) = 1 /\ IsFiniteSet(FlightOf(w))
        BY <1>4, <1>18, <4>1
      <4>3. a \in FlightOf(w) /\ b \in FlightOf(w)
        BY <1>4, <1>18, <2>2, <4>1
      <4>4. PICK c : FlightOf(w) = {c}
        BY <4>2, FS_Singleton
      <4> QED BY <2>2, <4>3, <4>4
    <3> QED BY <1>5, <3>1, <3>2
  <2> QED BY <2>1, <2>2
<1>20. InOneBuffer'
  <2>1. Queued' = Queued
    BY <1>1 DEF Queued, inject
  <2>2. ASSUME NEW b \in Accesses
        PROVE  b \in Queued <=> b \in C /\ b \in T \ {a} /\ AtHead(InstOf(b))'
    <3>1. b \in Queued <=> b \in C /\ b \in T /\ AtHead(InstOf(b))
      BY <1>2, <1>10 DEF InOneBuffer
    <3>2. AtHead(InstOf(b))' <=> AtHead(InstOf(b))
      BY <1>5, <1>7
    <3> QED BY <1>4, <3>1, <3>2
  <2>3. InOneBuffer' <=> \A b \in Accesses : b \in Queued' <=>
          b \in C /\ b \in T \ {a} /\ AtHead(InstOf(b))'
    BY <1>4, <1>6, <1>12 DEF InOneBuffer, InstOf
  <2> QED BY <2>1, <2>2, <2>3
<1>21. InFlight'
  <2>1. InFlight' <=> (T \ C) \ {a} = inCache \union Elements(ejectBuffer')
    BY <1>1, <1>12 DEF InFlight
  <2> QED BY <1>2, <1>4, <1>10, <1>11, <2>1 DEF InFlight, OnePerLine
<1>22. ASSUME NEW v \in Warp PROVE OutstandingOf(v)'
  <2>1. FlightOf(v)' = {b \in (T \ C) \ {a} : b[1] = v}
    BY <1>12 DEF FlightOf
  <2>2. CASE v = w
    <3>1. FlightOf(v)' = FlightOf(v) \ {a} /\ a \in FlightOf(v)
      BY <1>4, <1>18, <2>1, <2>2
    <3>2. Cardinality(FlightOf(v) \ {a}) = Cardinality(FlightOf(v)) - 1
      BY <1>18, <3>1, FS_RemoveElement
    <3>3. outstanding'[v] = outstanding[v] - 1
      BY <1>2, <1>4, <2>2
    <3> QED BY <1>18, <3>1, <3>2, <3>3 DEF OutstandingOf
  <2>3. CASE v # w
    <3>1. FlightOf(v)' = FlightOf(v)
      BY <1>4, <1>18, <2>1, <2>3
    <3>2. outstanding'[v] = outstanding[v]
      BY <1>2, <1>4, <2>3
    <3> QED BY <1>18, <3>1, <3>2 DEF OutstandingOf
  <2> QED BY <2>2, <2>3
<1>23. BuffersInUse'
  <2>1. ASSUME NEW j \in Instructions PROVE Busy(j)' <=> Busy(j)
    <3>1. Busy(j)' <=> \/ \E b \in (C \union T) \ {a} : InstOf(b) = j
                       \/ InQueue(j)'
                       \/ j \in Elements(commitBuffer')
      BY <1>12 DEF Busy, InstOf
    <3>2. Busy(j) <=> \/ \E b \in C \union T : InstOf(b) = j
                      \/ InQueue(j)
                      \/ j \in Elements(commitBuffer)
      BY <1>10 DEF Busy
    <3>3. InQueue(j)' <=> InQueue(j) /\ j \notin fences
      BY <1>5
    <3>4. CASE j = i
      <4>1. Busy(j)
        BY <1>4, <1>9, <3>2, <3>4
      <4>2. CASE complete
        BY <1>5, <3>1, <3>4, <4>1, <4>2
      <4>3. CASE ~complete
        <5>1. PICK b \in AccessesOf(i) \intersect (C \union T) : b # a
          BY <1>4, <1>8, <4>3
        <5>2. InstOf(b) = i
          BY <1>4, <1>7, <5>1
        <5> QED BY <3>1, <3>4, <4>1, <5>1, <5>2
      <4> QED BY <4>2, <4>3
    <3>5. CASE j # i
      <4>1. (\E b \in C \union T : InstOf(b) = j) <=> (\E b \in (C \union T) \ {a} : InstOf(b) = j)
        BY <1>9, <3>5
      <4> QED BY <1>5, <1>14, <3>1, <3>2, <3>3, <3>5, <4>1
    <3> QED BY <3>4, <3>5
  <2> QED BY <1>1, <1>2, <1>6, <2>1 DEF BuffersInUse
<1>24. TypeOK'
  <2>1. outstanding' \in [Warp -> Nat]
    <3>1. outstanding[w] \in Nat /\ outstanding[w] # 0
      <4>1. a \in FlightOf(w) /\ IsFiniteSet(FlightOf(w))
        BY <1>4, <1>18
      <4>2. Cardinality(FlightOf(w)) # 0
        BY <4>1, FS_EmptySet
      <4> QED BY <1>4, <1>18, <4>2
    <3>2. outstanding[w] - 1 \in Nat
      BY <3>1
    <3> QED BY <1>2, <1>4, <3>2
  <2>2. ejectEvent' \in BOOLEAN /\ commitEvent' \in BOOLEAN
    BY <1>1, <1>2, <1>4 DEF TypeOK
  <2> QED BY <1>1, <1>2, <1>4, <1>5, <1>6, <1>11, <2>1, <2>2 DEF TypeOK, core, inject
<1>25. NoLostWakeup'
  <2>1. commitBuffer \in Seq(Instructions)
    BY <1>2 DEF TypeOK
  <2>2. /\ commitBuffer = << >> <=> Elements(commitBuffer) = {}
        /\ commitBuffer' = << >> <=> Elements(commitBuffer') = {}
    BY <1>5, <2>1, ElementsIn
  <2>3. ~complete => fences = {}
    BY <1>5
  <2>4. commitBuffer' # << >> <=> commitBuffer # << >> \/ complete
    BY <1>5, <2>2, <2>3
  <2> QED BY <1>1, <1>2, <1>4, <2>4 DEF NoLostWakeup, core, inject
<1>26. BuffersApart' /\ LinesHeld' /\ LinesAwaited'
  BY <1>1, Frame DEF Inv, Accounts, inject
<1> QED BY <1>4, <1>15, <1>16, <1>17, <1>19, <1>20, <1>21, <1>22, <1>23, <1>24, <1>25, <1>26
    DEF Inv, Accounts

-----------------------------------------------------------------------------
(* All steps.                                                              *)

LEMMA NextInv == Inv /\ [Next]_vars => Inv'
<1> SUFFICES ASSUME Inv, [Next]_vars PROVE Inv'
  OBVIOUS
<1>1. ASSUME NEW w \in Warp, IssueMemInst(w) PROVE Inv'
  BY <1>1, IssueMemInstInv
<1>2. ASSUME NEW w \in Warp, PollMembar(w) PROVE Inv'
  BY <1>2, PollMembarInv
<1>3. ASSUME NEW a \in Accesses, FinishTranslation(a) PROVE Inv'
  BY <1>3, FinishTranslationInv
<1>4. ASSUME NEW a \in Accesses, RecvResponse(a) PROVE Inv'
  BY <1>4, RecvResponseInv
<1>5. ASSUME NEW a \in Accesses, RecvResponseUntried(a) PROVE Inv'
  <2>1. Stop("untried")
    BY <1>5 DEF RecvResponseUntried
  <2> QED BY <2>1, StopInv
<1>6. CASE InjectCacheAccesses
  BY <1>6, InjectCacheAccessesInv
<1>7. CASE ScheduleRetryInject
  BY <1>7, ScheduleRetryInjectInv
<1>8. CASE EjectAccessResponses
  BY <1>8, EjectAccessResponsesInv
<1>9. CASE EjectBehindFence
  <2>1. Stop("behind fence")
    BY <1>9 DEF EjectBehindFence
  <2> QED BY <2>1, StopInv
<1>10. CASE CommitWarpInst
  BY <1>10, CommitWarpInstInv
<1>11. CASE CommitNotFenced
  <2>1. Stop("not fenced")
    BY <1>11 DEF CommitNotFenced
  <2> QED BY <2>1, StopInv
<1>12. CASE Writeback
  BY <1>12, WritebackInv
<1>13. CASE FinishKernel
  BY <1>13, FinishKernelInv
<1>14. CASE Tick
  BY <1>14, TickInv
<1>15. CASE UNCHANGED vars
  BY <1>15, StutterInv
<1> QED BY <1>1, <1>2, <1>3, <1>4, <1>5, <1>6, <1>7, <1>8, <1>9, <1>10, <1>11, <1>12, <1>13,
           <1>14, <1>15 DEF Next

LEMMA Invariance == Spec => []Inv
BY InitInv, NextInv, PTL DEF Spec

\* The queue's state is well typed: no count of outstanding accesses goes below zero, and
\* no cycle count past its bound.
THEOREM LSQTypeCorrect == Spec => []TypeOK
<1>1. Inv => TypeOK
  BY DEF Inv
<1> QED BY <1>1, Invariance, PTL

\* A stage of the queue with work to do has its event scheduled, or waits for a retry
\* that the cache or the writeback stage owes it.
THEOREM LSQNoWakeupLost == Spec => []NoLostWakeup
<1>1. Inv => NoLostWakeup
  BY DEF Inv
<1> QED BY <1>1, Invariance, PTL

\* Every access is in one place, what fences wait for is counted rightly, and a line is
\* blocked exactly while an access to it is in the cache.
THEOREM LSQAccounts == Spec => []AccessesAccounted
BY InvAccounts, Invariance, PTL

-----------------------------------------------------------------------------
(* Refinement.                                                             *)

LEMMA EnteredAccesses ==
  ASSUME program \in Programs
  PROVE  /\ Entered \subseteq Accesses
         /\ \A a \in Accesses : a \in Entered <=> InstOf(a) \in Issued /\ a \notin coalesced
<1>1. Issued \subseteq Instructions
  BY DEF Issued
<1>2. \A i \in Instructions : /\ AccessesOf(i) \subseteq Accesses
                              /\ \A a \in AccessesOf(i) : InstOf(a) = i
  BY InstructionFacts
<1>3. \A a \in Accesses : a \in AccessesOf(InstOf(a))
  BY AccessFacts
<1> DEFINE U == UNION {AccessesOf(i) : i \in Issued}
<1>4. \A a : a \in U <=> \E i \in Issued : a \in AccessesOf(i)
  OBVIOUS
<1>5. Entered = U \ coalesced
  BY DEF Entered
<1> HIDE DEF U
<1>6. \A a : a \in U => a \in Accesses
  BY <1>1, <1>2, <1>4
<1>7. \A a \in Accesses : a \in U <=> InstOf(a) \in Issued
  BY <1>1, <1>2, <1>3, <1>4
<1> QED BY <1>5, <1>6, <1>7

\* The abstract instructions and accesses are those of the queue.
LEMMA SameAbstract ==
  /\ Abstract!Instructions = Instructions /\ Abstract!Accesses = Accesses
  /\ \A i : Abstract!AccessesOf(i) = AccessesOf(i) /\ (Abstract!IsFence(i) <=> IsFence(i))
  /\ \A a : Abstract!InstOf(a) = InstOf(a) /\ Abstract!LineOf(a) = LineOf(a)
BY DEF Abstract!Instructions, Abstract!Accesses, Abstract!AccessesOf, Abstract!IsFence,
       Abstract!InstOf, Abstract!LineOf, Instructions, Accesses, AccessesOf, IsFence, Kind,
       InstOf, LineOf

abstracted == <<program, Entered, Entered \ inCache, Issued \ active>>

LEMMA AbstractStutter ==
  ASSUME UNCHANGED <<program, issued, coalesced, inCache, active>>
  PROVE  UNCHANGED abstracted
<1>1. Instructions' = Instructions /\ \A i : AccessesOf(i)' = AccessesOf(i)
  BY SameProgram
<1>2. Issued' = Issued
  BY <1>1 DEF Issued
<1>3. Entered' = Entered
  BY <1>1, <1>2 DEF Entered
<1> QED BY <1>2, <1>3 DEF abstracted

LEMMA IssueRefines ==
  ASSUME Inv, NEW w \in Warp, IssueMemInst(w) PROVE UNCHANGED abstracted
<1>0. PICK i \in Instructions : i = NextOf(w)
  BY IssueEffect
<1>1. /\ program' = program /\ inCache' = inCache /\ active' = active \union {i}
      /\ i \notin Issued /\ Issued' = Issued \union {i}
      /\ coalesced' = coalesced \union AccessesOf(i)
  BY <1>0, IssueEffect DEF IssueMemInst, NextOf
<1>2. \A j : AccessesOf(j)' = AccessesOf(j)
  BY <1>1, SameProgram
<1>3. program \in Programs /\ Issued \subseteq Instructions
  BY DEF Inv, TypeOK, Issued
<1> DEFINE U == UNION {AccessesOf(j) : j \in Issued}
           V == UNION {AccessesOf(j) : j \in Issued \union {i}}
<1>4. Entered = U \ coalesced
  BY DEF Entered
<1>5. Entered' = V \ (coalesced \union AccessesOf(i))
  BY <1>1, <1>2 DEF Entered
<1>6. V = U \union AccessesOf(i)
  OBVIOUS
<1>7. U \intersect AccessesOf(i) = {}
  <2>1. ASSUME NEW j \in Issued PROVE AccessesOf(j) \intersect AccessesOf(i) = {}
    <3>1. j \in Instructions /\ j # i
      BY <1>1, <1>3
    <3>2. /\ \A a \in AccessesOf(j) : InstOf(a) = j
          /\ \A a \in AccessesOf(i) : InstOf(a) = i
      BY <1>3, <3>1, InstructionFacts
    <3> QED BY <3>1, <3>2
  <2> QED BY <2>1
<1> HIDE DEF U, V
<1>8. Entered' = Entered
  BY <1>4, <1>5, <1>6, <1>7
<1>9. (Issued \ active)' = Issued \ active
  BY <1>1
<1> QED BY <1>1, <1>8, <1>9 DEF abstracted

\* What is known of the accesses before those of an instruction.
LEMMA EarlierAccesses ==
  ASSUME program \in Programs, NEW i \in Instructions, NEW b \in Abstract!Earlier(i)
  PROVE  /\ b \in Accesses /\ InstOf(b) \in Instructions /\ b \in AccessesOf(InstOf(b))
         /\ InstOf(b)[1] = i[1] /\ InstOf(b)[2] < i[2] /\ b[1] = i[1] /\ b[2] < i[2]
<1> DEFINE B == {j \in Instructions : j[1] = i[1] /\ j[2] < i[2]}
<1>1. Abstract!Earlier(i) = UNION {AccessesOf(j) : j \in B}
  BY SameAbstract DEF Abstract!Earlier, Abstract!Before
<1>2. PICK j \in Instructions : j[1] = i[1] /\ j[2] < i[2] /\ b \in AccessesOf(j)
  BY <1>1
<1>3. b \in Accesses /\ InstOf(b) = j
  BY <1>2, InstructionFacts
<1>4. InstOf(b)[1] = b[1] /\ InstOf(b)[2] = b[2]
  BY <1>3, AccessFacts
<1> QED BY <1>2, <1>3, <1>4

\* Before an issued instruction that is not in the queue, everything has entered;
\* before a fence, everything has returned.
LEMMA EarlierDone ==
  ASSUME Inv, NEW i \in Instructions, i \in Issued, ~InQueue(i)
  PROVE  /\ \A b \in Accesses : InstOf(b) = i => b \in Entered
         /\ Abstract!Earlier(i) \subseteq Entered
         /\ IsFence(i) => Abstract!Earlier(i) \subseteq Entered \ inCache
<1>1. /\ TypeOK /\ Queues /\ AccessesKnown /\ FencesWait /\ InFlight /\ program \in Programs
  BY DEF Inv, TypeOK, Accounts
<1>2. ASSUME NEW b \in Accesses, InstOf(b)[1] = i[1], InstOf(b)[2] < i[2] \/ InstOf(b) = i
      PROVE  b \in Entered
  <2>1. InstOf(b) \in Instructions
    BY <1>1, AccessFacts
  <2>2. InstOf(b) \in Issued /\ ~InQueue(InstOf(b))
    <3>1. CASE InstOf(b) = i
      BY <3>1
    <3>2. CASE InstOf(b)[2] < i[2]
      <4>1. InstOf(b) \in Issued
        <5>1. /\ i[2] \in Nat /\ InstOf(b)[2] \in Nat /\ i[1] \in Warp
          BY <1>1, <2>1, InstructionFacts
        <5>2. issued[i[1]] \in Nat
          BY <1>1, <5>1 DEF TypeOK
        <5> QED BY <1>2, <2>1, <3>2, <5>1, <5>2 DEF Issued
      <4>2. InQueue(InstOf(b)) => InQueue(i)
        BY <1>1, <1>2, <2>1, <3>2, QueueOrder
      <4> QED BY <4>1, <4>2
    <3> QED BY <1>2, <3>1, <3>2
  <2>3. b \notin coalesced
    BY <1>1, <2>2 DEF AccessesKnown
  <2> QED BY <1>1, <2>2, <2>3, EnteredAccesses
<1>3. \A b \in Abstract!Earlier(i) : b \in Entered
  BY <1>1, <1>2, EarlierAccesses
<1>4. ASSUME IsFence(i), NEW b \in Abstract!Earlier(i) PROVE b \notin inCache
  <2>1. b[1] = i[1] /\ b[2] < i[2]
    BY <1>1, EarlierAccesses
  <2>2. b \in inCache => b \in Elements(translated) \ coalesced
    BY <1>1 DEF InFlight
  <2> QED BY <1>1, <1>4, <2>1, <2>2 DEF FencesWait
<1> QED BY <1>2, <1>3, <1>4

LEMMA RecvResponseRefines ==
  ASSUME Inv, NEW a \in Accesses, RecvResponse(a) PROVE Abstract!Next
<1>1. /\ UNCHANGED <<program, issued, coalesced, active>>
      /\ a \in inCache /\ inCache' = inCache \ {a}
  BY DEF RecvResponse, core
<1>2. Entered' = Entered /\ Issued' = Issued
  BY <1>1, SameProgram DEF Entered, Issued
<1>3. a \in Entered
  <2>1. /\ program \in Programs /\ a \in Elements(translated) \ coalesced
        /\ InstOf(a) \in Issued
    BY <1>1 DEF Inv, TypeOK, Accounts, InFlight, AccessesKnown
  <2> QED BY <2>1, EnteredAccesses
<1>4. Abstract!Return(a)
  BY <1>1, <1>2, <1>3 DEF Abstract!Return
<1> QED BY <1>4, SameAbstract DEF Abstract!Next

LEMMA CommitRefines ==
  ASSUME Inv, CommitWarpInst PROVE Abstract!Next \/ UNCHANGED abstracted
<1>1. /\ UNCHANGED <<program, issued, coalesced, inCache>> /\ commitEvent
      /\ Release \/ UNCHANGED active
  BY DEF CommitWarpInst
<1>2. CASE UNCHANGED active
  BY <1>1, <1>2, AbstractStutter
<1>3. CASE Release
  <2>1. commitBuffer \in Seq(Instructions) /\ commitBuffer # << >> /\ program \in Programs
    BY <1>1 DEF Inv, TypeOK, NoLostWakeup
  <2>2. PICK i \in Instructions : i = Head(commitBuffer) /\ i \in Elements(commitBuffer)
    BY <2>1, TailElements
  <2>3. active' = active \ {i}
    BY <1>3, <2>2 DEF Release
  <2>4. /\ i \in Issued /\ ~InQueue(i)
        /\ AccessesOf(i) \intersect (coalesced \union Elements(translated)) = {}
    BY <2>2 DEF Inv, Committing
  <2>5. i \in active
    BY <2>2 DEF Inv, Accounts, BuffersInUse, Busy
  <2>6. Entered' = Entered /\ Issued' = Issued
    BY <1>1, SameProgram DEF Entered, Issued
  <2>7. AccessesOf(i) \subseteq Entered \ inCache
    <3>1. \A b \in AccessesOf(i) : b \in Accesses /\ InstOf(b) = i
      BY <2>1, InstructionFacts
    <3>2. inCache \subseteq Elements(translated)
      BY DEF Inv, Accounts, InFlight
    <3> QED BY <2>4, <3>1, <3>2, EarlierDone
  <2>8. IsFence(i) => Abstract!Earlier(i) \subseteq Entered \ inCache
    BY <2>4, EarlierDone
  <2>9. Abstract!Complete(i)
    <3>1. i \notin Issued \ active /\ (Issued \ active)' = (Issued \ active) \union {i}
      BY <2>3, <2>4, <2>5, <2>6
    <3>2. /\ Abstract!AccessesOf(i) \subseteq Entered \ inCache
          /\ Abstract!IsFence(i) => Abstract!Earlier(i) \subseteq Entered \ inCache
      BY <2>7, <2>8, SameAbstract
    <3>3. UNCHANGED <<program, Entered, Entered \ inCache>>
      BY <1>1, <2>6
    <3> QED BY <3>1, <3>2, <3>3 DEF Abstract!Complete
  <2> QED BY <2>9, SameAbstract DEF Abstract!Next
<1> QED BY <1>1, <1>2, <1>3

LEMMA AcceptRefines ==
  ASSUME Inv, NEW rest \in Seq(Accesses), Sorted(rest), Ready(rest), InjectAccepted(rest),
         UNCHANGED <<program, core, active, translated, ejectBuffer, ejectEvent, commit, halted>>
  PROVE  Abstract!Next
<1> DEFINE a == Head(rest)
           i == InstOf(a)
<1>1. /\ a \in Accesses /\ a \in coalesced /\ i \in Instructions /\ AtHead(i)
  BY AcceptEffect
<1>2. /\ UNCHANGED <<program, issued, active>>
      /\ inCache' = inCache \union {a} /\ coalesced' = coalesced \ {a}
      /\ LineOf(a) \notin blockedLines
  BY DEF InjectAccepted, Ready, core
<1>3. /\ TypeOK /\ Queues /\ AccessesKnown /\ FencesWait /\ InFlight /\ LinesHeld
      /\ program \in Programs
  BY DEF Inv, TypeOK, Accounts
<1> HIDE DEF a
<1>4. InstOf(a) = i
  OBVIOUS
<1> HIDE DEF i
<1>5. i \in Issued
  BY <1>1, <1>3, QueueOrder
<1>6. /\ Entered \subseteq Accesses
      /\ \A b \in Accesses : b \in Entered <=> InstOf(b) \in Issued /\ b \notin coalesced
  BY <1>3, EnteredAccesses
<1>7. Issued' = Issued
  BY <1>2, SameProgram DEF Issued
<1>8. Entered' = Entered \union {a} /\ a \notin Entered
  <2> DEFINE U == UNION {AccessesOf(j) : j \in Issued}
  <2>1. Entered = U \ coalesced
    BY DEF Entered
  <2>2. Entered' = U \ (coalesced \ {a})
    BY <1>2, <1>7, SameProgram DEF Entered
  <2>3. a \in U
    <3>1. a \in AccessesOf(i)
      BY <1>1, <1>3, <1>4, AccessFacts
    <3> QED BY <1>5, <3>1
  <2> HIDE DEF U
  <2> QED BY <1>1, <2>1, <2>2, <2>3
<1>9. ASSUME NEW j \in Instructions, j[1] = i[1], j[2] < i[2] PROVE j \in Issued /\ ~InQueue(j)
  BY <1>1, <1>3, <1>9, QueueOrder
<1>10. Abstract!Earlier(i) \subseteq Entered
  <2>1. ASSUME NEW b \in Abstract!Earlier(i) PROVE b \in Entered
    <3>1. /\ b \in Accesses /\ InstOf(b) \in Instructions
          /\ InstOf(b)[1] = i[1] /\ InstOf(b)[2] < i[2]
      BY <1>1, <1>3, EarlierAccesses
    <3>2. InstOf(b) \in Issued /\ ~InQueue(InstOf(b))
      BY <1>9, <3>1
    <3>3. b \notin coalesced
      BY <1>3, <3>2 DEF AccessesKnown
    <3> QED BY <1>6, <3>1, <3>2, <3>3
  <2> QED BY <2>1
<1>11. ASSUME NEW f \in Abstract!Before(i), IsFence(f)
       PROVE  Abstract!Earlier(f) \subseteq Entered \ inCache
  <2>1. f \in Instructions /\ f[1] = i[1] /\ f[2] < i[2]
    BY SameAbstract DEF Abstract!Before
  <2>2. f \in Issued /\ ~InQueue(f)
    BY <1>9, <2>1
  <2> QED BY <1>11, <2>1, <2>2, EarlierDone
<1>12. \A b \in Entered \ (Entered \ inCache) : LineOf(b) # LineOf(a)
  BY <1>2, <1>3 DEF LinesHeld
<1>13. Abstract!Enter(a)
  <2>1. Abstract!InstOf(a) = i
    BY <1>4, SameAbstract
  <2>2. UNCHANGED <<program, Entered \ inCache, Issued \ active>>
    BY <1>2, <1>7, <1>8
  <2>3. /\ \A f \in Abstract!Before(i) : Abstract!IsFence(f) =>
             Abstract!Earlier(f) \subseteq Entered \ inCache
        /\ \A b \in Entered \ (Entered \ inCache) : Abstract!LineOf(b) # Abstract!LineOf(a)
    BY <1>11, <1>12, SameAbstract
  <2> QED BY <1>8, <1>10, <2>1, <2>2, <2>3 DEF Abstract!Enter
<1> QED BY <1>1, <1>13, SameAbstract DEF Abstract!Next

LEMMA StepRefines ==
  ASSUME Inv, [Next]_vars PROVE Abstract!Next \/ UNCHANGED abstracted
<1>1. ASSUME NEW w \in Warp, IssueMemInst(w) PROVE UNCHANGED abstracted
  BY <1>1, IssueRefines
<1>2. ASSUME NEW w \in Warp, PollMembar(w) PROVE UNCHANGED abstracted
  BY <1>2, AbstractStutter DEF PollMembar
<1>3. ASSUME NEW a \in Accesses, FinishTranslation(a) PROVE UNCHANGED abstracted
  BY <1>3, AbstractStutter DEF FinishTranslation, core
<1>4. ASSUME NEW a \in Accesses, RecvResponse(a) PROVE Abstract!Next
  BY <1>4, RecvResponseRefines
<1>5. ASSUME NEW why, Stop(why) PROVE UNCHANGED abstracted
  BY <1>5, AbstractStutter DEF Stop, core
<1>6. CASE InjectCacheAccesses
  <2>1. /\ UNCHANGED <<program, core, active, translated, ejectBuffer, ejectEvent,
                       commit, halted>>
        /\ \E rest \in Seq(Accesses) :
             /\ Sorted(rest)
             /\ \/ InjectNothing(rest)
                \/ Ready(rest) /\ InjectRefused(rest)
                \/ Ready(rest) /\ InjectAccepted(rest)
    BY <1>6, InjectSorts
  <2>2. PICK rest \in Seq(Accesses) :
          /\ Sorted(rest)
          /\ \/ InjectNothing(rest)
             \/ Ready(rest) /\ InjectRefused(rest)
             \/ Ready(rest) /\ InjectAccepted(rest)
    BY <2>1
  <2>3. CASE InjectNothing(rest)
    BY <2>1, <2>3, AbstractStutter DEF InjectNothing, core
  <2>4. CASE InjectRefused(rest)
    BY <2>1, <2>4, AbstractStutter DEF InjectRefused, core
  <2>5. CASE Ready(rest) /\ InjectAccepted(rest)
    BY <2>1, <2>2, <2>5, AcceptRefines
  <2> QED BY <2>2, <2>3, <2>4, <2>5
<1>7. CASE ScheduleRetryInject
  BY <1>7, AbstractStutter DEF ScheduleRetryInject, core
<1>8. CASE EjectAccessResponses
  BY <1>8, AbstractStutter DEF EjectAccessResponses, core
<1>9. CASE CommitWarpInst
  BY <1>9, CommitRefines
<1>10. CASE Writeback
  BY <1>10, AbstractStutter DEF Writeback
<1>11. CASE FinishKernel
  BY <1>11, AbstractStutter DEF FinishKernel
<1>12. CASE Tick
  BY <1>12, AbstractStutter DEF Tick
<1>13. CASE UNCHANGED vars
  BY <1>13, AbstractStutter DEF vars, core
<1> QED BY <1>1, <1>2, <1>3, <1>4, <1>5, <1>6, <1>7, <1>8, <1>9, <1>10, <1>11, <1>12, <1>13
    DEF Next, RecvResponseUntried, EjectBehindFence, CommitNotFenced

LEMMA InitRefines == Init => Abstract!Init
<1> SUFFICES ASSUME Init PROVE Abstract!Init
  OBVIOUS
<1>1. program \in Programs /\ active = {} /\ issued = [w \in Warp |-> 0]
  BY DEF Init
<1>2. Issued = {}
  <2>1. ASSUME NEW i \in Issued PROVE FALSE
    <3>1. i \in Instructions /\ i[2] <= issued[i[1]]
      BY DEF Issued
    <3>2. i[1] \in Warp /\ i[2] \in Nat \ {0}
      BY <1>1, <3>1, InstructionFacts
    <3> QED BY <1>1, <3>1, <3>2
  <2> QED BY <2>1
<1>3. Entered = {}
  BY <1>2 DEF Entered
<1> QED BY <1>1, <1>2, <1>3 DEF Abstract!Init

\* The queue keeps the order it promises: accesses enter the cache in program order, one
\* to a line, and a fence is answered only when all before it has returned.
THEOREM LSQRefines == Spec => ImplementsWarpMemory
<1>1. Inv /\ [Next]_vars
        => [Abstract!Next]_<<program, Entered, Entered \ inCache, Issued \ active>>
  BY StepRefines DEF abstracted
<1> QED BY <1>1, InitRefines, Invariance, PTL DEF Spec, ImplementsWarpMemory, Abstract!Spec
=============================================================================
