---------------------------- MODULE MCShaderMMU -----------------------------
EXTENDS ShaderMMU, TLC

CONSTANTS r1, r2, r3, r4, core, copy
\* Two requests for the first page from one TLB, and one for each other page, of
\* which one competes with the first page for the TLB's entry.
MCPageOf == r1 :> 1 @@ r2 :> 1 @@ r3 :> 2 @@ r4 :> 3
MCTlbOf == r1 :> core @@ r2 :> core @@ r3 :> copy @@ r4 :> core
=============================================================================
