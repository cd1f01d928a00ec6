---------------------------- MODULE MCShaderLSQ ----------------------------
(* Small programs of two warps on three cache lines.                       *)
EXTENDS ShaderLSQ

CONSTANTS lineA, lineB, lineC

Load(lines) == [kind |-> "load", lines |-> lines]
Store(lines) == [kind |-> "store", lines |-> lines]
Atomic(lines) == [kind |-> "atomic", lines |-> lines]
Fence == [kind |-> "fence", lines |-> << >>]

MCLine == {lineA, lineB, lineC}
MCPrograms == {
  \* a fence between a store and a load, and a load of their lines
  <<<<Store(<<lineA>>), Fence, Load(<<lineB>>)>>, <<Load(<<lineA, lineB>>)>>>>,
  \* two loads of a warp whose accesses block one another and fill the MSHRs
  <<<<Load(<<lineA, lineB>>), Load(<<lineA>>)>>, <<Load(<<lineC>>), Fence>>>>,
  \* an atomic of two accesses to one line, and stores to it
  <<<<Atomic(<<lineA, lineA>>), Store(<<lineA>>)>>, <<Store(<<lineA>>), Fence>>>>,
  \* a fence after a fence
  <<<<Store(<<lineA>>), Fence, Fence>>, <<Load(<<lineA>>)>>>> }
=============================================================================
