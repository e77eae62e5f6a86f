----------------------------- MODULE MCWarmPool -----------------------------
(* The pool for TLC.  Runners of one kind are alike, and so are samples.   *)
EXTENDS WarmPool, TLC

Symm ==
  UNION {Permutations(S) : S \in {Scans, Samples, Preloaders, Operators}}
=============================================================================
