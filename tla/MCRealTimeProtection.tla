----------------------- MODULE MCRealTimeProtection -----------------------
(***************************************************************************)
(* Instances of RealTimeProtection for TLC.  The images of an instance are *)
(* model values named for what the engine finds in them.                   *)
(***************************************************************************)
EXTENDS RealTimeProtection, TLC

CONSTANTS
  known,  \* in the hash database
  evil,   \* convicted by YARA
  grey,   \* left to the sandbox
  odd     \* left to the sandbox, which finds nothing

(* Process instances and pids are interchangeable.                         *)
Symm == Permutations(Procs) \cup Permutations(Pids)
=============================================================================
