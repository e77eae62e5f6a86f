----------------------------- MODULE ProcessGate -----------------------------
(***************************************************************************)
(* What real-time protection promises about one process after another: a   *)
(* new process is either held at once or let through at once; a process    *)
(* that is held is released once or ended; and nobody who was let through  *)
(* is ever held again.  How a verdict is reached is left open.             *)
(***************************************************************************)
CONSTANT Procs

VARIABLE gate

GateInit == gate = [p \in Procs |-> "new"]

Move(p, from, to) ==
  /\ gate[p] \in from
  /\ gate' = [gate EXCEPT ![p] = to]

Hold(p) == Move(p, {"new"}, "held")
Admit(p) == Move(p, {"new"}, "open")
Release(p) == Move(p, {"held"}, "open")
End(p) == Move(p, {"held", "open"}, "closed")

GateNext == \E p \in Procs : Hold(p) \/ Admit(p) \/ Release(p) \/ End(p)

GateSpec == GateInit /\ [][GateNext]_gate

(* The promise to the user: a process that is held does not stay held.     *)
GateFairSpec ==
  GateSpec /\ \A p \in Procs : WF_gate(Release(p) \/ (gate[p] = "held" /\ End(p)))
=============================================================================
