---------------------------- MODULE SandboxLease ----------------------------
(***************************************************************************)
(* What the warm pool promises about each of its sandboxes: one process    *)
(* prepares it, offers it, one scan takes it, and it is prepared anew      *)
(* before another scan may take it.  Nobody works in a sandbox that is     *)
(* somebody else's.                                                        *)
(***************************************************************************)
CONSTANTS
  Boxes,      \* the sandboxes
  Preparers,  \* processes that prepare
  Takers      \* processes that run a sample

VARIABLES
  stage,      \* idle, preparing, ready or used
  holder      \* who prepares or uses it

leaseVars == <<stage, holder>>

CONSTANT Nobody

LeaseInit ==
  /\ stage = [b \in Boxes |-> "idle"]
  /\ holder = [b \in Boxes |-> Nobody]

Change(b, from, to, u, v) ==
  /\ stage[b] \in from
  /\ holder[b] = u
  /\ stage' = [stage EXCEPT ![b] = to]
  /\ holder' = [holder EXCEPT ![b] = v]

(* A sandbox that is ready may be prepared once more.                      *)
Prepare(b, u) == Change(b, {"idle", "ready"}, "preparing", Nobody, u)
Offer(b, u) == Change(b, {"preparing"}, "ready", u, Nobody)
Abandon(b, u) == Change(b, {"preparing"}, "idle", u, Nobody)
Take(b, u) == Change(b, {"ready"}, "used", Nobody, u)
Return(b, u) == Change(b, {"used"}, "idle", u, Nobody)

(* A sandbox that is ready may get lost without anybody's using it.        *)
Withdraw(b) == Change(b, {"ready"}, "idle", Nobody, Nobody)

LeaseNext ==
  \E b \in Boxes :
    \/ Withdraw(b)
    \/ \E u \in Preparers : Prepare(b, u) \/ Offer(b, u) \/ Abandon(b, u)
    \/ \E u \in Takers : Take(b, u) \/ Return(b, u)

LeaseSpec == LeaseInit /\ [][LeaseNext]_leaseVars
=============================================================================
