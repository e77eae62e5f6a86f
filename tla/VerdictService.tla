--------------------------- MODULE VerdictService ---------------------------
(***************************************************************************)
(* What the server of dynamic scans promises to the endpoints: each call   *)
(* about a sample ends once, with a verdict or without one; a verdict is   *)
(* the truth about the sample, but that a sample whose scan was spoiled    *)
(* may pass for clean; and nobody is left without a verdict but where      *)
(* something went wrong.  How a sample is scanned is left open.            *)
(***************************************************************************)
CONSTANTS Calls, Samples, Bad, None

VARIABLES
  asks,      \* the sample a call is about
  reply,     \* how a call ended
  troubled,  \* the samples with which something has gone wrong
  spoiled    \* those of which a run may have missed what is bad

ServiceInit ==
  /\ asks = [c \in Calls |-> None]
  /\ reply = [c \in Calls |-> "open"]
  /\ troubled = {}
  /\ spoiled = {}

Ask(c, h) ==
  /\ asks[c] = None
  /\ asks' = [asks EXCEPT ![c] = h]
  /\ UNCHANGED reply

Reply(c, r) ==
  /\ asks[c] # None
  /\ reply[c] = "open"
  /\ reply' = [reply EXCEPT ![c] = r]
  /\ UNCHANGED asks

Convict(c) == asks[c] \in Bad /\ Reply(c, "threat")

Acquit(c) == asks[c] \notin Bad \ spoiled /\ Reply(c, "clean")

Fail(c) == asks[c] \in troubled' /\ Reply(c, "nothing")

(* Trouble may come at any time, and is never over.                        *)
ServiceNext ==
  /\ troubled \subseteq troubled' /\ troubled' \subseteq Samples
  /\ spoiled \subseteq spoiled' /\ spoiled' \subseteq troubled'
  /\ \/ UNCHANGED <<asks, reply>>
     \/ \E c \in Calls :
          (\E h \in Samples : Ask(c, h)) \/ Convict(c) \/ Acquit(c) \/ Fail(c)

ServiceSpec == ServiceInit /\ [][ServiceNext]_<<asks, reply, troubled, spoiled>>
=============================================================================
