-------------------------- MODULE DeliveryContract --------------------------
(***************************************************************************)
(* What the publish queue promises about one leg (one post to one          *)
(* account), without lease, run, tick or crash.  A leg is owed from the    *)
(* moment it is scheduled until one decision is taken about it.  A copy is *)
(* sent only while the leg is owed, or once the user has deleted it from   *)
(* under a call in flight; a leg is declared live only after a copy was    *)
(* sent; and no decision but failure is ever taken back.                   *)
(***************************************************************************)
EXTENDS Naturals

CONSTANTS Leg

VARIABLES
  fate,   \* the decision about each leg
  sent    \* copies sent (2 stands for "several")

contract == <<fate, sent>>

Fate == {"unscheduled", "owed", "live", "failed", "withdrawn", "forgotten"}

ContractInit ==
  /\ fate = [l \in Leg |-> "unscheduled"]
  /\ sent = [l \in Leg |-> 0]

\* Every leg of S moves from one of the fates From to the fate to.
Decide(S, From, to) ==
  /\ \A l \in S : fate[l] \in From
  /\ fate' = [l \in Leg |-> IF l \in S THEN to ELSE fate[l]]
  /\ UNCHANGED sent

Schedule == \E S \in SUBSET Leg : Decide(S, {"unscheduled"}, "owed")
GiveUp   == \E l \in Leg : Decide({l}, {"owed"}, "failed")
Reopen   == \E S \in SUBSET Leg : Decide(S, {"failed"}, "owed")
Withdraw == \E S \in SUBSET Leg : Decide(S, {"owed"}, "withdrawn")
Forget   == \E S \in SUBSET Leg : Decide(S, Fate, "forgotten")

Confirm ==
  \E l \in Leg : sent[l] > 0 /\ Decide({l}, {"owed"}, "live")

Send ==
  \E l \in Leg :
    /\ fate[l] \in {"owed", "forgotten"} /\ sent[l] < 2
    /\ sent' = [sent EXCEPT ![l] = @ + 1]
    /\ UNCHANGED fate

ContractNext ==
  Schedule \/ Send \/ Confirm \/ GiveUp \/ Reopen \/ Withdraw \/ Forget

ContractSpec == ContractInit /\ [][ContractNext]_contract
=============================================================================
