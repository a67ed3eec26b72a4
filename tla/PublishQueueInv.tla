--------------------------- MODULE PublishQueueInv ---------------------------
(***************************************************************************)
(* The inductive invariant behind the safety properties of PublishQueue:   *)
(* what each task may rely on at each await, said of the rows it left      *)
(* behind.  TLC checks it on the small instances; PublishQueueProofs       *)
(* proves it for every number of posts, legs, attempts and faults.         *)
(***************************************************************************)
EXTENDS PublishQueue

\* A runner exists only while the tick that spawned it awaits the batch.
RunsInsideTheirTick == \A p \in Post : pc[p] # "idle" => sched = "running"

\* A post that is not there has no legs.
NoPostNoLegs == \A l \in Leg : post[PostOf[l]] \in {"none", "gone"} => target[l] = "absent"

\* From its claim to its verdict a runner has its post publishing, or deleted.
RunHoldsItsPost ==
  \A p \in Post :
    pc[p] \in {"load", "fanout", "verdict"} \cup InLeg => post[p] \in {"publishing", "gone"}

\* A runner visits the legs of its own post, and decides before it writes.
RunStaysInItsPost ==
  \A p \in Post :
    /\ todo[p] \subseteq LegsOf(p)
    /\ pc[p] \in InLeg => leg[p] \in LegsOf(p)
    /\ pc[p] \in {"record", "settle"} => outcome[p] \in {"published", "failed"}
    /\ pc[p] \in {"verdict", "emit"} => verdict[p] \in Verdict

\* Once boot recovery has reaped, no leg is in flight until a tick runs.
BootIsQuiet ==
  sched \in {"boot-reap-posts", "boot-list", "boot-repair"} =>
    \A l \in Leg : target[l] # "publishing"

\* The aggregate a runner read is still the aggregate when it settles.
VerdictIsCurrent ==
  \A p \in Post : pc[p] = "verdict" /\ post[p] = "publishing" =>
    AllTerminal(p) /\ Aggregate(p) = verdict[p]

\* So is the aggregate boot recovery read in its one listing.
StrandedIsCurrent ==
  \A p \in Post : sched = "boot-repair" /\ stranded[p] \in Verdict /\ post[p] = "publishing" =>
    AllTerminal(p) /\ Aggregate(p) = stranded[p]

\* What a runner knows of the history of the leg in hand, at each await.
RunKnowsItsHistory ==
  \A p \in Post :
    /\ pc[p] \in {"call", "record"} => pubRows[leg[p]] = 0
    /\ pc[p] = "record" /\ outcome[p] = "published" => remote[leg[p]] > 0
    /\ pc[p] = "settle" /\ target[leg[p]] # "absent" =>
         IF outcome[p] = "published" THEN pubRows[leg[p]] = 1
         ELSE pubRows[leg[p]] = 0 /\ leg[p] \in failRows

\* A published row is only ever written for a copy the platform took.
RecordedMeansSent == \A l \in Leg : pubRows[l] > 0 => remote[l] > 0

\* A copy on the platform is on record, or about to be, or known to be unsure.
CopyIsAccounted ==
  \A l \in Leg : remote[l] > 0 =>
    \/ pubRows[l] > 0 \/ l \in unsure \/ post[PostOf[l]] = "gone"
    \/ /\ pc[PostOf[l]] = "record" /\ leg[PostOf[l]] = l
       /\ outcome[PostOf[l]] = "published"

\* What a runner is about to announce is what the post says.
AnnouncementIsCurrent ==
  \A p \in Post : pc[p] = "emit" /\ verdict[p] = "published" => post[p] \in {"published", "gone"}

\* The inductive invariant.  Its first part concerns statuses and claims ...
ClaimInv ==
  /\ LeaseExactlyWhileInFlight
  /\ InFlightOnlyWhilePublishing
  /\ RunsInsideTheirTick
  /\ NoPostNoLegs
  /\ RunHoldsItsPost
  /\ RunStaysInItsPost
  /\ RunOwnsItsLeg
  /\ BootIsQuiet

\* ... the second the aggregate of a settled post ...
VerdictInv == VerdictMatchesLegs /\ VerdictIsCurrent /\ StrandedIsCurrent

\* ... the third the history ...
HistoryInv == HistoryMatchesLegs /\ RunKnowsItsHistory /\ RecordedMeansSent

\* ... and the fourth what the outside world has seen.
WorldInv ==
  /\ DuplicatesOnlyFromUncertainty /\ CopyIsAccounted
  /\ EventTellsTheTruth /\ AnnouncementIsCurrent

\* Everything a task may rely on between two awaits: claims, verdicts, history
\* and the world together are preserved by every step of every actor.
IInv == TypeOK /\ ClaimInv /\ VerdictInv /\ HistoryInv /\ WorldInv
=============================================================================
