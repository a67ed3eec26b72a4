------------------------------- MODULE MCNode -------------------------------
(***************************************************************************)
(* Model checking of NodeParts.                                            *)
(***************************************************************************)
EXTENDS NodeParts

\* The caller of a node without users, two users of one organization, and one of none.
Identities == {[user |-> "none", org |-> "none"]} \cup
              {[user |-> "u1", org |-> "o1"], [user |-> "u2", org |-> "none"], [user |-> "u3", org |-> "o1"]}

\* A post, a failed publish, the post once more, another one.
Published == <<1, 0, 1, 2>>

\* Clocks that are never set, or set forward or back by an hour, or both.
Shift(at, to) == [at |-> at, to |-> to]
Clocks == {[first |-> 1, shifts |-> s] :
             s \in {{}} \cup {{Shift(a, 1 + b)} : a \in 1..9, b \in {1, -1}}
                       \cup {{Shift(a, 2), Shift(a + 5, 1)} : a \in 1..6}}
MCBuiltIn == <<<<0, 1>>, <<1, 2>>>>

\* Posts are published at four hours, under clocks that are not set or once set back: a week
\* has six hours, and two of the hours fall on one weekday and two more on one hour.  The
\* platforms are alike: the first post is on "p".
PostHours == {0, 1, 3, 6}
PostZones == {[first |-> 1, shifts |-> {}], [first |-> 1, shifts |-> {Shift(3, 0)}]}

MCInit ==
  /\ which \in {"spaces", "settings", "engagement", "timing"}
  /\ zone \in IF which = "timing" THEN Zone ELSE {[first |-> 1, shifts |-> {}]}
  /\ NodeInit /\ (which # "settings" => ~blob.there)

MCNext ==
  /\ NodeNext
  /\ published' # published => now \in PostHours /\ zone \in PostZones
  /\ published' # <<>> => now' <= 6 /\ published'[1].platform = "p"

MCSpec == MCInit /\ [][MCNext]_PartVars

ASSUME MCNodeAssumption ==
  Work!StarterAssumption /\ Node!BootAssumption /\ Snapshots!EngagementAssumption /\ Times!TimingAssumption
=============================================================================
