----------------------------- MODULE QueueStore -----------------------------
(***************************************************************************)
(* The publish-queue tables of store.rs and the store methods that write   *)
(* them.  The store is one connection behind one mutex, and every method   *)
(* below is one statement or one transaction, so each is a single atomic   *)
(* action; the one method that is two statements, reap_expired_claims, is  *)
(* two actions, for a crash or an error can fall between them.             *)
(*                                                                         *)
(* A leg is one post_targets row: one post fanned out to one account.      *)
(* Clock values are abstracted to the two comparisons the code makes:      *)
(* scheduled_for <= now (ready) and claimed_at < now - lease ("stale").    *)
(***************************************************************************)
EXTENDS Naturals, FiniteSets

CONSTANTS
  Post,         \* scheduled_posts rows that may be created
  Leg,          \* post_targets rows that may be created
  Account,      \* social_accounts rows
  PostOf,       \* post_targets.scheduled_post_id
  AccountOf     \* post_targets.social_account_id

ASSUME LegAssumption ==
  /\ PostOf \in [Leg -> Post]
  /\ AccountOf \in [Leg -> Account]
  \* the unique index on (scheduled_post_id, social_account_id)
  /\ \A l, m \in Leg : PostOf[l] = PostOf[m] /\ AccountOf[l] = AccountOf[m] => l = m

VARIABLES
  post,         \* scheduled_posts.status; "none" not yet created, "gone" deleted
  ready,        \* the posts whose scheduled_for has passed
  target,       \* post_targets.status; "absent" when there is no row
  lease,        \* post_targets.claimed_at: "none" (NULL), "fresh", or "stale" (expired)
  attempts,     \* post_targets.attempts
  pubRows,      \* post_history rows of the leg with status published and a remote id
  failRows,     \* the legs with a post_history row of status failed
  connected     \* the accounts that still have a row

postVars    == <<post, ready>>
targetVars  == <<target, lease, attempts>>
historyVars == <<pubRows, failRows>>
tables      == <<post, ready, target, lease, attempts, pubRows, failRows, connected>>

PostStatus == {"scheduled", "due", "publishing", "published", "partial", "failed", "cancelled"}
Verdict    == {"published", "partial", "failed"}
Terminal   == {"published", "failed", "cancelled"}
TargetStatus == {"pending", "publishing"} \cup Terminal
LeaseState == {"none", "fresh", "stale"}

TablesOK ==
  /\ post \in [Post -> PostStatus \cup {"none", "gone"}]
  /\ ready \in SUBSET Post
  /\ target \in [Leg -> TargetStatus \cup {"absent"}]
  /\ lease \in [Leg -> LeaseState]
  /\ attempts \in [Leg -> Nat]
  /\ pubRows \in [Leg -> Nat]
  /\ failRows \in SUBSET Leg
  /\ connected \in SUBSET Account

TablesInit ==
  /\ post = [p \in Post |-> "none"]
  /\ ready = {}
  /\ target = [l \in Leg |-> "absent"]
  /\ lease = [l \in Leg |-> "none"]
  /\ attempts = [l \in Leg |-> 0]
  /\ pubRows = [l \in Leg |-> 0]
  /\ failRows = {}
  /\ connected = Account

(***************************************************************************)
(* Reads.                                                                  *)
(***************************************************************************)
LegsOf(p) == {l \in Leg : PostOf[l] = p}
Rows(p)   == {l \in LegsOf(p) : target[l] # "absent"}

AllTerminal(p) == \A l \in Rows(p) : target[l] \in Terminal

\* aggregate_target_statuses: no row at all reads as failed, never as success.
Aggregate(p) ==
  LET live == {l \in Rows(p) : target[l] = "published"}
  IN  IF live = {} THEN "failed"
      ELSE IF live = Rows(p) THEN "published"
      ELSE "partial"

NoLegPublishing(p) == \A l \in LegsOf(p) : target[l] # "publishing"

\* Every leg of S that satisfies Which goes to status s, without a lease.
Sweep(S, Which, s) ==
  /\ target' = [l \in Leg |-> IF l \in S /\ target[l] \in Which THEN s ELSE target[l]]
  /\ lease'  = [l \in Leg |-> IF l \in S /\ target[l] \in Which THEN "none" ELSE lease[l]]

(***************************************************************************)
(* Methods called by the API handlers.                                     *)
(***************************************************************************)

\* create_scheduled_post_for_agent: the post and its legs in one transaction.
InsertPost(p, S) ==
  /\ post[p] = "none" /\ S # {} /\ S \subseteq LegsOf(p)
  /\ post' = [post EXCEPT ![p] = "scheduled"]
  /\ ready' \in {ready, ready \cup {p}}
  /\ target' = [l \in Leg |-> IF l \in S THEN "pending" ELSE target[l]]
  /\ UNCHANGED <<lease, attempts, historyVars, connected>>

\* reschedule_post: only while still scheduled.
Reschedule(p) ==
  /\ post[p] = "scheduled"
  /\ ready' \in {ready \ {p}, ready \cup {p}}
  /\ UNCHANGED <<post, targetVars, historyVars, connected>>

\* mark_post_due_now
MarkDueNow(p) ==
  /\ post[p] = "scheduled"
  /\ post' = [post EXCEPT ![p] = "due"]
  /\ ready' = ready \cup {p}
  /\ UNCHANGED <<targetVars, historyVars, connected>>

\* Faulty form: cancels a post a runner is already publishing.
CancelMidPublish(p) ==
  /\ post[p] \in {"scheduled", "due", "publishing"}
  /\ post' = [post EXCEPT ![p] = "cancelled"]
  /\ Sweep(LegsOf(p), {"pending"}, "cancelled")
  /\ UNCHANGED <<ready, attempts, historyVars, connected>>

\* cancel_post: only before a runner claimed the post.
CancelPost(p) ==
  /\ post[p] \in {"scheduled", "due"}
  /\ post' = [post EXCEPT ![p] = "cancelled"]
  /\ Sweep(LegsOf(p), {"pending"}, "cancelled")
  /\ UNCHANGED <<ready, attempts, historyVars, connected>>

\* Faulty form: any settled post can be retried.
RetrySettled(p) ==
  /\ post[p] \in Verdict
  /\ post' = [post EXCEPT ![p] = "due"]
  /\ Sweep(LegsOf(p), {"failed"}, "pending")
  /\ UNCHANGED <<ready, attempts, historyVars, connected>>

\* retry_post: the failed legs go back to pending with their counter reset.
RetryPost(p) ==
  /\ post[p] \in {"partial", "failed"}
  /\ post' = [post EXCEPT ![p] = "due"]
  /\ Sweep(LegsOf(p), {"failed"}, "pending")
  /\ attempts' = [l \in Leg |-> IF PostOf[l] = p /\ target[l] = "failed" THEN 0 ELSE attempts[l]]
  /\ UNCHANGED <<ready, historyVars, connected>>

\* delete_scheduled_post: history, legs and post, whatever the post's status.
DeletePost(p) ==
  /\ post[p] \in PostStatus
  /\ post' = [post EXCEPT ![p] = "gone"]
  /\ ready' = ready \ {p}
  /\ Sweep(LegsOf(p), TargetStatus, "absent")
  /\ attempts' = [l \in Leg |-> IF PostOf[l] = p THEN 0 ELSE attempts[l]]
  /\ pubRows'  = [l \in Leg |-> IF l \in Rows(p) THEN 0 ELSE pubRows[l]]
  /\ failRows' = failRows \ Rows(p)
  /\ UNCHANGED connected

\* delete_account: the row, and the account's still-pending legs.
DeleteAccount(a) ==
  /\ a \in connected
  /\ connected' = connected \ {a}
  /\ Sweep({l \in Leg : AccountOf[l] = a}, {"pending"}, "cancelled")
  /\ UNCHANGED <<postVars, attempts, historyVars>>

(***************************************************************************)
(* The claim and settle compare-and-swaps of the scheduler and the runner. *)
(***************************************************************************)

\* claim_due_posts over a batch S
ClaimDue(S) ==
  /\ post' = [p \in Post |-> IF p \in S THEN "due" ELSE post[p]]
  /\ UNCHANGED <<ready, targetVars, historyVars, connected>>

\* claim_post_for_publishing; the caller tests post[p] = "due"
ClaimPost(p) ==
  /\ post' = [post EXCEPT ![p] = "publishing"]
  /\ UNCHANGED <<ready, targetVars, historyVars, connected>>

\* settle_post: guarded, and silent when the guard fails
SettlePost(p, s) ==
  /\ post' = [post EXCEPT ![p] = IF @ = "publishing" THEN s ELSE @]
  /\ UNCHANGED <<ready, targetVars, historyVars, connected>>

\* claim_target; the caller tests target[l] = "pending"
ClaimTarget(l) ==
  /\ target' = [target EXCEPT ![l] = "publishing"]
  /\ lease' = [lease EXCEPT ![l] = "fresh"]
  /\ UNCHANGED <<postVars, attempts, historyVars, connected>>

\* renew_claim: only a leg still publishing
RenewClaim(l) ==
  /\ target[l] = "publishing"
  /\ lease' = [lease EXCEPT ![l] = "fresh"]
  /\ UNCHANGED <<postVars, target, attempts, historyVars, connected>>

\* settle_target: no guard on the status; a deleted row is simply not found
SettleTarget(l, s, n) ==
  /\ IF target[l] = "absent" THEN UNCHANGED targetVars
     ELSE /\ target' = [target EXCEPT ![l] = s]
          /\ lease' = [lease EXCEPT ![l] = "none"]
          /\ attempts' = [attempts EXCEPT ![l] = n]
  /\ UNCHANGED <<postVars, historyVars, connected>>

\* Faulty form: the published row is written without its remote id.
InsertHistoryWithoutId(l, s) ==
  /\ failRows' = IF s = "published" THEN failRows ELSE failRows \cup {l}
  /\ UNCHANGED <<postVars, targetVars, connected, pubRows>>

\* insert_history: no foreign key, so a deleted leg still gets its row
InsertHistory(l, s) ==
  /\ IF s = "published"
     THEN pubRows' = [pubRows EXCEPT ![l] = @ + 1] /\ UNCHANGED failRows
     ELSE failRows' = failRows \cup {l} /\ UNCHANGED pubRows
  /\ UNCHANGED <<postVars, targetVars, connected>>

\* Faulty form: claimed_at is not cleared with the status.
ReapTargetsKeepingLease(S) ==
  /\ target' = [l \in Leg |-> IF l \in S THEN "pending" ELSE target[l]]
  /\ UNCHANGED <<postVars, lease, attempts, historyVars, connected>>

\* reap_expired_claims, first statement, over the legs S it matches
ReapTargets(S) ==
  /\ Sweep(S, {"publishing"}, "pending")
  /\ UNCHANGED <<postVars, attempts, historyVars, connected>>

\* Faulty form: the parents of the reaped legs are left publishing.
ReapPostsNone(ids) == UNCHANGED tables

\* reap_expired_claims, second statement, over the ids the first returned
ReapPosts(ids) ==
  /\ post' = [p \in Post |->
                IF /\ post[p] = "publishing"
                   /\ \E l \in ids : PostOf[l] = p /\ target[l] # "absent"
                   /\ NoLegPublishing(p)
                THEN "due" ELSE post[p]]
  /\ UNCHANGED <<ready, targetVars, historyVars, connected>>

\* requeue_publishing_post: guarded, and silent when the guard fails
RequeuePost(p) ==
  /\ post' = [post EXCEPT ![p] = IF @ = "publishing" /\ NoLegPublishing(p) THEN "due" ELSE @]
  /\ UNCHANGED <<ready, targetVars, historyVars, connected>>

(***************************************************************************)
(* The clock.                                                              *)
(***************************************************************************)
ScheduleArrives(p) ==
  /\ post[p] = "scheduled" /\ p \notin ready
  /\ ready' = ready \cup {p}
  /\ UNCHANGED <<post, targetVars, historyVars, connected>>

LeaseExpires(l) ==
  /\ lease[l] = "fresh"
  /\ lease' = [lease EXCEPT ![l] = "stale"]
  /\ UNCHANGED <<postVars, target, attempts, historyVars, connected>>
=============================================================================
