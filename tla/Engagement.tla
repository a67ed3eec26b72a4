----------------------------- MODULE Engagement -----------------------------
(***************************************************************************)
(* Engagement snapshots (analytics.rs; upsert_activity of store.rs): one   *)
(* row per remote post, overwritten by the background pass and by requests *)
(* that refresh a single post.  A platform's counts grow with the clock,   *)
(* so that a reading is known by the time at which it was taken.           *)
(***************************************************************************)
EXTENDS Naturals, Sequences, Functions

CONSTANTS
  History, \* list_history, newest first: the remote post of each entry, 0 for a failed one
  Batch,   \* engagement_refresh_batch
  MinAge,  \* MIN_REFRESH_AGE_MS
  MaxTime  \* bounds the clock

VARIABLES
  clock,
  rows,    \* per remote post, its snapshot
  posts,   \* remote posts whose target and post are still there
  drafts,  \* those whose text can be recovered
  pass,    \* refresh_workspace_engagement
  jobs     \* refresh_one, within the pass and for a request

vars == <<clock, rows, posts, drafts, pass, jobs>>

Remote == Range(History) \ {0}
Time == 0..MaxTime

NoRow == [there |-> FALSE, at |-> 0, text |-> FALSE]
NoPass == [on |-> FALSE, now |-> 0, next |-> 1, refreshed |-> 0, seen |-> {}, called |-> <<>>]
NoJob == [pc |-> "idle", remote |-> 0, at |-> 0, text |-> FALSE, crossed |-> FALSE]
Job == {"pass", "request"}

TypeOK ==
  /\ clock \in Time
  /\ rows \in [Remote -> [there : BOOLEAN, at : Time, text : BOOLEAN]]
  /\ posts \subseteq Remote /\ drafts \subseteq Remote
  /\ pass.refreshed \in 0..Batch /\ pass.next \in 1..Len(History) + 1 /\ pass.seen \subseteq Remote
  /\ \A j \in Job : jobs[j].pc \in {"idle", "call", "text", "write"}

Init ==
  /\ clock = 0
  /\ rows = [r \in Remote |-> NoRow]
  /\ posts = Remote /\ drafts = Remote
  /\ pass = NoPass
  /\ jobs = [j \in Job |-> NoJob]

-----------------------------------------------------------------------------
(* Refreshing one post.                                                    *)

Begin(j, r) == jobs' = [jobs EXCEPT ![j] = [NoJob EXCEPT !.pc = "call", !.remote = r]]

Request ==
  /\ jobs["request"].pc = "idle"
  /\ \E r \in posts : Begin("request", r)
  /\ UNCHANGED <<clock, rows, posts, drafts, pass>>

\* read_engagement
CallReturns(j) ==
  /\ jobs[j].pc = "call" /\ jobs[j].remote \in posts
  /\ jobs' = [jobs EXCEPT ![j].pc = "text", ![j].at = clock]
  /\ UNCHANGED <<clock, rows, posts, drafts, pass>>

\* resolve_body_text: nothing, when the draft is gone.
ResolveText(j) ==
  /\ jobs[j].pc = "text"
  /\ jobs' = [jobs EXCEPT ![j].pc = "write", ![j].text = jobs[j].remote \in drafts]
  /\ UNCHANGED <<clock, rows, posts, drafts, pass>>

\* Faulty form: the row is what was read.
MergedBlank(old, job) == [there |-> TRUE, at |-> job.at, text |-> job.text]

\* upsert_activity: counts and time are the reading's, the text is filled in.
Merged(old, job) == [there |-> TRUE, at |-> job.at, text |-> job.text \/ old.text]

Upsert(j) ==
  /\ jobs[j].pc = "write"
  /\ rows' = [rows EXCEPT ![jobs[j].remote] = Merged(@, jobs[j])]
  /\ jobs' = [k \in Job |->
       IF k = j THEN NoJob
       ELSE [jobs[k] EXCEPT !.crossed = @ \/ (jobs[k].pc \in {"text", "write"} /\ jobs[k].remote = jobs[j].remote)]]
  /\ pass' = IF j = "pass" THEN [pass EXCEPT !.refreshed = @ + 1] ELSE pass
  /\ UNCHANGED <<clock, posts, drafts>>

\* The post is gone, the provider refuses, or the store fails: the pass goes on.
JobFails(j) ==
  /\ jobs[j].pc # "idle"
  /\ jobs' = [jobs EXCEPT ![j] = NoJob]
  /\ UNCHANGED <<clock, rows, posts, drafts, pass>>

-----------------------------------------------------------------------------
(* The pass.                                                               *)

StartPass ==
  /\ ~pass.on
  /\ pass' = [NoPass EXCEPT !.on = TRUE, !.now = clock]
  /\ UNCHANGED <<clock, rows, posts, drafts, jobs>>

\* is_fresh_enough, by the clock of the pass's start; a post whose target is gone is not.
Fresh(r) ==
  /\ r \in posts /\ rows[r].there
  /\ rows[r].at + MinAge > pass.now

Skips(r) == r = 0 \/ r \in pass.seen \/ Fresh(r)

\* Faulty form: a post counts as seen once it was refreshed.
SeenWhenRefreshed(r) == IF r # 0 /\ rows[r].there /\ rows[r].at >= pass.now THEN pass.seen \cup {r} ELSE pass.seen

Seen(r) == IF r = 0 THEN pass.seen ELSE pass.seen \cup {r}

\* The next entry, as long as the batch is not used up.
Scan ==
  /\ pass.on /\ jobs["pass"].pc = "idle"
  /\ pass.next <= Len(History) /\ pass.refreshed < Batch
  /\ LET r == History[pass.next] IN
     IF Skips(r)
       THEN pass' = [pass EXCEPT !.next = @ + 1, !.seen = Seen(r)] /\ UNCHANGED jobs
       ELSE /\ pass' = [pass EXCEPT !.next = @ + 1, !.seen = Seen(r),
                                    !.called = Append(@, [remote |-> r, row |-> rows[r]])]
            /\ Begin("pass", r)
  /\ UNCHANGED <<clock, rows, posts, drafts>>

EndPass ==
  /\ pass.on /\ jobs["pass"].pc = "idle"
  /\ pass.next > Len(History) \/ pass.refreshed = Batch
  /\ pass' = NoPass
  /\ UNCHANGED <<clock, rows, posts, drafts, jobs>>

-----------------------------------------------------------------------------

Tick ==
  /\ clock < MaxTime /\ clock' = clock + 1
  /\ UNCHANGED <<rows, posts, drafts, pass, jobs>>

DeletePost ==
  /\ \E r \in posts : posts' = posts \ {r}
  /\ UNCHANGED <<clock, rows, drafts, pass, jobs>>

DeleteDraft ==
  /\ \E r \in drafts : drafts' = drafts \ {r}
  /\ UNCHANGED <<clock, rows, posts, pass, jobs>>

Next ==
  \/ Request \/ StartPass \/ Scan \/ EndPass
  \/ \E j \in Job : CallReturns(j) \/ ResolveText(j) \/ Upsert(j) \/ JobFails(j)
  \/ Tick \/ DeletePost \/ DeleteDraft

Spec == Init /\ [][Next]_vars

-----------------------------------------------------------------------------
(* Properties.                                                             *)

\* A pass reads no post twice, whatever its first reading came to, refreshes no more than
\* its batch, and reads none whose snapshot was fresh when the pass began and still there.
PassIsSparing ==
  /\ pass.refreshed <= Batch
  /\ \A i, k \in DOMAIN pass.called : pass.called[i].remote = pass.called[k].remote => i = k
  /\ \A i \in DOMAIN pass.called :
       LET row == pass.called[i].row IN
       row.there /\ pass.called[i].remote \in posts => row.at + MinAge <= pass.now

\* A write never takes a text away that a row had, and puts an older reading in place of a
\* newer one only when that one was written between its own reading and its writing
\* (upsert_activity).
RowsKept ==
  \A r \in Remote : rows'[r] # rows[r] =>
    /\ rows[r].text => rows'[r].text
    /\ rows'[r].at < rows[r].at =>
         \E j \in Job : jobs[j].pc = "write" /\ jobs[j].remote = r /\ jobs[j].crossed

\* So does every step (upsert_activity).
SnapshotKeeps == [][RowsKept]_vars

\* What a pass does to the platform, and what it and a request do to the rows
\* (refresh_workspace_engagement, upsert_activity).
RefreshesHold == []PassIsSparing /\ SnapshotKeeps

-----------------------------------------------------------------------------
(* Why that holds (NodeProofs).                                            *)

EngagementAssumption == History \in Seq(Nat) /\ Batch \in Nat /\ MinAge \in Nat /\ MaxTime \in Nat

Snapshot == [there : BOOLEAN, at : Time, text : BOOLEAN]

PassType == [on : BOOLEAN, now : Time, next : Nat \ {0}, refreshed : Nat, seen : SUBSET Remote,
             called : Seq([remote : Remote, row : Snapshot])]
JobType == [pc : {"idle", "call", "text", "write"}, remote : Remote \cup {0}, at : Time,
            text : BOOLEAN, crossed : BOOLEAN]

EngagementTypes ==
  /\ clock \in Time /\ rows \in [Remote -> Snapshot] /\ posts \subseteq Remote
  /\ pass \in PassType /\ jobs \in [Job -> JobType]
  /\ \A j \in Job : jobs[j].pc # "idle" => jobs[j].remote \in Remote

\* What a pass has read it has seen, and there is room in the batch for what it reads.
PassInv ==
  /\ \A i \in DOMAIN pass.called : pass.called[i].remote \in pass.seen
  /\ jobs["pass"].pc # "idle" => pass.on /\ pass.refreshed < Batch
  /\ PassIsSparing

\* Nothing was read later than now, and a reading that no other was written behind is no
\* older than the row.
ReadingsInv ==
  /\ \A r \in Remote : rows[r].at <= clock
  /\ \A j \in Job : jobs[j].at <= clock
  /\ \A j \in Job : jobs[j].pc \in {"text", "write"} /\ ~jobs[j].crossed =>
                      rows[jobs[j].remote].at <= jobs[j].at

EngagementInv == EngagementTypes /\ PassInv /\ ReadingsInv
=============================================================================
