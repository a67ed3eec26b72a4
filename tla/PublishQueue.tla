---------------------------- MODULE PublishQueue ----------------------------
(***************************************************************************)
(* The publish queue at work: the scheduler's tick loop and boot recovery  *)
(* (scheduler.rs), one runner per post of the batch (publish/runner.rs and *)
(* publish/attempt.rs), the API handlers that touch posts and accounts,    *)
(* and the platforms.  Every await of the code that reaches the store or a *)
(* provider ends an action, so handlers interleave with a run exactly      *)
(* there.                                                                  *)
(*                                                                         *)
(* Every workspace has its scheduler on here.  The order of the legs of a  *)
(* run and of the posts of a batch is left open: the code's orders are     *)
(* among those explored.                                                   *)
(***************************************************************************)
EXTENDS QueueStore

CONSTANTS
  NoLeg,         \* "no leg in hand"
  Idempotent,    \* legs whose provider honours the idempotency key
  Ambiguous,     \* legs whose provider may publish and still not answer in time
  NoBlindRetry,  \* legs whose provider says a timeout is not retryable
  MaxAttempts,   \* effective_max_attempts of the settings
  BatchSize,     \* sweep_batch_size
  MaxConcurrent, \* MAX_CONCURRENT_POSTS
  MaxFaults,     \* bound on crashes and failing store calls
  FaultPoints    \* the places where a store call may fail

ASSUME QueueAssumption ==
  /\ NoLeg \notin Leg
  /\ Idempotent \subseteq Leg /\ Ambiguous \subseteq Leg /\ NoBlindRetry \subseteq Leg
  /\ MaxAttempts \in Nat \ {0} /\ BatchSize \in Nat \ {0} /\ MaxConcurrent \in Nat \ {0}
  /\ MaxFaults \in Nat

VARIABLES
  sched,     \* where the scheduler task is
  reaped,    \* local of the reaper: the ids its first statement returned
  stranded,  \* local of boot recovery: the decision for each post it listed
  pc,        \* where the runner of each post is
  todo,      \* local of run_post: legs of its snapshot still to visit
  leg,       \* local of run_post: the leg in hand
  tries,     \* local of attempt_publish: provider calls made for that leg
  outcome,   \* local of run_target: what it is about to record
  verdict,   \* local of settle_post: the aggregate it read
  emitted,   \* app events sent for each post
  resolved,  \* local of create_post: the legs whose accounts it resolved
  remote,    \* copies live on the platform (2 stands for "several")
  unsure,    \* legs a call may have reached without this process recording it
  faults     \* crashes and failed store calls so far

runVars   == <<pc, todo, leg, tries, outcome, verdict>>
schedVars == <<sched, reaped, stranded>>
world     == <<remote, unsure>>
vars == <<tables, schedVars, runVars, emitted, resolved, world, faults>>

SchedState == {"down", "boot-reap", "boot-reap-posts", "boot-list", "boot-repair",
               "asleep", "reap-posts", "sweep", "drain", "running"}
InLeg  == {"check", "call", "record", "settle"}
RunState == {"idle", "queued", "load", "fanout", "verdict", "emit"} \cup InLeg
Decision == {"leave", "requeue"} \cup Verdict
Event == {"post.published", "post.failed"}

TypeOK ==
  /\ TablesOK
  /\ sched \in SchedState
  /\ reaped \in SUBSET Leg
  /\ stranded \in [Post -> Decision]
  /\ pc \in [Post -> RunState]
  /\ todo \in [Post -> SUBSET Leg]
  /\ leg \in [Post -> Leg \cup {NoLeg}]
  /\ tries \in [Post -> 0..MaxAttempts]
  /\ outcome \in [Post -> {"none", "published", "failed"}]
  /\ verdict \in [Post -> Verdict \cup {"none"}]
  /\ emitted \in [Post -> SUBSET Event]
  /\ resolved \in [Post -> SUBSET Leg]
  /\ remote \in [Leg -> 0..2]
  /\ unsure \in SUBSET Leg
  /\ faults \in 0..MaxFaults

Init ==
  /\ TablesInit
  /\ sched = "boot-reap"
  /\ reaped = {}
  /\ stranded = [p \in Post |-> "leave"]
  /\ pc = [p \in Post |-> "idle"]
  /\ todo = [p \in Post |-> {}]
  /\ leg = [p \in Post |-> NoLeg]
  /\ tries = [p \in Post |-> 0]
  /\ outcome = [p \in Post |-> "none"]
  /\ verdict = [p \in Post |-> "none"]
  /\ emitted = [p \in Post |-> {}]
  /\ resolved = [p \in Post |-> {}]
  /\ remote = [l \in Leg |-> 0]
  /\ unsure = {}
  /\ faults = 0

Up == sched # "down"

(***************************************************************************)
(* API handlers.  The reaper keeps the one connection across its two       *)
(* statements: a handler waits, a crash does not.                          *)
(***************************************************************************)
Serving == Up /\ sched \notin {"boot-reap-posts", "reap-posts"}

HandlerFrame == UNCHANGED <<schedVars, runVars, emitted, world, faults>>

\* create_post resolves every account in store calls of their own ...
CreateResolve(p) ==
  /\ Serving /\ post[p] = "none" /\ resolved[p] = {}
  /\ \E S \in SUBSET LegsOf(p) :
       /\ S # {} /\ \A l \in S : AccountOf[l] \in connected
       /\ resolved' = [resolved EXCEPT ![p] = S]
  /\ UNCHANGED tables /\ HandlerFrame

\* ... and inserts later, with the rows it resolved.
CreateInsert(p) ==
  /\ Serving /\ InsertPost(p, resolved[p])
  /\ resolved' = [resolved EXCEPT ![p] = {}]
  /\ HandlerFrame

PublishNow(p) == Serving /\ MarkDueNow(p) /\ HandlerFrame /\ UNCHANGED resolved
PatchPost(p)  == Serving /\ Reschedule(p) /\ HandlerFrame /\ UNCHANGED resolved
Cancel(p)     == Serving /\ CancelPost(p) /\ HandlerFrame /\ UNCHANGED resolved
Retry(p)      == Serving /\ RetryPost(p) /\ HandlerFrame /\ UNCHANGED resolved
Delete(p)     == Serving /\ DeletePost(p) /\ HandlerFrame /\ UNCHANGED resolved
RemoveAccount(a) == Serving /\ DeleteAccount(a) /\ HandlerFrame /\ UNCHANGED resolved

(***************************************************************************)
(* Boot recovery: recover_orphaned_work, before the first tick.            *)
(***************************************************************************)
SchedFrame == UNCHANGED <<runVars, emitted, resolved, world, faults>>
AllIdle == \A p \in Post : pc[p] = "idle"

\* Every claim found at boot is dead, so the cutoff is now.
BootReap ==
  LET S == {l \in Leg : target[l] = "publishing" /\ lease[l] # "none"} IN
  /\ sched = "boot-reap"
  /\ ReapTargets(S)
  /\ reaped' = S
  /\ sched' = IF S = {} THEN "boot-list" ELSE "boot-reap-posts"
  /\ UNCHANGED stranded /\ SchedFrame

BootReapPosts ==
  /\ sched = "boot-reap-posts"
  /\ ReapPosts(reaped)
  /\ reaped' = {}
  /\ sched' = "boot-list"
  /\ UNCHANGED stranded /\ SchedFrame

\* Faulty form: settles a stranded post without looking for pending legs.
BootListSettlesAll ==
  /\ sched = "boot-list"
  /\ stranded' = [p \in Post |-> IF post[p] = "publishing" THEN Aggregate(p) ELSE "leave"]
  /\ sched' = "boot-repair"
  /\ UNCHANGED <<tables, reaped>> /\ SchedFrame

\* One read of the posts in publishing, with their legs: the decisions below are taken on
\* that snapshot.  It looks at RECOVERY_SCAN_LIMIT (500) of them, and fewer are taken to be
\* stranded at once.
BootList ==
  /\ sched = "boot-list"
  /\ stranded' = [p \in Post |->
       IF post[p] # "publishing" THEN "leave"
       ELSE IF \E l \in Rows(p) : target[l] = "pending" THEN "requeue"
       ELSE Aggregate(p)]
  /\ sched' = "boot-repair"
  /\ UNCHANGED <<tables, reaped>> /\ SchedFrame

BootRepair(p) ==
  /\ sched = "boot-repair" /\ stranded[p] # "leave"
  /\ IF stranded[p] = "requeue" THEN RequeuePost(p) ELSE SettlePost(p, stranded[p])
  /\ stranded' = [stranded EXCEPT ![p] = "leave"]
  /\ UNCHANGED <<sched, reaped>> /\ SchedFrame

BootDone ==
  /\ sched = "boot-repair" /\ \A p \in Post : stranded[p] = "leave"
  /\ sched' = "asleep"
  /\ UNCHANGED <<tables, reaped, stranded>> /\ SchedFrame

(***************************************************************************)
(* tick: reap, claim what came due, drain, and await the whole batch.      *)
(***************************************************************************)
TickReap ==
  LET S == {l \in Leg : target[l] = "publishing" /\ lease[l] = "stale"} IN
  /\ sched = "asleep"
  /\ ReapTargets(S)
  /\ reaped' = S
  /\ sched' = IF S = {} THEN "sweep" ELSE "reap-posts"
  /\ UNCHANGED stranded /\ SchedFrame

TickReapPosts ==
  /\ sched = "reap-posts"
  /\ ReapPosts(reaped)
  /\ reaped' = {}
  /\ sched' = "sweep"
  /\ UNCHANGED stranded /\ SchedFrame

\* A batch of a candidate set: all of it, or LIMIT of it.
Batch(S, Of) ==
  /\ S \subseteq Of /\ Cardinality(S) <= BatchSize
  /\ S = Of \/ Cardinality(S) = BatchSize

TickSweep ==
  /\ sched = "sweep"
  /\ \E S \in SUBSET Post :
       /\ Batch(S, {p \in ready : post[p] = "scheduled"})
       /\ ClaimDue(S)
  /\ sched' = "drain"
  /\ UNCHANGED <<reaped, stranded>> /\ SchedFrame

TickDrain ==
  /\ sched = "drain"
  /\ \E S \in SUBSET Post :
       /\ Batch(S, {p \in Post : post[p] = "due"})
       /\ pc' = [p \in Post |-> IF p \in S THEN "queued" ELSE pc[p]]
       /\ sched' = IF S = {} THEN "asleep" ELSE "running"
  /\ UNCHANGED <<tables, reaped, stranded, todo, leg, tries, outcome, verdict,
                 emitted, resolved, world, faults>>

\* Faulty form: the runs are spawned and not awaited.
BatchDetached ==
  /\ sched = "running" /\ sched' = "asleep"
  /\ UNCHANGED <<tables, reaped, stranded>> /\ SchedFrame

\* run_batch returns only when its JoinSet is empty.
BatchJoined ==
  /\ sched = "running" /\ AllIdle
  /\ sched' = "asleep"
  /\ UNCHANGED <<tables, reaped, stranded>> /\ SchedFrame

(***************************************************************************)
(* run_post.                                                               *)
(***************************************************************************)
RunFrame == UNCHANGED <<schedVars, emitted, resolved, faults>>

Goto(p, state) == pc' = [pc EXCEPT ![p] = state]

\* The run of p is over; its locals are dropped.
EndRun(p) ==
  /\ Goto(p, "idle")
  /\ todo' = [todo EXCEPT ![p] = {}]
  /\ leg' = [leg EXCEPT ![p] = NoLeg]
  /\ tries' = [tries EXCEPT ![p] = 0]
  /\ outcome' = [outcome EXCEPT ![p] = "none"]
  /\ verdict' = [verdict EXCEPT ![p] = "none"]

\* claim_post: a post another actor moved meanwhile is declined.
RunClaim(p) ==
  /\ pc[p] = "queued"
  /\ Cardinality({q \in Post : pc[q] \notin {"idle", "queued"}}) < MaxConcurrent
  /\ IF post[p] = "due" THEN ClaimPost(p) /\ Goto(p, "load")
                        ELSE UNCHANGED tables /\ Goto(p, "idle")
  /\ UNCHANGED <<todo, leg, tries, outcome, verdict, world>> /\ RunFrame

\* settings, the legs' snapshot, the draft and the grant
RunLoad(p) ==
  /\ pc[p] = "load"
  /\ todo' = [todo EXCEPT ![p] = {l \in Rows(p) : target[l] \notin Terminal}]
  /\ Goto(p, "fanout")
  /\ UNCHANGED <<tables, leg, tries, outcome, verdict, world>> /\ RunFrame

\* Faulty form: trusts the snapshot and claims without comparing the status.
RunLegBlindly(p, l) ==
  /\ pc[p] = "fanout" /\ l \in todo[p]
  /\ todo' = [todo EXCEPT ![p] = @ \ {l}]
  /\ ClaimTarget(l) /\ leg' = [leg EXCEPT ![p] = l] /\ Goto(p, "check")
  /\ UNCHANGED <<tries, outcome, verdict, world>> /\ RunFrame

\* The next leg of the snapshot: claimed, or skipped when it is no longer pending.
RunLeg(p, l) ==
  /\ pc[p] = "fanout" /\ l \in todo[p]
  /\ todo' = [todo EXCEPT ![p] = @ \ {l}]
  /\ IF target[l] = "pending"
     THEN ClaimTarget(l) /\ leg' = [leg EXCEPT ![p] = l] /\ Goto(p, "check")
     ELSE UNCHANGED <<tables, leg, pc>>
  /\ UNCHANGED <<tries, outcome, verdict, world>> /\ RunFrame

\* Faulty form: a leg already live is recorded once more.
RunAlreadyLiveAgain(p) ==
  /\ pc[p] = "check" /\ pubRows[leg[p]] > 0
  /\ outcome' = [outcome EXCEPT ![p] = "published"]
  /\ Goto(p, "record")
  /\ UNCHANGED <<tables, todo, leg, tries, verdict, world>> /\ RunFrame

\* A published history row is proof the leg is live: no provider is contacted.
RunAlreadyLive(p) ==
  /\ pc[p] = "check" /\ pubRows[leg[p]] > 0
  /\ outcome' = [outcome EXCEPT ![p] = "published"]
  /\ Goto(p, "settle")
  /\ UNCHANGED <<tables, todo, leg, tries, verdict, world>> /\ RunFrame

\* No content, over the platform's limits, or local media that is not allowed.
RunFailLocally(p) ==
  /\ pc[p] = "check" /\ pubRows[leg[p]] = 0
  /\ outcome' = [outcome EXCEPT ![p] = "failed"]
  /\ Goto(p, "record")
  /\ UNCHANGED <<tables, todo, leg, tries, verdict, world>> /\ RunFrame

\* Faulty form: goes to the provider without reading the history.
RunFirstCallUnchecked(p) ==
  /\ pc[p] = "check"
  /\ tries' = [tries EXCEPT ![p] = 1]
  /\ Goto(p, "call")
  /\ UNCHANGED <<tables, todo, leg, outcome, verdict, world>> /\ RunFrame

\* Otherwise the attempt loop starts.
RunFirstCall(p) ==
  /\ pc[p] = "check" /\ pubRows[leg[p]] = 0
  /\ tries' = [tries EXCEPT ![p] = 1]
  /\ Goto(p, "call")
  /\ UNCHANGED <<tables, todo, leg, outcome, verdict, world>> /\ RunFrame

(***************************************************************************)
(* attempt_publish: one provider call per action, then the record, then    *)
(* the settle, in two store calls.  A call whose answer a crash swallows   *)
(* is RunPublished followed by Crash.                                      *)
(***************************************************************************)

\* The platform takes the post.  One that honours the key (post, account)
\* recognises a copy it already has.
Lands(l) ==
  remote' = [remote EXCEPT ![l] = IF l \in Idempotent \/ @ = 2 THEN (IF @ = 0 THEN 1 ELSE @)
                                  ELSE @ + 1]

RunPublished(p) ==
  /\ pc[p] = "call"
  /\ Lands(leg[p])
  /\ outcome' = [outcome EXCEPT ![p] = "published"]
  /\ Goto(p, "record")
  /\ UNCHANGED <<tables, todo, leg, tries, verdict, unsure>> /\ RunFrame

\* After a failed call: again, while the error is retryable and attempts are left.
AfterError(p, retryable) ==
  IF retryable /\ tries[p] < MaxAttempts
  THEN tries' = [tries EXCEPT ![p] = @ + 1] /\ UNCHANGED <<pc, outcome>>
  ELSE Goto(p, "record") /\ outcome' = [outcome EXCEPT ![p] = "failed"] /\ UNCHANGED tries

RunRefused(p) ==
  /\ pc[p] = "call"
  /\ \E retryable \in BOOLEAN : AfterError(p, retryable)
  /\ UNCHANGED <<tables, todo, leg, verdict, world>> /\ RunFrame

\* publish_once cuts the call off at its deadline, after the platform took it.
RunTimedOut(p) ==
  /\ pc[p] = "call" /\ leg[p] \in Ambiguous
  /\ Lands(leg[p])
  /\ unsure' = unsure \cup {leg[p]}
  /\ AfterError(p, leg[p] \notin NoBlindRetry)
  /\ UNCHANGED <<tables, todo, leg, verdict>> /\ RunFrame

\* publish_once_leased refreshes the lease while the call runs.
Heartbeat(p) ==
  /\ pc[p] = "call" /\ RenewClaim(leg[p])
  /\ UNCHANGED <<runVars, world>> /\ RunFrame

RunRecord(p) ==
  /\ pc[p] = "record"
  /\ InsertHistory(leg[p], outcome[p])
  /\ Goto(p, "settle")
  /\ UNCHANGED <<todo, leg, tries, outcome, verdict, world>> /\ RunFrame

RunSettleLeg(p) ==
  /\ pc[p] = "settle"
  /\ SettleTarget(leg[p], outcome[p], attempts[leg[p]] + tries[p])
  /\ Goto(p, "fanout")
  /\ leg' = [leg EXCEPT ![p] = NoLeg]
  /\ tries' = [tries EXCEPT ![p] = 0]
  /\ outcome' = [outcome EXCEPT ![p] = "none"]
  /\ UNCHANGED <<todo, verdict, world>> /\ RunFrame

(***************************************************************************)
(* settle_post of the runner: read the persisted legs, settle the post     *)
(* under its guard, emit the event.                                        *)
(***************************************************************************)
RunReadLegs(p) ==
  /\ pc[p] = "fanout" /\ todo[p] = {}
  /\ IF AllTerminal(p)
     THEN verdict' = [verdict EXCEPT ![p] = Aggregate(p)] /\ Goto(p, "verdict")
     ELSE Goto(p, "idle") /\ UNCHANGED verdict
  /\ UNCHANGED <<tables, todo, leg, tries, outcome, world>> /\ RunFrame

RunSettlePost(p) ==
  /\ pc[p] = "verdict"
  /\ SettlePost(p, verdict[p])
  /\ Goto(p, "emit")
  /\ UNCHANGED <<todo, leg, tries, outcome, verdict, world>> /\ RunFrame

RunEmit(p) ==
  /\ pc[p] = "emit"
  /\ emitted' = [emitted EXCEPT ![p] = @ \cup
                   {IF verdict[p] = "published" THEN "post.published" ELSE "post.failed"}]
  /\ EndRun(p)
  /\ UNCHANGED <<tables, schedVars, resolved, world, faults>>

(***************************************************************************)
(* Faults.                                                                 *)
(***************************************************************************)

\* The legs whose answer is known to this process only.
Unrecorded(P) == {leg[p] : p \in {q \in P : pc[q] = "record" /\ outcome[q] = "published"}}

\* A store call of the run fails (or its task panics): run_post returns Err and
\* nothing is undone.
RunFails(p) ==
  /\ pc[p] \in FaultPoints /\ pc[p] \notin {"idle", "emit"} /\ faults < MaxFaults
  /\ faults' = faults + 1
  /\ unsure' = unsure \cup Unrecorded({p})
  /\ EndRun(p)
  /\ UNCHANGED <<tables, schedVars, emitted, resolved, remote>>

\* A store call of the scheduler fails: boot recovery is abandoned, a tick goes
\* on after a failed reap or sweep and ends after a failed drain.
SchedFails ==
  /\ sched \in FaultPoints /\ sched \notin {"down", "running"} /\ faults < MaxFaults
  /\ sched \in {"boot-repair"} => \E p \in Post : stranded[p] # "leave"
  /\ faults' = faults + 1
  /\ sched' = CASE sched \in {"asleep", "reap-posts"} -> "sweep"
                [] sched = "sweep" -> "drain"
                [] OTHER -> "asleep"
  /\ reaped' = {}
  /\ stranded' = [p \in Post |-> "leave"]
  /\ UNCHANGED <<tables, runVars, emitted, resolved, world>>

\* The process dies: only the database and the platforms remain.
Crash ==
  /\ Up /\ faults < MaxFaults
  /\ faults' = faults + 1
  /\ sched' = "down"
  /\ reaped' = {}
  /\ stranded' = [p \in Post |-> "leave"]
  /\ unsure' = unsure \cup Unrecorded(Post)
  /\ pc' = [p \in Post |-> "idle"]
  /\ todo' = [p \in Post |-> {}]
  /\ leg' = [p \in Post |-> NoLeg]
  /\ tries' = [p \in Post |-> 0]
  /\ outcome' = [p \in Post |-> "none"]
  /\ verdict' = [p \in Post |-> "none"]
  /\ resolved' = [p \in Post |-> {}]
  /\ UNCHANGED <<tables, emitted, remote>>

Restart ==
  /\ sched = "down" /\ sched' = "boot-reap"
  /\ UNCHANGED <<tables, reaped, stranded, runVars, emitted, resolved, world, faults>>

(***************************************************************************)
(* The clock.                                                              *)
(***************************************************************************)
ClockFrame == UNCHANGED <<schedVars, runVars, emitted, resolved, world, faults>>
Arrive(p) == ScheduleArrives(p) /\ ClockFrame
Expire(l) == LeaseExpires(l) /\ ClockFrame

(***************************************************************************)
(* The specification.                                                      *)
(***************************************************************************)
Handler(p) ==
  \/ CreateResolve(p) \/ CreateInsert(p)
  \/ PublishNow(p) \/ PatchPost(p) \/ Cancel(p) \/ Retry(p) \/ Delete(p)

Boot == BootReap \/ BootReapPosts \/ BootList \/ (\E p \in Post : BootRepair(p)) \/ BootDone

Tick == TickReap \/ TickReapPosts \/ TickSweep \/ TickDrain \/ BatchJoined

RunLegStep(p) ==
  \/ RunAlreadyLive(p) \/ RunFailLocally(p) \/ RunFirstCall(p)
  \/ RunPublished(p) \/ RunRefused(p) \/ RunTimedOut(p)
  \/ RunRecord(p) \/ RunSettleLeg(p)

Run(p) ==
  \/ RunClaim(p) \/ RunLoad(p) \/ (\E l \in Leg : RunLeg(p, l))
  \/ RunLegStep(p)
  \/ RunReadLegs(p) \/ RunSettlePost(p) \/ RunEmit(p)

Fault == (\E p \in Post : RunFails(p)) \/ SchedFails \/ Crash

Next ==
  \/ \E p \in Post : Handler(p) \/ Run(p) \/ Heartbeat(p) \/ Arrive(p)
  \/ \E l \in Leg : Expire(l)
  \/ \E a \in Account : RemoveAccount(a)
  \/ Boot \/ Tick \/ Restart \/ Fault

Spec == Init /\ [][Next]_vars

(***************************************************************************)
(* The scheduler task and the runners it awaits are never abandoned by the *)
(* async runtime, a provider call ends by its deadline, a restart follows  *)
(* a crash (Core respawns its sidecars), and time passes.  The users and   *)
(* the faults are under no obligation.                                     *)
(***************************************************************************)
Fairness ==
  /\ WF_vars(Boot) /\ WF_vars(Tick) /\ WF_vars(Restart)
  /\ \A p \in Post : WF_vars(Run(p)) /\ WF_vars(Arrive(p))
  /\ \A l \in Leg : WF_vars(Expire(l))

FairSpec == Spec /\ Fairness

-----------------------------------------------------------------------------
(***************************************************************************)
(* Safety invariants.                                                      *)
(***************************************************************************)

\* A leg is in flight only under a post that is publishing: a post that reads
\* scheduled, due, cancelled or settled has no leg a runner may be sending
\* (cancel_post, retry_post, claim_target, the reaper and boot recovery).
InFlightOnlyWhilePublishing ==
  \A l \in Leg : target[l] = "publishing" => post[PostOf[l]] = "publishing"

\* The reaper sees every leg in flight: claimed_at is set exactly while the
\* leg is publishing, across claims, settles, reaps, cancels and retries.
LeaseExactlyWhileInFlight ==
  \A l \in Leg : lease[l] # "none" <=> target[l] = "publishing"

\* A settled post says of its legs what their rows say, however it was
\* settled: by the runner, or by boot recovery from an old snapshot.
VerdictMatchesLegs ==
  \A p \in Post :
    /\ post[p] \in Verdict => AllTerminal(p) /\ Aggregate(p) = post[p]
    /\ post[p] = "cancelled" => AllTerminal(p)

\* No other actor takes a leg from under its runner: while run_target works on
\* a leg, its row is publishing, unless the user deleted the post.
RunOwnsItsLeg ==
  \A p \in Post : pc[p] \in InLeg =>
    \/ target[leg[p]] = "publishing"
    \/ target[leg[p]] = "absent" /\ post[p] = "gone"

\* History and legs agree: a published leg has exactly one published row (the
\* engagement rollups count them) and a copy on the platform; a failed leg
\* has no such row, so a retry of it is never a repost of a known success.
HistoryMatchesLegs ==
  \A l \in Leg :
    /\ target[l] = "published" => pubRows[l] = 1 /\ remote[l] > 0
    /\ target[l] = "failed" => pubRows[l] = 0 /\ l \in failRows
    /\ pubRows[l] <= 1

\* Posts, legs, leases and history tell one story between any two steps of the runners,
\* the tick, the recovery and the requests.
QueueConsistent ==
  /\ InFlightOnlyWhilePublishing /\ LeaseExactlyWhileInFlight
  /\ VerdictMatchesLegs /\ RunOwnsItsLeg /\ HistoryMatchesLegs

\* A second copy can only come from a call whose success this process never
\* recorded: a timeout, a crash, or a store failure between the provider's
\* answer and its history row; or from deleting the post, and its history
\* with it, under a run. A provider that honours the key never has one.
DuplicatesOnlyFromUncertainty ==
  \A l \in Leg : remote[l] > 1 =>
    /\ l \in unsure \/ post[PostOf[l]] = "gone"
    /\ l \notin Idempotent

\* A "post.published" event is never contradicted by the queue afterwards.
EventTellsTheTruth ==
  \A p \in Post : "post.published" \in emitted[p] => post[p] \in {"published", "gone"}

(***************************************************************************)
(* Action properties.                                                      *)
(***************************************************************************)

\* The durable guard: no provider takes a copy of a leg that has a published
\* record, nor of a leg that is settled or withdrawn.
NeverResent ==
  [][\A l \in Leg : remote'[l] # remote[l] =>
       pubRows[l] = 0 /\ target[l] \in {"publishing", "absent"}]_vars

\* PostStatus::can_transition_to, the table the guarded updates of the store
\* stand for.
CanTransition(from, to) ==
  \/ from = "scheduled" /\ to \in {"due", "cancelled"}
  \/ from = "due" /\ to \in {"publishing", "cancelled"}
  \/ from = "publishing" /\ to \in {"due"} \cup Verdict
  \/ from \in {"partial", "failed"} /\ to = "due"

\* Every status change of a post, by whichever actor, is in that table.
PostFollowsTable ==
  [][\A p \in Post : post'[p] # post[p] =>
       \/ CanTransition(post[p], post'[p])
       \/ post[p] = "none" /\ post'[p] = "scheduled"
       \/ post'[p] = "gone"]_vars

(***************************************************************************)
(* Refinement: the queue implements the contract of DeliveryContract.      *)
(***************************************************************************)
FateOfStatus == [pending |-> "owed", publishing |-> "owed", published |-> "live",
                 failed |-> "failed", cancelled |-> "withdrawn"]

FateOf(l) ==
  IF target[l] # "absent" THEN FateOfStatus[target[l]]
  ELSE IF post[PostOf[l]] = "gone" THEN "forgotten" ELSE "unscheduled"

Contract == INSTANCE DeliveryContract WITH fate <- [l \in Leg |-> FateOf(l)], sent <- remote

\* Every behaviour of the queue, with its runs, reaps and crashes, is one the
\* contract allows.
ImplementsContract == Contract!ContractSpec

(***************************************************************************)
(* Liveness.                                                               *)
(***************************************************************************)

\* A post that came due is decided: it settles, unless the user withdraws it.
\* A run that dies holding a leg is recovered by the lease reaper, a crash by
\* boot recovery.
DueIsDecided ==
  \A p \in Post : post[p] = "due" ~> post[p] \in Verdict \cup {"cancelled", "gone"}

(***************************************************************************)
(* What comments and tests of the code say, and the runs refute.           *)
(***************************************************************************)

\* scheduler.rs, on a run that returns Err: the row stays due for the next
\* tick. If so, a post left in publishing between two ticks always has a leg
\* whose lease the reaper can see.
NothingStrandedBetweenTicks ==
  sched = "asleep" =>
    \A p \in Post : post[p] = "publishing" => \E l \in LegsOf(p) : lease[l] # "none"
=============================================================================
