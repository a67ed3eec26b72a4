----------------------------- MODULE TickPolicy -----------------------------
(***************************************************************************)
(* The loop of the scheduler (scheduler.rs): each round reads the settings *)
(* of every workspace, merges them into one policy, and runs a tick with   *)
(* it, which recovers, claims, drains a batch and runs the posts of it     *)
(* whose workspace is enabled, a few at a time.  What happens to the legs  *)
(* of one post is PublishQueue's; here a post is one thing, and several    *)
(* workspaces share the loop.                                              *)
(***************************************************************************)
EXTENDS Integers, Sequences, FiniteSets, FiniteSetsExt, SequencesExt

CONSTANTS
  Spaces,        \* list_workspaces: the workspaces in their order
  Default,       \* DEFAULT_WORKSPACE_ID
  SpaceOf,       \* the workspace of each post; they come due one after the other
  Settings,       \* what a workspace's settings may be
  Defaults,      \* SocialSettings::default
  Batch,         \* sweep_batch_size
  MaxConcurrent, \* MAX_CONCURRENT_POSTS
  Allowance,     \* PER_ATTEMPT_ALLOWANCE_MS
  Margin,        \* LEASE_MARGIN_MS
  Heartbeat,     \* LEASE_HEARTBEAT
  MaxChanges     \* bounds the changes of settings and the failures

VARIABLES
  settings, \* per workspace
  clock,
  time,     \* per post, its scheduled_for
  post,     \* per post, its status
  loop,     \* the scheduler's task
  changes,
  \* What happened:
  wasOn,    \* workspaces that were on at some time since this round began to read
  blind     \* workspaces whose settings this round could not read

vars == <<settings, clock, time, post, loop, changes, wasOn, blind>>

Workspace == Range(Spaces)
Post == DOMAIN SpaceOf

-----------------------------------------------------------------------------
(* The policy.                                                             *)

\* 2^n
Doubled[n \in Nat] == IF n = 0 THEN 1 ELSE 2 * Doubled[n - 1]

\* backoff_delay_ms
Backoff(attempt, base) ==
  IF attempt = 0 THEN 0 ELSE base * Doubled[IF attempt - 1 < 16 THEN attempt - 1 ELSE 16]

\* The sleeps between n attempts, folded from 0.
Slept(base) == LET sum[n \in Nat] == IF n = 0 THEN 0 ELSE sum[n - 1] + Backoff(n - 1, base) IN sum

\* Faulty form: the sleeps do not grow.
WorstCaseFlat(s) == (s.attempts - 1) * s.base + s.attempts * Allowance

\* worst_case_publish_ms: every call and the sleeps between them.
WorstCase(s) == Slept(s.base)[s.attempts] + s.attempts * Allowance

\* effective_lease_ms
Lease(s) == Max({s.lease, WorstCase(s) + Margin})

DefaultPolicy == [lease |-> Defaults.lease, enabled |-> {Default}]

\* merge_policy, of the settings read for each workspace.
MergePolicy(read) ==
  IF read = <<>> THEN [DefaultPolicy EXCEPT !.enabled = {}]
  ELSE [lease |-> Max({Lease(read[i]) : i \in DOMAIN read}),
        enabled |-> {Spaces[i] : i \in {k \in DOMAIN read : read[k].on}}]

-----------------------------------------------------------------------------

NoLoop == [pc |-> "list", read |-> <<>>, policy |-> DefaultPolicy, queue |-> <<>>, runs |-> {}]

TypeOK ==
  /\ settings \in [Workspace -> Settings]
  /\ clock \in 0..Len(SpaceOf) /\ time \in [Post -> 0..Len(SpaceOf)]
  /\ post \in [Post -> {"scheduled", "due", "publishing", "settled"}]
  /\ loop.pc \in {"list", "read", "reap", "claim", "drain", "run"}
  /\ loop.policy.enabled \subseteq Workspace /\ loop.policy.lease \in Nat
  /\ \A run \in loop.runs : run.post \in Post /\ run.with \in Settings
  /\ changes \in 0..MaxChanges
  /\ wasOn \subseteq Workspace /\ blind \subseteq Workspace

On == {w \in Workspace : settings[w].on}

Init ==
  /\ settings \in [Workspace -> Settings]
  /\ clock = 0 /\ time = [p \in Post |-> p]
  /\ post = [p \in Post |-> "scheduled"]
  /\ loop = NoLoop
  /\ changes = 0 /\ wasOn = On /\ blind = {}

Running == {run.post : run \in loop.runs}

\* ORDER BY scheduled_for; posts of one instant in the order of their rows.
Earlier(p, q) == time[p] < time[q] \/ (time[p] = time[q] /\ p < q)
First(S) == {p \in S : Cardinality({q \in S : Earlier(q, p)}) < Batch}
InOrder(S) == {q \in [1..Cardinality(S) -> S] : \A i, j \in 1..Cardinality(S) : i < j => Earlier(q[i], q[j])}

Ready(p) == post[p] = "scheduled" /\ time[p] <= clock

-----------------------------------------------------------------------------
(* Requests and time.                                                      *)

\* put_settings: whatever a patch may have made of them.
PutSettings ==
  /\ changes < MaxChanges /\ changes' = changes + 1
  /\ \E w \in Workspace, s \in Settings :
       /\ settings' = [settings EXCEPT ![w] = s]
       /\ wasOn' = IF s.on THEN wasOn \cup {w} ELSE wasOn
  /\ UNCHANGED <<clock, time, post, loop, blind>>

TimePasses ==
  /\ clock < Len(SpaceOf) /\ clock' = clock + 1
  /\ UNCHANGED <<settings, time, post, loop, changes, wasOn, blind>>

\* mark_post_due_now
PublishNow ==
  /\ \E p \in Post : /\ post[p] = "scheduled"
                      /\ post' = [post EXCEPT ![p] = "due"]
                      /\ time' = [time EXCEPT ![p] = clock]
  /\ UNCHANGED <<settings, clock, loop, changes, wasOn, blind>>

-----------------------------------------------------------------------------
(* The loop.                                                               *)

Frame == UNCHANGED <<settings, clock, time>>

\* Faulty form: the policy of the first round is kept.
ReadOnce ==
  /\ loop.pc = "list"
  /\ loop' = [loop EXCEPT !.pc = IF loop.read = <<>> THEN "read" ELSE "reap"]
  /\ wasOn' = On /\ blind' = {}
  /\ UNCHANGED <<post, changes>> /\ Frame

\* read_policy begins.
ReadBegins ==
  /\ loop.pc = "list"
  /\ loop' = [NoLoop EXCEPT !.pc = "read"]
  /\ wasOn' = On /\ blind' = {}
  /\ UNCHANGED <<post, changes>> /\ Frame

\* list_workspaces fails: the default policy.
ListFails ==
  /\ loop.pc = "list" /\ changes < MaxChanges
  /\ changes' = changes + 1
  /\ loop' = [NoLoop EXCEPT !.pc = "reap"]
  /\ wasOn' = On /\ blind' = Workspace
  /\ UNCHANGED post /\ Frame

\* get_settings of the next workspace; the last one completes the policy.
Reads(s) ==
  LET read == Append(loop.read, s) IN
  loop' = IF Len(read) < Len(Spaces) THEN [loop EXCEPT !.read = read]
          ELSE [loop EXCEPT !.read = read, !.pc = "reap", !.policy = MergePolicy(read)]

ReadSettings ==
  /\ loop.pc = "read"
  /\ Reads(settings[Spaces[Len(loop.read) + 1]])
  /\ UNCHANGED <<post, changes, wasOn, blind>> /\ Frame

\* A query that fails, or a blob that does not parse, reads as the defaults.
ReadFails ==
  /\ loop.pc = "read" /\ changes < MaxChanges
  /\ changes' = changes + 1
  /\ Reads(Defaults)
  /\ blind' = blind \cup {Spaces[Len(loop.read) + 1]}
  /\ UNCHANGED <<post, wasOn>> /\ Frame

\* reap_expired_claims: of runs that ended without a verdict, those whose lease is over.
Reap ==
  /\ loop.pc = "reap"
  /\ \E S \in SUBSET {p \in Post : post[p] = "publishing"} :
       post' = [p \in Post |-> IF p \in S THEN "due" ELSE post[p]]
  /\ loop' = [loop EXCEPT !.pc = "claim"]
  /\ UNCHANGED <<changes, wasOn, blind>> /\ Frame

\* claim_due_posts, of every workspace, unless none is enabled.
Claim ==
  LET S == IF loop.policy.enabled = {} THEN {}
           ELSE First({p \in Post : Ready(p)}) IN
  /\ loop.pc = "claim"
  /\ post' = [p \in Post |-> IF p \in S THEN "due" ELSE post[p]]
  /\ loop' = [loop EXCEPT !.pc = "drain"]
  /\ UNCHANGED <<changes, wasOn, blind>> /\ Frame

\* Faulty form: a batch with a post that is held is not run.
RunnableTogether(S) == IF \A p \in S : SpaceOf[p] \in loop.policy.enabled THEN S ELSE {}

Runnable(S) == {p \in S : SpaceOf[p] \in loop.policy.enabled}

\* list_due_posts and the partition of what it gives.
Drain ==
  /\ loop.pc = "drain"
  /\ \E batch \in InOrder(Runnable(First({p \in Post : post[p] = "due"}))) :
       loop' = [loop EXCEPT !.pc = "run", !.queue = batch]
  /\ UNCHANGED <<post, changes, wasOn, blind>> /\ Frame

\* run_batch: the next post, and the claim and the settings of run_post.
Spawn ==
  /\ loop.pc = "run" /\ loop.queue # <<>> /\ Cardinality(loop.runs) < MaxConcurrent
  /\ LET p == Head(loop.queue) IN
     IF post[p] = "due"
       THEN /\ post' = [post EXCEPT ![p] = "publishing"]
            /\ loop' = [loop EXCEPT !.queue = Tail(@),
                                    !.runs = @ \cup {[post |-> p, with |-> settings[SpaceOf[p]]]}]
       ELSE UNCHANGED post /\ loop' = [loop EXCEPT !.queue = Tail(@)]
  /\ UNCHANGED <<changes, wasOn, blind>> /\ Frame

\* A run ends with a verdict, or without one.
RunEnds ==
  /\ \E run \in loop.runs, verdict \in {"settled", "publishing"} :
       /\ verdict = "publishing" => changes < MaxChanges
       /\ changes' = changes + IF verdict = "publishing" THEN 1 ELSE 0
       /\ post' = [post EXCEPT ![run.post] = verdict]
       /\ loop' = [loop EXCEPT !.runs = @ \ {run}]
  /\ UNCHANGED <<wasOn, blind>> /\ Frame

\* join_next gives nothing any more, and the loop sleeps until its next round.
BatchEnds ==
  /\ loop.pc = "run" /\ loop.queue = <<>> /\ loop.runs = {}
  /\ loop' = [loop EXCEPT !.pc = "list"]
  /\ UNCHANGED <<post, changes, wasOn, blind>> /\ Frame

LoopStep ==
  \/ ReadBegins \/ ReadSettings \/ Reap \/ Claim \/ Drain \/ Spawn \/ RunEnds \/ BatchEnds

Next ==
  \/ PutSettings \/ TimePasses \/ PublishNow
  \/ LoopStep \/ ListFails \/ ReadFails

Spec == Init /\ [][Next]_vars /\ WF_vars(LoopStep)

-----------------------------------------------------------------------------
(* Properties.                                                             *)

\* The step runs a post only of a workspace that was on when the round began, or later, or
\* whose settings it could not read.
RunOnlyIfOn ==
  \A p \in Post : post[p] = "due" /\ post'[p] = "publishing" => SpaceOf[p] \in wasOn \cup blind

\* A post of a workspace whose scheduler is switched off is never run, when the switch was
\* off before the round began to read it and could be read (tick: "a held post is never
\* published").
HeldIsNotRun == [][RunOnlyIfOn]_vars

\* A post is never run while its workspace's scheduler is switched off and was before the
\* round began (tick: "a held post is never PUBLISHED").
HeldNeverRun ==
  [][\A p \in Post : post[p] = "due" /\ post'[p] = "publishing" => SpaceOf[p] \in wasOn]_vars

\* The attempt loop: when its n-th call begins, if each one before took its allowance; and
\* the longest time for which a run does not renew its lease around the n-th sleep, however
\* long a call takes.
Called(base) ==
  LET began[n \in Nat] == IF n <= 1 THEN 0 ELSE began[n - 1] + (Allowance + Backoff(n - 1, base)) IN began
Silence(s, n) == Heartbeat + Backoff(n, s.base)

\* The lease of the policy outlasts every run that was begun with the settings it was made
\* of: with every renewal lost, when each call keeps its allowance, and with none lost when
\* a call takes longer (effective_lease_ms, merge_policy).
LeaseOutlastsRun ==
  \A run \in loop.runs :
    (\E i \in DOMAIN loop.read : Spaces[i] = SpaceOf[run.post] /\ loop.read[i] = run.with) =>
      /\ Called(run.with.base)[run.with.attempts] + Allowance < loop.policy.lease
      /\ \A n \in 0..run.with.attempts - 1 : Silence(run.with, n) < loop.policy.lease

Waits(p) == Ready(p) \/ post[p] = "due"
Held == {p \in Post : Waits(p) /\ SpaceOf[p] \notin On}

\* A post that comes due in an enabled workspace is run in the end, unless its workspace is
\* switched off or the posts that are held fill a whole batch (claim_due_posts,
\* list_due_posts).
EnabledIsRun ==
  \A p \in Post :
    [](Waits(p) => <>(\/ ~Waits(p)
                      \/ SpaceOf[p] \notin On
                      \/ Cardinality(Held) >= Batch))

-----------------------------------------------------------------------------
(* Why a held post is not run (NodeProofs).                                *)

TickAssumption == Spaces \in Seq(Workspace) /\ Default \in Workspace /\ SpaceOf \in Seq(Workspace)

\* Settings make one attempt at least; the margin has room for a heartbeat.
LeaseAssumption ==
  /\ Settings \cup {Defaults} \subseteq [on : BOOLEAN, lease : Nat, attempts : Nat \ {0}, base : Nat]
  /\ Allowance \in Nat /\ Margin \in Nat /\ Heartbeat \in Nat /\ Heartbeat < Margin

LoopTypes ==
  /\ settings \in [Workspace -> Settings] /\ post \in [Post -> {"scheduled", "due", "publishing", "settled"}]
  /\ loop = [pc |-> loop.pc, read |-> loop.read, policy |-> loop.policy, queue |-> loop.queue, runs |-> loop.runs]
  /\ loop.pc \in {"list", "read", "reap", "claim", "drain", "run"}
  /\ loop.read \in Seq(Settings \cup {Defaults}) /\ loop.queue \in Seq(Post)

\* Only a batch has posts and runs, and nothing takes the post of a run from it.
BatchInv ==
  /\ loop.pc # "run" => loop.queue = <<>> /\ loop.runs = {}
  /\ \A run \in loop.runs : run.post \in Post /\ post[run.post] \in {"publishing", "settled"}

\* What is read as on was on since the round began, or could not be read; so is what the
\* policy enables, and what the batch belongs to is enabled.
PolicyInv ==
  /\ On \subseteq wasOn
  /\ loop.pc = "read" =>
       /\ Len(loop.read) < Len(Spaces)
       /\ \A i \in DOMAIN loop.read : loop.read[i].on => Spaces[i] \in wasOn \cup blind
  /\ loop.pc \in {"reap", "claim", "drain", "run"} => loop.policy.enabled \subseteq wasOn \cup blind
  /\ \A i \in DOMAIN loop.queue : SpaceOf[loop.queue[i]] \in loop.policy.enabled

TickInv == LoopTypes /\ BatchInv /\ PolicyInv

\* A batch goes by the policy its round has read, or by the default one; its runs by settings.
LeaseInv ==
  /\ loop.pc \in {"reap", "claim", "drain", "run"} => loop.read = <<>> \/ loop.policy = MergePolicy(loop.read)
  /\ \A run \in loop.runs : run.with \in Settings
=============================================================================
