---------------------------- MODULE AgentGrant ----------------------------
(***************************************************************************)
(* Whose account access a post is published with: the agent_grant column   *)
(* of scheduled_posts (store.rs), the draft edits of api/drafts.rs, the    *)
(* requests of api/posts.rs that replace the grant, and the two reads of   *)
(* publish/runner.rs.                                                      *)
(*                                                                         *)
(* Every store call is one action.  An agent's edit is two of them, and a  *)
(* run reads the draft and the grant in two more, with other handlers in   *)
(* between.  The posts of one draft are modelled, on the legs that have no *)
(* variant body of their own; a text is its author, and the queue is what  *)
(* PublishQueue says of it: the statuses, without the legs.                *)
(***************************************************************************)
EXTENDS Naturals

CONSTANTS
  Post,     \* posts that publish the draft
  Agent,    \* agents whose requests carry a grant
  Person    \* the actor of a request without one

ASSUME ActorAssumption == Person \notin Agent

VARIABLES
  status,    \* scheduled_posts.status; "none" before the row exists
  grant,     \* scheduled_posts.agent_grant: whose it is, and how it is stored
  text,      \* who wrote the draft's current body
  editing,   \* agents whose edit has recorded its grant and not yet its text
  run,       \* per post: where its run is, the text and the actor it read
  keyed,     \* the process has a sealing key
  clean,     \* the pass that seals old grants went through, in this process or before (no code)
  latest     \* how the recorded actor relates to each agent's latest edit (no code)

vars == <<status, grant, text, editing, run, keyed, clean, latest>>

Actor  == Agent \cup {Person}
Status == {"none", "scheduled", "due", "publishing", "partial", "failed",
           "published", "cancelled"}

\* The statuses set_draft_posts_agent_grant reaches.
Unpublished == {"scheduled", "due", "partial", "failed", "publishing"}

\* "legacy" is plaintext that an older version left, "plain" would be this version's; a
\* person's grant is NULL, and counts as sealed.
Grant == [by : Actor, form : {"sealed", "legacy", "plain"}]

\* "before": recorded before the agent's edit began; "own": by the agent;
\* "between": by another actor, before the edit's text was written; "after".
Relation == {"before", "own", "between", "after"}

Run == [at : {"idle", "draft", "grant", "publishing"},
        text : Actor, actor : Actor, latest : [Agent -> Relation]]

IdleRun == [at |-> "idle", text |-> Person, actor |-> Person,
            latest |-> [a \in Agent |-> "after"]]

TypeOK ==
  /\ status \in [Post -> Status]
  /\ grant \in [Post -> Grant]
  /\ text \in Actor
  /\ editing \in SUBSET Agent
  /\ run \in [Post -> Run]
  /\ keyed \in BOOLEAN /\ clean \in BOOLEAN
  /\ latest \in [Post -> [Agent -> Relation]]
  /\ \A p \in Post : run[p].at # "idle" => status[p] = "publishing"

\* A row's grant as this version writes it.
Recorded(b) == [by |-> b, form |-> "sealed"]

\* A database an older version may have left, with plaintext grants, opened by a process
\* with or without a key; its pass over them went through, or failed and was logged.
Init ==
  /\ status \in [Post -> {"none", "scheduled"}]
  /\ keyed \in BOOLEAN /\ clean \in BOOLEAN
  /\ grant \in [Post -> [by : Actor, form : {"sealed", "legacy"}]]
  /\ \A p \in Post :
       /\ status[p] = "none" => grant[p].by = Person
       /\ clean \/ grant[p].by = Person => grant[p].form = "sealed"
  /\ text = Person
  /\ editing = {}
  /\ run = [p \in Post |-> IdleRun]
  /\ latest = [p \in Post |-> [a \in Agent |-> "after"]]

(***************************************************************************)
(* The grant column.                                                       *)
(***************************************************************************)

\* seal_agent_grant: no grant needs no key, a grant without one is refused.
CanSeal(b) == b = Person \/ keyed

\* open_agent_grant: a person's post needs no key, and neither does a plaintext.
CanOpen(p) == grant[p].by = Person \/ grant[p].form # "sealed" \/ keyed

RelationTo(b) ==
  [a \in Agent |-> IF a = b THEN "own" ELSE IF a \in editing THEN "between" ELSE "after"]

\* The request of b replaces the actor of p.
Record(p, b) ==
  /\ CanSeal(b)
  /\ grant' = [grant EXCEPT ![p] = Recorded(b)]
  /\ latest' = [latest EXCEPT ![p] = RelationTo(b)]

Schedule(p, b) ==
  /\ status[p] = "none"
  /\ status' = [status EXCEPT ![p] = "scheduled"]
  /\ Record(p, b)
  /\ UNCHANGED <<text, editing, run, keyed, clean>>

Reschedule(p, b) ==
  /\ status[p] = "scheduled"
  /\ Record(p, b)
  /\ UNCHANGED <<status, text, editing, run, keyed, clean>>

PublishNow(p, b) ==
  /\ status[p] = "scheduled"
  /\ status' = [status EXCEPT ![p] = "due"]
  /\ Record(p, b)
  /\ UNCHANGED <<text, editing, run, keyed, clean>>

Retry(p, b) ==
  /\ status[p] \in {"partial", "failed"}
  /\ status' = [status EXCEPT ![p] = "due"]
  /\ Record(p, b)
  /\ UNCHANGED <<text, editing, run, keyed, clean>>

Cancel(p) ==
  /\ status[p] \in {"scheduled", "due"}
  /\ status' = [status EXCEPT ![p] = "cancelled"]
  /\ UNCHANGED <<grant, text, editing, run, keyed, clean, latest>>

(***************************************************************************)
(* The edits of the draft.                                                 *)
(***************************************************************************)
MarkedBy(a, posts) ==
  /\ grant' = [p \in Post |-> IF p \in posts THEN Recorded(a) ELSE grant[p]]
  /\ latest' = [p \in Post |->
       IF p \in posts THEN RelationTo(a) ELSE [latest[p] EXCEPT ![a] = "before"]]

\* Faulty form: a post that a run has claimed is left as it is.
EditBeginUnclaimed(a) ==
  /\ CanSeal(a)
  /\ editing' = editing \cup {a}
  /\ MarkedBy(a, {p \in Post : status[p] \in Unpublished \ {"publishing"}})
  /\ UNCHANGED <<status, text, run, keyed, clean>>

\* Faulty form: without a key the grant is stored as it came.
EditBeginUnsealed(a) ==
  /\ editing' = editing \cup {a}
  /\ grant' = [p \in Post |->
       IF status[p] \in Unpublished THEN [by |-> a, form |-> "plain"] ELSE grant[p]]
  /\ latest' = [p \in Post |->
       IF status[p] \in Unpublished THEN RelationTo(a) ELSE [latest[p] EXCEPT ![a] = "before"]]
  /\ UNCHANGED <<status, text, run, keyed, clean>>

\* patch_draft by an agent first records its grant on every unpublished post ...
EditBegin(a) ==
  /\ CanSeal(a)
  /\ editing' = editing \cup {a}
  /\ MarkedBy(a, {p \in Post : status[p] \in Unpublished})
  /\ UNCHANGED <<status, text, run, keyed, clean>>

\* ... and then rewrites the draft.
EditText(a) ==
  /\ a \in editing
  /\ editing' = editing \ {a}
  /\ text' = a
  /\ UNCHANGED <<status, grant, run, keyed, clean, latest>>

\* The handler is dropped, or the second call fails, between the two.
EditDropped(a) ==
  /\ a \in editing
  /\ editing' = editing \ {a}
  /\ UNCHANGED <<status, grant, text, run, keyed, clean, latest>>

\* A person's edit leaves the posts' actors alone.
PersonEdit ==
  /\ text' = Person
  /\ UNCHANGED <<status, grant, editing, run, keyed, clean, latest>>

(***************************************************************************)
(* The sweep and the run.                                                  *)
(***************************************************************************)
Sweep(p) ==
  /\ status[p] = "scheduled"
  /\ status' = [status EXCEPT ![p] = "due"]
  /\ UNCHANGED <<grant, text, editing, run, keyed, clean, latest>>

RunClaim(p) ==
  /\ status[p] = "due"
  /\ status' = [status EXCEPT ![p] = "publishing"]
  /\ run' = [run EXCEPT ![p].at = "draft"]
  /\ UNCHANGED <<grant, text, editing, keyed, clean, latest>>

RunReadDraft(p) ==
  /\ run[p].at = "draft"
  /\ run' = [run EXCEPT ![p].at = "grant", ![p].text = text]
  /\ UNCHANGED <<status, grant, text, editing, keyed, clean, latest>>

\* Faulty form: a grant that cannot be opened counts as none.
RunReadGrantLeniently(p) ==
  /\ run[p].at = "grant"
  /\ run' = [run EXCEPT ![p].at = "publishing", ![p].latest = latest[p],
                        ![p].actor = IF CanOpen(p) THEN grant[p].by ELSE Person]
  /\ UNCHANGED <<status, grant, text, editing, keyed, clean, latest>>

\* A grant that cannot be opened ends the run; its post stays claimed.
RunReadGrant(p) ==
  /\ run[p].at = "grant"
  /\ run' = IF CanOpen(p)
              THEN [run EXCEPT ![p].at = "publishing", ![p].latest = latest[p],
                               ![p].actor = grant[p].by]
              ELSE [run EXCEPT ![p] = IdleRun]
  /\ UNCHANGED <<status, grant, text, editing, keyed, clean, latest>>

RunSettle(p) ==
  /\ run[p].at = "publishing"
  /\ \E verdict \in {"published", "partial", "failed"} :
       status' = [status EXCEPT ![p] = verdict]
  /\ run' = [run EXCEPT ![p] = IdleRun]
  /\ UNCHANGED <<grant, text, editing, keyed, clean, latest>>

\* Boot recovery leaves no post publishing (fewer than RECOVERY_SCAN_LIMIT are), and no run or
\* edit is under way.
Recovered ==
  /\ \E verdict \in [Post -> {"due", "published", "partial", "failed"}] :
       status' = [p \in Post |-> IF status[p] = "publishing" THEN verdict[p] ELSE status[p]]
  /\ editing' = {}
  /\ run' = [p \in Post |-> IdleRun]

\* Faulty form: the pass seals the grants of the posts that can still be published.
RestartSealsUnpublished(hasKey, passes) ==
  /\ passes => hasKey
  /\ Recovered
  /\ keyed' = hasKey
  /\ clean' = (clean \/ passes)
  /\ grant' = [p \in Post |->
       IF passes /\ status[p] \in Unpublished THEN Recorded(grant[p].by) ELSE grant[p]]
  /\ UNCHANGED <<text, latest>>

\* A process with a key first seals, in one transaction, every grant it finds in plaintext; one
\* whose pass fails says so in its log and serves with its key and those grants as they are.
Restart(hasKey, passes) ==
  /\ passes => hasKey
  /\ Recovered
  /\ keyed' = hasKey
  /\ clean' = (clean \/ passes)
  /\ grant' = [p \in Post |-> IF passes THEN Recorded(grant[p].by) ELSE grant[p]]
  /\ UNCHANGED <<text, latest>>

Request(p, b) ==
  \/ Schedule(p, b)
  \/ Reschedule(p, b)
  \/ PublishNow(p, b)
  \/ Retry(p, b)

PublishStep(p) ==
  \/ Sweep(p)
  \/ RunClaim(p)
  \/ RunReadDraft(p)
  \/ RunReadGrant(p)
  \/ RunSettle(p)

Edit(a) ==
  \/ EditBegin(a)
  \/ EditText(a)
  \/ EditDropped(a)

Next ==
  \/ \E p \in Post, b \in Actor : Request(p, b)
  \/ \E p \in Post : Cancel(p) \/ PublishStep(p)
  \/ \E a \in Agent : Edit(a)
  \/ PersonEdit
  \/ \E hasKey, passes \in BOOLEAN : Restart(hasKey, passes)

Spec == Init /\ [][Next]_vars

-----------------------------------------------------------------------------
(***************************************************************************)
(* Properties.                                                             *)
(***************************************************************************)

\* A run never sends an agent's text with an actor recorded before that agent's
\* edit began: grant before text, draft before grant, claimed posts included.
ActorKnowsTheEdit ==
  \A p \in Post :
    run[p].at = "publishing" /\ run[p].text \in Agent => run[p].latest[run[p].text] # "before"

\* When the agent whose text goes out was the last to act on the post, the call
\* is made with that agent's access and never as a person, whatever key is lost.
OwnTextOwnAccess ==
  \A p \in Post :
    run[p].at = "publishing" /\ run[p].text \in Agent =>
      (run[p].latest[run[p].text] = "own" => run[p].actor = run[p].text)

\* No grant of this version's is stored in the clear, whatever key or pass is missing; once a
\* pass went through none of an older version's is either, whichever processes follow.
SealedAtRest ==
  \A p \in Post : grant[p].form # "plain" /\ (clean => grant[p].form = "sealed")

\* An edit's grant goes with its agent's text, and at rest only a process with the key can read
\* it, but for what an older version left and no pass has sealed (seal_agent_grant,
\* open_agent_grant, reseal_plaintext_agent_grants, run_post).
GrantKept == OwnTextOwnAccess /\ SealedAtRest

\* The inductive invariant behind them.  What an edit recorded stays recorded: on
\* every post that can still be published, for the text that is in the draft, for
\* the edits under way, and for the text a run has read.
TextRecorded ==
  \A p \in Post : status[p] \in Unpublished =>
    \A a \in Agent : a = text \/ a \in editing => latest[p][a] # "before"

DraftReadRecorded ==
  \A p \in Post :
    run[p].at = "grant" /\ run[p].text \in Agent => latest[p][run[p].text] # "before"

OwnMeansGranted ==
  \A p \in Post, a \in Agent : latest[p][a] = "own" => grant[p].by = a

GInv ==
  /\ TypeOK
  /\ TextRecorded
  /\ DraftReadRecorded
  /\ OwnMeansGranted
  /\ ActorKnowsTheEdit
  /\ OwnTextOwnAccess
  /\ SealedAtRest
=============================================================================
