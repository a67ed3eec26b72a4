--------------------------- MODULE BlueskyThread ---------------------------
(***************************************************************************)
(* One post on its way to Bluesky as a thread (providers/bluesky.rs): one  *)
(* record per segment, each under a key derived from the post and the      *)
(* segment's place, each a reply to the one before.  A publish is tried    *)
(* several times in a run and in several runs; an answer can be lost, a    *)
(* request that was given up on can land later, the draft can be edited    *)
(* between runs, and the session two calls share can expire.               *)
(*                                                                         *)
(* The repository of the account is external: it refuses a second record   *)
(* under a key and never changes one.  Records that the user deletes there *)
(* are left out.  A record's cid is abstracted to its text.                *)
(***************************************************************************)
EXTENDS Naturals, Sequences, FiniteSets

CONSTANTS Drafts,      \* bodies the user may write: sequences of segment texts
          MaxLen,      \* the longest of them
          MaxAttempts, \* attempts of a run
          MaxRuns      \* bound on the runs explored

Place    == 1 .. MaxLen
Nowhere  == <<0, "none">>          \* no root, no parent
NoRecord == [text |-> "none", root |-> Nowhere, parent |-> Nowhere]

VARIABLES
  draft,    \* the draft as it stands
  edited,   \* ghost: edited when some of it may already have been sent
  repo,     \* the records of the account under this post's keys
  late,     \* create requests given up on that may still land
  session,  \* the session all calls share: "none", "fresh", "stale"
  step,     \* "idle", "session", "segment", "probe"
  body,     \* the segments this run publishes
  at,       \* the segment in hand
  root,     \* locals of publish_inner: strong references
  parent,
  tries,    \* attempts of this run, the current one included
  runs,     \* runs started
  result    \* what the last run reported: "none", "ok", "err"

vars == <<draft, edited, repo, late, session, step, body, at, root, parent,
          tries, runs, result>>
run  == <<step, body, at, root, parent, tries>>

\* A faulty form: the key is the post's alone.
PostKey(i) == 1

\* The key of a segment, under the post's own: its place in the thread.
SegmentKey(i) == i

Live(k) == repo[k] # NoRecord

-----------------------------------------------------------------------------
Init ==
  /\ draft \in Drafts
  /\ edited = FALSE
  /\ repo = [k \in Place |-> NoRecord]
  /\ late = {}
  /\ session = "none"
  /\ step = "idle" /\ body = <<>> /\ at = 0
  /\ root = Nowhere /\ parent = Nowhere
  /\ tries = 0 /\ runs = 0 /\ result = "none"

\* A run takes the draft as it is; every attempt of it sends that.
Begin(n) == /\ step' = "session" /\ tries' = n
            /\ at' = 1 /\ root' = Nowhere /\ parent' = Nowhere

StartRun ==
  /\ step = "idle" /\ result # "ok" /\ runs < MaxRuns
  /\ runs' = runs + 1 /\ body' = draft /\ Begin(1)
  /\ UNCHANGED <<draft, edited, repo, late, session, result>>

Edit ==
  /\ result # "ok"
  /\ draft' \in Drafts \ {draft}
  /\ edited' = (edited \/ runs > 0)
  /\ UNCHANGED <<repo, late, session, run, runs, result>>

\* The session's token nears its expiry; or the user disconnects the account.
Expire == /\ session # "none"
          /\ session' \in {"stale", "none"} \ {session}
          /\ UNCHANGED <<draft, edited, repo, late, run, runs, result>>

\* An attempt that failed: the next of the run, or the run is over.
Fail == IF tries < MaxAttempts
        THEN /\ Begin(tries + 1) /\ UNCHANGED <<body, result>>
        ELSE /\ step' = "idle" /\ result' = "err"
             /\ UNCHANGED <<body, at, root, parent, tries>>

\* The router's authorize_agent: only an explicit yes of Core lets an agent's
\* request use the account; no host, no answer and any other answer are a no.
Allowed(reply) == reply = "allowed"

AgentRefused ==
  /\ step = "session"
  /\ \E reply \in {"not-hosted", "no-answer", "rejected", "not-allowed"} :
       ~Allowed(reply) /\ Fail
  /\ UNCHANGED <<draft, edited, repo, late, session, runs>>

\* Under the lock: a fresh session is used, a stale one refreshed, and a login
\* made when there is none or the refresh fails.
GetSession ==
  /\ step = "session"
  /\ \/ /\ session' = "fresh" /\ step' = "segment"
        /\ UNCHANGED <<body, at, root, parent, tries, result>>
     \/ /\ session # "fresh" /\ UNCHANGED session /\ Fail
  /\ UNCHANGED <<draft, edited, repo, late, runs>>

\* A faulty form: every segment becomes the root of the next.
RootLatest(known, ref) == ref

\* The segment in hand is live under `ref`: on to the next, or the thread is
\* whole.  The first one found or made is the root of every later reply.
RootOf(known, ref) == IF known = Nowhere THEN ref ELSE known

Advance(ref) ==
  /\ root' = RootOf(root, ref) /\ parent' = ref
  /\ UNCHANGED <<body, tries>>
  /\ IF at = Len(body)
     THEN step' = "idle" /\ result' = "ok" /\ UNCHANGED at
     ELSE step' = "segment" /\ at' = at + 1 /\ UNCHANGED result

Request == [key    |-> SegmentKey(at),
            record |-> [text |-> body[at], root |-> root, parent |-> parent]]

Land(q) == repo' = [repo EXCEPT ![q.key] = q.record]
Ref(k, r) == <<k, r[k].text>>

\* build_embed: an image that cannot be read or uploaded fails the attempt.
EmbedFails ==
  /\ step = "segment" /\ Fail
  /\ UNCHANGED <<draft, edited, repo, late, session, runs>>

\* createRecord, answered.
Created ==
  /\ step = "segment" /\ ~Live(Request.key)
  /\ Land(Request) /\ Advance(Ref(Request.key, repo'))
  /\ UNCHANGED <<draft, edited, late, session, runs>>

\* createRecord, refused or not answered: it landed, or it may land yet, or the
\* key is taken.  The repository is asked which.
Unanswered ==
  /\ step = "segment" /\ step' = "probe"
  /\ \/ /\ ~Live(Request.key) /\ Land(Request) /\ UNCHANGED late
     \/ late' = late \cup {Request} /\ UNCHANGED repo
     \/ UNCHANGED <<repo, late>>
  /\ UNCHANGED <<draft, edited, session, body, at, root, parent, tries, runs, result>>

\* existing_record: what is there is taken as ours, whatever it says.
ProbeFinds ==
  /\ step = "probe" /\ Live(SegmentKey(at))
  /\ Advance(Ref(SegmentKey(at), repo))
  /\ UNCHANGED <<draft, edited, repo, late, session, runs>>

\* Nothing there, or the question itself failed: the attempt fails.
ProbeFails ==
  /\ step = "probe" /\ Fail
  /\ UNCHANGED <<draft, edited, repo, late, session, runs>>

\* The publish deadline cuts the attempt off with a request on its way.
DeadlineElapses ==
  /\ step = "segment" /\ Fail
  /\ \/ late' = late \cup {Request} /\ UNCHANGED repo
     \/ ~Live(Request.key) /\ Land(Request) /\ UNCHANGED late
  /\ UNCHANGED <<draft, edited, session, runs>>

\* A request nobody waits for reaches the repository, or is lost.
LateArrival ==
  \E q \in late :
    /\ late' = late \ {q}
    /\ \/ UNCHANGED repo
       \/ ~Live(q.key) /\ Land(q)
    /\ UNCHANGED <<draft, edited, session, run, runs, result>>

\* The process dies; the leg is reaped and may be run again.
Crash ==
  /\ step # "idle"
  /\ step' = "idle" /\ session' = "none"
  /\ body' = <<>> /\ at' = 0 /\ root' = Nowhere /\ parent' = Nowhere /\ tries' = 0
  /\ UNCHANGED <<draft, edited, repo, late, runs, result>>

Next == \/ StartRun \/ Edit \/ Expire \/ AgentRefused \/ GetSession \/ EmbedFails \/ Created
        \/ Unanswered \/ ProbeFinds \/ ProbeFails \/ DeadlineElapses
        \/ LateArrival \/ Crash

Spec == Init /\ [][Next]_vars

-----------------------------------------------------------------------------
\* However often and from whichever attempt its records came, the thread on the
\* platform is one chain: every record replies to the record of the segment
\* before it, as that record is, under the first as root (publish_inner).
OneChain ==
  \A k \in 2 .. MaxLen : Live(k) =>
     /\ Live(k - 1)
     /\ repo[k].parent = Ref(k - 1, repo)
     /\ repo[k].root = Ref(1, repo)

\* A run that reports success left the draft's whole thread on the platform, each
\* segment once and in its words, unless the draft was edited after a first run
\* began (publish_inner, existing_record).
OkIsTheDraft ==
  result = "ok" /\ ~edited =>
     \A k \in Place : IF k <= Len(draft) THEN repo[k].text = draft[k] ELSE ~Live(k)

\* Retries after any failure and an edit between them leave neither a broken thread nor a
\* success that is not one (publish_inner).
ThreadKept == OneChain /\ OkIsTheDraft

-----------------------------------------------------------------------------
(* Why that holds (ProviderProofs).                                        *)

Text   == {NoRecord.text} \cup UNION {{d[i] : i \in DOMAIN d} : d \in Drafts}
Strong == Nat \X Text
Record == [text : Text, root : Strong, parent : Strong]

\* A draft has a segment, and no segment reads as NoRecord does.
DraftsAssumption ==
  /\ MaxLen \in Nat
  /\ \A d \in Drafts : /\ d \in Seq(Text) /\ Len(d) \in 1..MaxLen
                        /\ \A i \in 1..Len(d) : d[i] # NoRecord.text

ThreadTypes ==
  /\ draft \in Drafts /\ edited \in BOOLEAN
  /\ repo \in [Place -> Record]
  /\ late \subseteq [key : Place, record : Record]
  /\ root \in Strong /\ parent \in Strong
  /\ runs \in Nat
  /\ step # "idle" => body \in Drafts /\ at \in 1..Len(body) /\ runs > 0

\* What a run holds, and every request it gave up on, replies to the record of the segment
\* before; records do not change, so that it still does when it lands.
RepliesTo(k, record) ==
  /\ record.text # NoRecord.text
  /\ k = 1 => record.parent = Nowhere /\ record.root = Nowhere
  /\ k > 1 => /\ Live(1) /\ Live(k - 1)
              /\ record.parent = Ref(k - 1, repo) /\ record.root = Ref(1, repo)

\* As long as nobody edits the draft, what was sent is the draft's.
AsDrafted(k, text) == k <= Len(draft) /\ text = draft[k]

Sound(k, record) == RepliesTo(k, record) /\ (~edited => AsDrafted(k, record.text))

SentInv ==
  /\ \A k \in Place : Live(k) => Sound(k, repo[k])
  /\ \A q \in late : Sound(q.key, q.record)

RunInv ==
  step # "idle" =>
    /\ at = 1 => root = Nowhere /\ parent = Nowhere
    /\ at > 1 => parent = Ref(at - 1, repo) /\ root = Ref(1, repo)
    /\ \A j \in 1..at - 1 : Live(j)
    /\ step = "session" => at = 1
    /\ ~edited => body = draft

RestInv ==
  /\ runs = 0 => late = {} /\ \A k \in Place : ~Live(k)
  /\ result = "ok" => step = "idle" /\ (~edited => \A k \in 1..Len(draft) : Live(k))

ThreadInv == ThreadTypes /\ SentInv /\ RunInv /\ RestInv
=============================================================================
