--------------------------- MODULE ManagedThread ---------------------------
(***************************************************************************)
(* A post to X through the managed providers (providers/treg.rs,           *)
(* providers/composio.rs): Treg sends a thread one segment at a time, each *)
(* under a key of its own and as a reply to the one before; Composio sends *)
(* the first segment, under no key the platform honours.  Which of the two *)
(* a run goes through is settled anew for every run (ProviderRegistry).    *)
(* Every call goes through the host's router (app-events), which can       *)
(* refuse it, lose it, or lose its answer.                                 *)
(*                                                                         *)
(* Gateway is external: a Treg call under a key it has already served is   *)
(* given the answer it gave before.  Composio's own keys are not honoured. *)
(***************************************************************************)
EXTENDS Naturals, Sequences, FiniteSets, SequencesExt

CONSTANTS Drafts,       \* bodies: sequences of segments [text, media]
          MaxLen,       \* the longest of them
          MaxAttempts,  \* attempts of a run
          MaxRuns       \* bound on the runs explored

Place == 1 .. MaxLen

VARIABLES
  draft,    \* the draft as it stands
  edited,   \* ghost: edited after a first run began
  posts,    \* the posts on X, oldest first; an id is a place in this sequence
  served,   \* Gateway's memory: the id it answered for each Treg key, 0 for none
  late,     \* calls given up on that may still be carried out
  via,      \* the provider of this run: "treg", "composio", "none"
  step,     \* "idle", "segment"
  body,     \* the segments of this run
  at,       \* the segment in hand
  parent,   \* local of publish: the id of the segment before, 0 for none
  tries, runs,
  result    \* "none", "ok", "err"

vars == <<draft, edited, posts, served, late, via, step, body, at, parent,
          tries, runs, result>>
run  == <<via, step, body, at, parent, tries>>

\* What Core and Gateway make of one call, and what the caller then has.
Refused == {"invalid",     \* over a bound, not sent at all
            "not-hosted",  \* no Core to send it to
            "rejected"}    \* Core or Gateway said no: not passed on
Answer == Refused \cup
          {"id",       \* carried out, answered with the post's id
           "no-id",    \* carried out, the answer holds no id
           "failed",   \* answered: the upstream call failed
           "lost"}     \* no answer: carried out, or not, or not yet

\* A faulty form: any answer from upstream is.
SucceededAnswered(answer) == answer \in {"id", "no-id", "failed"}

\* Only an answer with an id is a success.
Succeeded(answer) == answer = "id"

TregKey(i) == i

-----------------------------------------------------------------------------
Init ==
  /\ draft \in Drafts /\ edited = FALSE
  /\ posts = <<>> /\ served = [i \in Place |-> 0] /\ late = {}
  /\ via = "none" /\ step = "idle" /\ body = <<>> /\ at = 0 /\ parent = 0
  /\ tries = 0 /\ runs = 0 /\ result = "none"

\* A faulty form: an attempt takes up where the one before it failed.
BeginResumed(n) == /\ step' = "segment" /\ tries' = n /\ parent' = 0
                   /\ at' = IF at = 0 THEN 1 ELSE at

\* Every attempt begins at the first segment.
Begin(n) == step' = "segment" /\ tries' = n /\ at' = 1 /\ parent' = 0

\* The provider is chosen per run, on what each said it can do; Treg is not
\* chosen when the request, that is the first segment, carries media.
StartRun ==
  /\ step = "idle" /\ result # "ok" /\ runs < MaxRuns
  /\ via' \in {"composio", "none"} \cup IF draft[1].media THEN {} ELSE {"treg"}
  /\ runs' = runs + 1 /\ body' = draft /\ Begin(1)
  /\ UNCHANGED <<draft, edited, posts, served, late, result>>

Edit ==
  /\ result # "ok" /\ draft' \in Drafts \ {draft}
  /\ edited' = (edited \/ runs > 0)
  /\ UNCHANGED <<posts, served, late, run, runs, result>>

Fail == IF tries < MaxAttempts
        THEN Begin(tries + 1) /\ UNCHANGED <<via, body, result>>
        ELSE /\ step' = "idle" /\ result' = "err"
             /\ UNCHANGED <<via, body, at, parent, tries>>

Done == /\ step' = "idle" /\ result' = "ok"
        /\ UNCHANGED <<via, body, at, parent, tries>>

\* The call for the segment in hand.  Treg's carries no media.
Call == [via   |-> via,
         key   |-> TregKey(at),
         text  |-> body[at].text,
         media |-> via = "composio" /\ body[at].media,
         after |-> parent]

\* Carrying a call out puts a post on X, unless Gateway has served its key.
Repeats(c) == c.via = "treg" /\ served[c.key] # 0
Carry(c) ==
  IF Repeats(c) THEN UNCHANGED <<posts, served>>
  ELSE /\ posts' = Append(posts, c)
       /\ served' = IF c.via = "treg"
                    THEN [served EXCEPT ![c.key] = Len(posts) + 1] ELSE served

IdOf(c) == IF Repeats(c) THEN served[c.key] ELSE Len(posts) + 1

\* UnconfiguredProvider; or Treg's catalog, asked before every segment, has no
\* such endpoint or does not answer: nothing was sent.
NothingSent ==
  /\ step = "segment" /\ via \in {"none", "treg"} /\ Fail
  /\ UNCHANGED <<draft, edited, posts, served, late, runs>>

\* Treg goes on to the next segment, Composio is done with the first.
Advance(id) ==
  IF via = "treg" /\ at < Len(body)
  THEN at' = at + 1 /\ parent' = id /\ UNCHANGED <<via, step, body, tries, result>>
  ELSE Done

Send ==
  /\ step = "segment" /\ via # "none"
  /\ \E answer \in Answer :
       /\ IF Succeeded(answer) THEN Advance(IdOf(Call)) ELSE Fail
       /\ \/ answer \in {"id", "no-id", "lost"} /\ Carry(Call) /\ UNCHANGED late
          \/ answer \in Refused \cup {"failed", "lost"} /\ UNCHANGED <<posts, served, late>>
          \/ answer = "lost" /\ late' = late \cup {Call} /\ UNCHANGED <<posts, served>>
  /\ UNCHANGED <<draft, edited, runs>>

\* A call nobody waits for is carried out, or never.
LateArrival ==
  \E c \in late :
    /\ late' = late \ {c}
    /\ Carry(c) \/ UNCHANGED <<posts, served>>
    /\ UNCHANGED <<draft, edited, run, runs, result>>

Crash ==
  /\ step # "idle" /\ step' = "idle"
  /\ via' = "none" /\ body' = <<>> /\ at' = 0 /\ parent' = 0 /\ tries' = 0
  /\ UNCHANGED <<draft, edited, posts, served, late, runs, result>>

Next == StartRun \/ Edit \/ NothingSent \/ Send \/ LateArrival \/ Crash

Spec == Init /\ [][Next]_vars

-----------------------------------------------------------------------------
ByTreg == {i \in DOMAIN posts : posts[i].via = "treg"}

\* However many attempts and runs it took, Treg left one post per segment on X,
\* and each is a reply to the post of the segment before it (TregProvider::publish).
TregOnceInOrder ==
  \A i \in ByTreg :
     /\ \A j \in ByTreg : posts[j].key = posts[i].key => j = i
     /\ IF posts[i].key = 1 THEN posts[i].after = 0
        ELSE posts[i].after \in ByTreg /\ posts[posts[i].after].key = posts[i].key - 1

\* A success reported for a draft nobody edited meanwhile: through Treg every
\* segment is on X in its words, through Composio the first is, with its media.
OkWasSent ==
  result = "ok" /\ ~edited =>
    IF via = "treg"
    THEN \A k \in 1 .. Len(draft) : \E i \in ByTreg :
            posts[i].key = k /\ posts[i].text = draft[k].text
    ELSE \E i \in DOMAIN posts : posts[i].via = "composio"
            /\ posts[i].text = draft[1].text /\ posts[i].media = draft[1].media

\* What a retry, a fallback to the other gateway or an edit may not do to a thread
\* (TregProvider::publish, ComposioProvider::publish).
ThreadDelivered == TregOnceInOrder /\ OkWasSent

-----------------------------------------------------------------------------
(* Why that holds (ProviderProofs).                                        *)

Text == UNION {{d[i].text : i \in DOMAIN d} : d \in Drafts}

DraftsAssumption ==
  /\ MaxLen \in Nat
  /\ \A d \in Drafts : d \in Seq([text : Text, media : BOOLEAN]) /\ Len(d) \in 1..MaxLen

CallType == [via : {"treg", "composio"}, key : Place, text : Text, media : BOOLEAN, after : Nat]

ThreadTypes ==
  /\ draft \in Drafts /\ edited \in BOOLEAN
  /\ posts \in Seq(CallType) /\ served \in [Place -> Nat] /\ late \subseteq CallType
  /\ via \in {"treg", "composio", "none"} /\ parent \in Nat /\ runs \in Nat
  /\ step # "idle" => body \in Drafts /\ at \in 1..Len(body) /\ runs > 0

\* A segment is called for once the one before is served, and names its post.
Follows(key, after) == IF key = 1 THEN after = 0 ELSE served[key - 1] # 0 /\ after = served[key - 1]

\* As long as nobody edits the draft, what Treg is called for is the draft's.
AsDrafted(c) == c.via = "treg" => c.key <= Len(draft) /\ c.text = draft[c.key].text

Sound(c) == (c.via = "treg" => Follows(c.key, c.after)) /\ (~edited => AsDrafted(c))

\* Gateway's memory is the posts Treg made, one under each key; it forgets none, so that a
\* call which follows when it is made still does when it is carried out.
PostsInv ==
  /\ \A k \in Place : served[k] # 0 => served[k] \in ByTreg /\ posts[served[k]].key = k
  /\ \A i \in ByTreg : served[posts[i].key] = i
  /\ \A i \in DOMAIN posts : Sound(posts[i])
  /\ \A c \in late : Sound(c)

RunInv ==
  step # "idle" =>
    /\ IF via = "treg" THEN Follows(at, parent) /\ \A j \in 1..at - 1 : served[j] # 0
       ELSE at = 1
    /\ ~edited => body = draft

ByComposio(s) == \E i \in DOMAIN posts : /\ posts[i].via = "composio"
                                         /\ posts[i].text = s.text /\ posts[i].media = s.media
Delivered == IF via = "treg" THEN \A k \in 1..Len(draft) : served[k] # 0 ELSE ByComposio(draft[1])

RestInv ==
  /\ runs = 0 => late = {} /\ posts = <<>>
  /\ result = "ok" => step = "idle" /\ (~edited => Delivered)

ThreadInv == ThreadTypes /\ PostsInv /\ RunInv /\ RestInv
=============================================================================
