---------------------------- MODULE StagedUpload ----------------------------
(***************************************************************************)
(* One local video on its way to YouTube or TikTok (providers/composio.rs, *)
(* providers/staged_upload.rs): the file is measured and hashed, a slot is *)
(* asked for, the bytes are PUT to it, and one tool call has Composio pull *)
(* them and push them to the platform.  The file lies in a folder others   *)
(* write to.  Any step can fail, and the deadline of the whole publish may *)
(* cut any of them off; after the tool call was sent a failure does not    *)
(* tell whether the video is up.                                           *)
(*                                                                         *)
(* Composio, its storage and Gateway are external: the storage refuses     *)
(* bytes that do not have the digest the PUT declares, and Gateway answers *)
(* 4xx only to a call it did not pass on.                                  *)
(***************************************************************************)
EXTENDS Naturals, FiniteSets

CONSTANTS Contents,     \* what the file may hold: records [id, size]
          MaxSize,      \* MAX_STAGED_UPLOAD_BYTES
          MaxAttempts,  \* attempts of a run
          MaxRuns       \* bound on the runs explored

VARIABLES
  file,     \* the file as it is now
  step,     \* "idle", "measure", "read", "slot", "put", "execute"
  upload,   \* the size measured, and the content whose digest was taken
  stored,   \* what the storage holds for this attempt
  late,     \* videos whose tool call was given up on and may still be pushed
  videos,   \* videos on the platform
  tries, runs,
  result    \* "none", "ok", "err": what the last run reported

vars == <<file, step, upload, stored, late, videos, tries, runs, result>>

NoContent == [id |-> "none", size |-> 0]

Init ==
  /\ file \in Contents /\ step = "idle"
  /\ upload = NoContent /\ stored = NoContent
  /\ late = {} /\ videos = {}
  /\ tries = 0 /\ runs = 0 /\ result = "none"

\* Somebody writes the file, between any two steps.
Rewrite == /\ file' \in Contents \ {file}
           /\ UNCHANGED <<step, upload, stored, late, videos, tries, runs, result>>

Begin(n) == /\ step' = "measure" /\ tries' = n
            /\ upload' = NoContent /\ stored' = NoContent

StartRun == /\ step = "idle" /\ result # "ok" /\ runs < MaxRuns
            /\ runs' = runs + 1 /\ Begin(1)
            /\ UNCHANGED <<file, late, videos, result>>

Settle(r) == step' = "idle" /\ result' = r /\ UNCHANGED <<upload, stored, tries>>

\* PublishResult::err and ::final_err, as the attempt loop takes them.
Fail(retryable) == IF retryable /\ tries < MaxAttempts
                   THEN Begin(tries + 1) /\ UNCHANGED result
                   ELSE Settle("err")

World == UNCHANGED <<file, late, videos, runs>>

-----------------------------------------------------------------------------
\* inspect_local_media: an empty, over-long or unreadable file is refused.
Measure ==
  /\ step = "measure" /\ World
  /\ \/ /\ file.size \in 1 .. MaxSize
        /\ upload' = [NoContent EXCEPT !.size = file.size] /\ step' = "read"
        /\ UNCHANGED <<stored, tries, result>>
     \/ Fail(TRUE)

\* The measured number of bytes is read and hashed; fewer is a failure.  A file
\* written meanwhile may give the digest of no content it ever had.
ReadAndHash ==
  /\ step = "read" /\ World
  /\ \/ /\ file.size >= upload.size
        /\ upload' = [upload EXCEPT !.id = IF file.size = upload.size THEN file.id ELSE "mixed"]
        /\ step' = "slot" /\ UNCHANGED <<stored, tries, result>>
     \/ Fail(TRUE)

\* The slot request goes through the router: any refusal, loss or answer without
\* a slot may be tried again, nothing was sent.
AskSlot ==
  /\ step = "slot" /\ World
  /\ \/ step' = "put" /\ UNCHANGED <<upload, stored, tries, result>>
     \/ Fail(TRUE)

\* A faulty form: a PUT that declares no digest.
StorageKeepsAnything(sent, digest) == TRUE

\* The PUT declares the digest, and the storage keeps nothing else under it.
StorageKeeps(sent, digest) == sent = digest

Put ==
  /\ step = "put" /\ World
  /\ \/ /\ file.size = upload.size /\ StorageKeeps(file, upload)
        /\ stored' = file /\ step' = "execute"
        /\ UNCHANGED <<upload, tries, result>>
     \/ Fail(TRUE)      \* the size changed, the bytes did, or the PUT was refused
     \/ Fail(FALSE)     \* it timed out

-----------------------------------------------------------------------------
(* The tool call. *)

Failure == {"NotHosted", "Invalid", "Rejected4xx", "Rejected5xx", "Transport",
            "answered-error", "answered-no-id"}

\* A faulty form: a connection that broke is taken for a refusal.
RefusedOrBroken(failure) == failure \in {"NotHosted", "Invalid", "Rejected4xx", "Transport"}

\* The failures that prove the call never reached Composio.
RefusedBeforeDispatch(failure) == failure \in {"NotHosted", "Invalid", "Rejected4xx"}

Video == [run |-> runs, try |-> tries, holds |-> stored, declared |-> upload]

Push(v) == videos' = videos \cup {v}

\* A failure after the call was passed on: pushed, not pushed, or not yet.
OutcomeUnknown(v) == \/ Push(v) /\ UNCHANGED late
                     \/ late' = late \cup {v} /\ UNCHANGED videos
                     \/ UNCHANGED <<videos, late>>

Execute ==
  /\ step = "execute" /\ UNCHANGED <<file, runs>>
  /\ \/ Push(Video) /\ UNCHANGED late /\ Settle("ok")
     \/ \E failure \in Failure :
          /\ Fail(RefusedBeforeDispatch(failure))
          /\ IF failure \in {"NotHosted", "Invalid", "Rejected4xx"}
             THEN UNCHANGED <<videos, late>>
             ELSE OutcomeUnknown(Video)

\* A faulty form: the deadline of an ordinary call.
RetryAnyTimeout == TRUE

\* publish_deadline: an upload cut off at any step is not tried again.
RetryAfterTimeout == FALSE

DeadlineElapses ==
  /\ step # "idle" /\ UNCHANGED <<file, runs>>
  /\ Fail(RetryAfterTimeout)
  /\ IF step = "execute" THEN OutcomeUnknown(Video) ELSE UNCHANGED <<videos, late>>

LateArrival ==
  \E v \in late :
    /\ late' = late \ {v}
    /\ Push(v) \/ UNCHANGED videos
    /\ UNCHANGED <<file, step, upload, stored, tries, runs, result>>

\* The process dies with the call out; the leg is reaped, and run again.
Crash ==
  /\ step # "idle" /\ step' = "idle" /\ tries' = 0
  /\ upload' = NoContent /\ stored' = NoContent
  /\ IF step = "execute" THEN OutcomeUnknown(Video) ELSE UNCHANGED <<videos, late>>
  /\ UNCHANGED <<file, runs, result>>

Next == \/ Rewrite \/ StartRun \/ Measure \/ ReadAndHash \/ AskSlot \/ Put
        \/ Execute \/ DeadlineElapses \/ LateArrival \/ Crash

Spec == Init /\ [][Next]_vars

-----------------------------------------------------------------------------
\* One run never publishes the video twice, whatever failed in it and whenever
\* the call it gave up on is carried out (publish_uploaded_video).
OncePerRun ==
  \A v, w \in videos \cup late : v.run = w.run => v = w

\* What is published is what was hashed and declared to the broker, and is a
\* content the file had as a whole, however it was rewritten meanwhile.
PublishedAsHashed ==
  \A v \in videos \cup late : v.holds = v.declared /\ v.holds \in Contents

\* Whatever fails in a run, and whatever is done to the file meanwhile
\* (publish_uploaded_video).
OnceAsHashed == OncePerRun /\ PublishedAsHashed

-----------------------------------------------------------------------------
\* Why that holds (ProviderProofs): a run whose call may have reached Composio is over.
RunsOver ==
  /\ runs \in Nat
  /\ \A v \in videos \cup late : v.run \in 0..runs
  /\ step # "idle" => \A v \in videos \cup late : v.run # runs

HashedAsStored ==
  /\ file \in Contents
  /\ step = "execute" => stored = upload /\ stored \in Contents

UploadInv == RunsOver /\ HashedAsStored /\ OnceAsHashed
=============================================================================
