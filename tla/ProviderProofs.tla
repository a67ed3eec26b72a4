--------------------------- MODULE ProviderProofs ---------------------------
(***************************************************************************)
(* Proofs about what lies between the publish runner and the world: the    *)
(* access of AgentGrant, the threads of BlueskyThread and ManagedThread,   *)
(* the video of StagedUpload, the cached answers of ProviderRegistry and   *)
(* the body of ModelStream.  They are the parts of ProvidersSpec, which keeps the specifications of  *)
(* all of them; the theorems on AgentGrant are about its own.              *)
(***************************************************************************)
EXTENDS ProviderParts, SequenceTheorems, WellFoundedInduction, TLAPS

\* A behaviour of the composition is one of the upload, one of the registry and one of the
\* stream, which mostly stutter; and one of each thread when that is the part it runs.
LEMMA ProvidersAreTheirParts == ProvidersSpec => Upload!Spec /\ Registry!Spec /\ Stream!Spec
<1>1. ProvidersInit => Upload!Init /\ Registry!Init /\ Stream!Init
  BY DEF ProvidersInit
<1>2. [ProvidersNext]_PartVars => [Upload!Next]_Upload!vars
  BY DEF ProvidersNext, PartVars, UploadVars, Upload!vars
<1>3. [ProvidersNext]_PartVars => [Registry!Next]_Registry!vars
  BY DEF ProvidersNext, PartVars, RegistryVars, Registry!vars
<1>4. [ProvidersNext]_PartVars => [Stream!Next]_Stream!vars
  BY DEF ProvidersNext, PartVars, StreamVars, Stream!vars
<1> QED
  BY <1>1, <1>2, <1>3, <1>4, PTL DEF ProvidersSpec, Upload!Spec, Registry!Spec, Stream!Spec

LEMMA ThreadsAreTheirParts ==
  ASSUME [ProvidersNext]_PartVars
  PROVE  /\ which' = which
         /\ which = "bluesky" => [Bluesky!Next]_Bluesky!vars
         /\ which = "managed" => [Managed!Next]_Managed!vars
BY DEF ProvidersNext, PartVars, ThreadVars, BlueskyVars, ManagedVars, Bluesky!vars, Managed!vars

-----------------------------------------------------------------------------
(* ProviderRegistry.                                                       *)

LEMMA RecencyInit ==
  ASSUME Registry!RegistryAssumption, Registry!Init
  PROVE  Registry!RecencyInv
<1> USE DEF Registry!RegistryAssumption, Registry!Init, Registry!Quiet, Registry!Nothing
<1>1. <<>> \in Seq(Provider)
  OBVIOUS
<1>2. call \in [Reader -> Registry!Lookup]
  BY <1>1 DEF Registry!Lookup
<1>3. \A r \in Reader : Registry!Timely(call[r], clock)
  <2> SUFFICES ASSUME NEW r \in Reader PROVE Registry!Timely(call[r], clock)
    OBVIOUS
  <2>1. call[r] \in Registry!Lookup
    BY <1>2
  <2>2. ~call[r].stale /\ call[r].began = 0 /\ call[r].pc = "idle" /\ clock = 0
    OBVIOUS
  <2> QED
    BY <2>1, <2>2 DEF Registry!Timely
<1> QED
  BY <1>2, <1>3 DEF Registry!RecencyInv

\* A lookup that goes by an answer given after it began, or not long before, is not stale.
LEMMA JudgedIsTimely ==
  ASSUME Registry!RegistryAssumption, NEW now \in Nat,
         NEW c, Registry!Timely(c, now), c.left # <<>>,
         NEW given, Registry!Sound(given), given.given + TTL > c.began
  PROVE  Registry!Timely(Registry!Judged(c, given), now)
<1> USE DEF Registry!Timely, Registry!Sound
<1>1. Head(c.left) \in Provider /\ Tail(c.left) \in Seq(Provider)
  BY HeadTailProperties DEF Registry!Lookup
<1>2. <<>> \in Seq(Provider)
  OBVIOUS
<1>3. c.began \in Nat /\ ~(c.stale \/ given.given + TTL <= c.began)
  BY DEF Registry!Lookup, Registry!RegistryAssumption
<1> DEFINE old == c.stale \/ given.given + TTL <= c.began
           found == [Registry!Quiet(Head(c.left)) EXCEPT !.stale = old]
           next == [c EXCEPT !.pc = "look", !.left = Tail(@), !.stale = old,
                             !.asked = 0, !.answer = Registry!Nothing]
<1>4. old = FALSE
  BY <1>3
<1>5. Registry!Judged(c, given) \in {found, next}
  BY DEF Registry!Judged
<1> HIDE DEF old
<1>6. found \in Registry!Lookup /\ ~found.stale /\ found.began = 0 /\ found.pc = "idle"
  BY <1>1, <1>2, <1>4 DEF Registry!Lookup, Registry!Quiet, Registry!Nothing
<1>7. next \in Registry!Lookup /\ ~next.stale /\ next.began = c.began /\ next.pc = "look"
  BY <1>1, <1>3, <1>4 DEF Registry!Lookup, Registry!Nothing
<1> HIDE DEF found, next
<1> QED
  BY <1>5, <1>6, <1>7

LEMMA RecencyNext ==
  ASSUME Registry!RegistryAssumption, Registry!RecencyInv, [Registry!Next]_Registry!vars
  PROVE  Registry!RecencyInv'
<1> USE DEF Registry!RecencyInv
<1> DEFINE Inv == Registry!RecencyInv
\* A step of one lookup that leaves the cache and the clock.
<1>1. ASSUME NEW r \in Reader, NEW c, Registry!Timely(c, clock),
             call' = [call EXCEPT ![r] = c], UNCHANGED <<clock, cache>>
      PROVE  Inv'
  BY <1>1 DEF Registry!Timely, Registry!Sound
<1>2. CASE Registry!Tick
  <2>1. clock' = clock + 1 /\ cache' = cache /\ call' = call
    BY <1>2 DEF Registry!Tick
  <2>2. \A r \in Reader : Registry!Timely(call[r], clock + 1)
    BY DEF Registry!Timely, Registry!Lookup
  <2> QED
    BY <2>1, <2>2 DEF Registry!Sound
<1>3. ASSUME NEW r \in Reader, Registry!Start(r) PROVE Inv'
  <2>1. PICK order \in Orders, kind \in {"text", "media", "all"} :
          call' = [call EXCEPT ![r] = [Registry!Quiet(Fallback) EXCEPT
                     !.pc = "look", !.left = order, !.mode = kind, !.began = clock]]
    BY <1>3 DEF Registry!Start
  <2> DEFINE c == [Registry!Quiet(Fallback) EXCEPT
                     !.pc = "look", !.left = order, !.mode = kind, !.began = clock]
  <2>2. order \in Seq(Provider)
    BY DEF Registry!RegistryAssumption
  <2>3. c \in Registry!Lookup /\ ~c.stale /\ c.began = clock /\ c.pc = "look"
    BY <2>2 DEF Registry!Lookup, Registry!Quiet, Registry!Nothing
  <2>4. call' = [call EXCEPT ![r] = c] /\ UNCHANGED <<clock, cache>>
    BY <1>3, <2>1 DEF Registry!Start
  <2> HIDE DEF c
  <2>5. Registry!Timely(c, clock)
    BY <2>3 DEF Registry!Timely
  <2> QED
    BY <1>1, <2>4, <2>5
<1>4. ASSUME NEW r \in Reader, Registry!Look(r) PROVE Inv'
  <2> DEFINE c == call[r]
             p == Head(c.left)
  <2>1. /\ Registry!Timely(c, clock) /\ c.pc = "look" /\ c.left \in Seq(Provider)
        /\ c.began \in Nat /\ UNCHANGED <<clock, cache>>
    BY <1>4 DEF Registry!Look, Registry!Timely, Registry!Lookup
  <2>2. CASE c.left = <<>>
    <3> DEFINE d == [Registry!Quiet(Fallback) EXCEPT !.stale = c.stale]
    <3>1. call' = [call EXCEPT ![r] = d]
      BY <1>4, <2>2 DEF Registry!Look
    <3>2. <<>> \in Seq(Provider)
      OBVIOUS
    <3>3. d \in Registry!Lookup /\ ~d.stale /\ d.began = 0 /\ d.pc = "idle"
      BY <2>1, <3>2 DEF Registry!Timely, Registry!Lookup, Registry!Quiet, Registry!Nothing
    <3> HIDE DEF d
    <3>4. Registry!Timely(d, clock)
      BY <3>3 DEF Registry!Timely
    <3> QED
      BY <1>1, <2>1, <3>1, <3>4
  <2>3. CASE c.left # <<>> /\ Registry!Skips(c)
    <3> DEFINE d == [c EXCEPT !.left = Tail(@)]
    <3>1. call' = [call EXCEPT ![r] = d]
      BY <1>4, <2>3 DEF Registry!Look
    <3>2. Tail(c.left) \in Seq(Provider)
      BY <2>1, <2>3, HeadTailProperties
    <3>3. Registry!Timely(d, clock)
      BY <2>1, <3>2 DEF Registry!Timely, Registry!Lookup
    <3> HIDE DEF d
    <3> QED
      BY <1>1, <2>1, <3>1, <3>3
  <2>4. CASE c.left # <<>> /\ ~Registry!Skips(c) /\ Registry!Fresh(p, clock)
    <3>1. call' = [call EXCEPT ![r] = Registry!Judged(c, cache[p])]
      BY <1>4, <2>4 DEF Registry!Look
    <3>2. Registry!Sound(cache[p]) /\ clock - cache[p].stamp < TTL
      BY <2>4 DEF Registry!Fresh
    <3>3. cache[p].given + TTL > c.began
      BY <2>1, <3>2 DEF Registry!Sound, Registry!Timely, Registry!RegistryAssumption
    <3>4. Registry!Timely(Registry!Judged(c, cache[p]), clock)
      BY <2>1, <2>4, <3>2, <3>3, JudgedIsTimely
    <3> QED
      BY <1>1, <2>1, <3>1, <3>4
  <2>5. CASE c.left # <<>> /\ ~Registry!Skips(c) /\ ~Registry!Fresh(p, clock)
    <3> DEFINE d == [c EXCEPT !.pc = "ask", !.asked = clock]
    <3>1. call' = [call EXCEPT ![r] = d]
      BY <1>4, <2>5 DEF Registry!Look
    <3>2. /\ d \in Registry!Lookup /\ ~d.stale /\ d.began = c.began /\ d.pc = "ask"
          /\ d.left # <<>> /\ d.asked = clock
      BY <2>1, <2>5 DEF Registry!Timely, Registry!Lookup
    <3> HIDE DEF d
    <3>3. Registry!Timely(d, clock)
      BY <2>1, <3>2 DEF Registry!Timely
    <3> QED
      BY <1>1, <2>1, <3>1, <3>3
  <2> QED
    BY <2>2, <2>3, <2>4, <2>5
<1>5. ASSUME NEW r \in Reader, Registry!Ask(r) PROVE Inv'
  <2> DEFINE c == call[r]
  <2>1. PICK v \in BOOLEAN :
          call' = [call EXCEPT ![r].pc = "store",
                               ![r].answer = [value |-> v, stamp |-> 0, given |-> clock]]
    BY <1>5 DEF Registry!Ask, Registry!Answers
  <2> DEFINE d == [c EXCEPT !.pc = "store", !.answer = [value |-> v, stamp |-> 0, given |-> clock]]
  <2>2. call' = [call EXCEPT ![r] = d]
    BY <2>1
  <2>3. /\ Registry!Timely(c, clock) /\ c.pc = "ask" /\ c.began \in Nat /\ c.asked \in Nat
        /\ UNCHANGED <<clock, cache>>
    BY <1>5 DEF Registry!Ask, Registry!Timely, Registry!Lookup
  <2>4. /\ d \in Registry!Lookup /\ ~d.stale /\ d.began = c.began /\ d.pc = "store"
        /\ d.left = c.left /\ d.asked = c.asked /\ d.answer.given = clock
    BY <2>3 DEF Registry!Timely, Registry!Lookup
  <2> HIDE DEF d
  <2>5. Registry!Timely(d, clock)
    BY <2>3, <2>4 DEF Registry!Timely
  <2> QED
    BY <1>1, <2>2, <2>3, <2>5
<1>6. ASSUME NEW r \in Reader, Registry!Store(r) PROVE Inv'
  <2> DEFINE c == call[r]
             entry == [c.answer EXCEPT !.stamp = Registry!Stamp(c)]
             d == Registry!Judged(c, entry)
  <2>1. Registry!Timely(c, clock) /\ c.pc = "store" /\ c.left # <<>>
    BY <1>6 DEF Registry!Store, Registry!Timely
  <2>2a. /\ c.began \in Nat /\ c.asked \in Nat /\ c.began <= c.asked
        /\ c.answer \in [value : BOOLEAN, stamp : Nat, given : Nat] /\ c.asked <= c.answer.given
    BY <2>1 DEF Registry!Timely, Registry!Lookup
  <2>2b. /\ entry \in [value : BOOLEAN, stamp : Nat, given : Nat]
        /\ entry.stamp = c.asked /\ entry.given = c.answer.given
    BY <2>2a DEF Registry!Stamp
  <2>2. Registry!Sound(entry) /\ entry.given + TTL > c.began
    BY <2>2a, <2>2b DEF Registry!Sound, Registry!RegistryAssumption
  <2>3. Registry!Timely(d, clock)
    BY <2>1, <2>2, JudgedIsTimely
  <2>4. /\ call' = [call EXCEPT ![r] = d] /\ clock' = clock
        /\ cache' = [p \in DOMAIN cache \cup {Head(c.left)} |->
                       IF p = Head(c.left) THEN entry ELSE cache[p]]
    BY <1>6 DEF Registry!Store
  <2> HIDE DEF d, entry
  <2>5. \A p \in DOMAIN cache' : Registry!Sound(cache'[p])
    BY <2>2, <2>4
  <2> QED
    BY <2>3, <2>4, <2>5 DEF Registry!Timely, Registry!Sound
<1>7. CASE UNCHANGED Registry!vars
  BY <1>7 DEF Registry!vars, Registry!Timely, Registry!Sound
<1> QED
  BY <1>2, <1>3, <1>4, <1>5, <1>6, <1>7 DEF Registry!Next

\* No lookup goes by an answer that was older than the cache's time to live when the lookup
\* began, for any number of lookups and providers and any lists of candidates
\* (capabilities_via).
THEOREM RegistryRecent ==
  ASSUME Registry!RegistryAssumption
  PROVE  ProvidersSpec => []AnswersAreRecent
<1>1. Registry!Init => Registry!RecencyInv
  BY RecencyInit
<1>2. Registry!RecencyInv /\ [Registry!Next]_Registry!vars => Registry!RecencyInv'
  BY RecencyNext
<1>3. Registry!RecencyInv => AnswersAreRecent
  BY DEF AnswersAreRecent, Registry!RecencyInv, Registry!Timely, Registry!AnswersAreRecent
<1> QED
  BY <1>1, <1>2, <1>3, ProvidersAreTheirParts, PTL DEF Registry!Spec

-----------------------------------------------------------------------------
(* StagedUpload.                                                           *)

\* A step that adds no video, and either ends the run, or goes on with it.
LEMMA NoVideoStep ==
  ASSUME Upload!UploadInv, UNCHANGED <<cut, videos, uruns>>, file' \in Contents,
         ustep' \in {"idle", ustep} \/ ustep # "idle",
         ustep' = "execute" => stored' = upload' /\ stored' \in Contents
  PROVE  Upload!UploadInv'
BY DEF Upload!UploadInv, Upload!RunsOver, Upload!HashedAsStored,
       Upload!OnceAsHashed, Upload!OncePerRun, Upload!PublishedAsHashed

\* The video of the call that is out joins those there may be, and the run is over.
LEMMA VideoStep ==
  ASSUME Upload!UploadInv, ustep = "execute", ustep' = "idle", UNCHANGED <<file, uruns>>,
         videos' \cup cut' \subseteq videos \cup cut \cup {Upload!Video}
  PROVE  Upload!UploadInv'
<1> DEFINE V == videos \cup cut
           v == Upload!Video
<1> USE DEF Upload!UploadInv
<1>1. v.run = uruns /\ v.holds = v.declared /\ v.holds \in Contents
  BY DEF Upload!HashedAsStored, Upload!Video
<1>2. /\ uruns \in Nat
      /\ \A w \in V : w.run \in 0..uruns /\ w.run # uruns
  BY DEF Upload!RunsOver
<1> HIDE DEF v
<1>3. Upload!RunsOver' /\ Upload!HashedAsStored'
  BY <1>1, <1>2 DEF Upload!RunsOver, Upload!HashedAsStored, v
<1>4. Upload!OncePerRun'
  <2> SUFFICES ASSUME NEW x \in V \cup {v}, NEW y \in V \cup {v}, x.run = y.run
               PROVE  x = y
    BY DEF Upload!OncePerRun, v
  <2> QED
    BY <1>1, <1>2 DEF Upload!OnceAsHashed, Upload!OncePerRun
<1>5. Upload!PublishedAsHashed'
  BY <1>1 DEF Upload!OnceAsHashed, Upload!PublishedAsHashed, v
<1> QED
  BY <1>3, <1>4, <1>5 DEF Upload!OnceAsHashed

\* A failure begins the next attempt or ends the run.
LEMMA FailGoesOn ==
  ASSUME NEW retryable \in BOOLEAN, Upload!Fail(retryable)
  PROVE  ustep' \in {"measure", "idle"} /\ (~retryable => ustep' = "idle")
BY DEF Upload!Fail, Upload!Begin, Upload!Settle

LEMMA UploadNext ==
  ASSUME Upload!UploadInv, [Upload!Next]_Upload!vars
  PROVE  Upload!UploadInv'
<1>f. file \in Contents
  BY DEF Upload!UploadInv, Upload!HashedAsStored
<1>1. CASE Upload!Rewrite
  BY <1>1, NoVideoStep DEF Upload!Rewrite, Upload!UploadInv, Upload!HashedAsStored
<1>2. CASE Upload!StartRun
  <2>1. uruns' = uruns + 1 /\ ustep' = "measure" /\ UNCHANGED <<file, cut, videos>>
    BY <1>2 DEF Upload!StartRun, Upload!Begin
  <2> QED
    BY <2>1 DEF Upload!UploadInv, Upload!RunsOver, Upload!HashedAsStored,
                Upload!OnceAsHashed, Upload!OncePerRun, Upload!PublishedAsHashed
<1>3. CASE Upload!Measure \/ Upload!ReadAndHash \/ Upload!AskSlot
  <2>1. ustep # "idle" /\ ustep' # "execute" /\ UNCHANGED <<file, cut, videos, uruns>>
    BY <1>3, FailGoesOn DEF Upload!Measure, Upload!ReadAndHash, Upload!AskSlot, Upload!World
  <2> QED
    BY <1>f, <2>1, NoVideoStep
<1>4. CASE Upload!Put
  <2>1. ustep = "put" /\ UNCHANGED <<file, cut, videos, uruns>>
    BY <1>4 DEF Upload!Put, Upload!World
  <2>2. ustep' = "execute" => stored' = upload' /\ stored' \in Contents
    BY <1>4, <1>f, FailGoesOn DEF Upload!Put, Upload!StorageKeeps
  <2> QED
    BY <1>f, <2>1, <2>2, NoVideoStep
<1>5. CASE Upload!Execute
  <2>1. ustep = "execute" /\ UNCHANGED <<file, uruns>>
    BY <1>5 DEF Upload!Execute
  <2>2. CASE Upload!Push(Upload!Video) /\ UNCHANGED cut /\ Upload!Settle("ok")
    BY <2>1, <2>2, VideoStep DEF Upload!Push, Upload!Settle
  <2>3. ASSUME NEW failure \in Upload!Failure,
               Upload!Fail(Upload!RefusedBeforeDispatch(failure)),
               IF failure \in {"NotHosted", "Invalid", "Rejected4xx"}
                 THEN UNCHANGED <<videos, cut>> ELSE Upload!OutcomeUnknown(Upload!Video)
        PROVE  Upload!UploadInv'
    <3>1. CASE Upload!RefusedBeforeDispatch(failure)
      <4>1. UNCHANGED <<videos, cut>> /\ ustep' # "execute"
        BY <2>3, <3>1, FailGoesOn DEF Upload!RefusedBeforeDispatch
      <4> QED
        BY <1>f, <2>1, <4>1, NoVideoStep
    <3>2. CASE ~Upload!RefusedBeforeDispatch(failure)
      <4>1. ustep' = "idle"
        BY <2>3, <3>2 DEF Upload!Fail, Upload!Settle
      <4>2. videos' \cup cut' \subseteq videos \cup cut \cup {Upload!Video}
        BY <2>3, <3>2 DEF Upload!RefusedBeforeDispatch, Upload!OutcomeUnknown, Upload!Push
      <4> QED
        BY <2>1, <4>1, <4>2, VideoStep
    <3> QED
      BY <3>1, <3>2
  <2> QED
    BY <1>5, <2>2, <2>3 DEF Upload!Execute
<1>6. CASE Upload!DeadlineElapses \/ Upload!Crash
  <2>1. ustep # "idle" /\ ustep' = "idle" /\ UNCHANGED <<file, uruns>>
    BY <1>6, FailGoesOn DEF Upload!DeadlineElapses, Upload!RetryAfterTimeout, Upload!Crash
  <2>2. CASE ustep = "execute"
    <3>1. videos' \cup cut' \subseteq videos \cup cut \cup {Upload!Video}
      BY <1>6, <2>2 DEF Upload!DeadlineElapses, Upload!Crash, Upload!OutcomeUnknown, Upload!Push
    <3> QED
      BY <2>1, <2>2, <3>1, VideoStep
  <2>3. CASE ustep # "execute"
    <3>1. UNCHANGED <<videos, cut>>
      BY <1>6, <2>3 DEF Upload!DeadlineElapses, Upload!Crash
    <3> QED
      BY <1>f, <2>1, <3>1, NoVideoStep
  <2> QED
    BY <2>2, <2>3
<1>7. CASE Upload!LateArrival
  <2>1. videos' \cup cut' \subseteq videos \cup cut /\ UNCHANGED <<file, ustep, upload, stored, uruns>>
    BY <1>7 DEF Upload!LateArrival, Upload!Push
  <2> QED
    BY <2>1 DEF Upload!UploadInv, Upload!RunsOver, Upload!HashedAsStored,
                Upload!OnceAsHashed, Upload!OncePerRun, Upload!PublishedAsHashed
<1>8. CASE UNCHANGED Upload!vars
  BY <1>8 DEF Upload!vars, Upload!UploadInv, Upload!RunsOver, Upload!HashedAsStored,
              Upload!OnceAsHashed, Upload!OncePerRun, Upload!PublishedAsHashed
<1> QED
  BY <1>1, <1>2, <1>3, <1>4, <1>5, <1>6, <1>7, <1>8 DEF Upload!Next

\* A run publishes its video at most once, and what it publishes is a content the file had
\* as a whole and the digest it declared, for all contents and any number of runs and
\* attempts (publish_uploaded_video).
THEOREM UploadOnceAsHashed == ProvidersSpec => []OnceAsHashed
<1>1. Upload!Init => Upload!UploadInv
  BY DEF Upload!Init, Upload!UploadInv, Upload!RunsOver, Upload!HashedAsStored,
         Upload!OnceAsHashed, Upload!OncePerRun, Upload!PublishedAsHashed
<1>2. Upload!UploadInv /\ [Upload!Next]_Upload!vars => Upload!UploadInv'
  BY UploadNext
<1>3. Upload!UploadInv => OnceAsHashed
  BY DEF OnceAsHashed, Upload!UploadInv
<1> QED
  BY <1>1, <1>2, <1>3, ProvidersAreTheirParts, PTL DEF Upload!Spec

-----------------------------------------------------------------------------
(* BlueskyThread.                                                          *)

LEMMA DraftType ==
  ASSUME Bluesky!DraftsAssumption, NEW d \in Drafts
  PROVE  /\ d \in Seq(Bluesky!Text) /\ Len(d) \in Nat /\ 1 <= Len(d) /\ Len(d) <= MaxLen
         /\ \A i \in 1..Len(d) : d[i] \in Bluesky!Text /\ d[i] # "none" /\ i \in Bluesky!Place
BY ElementOfSeq DEF Bluesky!DraftsAssumption, Bluesky!Place, Bluesky!NoRecord

LEMMA NowhereType ==
  /\ Bluesky!Nowhere \in Bluesky!Strong
  /\ Bluesky!NoRecord \in Bluesky!Record
<1>1. "none" \in Bluesky!Text
  BY DEF Bluesky!Text, Bluesky!NoRecord
<1>2. Bluesky!Nowhere \in Bluesky!Strong
  BY <1>1 DEF Bluesky!Nowhere, Bluesky!Strong
<1> QED
  BY <1>1, <1>2 DEF Bluesky!NoRecord, Bluesky!Record

\* The request for the segment in hand replies to the one before, in the draft's words.
LEMMA RequestIsSound ==
  ASSUME Bluesky!DraftsAssumption, Bluesky!ThreadInv, step # "idle"
  PROVE  /\ Bluesky!Request \in [key : Bluesky!Place, record : Bluesky!Record]
         /\ Bluesky!Request.key = at /\ at \in Bluesky!Place
         /\ Bluesky!Sound(at, Bluesky!Request.record)
<1>1. /\ body \in Drafts /\ at \in 1..Len(body) /\ root \in Bluesky!Strong /\ parent \in Bluesky!Strong
      /\ draft \in Drafts
  BY DEF Bluesky!ThreadInv, Bluesky!ThreadTypes
<1>2. body[at] \in Bluesky!Text /\ body[at] # "none" /\ at \in Bluesky!Place /\ at \in Nat
  BY <1>1, DraftType
<1>3. Bluesky!Request = [key |-> at, record |-> [text |-> body[at], root |-> root, parent |-> parent]]
  BY DEF Bluesky!Request, Bluesky!SegmentKey
<1>4. Bluesky!Request \in [key : Bluesky!Place, record : Bluesky!Record]
  BY <1>1, <1>2, <1>3 DEF Bluesky!Record
<1>5. Bluesky!RepliesTo(at, Bluesky!Request.record)
  <2>1. at > 1 => 1 \in 1..at - 1 /\ at - 1 \in 1..at - 1
    BY <1>2
  <2> QED
    BY <1>1, <1>2, <1>3, <2>1 DEF Bluesky!RepliesTo, Bluesky!ThreadInv, Bluesky!RunInv, Bluesky!NoRecord
<1>6. ~edited => Bluesky!AsDrafted(at, Bluesky!Request.record.text)
  BY <1>1, <1>3 DEF Bluesky!AsDrafted, Bluesky!ThreadInv, Bluesky!RunInv
<1> QED
  BY <1>2, <1>3, <1>4, <1>5, <1>6 DEF Bluesky!Sound

\* The repository takes a sound request under a key that is free, or nothing; it never
\* changes a record.
Grows ==
  \/ UNCHANGED repo
  \/ \E q \in [key : Bluesky!Place, record : Bluesky!Record] :
       /\ Bluesky!Sound(q.key, q.record) /\ ~Bluesky!Live(q.key)
       /\ repo' = [repo EXCEPT ![q.key] = q.record]

Extends ==
  /\ repo' \in [Bluesky!Place -> Bluesky!Record]
  /\ \A k \in Bluesky!Place : Bluesky!Live(k) => repo'[k] = repo[k]

LEMMA GrowsExtends ==
  ASSUME Bluesky!ThreadTypes, Grows
  PROVE  Extends
BY DEF Grows, Extends, Bluesky!ThreadTypes

\* What replied to a record of the repository still does.
LEMMA SoundStays ==
  ASSUME MaxLen \in Nat, Extends, UNCHANGED <<draft, edited>>,
         NEW k \in Bluesky!Place, NEW record, Bluesky!Sound(k, record)
  PROVE  /\ Bluesky!RepliesTo(k, record)'
         /\ ~edited' => Bluesky!AsDrafted(k, record.text)'
<1>1. k > 1 => 1 \in Bluesky!Place /\ k - 1 \in Bluesky!Place
  BY DEF Bluesky!Place
<1> QED
  BY <1>1 DEF Extends, Bluesky!Sound, Bluesky!RepliesTo, Bluesky!AsDrafted, Bluesky!Live, Bluesky!Ref

LEMMA SentStep ==
  ASSUME Bluesky!DraftsAssumption, Bluesky!ThreadInv, Grows, UNCHANGED <<draft, edited>>,
         \A q \in late' : q \in [key : Bluesky!Place, record : Bluesky!Record] /\ Bluesky!Sound(q.key, q.record)
  PROVE  Bluesky!SentInv'
<1> USE DEF Bluesky!ThreadInv
<1>0. MaxLen \in Nat
  BY DEF Bluesky!DraftsAssumption
<1>1. Extends
  BY GrowsExtends
<1>2. ASSUME NEW k \in Bluesky!Place, Bluesky!Live(k)'
      PROVE  Bluesky!Sound(k, repo[k])'
  <2>1. Bluesky!Sound(k, repo'[k])
    <3>1. CASE repo'[k] = repo[k]
      BY <1>2, <3>1 DEF Bluesky!Live, Bluesky!SentInv
    <3>2. CASE repo'[k] # repo[k]
      <4>1. PICK q \in [key : Bluesky!Place, record : Bluesky!Record] :
              /\ Bluesky!Sound(q.key, q.record)
              /\ repo' = [repo EXCEPT ![q.key] = q.record]
        BY <3>2 DEF Grows
      <4>2. q.key = k /\ repo'[k] = q.record
        BY <3>2, <4>1 DEF Bluesky!ThreadTypes
      <4> QED
        BY <4>1, <4>2
    <3> QED
      BY <3>1, <3>2
  <2> QED
    BY <1>0, <1>1, <2>1, SoundStays DEF Bluesky!Sound
<1>3. ASSUME NEW q \in late'
      PROVE  Bluesky!Sound(q.key, q.record)'
  BY <1>0, <1>1, <1>3, SoundStays DEF Bluesky!Sound
<1> QED
  BY <1>2, <1>3 DEF Bluesky!SentInv

\* What is left to show of a step of a run once the repository is dealt with.
RunGoesOn ==
  /\ root' \in Bluesky!Strong /\ parent' \in Bluesky!Strong
  /\ step' # "idle" => body' \in Drafts /\ at' \in 1..Len(body') /\ runs' > 0
  /\ Bluesky!RunInv'
  /\ result' = "ok" => step' = "idle" /\ (~edited' => \A k \in 1..Len(draft') : Bluesky!Live(k)')

LEMMA ThreadStep ==
  ASSUME Bluesky!DraftsAssumption, Bluesky!ThreadInv, Grows, UNCHANGED <<draft, edited, runs>>,
         \A q \in late' : q \in [key : Bluesky!Place, record : Bluesky!Record] /\ Bluesky!Sound(q.key, q.record),
         runs > 0, RunGoesOn
  PROVE  Bluesky!ThreadInv'
<1>1. Bluesky!SentInv'
  BY SentStep
<1>2. Extends
  BY GrowsExtends DEF Bluesky!ThreadInv
<1>3. Bluesky!ThreadTypes'
  BY <1>2 DEF Extends, RunGoesOn, Bluesky!ThreadInv, Bluesky!ThreadTypes
<1>4. Bluesky!RestInv'
  BY DEF RunGoesOn, Bluesky!RestInv
<1> QED
  BY <1>1, <1>3, <1>4 DEF RunGoesOn, Bluesky!ThreadInv

LEMMA BeginGoesOn ==
  ASSUME Bluesky!DraftsAssumption, NEW n, Bluesky!Begin(n),
         body' \in Drafts, runs' > 0, ~edited' => body' = draft', result' # "ok"
  PROVE  RunGoesOn
<1>1. 1 \in 1..Len(body')
  BY DraftType
<1>2. /\ step' = "session" /\ at' = 1
      /\ root' = Bluesky!Nowhere /\ parent' = Bluesky!Nowhere
  BY DEF Bluesky!Begin
<1>3. Bluesky!RunInv'
  BY <1>2 DEF Bluesky!RunInv
<1> QED
  BY <1>1, <1>2, <1>3, NowhereType DEF RunGoesOn

LEMMA ThreadFails ==
  ASSUME Bluesky!DraftsAssumption, Bluesky!ThreadInv, step # "idle", Bluesky!Fail,
         UNCHANGED <<draft, edited, runs>>
  PROVE  RunGoesOn
<1>1. /\ result # "ok" /\ body \in Drafts /\ runs > 0 /\ (~edited => body = draft)
      /\ root \in Bluesky!Strong /\ parent \in Bluesky!Strong
  BY DEF Bluesky!ThreadInv, Bluesky!RestInv, Bluesky!ThreadTypes, Bluesky!RunInv
<1>2. CASE tries < MaxAttempts
  <2>1. Bluesky!Begin(tries + 1) /\ body' = body /\ result' = result
    BY <1>2 DEF Bluesky!Fail
  <2> QED
    BY <1>1, <2>1, BeginGoesOn
<1>3. CASE ~(tries < MaxAttempts)
  <2>1. step' = "idle" /\ result' = "err" /\ UNCHANGED <<root, parent>>
    BY <1>3 DEF Bluesky!Fail
  <2> QED
    BY <1>1, <2>1 DEF RunGoesOn, Bluesky!RunInv
<1> QED
  BY <1>2, <1>3

\* The segment in hand is in the repository, whoever put it there.
LEMMA ThreadAdvances ==
  ASSUME Bluesky!DraftsAssumption, Bluesky!ThreadInv, step # "idle", Extends,
         UNCHANGED <<draft, edited, runs>>,
         repo'[at] # Bluesky!NoRecord, Bluesky!Advance(Bluesky!Ref(at, repo'))
  PROVE  RunGoesOn
<1>1. /\ result # "ok" /\ body \in Drafts /\ draft \in Drafts /\ runs > 0 /\ (~edited => body = draft)
      /\ at \in 1..Len(body)
      /\ at = 1 => root = Bluesky!Nowhere
      /\ at > 1 => root = Bluesky!Ref(1, repo)
      /\ \A j \in 1..at - 1 : Bluesky!Live(j)
  BY DEF Bluesky!ThreadInv, Bluesky!RestInv, Bluesky!ThreadTypes, Bluesky!RunInv
<1>2. /\ at \in Bluesky!Place /\ at \in Nat /\ 1 <= at /\ Len(body) \in Nat /\ 1 \in Bluesky!Place
      /\ \A j \in 1..at : j \in Bluesky!Place
  BY <1>1, DraftType DEF Bluesky!Place, Bluesky!DraftsAssumption
<1>3. \A j \in 1..at : Bluesky!Live(j)'
  <2> SUFFICES ASSUME NEW j \in 1..at, j # at PROVE Bluesky!Live(j)'
    BY DEF Bluesky!Live
  <2>1. j \in 1..at - 1
    BY <1>2
  <2> QED
    BY <1>1, <1>2, <2>1 DEF Extends, Bluesky!Live
<1>4. \A j \in 1..at : Bluesky!Ref(j, repo') \in Bluesky!Strong
  BY <1>2 DEF Extends, Bluesky!Ref, Bluesky!Strong, Bluesky!Record
<1>5. root' = Bluesky!Ref(1, repo')
  <2>1. CASE at = 1
    BY <1>1, <2>1 DEF Bluesky!Advance, Bluesky!RootOf
  <2>2. CASE at > 1
    <3>1. 1 \in 1..at - 1
      BY <1>2, <2>2
    <3>2. root = Bluesky!Ref(1, repo')
      BY <1>1, <1>2, <2>2, <3>1 DEF Extends, Bluesky!Ref
    <3>3. root # Bluesky!Nowhere
      BY <3>2 DEF Bluesky!Ref, Bluesky!Nowhere
    <3> QED
      BY <3>2, <3>3 DEF Bluesky!Advance, Bluesky!RootOf
  <2> QED
    BY <1>2, <2>1, <2>2
<1>6. parent' = Bluesky!Ref(at, repo') /\ body' = body
  BY DEF Bluesky!Advance
<1>7. root' \in Bluesky!Strong /\ parent' \in Bluesky!Strong
  BY <1>2, <1>4, <1>5, <1>6
<1>8. CASE at = Len(body)
  <2>1. step' = "idle"
    BY <1>8 DEF Bluesky!Advance
  <2>2. ~edited' => \A k \in 1..Len(draft') : Bluesky!Live(k)'
    BY <1>1, <1>3, <1>8
  <2> QED
    BY <1>7, <2>1, <2>2 DEF RunGoesOn, Bluesky!RunInv
<1>9. CASE at # Len(body)
  <2>1. step' = "segment" /\ at' = at + 1 /\ result' = result
    BY <1>9 DEF Bluesky!Advance
  <2>2. at' \in 1..Len(body') /\ at' > 1 /\ at' - 1 = at
    BY <1>1, <1>2, <1>6, <1>9, <2>1
  <2>3. Bluesky!RunInv'
    BY <1>1, <1>3, <1>5, <1>6, <2>1, <2>2 DEF Bluesky!RunInv
  <2> QED
    BY <1>1, <1>6, <1>7, <2>1, <2>2, <2>3 DEF RunGoesOn
<1> QED
  BY <1>8, <1>9

LEMMA ThreadNext ==
  ASSUME Bluesky!DraftsAssumption, Bluesky!ThreadInv, [Bluesky!Next]_Bluesky!vars
  PROVE  Bluesky!ThreadInv'
<1> DEFINE Sounds(Q) == \A q \in Q : /\ q \in [key : Bluesky!Place, record : Bluesky!Record]
                                     /\ Bluesky!Sound(q.key, q.record)
<1>a. Sounds(late)
  BY DEF Bluesky!ThreadInv, Bluesky!ThreadTypes, Bluesky!SentInv
<1>b. /\ step # "idle" => runs > 0 /\ result # "ok"
      /\ late # {} => runs > 0
  BY DEF Bluesky!ThreadInv, Bluesky!ThreadTypes, Bluesky!RestInv
<1>c. UNCHANGED repo => Grows
  BY DEF Grows
\* A step that sends nothing and touches no run keeps what it left alone.
<1>1. ASSUME Grows, Sounds(late'), UNCHANGED <<draft, edited, Bluesky!run, runs, result>>, runs > 0
      PROVE  Bluesky!ThreadInv'
  <2>1. Extends
    BY <1>1, GrowsExtends DEF Bluesky!ThreadInv
  <2>2. UNCHANGED <<step, body, at, root, parent>>
    BY <1>1 DEF Bluesky!run
  <2>3. Bluesky!RunInv'
    <3> SUFFICES ASSUME step # "idle" PROVE Bluesky!RunInv'
      BY <2>2 DEF Bluesky!RunInv
    <3>1. /\ at \in 1..Len(body) /\ at \in Nat
          /\ \A j \in 1..at : j \in Bluesky!Place
      BY DraftType DEF Bluesky!ThreadInv, Bluesky!ThreadTypes, Bluesky!Place, Bluesky!DraftsAssumption
    <3>2. \A j \in 1..at - 1 : j \in Bluesky!Place /\ Bluesky!Live(j) /\ repo'[j] = repo[j]
      BY <2>1, <3>1 DEF Extends, Bluesky!ThreadInv, Bluesky!RunInv
    <3>3. at > 1 => 1 \in 1..at - 1 /\ at - 1 \in 1..at - 1
      BY <3>1
    <3>4. \A j \in 1..at - 1 : Bluesky!Live(j)'
      BY <2>2, <3>2 DEF Bluesky!Live
    <3> QED
      BY <1>1, <2>2, <3>2, <3>3, <3>4 DEF Bluesky!ThreadInv, Bluesky!RunInv, Bluesky!Ref
  <2>4. result = "ok" /\ ~edited => \A k \in 1..Len(draft) : Bluesky!Live(k)'
    <3>1. \A k \in 1..Len(draft) : k \in Bluesky!Place
      BY DraftType DEF Bluesky!ThreadInv, Bluesky!ThreadTypes
    <3> QED
      BY <2>1, <3>1 DEF Extends, Bluesky!Live, Bluesky!ThreadInv, Bluesky!RestInv
  <2>5. RunGoesOn
    BY <1>1, <2>2, <2>3, <2>4 DEF RunGoesOn, Bluesky!ThreadInv, Bluesky!ThreadTypes, Bluesky!RestInv
  <2> QED
    BY <1>1, <2>5, ThreadStep
<1>2. CASE Bluesky!StartRun
  <2>1. /\ runs' = runs + 1 /\ body' = draft /\ Bluesky!Begin(1) /\ result # "ok"
        /\ UNCHANGED <<draft, edited, repo, late, result>>
        /\ draft \in Drafts /\ runs \in Nat
    BY <1>2 DEF Bluesky!StartRun, Bluesky!ThreadInv, Bluesky!ThreadTypes
  <2>2. RunGoesOn
    BY <2>1, BeginGoesOn
  <2>3. Bluesky!SentInv'
    BY <1>a, <1>c, <2>1, SentStep
  <2> QED
    BY <2>1, <2>2, <2>3 DEF RunGoesOn, Bluesky!ThreadInv, Bluesky!ThreadTypes, Bluesky!RestInv, Bluesky!Live
<1>3. CASE Bluesky!Edit
  <2>1. /\ result # "ok" /\ draft' \in Drafts /\ edited' = (edited \/ runs > 0)
        /\ UNCHANGED <<repo, late, step, body, at, root, parent, runs, result>>
    BY <1>3 DEF Bluesky!Edit, Bluesky!run
  <2>2. Bluesky!ThreadTypes' /\ Bluesky!RestInv'
    BY <2>1 DEF Bluesky!ThreadInv, Bluesky!ThreadTypes, Bluesky!RestInv, Bluesky!Live
  <2>3. CASE runs > 0
    BY <2>1, <2>2, <2>3 DEF Bluesky!ThreadInv, Bluesky!SentInv, Bluesky!Sound, Bluesky!RepliesTo,
          Bluesky!RunInv, Bluesky!Live, Bluesky!Ref
  <2>4. CASE runs = 0
    BY <1>b, <2>1, <2>2, <2>4 DEF Bluesky!ThreadInv, Bluesky!SentInv, Bluesky!RestInv,
          Bluesky!RunInv, Bluesky!Live
  <2> QED
    BY <2>3, <2>4 DEF Bluesky!ThreadInv, Bluesky!ThreadTypes
<1>4. CASE Bluesky!Expire
  BY <1>4 DEF Bluesky!Expire, Bluesky!run, Bluesky!ThreadInv, Bluesky!ThreadTypes, Bluesky!SentInv,
       Bluesky!Sound, Bluesky!RepliesTo, Bluesky!AsDrafted, Bluesky!RunInv, Bluesky!RestInv, Bluesky!Live, Bluesky!Ref
<1>5. CASE Bluesky!AgentRefused \/ Bluesky!EmbedFails \/ Bluesky!ProbeFails
  <2>1. step # "idle" /\ Bluesky!Fail /\ UNCHANGED <<draft, edited, repo, late, runs>>
    BY <1>5 DEF Bluesky!AgentRefused, Bluesky!EmbedFails, Bluesky!ProbeFails
  <2> QED
    BY <1>a, <1>b, <1>c, <2>1, ThreadFails, ThreadStep
<1>6. CASE Bluesky!GetSession
  <2>1. step = "session" /\ UNCHANGED <<draft, edited, repo, late, runs>>
    BY <1>6 DEF Bluesky!GetSession
  <2>2. CASE step' = "segment" /\ UNCHANGED <<body, at, root, parent, tries, result>>
    <3>1. RunGoesOn
      BY <1>b, <2>1, <2>2 DEF RunGoesOn, Bluesky!ThreadInv, Bluesky!ThreadTypes, Bluesky!RunInv, Bluesky!Live, Bluesky!Ref
    <3> QED
      BY <1>a, <1>b, <1>c, <2>1, <3>1, ThreadStep
  <2>3. CASE Bluesky!Fail
    BY <1>a, <1>b, <1>c, <2>1, <2>3, ThreadFails, ThreadStep
  <2> QED
    BY <1>6, <2>2, <2>3 DEF Bluesky!GetSession
\* The request for the segment in hand lands, now or later.
<1>7. ASSUME step # "idle", ~Bluesky!Live(Bluesky!Request.key), Bluesky!Land(Bluesky!Request)
      PROVE  Grows /\ Extends /\ repo'[at] # Bluesky!NoRecord
  <2>1. /\ Bluesky!Request \in [key : Bluesky!Place, record : Bluesky!Record]
        /\ Bluesky!Request.key = at /\ at \in Bluesky!Place
        /\ Bluesky!Sound(at, Bluesky!Request.record)
    BY <1>7, RequestIsSound
  <2>2. Grows
    BY <1>7, <2>1 DEF Grows, Bluesky!Land
  <2>3. repo'[at] = Bluesky!Request.record
    BY <1>7, <2>1 DEF Bluesky!Land, Bluesky!ThreadInv, Bluesky!ThreadTypes
  <2>4. Bluesky!Request.record.text # Bluesky!NoRecord.text
    BY <2>1 DEF Bluesky!Sound, Bluesky!RepliesTo
  <2> QED
    BY <2>2, <2>3, <2>4, GrowsExtends DEF Bluesky!ThreadInv
<1>8. ASSUME step # "idle", late' = late \cup {Bluesky!Request}
      PROVE  Sounds(late')
  BY <1>a, <1>8, RequestIsSound
<1>9. CASE Bluesky!Created
  <2>1. /\ step # "idle" /\ UNCHANGED <<draft, edited, late, runs>>
        /\ Bluesky!Request.key = at
    BY <1>9, RequestIsSound DEF Bluesky!Created
  <2>2. RunGoesOn
    BY <1>7, <1>9, <2>1, ThreadAdvances DEF Bluesky!Created
  <2> QED
    BY <1>a, <1>b, <1>7, <1>9, <2>1, <2>2, ThreadStep DEF Bluesky!Created
<1>10. CASE Bluesky!Unanswered
  <2>1. /\ step # "idle" /\ step' = "probe" /\ step = "segment"
        /\ UNCHANGED <<draft, edited, body, at, root, parent, runs, result>>
    BY <1>10 DEF Bluesky!Unanswered
  <2>2. Grows /\ Sounds(late')
    BY <1>a, <1>c, <1>7, <1>8, <1>10, <2>1 DEF Bluesky!Unanswered
  <2>3. Extends
    BY <2>2, GrowsExtends DEF Bluesky!ThreadInv
  <2>4. RunGoesOn
    <3>1. /\ at \in 1..Len(body) /\ at \in Nat
          /\ \A j \in 1..at : j \in Bluesky!Place
      BY <2>1, DraftType DEF Bluesky!ThreadInv, Bluesky!ThreadTypes, Bluesky!Place, Bluesky!DraftsAssumption
    <3>2. \A j \in 1..at - 1 : j \in Bluesky!Place /\ Bluesky!Live(j) /\ repo'[j] = repo[j]
      BY <2>1, <2>3, <3>1 DEF Extends, Bluesky!ThreadInv, Bluesky!RunInv
    <3>3. at > 1 => 1 \in 1..at - 1 /\ at - 1 \in 1..at - 1
      BY <3>1
    <3>4. \A j \in 1..at - 1 : Bluesky!Live(j)'
      BY <2>1, <3>2 DEF Bluesky!Live
    <3>5. Bluesky!RunInv'
      BY <2>1, <3>2, <3>3, <3>4 DEF Bluesky!ThreadInv, Bluesky!RunInv, Bluesky!Ref
    <3> QED
      BY <1>b, <2>1, <3>5 DEF RunGoesOn, Bluesky!ThreadInv, Bluesky!ThreadTypes
  <2> QED
    BY <1>b, <2>1, <2>2, <2>4, ThreadStep
<1>11. CASE Bluesky!ProbeFinds
  <2>1. /\ step # "idle" /\ UNCHANGED <<draft, edited, repo, late, runs>>
        /\ repo'[at] # Bluesky!NoRecord /\ Bluesky!Advance(Bluesky!Ref(at, repo'))
    BY <1>11 DEF Bluesky!ProbeFinds, Bluesky!SegmentKey, Bluesky!Live
  <2>2. Extends
    BY <1>c, <2>1, GrowsExtends DEF Bluesky!ThreadInv
  <2> QED
    BY <1>a, <1>b, <1>c, <2>1, <2>2, ThreadAdvances, ThreadStep
<1>12. CASE Bluesky!DeadlineElapses
  <2>1. step # "idle" /\ Bluesky!Fail /\ UNCHANGED <<draft, edited, runs>>
    BY <1>12 DEF Bluesky!DeadlineElapses
  <2>2. Grows /\ Sounds(late')
    BY <1>a, <1>c, <1>7, <1>8, <1>12, <2>1 DEF Bluesky!DeadlineElapses
  <2> QED
    BY <1>b, <2>1, <2>2, ThreadFails, ThreadStep
<1>13. CASE Bluesky!LateArrival
  <2>1. PICK q \in late :
          /\ late' = late \ {q}
          /\ UNCHANGED repo \/ (~Bluesky!Live(q.key) /\ Bluesky!Land(q))
          /\ UNCHANGED <<draft, edited, session, Bluesky!run, runs, result>>
    BY <1>13 DEF Bluesky!LateArrival
  <2>2. Grows
    BY <1>a, <2>1 DEF Grows, Bluesky!Land
  <2>3. Sounds(late')
    BY <1>a, <2>1
  <2> QED
    BY <1>b, <1>1, <2>1, <2>2, <2>3
<1>14. CASE Bluesky!Crash
  <2>1. /\ step # "idle" /\ step' = "idle" /\ root' = Bluesky!Nowhere /\ parent' = Bluesky!Nowhere
        /\ UNCHANGED <<draft, edited, repo, late, runs, result>>
    BY <1>14 DEF Bluesky!Crash
  <2>2. RunGoesOn
    BY <1>b, <2>1, NowhereType DEF RunGoesOn, Bluesky!RunInv
  <2> QED
    BY <1>a, <1>b, <1>c, <2>1, <2>2, ThreadStep
<1>15. CASE UNCHANGED Bluesky!vars
  BY <1>15 DEF Bluesky!vars, Bluesky!ThreadInv, Bluesky!ThreadTypes, Bluesky!SentInv,
       Bluesky!Sound, Bluesky!RepliesTo, Bluesky!AsDrafted, Bluesky!RunInv, Bluesky!RestInv, Bluesky!Live, Bluesky!Ref
<1> QED
  BY <1>2, <1>3, <1>4, <1>5, <1>6, <1>9, <1>10, <1>11, <1>12, <1>13, <1>14, <1>15 DEF Bluesky!Next

LEMMA ThreadInit ==
  ASSUME Bluesky!DraftsAssumption, Bluesky!Init
  PROVE  Bluesky!ThreadInv
<1> USE DEF Bluesky!Init
<1>1. \A k \in Bluesky!Place : ~Bluesky!Live(k)
  BY DEF Bluesky!Live
<1> QED
  BY <1>1, NowhereType DEF Bluesky!ThreadInv, Bluesky!ThreadTypes, Bluesky!SentInv, Bluesky!RunInv, Bluesky!RestInv

LEMMA ThreadInvImplies ==
  ASSUME Bluesky!DraftsAssumption, Bluesky!ThreadInv
  PROVE  Bluesky!ThreadKept
<1>1. Bluesky!OneChain
  BY DEF Bluesky!OneChain, Bluesky!ThreadInv, Bluesky!SentInv, Bluesky!Sound, Bluesky!RepliesTo,
         Bluesky!Place, Bluesky!DraftsAssumption
<1>2. Bluesky!OkIsTheDraft
  BY DraftType DEF Bluesky!OkIsTheDraft, Bluesky!ThreadInv, Bluesky!ThreadTypes, Bluesky!SentInv, Bluesky!Sound,
         Bluesky!AsDrafted, Bluesky!RestInv, Bluesky!Place
<1> QED
  BY <1>1, <1>2 DEF Bluesky!ThreadKept

\* Whatever is retried, lost, late, edited or interrupted, the records on the platform are
\* one chain, and a success means the draft's whole thread, for any drafts and any number of
\* attempts and runs (publish_inner, existing_record).
THEOREM BlueskyThreadKept ==
  ASSUME Bluesky!DraftsAssumption
  PROVE  ProvidersSpec => []ThreadKept
<1> DEFINE Inv == which = "bluesky" => Bluesky!ThreadInv
<1>1. Bluesky!Init => Bluesky!ThreadInv
  BY ThreadInit
<1>2. Bluesky!ThreadInv /\ [Bluesky!Next]_Bluesky!vars => Bluesky!ThreadInv'
  BY ThreadNext
<1>3. Bluesky!ThreadInv => Bluesky!ThreadKept
  BY ThreadInvImplies
<1>4. ProvidersInit => Inv
  BY <1>1 DEF ProvidersInit
<1>5. Inv /\ [ProvidersNext]_PartVars => Inv'
  BY <1>2, ThreadsAreTheirParts
<1>6. Inv => ThreadKept
  BY <1>3 DEF ThreadKept
<1> QED
  BY <1>4, <1>5, <1>6, PTL DEF ProvidersSpec

-----------------------------------------------------------------------------
(* ManagedThread.                                                          *)

LEMMA SegmentType ==
  ASSUME Managed!DraftsAssumption, NEW d \in Posts
  PROVE  /\ Len(d) \in Nat /\ 1 <= Len(d) /\ Len(d) <= MaxLen
         /\ \A i \in 1..Len(d) : /\ i \in Managed!Place
                                /\ d[i] \in [text : Managed!Text, media : BOOLEAN]
<1>1. d \in Seq([text : Managed!Text, media : BOOLEAN]) /\ Len(d) \in 1..MaxLen /\ MaxLen \in Nat
  BY DEF Managed!DraftsAssumption
<1>2. \A i \in 1..Len(d) : d[i] \in [text : Managed!Text, media : BOOLEAN]
  BY <1>1, ElementOfSeq
<1> QED
  BY <1>1, <1>2 DEF Managed!Place

\* The call for the segment in hand follows the one before, in the draft's words.
LEMMA CallIsSound ==
  ASSUME Managed!DraftsAssumption, Managed!ThreadInv, step # "idle", via # "none"
  PROVE  /\ Managed!Call \in Managed!CallType /\ Managed!Sound(Managed!Call)
         /\ Managed!Call.key = at /\ Managed!Call.via = via
<1>1. /\ body \in Posts /\ at \in 1..Len(body) /\ via \in {"treg", "composio"} /\ parent \in Nat
      /\ via = "treg" => Managed!Follows(at, parent)
      /\ ~edited => body = draft
  BY DEF Managed!ThreadInv, Managed!ThreadTypes, Managed!RunInv
<1>2. body[at] \in [text : Managed!Text, media : BOOLEAN] /\ at \in Managed!Place
  BY <1>1, SegmentType
<1>3. (via = "composio" /\ body[at].media) \in BOOLEAN
  OBVIOUS
<1>4. /\ Managed!Call \in Managed!CallType
      /\ Managed!Call.key = at /\ Managed!Call.via = via
      /\ Managed!Call.text = body[at].text /\ Managed!Call.after = parent
  BY <1>1, <1>2, <1>3 DEF Managed!Call, Managed!TregKey, Managed!CallType
<1>5. Managed!Sound(Managed!Call)
  <2>1. at <= Len(body)
    BY <1>1, SegmentType
  <2> QED
    BY <1>1, <1>4, <2>1 DEF Managed!Sound, Managed!AsDrafted
<1> QED
  BY <1>4, <1>5

\* X gets a post for a sound call whose key Gateway has not served, or nothing.
PostsGrow ==
  \/ UNCHANGED <<posts, served>>
  \/ \E c \in Managed!CallType : Managed!Sound(c) /\ Managed!Carry(c)

PostsExtend ==
  /\ posts' \in Seq(Managed!CallType) /\ served' \in [Managed!Place -> Nat]
  /\ DOMAIN posts \subseteq DOMAIN posts' /\ \A i \in DOMAIN posts : posts'[i] = posts[i]
  /\ \A k \in Managed!Place : served[k] # 0 => served'[k] = served[k]

\* What carrying a call out leaves: one more post, which Gateway remembers if Treg made it.
LEMMA CarryAppends ==
  ASSUME Managed!ThreadTypes, NEW c \in Managed!CallType, Managed!Carry(c), ~Managed!Repeats(c)
  PROVE  /\ Len(posts) \in Nat /\ DOMAIN posts = 1..Len(posts)
         /\ posts' \in Seq(Managed!CallType) /\ DOMAIN posts' = 1..Len(posts) + 1
         /\ posts'[Len(posts) + 1] = c /\ \A i \in DOMAIN posts : posts'[i] = posts[i]
         /\ c.via = "treg" => served' = [served EXCEPT ![c.key] = Len(posts) + 1]
         /\ c.via # "treg" => served' = served
<1>1. posts \in Seq(Managed!CallType) /\ posts' = Append(posts, c)
  BY DEF Managed!ThreadTypes, Managed!Carry
<1>2. /\ Len(posts) \in Nat /\ DOMAIN posts = 1..Len(posts)
      /\ Append(posts, c) \in Seq(Managed!CallType) /\ Len(Append(posts, c)) = Len(posts) + 1
      /\ DOMAIN Append(posts, c) = 1..Len(Append(posts, c))
      /\ Append(posts, c)[Len(posts) + 1] = c
      /\ \A i \in 1..Len(posts) : Append(posts, c)[i] = posts[i]
  BY <1>1, AppendProperties, LenProperties
<1> QED
  BY <1>1, <1>2 DEF Managed!Carry

LEMMA PostsOnlyGrow ==
  ASSUME Managed!ThreadTypes, PostsGrow
  PROVE  PostsExtend
<1>1. CASE UNCHANGED <<posts, served>>
  BY <1>1 DEF PostsExtend, Managed!ThreadTypes
<1>2. ASSUME NEW c \in Managed!CallType, Managed!Carry(c)
      PROVE  PostsExtend
  <2>1. CASE Managed!Repeats(c)
    BY <1>1, <1>2, <2>1 DEF Managed!Carry
  <2>2. CASE ~Managed!Repeats(c)
    <3>1. served \in [Managed!Place -> Nat] /\ c.key \in Managed!Place
      BY DEF Managed!ThreadTypes, Managed!CallType
    <3>2. /\ c.via = "treg" => served[c.key] = 0 /\ served' = [served EXCEPT ![c.key] = Len(posts) + 1]
          /\ c.via # "treg" => served' = served
          /\ Len(posts) + 1 \in Nat
      BY <1>2, <2>2, <3>1, CarryAppends DEF Managed!Repeats
    <3>3. /\ served' \in [Managed!Place -> Nat]
          /\ \A k \in Managed!Place : served[k] # 0 => served'[k] = served[k]
      BY <3>1, <3>2
    <3>4. DOMAIN posts \subseteq DOMAIN posts'
      BY <1>2, <2>2, CarryAppends
    <3> QED
      BY <1>2, <2>2, <3>3, <3>4, CarryAppends DEF PostsExtend
  <2> QED
    BY <2>1, <2>2
<1> QED
  BY <1>1, <1>2 DEF PostsGrow

\* What followed still does, however the posts grow.
LEMMA CallStaysSound ==
  ASSUME MaxLen \in Nat, PostsExtend, UNCHANGED <<draft, edited>>,
         NEW c, c.key \in Managed!Place, Managed!Sound(c)
  PROVE  /\ c.via = "treg" => Managed!Follows(c.key, c.after)'
         /\ ~edited' => Managed!AsDrafted(c)'
<1>1. c.key # 1 => c.key - 1 \in Managed!Place
  BY DEF Managed!Place
<1> QED
  BY <1>1 DEF PostsExtend, Managed!Sound, Managed!Follows, Managed!AsDrafted

LEMMA PostsStep ==
  ASSUME Managed!DraftsAssumption, Managed!ThreadInv, PostsGrow, UNCHANGED <<draft, edited>>,
         \A c \in late' : c \in Managed!CallType /\ Managed!Sound(c)
  PROVE  Managed!PostsInv'
<1> USE DEF Managed!ThreadInv
<1>1. PostsExtend /\ MaxLen \in Nat
  BY PostsOnlyGrow DEF Managed!DraftsAssumption
<1>2. \A i \in DOMAIN posts : posts[i] \in Managed!CallType
  BY ElementOfSeq, LenProperties DEF Managed!ThreadTypes
<1>e. \A i \in DOMAIN posts : posts[i].key \in Managed!Place
  BY <1>2 DEF Managed!CallType
<1>3. ASSUME NEW c \in late' PROVE Managed!Sound(c)'
  BY <1>1, <1>3, CallStaysSound DEF Managed!Sound, Managed!CallType
<1>4. ASSUME NEW i \in DOMAIN posts PROVE Managed!Sound(posts[i])'
  BY <1>1, <1>2, <1>e, CallStaysSound DEF Managed!Sound, Managed!PostsInv, PostsExtend
<1>5. CASE UNCHANGED <<posts, served>>
  BY <1>3, <1>4, <1>5 DEF Managed!PostsInv, Managed!ByTreg
<1>6. ASSUME NEW c \in Managed!CallType, Managed!Sound(c), Managed!Carry(c), ~Managed!Repeats(c)
      PROVE  Managed!PostsInv'
  <2>a. /\ Len(posts) \in Nat /\ DOMAIN posts = 1..Len(posts) /\ DOMAIN posts' = 1..Len(posts) + 1
        /\ posts'[Len(posts) + 1] = c /\ \A i \in DOMAIN posts : posts'[i] = posts[i]
        /\ c.via = "treg" => served' = [served EXCEPT ![c.key] = Len(posts) + 1]
        /\ c.via # "treg" => served' = served
    BY <1>6, CarryAppends
  <2>1. /\ DOMAIN posts' = DOMAIN posts \cup {Len(posts) + 1} /\ Len(posts) + 1 \notin DOMAIN posts
        /\ Len(posts) + 1 # 0
        /\ posts'[Len(posts) + 1] = c /\ \A i \in DOMAIN posts : posts'[i] = posts[i]
    BY <2>a
  <2>b. /\ c.key \in Managed!Place /\ served \in [Managed!Place -> Nat]
        /\ c.via = "treg" => served[c.key] = 0 /\ served' = [served EXCEPT ![c.key] = Len(posts) + 1]
        /\ c.via # "treg" => served' = served
    BY <1>6, <2>a DEF Managed!Repeats, Managed!CallType, Managed!ThreadTypes
  <2>2. Managed!Sound(c)'
    BY <1>1, <1>6, CallStaysSound DEF Managed!Sound, Managed!CallType
  <2>3. \A i \in DOMAIN posts' : Managed!Sound(posts[i])'
    BY <1>4, <2>1, <2>b, <2>2 DEF Managed!Sound
  <2>4. ASSUME NEW k \in Managed!Place, served'[k] # 0
        PROVE  served'[k] \in Managed!ByTreg' /\ posts'[served'[k]].key = k
    BY <2>1, <2>b, <2>4 DEF Managed!PostsInv, Managed!ByTreg
  <2>5. ASSUME NEW i \in Managed!ByTreg'
        PROVE  served'[posts'[i].key] = i
    <3>1. CASE i \in DOMAIN posts
      <4>1. posts'[i] = posts[i] /\ i \in Managed!ByTreg /\ posts[i].key \in Managed!Place
        BY <1>e, <2>1, <2>b, <2>5, <3>1 DEF Managed!ByTreg
      <4>2. served[posts[i].key] = i /\ i # 0
        BY <4>1, <3>1, LenProperties DEF Managed!PostsInv, Managed!ThreadTypes
      <4> QED
        BY <2>1, <2>b, <4>1, <4>2
    <3>2. CASE i = Len(posts) + 1
      BY <2>1, <2>b, <2>5, <3>2 DEF Managed!ByTreg
    <3> QED
      BY <2>1, <2>b, <2>5, <3>1, <3>2 DEF Managed!ByTreg
  <2> QED
    BY <1>3, <2>3, <2>4, <2>5 DEF Managed!PostsInv
<1> QED
  BY <1>5, <1>6 DEF PostsGrow, Managed!Carry

\* What is left to show of a step of a run once the posts are dealt with.
CallsGoOn ==
  /\ via' \in {"treg", "composio", "none"} /\ parent' \in Nat
  /\ step' # "idle" => body' \in Posts /\ at' \in 1..Len(body') /\ runs' > 0
  /\ Managed!RunInv'
  /\ result' = "ok" => step' = "idle" /\ (~edited' => Managed!Delivered')

LEMMA ManagedStep ==
  ASSUME Managed!DraftsAssumption, Managed!ThreadInv, PostsGrow, UNCHANGED <<draft, edited, runs>>,
         \A c \in late' : c \in Managed!CallType /\ Managed!Sound(c),
         runs > 0, CallsGoOn
  PROVE  Managed!ThreadInv'
<1>1. Managed!PostsInv'
  BY PostsStep
<1>2. PostsExtend
  BY PostsOnlyGrow DEF Managed!ThreadInv
<1>3. late' \subseteq Managed!CallType
  OBVIOUS
<1>4. Managed!ThreadTypes'
  BY <1>2, <1>3 DEF PostsExtend, CallsGoOn, Managed!ThreadInv, Managed!ThreadTypes
<1>5. Managed!RestInv'
  BY DEF CallsGoOn, Managed!RestInv
<1> QED
  BY <1>1, <1>4, <1>5 DEF CallsGoOn, Managed!ThreadInv

LEMMA AttemptBegins ==
  ASSUME Managed!DraftsAssumption, NEW n, Managed!Begin(n), via' \in {"treg", "composio", "none"},
         body' \in Posts, runs' > 0, ~edited' => body' = draft', result' # "ok"
  PROVE  CallsGoOn
<1>1. 1 \in 1..Len(body')
  BY SegmentType
<1>2. step' = "segment" /\ at' = 1 /\ parent' = 0
  BY DEF Managed!Begin
<1>3. Managed!RunInv'
  BY <1>2 DEF Managed!RunInv, Managed!Follows
<1> QED
  BY <1>1, <1>2, <1>3 DEF CallsGoOn

LEMMA AttemptFails ==
  ASSUME Managed!DraftsAssumption, Managed!ThreadInv, step # "idle", Managed!Fail,
         UNCHANGED <<draft, edited, runs>>
  PROVE  CallsGoOn
<1>1. /\ result # "ok" /\ body \in Posts /\ runs > 0 /\ (~edited => body = draft)
      /\ via \in {"treg", "composio", "none"} /\ parent \in Nat
  BY DEF Managed!ThreadInv, Managed!RestInv, Managed!ThreadTypes, Managed!RunInv
<1>2. CASE tries < MaxAttempts
  <2>1. Managed!Begin(tries + 1) /\ body' = body /\ result' = result /\ via' = via
    BY <1>2 DEF Managed!Fail
  <2> QED
    BY <1>1, <2>1, AttemptBegins
<1>3. CASE ~(tries < MaxAttempts)
  <2>1. step' = "idle" /\ result' = "err" /\ UNCHANGED <<via, parent>>
    BY <1>3 DEF Managed!Fail
  <2> QED
    BY <1>1, <2>1 DEF CallsGoOn, Managed!RunInv
<1> QED
  BY <1>2, <1>3

\* A call that is answered with an id leaves what the id says.
LEMMA AnsweredCall ==
  ASSUME Managed!DraftsAssumption, Managed!ThreadInv, step # "idle", via # "none",
         Managed!Carry(Managed!Call)
  PROVE  /\ via = "treg" => served'[at] = Managed!IdOf(Managed!Call) /\ served'[at] # 0
         /\ via # "treg" => \E i \in DOMAIN posts' : posts'[i] = Managed!Call
<1> DEFINE c == Managed!Call
<1>1. c \in Managed!CallType /\ c.key = at /\ c.via = via /\ at \in Managed!Place
  BY CallIsSound DEF Managed!CallType
<1>2. Managed!Carry(c) /\ Managed!ThreadTypes /\ served \in [Managed!Place -> Nat]
  BY DEF Managed!ThreadInv, Managed!ThreadTypes
<1> HIDE DEF c
<1>3. CASE Managed!Repeats(c)
  BY <1>1, <1>2, <1>3 DEF Managed!Repeats, Managed!Carry, Managed!IdOf, c
<1>4. CASE ~Managed!Repeats(c)
  <2>1. /\ Len(posts) \in Nat /\ DOMAIN posts' = 1..Len(posts) + 1 /\ posts'[Len(posts) + 1] = c
        /\ c.via = "treg" => served' = [served EXCEPT ![c.key] = Len(posts) + 1]
    BY <1>1, <1>2, <1>4, CarryAppends
  <2>2. via # "treg" => \E i \in DOMAIN posts' : posts'[i] = c
    BY <2>1
  <2>3. via = "treg" => served'[at] = Len(posts) + 1 /\ Len(posts) + 1 # 0
    BY <1>1, <1>2, <2>1
  <2> QED
    BY <1>4, <2>2, <2>3 DEF Managed!IdOf, c
<1> QED
  BY <1>3, <1>4

LEMMA CallAdvances ==
  ASSUME Managed!DraftsAssumption, Managed!ThreadInv, step # "idle", via # "none",
         UNCHANGED <<draft, edited, runs>>,
         Managed!Carry(Managed!Call), Managed!Advance(Managed!IdOf(Managed!Call))
  PROVE  CallsGoOn
<1> DEFINE id == Managed!IdOf(Managed!Call)
<1>1. /\ result # "ok" /\ body \in Posts /\ draft \in Posts /\ runs > 0 /\ (~edited => body = draft)
      /\ at \in 1..Len(body) /\ via \in {"treg", "composio"} /\ parent \in Nat
      /\ via = "treg" => \A j \in 1..at - 1 : served[j] # 0
      /\ via # "treg" => at = 1
  BY DEF Managed!ThreadInv, Managed!RestInv, Managed!ThreadTypes, Managed!RunInv
<1>2. /\ at \in Managed!Place /\ at \in Nat /\ 1 <= at /\ Len(body) \in Nat
      /\ \A j \in 1..at : j \in Managed!Place
      /\ body[at] \in [text : Managed!Text, media : BOOLEAN]
  <2>1. /\ at \in 1..Len(body) /\ Len(body) \in Nat /\ Len(body) <= MaxLen /\ MaxLen \in Nat
        /\ body[at] \in [text : Managed!Text, media : BOOLEAN]
    BY <1>1, SegmentType DEF Managed!DraftsAssumption
  <2> QED
    BY <2>1 DEF Managed!Place
<1>3. PostsExtend
  <2>1. PostsGrow
    BY CallIsSound DEF PostsGrow
  <2> QED
    BY <2>1, PostsOnlyGrow DEF Managed!ThreadInv
<1>4. /\ via = "treg" => served'[at] = id /\ served'[at] # 0
      /\ via # "treg" => \E i \in DOMAIN posts' : posts'[i] = Managed!Call
  BY AnsweredCall
<1>5. Managed!Advance(id)
  OBVIOUS
<1> HIDE DEF id
<1>6. via = "treg" => \A j \in 1..at : served'[j] # 0
  <2> SUFFICES ASSUME via = "treg", NEW j \in 1..at, j # at PROVE served'[j] # 0
    BY <1>4
  <2>1. j \in 1..at - 1
    BY <1>2
  <2> QED
    BY <1>1, <1>2, <1>3, <2>1 DEF PostsExtend
<1>7. CASE via = "treg" /\ at < Len(body)
  <2>1. at' = at + 1 /\ parent' = id /\ UNCHANGED <<via, step, body, result>>
    BY <1>5, <1>7 DEF Managed!Advance
  <2>2. at' \in 1..Len(body') /\ at' # 1 /\ at' - 1 = at
    BY <1>1, <1>2, <1>7, <2>1
  <2>3. parent' \in Nat
    BY <1>2, <1>3, <1>4, <1>7, <2>1 DEF PostsExtend
  <2>4. Managed!RunInv'
    BY <1>1, <1>4, <1>6, <1>7, <2>1, <2>2 DEF Managed!RunInv, Managed!Follows
  <2> QED
    BY <1>1, <2>1, <2>2, <2>3, <2>4 DEF CallsGoOn
<1>8. CASE ~(via = "treg" /\ at < Len(body))
  <2>1. step' = "idle" /\ result' = "ok" /\ UNCHANGED <<via, parent>>
    BY <1>5, <1>8 DEF Managed!Advance, Managed!Done
  <2>2. CASE via = "treg"
    <3>1. at = Len(body)
      BY <1>1, <1>2, <1>8, <2>2
    <3> QED
      BY <1>1, <1>6, <2>1, <2>2, <3>1 DEF CallsGoOn, Managed!RunInv, Managed!Delivered
  <2>3. CASE via = "composio"
    <3>1. PICK i \in DOMAIN posts' : posts'[i] = Managed!Call
      BY <1>4, <2>3
    <3>2. /\ Managed!Call.via = "composio" /\ Managed!Call.text = body[1].text
          /\ Managed!Call.media = body[1].media
      BY <1>1, <1>2, <2>3 DEF Managed!Call
    <3>3. ~edited => Managed!ByComposio(draft[1])'
      BY <1>1, <3>1, <3>2 DEF Managed!ByComposio
    <3> QED
      BY <1>1, <2>1, <2>3, <3>3 DEF CallsGoOn, Managed!RunInv, Managed!Delivered
  <2> QED
    BY <1>1, <2>2, <2>3
<1> QED
  BY <1>7, <1>8

LEMMA ManagedNext ==
  ASSUME Managed!DraftsAssumption, Managed!ThreadInv, [Managed!Next]_Managed!vars
  PROVE  Managed!ThreadInv'
<1> DEFINE Sounds(C) == \A c \in C : c \in Managed!CallType /\ Managed!Sound(c)
<1>1. Sounds(late)
  BY DEF Managed!ThreadInv, Managed!ThreadTypes, Managed!PostsInv
<1>2. /\ step # "idle" => runs > 0 /\ result # "ok"
      /\ late # {} => runs > 0
  BY DEF Managed!ThreadInv, Managed!ThreadTypes, Managed!RestInv
<1>3. UNCHANGED <<posts, served>> => PostsGrow
  BY DEF PostsGrow
<1>4. CASE Managed!StartRun
  <2>1. /\ runs' = runs + 1 /\ body' = draft /\ Managed!Begin(1) /\ result # "ok"
        /\ UNCHANGED <<draft, edited, posts, served, late, result>>
        /\ draft \in Posts /\ runs \in Nat /\ via' \in {"treg", "composio", "none"}
    BY <1>4 DEF Managed!StartRun, Managed!ThreadInv, Managed!ThreadTypes
  <2>2. CallsGoOn
    BY <2>1, AttemptBegins
  <2>3. Managed!PostsInv'
    BY <1>1, <1>3, <2>1, PostsStep
  <2> QED
    BY <2>1, <2>2, <2>3 DEF CallsGoOn, Managed!ThreadInv, Managed!ThreadTypes, Managed!RestInv
<1>5. CASE Managed!Edit
  <2>1. /\ result # "ok" /\ draft' \in Posts /\ edited' = (edited \/ runs > 0)
        /\ UNCHANGED <<posts, served, late, via, step, body, at, parent, runs, result>>
    BY <1>5 DEF Managed!Edit, Managed!run
  <2>2. Managed!ThreadTypes' /\ Managed!RestInv'
    BY <2>1 DEF Managed!ThreadInv, Managed!ThreadTypes, Managed!RestInv
  <2>3. CASE runs > 0
    BY <2>1, <2>2, <2>3 DEF Managed!ThreadInv, Managed!PostsInv, Managed!Sound, Managed!Follows,
          Managed!ByTreg, Managed!RunInv
  <2>4. CASE runs = 0
    <3>1. late = {} /\ DOMAIN posts = {} /\ step = "idle"
      BY <1>2, <2>4 DEF Managed!ThreadInv, Managed!RestInv
    <3> QED
      BY <2>1, <2>2, <3>1 DEF Managed!ThreadInv, Managed!PostsInv, Managed!ByTreg, Managed!RunInv
  <2> QED
    BY <2>3, <2>4 DEF Managed!ThreadInv, Managed!ThreadTypes
<1>6. CASE Managed!NothingSent
  <2>1. step # "idle" /\ Managed!Fail /\ UNCHANGED <<draft, edited, posts, served, late, runs>>
    BY <1>6 DEF Managed!NothingSent
  <2> QED
    BY <1>1, <1>2, <1>3, <2>1, AttemptFails, ManagedStep
<1>7. CASE Managed!Send
  <2>1. /\ step # "idle" /\ via # "none" /\ UNCHANGED <<draft, edited, runs>>
        /\ Managed!Call \in Managed!CallType /\ Managed!Sound(Managed!Call)
    BY <1>7, CallIsSound DEF Managed!Send
  <2>2. PICK answer \in Managed!Answer :
          /\ IF Managed!Succeeded(answer) THEN Managed!Advance(Managed!IdOf(Managed!Call)) ELSE Managed!Fail
          /\ \/ answer \in {"id", "no-id", "lost"} /\ Managed!Carry(Managed!Call) /\ UNCHANGED late
             \/ answer \in Managed!Refused \cup {"failed", "lost"} /\ UNCHANGED <<posts, served, late>>
             \/ answer = "lost" /\ late' = late \cup {Managed!Call} /\ UNCHANGED <<posts, served>>
    BY <1>7 DEF Managed!Send
  <2>3. PostsGrow /\ Sounds(late')
    BY <1>1, <1>3, <2>1, <2>2 DEF PostsGrow
  <2>4. CASE answer = "id"
    <3>1. Managed!Carry(Managed!Call) /\ Managed!Advance(Managed!IdOf(Managed!Call))
      BY <2>2, <2>4 DEF Managed!Succeeded, Managed!Refused
    <3> QED
      BY <1>2, <2>1, <2>3, <3>1, CallAdvances, ManagedStep
  <2>5. CASE answer # "id"
    <3>1. Managed!Fail
      BY <2>2, <2>5 DEF Managed!Succeeded
    <3> QED
      BY <1>2, <2>1, <2>3, <3>1, AttemptFails, ManagedStep
  <2> QED
    BY <2>4, <2>5
<1>8. CASE Managed!LateArrival
  <2>1. PICK c \in late :
          /\ late' = late \ {c}
          /\ Managed!Carry(c) \/ UNCHANGED <<posts, served>>
          /\ UNCHANGED <<draft, edited, via, step, body, at, parent, runs, result>>
    BY <1>8 DEF Managed!LateArrival, Managed!run
  <2>2. PostsGrow /\ Sounds(late')
    BY <1>1, <1>3, <2>1 DEF PostsGrow
  <2>3. PostsExtend
    BY <2>2, PostsOnlyGrow DEF Managed!ThreadInv
  <2>4. Managed!RunInv'
    <3> SUFFICES ASSUME step # "idle" PROVE Managed!RunInv'
      BY <2>1 DEF Managed!RunInv
    <3>1. at \in Nat /\ \A j \in 1..at : j \in Managed!Place
      BY SegmentType DEF Managed!ThreadInv, Managed!ThreadTypes, Managed!Place, Managed!DraftsAssumption
    <3>2. at # 1 => at - 1 \in 1..at - 1
      BY <3>1 DEF Managed!ThreadInv, Managed!ThreadTypes
    <3> QED
      BY <2>1, <2>3, <3>1, <3>2 DEF PostsExtend, Managed!ThreadInv, Managed!RunInv, Managed!Follows
  <2>5. result = "ok" /\ ~edited => Managed!Delivered'
    <3> SUFFICES ASSUME result = "ok", ~edited PROVE Managed!Delivered'
      OBVIOUS
    <3>1. Managed!Delivered /\ draft \in Posts
      BY DEF Managed!ThreadInv, Managed!RestInv, Managed!ThreadTypes
    <3>2. \A k \in 1..Len(draft) : k \in Managed!Place
      BY <3>1, SegmentType
    <3>3. Managed!ByComposio(draft[1]) => Managed!ByComposio(draft[1])'
      BY <2>1, <2>3 DEF PostsExtend, Managed!ByComposio
    <3> QED
      BY <2>1, <2>3, <3>1, <3>2, <3>3 DEF PostsExtend, Managed!Delivered
  <2>6. CallsGoOn
    BY <2>1, <2>4, <2>5 DEF CallsGoOn, Managed!ThreadInv, Managed!ThreadTypes, Managed!RestInv
  <2> QED
    BY <1>2, <2>1, <2>2, <2>6, ManagedStep
<1>9. CASE Managed!Crash
  <2>1. /\ step # "idle" /\ step' = "idle" /\ via' = "none" /\ parent' = 0
        /\ UNCHANGED <<draft, edited, posts, served, late, runs, result>>
    BY <1>9 DEF Managed!Crash
  <2>2. CallsGoOn
    BY <1>2, <2>1 DEF CallsGoOn, Managed!RunInv
  <2> QED
    BY <1>1, <1>2, <1>3, <2>1, <2>2, ManagedStep
<1>10. CASE UNCHANGED Managed!vars
  BY <1>10 DEF Managed!vars, Managed!ThreadInv, Managed!ThreadTypes, Managed!PostsInv, Managed!ByTreg,
       Managed!Sound, Managed!Follows, Managed!AsDrafted, Managed!RunInv, Managed!RestInv,
       Managed!Delivered, Managed!ByComposio
<1> QED
  BY <1>4, <1>5, <1>6, <1>7, <1>8, <1>9, <1>10 DEF Managed!Next

LEMMA ManagedInvImplies ==
  ASSUME Managed!DraftsAssumption, Managed!ThreadInv
  PROVE  Managed!ThreadDelivered
<1>1. \A i \in DOMAIN posts : posts[i].key \in Managed!Place
  <2>1. \A i \in DOMAIN posts : posts[i] \in Managed!CallType
    BY ElementOfSeq, LenProperties DEF Managed!ThreadInv, Managed!ThreadTypes
  <2> QED
    BY <2>1 DEF Managed!CallType
<1>2. Managed!TregOnceInOrder
  <2> SUFFICES ASSUME NEW i \in Managed!ByTreg
               PROVE  /\ \A j \in Managed!ByTreg : posts[j].key = posts[i].key => j = i
                      /\ IF posts[i].key = 1 THEN posts[i].after = 0
                         ELSE /\ posts[i].after \in Managed!ByTreg
                              /\ posts[posts[i].after].key = posts[i].key - 1
    BY DEF Managed!TregOnceInOrder
  <2>1. \A j \in Managed!ByTreg : posts[j].key = posts[i].key => j = i
    BY DEF Managed!ThreadInv, Managed!PostsInv
  <2>2. i \in DOMAIN posts /\ Managed!Follows(posts[i].key, posts[i].after)
    BY DEF Managed!ThreadInv, Managed!PostsInv, Managed!Sound, Managed!ByTreg
  <2>3. posts[i].key # 1 => posts[i].key - 1 \in Managed!Place
    BY <1>1, <2>2 DEF Managed!Place, Managed!DraftsAssumption
  <2> QED
    BY <2>1, <2>2, <2>3 DEF Managed!Follows, Managed!ThreadInv, Managed!PostsInv
<1>3. Managed!OkWasSent
  <2> SUFFICES ASSUME result = "ok", ~edited
               PROVE  IF via = "treg"
                      THEN \A k \in 1..Len(draft) : \E i \in Managed!ByTreg :
                              posts[i].key = k /\ posts[i].text = draft[k].text
                      ELSE \E i \in DOMAIN posts : posts[i].via = "composio"
                              /\ posts[i].text = draft[1].text /\ posts[i].media = draft[1].media
    BY DEF Managed!OkWasSent
  <2>1. Managed!Delivered /\ draft \in Posts
    BY DEF Managed!ThreadInv, Managed!RestInv, Managed!ThreadTypes
  <2>2. ASSUME via = "treg", NEW k \in 1..Len(draft)
        PROVE  \E i \in Managed!ByTreg : posts[i].key = k /\ posts[i].text = draft[k].text
    <3>1. k \in Managed!Place /\ served[k] # 0
      BY <2>1, <2>2, SegmentType DEF Managed!Delivered
    <3>2. served[k] \in Managed!ByTreg /\ posts[served[k]].key = k
      BY <3>1 DEF Managed!ThreadInv, Managed!PostsInv
    <3>3. posts[served[k]].text = draft[k].text
      BY <3>2 DEF Managed!ByTreg, Managed!ThreadInv, Managed!PostsInv, Managed!Sound, Managed!AsDrafted
    <3> QED
      BY <3>2, <3>3
  <2> QED
    BY <2>1, <2>2 DEF Managed!Delivered, Managed!ByComposio
<1> QED
  BY <1>2, <1>3 DEF Managed!ThreadDelivered

\* Whichever gateway each run goes through and whatever is retried, lost, late or edited, Treg
\* leaves one post per segment, each a reply to the one before, and a success was sent, for any
\* drafts and any number of attempts and runs (TregProvider::publish, ComposioProvider::publish).
THEOREM ManagedThreadDelivered ==
  ASSUME Managed!DraftsAssumption
  PROVE  ProvidersSpec => []ThreadDelivered
<1> DEFINE Inv == which = "managed" => Managed!ThreadInv
<1>1. Managed!Init => Managed!ThreadInv
  <2> SUFFICES ASSUME Managed!Init PROVE Managed!ThreadInv
    OBVIOUS
  <2>1. posts = <<>> /\ DOMAIN posts = {} /\ posts \in Seq(Managed!CallType)
    BY DEF Managed!Init
  <2> QED
    BY <2>1 DEF Managed!Init, Managed!ThreadInv, Managed!ThreadTypes, Managed!PostsInv, Managed!ByTreg,
         Managed!RunInv, Managed!RestInv
<1>2. Managed!ThreadInv /\ [Managed!Next]_Managed!vars => Managed!ThreadInv'
  BY ManagedNext
<1>3. Managed!ThreadInv => Managed!ThreadDelivered
  BY ManagedInvImplies
<1>4. ProvidersInit => Inv
  BY <1>1 DEF ProvidersInit
<1>5. Inv /\ [ProvidersNext]_PartVars => Inv'
  BY <1>2, ThreadsAreTheirParts
<1>6. Inv => ThreadDelivered
  BY <1>3 DEF ThreadDelivered
<1> QED
  BY <1>4, <1>5, <1>6, PTL DEF ProvidersSpec

-----------------------------------------------------------------------------
(***************************************************************************)
(* AgentGrant: GInv is inductive, so a run's actor is never older than the *)
(* edit whose text it sends, for every number of posts and agents.         *)
(***************************************************************************)

USE ActorAssumption

\* The database an older version left satisfies the invariant.
LEMMA InitGInv == Init => GInv
<1> SUFFICES ASSUME Init PROVE GInv
  OBVIOUS
<1> USE DEF Init, IdleRun
<1>1. TypeOK
  BY DEF TypeOK, Status, Actor, Grant, Run, Relation
<1>2. TextRecorded /\ DraftReadRecorded /\ OwnMeansGranted
  BY DEF TextRecorded, DraftReadRecorded, OwnMeansGranted
<1>3. ActorKnowsTheEdit /\ OwnTextOwnAccess
  BY DEF ActorKnowsTheEdit, OwnTextOwnAccess
<1>4. SealedAtRest
  BY DEF SealedAtRest
<1> QED
  BY <1>1, <1>2, <1>3, <1>4 DEF GInv

\* What a recorded actor is to each agent is never "before".
LEMMA RelationType ==
  ASSUME NEW b \in Actor
  PROVE  /\ RelationTo(b) \in [Agent -> Relation]
         /\ \A a \in Agent : RelationTo(b)[a] # "before"
         /\ \A a \in Agent : RelationTo(b)[a] = "own" <=> a = b
BY DEF RelationTo, Relation

\* A request that replaces the actor of a post, and the status it leaves it in.
LEMMA RecordStep ==
  ASSUME GInv, NEW p \in Post, NEW b \in Actor, Record(p, b),
         status' \in [Post -> Status],
         \A q \in Post : q # p => status'[q] = status[q],
         status[p] # "publishing", status'[p] # "publishing",
         UNCHANGED <<text, editing, run, keyed, clean>>
  PROVE  GInv'
<1> USE DEF GInv
<1>1. /\ grant' \in [Post -> Grant]
      /\ grant'[p] = [by |-> b, form |-> "sealed"]
      /\ \A q \in Post : q # p => grant'[q] = grant[q]
  BY DEF Record, Recorded, Grant, TypeOK
<1>2. /\ latest' \in [Post -> [Agent -> Relation]]
      /\ latest'[p] = RelationTo(b)
      /\ \A q \in Post : q # p => latest'[q] = latest[q]
  BY RelationType DEF Record, TypeOK
<1>3. run[p].at = "idle"
  BY DEF TypeOK, Run
<1>4. TypeOK'
  BY <1>1, <1>2, <1>3 DEF TypeOK
<1>5. TextRecorded'
  BY <1>2, RelationType DEF TextRecorded
<1>6. DraftReadRecorded' /\ ActorKnowsTheEdit' /\ OwnTextOwnAccess'
  BY <1>2, <1>3 DEF DraftReadRecorded, ActorKnowsTheEdit, OwnTextOwnAccess
<1>7. OwnMeansGranted'
  <2> SUFFICES ASSUME NEW q \in Post, NEW a \in Agent, latest'[q][a] = "own"
               PROVE  grant'[q].by = a
    BY DEF OwnMeansGranted
  <2>1. CASE q = p
    BY <2>1, <1>1, <1>2, RelationType
  <2>2. CASE q # p
    BY <2>2, <1>1, <1>2 DEF OwnMeansGranted
  <2> QED
    BY <2>1, <2>2
<1>8. SealedAtRest'
  <2> SUFFICES ASSUME NEW q \in Post
               PROVE  grant'[q].form # "plain" /\ (clean' => grant'[q].form = "sealed")
    BY DEF SealedAtRest
  <2>1. CASE q = p
    BY <2>1, <1>1
  <2>2. CASE q # p
    BY <2>2, <1>1 DEF SealedAtRest
  <2> QED
    BY <2>1, <2>2
<1> QED
  BY <1>4, <1>5, <1>6, <1>7, <1>8

\* An agent's edit records its grant on every post that can still be published.
LEMMA EditBeginStep ==
  ASSUME GInv, NEW a \in Agent, EditBegin(a)
  PROVE  GInv'
<1> USE DEF GInv, EditBegin, MarkedBy
<1> DEFINE Marked == {p \in Post : status[p] \in Unpublished}
<1>0. a \in Actor
  BY DEF Actor
<1>1. /\ grant' \in [Post -> Grant]
      /\ \A p \in Marked : grant'[p] = [by |-> a, form |-> "sealed"]
      /\ \A p \in Post \ Marked : grant'[p] = grant[p]
  BY <1>0 DEF Recorded, Grant, TypeOK
<1>2. /\ latest' \in [Post -> [Agent -> Relation]]
      /\ \A p \in Marked : latest'[p] = RelationTo(a)
      /\ \A p \in Post \ Marked : latest'[p] = [latest[p] EXCEPT ![a] = "before"]
  BY <1>0, RelationType DEF TypeOK, Relation
<1>3. \A p \in Post \ Marked : run[p].at = "idle"
  BY DEF TypeOK, Unpublished
<1>4. TypeOK'
  BY <1>1, <1>2 DEF TypeOK
<1>5. TextRecorded'
  BY <1>0, <1>2, RelationType DEF TextRecorded
<1>6. DraftReadRecorded'
  BY <1>0, <1>2, <1>3, RelationType DEF DraftReadRecorded
<1>7. ActorKnowsTheEdit' /\ OwnTextOwnAccess'
  BY DEF ActorKnowsTheEdit, OwnTextOwnAccess
<1>8. OwnMeansGranted'
  <2> SUFFICES ASSUME NEW p \in Post, NEW b \in Agent, latest'[p][b] = "own"
               PROVE  grant'[p].by = b
    BY DEF OwnMeansGranted
  <2>1. CASE p \in Marked
    BY <2>1, <1>0, <1>1, <1>2, RelationType
  <2>2. CASE p \notin Marked
    <3>1. b # a /\ latest[p][b] = "own"
      BY <2>2, <1>2 DEF TypeOK
    <3> QED
      BY <2>2, <3>1, <1>1 DEF OwnMeansGranted
  <2> QED
    BY <2>1, <2>2
<1>9. SealedAtRest'
  <2> SUFFICES ASSUME NEW q \in Post
               PROVE  grant'[q].form # "plain" /\ (clean' => grant'[q].form = "sealed")
    BY DEF SealedAtRest
  <2>1. CASE q \in Marked
    BY <2>1, <1>1
  <2>2. CASE q \notin Marked
    BY <2>2, <1>1 DEF SealedAtRest
  <2> QED
    BY <2>1, <2>2
<1> QED
  BY <1>4, <1>5, <1>6, <1>7, <1>8, <1>9

\* Requests go through RecordStep.
LEMMA RequestStep ==
  ASSUME GInv, NEW p \in Post, NEW b \in Actor, Request(p, b)
  PROVE  GInv'
<1> USE DEF GInv, TypeOK, Status
<1>1. CASE Schedule(p, b)
  BY <1>1, RecordStep DEF Schedule
<1>2. CASE Reschedule(p, b)
  BY <1>2, RecordStep DEF Reschedule
<1>3. CASE PublishNow(p, b)
  BY <1>3, RecordStep DEF PublishNow
<1>4. CASE Retry(p, b)
  BY <1>4, RecordStep DEF Retry
<1> QED
  BY <1>1, <1>2, <1>3, <1>4 DEF Request

\* A status change alone, to a post no run holds, keeps what is recorded if an
\* unpublished post was unpublished before.
LEMMA StatusStep ==
  ASSUME GInv, NEW p \in Post, status[p] \in {"scheduled", "due"},
         NEW s \in {"due", "cancelled"}, status' = [status EXCEPT ![p] = s],
         UNCHANGED <<grant, text, editing, run, keyed, clean, latest>>
  PROVE  GInv'
<1> USE DEF GInv
<1>1. TypeOK'
  BY DEF TypeOK, Status
<1>2. TextRecorded'
  BY DEF TypeOK, TextRecorded, Unpublished
<1>3. DraftReadRecorded' /\ OwnMeansGranted' /\ ActorKnowsTheEdit' /\ OwnTextOwnAccess'
  BY DEF DraftReadRecorded, OwnMeansGranted, ActorKnowsTheEdit, OwnTextOwnAccess
<1>4. SealedAtRest'
  BY DEF TypeOK, SealedAtRest
<1> QED
  BY <1>1, <1>2, <1>3, <1>4

\* The steps of a run.
LEMMA RunStep ==
  ASSUME GInv, NEW p \in Post,
         RunClaim(p) \/ RunReadDraft(p) \/ RunReadGrant(p) \/ RunSettle(p)
  PROVE  GInv'
<1> USE DEF GInv
<1>1. IdleRun \in Run /\ IdleRun.at = "idle"
  BY DEF IdleRun, Run, Actor, Relation
<1>2. CASE RunClaim(p)
  <2> USE <1>2 DEF RunClaim
  <2>1. TypeOK'
    <3>1. status' \in [Post -> Status] /\ run'[p].at = "draft" /\ status'[p] = "publishing"
      BY DEF TypeOK, Status, Run
    <3>2. run' \in [Post -> Run]
      <4>1. [run[p] EXCEPT !.at = "draft"] \in Run
        BY DEF TypeOK, Run
      <4> QED
        BY <4>1 DEF TypeOK
    <3>3. \A o \in Post : run'[o].at # "idle" => status'[o] = "publishing"
      BY DEF TypeOK
    <3> QED
      BY <3>1, <3>2, <3>3 DEF TypeOK
  <2>2. TextRecorded'
    BY DEF TypeOK, TextRecorded, Unpublished
  <2>3. DraftReadRecorded' /\ OwnMeansGranted' /\ ActorKnowsTheEdit' /\ OwnTextOwnAccess'
    BY DEF TypeOK, DraftReadRecorded, OwnMeansGranted, ActorKnowsTheEdit, OwnTextOwnAccess
  <2>4. SealedAtRest'
    BY DEF TypeOK, SealedAtRest
  <2> QED
    BY <2>1, <2>2, <2>3, <2>4
<1>3. CASE RunReadDraft(p)
  <2> USE <1>3 DEF RunReadDraft
  <2>1. TypeOK'
    <3>1. run' \in [Post -> Run]
      <4>1. [run[p] EXCEPT !.at = "grant", !.text = text] \in Run
        BY DEF TypeOK, Run
      <4> QED
        BY <4>1 DEF TypeOK
    <3>2. \A o \in Post : run'[o].at # "idle" => status'[o] = "publishing"
      BY DEF TypeOK
    <3> QED
      BY <3>1, <3>2 DEF TypeOK
  <2>2. status[p] = "publishing"
    BY DEF TypeOK
  <2>3. DraftReadRecorded'
    BY <2>2 DEF TypeOK, DraftReadRecorded, TextRecorded, Unpublished, Run
  <2>4. TextRecorded' /\ OwnMeansGranted' /\ SealedAtRest'
    BY DEF TextRecorded, OwnMeansGranted, SealedAtRest
  <2>5. ActorKnowsTheEdit' /\ OwnTextOwnAccess'
    BY DEF TypeOK, Run, ActorKnowsTheEdit, OwnTextOwnAccess
  <2> QED
    BY <2>1, <2>3, <2>4, <2>5
<1>4. CASE RunReadGrant(p)
  <2> USE <1>4 DEF RunReadGrant
  <2>1. TypeOK'
    <3>1. run' \in [Post -> Run]
      <4>1. [run[p] EXCEPT !.at = "publishing", !.latest = latest[p], !.actor = grant[p].by] \in Run
        BY DEF TypeOK, Grant, Run
      <4> QED
        BY <1>1, <4>1 DEF TypeOK
    <3>2. \A o \in Post : run'[o].at # "idle" => status'[o] = "publishing"
      BY <1>1 DEF TypeOK
    <3> QED
      BY <3>1, <3>2 DEF TypeOK
  <2>2. TextRecorded' /\ OwnMeansGranted' /\ SealedAtRest'
    BY DEF TextRecorded, OwnMeansGranted, SealedAtRest
  <2>3. DraftReadRecorded'
    BY <1>1 DEF TypeOK, DraftReadRecorded, Run
  <2>4. ActorKnowsTheEdit'
    BY <1>1 DEF TypeOK, ActorKnowsTheEdit, DraftReadRecorded, Run
  <2>5. OwnTextOwnAccess'
    BY <1>1 DEF TypeOK, OwnTextOwnAccess, OwnMeansGranted, Run
  <2> QED
    BY <2>1, <2>2, <2>3, <2>4, <2>5
<1>5. CASE RunSettle(p)
  <2> USE <1>5 DEF RunSettle
  <2>1. TypeOK'
    BY <1>1 DEF TypeOK, Status
  <2>2. status[p] = "publishing"
    BY DEF TypeOK
  <2>3. TextRecorded' /\ SealedAtRest'
    BY <2>2 DEF TypeOK, TextRecorded, Unpublished, SealedAtRest
  <2>4. DraftReadRecorded' /\ OwnMeansGranted' /\ ActorKnowsTheEdit' /\ OwnTextOwnAccess'
    BY <1>1 DEF TypeOK, DraftReadRecorded, OwnMeansGranted, ActorKnowsTheEdit, OwnTextOwnAccess
  <2> QED
    BY <2>1, <2>3, <2>4
<1> QED
  BY <1>2, <1>3, <1>4, <1>5

\* The second half of an edit, and a person's.
LEMMA TextStep ==
  ASSUME GInv,
         \/ PersonEdit
         \/ \E a \in Agent : EditText(a) \/ EditDropped(a)
  PROVE  GInv'
<1> USE DEF GInv, PersonEdit, EditText, EditDropped
<1>1. TypeOK'
  BY DEF TypeOK, Actor
<1>2. TextRecorded'
  BY DEF TextRecorded, TypeOK
<1>3. DraftReadRecorded' /\ OwnMeansGranted' /\ ActorKnowsTheEdit' /\ OwnTextOwnAccess'
  BY DEF DraftReadRecorded, OwnMeansGranted, ActorKnowsTheEdit, OwnTextOwnAccess
<1>4. SealedAtRest'
  BY DEF SealedAtRest
<1> QED
  BY <1>1, <1>2, <1>3, <1>4

\* A restart: no run and no edit survives it, every actor does.
LEMMA RestartStep ==
  ASSUME GInv, NEW hasKey \in BOOLEAN, NEW passes \in BOOLEAN, Restart(hasKey, passes)
  PROVE  GInv'
<1> USE DEF GInv, Restart, Recovered
<1>1. run' \in [Post -> Run] /\ \A p \in Post : run'[p].at = "idle"
  BY DEF IdleRun, Run, Actor, Relation
<1>2. /\ status' \in [Post -> Status]
      /\ \A p \in Post : status'[p] \in Unpublished => status[p] \in Unpublished
  BY DEF TypeOK, Status, Unpublished
<1>3. /\ grant' \in [Post -> Grant]
      /\ \A p \in Post : grant'[p].by = grant[p].by
      /\ passes => \A p \in Post : grant'[p].form = "sealed"
      /\ ~passes => \A p \in Post : grant'[p] = grant[p]
  BY DEF TypeOK, Grant, Recorded
<1>4. TypeOK'
  BY <1>1, <1>2, <1>3 DEF TypeOK
<1>5. TextRecorded'
  BY <1>2 DEF TextRecorded
<1>6. DraftReadRecorded' /\ ActorKnowsTheEdit' /\ OwnTextOwnAccess'
  BY <1>1 DEF DraftReadRecorded, ActorKnowsTheEdit, OwnTextOwnAccess
<1>7. OwnMeansGranted'
  BY <1>3 DEF OwnMeansGranted
<1>8. SealedAtRest'
  BY <1>3 DEF SealedAtRest
<1> QED
  BY <1>4, <1>5, <1>6, <1>7, <1>8

\* Every step of the specification keeps the invariant.
LEMMA NextGInv == GInv /\ [Next]_vars => GInv'
<1> SUFFICES ASSUME GInv, [Next]_vars PROVE GInv'
  OBVIOUS
<1>1. CASE \E p \in Post, b \in Actor : Request(p, b)
  BY <1>1, RequestStep
<1>2. CASE \E p \in Post : Cancel(p) \/ Sweep(p)
  BY <1>2, StatusStep DEF Cancel, Sweep
<1>3. CASE \E p \in Post : RunClaim(p) \/ RunReadDraft(p) \/ RunReadGrant(p) \/ RunSettle(p)
  BY <1>3, RunStep
<1>4. CASE \E a \in Agent : EditBegin(a)
  BY <1>4, EditBeginStep
<1>5. CASE PersonEdit \/ \E a \in Agent : EditText(a) \/ EditDropped(a)
  BY <1>5, TextStep
<1>6. CASE \E hasKey, passes \in BOOLEAN : Restart(hasKey, passes)
  BY <1>6, RestartStep
<1>7. CASE UNCHANGED vars
  BY <1>7 DEF vars, GInv, TypeOK, TextRecorded, DraftReadRecorded, OwnMeansGranted,
              ActorKnowsTheEdit, OwnTextOwnAccess, SealedAtRest
<1> QED
  BY <1>1, <1>2, <1>3, <1>4, <1>5, <1>6, <1>7 DEF Next, PublishStep, Edit

\* The inductive invariant holds in every reachable state.
THEOREM GrantInvariant == Spec => []GInv
BY InitGInv, NextGInv, PTL DEF Spec

\* The columns, the runs and the relations keep their types.
THEOREM GrantTypeCorrect == Spec => []TypeOK
<1>1. GInv => TypeOK
  BY DEF GInv
<1> QED
  BY <1>1, GrantInvariant, PTL

\* No run pairs an agent's text with an actor recorded before the edit began.
THEOREM ActorKnows == Spec => []ActorKnowsTheEdit
<1>1. GInv => ActorKnowsTheEdit
  BY DEF GInv
<1> QED
  BY <1>1, GrantInvariant, PTL

\* An agent that acted last publishes its own text with its own access.
THEOREM OwnAccess == Spec => []OwnTextOwnAccess
<1>1. GInv => OwnTextOwnAccess
  BY DEF GInv
<1> QED
  BY <1>1, GrantInvariant, PTL

\* No grant of this version's is ever in the clear, and from the first pass that went through none
\* at all is, whichever processes follow, with a key or without (reseal_plaintext_agent_grants).
THEOREM Sealed == Spec => []SealedAtRest
<1>1. GInv => SealedAtRest
  BY DEF GInv
<1> QED
  BY <1>1, GrantInvariant, PTL

\* A grant goes with its agent's text, and is in the clear only if an older version left it so
\* and no pass has gone through.
THEOREM Kept == Spec => []GrantKept
<1>1. OwnTextOwnAccess /\ SealedAtRest => GrantKept
  BY DEF GrantKept
<1> QED
  BY <1>1, OwnAccess, Sealed, PTL

-----------------------------------------------------------------------------
(* Induction on numbers, from the order on them being well founded.         *)

\* A set of numbers that is not empty has a smallest.
LEMMA Least ==
  ASSUME NEW T \in SUBSET Nat, T # {}
  PROVE  \E m \in T : \A k \in T : m <= k
<1>1. PICK m \in T : \A k \in T : ~(<<k, m>> \in OpToRel(<, Nat))
  BY NatLessThanWellFounded, WFMin
<1>2. \A k \in T : ~(k < m)
  BY <1>1 DEF OpToRel
<1> QED
  BY <1>2

\* What holds of 0, and of n + 1 if it holds of n, holds of every number.
LEMMA NumbersFollow ==
  ASSUME NEW S, 0 \in S, \A n \in Nat : n \in S => n + 1 \in S
  PROVE  Nat \subseteq S
<1> SUFFICES ASSUME Nat \ S # {} PROVE FALSE
  OBVIOUS
<1>1. PICK m \in Nat \ S : \A k \in Nat \ S : m <= k
  BY Least
<1>2. m - 1 \in Nat /\ m - 1 \in S
  BY <1>1
<1>3. (m - 1) + 1 \in S
  BY <1>2
<1> QED
  BY <1>1, <1>3

\* A step can be repeated any number of times.
Repeats(f, S, first, stepping) == f \in [Nat -> S] /\ f[0] = first /\ \A n \in Nat : f[n + 1] = stepping[f[n]]

LEMMA StepsRepeat ==
  ASSUME NEW S, NEW first \in S, NEW stepping \in [S -> S]
  PROVE  \E f : Repeats(f, S, first, stepping)
<1> DEFINE Begins(g, k) == g \in [0..k -> S] /\ g[0] = first /\ \A n \in 0..(k - 1) : g[n + 1] = stepping[g[n]]
           Long == {k \in Nat : \E g \in [0..k -> S] : Begins(g, k)}
           Alike == {k \in Nat : \A m \in Nat : \A g \in [0..m -> S], h \in [0..k -> S] :
                                   k <= m /\ Begins(g, m) /\ Begins(h, k) => g[k] = h[k]}
           G(k) == CHOOSE g : Begins(g, k)
<1>1. 0 \in Long
  <2>1. [n \in 0..0 |-> first] \in [0..0 -> S]
    OBVIOUS
  <2>2. Begins([n \in 0..0 |-> first], 0)
    BY <2>1
  <2> QED
    BY <2>1, <2>2
<1>2. ASSUME NEW k \in Nat, k \in Long PROVE k + 1 \in Long
  <2>1. PICK g \in [0..k -> S] : Begins(g, k)
    BY <1>2
  <2> DEFINE h == [n \in 0..(k + 1) |-> IF n = k + 1 THEN stepping[g[k]] ELSE g[n]]
  <2>2. h \in [0..(k + 1) -> S]
    BY <2>1
  <2>3. h[0] = first
    BY <2>1
  <2>4. ASSUME NEW n \in 0..k PROVE h[n + 1] = stepping[h[n]]
    <3>1. h[n] = g[n]
      BY <2>4
    <3>2. CASE n = k
      BY <3>1, <3>2
    <3>3. CASE n # k
      <4>1. n \in 0..(k - 1) /\ n + 1 \in 0..(k + 1) /\ n + 1 # k + 1
        BY <3>3
      <4>2. h[n + 1] = g[n + 1] /\ g[n + 1] = stepping[g[n]]
        BY <4>1, <2>1
      <4> QED
        BY <4>2, <3>1
    <3> QED
      BY <3>2, <3>3
  <2>5. 0..((k + 1) - 1) = 0..k
    OBVIOUS
  <2> HIDE DEF h
  <2>6. Begins(h, k + 1)
    BY <2>2, <2>3, <2>4, <2>5
  <2> QED
    BY <2>2, <2>6
<1> HIDE DEF Begins
<1>3. Nat \subseteq Long
  BY <1>1, <1>2, NumbersFollow
<1>4. \A k \in Nat : Begins(G(k), k)
  BY <1>3
<1> HIDE DEF G
<1>5. \A k \in Nat : G(k)[k] \in S
  BY <1>4 DEF Begins
<1>6. \A k \in Nat : \A g \in [0..(k + 1) -> S] : Begins(g, k + 1) => Begins([n \in 0..k |-> g[n]], k)
  <2> SUFFICES ASSUME NEW k \in Nat, NEW g \in [0..(k + 1) -> S], Begins(g, k + 1)
               PROVE  Begins([n \in 0..k |-> g[n]], k)
    OBVIOUS
  <2>1. [n \in 0..k |-> g[n]] \in [0..k -> S]
    OBVIOUS
  <2>2. \A n \in 0..(k - 1) : n \in 0..((k + 1) - 1) /\ n \in 0..k /\ n + 1 \in 0..k
    OBVIOUS
  <2> QED
    BY <2>1, <2>2 DEF Begins
\* Two beginnings agree as far as the shorter goes.
<1>7. 0 \in Alike
  BY DEF Begins
<1>8. ASSUME NEW k \in Nat, k \in Alike PROVE k + 1 \in Alike
  <2> SUFFICES ASSUME NEW m \in Nat, NEW g \in [0..m -> S], NEW h \in [0..(k + 1) -> S],
                      k + 1 <= m, Begins(g, m), Begins(h, k + 1)
               PROVE  g[k + 1] = h[k + 1]
    OBVIOUS
  <2> DEFINE i == [n \in 0..k |-> h[n]]
  <2>1. Begins(i, k) /\ i \in [0..k -> S]
    BY <1>6
  <2>2. g[k] = i[k] /\ i[k] = h[k]
    BY <2>1, <1>8
  <2>3. k \in 0..(m - 1) /\ k \in 0..((k + 1) - 1)
    OBVIOUS
  <2>4. g[k + 1] = stepping[g[k]] /\ h[k + 1] = stepping[h[k]]
    BY <2>3 DEF Begins
  <2> QED
    BY <2>2, <2>4
<1>9. Nat \subseteq Alike
  <2> HIDE DEF Alike
  <2> QED
    BY <1>7, <1>8, NumbersFollow
<1> DEFINE f == [k \in Nat |-> G(k)[k]]
<1>10. f \in [Nat -> S]
  BY <1>5
<1>11. f[0] = first
  BY <1>4 DEF Begins
<1>12. ASSUME NEW n \in Nat PROVE f[n + 1] = stepping[f[n]]
  <2>1. Begins(G(n), n) /\ Begins(G(n + 1), n + 1)
    BY <1>4
  <2>2. G(n) \in [0..n -> S] /\ G(n + 1) \in [0..(n + 1) -> S]
    BY <2>1 DEF Begins
  <2>3. G(n + 1)[n] = G(n)[n]
    BY <1>9, <2>1, <2>2
  <2>4. n \in 0..((n + 1) - 1)
    OBVIOUS
  <2>5. G(n + 1)[n + 1] = stepping[G(n + 1)[n]]
    BY <2>1, <2>4 DEF Begins
  <2> QED
    BY <2>3, <2>5
<1> QED
  BY <1>10, <1>11, <1>12 DEF Repeats

-----------------------------------------------------------------------------
(* ModelStream.                                                            *)

\* The boundary is the first place with two newlines.
LEMMA BoundaryIsFirst ==
  ASSUME NEW T, NEW bytes \in Seq(T), NEW edge, edge = Stream!FindBoundary(bytes)
  PROVE  /\ edge \in Nat
         /\ edge # 0 => /\ edge \in 1..Len(bytes) - 1 /\ bytes[edge] = "NL" /\ bytes[edge + 1] = "NL"
                      /\ \A j \in 1..edge - 1 : ~(bytes[j] = "NL" /\ bytes[j + 1] = "NL")
         /\ edge = 0 => \A j \in 1..Len(bytes) - 1 : ~(bytes[j] = "NL" /\ bytes[j + 1] = "NL")
<1> DEFINE Blank == {i \in 1..Len(bytes) - 1 : bytes[i] = "NL" /\ bytes[i + 1] = "NL"}
<1>1. edge = IF Blank = {} THEN 0 ELSE CHOOSE i \in Blank : \A j \in Blank : i <= j
  BY DEF Stream!FindBoundary, Stream!NL
<1>2. CASE Blank = {}
  <2>1. edge = 0
    BY <1>1, <1>2
  <2>2. \A j \in 1..Len(bytes) - 1 : j \notin Blank
    BY <1>2
  <2> QED
    BY <2>1, <2>2
<1>3. CASE Blank # {}
  <2>1. Blank \in SUBSET Nat
    OBVIOUS
  <2>2. \E i \in Blank : \A j \in Blank : i <= j
    BY <1>3, <2>1, Least
  <2>3. edge \in Blank /\ \A j \in Blank : edge <= j
    BY <1>1, <1>3, <2>2
  <2>4. edge \in 1..Len(bytes) - 1 /\ bytes[edge] = "NL" /\ bytes[edge + 1] = "NL"
    BY <2>3
  <2>5. ASSUME NEW j \in 1..edge - 1 PROVE ~(bytes[j] = "NL" /\ bytes[j + 1] = "NL")
    <3>1. j \in 1..Len(bytes) - 1 /\ ~(edge <= j)
      BY <2>4
    <3> QED
      BY <2>3, <3>1
  <2> QED
    BY <2>4, <2>5
<1> QED
  BY <1>2, <1>3

\* A boundary of the beginning is one of the whole, and the other way if it is within.
LEMMA BoundaryOfBeginning ==
  ASSUME NEW T, NEW bytes \in Seq(T), NEW n \in 0..Len(bytes),
         NEW edge, edge = Stream!FindBoundary(bytes),
         NEW early, early = Stream!FindBoundary(SubSeq(bytes, 1, n))
  PROVE  /\ early # 0 => edge = early
         /\ edge # 0 /\ edge + 1 <= n => early = edge
<1> DEFINE short == SubSeq(bytes, 1, n)
<1>1. short \in Seq(T) /\ Len(short) = n /\ \A i \in 1..n : short[i] = bytes[i]
  OBVIOUS
<1> HIDE DEF short
<1>2. early = Stream!FindBoundary(short)
  BY DEF short
<1>3. /\ edge \in Nat
      /\ edge # 0 => /\ edge \in 1..Len(bytes) - 1 /\ bytes[edge] = "NL" /\ bytes[edge + 1] = "NL"
                   /\ \A j \in 1..edge - 1 : ~(bytes[j] = "NL" /\ bytes[j + 1] = "NL")
      /\ edge = 0 => \A j \in 1..Len(bytes) - 1 : ~(bytes[j] = "NL" /\ bytes[j + 1] = "NL")
  BY BoundaryIsFirst
<1>4. /\ early \in Nat
      /\ early # 0 => /\ early \in 1..n - 1 /\ short[early] = "NL" /\ short[early + 1] = "NL"
                      /\ \A j \in 1..early - 1 : ~(short[j] = "NL" /\ short[j + 1] = "NL")
      /\ early = 0 => \A j \in 1..n - 1 : ~(short[j] = "NL" /\ short[j + 1] = "NL")
  BY <1>1, <1>2, BoundaryIsFirst
<1>5. ASSUME early # 0 PROVE edge = early
  <2>1. early \in 1..Len(bytes) - 1 /\ bytes[early] = "NL" /\ bytes[early + 1] = "NL"
    BY <1>1, <1>4, <1>5
  <2>2. edge # 0 /\ edge <= early
    BY <1>3, <2>1
  <2>3. ASSUME edge < early PROVE FALSE
    <3>1. edge \in 1..early - 1 /\ edge \in 1..n /\ edge + 1 \in 1..n
      BY <1>3, <1>4, <1>5, <2>2, <2>3
    <3> QED
      BY <1>1, <1>3, <1>4, <1>5, <2>2, <3>1
  <2> QED
    BY <1>3, <2>1, <2>2, <2>3
<1>6. ASSUME edge # 0, edge + 1 <= n PROVE early = edge
  <2>1. edge \in 1..n - 1 /\ short[edge] = "NL" /\ short[edge + 1] = "NL"
    BY <1>1, <1>3, <1>6
  <2>2. early # 0
    BY <1>4, <2>1
  <2> QED
    BY <2>2, <1>5
<1> QED
  BY <1>5, <1>6

\* A frame gives one item or none.
LEMMA ParsesToItems ==
  ASSUME NEW frame
  PROVE  Stream!Parse(frame) \in Seq(Stream!Item)
<1>1. \A e \in Stream!Item : <<e>> \in Seq(Stream!Item)
  OBVIOUS
<1>2. <<>> \in Seq(Stream!Item)
  OBVIOUS
<1>3. {"TextDelta", "Completed", "Failed", "ErrProtocol"} \subseteq Stream!Item
  BY DEF Stream!Item, Stream!Delta
<1> QED
  BY <1>1, <1>2, <1>3 DEF Stream!Parse, Stream!Delta

\* Where one who has a body can be.
Places(bytes) == [pos : 0..Len(bytes), items : Seq(Stream!Item), over : BOOLEAN]

LEMMA FurtherIsAPlace ==
  ASSUME NEW bytes \in Seq(STRING), NEW r \in Places(bytes)
  PROVE  Stream!Further(bytes, r) \in Places(bytes) /\ r.pos <= Stream!Further(bytes, r).pos
<1> DEFINE edge == Stream!FindBoundary(SubSeq(bytes, r.pos + 1, Len(bytes)))
           given == Stream!Parse(SubSeq(bytes, r.pos + 1, r.pos + edge - 1))
<1>1. r.pos \in 0..Len(bytes) /\ r.items \in Seq(Stream!Item) /\ r.over \in BOOLEAN
  BY DEF Places
<1>2. SubSeq(bytes, r.pos + 1, Len(bytes)) \in Seq(STRING) /\ Len(SubSeq(bytes, r.pos + 1, Len(bytes))) = Len(bytes) - r.pos
  BY <1>1
<1>3. edge \in Nat /\ (edge # 0 => edge \in 1..(Len(bytes) - r.pos) - 1)
  BY <1>2, BoundaryIsFirst
<1>4. given \in Seq(Stream!Item)
  BY ParsesToItems
<1>5. (\E i \in DOMAIN given : Stream!Ends(given[i])) \in BOOLEAN
  OBVIOUS
<1> HIDE DEF edge, given
<1>6. edge # 0 => r.pos + edge + 1 \in 0..Len(bytes) /\ r.pos <= r.pos + edge + 1
  BY <1>1, <1>3
<1>7. r.items \o given \in Seq(Stream!Item)
  BY <1>1, <1>4
<1>8. Stream!Further(bytes, r) =
        IF r.over \/ edge = 0 THEN r
        ELSE [pos |-> r.pos + edge + 1, items |-> r.items \o given,
              over |-> \E i \in DOMAIN given : Stream!Ends(given[i])]
  BY DEF Stream!Further, edge, given
<1> QED
  BY <1>1, <1>5, <1>6, <1>7, <1>8 DEF Places

LEMMA FurtherGives ==
  ASSUME NEW bytes, NEW r
  PROVE  \/ Stream!Further(bytes, r) = r
         \/ \E given \in Seq(Stream!Item) : Stream!Further(bytes, r).items = r.items \o given
<1> DEFINE edge == Stream!FindBoundary(SubSeq(bytes, r.pos + 1, Len(bytes)))
           given == Stream!Parse(SubSeq(bytes, r.pos + 1, r.pos + edge - 1))
<1>1. given \in Seq(Stream!Item)
  BY ParsesToItems
<1> HIDE DEF given, edge
<1>2. Stream!Further(bytes, r) = r \/ Stream!Further(bytes, r).items = r.items \o given
  BY DEF Stream!Further, edge, given
<1> QED
  BY <1>1, <1>2

\* Parts of a sequence: p tokens are skipped, and q is the last that is taken.
LEMMA PartIs ==
  ASSUME NEW T, NEW bytes \in Seq(T), NEW p \in Nat, NEW q \in p..Len(bytes)
  PROVE  /\ SubSeq(bytes, p + 1, q) \in Seq(T) /\ Len(SubSeq(bytes, p + 1, q)) = q - p
         /\ \A i \in 1..(q - p) : SubSeq(bytes, p + 1, q)[i] = bytes[p + i]
<1>1. \A i \in 1..(q - p) : p + i \in 1..Len(bytes)
  OBVIOUS
<1> QED
  BY <1>1

\* A part of the beginning is the same part of the whole, and so for what is left.
LEMMA PartOfBeginning ==
  ASSUME NEW T, NEW bytes \in Seq(T), NEW count \in 0..Len(bytes), NEW p \in 0..count, NEW q \in p..count
  PROVE  SubSeq(SubSeq(bytes, 1, count), p + 1, q) = SubSeq(bytes, p + 1, q)
<1> DEFINE short == SubSeq(bytes, 1, count)
           a == SubSeq(short, p + 1, q)
           b == SubSeq(bytes, p + 1, q)
<1>1. short \in Seq(T) /\ Len(short) = count /\ \A i \in 1..count : short[i] = bytes[i]
  OBVIOUS
<1> HIDE DEF short
<1>2. a \in Seq(T) /\ Len(a) = q - p /\ \A i \in 1..(q - p) : a[i] = short[p + i]
  BY <1>1, PartIs
<1>3. b \in Seq(T) /\ Len(b) = q - p /\ \A i \in 1..(q - p) : b[i] = bytes[p + i]
  <2>1. p \in Nat /\ q \in p..Len(bytes)
    OBVIOUS
  <2> QED
    BY <2>1, PartIs
<1> HIDE DEF a, b
<1>4. \A i \in 1..(q - p) : a[i] = b[i]
  <2>1. \A i \in 1..(q - p) : p + i \in 1..count
    OBVIOUS
  <2> QED
    BY <1>1, <1>2, <1>3, <2>1
<1>5. a = b
  BY <1>2, <1>3, <1>4
<1> QED
  BY <1>5 DEF a, b, short

LEMMA BeginningOfRest ==
  ASSUME NEW T, NEW bytes \in Seq(T), NEW p \in Nat, NEW q \in p..Len(bytes), NEW n \in 0..(q - p)
  PROVE  SubSeq(SubSeq(bytes, p + 1, q), 1, n) = SubSeq(bytes, p + 1, p + n)
<1> DEFINE rest == SubSeq(bytes, p + 1, q)
           a == SubSeq(rest, 1, n)
           b == SubSeq(bytes, p + 1, p + n)
<1>1. rest \in Seq(T) /\ Len(rest) = q - p /\ \A k \in 1..(q - p) : rest[k] = bytes[p + k]
  BY PartIs
<1> HIDE DEF rest
<1>2. a \in Seq(T) /\ Len(a) = n /\ \A k \in 1..n : a[k] = rest[k]
  BY <1>1
<1>3. b \in Seq(T) /\ Len(b) = n /\ \A k \in 1..n : b[k] = bytes[p + k]
  <2>1. p + n \in p..Len(bytes) /\ (p + n) - p = n
    OBVIOUS
  <2> QED
    BY <2>1, PartIs
<1> HIDE DEF a, b
<1>4. \A k \in 1..n : a[k] = b[k]
  <2>1. \A k \in 1..n : k \in 1..(q - p)
    OBVIOUS
  <2> QED
    BY <1>1, <1>2, <1>3, <2>1
<1>5. a = b
  BY <1>2, <1>3, <1>4
<1> QED
  BY <1>5 DEF a, b, rest

LEMMA RestOfRest ==
  ASSUME NEW T, NEW bytes \in Seq(T), NEW p \in Nat, NEW q \in p..Len(bytes),
         NEW m \in p..q
  PROVE  SubSeq(SubSeq(bytes, p + 1, q), (m - p) + 1, q - p) = SubSeq(bytes, m + 1, q)
<1> DEFINE i == m - p
           rest == SubSeq(bytes, p + 1, q)
           a == SubSeq(rest, i + 1, q - p)
           b == SubSeq(bytes, m + 1, q)
<1>0. i \in Nat /\ q - p \in i..(q - p) /\ (q - p) - i = q - m /\ p + i = m
  OBVIOUS
<1>1. rest \in Seq(T) /\ Len(rest) = q - p /\ \A k \in 1..(q - p) : rest[k] = bytes[p + k]
  BY PartIs
<1>3. b \in Seq(T) /\ Len(b) = q - m /\ \A k \in 1..(q - m) : b[k] = bytes[m + k]
  <2>1. m \in Nat /\ q \in m..Len(bytes)
    OBVIOUS
  <2> QED
    BY <2>1, PartIs
<1>5. \A k \in 1..(q - m) : i + k \in 1..(q - p) /\ p + (i + k) = m + k
  OBVIOUS
<1> HIDE DEF rest, i
<1>2. a \in Seq(T) /\ Len(a) = q - m /\ \A k \in 1..(q - m) : a[k] = rest[i + k]
  <2>1. q - p \in i..Len(rest)
    BY <1>0, <1>1
  <2>2. a \in Seq(T) /\ Len(a) = (q - p) - i /\ \A k \in 1..((q - p) - i) : a[k] = rest[i + k]
    BY <1>0, <1>1, <2>1, PartIs
  <2> QED
    BY <1>0, <2>2
<1> HIDE DEF a, b
<1>4. \A k \in 1..(q - m) : a[k] = b[k]
  BY <1>1, <1>2, <1>3, <1>5
<1>6. a = b
  BY <1>2, <1>3, <1>4
<1> QED
  BY <1>6 DEF a, b, rest, i

\* Two parts one behind the other are one part.
LEMMA PartsJoin ==
  ASSUME NEW T, NEW bytes \in Seq(T), NEW p \in Nat, NEW q \in p..Len(bytes), NEW m \in q..Len(bytes)
  PROVE  SubSeq(bytes, p + 1, q) \o SubSeq(bytes, q + 1, m) = SubSeq(bytes, p + 1, m)
<1> DEFINE a == SubSeq(bytes, p + 1, q)
           b == SubSeq(bytes, q + 1, m)
           c == SubSeq(bytes, p + 1, m)
<1>0. q \in Nat /\ m \in Nat /\ p <= q /\ q <= m /\ m \in p..Len(bytes)
  OBVIOUS
<1>1. a \in Seq(T) /\ Len(a) = q - p /\ \A i \in 1..(q - p) : a[i] = bytes[p + i]
  BY PartIs
<1>2. b \in Seq(T) /\ Len(b) = m - q /\ \A i \in 1..(m - q) : b[i] = bytes[q + i]
  BY <1>0, PartIs
<1>3. c \in Seq(T) /\ Len(c) = m - p /\ \A i \in 1..(m - p) : c[i] = bytes[p + i]
  BY <1>0, PartIs
<1> HIDE DEF a, b, c
<1> DEFINE d == a \o b
<1>4. d \in Seq(T) /\ Len(d) = m - p
  <2>1. a \in Seq(T) /\ b \in Seq(T)
    BY <1>1, <1>2
  <2>2. d \in Seq(T) /\ Len(d) = Len(a) + Len(b)
    BY <2>1
  <2>3. (q - p) + (m - q) = m - p
    BY <1>0
  <2> QED
    BY <1>1, <1>2, <2>2, <2>3
<1>5. ASSUME NEW i \in 1..(m - p) PROVE d[i] = c[i]
  <2>1. CASE i <= q - p
    <3>1. i \in 1..Len(a) /\ d[i] = a[i]
      BY <1>0, <1>1, <1>2, <2>1
    <3> QED
      BY <1>1, <1>3, <3>1
  <2>2. CASE i > q - p
    <3>1. d[i] = b[i - (q - p)] /\ i - (q - p) \in 1..(m - q) /\ q + (i - (q - p)) = p + i
      BY <1>0, <1>1, <1>2, <2>2
    <3> QED
      BY <1>2, <1>3, <3>1
  <2>3. i <= q - p \/ i > q - p
    BY <1>0
  <2> HIDE DEF d
  <2> QED
    BY <2>1, <2>2, <2>3
<1> HIDE DEF d
<1>6. d = c
  BY <1>3, <1>4, <1>5
<1> QED
  BY <1>6 DEF a, b, c, d

\* What the recursion defines.
LEMMA ReadingsStep ==
  ASSUME NEW bytes \in Seq(STRING)
  PROVE  /\ Stream!Readings(bytes) \in [Nat -> Places(bytes)]
         /\ Stream!Readings(bytes)[0] = Stream!Fresh
         /\ \A n \in Nat : Stream!Readings(bytes)[n + 1] = Stream!Further(bytes, Stream!Readings(bytes)[n])
<1> DEFINE stepping == [r \in Places(bytes) |-> Stream!Further(bytes, r)]
<1>1. Stream!Fresh \in Places(bytes)
  BY DEF Stream!Fresh, Places
<1>2. stepping \in [Places(bytes) -> Places(bytes)]
  BY FurtherIsAPlace
<1> HIDE DEF stepping
<1>3. PICK f : Repeats(f, Places(bytes), Stream!Fresh, stepping)
  BY <1>1, <1>2, StepsRepeat
<1>4. \A n \in Nat : f[n + 1] = Stream!Further(bytes, f[n])
  BY <1>3 DEF stepping, Repeats
<1> DEFINE Unrolled(h) == [n \in Nat |-> IF n = 0 THEN Stream!Fresh ELSE Stream!Further(bytes, h[n - 1])]
<1>5. f = Unrolled(f)
  <2>1. \A n \in Nat : n # 0 => n - 1 \in Nat /\ (n - 1) + 1 = n
    OBVIOUS
  <2>2. \A n \in Nat : f[n] = IF n = 0 THEN Stream!Fresh ELSE Stream!Further(bytes, f[n - 1])
    BY <1>3, <1>4, <2>1 DEF Repeats
  <2> QED
    BY <1>3, <2>2 DEF Repeats
<1> DEFINE g == Stream!Readings(bytes)
<1>6. g = CHOOSE h : h = Unrolled(h)
  BY DEF Stream!Readings
<1>7. g = Unrolled(g)
  BY <1>5, <1>6
<1> HIDE DEF g
<1>8. g = [n \in Nat |-> IF n = 0 THEN Stream!Fresh ELSE Stream!Further(bytes, g[n - 1])]
  BY <1>7
<1>9. g[0] = Stream!Fresh
  BY <1>8
<1>10. ASSUME NEW n \in Nat PROVE g[n + 1] = Stream!Further(bytes, g[n])
  <2>1. n + 1 \in Nat /\ n + 1 # 0 /\ (n + 1) - 1 = n
    OBVIOUS
  <2> QED
    BY <1>8, <2>1
<1> DEFINE Good == {n \in Nat : g[n] \in Places(bytes)}
<1>11. 0 \in Good
  BY <1>1, <1>9
<1>12. ASSUME NEW n \in Nat, g[n] \in Places(bytes) PROVE g[n + 1] \in Places(bytes)
  BY <1>10, <1>12, FurtherIsAPlace
<1>13. Nat \subseteq Good
  <2>1. \A n \in Nat : n \in Good => n + 1 \in Good
    BY <1>12
  <2> HIDE DEF Good
  <2> QED
    BY <1>11, <2>1, NumbersFollow
<1>14. g \in [Nat -> Places(bytes)]
  <2>1. DOMAIN g = Nat /\ g = [n \in Nat |-> g[n]]
    BY <1>8
  <2> QED
    BY <1>13, <2>1
<1> QED
  BY <1>9, <1>10, <1>14 DEF g

\* Who is done, or has no whole frame left, stays where he is.
LEMMA ReadingsStay ==
  ASSUME NEW bytes \in Seq(STRING), NEW n \in Nat, NEW m \in Nat, n <= m,
         LET r == Stream!Readings(bytes)[n]
         IN  r.over \/ Stream!FindBoundary(SubSeq(bytes, r.pos + 1, Len(bytes))) = 0
  PROVE  Stream!Readings(bytes)[m] = Stream!Readings(bytes)[n]
<1> DEFINE read == Stream!Readings(bytes)
           Same == {k \in Nat : read[n + k] = read[n]}
<1>1. \A k \in Nat : read[k + 1] = Stream!Further(bytes, read[k])
  BY ReadingsStep
<1>2. Stream!Further(bytes, read[n]) = read[n]
  BY DEF Stream!Further
<1> HIDE DEF read
<1>3. 0 \in Same
  OBVIOUS
<1>4. ASSUME NEW k \in Nat, read[n + k] = read[n] PROVE read[n + (k + 1)] = read[n]
  <2>1. n + k \in Nat /\ n + (k + 1) = (n + k) + 1
    OBVIOUS
  <2> QED
    BY <1>1, <1>2, <1>4, <2>1
<1>5. Nat \subseteq Same
  <2>1. \A k \in Nat : k \in Same => k + 1 \in Same
    BY <1>4
  <2> HIDE DEF Same
  <2> QED
    BY <1>3, <2>1, NumbersFollow
<1>6. m - n \in Nat /\ n + (m - n) = m
  OBVIOUS
<1> QED
  BY <1>5, <1>6 DEF read

\* What was given stays, and is the beginning of what is given later.
LEMMA ReadingsGrow ==
  ASSUME NEW bytes \in Seq(STRING), NEW n \in Nat, NEW m \in Nat, n <= m
  PROVE  Stream!IsPrefix(Stream!Readings(bytes)[n].items, Stream!Readings(bytes)[m].items)
<1> DEFINE read == Stream!Readings(bytes)
           Begins(s, t) == Len(s) <= Len(t) /\ \A i \in 1..Len(s) : s[i] = t[i]
           Longer == {k \in Nat : Begins(read[n].items, read[n + k].items)}
<1>1. \A k \in Nat : read[k].items \in Seq(Stream!Item) /\ read[k + 1] = Stream!Further(bytes, read[k])
  BY ReadingsStep DEF Places
<1>2. \A s, t, u \in Seq(Stream!Item) : Begins(s, t) /\ Begins(t, u) => Begins(s, u)
  OBVIOUS
<1>3. ASSUME NEW k \in Nat PROVE Begins(read[k].items, read[k + 1].items)
  <2>1. \/ read[k + 1] = read[k]
        \/ \E given \in Seq(Stream!Item) : read[k + 1].items = read[k].items \o given
    <3>1. \/ Stream!Further(bytes, read[k]) = read[k]
          \/ \E given \in Seq(Stream!Item) : Stream!Further(bytes, read[k]).items = read[k].items \o given
      BY FurtherGives
    <3> HIDE DEF read
    <3> QED
      BY <1>1, <3>1
  <2>2. \A s, t \in Seq(Stream!Item) : Begins(s, s \o t)
    OBVIOUS
  <2>3. Begins(read[k].items, read[k].items)
    BY <1>1
  <2>4. read[k].items \in Seq(Stream!Item)
    BY <1>1
  <2> HIDE DEF read, Begins
  <2> QED
    BY <2>1, <2>2, <2>3, <2>4
<1> HIDE DEF read, Begins
<1>4. 0 \in Longer
  <2>1. n + 0 = n
    OBVIOUS
  <2>2. \A s \in Seq(Stream!Item) : Begins(s, s)
    BY DEF Begins
  <2>3. Begins(read[n].items, read[n].items)
    BY <1>1, <2>2
  <2> QED
    BY <2>1, <2>3
<1>5. ASSUME NEW k \in Nat, Begins(read[n].items, read[n + k].items)
      PROVE  Begins(read[n].items, read[n + (k + 1)].items)
  <2>1. n + k \in Nat /\ n + (k + 1) = (n + k) + 1 /\ n + (k + 1) \in Nat
    OBVIOUS
  <2>2. Begins(read[n + k].items, read[n + (k + 1)].items)
    BY <1>3, <2>1
  <2>3. {read[n].items, read[n + k].items, read[n + (k + 1)].items} \subseteq Seq(Stream!Item)
    BY <1>1, <2>1
  <2> QED
    BY <1>2, <1>5, <2>2, <2>3
<1>6. Nat \subseteq Longer
  <2>1. \A k \in Nat : k \in Longer => k + 1 \in Longer
    BY <1>5
  <2> HIDE DEF Longer
  <2> QED
    BY <1>4, <2>1, NumbersFollow
<1>7. m - n \in Nat /\ n + (m - n) = m
  OBVIOUS
<1>8. Begins(read[n].items, read[m].items)
  BY <1>6, <1>7
<1>9. \A s, t \in Seq(Stream!Item) : Begins(s, t) => Stream!IsPrefix(s, t)
  BY DEF Stream!IsPrefix, Begins
<1> QED
  BY <1>1, <1>8, <1>9 DEF read

\* The part of a body that has arrived reads as the body does, as long as that is within it.
LEMMA ReadingsOfBeginning ==
  ASSUME NEW bytes \in Seq(STRING), NEW count \in 0..Len(bytes), NEW n \in Nat,
         Stream!Readings(bytes)[n].pos <= count
  PROVE  Stream!Readings(SubSeq(bytes, 1, count))[n] = Stream!Readings(bytes)[n]
<1> DEFINE short == SubSeq(bytes, 1, count)
           read == Stream!Readings(bytes)
           early == Stream!Readings(short)
           Same == {k \in Nat : read[k].pos <= count => early[k] = read[k]}
<1>1. short \in Seq(STRING) /\ Len(short) = count
  OBVIOUS
<1>2. /\ read \in [Nat -> Places(bytes)] /\ read[0] = Stream!Fresh
      /\ \A k \in Nat : read[k + 1] = Stream!Further(bytes, read[k])
  BY ReadingsStep
<1>3. /\ early[0] = Stream!Fresh
      /\ \A k \in Nat : early[k + 1] = Stream!Further(short, early[k])
  BY <1>1, ReadingsStep
<1>4. ASSUME NEW r \in Places(bytes), Stream!Further(bytes, r).pos <= count
      PROVE  Stream!Further(short, r) = Stream!Further(bytes, r)
  <2> DEFINE rest == SubSeq(bytes, r.pos + 1, Len(bytes))
             edge == Stream!FindBoundary(rest)
             near == Stream!FindBoundary(SubSeq(short, r.pos + 1, Len(short)))
  <2>1. r.pos \in 0..Len(bytes) /\ r.over \in BOOLEAN
    BY DEF Places
  <2>2. r.pos <= count
    BY <1>4, <2>1, FurtherIsAPlace DEF Places
  <2>3. rest \in Seq(STRING) /\ Len(rest) = Len(bytes) - r.pos
    BY <2>1
  <2>4. SubSeq(short, r.pos + 1, Len(short)) = SubSeq(rest, 1, count - r.pos)
    <3>1. r.pos \in 0..count
      BY <2>1, <2>2
    <3>2. SubSeq(SubSeq(bytes, 1, count), r.pos + 1, count) = SubSeq(bytes, r.pos + 1, count)
      <4>1. count \in r.pos..count
        BY <3>1
      <4> QED
        BY <3>1, <4>1, PartOfBeginning
    <3>3. SubSeq(rest, 1, count - r.pos) = SubSeq(bytes, r.pos + 1, count)
      <4>1. /\ r.pos \in Nat /\ Len(bytes) \in r.pos..Len(bytes)
            /\ count - r.pos \in 0..(Len(bytes) - r.pos)
        BY <3>1
      <4>2. SubSeq(rest, 1, count - r.pos) = SubSeq(bytes, r.pos + 1, r.pos + (count - r.pos))
        BY <4>1, BeginningOfRest
      <4>3. r.pos + (count - r.pos) = count
        BY <3>1
      <4> HIDE DEF rest
      <4> QED
        BY <4>2, <4>3
    <3> QED
      BY <1>1, <3>2, <3>3
  <2>5. count - r.pos \in 0..Len(rest)
    BY <2>1, <2>2, <2>3
  <2> HIDE DEF rest
  <2>6. edge \in Nat /\ near \in Nat
    <3>1. SubSeq(rest, 1, count - r.pos) \in Seq(STRING)
      BY <2>3, <2>5
    <3> QED
      BY <2>3, <2>4, <3>1, BoundaryIsFirst
  <2>7. (near # 0 => edge = near) /\ (edge # 0 /\ edge + 1 <= count - r.pos => near = edge)
    <3>1. near = Stream!FindBoundary(SubSeq(rest, 1, count - r.pos))
      BY <2>4
    <3> HIDE DEF near
    <3> QED
      BY <2>3, <2>5, <3>1, BoundaryOfBeginning
  <2> HIDE DEF edge, near
  <2>8. CASE r.over
    BY <2>8 DEF Stream!Further
  <2>9. CASE ~r.over /\ edge = 0
    <3>1. near = 0
      BY <2>6, <2>7, <2>9
    <3> QED
      BY <2>9, <3>1 DEF Stream!Further, edge, near, rest
  <2>10. CASE ~r.over /\ edge # 0
    <3>1. Stream!Further(bytes, r).pos = r.pos + edge + 1
      BY <2>10 DEF Stream!Further, edge, rest
    <3>2. near = edge
      BY <1>4, <2>1, <2>6, <2>7, <2>10, <3>1
    <3>3. SubSeq(short, r.pos + 1, r.pos + edge - 1) = SubSeq(bytes, r.pos + 1, r.pos + edge - 1)
      <4>1. r.pos + edge - 1 \in r.pos..count /\ r.pos \in 0..count
        BY <1>4, <2>1, <2>2, <2>6, <2>10, <3>1
      <4> QED
        BY <4>1, PartOfBeginning
    <3>4. near # 0
      BY <2>10, <3>2
    <3> QED
      BY <2>10, <3>2, <3>3, <3>4 DEF Stream!Further, edge, near, rest
  <2> QED
    BY <2>8, <2>9, <2>10
<1> HIDE DEF read, early, short
<1>5. 0 \in Same
  BY <1>2, <1>3
<1>6. ASSUME NEW k \in Nat, read[k].pos <= count => early[k] = read[k], read[k + 1].pos <= count
      PROVE  early[k + 1] = read[k + 1]
  <2>1. read[k] \in Places(bytes) /\ read[k + 1] \in Places(bytes)
    <3>1. k + 1 \in Nat
      OBVIOUS
    <3> QED
      BY <1>2, <3>1
  <2>2. read[k].pos <= read[k + 1].pos
    BY <1>2, <2>1, FurtherIsAPlace
  <2>3. read[k].pos <= count
    BY <1>6, <2>1, <2>2 DEF Places
  <2> QED
    BY <1>2, <1>3, <1>4, <1>6, <2>1, <2>3
<1>7. Nat \subseteq Same
  <2>1. \A k \in Nat : k \in Same => k + 1 \in Same
    BY <1>6
  <2> HIDE DEF Same
  <2> QED
    BY <1>5, <2>1, NumbersFollow
<1> QED
  BY <1>7 DEF read, early, short

\* The client is as far as one who has the whole body, in every state.
LEMMA StreamInit ==
  ASSUME Stream!WiresAssumption, Stream!Init
  PROVE  Stream!StreamInv
BY DEF Stream!WiresAssumption, Stream!Init, Stream!StreamInv

LEMMA OpenStep ==
  ASSUME Stream!StreamInv, Stream!Open
  PROVE  Stream!StreamInv'
<1> USE DEF Stream!StreamInv, Stream!Open
<1>1. wire' = wire /\ got' = 0 /\ buffer' = <<>>
  OBVIOUS
<1>2. CASE mode' = "over"
  BY <1>1, <1>2
<1>3. CASE mode' = "open" /\ items' = <<>>
  <2>1. Stream!Readings(wire)[0] = Stream!Fresh
    BY ReadingsStep
  <2>2. SubSeq(wire, 1, 0) = <<>>
    OBVIOUS
  <2>3. Stream!Reached(Stream!Fresh)'
    BY <1>1, <1>3, <2>2 DEF Stream!Reached, Stream!Fresh
  <2>4. 0 \in Nat /\ 0 <= Stream!Fresh.pos
    BY DEF Stream!Fresh
  <2> QED
    BY <1>1, <1>3, <2>1, <2>3, <2>4
<1> QED
  BY <1>2, <1>3 DEF Stream!Finish

LEMMA ChunkStep ==
  ASSUME Stream!StreamInv, Stream!Chunk
  PROVE  Stream!StreamInv'
<1>1. wire \in Seq(STRING) /\ got \in 0..Len(wire) /\ mode = "open"
  BY DEF Stream!StreamInv, Stream!Chunk
<1>2. PICK count \in 1..Len(wire) - got :
        got' = got + count /\ buffer' = buffer \o SubSeq(wire, got + 1, got + count)
  BY DEF Stream!Chunk, Stream!Buffered
<1>3. wire' = wire /\ items' = items /\ mode' = mode
  BY DEF Stream!Chunk
<1>4. PICK n \in Nat : n <= Stream!Readings(wire)[n].pos /\ Stream!Reached(Stream!Readings(wire)[n])
  BY <1>1 DEF Stream!StreamInv
<1> DEFINE r == Stream!Readings(wire)[n]
<1>5. r \in Places(wire)
  BY <1>1, ReadingsStep
<1> HIDE DEF r
<1>6. r.pos \in Nat /\ r.pos <= got /\ buffer = SubSeq(wire, r.pos + 1, got)
  BY <1>4, <1>5 DEF r, Stream!Reached, Places
<1>7. buffer' = SubSeq(wire, r.pos + 1, got')
  <2>1. got \in r.pos..Len(wire) /\ got + count \in got..Len(wire)
    BY <1>1, <1>6
  <2> QED
    BY <1>1, <1>2, <1>6, <2>1, PartsJoin
<1>8. got' \in 0..Len(wire) /\ r.pos <= got'
  BY <1>1, <1>2, <1>6
<1>9. Stream!Readings(wire') = Stream!Readings(wire)
  BY <1>3
<1>10. mode' = "open" /\ ~r.over /\ items' = r.items
  BY <1>1, <1>3, <1>4 DEF r, Stream!Reached
<1>11. n <= r.pos
  BY <1>4 DEF r
<1>12. (n <= Stream!Readings(wire)[n].pos /\ Stream!Reached(Stream!Readings(wire)[n]))'
  BY <1>3, <1>7, <1>8, <1>9, <1>10, <1>11 DEF Stream!Reached, r
<1> QED
  BY <1>1, <1>3, <1>8, <1>12 DEF Stream!StreamInv

LEMMA FrameStep ==
  ASSUME Stream!StreamInv, Stream!Frame
  PROVE  Stream!StreamInv'
<1> DEFINE edge == Stream!FindBoundary(buffer)
           given == Stream!Parse(SubSeq(buffer, 1, edge - 1))
<1>1. wire \in Seq(STRING) /\ got \in 0..Len(wire) /\ mode = "open" /\ edge # 0
  BY DEF Stream!StreamInv, Stream!Frame
<1>2. PICK n \in Nat : n <= Stream!Readings(wire)[n].pos /\ Stream!Reached(Stream!Readings(wire)[n])
  BY <1>1 DEF Stream!StreamInv
<1> DEFINE r == Stream!Readings(wire)[n]
           after == Stream!Readings(wire)[n + 1]
<1>3. r \in Places(wire) /\ after = Stream!Further(wire, r) /\ after \in Places(wire)
  <2>1. n + 1 \in Nat
    OBVIOUS
  <2> QED
    BY <1>1, <2>1, ReadingsStep
<1> HIDE DEF r, after
<1>4. /\ r.pos \in Nat /\ r.pos <= got /\ buffer = SubSeq(wire, r.pos + 1, got) /\ n <= r.pos
      /\ ~r.over /\ items = r.items
  BY <1>1, <1>2, <1>3 DEF r, Stream!Reached, Places
<1>5. buffer \in Seq(STRING) /\ Len(buffer) = got - r.pos /\ got \in r.pos..Len(wire)
  <2>1. got \in r.pos..Len(wire)
    BY <1>1, <1>4
  <2> QED
    BY <1>1, <1>4, <2>1, PartIs
<1>6. edge \in 1..(got - r.pos) - 1
  BY <1>1, <1>5, BoundaryIsFirst
<1>7. edge = Stream!FindBoundary(SubSeq(wire, r.pos + 1, Len(wire)))
  <2> DEFINE rest == SubSeq(wire, r.pos + 1, Len(wire))
  <2>1. Len(wire) \in r.pos..Len(wire) /\ got - r.pos \in 0..(Len(wire) - r.pos)
    BY <1>1, <1>4, <1>5
  <2>2. rest \in Seq(STRING) /\ Len(rest) = Len(wire) - r.pos
    BY <1>1, <1>4, <2>1, PartIs
  <2>3. SubSeq(rest, 1, got - r.pos) = SubSeq(wire, r.pos + 1, got)
    <3>1. SubSeq(rest, 1, got - r.pos) = SubSeq(wire, r.pos + 1, r.pos + (got - r.pos))
      BY <1>1, <1>4, <2>1, BeginningOfRest
    <3>2. r.pos + (got - r.pos) = got
      BY <1>1, <1>4
    <3> HIDE DEF rest
    <3> QED
      BY <3>1, <3>2
  <2>4. buffer = SubSeq(rest, 1, got - r.pos)
    BY <1>1, <1>4, <2>3
  <2> HIDE DEF rest
  <2>5. edge = Stream!FindBoundary(SubSeq(rest, 1, got - r.pos))
    BY <2>4
  <2>6. edge = Stream!FindBoundary(rest)
    BY <1>1, <2>1, <2>2, <2>5, BoundaryOfBeginning
  <2> QED
    BY <2>6 DEF rest
<1>8. given = Stream!Parse(SubSeq(wire, r.pos + 1, r.pos + edge - 1))
  <2> HIDE DEF edge
  <2>1. edge - 1 \in 0..(got - r.pos)
    BY <1>1, <1>4, <1>6
  <2>2. SubSeq(SubSeq(wire, r.pos + 1, got), 1, edge - 1) = SubSeq(wire, r.pos + 1, r.pos + (edge - 1))
    BY <1>1, <1>4, <1>5, <2>1, BeginningOfRest
  <2>3. r.pos + (edge - 1) = r.pos + edge - 1
    BY <1>4, <1>6
  <2>4. SubSeq(buffer, 1, edge - 1) = SubSeq(wire, r.pos + 1, r.pos + edge - 1)
    BY <1>4, <2>2, <2>3
  <2> QED
    BY <2>4 DEF edge
<1>9. buffer' = SubSeq(wire, r.pos + edge + 2, got)
  <2>1. buffer' = SubSeq(buffer, edge + 2, got - r.pos)
    BY <1>5 DEF Stream!Frame
  <2> HIDE DEF edge
  <2>2. r.pos \in Nat /\ edge \in Nat /\ got \in Nat /\ edge <= (got - r.pos) - 1
    BY <1>1, <1>4, <1>6
  <2>3. r.pos + edge + 1 \in r.pos..got /\ ((r.pos + edge + 1) - r.pos) + 1 = edge + 2 /\ (r.pos + edge + 1) + 1 = r.pos + edge + 2
    BY <2>2
  <2>4. \A m \in r.pos..got : SubSeq(SubSeq(wire, r.pos + 1, got), (m - r.pos) + 1, got - r.pos) = SubSeq(wire, m + 1, got)
    BY <1>1, <1>4, <1>5, RestOfRest
  <2>5. SubSeq(SubSeq(wire, r.pos + 1, got), ((r.pos + edge + 1) - r.pos) + 1, got - r.pos) = SubSeq(wire, (r.pos + edge + 1) + 1, got)
    BY <2>3, <2>4
  <2> QED
    BY <1>4, <2>1, <2>3, <2>5
<1>10. /\ wire' = wire /\ got' = got /\ items' = items \o given
       /\ mode' = IF \E i \in DOMAIN given : Stream!Ends(given[i]) THEN "over" ELSE "open"
  BY DEF Stream!Frame
<1> HIDE DEF edge, given
<1>11. after = [pos |-> r.pos + edge + 1, items |-> r.items \o given,
               over |-> \E i \in DOMAIN given : Stream!Ends(given[i])]
  BY <1>1, <1>3, <1>4, <1>7, <1>8 DEF Stream!Further
<1>12. after.pos = r.pos + edge + 1 /\ after.items = items' /\ (after.over <=> mode' = "over") /\ mode' \in {"open", "over"}
  BY <1>4, <1>10, <1>11
<1>13. n + 1 <= after.pos /\ after.pos <= got' /\ after.pos + 1 = r.pos + edge + 2
  BY <1>1, <1>4, <1>6, <1>10, <1>12
<1>14. (n + 1 <= Stream!Readings(wire)[n + 1].pos /\ Stream!Reached(Stream!Readings(wire)[n + 1]))'
  BY <1>9, <1>10, <1>12, <1>13 DEF Stream!Reached, after
<1>15. n + 1 \in Nat
  OBVIOUS
<1> QED
  BY <1>1, <1>10, <1>12, <1>14, <1>15 DEF Stream!StreamInv

LEMMA BodyOverStep ==
  ASSUME Stream!StreamInv, Stream!BodyOver
  PROVE  Stream!StreamInv'
<1>1. wire \in Seq(STRING) /\ got \in 0..Len(wire) /\ mode = "open" /\ Stream!FindBoundary(buffer) = 0
  BY DEF Stream!StreamInv, Stream!BodyOver
<1>2. PICK n \in Nat : n <= Stream!Readings(wire)[n].pos /\ Stream!Reached(Stream!Readings(wire)[n])
  BY <1>1 DEF Stream!StreamInv
<1>3. /\ wire' = wire /\ got' = got /\ buffer' = buffer /\ mode' = "over"
      /\ \E e \in {"ErrProtocol", "ErrTransport"} : items' = Append(items, e)
  BY DEF Stream!BodyOver, Stream!Finish
<1>4. (n <= Stream!Readings(wire)[n].pos /\ Stream!Reached(Stream!Readings(wire)[n]))'
  BY <1>1, <1>2, <1>3 DEF Stream!Reached
<1> QED
  BY <1>1, <1>3, <1>4 DEF Stream!StreamInv

\* What was handed is what the part of the body that arrived means.
LEMMA HandedIsMeant ==
  ASSUME Stream!StreamInv
  PROVE  Stream!ChunkingIsInvisible
<1> DEFINE part == SubSeq(wire, 1, got)
           whole == Stream!Meaning(part)
<1>1. wire \in Seq(STRING) /\ got \in 0..Len(wire)
  BY DEF Stream!StreamInv
<1>2. SUFFICES ASSUME mode = "open" \/ got > 0
               PROVE  Stream!ChunkingIsInvisible
  BY DEF Stream!ChunkingIsInvisible
<1>3. PICK n \in Nat : n <= Stream!Readings(wire)[n].pos /\ Stream!Reached(Stream!Readings(wire)[n])
  BY <1>2 DEF Stream!StreamInv
<1> DEFINE r == Stream!Readings(wire)[n]
<1>4. r \in Places(wire)
  BY <1>1, ReadingsStep
<1>5. r.pos \in Nat /\ r.pos <= got /\ n <= r.pos
  BY <1>3, <1>4 DEF Stream!Reached, Places
<1>6. Stream!Readings(part)[n] = r
  BY <1>1, <1>5, ReadingsOfBeginning
<1>7. part \in Seq(STRING) /\ Len(part) = got /\ got \in Nat /\ n <= got
  BY <1>1, <1>5
<1> HIDE DEF part, r
<1>8. whole = Stream!Readings(part)[got].items
  BY <1>7 DEF Stream!Meaning
<1>9. CASE mode = "open" /\ items = r.items
  <2>1. Stream!IsPrefix(items, whole)
    BY <1>6, <1>7, <1>8, <1>9, ReadingsGrow
  <2> QED
    BY <1>9, <2>1 DEF Stream!ChunkingIsInvisible, part
<1>10. CASE mode = "over" /\ r.over /\ items = r.items
  <2>1. Stream!Readings(part)[got] = r
    BY <1>6, <1>7, <1>10, ReadingsStay
  <2> QED
    BY <1>8, <1>10, <2>1 DEF Stream!ChunkingIsInvisible, part
<1>11. CASE /\ mode = "over" /\ Stream!FindBoundary(buffer) = 0
            /\ \E e \in {"ErrProtocol", "ErrTransport"} : items = Append(r.items, e)
  <2>1. buffer = SubSeq(part, r.pos + 1, Len(part))
    <3>1. buffer = SubSeq(wire, r.pos + 1, got) /\ got \in r.pos..got
      BY <1>3, <1>5, <1>7 DEF Stream!Reached, r
    <3>2. SubSeq(SubSeq(wire, 1, got), r.pos + 1, got) = SubSeq(wire, r.pos + 1, got)
      <4>1. r.pos \in 0..got
        BY <1>5, <1>7
      <4> QED
        BY <1>1, <3>1, <4>1, PartOfBeginning
    <3> QED
      BY <1>5, <1>7, <3>1, <3>2 DEF part
  <2>2. Stream!Readings(part)[got] = r
    BY <1>6, <1>7, <1>11, <2>1, ReadingsStay
  <2> QED
    BY <1>8, <1>11, <2>2 DEF Stream!ChunkingIsInvisible, part
<1> QED
  BY <1>3, <1>9, <1>10, <1>11 DEF Stream!Reached, r

\* ModelStream: however a body is cut into chunks, and wherever the connection breaks, the app was
\* handed what the part that arrived means, frame by frame, up to the first item that ends the
\* stream, and at most one error behind it (ModelStreamClient::stream).
THEOREM ChunksMakeNoDifference ==
  ASSUME Stream!WiresAssumption
  PROVE  ProvidersSpec => []ChunkingIsInvisible
<1>1. Stream!Init => Stream!StreamInv
  BY StreamInit
<1>2. Stream!StreamInv /\ [Stream!Next]_Stream!vars => Stream!StreamInv'
  <2> SUFFICES ASSUME Stream!StreamInv, [Stream!Next]_Stream!vars PROVE Stream!StreamInv'
    OBVIOUS
  <2>1. CASE UNCHANGED Stream!vars
    BY <2>1 DEF Stream!vars, Stream!StreamInv, Stream!Reached
  <2> QED
    BY <2>1, OpenStep, ChunkStep, FrameStep, BodyOverStep DEF Stream!Next
<1>3. Stream!StreamInv => ChunkingIsInvisible
  BY HandedIsMeant DEF ChunkingIsInvisible
<1> QED
  BY <1>1, <1>2, <1>3, ProvidersAreTheirParts, PTL DEF Stream!Spec
=============================================================================
