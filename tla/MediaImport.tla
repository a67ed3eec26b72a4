---------------------------- MODULE MediaImport ----------------------------
(***************************************************************************)
(* Chunked media imports (media_import.rs, their routes in api/setup.rs)   *)
(* and the media library that refers to the imported files                 *)
(* (api/library.rs, the media rows of store.rs).                           *)
(*                                                                         *)
(* The session map is behind one mutex, held by start, append, abort and   *)
(* the reaper for their whole body, so each is one action, and each first  *)
(* prunes the sessions that sat idle too long.  finish gives the mutex     *)
(* back before it verifies and places the file and writes the metadata     *)
(* text beside it, and delete_media decides in the store and removes on    *)
(* disk: those handlers are several actions.                               *)
(*                                                                         *)
(* A chunk is one unit of the file, named by the offset it carries.  A     *)
(* session has one file, first under imports/.partial, then in its own     *)
(* directory under imports/, where its metadata text joins it.             *)
(***************************************************************************)
EXTENDS Integers, Sequences, FiniteSets

CONSTANTS
  Session,      \* import session ids
  Workspace,    \* workspaces with a media library
  HomeOf,       \* the workspace a session was started for
  MaxSize,      \* bound on a declared size, in chunks
  Declares,     \* the sizes a session may be declared with
  MaxMetadata,  \* MAX_METADATA_BYTES, in the same unit
  Describes,    \* what may reach the disk of a session's metadata text; 0 is none
  Knows,        \* bound: the imports whose path a workspace's clients know
  Quota,        \* MAX_IMPORTS_TOTAL_BYTES
  MaxOpen,      \* MAX_OPEN_SESSIONS
  MaxHandlers,  \* bound on create_media and delete_media handlers at once
  MaxFaults     \* bound on crashes, dropped handlers and torn writes

ASSUME ImportAssumption ==
  /\ IsFiniteSet(Session)
  /\ HomeOf \in [Session -> Workspace]
  /\ MaxSize \in Nat \ {0}
  /\ Declares \in [Session -> SUBSET (1..MaxSize)]
  /\ MaxMetadata \in Nat
  /\ Describes \in [Session -> SUBSET (0..MaxMetadata)]
  /\ Knows \in [Workspace -> SUBSET Session]
  /\ Quota \in Nat /\ MaxOpen \in Nat
  /\ MaxHandlers \in Nat /\ MaxFaults \in Nat

VARIABLES
  import,     \* per session: its entry in the map, its handler and its file
  rows,       \* media_assets: <<workspace, session whose import the path names>>
  drafts,     \* the drafts and variants whose body names the path
  adding,     \* create_media handlers past their path check
  removing,   \* delete_media handlers that found the path unreferenced
  late,       \* imports referred to again after a delete had found no reference
  faults

library == <<rows, drafts, adding, removing, late>>
vars == <<import, library, faults>>

References == Workspace \X Session

\* "placing", "placed" and "described" are finish without the mutex: before the rename,
\* behind it, and behind the metadata text; "lost" is a session whose handler or process
\* died before the session was complete or discarded.
Stage == {"new", "open", "placing", "placed", "described", "ended", "lost"}

Import == [
  stage     : Stage,
  size      : 0..MaxSize,          \* ImportSession.size
  hashed    : Seq(0..MaxSize),     \* what its hasher was fed; its length is .received
  idle      : BOOLEAN,             \* untouched for longer than the idle limit
  where     : {"nowhere", "partial", "import"},   \* its file
  bytes     : Seq(0..MaxSize),     \* what the file holds
  note      : 0..MaxMetadata,      \* the size of its metadata text
  torn      : BOOLEAN,             \* a chunk reached the disk and was not acknowledged
  walked    : BOOLEAN,             \* an admission has counted its directory, text and all
  overtaken : BOOLEAN]             \* another import was admitted while it was being placed

Gone == [stage |-> "ended", size |-> 0, hashed |-> <<>>, idle |-> FALSE,
         where |-> "nowhere", bytes |-> <<>>, note |-> 0, torn |-> FALSE,
         walked |-> FALSE, overtaken |-> FALSE]

TypeOK ==
  /\ import \in [Session -> Import]
  /\ \A s \in Session : Len(import[s].hashed) <= import[s].size
  /\ rows \in SUBSET References /\ drafts \in SUBSET References
  /\ adding \in SUBSET References
  /\ removing \in SUBSET Session /\ late \in SUBSET Session
  /\ faults \in 0..MaxFaults

Init ==
  /\ import = [s \in Session |-> [Gone EXCEPT !.stage = "new"]]
  /\ rows = {} /\ drafts = {} /\ adding = {} /\ removing = {} /\ late = {}
  /\ faults = 0

(***************************************************************************)
(* Reads.                                                                  *)
(***************************************************************************)
Open     == {s \in Session : import[s].stage = "open"}
Expired  == {s \in Open : import[s].idle}
Live     == Open \ Expired
Imported == {s \in Session : import[s].where = "import"}

Received(s) == Len(import[s].hashed)
Whole(s)    == [i \in 1..import[s].size |-> i - 1]

\* Space by the unit, those of a file counted up and those of its text down: what a
\* session's directory holds, and what its size declares.
Text(s)     == -import[s].note .. -1
OnDisk(s)   == {s} \X ((1..Len(import[s].bytes)) \cup Text(s))
Declared(s) == {s} \X (1..import[s].size)
Bytes(S)    == Cardinality(UNION {OnDisk(s) : s \in S})
Texts(S)    == Cardinality(UNION {{s} \X Text(s) : s \in S})
Reserved(S) == Cardinality(UNION {Declared(s) : s \in S})

ReferredTo(refs) == {s \in Session : \E w \in Workspace : <<w, s>> \in refs}

\* prune, which every operation under the mutex runs first: the expired sessions
\* go, with their partial files.
Pruned == [s \in Session |-> IF s \in Expired THEN Gone ELSE import[s]]

(***************************************************************************)
(* The session operations.                                                 *)
(***************************************************************************)

\* Faulty form: sessions expire only when a new one needs their place.
PruneWhenFull ==
  /\ Expired # {} /\ Cardinality(Open) >= MaxOpen
  /\ import' = Pruned
  /\ UNCHANGED <<library, faults>>

\* The reaper, and every call refused after it took the mutex.
PruneIdle ==
  /\ Expired # {}
  /\ import' = Pruned
  /\ UNCHANGED <<library, faults>>

\* Faulty form: the texts beside the finished imports are not counted.
AdmitsTextless(n) ==
  /\ Cardinality(Live) < MaxOpen
  /\ Bytes(Imported) - Texts(Imported) + Reserved(Live) + n <= Quota

\* Admission counts the finished imports, their texts included, and the declared sizes of
\* the open sessions.
Admits(n) ==
  /\ Cardinality(Live) < MaxOpen
  /\ Bytes(Imported) + Reserved(Live) + n <= Quota

Start(s, n) ==
  /\ import[s].stage = "new" /\ Admits(n)
  /\ import' = [t \in Session |->
       IF t = s THEN [import[s] EXCEPT !.stage = "open", !.size = n, !.where = "partial"]
       ELSE IF import[t].stage \in {"placing", "placed"} THEN [import[t] EXCEPT !.overtaken = TRUE]
       ELSE IF t \in Imported THEN [import[t] EXCEPT !.walked = TRUE]
       ELSE Pruned[t]]
  /\ UNCHANGED <<library, faults>>

Write(s, offset) == [Pruned EXCEPT ![s].bytes = Append(@, offset)]

\* Faulty form: takes any chunk that does not run past the declared size.
AppendAnywhere(s, offset) ==
  /\ s \in Live /\ Received(s) < import[s].size
  /\ import' = [Write(s, offset) EXCEPT ![s].hashed = Append(@, offset)]
  /\ UNCHANGED <<library, faults>>

\* append: a chunk at the next offset, and only there.
AppendChunk(s, offset) ==
  /\ s \in Live /\ Received(s) < import[s].size /\ offset = Received(s)
  /\ import' = [Write(s, offset) EXCEPT ![s].hashed = Append(@, offset)]
  /\ UNCHANGED <<library, faults>>

\* The write reaches the disk and append ends there: the flush reports an error,
\* or the client hangs up and the handler is dropped at the await.
AppendTorn(s) ==
  /\ s \in Live /\ Received(s) < import[s].size /\ faults < MaxFaults
  /\ import' = [Write(s, Received(s)) EXCEPT ![s].torn = TRUE]
  /\ faults' = faults + 1
  /\ UNCHANGED library

Abort(s) ==
  /\ s \in Live
  /\ import' = [Pruned EXCEPT ![s] = Gone]
  /\ UNCHANGED <<library, faults>>

\* finish takes a complete session out of the map and releases the mutex ...
FinishTake(s) ==
  /\ s \in Live /\ Received(s) = import[s].size
  /\ import' = [Pruned EXCEPT ![s].stage = "placing"]
  /\ UNCHANGED <<library, faults>>

\* Faulty form: a refused finish leaves the partial file behind.
FinishForgets(s) ==
  /\ import[s].stage \in {"placing", "placed"}
  /\ import' = [import EXCEPT ![s].stage = "ended"]
  /\ UNCHANGED <<library, faults>>

\* ... then discards it, for a wrong digest or an I/O error ...
FinishDiscard(s) ==
  /\ import[s].stage \in {"placing", "placed"}
  /\ import' = [import EXCEPT ![s] = Gone]
  /\ UNCHANGED <<library, faults>>

\* ... or renames it into its own directory ...
FinishPlace(s) ==
  /\ import[s].stage = "placing"
  /\ import' = [import EXCEPT ![s].stage = "placed", ![s].where = "import"]
  /\ UNCHANGED <<library, faults>>

\* ... writes the metadata text it was given beside it, if any; a write that a crash cuts
\* short is one of a shorter text ...
FinishDescribe(s, n) ==
  /\ import[s].stage = "placed"
  /\ import' = [import EXCEPT ![s].stage = "described", ![s].note = n]
  /\ UNCHANGED <<library, faults>>

\* ... and adds it to the library.
FinishRow(s) ==
  /\ import[s].stage = "described"
  /\ import' = [import EXCEPT ![s].stage = "ended"]
  /\ rows' = rows \cup {<<HomeOf[s], s>>}
  /\ UNCHANGED <<drafts, adding, removing, late, faults>>

(***************************************************************************)
(* The library.                                                            *)
(***************************************************************************)
HasHandler == Cardinality(adding) + Cardinality(removing) < MaxHandlers

\* A reference that appears once a delete found none, or once the file is gone.
Refer(s) ==
  late' = IF s \in removing \/ s \notin Imported THEN late \cup {s} ELSE late

\* create_media checks that the path is a file; nobody knows the path of an
\* import that finish still holds ...
RegisterCheck(w, s) ==
  /\ HasHandler /\ s \in Knows[w]
  /\ s \in Imported /\ import[s].stage \notin {"placed", "described"}
  /\ adding' = adding \cup {<<w, s>>}
  /\ UNCHANGED <<import, rows, drafts, removing, late, faults>>

\* ... and upserts the row.
RegisterRow(w, s) ==
  /\ <<w, s>> \in adding
  /\ adding' = adding \ {<<w, s>>}
  /\ rows' = rows \cup {<<w, s>>}
  /\ Refer(s)
  /\ UNCHANGED <<import, drafts, removing, faults>>

\* A draft or a variant that names a listed file is written; its path is not checked.
Attach(w, s) ==
  /\ <<w, s>> \in rows
  /\ drafts' = drafts \cup {<<w, s>>}
  /\ Refer(s)
  /\ UNCHANGED <<import, rows, adding, removing, faults>>

Detach(w, s) ==
  /\ <<w, s>> \in drafts
  /\ drafts' = drafts \ {<<w, s>>}
  /\ UNCHANGED <<import, rows, adding, removing, late, faults>>

\* Faulty form: only library rows keep a file alive.
DeleteMediaOfDrafts(w, s) ==
  /\ HasHandler
  /\ <<w, s>> \in rows
  /\ rows' = rows \ {<<w, s>>}
  /\ removing' = IF s \in ReferredTo(rows') THEN removing ELSE removing \cup {s}
  /\ UNCHANGED <<import, drafts, adding, late, faults>>

\* delete_media_row: the row goes, and what still refers to the path is looked up.
DeleteMedia(w, s) ==
  /\ HasHandler
  /\ <<w, s>> \in rows
  /\ rows' = rows \ {<<w, s>>}
  /\ removing' = IF s \in ReferredTo(rows' \cup drafts) THEN removing ELSE removing \cup {s}
  /\ UNCHANGED <<import, drafts, adding, late, faults>>

\* remove_unreferenced_import, on the answer the store gave.
RemoveFile(s) ==
  /\ s \in removing
  /\ removing' = removing \ {s}
  /\ import' = [import EXCEPT ![s] = Gone]
  /\ UNCHANGED <<rows, drafts, adding, late, faults>>

\* delete_workspace takes the rows and drafts, and no file.
DeleteWorkspace(w) ==
  /\ rows' = {r \in rows : r[1] # w} /\ drafts' = {r \in drafts : r[1] # w}
  /\ <<rows', drafts'>> # <<rows, drafts>>
  /\ UNCHANGED <<import, adding, removing, late, faults>>

(***************************************************************************)
(* Time and faults.                                                        *)
(***************************************************************************)
GoIdle(s) ==
  /\ s \in Live
  /\ import' = [import EXCEPT ![s].idle = TRUE]
  /\ UNCHANGED <<library, faults>>

\* A finish whose client hangs up, or whose row cannot be written, ends where it is.
FinishDropped(s) ==
  /\ import[s].stage \in {"placing", "placed", "described"} /\ faults < MaxFaults
  /\ import' = [import EXCEPT ![s].stage = "lost"]
  /\ faults' = faults + 1
  /\ UNCHANGED library

\* The sessions and the handlers were in memory; the files stay.
Crash ==
  /\ faults < MaxFaults
  /\ import' = [s \in Session |->
       IF import[s].stage \in {"open", "placing", "placed", "described"}
         THEN [import[s] EXCEPT !.stage = "lost"] ELSE import[s]]
  /\ adding' = {} /\ removing' = {}
  /\ faults' = faults + 1
  /\ UNCHANGED <<rows, drafts, late>>

Upload(s) ==
  \/ \E n \in Declares[s] : Start(s, n)
  \/ \E offset \in 0..(MaxSize - 1) : AppendChunk(s, offset)
  \/ AppendTorn(s)
  \/ Abort(s)

Finish(s) ==
  \/ FinishTake(s)
  \/ FinishDiscard(s)
  \/ FinishPlace(s)
  \/ \E n \in Describes[s] : FinishDescribe(s, n)
  \/ FinishRow(s)

Library(w, s) ==
  \/ RegisterCheck(w, s)
  \/ RegisterRow(w, s)
  \/ Attach(w, s)
  \/ Detach(w, s)
  \/ DeleteMedia(w, s)

Next ==
  \/ \E s \in Session : Upload(s) \/ Finish(s) \/ RemoveFile(s) \/ GoIdle(s) \/ FinishDropped(s)
  \/ \E w \in Workspace, s \in Session : Library(w, s)
  \/ \E w \in Workspace : DeleteWorkspace(w)
  \/ PruneIdle
  \/ Crash

Spec == Init /\ [][Next]_vars

\* The reaper wakes every minute, time passes, and a finish that is not dropped
\* runs to its end. Clients owe nothing.
Fairness ==
  /\ WF_vars(PruneIdle)
  /\ \A s \in Session :
       /\ WF_vars(GoIdle(s))
       /\ WF_vars(Finish(s) /\ import[s].stage # "open")

FairSpec == Spec /\ Fairness

-----------------------------------------------------------------------------
(***************************************************************************)
(* Properties.                                                             *)
(***************************************************************************)

\* No partial file outlives its session: pruned, aborted, refused or placed, it
\* is gone, unless a handler or the process died owning it.
PartialsAccountedFor ==
  \A s \in Session :
    import[s].where = "partial" => import[s].stage \in {"open", "placing", "lost"}

\* Whatever a client repeats, skips or reorders, a session that passes finish
\* hashed every chunk of its file once, in order.
HashedInOrder ==
  \A s \in Imported : import[s].hashed = Whole(s)

\* A finished import is the file its client declared, unless a chunk of it was
\* written and then not acknowledged.
WholeUnlessTorn ==
  \A s \in Imported : import[s].bytes = Whole(s) \/ import[s].torn

\* Finished imports and open sessions fit the quota together, but for the metadata texts
\* that came since the last admission, which nobody reserved: of those there are no more than
\* sessions may be open.  Not counted is an import that finish was at work on when another
\* was admitted.
Counted == {s \in Imported : ~import[s].torn /\ ~import[s].overtaken}
Fresh   == {s \in Counted : ~import[s].walked}
QuotaUnlessOvertaken ==
  /\ Bytes(Counted) + Reserved(Live) <= Quota + Texts(Fresh)
  /\ Cardinality(Fresh \cup Live) <= MaxOpen

\* An import that finish passed is its client's file (append, finish).
ImportedWhole == HashedInOrder /\ WholeUnlessTorn

\* The disk holds what the quota counts (create, prune_idle, finish).
DiskAccounted == PartialsAccountedFor /\ QuotaUnlessOvertaken

\* A library row or draft names a file that exists, unless the reference was
\* written after a delete had already found none.
ReferencedFileKept ==
  \A s \in ReferredTo(rows \cup drafts) : s \in Imported \/ s \in late

\* An upload nobody finishes gives its disk space back.
AbandonedIsRemoved ==
  \A s \in Session :
    import[s].where = "partial" ~> import[s].where # "partial" \/ import[s].stage = "lost"

-----------------------------------------------------------------------------
(***************************************************************************)
(* Why they hold (MediaProofs).                                            *)
(***************************************************************************)

ImportTypes ==
  /\ import \in [Session -> Import]
  /\ rows \subseteq References /\ drafts \subseteq References /\ adding \subseteq References
  /\ removing \subseteq Session

\* What was hashed is a beginning of the file, and is what is there unless a write was torn;
\* a session has hashed all of it once it is taken, and its file is where its stage says.
Sound(f) ==
  /\ \A i \in DOMAIN f.hashed : f.hashed[i] = i - 1
  /\ Len(f.hashed) <= f.size
  /\ f.stage = "new" => f.hashed = <<>>
  /\ f.torn \/ f.bytes = f.hashed
  /\ f.stage \in {"placing", "placed", "described"} \/ f.where = "import" => Len(f.hashed) = f.size
  /\ f.where = "partial" => f.stage \in {"open", "placing", "lost"}
  /\ f.stage \in {"new", "open", "placing"} => f.where # "import"
  /\ f.stage \in {"placed", "described"} => f.where = "import"
  /\ f.walked => f.where = "import" /\ f.stage # "placed"

\* A session that has not ended is unknown to the library, and what is being removed is no
\* longer referred to, unless it was again.
ReferencesInv ==
  /\ \A s \in Session : import[s].stage \in {"new", "open", "placing", "placed", "described"} =>
       s \notin removing \cup ReferredTo(rows \cup drafts \cup adding)
  /\ \A s \in removing \cap ReferredTo(rows \cup drafts) : s \in late
  /\ ReferencedFileKept

\* What was declared for the imports that count, and for those that will, fits the quota with
\* the texts an admission has counted; and those it has not are no more than may be open.
Claiming ==
  Live \cup {s \in Session : /\ import[s].stage = "placing" \/ import[s].where = "import"
                            /\ ~import[s].torn /\ ~import[s].overtaken}
Claim(s) == {s} \X ((1..import[s].size) \cup (IF import[s].walked THEN Text(s) ELSE {}))
QuotaInv == Cardinality(UNION {Claim(s) : s \in Claiming}) <= Quota
SlotsInv == Cardinality({s \in Claiming : ~import[s].walked}) <= MaxOpen

ImportInv ==
  ImportTypes /\ (\A s \in Session : Sound(import[s])) /\ ReferencesInv /\ QuotaInv /\ SlotsInv
=============================================================================
