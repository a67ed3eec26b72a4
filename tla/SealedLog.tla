------------------------------ MODULE SealedLog ------------------------------
(***************************************************************************)
(* Append-only sealed logs (sealed_log.rs): a writer that appends and      *)
(* syncs, the scan that finds the committed records when a log is opened   *)
(* again, the cut of a torn tail, and the compaction into a sealed file.   *)
(* The bytes after the header are pieces: a whole record sealed at an      *)
(* index, or what an interrupted write left of one.  Bytes reach the disk  *)
(* in the order in which they are written.                                 *)
(***************************************************************************)
EXTENDS Naturals, Sequences, Functions

CONSTANTS
  MaxRecords,  \* bounds the appends
  MaxFaults    \* bounds failed writes, crashes, losses of power and changes of the key

VARIABLES
  log,        \* the file: its header, the key it is under, its pieces
  durable,    \* how many pieces are on stable storage
  writer,     \* a SealedLogWriter
  appends,    \* records appended so far, which are numbered
  promised,   \* those a sync covered
  overlaid,   \* a record was written behind the rest of one that failed
  key,        \* the key of the process: a number, those below it are retired
  compaction, \* compact_to_sealed_file
  temp,       \* <dest>.sealing
  dest,       \* the compacted file
  faults

vars == <<log, durable, writer, appends, promised, overlaid, key, compaction, temp, dest, faults>>

Record == 1..MaxRecords
Whole(i, r) == [kind |-> "whole", index |-> i, record |-> r]
Rest(kind) == [kind |-> kind, index |-> 0, record |-> 0]

\* "short": its end is missing; "zeros": only zeros; "garbled": all there, does not open.
Torn == {Rest("short"), Rest("zeros"), Rest("garbled")}

NoLog == [header |-> "none", key |-> 0, pieces |-> <<>>]
NoWriter == [open |-> FALSE, next |-> 0, torn |-> FALSE]
NoFile == [state |-> "none", records |-> <<>>]
NoCompaction == [pc |-> "idle", records |-> <<>>]

IsPiece(p) ==
  \/ p \in Torn
  \/ p.kind = "whole" /\ p.index \in 0..MaxRecords /\ p.record \in Record

TypeOK ==
  /\ log.header \in {"none", "short", "whole"} /\ log.key \in 0..MaxFaults
  /\ \A i \in DOMAIN log.pieces : IsPiece(log.pieces[i])
  /\ durable \in 0..Len(log.pieces)
  /\ writer.open \in BOOLEAN /\ writer.next \in 0..MaxRecords /\ writer.torn \in BOOLEAN
  /\ appends \in 0..MaxRecords /\ promised \in SUBSET Record /\ overlaid \in BOOLEAN
  /\ key \in 0..MaxFaults /\ faults \in 0..MaxFaults
  /\ compaction.pc \in {"idle", "write", "rename"}
  /\ temp.state \in {"none", "partial", "whole"} /\ dest.state \in {"none", "whole"}

Init ==
  /\ log = NoLog /\ durable = 0
  /\ writer = NoWriter /\ appends = 0 /\ promised = {} /\ overlaid = FALSE
  /\ key = 0
  /\ compaction = NoCompaction /\ temp = NoFile /\ dest = NoFile
  /\ faults = 0

Compacting == <<compaction, temp, dest>>
History == <<appends, promised, overlaid>>

Fault == faults < MaxFaults /\ faults' = faults + 1

-----------------------------------------------------------------------------
(* Scanning.                                                               *)

Opens(k, i) == LET p == log.pieces[i] IN p.kind = "whole" /\ log.key = k /\ p.index = i - 1

\* How many records from the start open under a key.
Committed(k) == CHOOSE n \in 0..Len(log.pieces) :
                  /\ \A i \in 1..n : Opens(k, i)
                  /\ n < Len(log.pieces) => ~Opens(k, n + 1)

\* scan_with: what can follow them.  A short piece takes bytes of the next ones for its
\* own: too few, just as many as there are, or fewer.
Ends(k) ==
  LET n == Committed(k)
      last == n + 1 = Len(log.pieces)
      kind == log.pieces[n + 1].kind IN
  IF n = Len(log.pieces) THEN {"clean"}
  ELSE IF kind = "short" THEN {"short"} \cup {e \in {"failed", "corrupt"} : ~last}
  ELSE IF ~last THEN {"corrupt"}
  ELSE IF kind = "zeros" THEN {"short"} ELSE {"failed"}

\* Faulty form: a first record that does not open is a torn tail as well.
ForeignFirst(k, end) == FALSE

\* A whole first record that does not open says that the key is the wrong one.
Foreign(k, end) == end = "failed" /\ Committed(k) = 0

\* open_log: the keys are tried from the current one on.
Openings ==
  {o \in [key : 0..key, end : {"clean", "short", "failed"}] :
     /\ log.header = "whole"
     /\ o.end \in Ends(o.key) /\ ~Foreign(o.key, o.end)
     /\ \A newer \in o.key + 1..key : \E e \in Ends(newer) : e = "corrupt" \/ Foreign(newer, e)}

Recovered(k) == [i \in 1..Committed(k) |-> log.pieces[i].record]

-----------------------------------------------------------------------------
(* The writer.                                                             *)

\* Header and directory are synced before there is a writer.
Create ==
  /\ ~writer.open /\ log.header = "none" /\ dest.state = "none"
  /\ log' = [header |-> "whole", key |-> key, pieces |-> <<>>]
  /\ writer' = [NoWriter EXCEPT !.open = TRUE]
  /\ UNCHANGED <<durable, key, faults, History, Compacting>>

\* A log without its header is never opened again.
CreateFails ==
  /\ ~writer.open /\ log.header = "none" /\ dest.state = "none"
  /\ Fault
  /\ log' = [NoLog EXCEPT !.header = "short", !.key = key]
  /\ UNCHANGED <<durable, writer, key, History, Compacting>>

\* open_append: what is not committed is cut off.  A log under a retired key is refused;
\* from its compaction on a log stays closed.
OpenAppend ==
  /\ ~writer.open /\ compaction.pc = "idle" /\ dest.state = "none"
  /\ \E o \in Openings :
       /\ o.key = key
       /\ log' = [log EXCEPT !.key = key, !.pieces = SubSeq(@, 1, Committed(key))]
       /\ durable' = IF o.end = "clean" THEN durable ELSE Committed(key)
       /\ writer' = [open |-> TRUE, next |-> Committed(key), torn |-> FALSE]
  /\ UNCHANGED <<key, faults, History, Compacting>>

\* append
AppendRecord ==
  /\ writer.open /\ appends < MaxRecords
  /\ log' = [log EXCEPT !.pieces = Append(@, Whole(writer.next, appends + 1))]
  /\ appends' = appends + 1
  /\ writer' = [writer EXCEPT !.next = @ + 1]
  /\ overlaid' = (overlaid \/ writer.torn)
  /\ UNCHANGED <<durable, promised, key, faults, Compacting>>

\* Part of the frame is in the file, and the writer goes on at the same index.
AppendFails ==
  /\ writer.open
  /\ Fault
  /\ log' = [log EXCEPT !.pieces = Append(@, Rest("short"))]
  /\ writer' = [writer EXCEPT !.torn = TRUE]
  /\ UNCHANGED <<durable, key, History, Compacting>>

Sync ==
  /\ writer.open
  /\ durable' = Len(log.pieces)
  /\ promised' = {p.record : p \in Range(log.pieces)} \ {0}
  /\ UNCHANGED <<log, writer, appends, overlaid, key, faults, Compacting>>

Close ==
  /\ writer.open
  /\ writer' = NoWriter
  /\ UNCHANGED <<log, durable, key, faults, History, Compacting>>

-----------------------------------------------------------------------------
(* Compaction.                                                             *)

\* A strict read, then a stale copy goes.
CompactBegin ==
  /\ ~writer.open /\ compaction.pc = "idle" /\ dest.state = "none"
  /\ \E o \in Openings :
       /\ o.end = "clean"
       /\ compaction' = [pc |-> "write", records |-> Recovered(o.key)]
  /\ temp' = [state |-> "partial", records |-> <<>>]
  /\ UNCHANGED <<log, durable, writer, key, dest, faults, History>>

\* finish: the last chunk, and a sync.
CompactWrite ==
  /\ compaction.pc = "write"
  /\ temp' = [state |-> "whole", records |-> compaction.records]
  /\ compaction' = [compaction EXCEPT !.pc = "rename"]
  /\ UNCHANGED <<log, durable, writer, key, dest, faults, History>>

CompactRename ==
  /\ compaction.pc = "rename"
  /\ dest' = temp /\ temp' = NoFile /\ compaction' = NoCompaction
  /\ UNCHANGED <<log, durable, writer, key, faults, History>>

CompactFails ==
  /\ compaction.pc # "idle"
  /\ Fault
  /\ temp' = NoFile /\ compaction' = NoCompaction
  /\ UNCHANGED <<log, durable, writer, key, dest, History>>

\* The caller deletes the log.
DropLog ==
  /\ ~writer.open /\ dest.state = "whole" /\ log.header = "whole"
  /\ log' = NoLog /\ durable' = 0
  /\ UNCHANGED <<writer, key, faults, History, Compacting>>

-----------------------------------------------------------------------------
(* What goes wrong.                                                        *)

Down == writer' = NoWriter /\ compaction' = NoCompaction

\* The process dies, perhaps in the middle of a write; the system keeps what was written.
Dies ==
  /\ Fault
  /\ Down
  /\ \/ UNCHANGED log
     \/ writer.open /\ log' = [log EXCEPT !.pieces = Append(@, Rest("short"))]
  /\ UNCHANGED <<durable, key, temp, dest, History>>

\* The power goes: what was not synced is lost from some byte on.
PowerLoss ==
  /\ Fault
  /\ Down
  /\ \E n \in durable..Len(log.pieces) :
       log' \in {[log EXCEPT !.pieces = SubSeq(@, 1, n)]} \cup
                {[log EXCEPT !.pieces = Append(SubSeq(@, 1, n), t)] : t \in {t \in Torn : n < Len(log.pieces)}}
  /\ UNCHANGED <<durable, key, temp, dest, History>>

NewKey ==
  /\ ~writer.open /\ compaction.pc = "idle"
  /\ Fault
  /\ key' = key + 1
  /\ UNCHANGED <<log, durable, writer, History, Compacting>>

Next ==
  \/ Create \/ CreateFails \/ OpenAppend \/ AppendRecord \/ AppendFails \/ Sync \/ Close
  \/ CompactBegin \/ CompactWrite \/ CompactRename \/ CompactFails \/ DropLog
  \/ Dies \/ PowerLoss \/ NewKey

Spec == Init /\ [][Next]_vars

-----------------------------------------------------------------------------
(* Properties.                                                             *)

\* Whatever key the process has come to, a record that a sync promised is in the compacted
\* file, or the log opens and gives it back: unless a failed append was followed by another
\* through the same writer (open_log, open_append, compact_to_sealed_file).
PromisedOpens ==
  ~overlaid /\ promised # {} =>
    \/ promised \subseteq Range(dest.records)
    \/ Openings # {} /\ \A o \in Openings : promised \subseteq Range(Recovered(o.key))
-----------------------------------------------------------------------------
(* Why that holds (SealedFilesProofs).                                     *)

Piece == [kind : {"whole", "short", "zeros", "garbled"}, index : Nat, record : Nat]

LogTypes ==
  /\ log \in [header : {"none", "short", "whole"}, key : 0..key, pieces : Seq(Piece)]
  /\ durable \in 0..Len(log.pieces)
  /\ writer \in [open : BOOLEAN, next : Nat, torn : BOOLEAN]
  /\ appends \in Nat /\ key \in Nat
  /\ compaction.pc \in {"idle", "write", "rename"}
  /\ dest.state \in {"none", "whole"}

\* The first m pieces are the records of the log; what is behind them is torn, and was
\* so by failed writes alone when it is more than one piece or there is a writer.
Sound(m) ==
  /\ m \in 0..Len(log.pieces)
  /\ \A i \in 1..m : log.pieces[i].kind = "whole" /\ log.pieces[i].index = i - 1
  /\ \A i \in m + 1..Len(log.pieces) : log.pieces[i] \in Torn
  /\ m + 1 < Len(log.pieces) => log.pieces[m + 1].kind = "short"

\* A writer is at their end, and knows whether a write failed.
WriterFollows(m) ==
  writer.open =>
    /\ log.header = "whole" /\ log.key = key /\ compaction.pc = "idle" /\ dest.state = "none"
    /\ writer.next = m
    /\ IF writer.torn THEN \A i \in m + 1..Len(log.pieces) : log.pieces[i].kind = "short"
                      ELSE m = Len(log.pieces)

\* What was promised is among the records on stable storage, in the records of a compaction
\* under way, and in its file.
PromisedAt(m) ==
  /\ dest.state = "none" => \A r \in promised : \E i \in 1..m : i <= durable /\ log.pieces[i].record = r
  /\ compaction.pc # "idle" => promised \subseteq Range(compaction.records) /\ dest.state = "none"
  /\ compaction.pc = "rename" => temp.state = "whole" /\ temp.records = compaction.records
  /\ dest.state = "whole" => promised \subseteq Range(dest.records)

\* Only a log with its header has records, or is compacted.
Headed == log.header # "whole" => log.pieces = <<>> /\ compaction.pc = "idle"

LogAt(m) == LogTypes /\ Headed /\ Sound(m) /\ WriterFollows(m) /\ PromisedAt(m)

LogInv == ~overlaid => \E m \in 0..Len(log.pieces) : LogAt(m)
=============================================================================
