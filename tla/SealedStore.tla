---------------------------- MODULE SealedStore ----------------------------
(***************************************************************************)
(* A SQLite store whose columns are sealed value by value                  *)
(* (content_sqlite.rs, and the satellites' opening of it in plugin_keys/). *)
(*                                                                         *)
(* The process that holds the key seals at each start what is not sealed   *)
(* yet, one batch per transaction, resumable; then it scrubs the plaintext *)
(* it freed.  It dies between any two commits.  A second process without a *)
(* key, opened before the store was sealed, still writes plaintext.        *)
(*                                                                         *)
(* Roots are numbered as custody adopts them: a process holds one as its   *)
(* current root and every earlier one as retired.  A value is plaintext or *)
(* sealed under a root, perhaps one that nobody holds.                     *)
(***************************************************************************)
EXTENDS Naturals

CONSTANTS
  Column,      \* the columns that may be planned, an item each
  RowsOf,      \* how many rows the table of a column has
  BatchSize,   \* BATCH_SIZE
  MaxRoot      \* bound on adopted roots

ASSUME StoreAssumption ==
  /\ RowsOf \in [Column -> Nat]
  /\ BatchSize \in Nat \ {0}
  /\ MaxRoot \in Nat \ {0}

Plain == 0
Lost  == MaxRoot + 1    \* a root nobody holds
NoRoot == 0

Cell == UNION {{c} \X (1..RowsOf[c]) : c \in Column}

VARIABLES
  satellite, \* whether the store is a satellite's, opened by open_store
  root,      \* the current root of custody
  planned,   \* the columns the app's version seals
  cell,      \* per cell: Plain, or the root its value is sealed under
  record,    \* the row of the store: key check value, state and cursor
  item,      \* per column: its row, with the cursor committed by the last batch
  traces,    \* where old plaintext may still be read from the file
  opener,    \* the process with the key, and where it is in open_store
  keyless,   \* the process without
  survived   \* per cell: how often it was still plaintext when an open was done

vars == <<satellite, root, planned, cell, record, item, traces, opener, keyless, survived>>

\* The store row. "scrubbed" and "recent" are its cursor: the freed pages are
\* zeroed and only the VACUUM is owed; an attempt was refused within the day.
Record == [kcv : 0..MaxRoot, state : {"none", "ok", "owed"}, scrubbed : BOOLEAN, recent : BOOLEAN]

Item == [state : {"none", "pending", "sealing", "sealed"}, cursor : Nat]
Reset == [state |-> "pending", cursor |-> 0]

Step == {"down", "checkpoint", "scrub", "vacuum", "confirm", "reopen", "migrate",
         "batch", "walked", "opened", "serving"}

\* "settling" says why the freed plaintext is scrubbed: a debt found at the start,
\* or this migration. "left" are the columns still to visit, "column" the one in hand.
Opener == [step : Step, settling : {"debt", "migration"}, root : 0..MaxRoot,
           retired : BOOLEAN, left : SUBSET Column, column : SUBSET Column,
           sealed : BOOLEAN, unreadable : BOOLEAN]

Down == [step |-> "down", settling |-> "debt", root |-> NoRoot,
         retired |-> FALSE, left |-> {}, column |-> {}, sealed |-> FALSE, unreadable |-> FALSE]

TypeOK ==
  /\ satellite \in BOOLEAN
  /\ root \in 1..MaxRoot
  /\ planned \in SUBSET Column
  /\ cell \in [Cell -> 0..Lost]
  /\ record \in Record
  /\ item \in [Column -> Item] /\ \A c \in Column : item[c].cursor <= RowsOf[c]
  /\ traces \in SUBSET {"wal", "free", "slack"}
  /\ opener \in Opener
  /\ opener.step \in {"batch", "walked"} <=> opener.column # {}
  /\ keyless \in {"closed", "open", "writing"}
  /\ survived \in [Cell -> 0..2]

\* A store of an older version: nothing is recorded, values are plaintext, or under
\* a root that is gone, and pages freed without secure_delete may hold more.
Init ==
  /\ satellite \in BOOLEAN
  /\ root = 1
  /\ planned \in (SUBSET Column) \ {{}}
  /\ cell \in [Cell -> {Plain, Lost}]
  /\ record = [kcv |-> NoRoot, state |-> "none", scrubbed |-> FALSE, recent |-> FALSE]
  /\ item = [c \in Column |-> [state |-> "none", cursor |-> 0]]
  /\ traces \in {{}, {"free", "slack"}}
  /\ opener = Down
  /\ keyless = "closed"
  /\ survived = [x \in Cell |-> 0]

-----------------------------------------------------------------------------
(* The store row.                                                          *)

Owed(scrubbed, recent) ==
  [record EXCEPT !.state = "owed", !.scrubbed = scrubbed, !.recent = recent]

\* mark_scrub_owed: a finished scrub is forgotten, the last attempt kept.
ScrubOwed == Owed(FALSE, record.state = "owed" /\ record.recent)

Settled == [record EXCEPT !.state = "ok", !.scrubbed = FALSE, !.recent = FALSE]

\* The conflict clause of record_store_kcv keeps the state of a row that is there.
Recorded(kcv) ==
  [record EXCEPT !.kcv = kcv, !.state = IF @ = "none" THEN "ok" ELSE @]

-----------------------------------------------------------------------------
(* A start: the key is checked, and recorded on first use.  A satellite    *)
(* goes on as open_store does; any other caller as the documentation of    *)
(* StoreKeyState asks, and as process_keys.rs tests it.                    *)

\* Faulty form: the key is recorded by nobody.
StartUnrecorded ==
  /\ opener.step = "down"
  /\ opener' = [Down EXCEPT
       !.step = IF record.state = "owed" /\ ~record.recent THEN "checkpoint" ELSE "reopen",
       !.root = root, !.left = planned,
       !.retired = record.kcv # NoRoot /\ record.kcv # root]
  /\ UNCHANGED <<satellite, root, planned, cell, record, item, traces, keyless, survived>>

Start ==
  /\ opener.step = "down"
  /\ opener' = [Down EXCEPT
       !.step = IF record.state = "owed" /\ ~record.recent THEN "checkpoint" ELSE "reopen",
       !.root = root, !.left = planned,
       !.retired = record.kcv # NoRoot /\ record.kcv # root]
  /\ record' = IF record.kcv = NoRoot THEN Recorded(root) ELSE record
  /\ UNCHANGED <<satellite, root, planned, cell, item, traces, keyless, survived>>

-----------------------------------------------------------------------------
(* The debt: run_pending_vacuum before the migration, finish_store after   *)
(* it.  Each step may be blocked by a reader, or fail.                     *)

StoreFrame == UNCHANGED <<satellite, root, planned, cell, item, keyless, survived>>

\* What follows: the migration, or nothing.
Onward ==
  [opener EXCEPT !.step = IF opener.settling = "debt" THEN "reopen" ELSE "opened"]

Settling == opener.step \in {"checkpoint", "scrub", "vacuum", "confirm"}

\* An error: run_pending_vacuum leaves the row alone, finish_store marks it.
SettleFails ==
  /\ Settling
  /\ opener' = Onward
  /\ record' = IF opener.settling = "debt" THEN record ELSE Owed(FALSE, FALSE)
  /\ UNCHANGED traces /\ StoreFrame

\* The WAL's frames go back to the file and the WAL is truncated.
Checkpoint ==
  /\ opener.step = "checkpoint"
  /\ traces' = traces \ {"wal"}
  /\ opener' = [opener EXCEPT !.step =
       IF record.state = "owed" /\ record.scrubbed THEN "vacuum" ELSE "scrub"]
  /\ UNCHANGED record /\ StoreFrame

\* Zero blobs take every free page, if the disk has room for them.
Scrub ==
  /\ opener.step = "scrub"
  /\ \/ /\ traces' = traces \ {"free", "wal"}
        /\ opener' = [opener EXCEPT !.step = "vacuum"]
        /\ record' = IF opener.settling = "debt" THEN Owed(TRUE, FALSE) ELSE record
     \/ /\ UNCHANGED traces
        /\ opener' = Onward
        /\ record' = Owed(FALSE, opener.settling = "debt")
  /\ StoreFrame

\* The file is rewritten without its slack, in the WAL first; or size or room forbid it.
Vacuum ==
  /\ opener.step = "vacuum"
  /\ \/ /\ traces' = IF "slack" \in traces THEN {"wal"} ELSE traces \ {"free"}
        /\ opener' = [opener EXCEPT !.step = "confirm"]
        /\ UNCHANGED record
     \/ /\ UNCHANGED traces
        /\ opener' = Onward
        /\ record' = Owed(TRUE, opener.settling = "debt")
  /\ StoreFrame

Confirm ==
  /\ opener.step = "confirm"
  /\ traces' = traces \ {"wal"}
  /\ opener' = Onward
  /\ record' = Settled
  /\ StoreFrame

-----------------------------------------------------------------------------
(* The migration.                                                          *)

PlainIn(c) == {x \in Cell : x[1] = c /\ cell[x] = Plain}

\* Faulty form: a finished item stays finished.
ResetsRetired(c) == ~satellite /\ opener.retired

\* A satellite resets the finished items that hold plaintext again
\* (reopen_plaintext_items); another caller every item of a retired store.
Resets(c) ==
  IF satellite THEN item[c].state = "sealed" /\ PlainIn(c) # {}
  ELSE opener.retired

Reopen ==
  /\ opener.step = "reopen"
  /\ IF opener.left = {}
       THEN /\ opener' = [opener EXCEPT !.step = "migrate", !.left = planned]
            /\ UNCHANGED item
       ELSE \E c \in opener.left :
            /\ item' = IF Resets(c) THEN [item EXCEPT ![c] = Reset] ELSE item
            /\ opener' = [opener EXCEPT !.left = @ \ {c}]
  /\ UNCHANGED <<satellite, root, planned, cell, record, traces, keyless, survived>>

\* A finished item is skipped.
Skip ==
  /\ opener.step = "migrate"
  /\ \E c \in opener.left :
       /\ item[c].state = "sealed"
       /\ opener' = [opener EXCEPT !.left = @ \ {c}]
  /\ UNCHANGED <<satellite, root, planned, cell, record, item, traces, keyless, survived>>

\* Faulty form: the debt is not recorded when an item begins.
BeginUnowed ==
  /\ opener.step = "migrate"
  /\ \E c \in opener.left :
       /\ item[c].state # "sealed"
       /\ item' = [item EXCEPT ![c].state = "sealing"]
       /\ opener' = [opener EXCEPT !.step = "batch", !.left = @ \ {c}, !.column = {c}]
  /\ UNCHANGED <<satellite, root, planned, cell, record, traces, keyless, survived>>

\* The debt and the start of the item are one transaction.
Begin ==
  /\ opener.step = "migrate"
  /\ \E c \in opener.left :
       /\ item[c].state # "sealed"
       /\ item' = [item EXCEPT ![c].state = "sealing"]
       /\ opener' = [opener EXCEPT !.step = "batch", !.left = @ \ {c}, !.column = {c}]
  /\ record' = ScrubOwed
  /\ UNCHANGED <<satellite, root, planned, cell, traces, keyless, survived>>

\* The rows after the cursor, and what is in them.
BatchOf(c) ==
  {x \in Cell : x[1] = c /\ item[c].cursor < x[2] /\ x[2] <= item[c].cursor + BatchSize}

\* Plaintext, or a value of a retired root.
NeedsReseal(x) == cell[x] < opener.root
Opens(x) == cell[x] <= opener.root

\* The cursor is the last key that was read.
Short(c) == item[c].cursor + BatchSize > RowsOf[c]
After(c) == IF Short(c) THEN RowsOf[c] ELSE item[c].cursor + BatchSize

\* What is done with the rows of a batch.
BatchIn(c) ==
  LET batch == BatchOf(c)
      stale == {x \in batch : NeedsReseal(x)}
  IN
  /\ cell' = [x \in Cell |-> IF x \in stale THEN opener.root ELSE cell[x]]
  /\ survived' = [x \in Cell |-> IF x \in stale THEN 0 ELSE survived[x]]
  /\ traces' = traces \cup {t \in {"wal"} : \E x \in stale : cell[x] = Plain}
  /\ item' = [item EXCEPT ![c].cursor = After(c)]
  /\ opener' = [opener EXCEPT
       !.step = IF Short(c) THEN "walked" ELSE "batch",
       !.sealed = @ \/ stale # {},
       !.unreadable = @ \/ \E x \in batch : ~Opens(x)]

\* One transaction reads a batch, seals what needs it and moves the cursor; a short
\* batch is the last.  The page images it replaces stay in the WAL.
Batch ==
  /\ opener.step = "batch"
  /\ \E c \in opener.column : BatchIn(c)
  /\ UNCHANGED <<satellite, root, planned, record, keyless>>

\* all_items_sealed asks the rows that are there.
AllItemsSealed == \A c \in Column : item'[c].state \in {"none", "sealed"}

\* Faulty form: values that do not open are no reason to keep the record.
WalkedUnreadable ==
  /\ opener.step = "walked"
  /\ item' = [c \in Column |->
       IF c \in opener.column THEN [state |-> "sealed", cursor |-> 0] ELSE item[c]]
  /\ opener' = [opener EXCEPT !.step = "migrate", !.column = {}]
  /\ record' = IF opener.retired /\ AllItemsSealed THEN Recorded(opener.root) ELSE record
  /\ UNCHANGED <<satellite, root, planned, cell, traces, keyless, survived>>

\* The item is finished; with the last one a retired record moves to the current root.
Walked ==
  /\ opener.step = "walked"
  /\ item' = [c \in Column |->
       IF c \in opener.column THEN [state |-> "sealed", cursor |-> 0] ELSE item[c]]
  /\ opener' = [opener EXCEPT !.step = "migrate", !.column = {}]
  /\ record' = IF opener.retired /\ ~opener.unreadable /\ AllItemsSealed
                 THEN Recorded(opener.root) ELSE record
  /\ UNCHANGED <<satellite, root, planned, cell, traces, keyless, survived>>

\* finish_store is called only when this run sealed something.
Migrated ==
  /\ opener.step = "migrate" /\ opener.left = {}
  /\ opener' = [opener EXCEPT !.settling = "migration",
                              !.step = IF opener.sealed THEN "checkpoint" ELSE "opened"]
  /\ UNCHANGED <<satellite, root, planned, cell, record, item, traces, keyless, survived>>

\* The store is open and serves; the model counts what is still plaintext in it.
Serve ==
  /\ opener.step = "opened"
  /\ opener' = [Down EXCEPT !.step = "serving", !.root = opener.root]
  /\ survived' = [x \in Cell |->
       IF x[1] \in planned /\ cell[x] = Plain /\ survived[x] < 2
         THEN survived[x] + 1 ELSE survived[x]]
  /\ UNCHANGED <<satellite, root, planned, cell, record, item, traces, keyless>>

\* A write through ryu_seal: over a sealed value, as an insert would be.
Write ==
  /\ opener.step = "serving"
  /\ \E x \in Cell : /\ x[1] \in planned /\ cell[x] # Plain
                     /\ cell' = [cell EXCEPT ![x] = opener.root]
  /\ UNCHANGED <<satellite, root, planned, record, item, traces, opener, keyless, survived>>

-----------------------------------------------------------------------------
(* A process without a key.                                                *)

KeylessFrame == UNCHANGED <<satellite, root, planned, record, item, traces, opener>>

\* It opens in compat mode when no key is recorded; a recorded store refuses it.
KeylessOpen ==
  /\ keyless = "closed" /\ record.kcv = NoRoot
  /\ keyless' = "open"
  /\ UNCHANGED <<cell, survived>> /\ KeylessFrame

\* refresh_compat, before a write and outside its transaction.
Refresh ==
  /\ keyless = "open"
  /\ keyless' = IF record.kcv = NoRoot THEN "writing" ELSE "closed"
  /\ UNCHANGED <<cell, survived>> /\ KeylessFrame

StoredPlain(x) ==
  /\ cell' = [cell EXCEPT ![x] = Plain]
  /\ survived' = [survived EXCEPT ![x] = 0]

\* The write that was announced, whenever it comes.
KeylessWrite ==
  /\ keyless = "writing"
  /\ \E x \in Cell : StoredPlain(x)
  /\ keyless' = "open"
  /\ KeylessFrame

\* ensure_compat_write, inside the transaction of the write.
CheckedWrite ==
  /\ keyless = "open" /\ record.kcv = NoRoot
  /\ \E x \in Cell : StoredPlain(x)
  /\ UNCHANGED keyless /\ KeylessFrame

-----------------------------------------------------------------------------
(* What goes on around them.                                               *)

\* The process dies or an error ends its open; the next start finds what was committed.
Crash ==
  /\ opener.step # "down"
  /\ opener' = Down
  /\ UNCHANGED <<satellite, root, planned, cell, record, item, traces, keyless, survived>>

\* Custody adopts a new root; running processes keep theirs.
Adopt ==
  /\ root < MaxRoot
  /\ root' = root + 1
  /\ UNCHANGED <<satellite, planned, cell, record, item, traces, opener, keyless, survived>>

\* A new version of the app seals one more column.
Upgrade ==
  /\ opener.step = "down"
  /\ \E c \in Column \ planned : planned' = planned \cup {c}
  /\ UNCHANGED <<satellite, root, cell, record, item, traces, opener, keyless, survived>>

DayPasses ==
  /\ record.recent
  /\ record' = [record EXCEPT !.recent = FALSE]
  /\ UNCHANGED <<satellite, root, planned, cell, item, traces, opener, keyless, survived>>

-----------------------------------------------------------------------------

Settle == Checkpoint \/ Scrub \/ Vacuum \/ Confirm \/ SettleFails
Migrate == Reopen \/ Skip \/ Begin \/ Batch \/ Walked \/ Migrated
Keyless == KeylessOpen \/ Refresh \/ KeylessWrite \/ CheckedWrite

Next ==
  \/ Start \/ Settle \/ Migrate \/ Serve \/ Write
  \/ Keyless
  \/ Crash \/ Adopt \/ Upgrade \/ DayPasses

Spec == Init /\ [][Next]_vars

-----------------------------------------------------------------------------
(* Properties.                                                             *)

Finished == \A c \in planned : item[c].state = "sealed"

\* The debt survives every crash: plaintext a migration left behind is owed until it
\* is scrubbed and checkpointed, and a store that is finished and reads ok has none
\* left, from before the migration either.
OkMeansClean ==
  record.state # "owed" => "wal" \notin traces /\ (Finished => traces = {})

\* No value is sealed in a store that does not say so: keyless processes and key
\* custody, which ask the record, are never told that a sealed store is a plain one.
SealedMeansRecorded ==
  \A x \in Cell : cell[x] \in 1..MaxRoot => record.kcv # NoRoot

\* What the row of a store says is true of the file, between any two statements and after
\* any crash (migrate_columns, scrub_freelist).
RowIsTrue == OkMeansClean /\ SealedMeansRecorded

\* What a step may rely on, whichever start it belongs to.  A process that opened the
\* store recorded its key first.
KeyInv ==
  /\ opener.step # "down" => record.kcv # NoRoot /\ opener.root # NoRoot
  /\ SealedMeansRecorded

\* The debt is on record while anything is rewritten or scrubbed, and as long as
\* this migration still has to decide whether it is paid.
DebtInv ==
  /\ Settling \/ opener.step \in {"batch", "walked"} => record.state = "owed"
  /\ opener.step = "migrate" /\ opener.sealed => record.state = "owed"
  /\ opener.step = "reopen" => ~opener.sealed
  /\ Settling => opener.settling = "migration" \/ ~opener.sealed

\* How far the scrub has come is how little plaintext is left.
TraceInv ==
  /\ record.scrubbed => "free" \notin traces
  /\ opener.step = "scrub" => "wal" \notin traces
  /\ opener.step = "vacuum" => traces \subseteq {"slack"}
  /\ opener.step = "confirm" => traces \subseteq {"wal"}

\* Plaintext a keyless process slips into a sealed column, behind the cursor or into a
\* finished item, is still there after one start of a satellite at most.
PlaintextIsFound ==
  satellite => \A x \in Cell : survived[x] <= 1

\* A value that was plaintext when a start was done, and still is.
Survivor(x) == survived[x] >= 1 /\ cell[x] = Plain

\* The walk of its column is still to reach it.
Ahead(x) == item[x[1]].state # "sealed" /\ item[x[1]].cursor < x[2]

\* Where the open is.  Each planned column is to be visited, in hand or finished, and
\* the cursor of a column that was walked is at its end.
PlaceInv ==
  /\ Settling /\ opener.settling = "debt" => opener.left = planned
  /\ opener.step = "reopen" => opener.left \subseteq planned
  /\ opener.step \in {"migrate", "batch", "walked"} =>
       /\ opener.left \cup opener.column \subseteq planned
       /\ opener.left \cap opener.column = {}
       /\ \A c \in planned \ (opener.left \cup opener.column) : item[c].state = "sealed"
       /\ \A c \in opener.column : opener.column = {c}
  /\ opener.step = "walked" => \A c \in opener.column : item[c].cursor = RowsOf[c]
  /\ opener.step = "opened" \/ (Settling /\ opener.settling = "migration") =>
       \A c \in planned : item[c].state = "sealed"

\* Where a survivor is while a satellite starts again: in a finished item until
\* reopen_plaintext_items resets it, then ahead of the cursor until it is sealed.
FoundInv ==
  /\ \A x \in Cell : survived[x] <= 1
  /\ \A x \in Cell : survived[x] >= 1 => x[1] \in planned
  /\ \A x \in Cell : Survivor(x) => item[x[1]].state = "sealed" \/ Ahead(x)
  /\ opener.step = "reopen" =>
       \A x \in Cell : Survivor(x) => x[1] \in opener.left \/ Ahead(x)
  /\ opener.step \in {"migrate", "batch", "walked"} =>
       \A x \in Cell : Survivor(x) => x[1] \in opener.left \cup opener.column /\ Ahead(x)
  /\ opener.step = "opened" \/ (Settling /\ opener.settling = "migration") =>
       \A x \in Cell : ~Survivor(x)

\* The rows of planned columns that this migration has walked.
WalkedBy == {x \in Cell : /\ x[1] \in planned \ opener.left
                          /\ x[1] \in opener.column => x[2] <= item[x[1]].cursor}

\* A caller that resets a retired store walks every row of it from the start: as long as
\* it met nothing it could not read, what it has walked is sealed under its root.
MoveInv ==
  opener.retired =>
    /\ opener.step = "reopen" => \A c \in planned \ opener.left : item[c] = Reset
    /\ opener.step \in {"migrate", "batch", "walked"} =>
         /\ \A c \in opener.left : item[c] = Reset
         /\ ~opener.unreadable => \A x \in WalkedBy : cell[x] \in {Plain, opener.root}

\* The inductive invariant of the key record, the debt, the survivors and the move of
\* the record: with it no crash, refused vacuum or failed checkpoint does harm.
SInv ==
  /\ TypeOK /\ KeyInv /\ DebtInv /\ TraceInv /\ OkMeansClean /\ PlaceInv
  /\ satellite => FoundInv
  /\ ~satellite => MoveInv

MovesRecord == record.kcv # NoRoot /\ record'.kcv # record.kcv

NamesEveryValue ==
  \A x \in Cell : x[1] \in planned /\ cell[x] # Plain => cell[x] = record'.kcv

\* A caller that resets a retired store at each start moves its record only when every
\* sealed value opens under the new root, however often it was interrupted before.
RecordMovesWithItsValues ==
  [][MovesRecord /\ ~satellite => NamesEveryValue]_vars
=============================================================================
