------------------------- MODULE SealedStoreProofs -------------------------
(***************************************************************************)
(* Proofs about SealedStore: SInv is inductive, whatever the tables and    *)
(* the number of roots.  First what the operators on the store row and on  *)
(* the opener return, then one lemma per conjunct of SInv with one step    *)
(* per action, then the theorems.                                          *)
(***************************************************************************)
EXTENDS SealedStore, TLAPS

USE StoreAssumption

\* The row of a store that owes its scrub.
LEMMA OwedIs ==
  ASSUME record \in Record, NEW s \in BOOLEAN, NEW r \in BOOLEAN
  PROVE  /\ Owed(s, r) \in Record
         /\ Owed(s, r).state = "owed" /\ Owed(s, r).kcv = record.kcv
         /\ Owed(s, r).scrubbed = s
BY DEF Owed, Record

\* The row of a store whose debt is paid.
LEMMA SettledIs ==
  ASSUME record \in Record
  PROVE  /\ Settled \in Record
         /\ Settled.state = "ok" /\ Settled.kcv = record.kcv
         /\ Settled.scrubbed = FALSE
BY DEF Settled, Record

\* Recording a key changes no debt.
LEMMA RecordedIs ==
  ASSUME record \in Record, NEW k \in 1..MaxRoot
  PROVE  /\ Recorded(k) \in Record
         /\ Recorded(k).kcv = k
         /\ Recorded(k).state = "owed" <=> record.state = "owed"
         /\ Recorded(k).scrubbed = record.scrubbed
<1> DEFINE s == IF record.state = "none" THEN "ok" ELSE record.state
<1>0. s \in {"none", "ok", "owed"}
  BY DEF Record
<1>4. Recorded(k) = [record EXCEPT !.kcv = k, !.state = s]
  BY DEF Recorded, Record
<1>5. k \in 0..MaxRoot
  OBVIOUS
<1> HIDE DEF s
<1>1. Recorded(k) \in Record
  BY <1>0, <1>4, <1>5 DEF Record
<1>2. Recorded(k).kcv = k /\ Recorded(k).scrubbed = record.scrubbed
  BY DEF Recorded, Record
<1>3. Recorded(k).state = IF record.state = "none" THEN "ok" ELSE record.state
  BY DEF Recorded, Record
<1> QED
  BY <1>1, <1>2, <1>3

\* What follows the scrub, whichever start called it.
LEMMA OnwardIs ==
  ASSUME opener \in Opener
  PROVE  /\ Onward \in Opener
         /\ Onward.step \in {"reopen", "opened"}
         /\ Onward.step = "reopen" <=> opener.settling = "debt"
         /\ Onward.root = opener.root /\ Onward.left = opener.left /\ Onward.column = opener.column
         /\ Onward.settling = opener.settling
         /\ Onward.sealed = opener.sealed /\ Onward.retired = opener.retired
BY DEF Onward, Opener, Step

\* A step of the opener that changes nothing but its place.
LEMMA MovedIs ==
  ASSUME opener \in Opener, NEW s \in Step
  PROVE  LET moved == [opener EXCEPT !.step = s] IN
         /\ moved \in Opener
         /\ moved.step = s
         /\ moved.root = opener.root /\ moved.left = opener.left /\ moved.column = opener.column
         /\ moved.settling = opener.settling
         /\ moved.sealed = opener.sealed /\ moved.retired = opener.retired
BY DEF Opener

\* The scrub zeroes the freed pages, or leaves the store owing it.
LEMMA ScrubEffect ==
  ASSUME SInv, Scrub
  PROVE  /\ opener' \in Opener /\ record' \in Record /\ StoreFrame
         /\ opener.step = "scrub"
         /\ UNCHANGED <<opener.root, opener.retired, opener.left, opener.column,
                        opener.settling, opener.sealed, record.kcv>>
         /\ record'.state = "owed"
         /\ \/ opener'.step = "vacuum" /\ traces' = traces \ {"free", "wal"}
            \/ /\ opener'.step \in {"reopen", "opened"}
               /\ opener'.step = "reopen" <=> opener.settling = "debt"
               /\ traces' = traces /\ record'.scrubbed = FALSE
<1> USE DEF SInv, TypeOK
<1>0. opener.step = "scrub" /\ StoreFrame /\ record.state = "owed"
  BY DEF Scrub, DebtInv, Settling
<1>1. CASE /\ opener' = [opener EXCEPT !.step = "vacuum"]
           /\ traces' = traces \ {"free", "wal"}
           /\ record' = record \/ record' = Owed(TRUE, FALSE)
  <2>1. /\ opener' \in Opener /\ opener'.step = "vacuum"
        /\ UNCHANGED <<opener.root, opener.retired, opener.left, opener.column,
                       opener.settling, opener.sealed>>
    BY <1>1, MovedIs DEF Step
  <2>2. record' \in Record /\ record'.kcv = record.kcv /\ record'.state = "owed"
    BY <1>0, <1>1, OwedIs
  <2> QED
    BY <1>0, <1>1, <2>1, <2>2
<1>2. ASSUME NEW b \in BOOLEAN, opener' = Onward, traces' = traces, record' = Owed(FALSE, b)
      PROVE  /\ opener' \in Opener /\ record' \in Record
             /\ UNCHANGED <<opener.root, opener.retired, opener.left, opener.column,
                            opener.settling, opener.sealed, record.kcv>>
             /\ record'.state = "owed"
             /\ opener'.step \in {"reopen", "opened"}
             /\ opener'.step = "reopen" <=> opener.settling = "debt"
             /\ record'.scrubbed = FALSE
  BY <1>2, OwedIs, OnwardIs
<1>3. (opener.settling = "debt") \in BOOLEAN
  OBVIOUS
<1> QED
  BY <1>0, <1>1, <1>2, <1>3 DEF Scrub

\* The vacuum rewrites the file, or leaves it owed.
LEMMA VacuumEffect ==
  ASSUME SInv, Vacuum
  PROVE  /\ opener' \in Opener /\ record' \in Record /\ StoreFrame
         /\ opener.step = "vacuum" /\ record'.state = "owed"
         /\ UNCHANGED <<opener.root, opener.retired, opener.left, opener.column,
                        opener.settling, opener.sealed, record.kcv>>
         /\ \/ /\ opener'.step = "confirm" /\ record' = record
               /\ traces' = IF "slack" \in traces THEN {"wal"} ELSE traces \ {"free"}
            \/ /\ opener'.step \in {"reopen", "opened"}
               /\ opener'.step = "reopen" <=> opener.settling = "debt"
               /\ traces' = traces
<1> USE DEF SInv, TypeOK
<1>0. opener.step = "vacuum" /\ StoreFrame /\ record.state = "owed"
  BY DEF Vacuum, DebtInv, Settling
<1>1. CASE /\ opener' = [opener EXCEPT !.step = "confirm"]
           /\ traces' = IF "slack" \in traces THEN {"wal"} ELSE traces \ {"free"}
           /\ record' = record
  BY <1>0, <1>1, MovedIs DEF Step
<1>2. ASSUME NEW b \in BOOLEAN, opener' = Onward, traces' = traces, record' = Owed(TRUE, b)
      PROVE  /\ opener' \in Opener /\ record' \in Record
             /\ UNCHANGED <<opener.root, opener.retired, opener.left, opener.column,
                            opener.settling, opener.sealed, record.kcv>>
             /\ record'.state = "owed"
             /\ opener'.step \in {"reopen", "opened"}
             /\ opener'.step = "reopen" <=> opener.settling = "debt"
  BY <1>2, OwedIs, OnwardIs
<1>3. (opener.settling = "debt") \in BOOLEAN
  OBVIOUS
<1> QED
  BY <1>0, <1>1, <1>2, <1>3 DEF Vacuum

\* A start records its key on first use and visits every planned column.
LEMMA StartEffect ==
  ASSUME SInv, Start
  PROVE  /\ opener' \in Opener /\ record' \in Record
         /\ opener'.step \in {"checkpoint", "reopen"}
         /\ opener'.step = "checkpoint" => record.state = "owed"
         /\ opener'.settling = "debt" /\ opener'.sealed = FALSE
         /\ opener'.root = root /\ opener'.left = planned /\ opener'.column = {}
         /\ record'.kcv # NoRoot
         /\ record'.state = "owed" <=> record.state = "owed"
         /\ record'.scrubbed = record.scrubbed
         /\ UNCHANGED <<satellite, root, planned, cell, item, traces, keyless, survived>>
<1> USE DEF SInv, TypeOK
<1> DEFINE retired == record.kcv # NoRoot /\ record.kcv # root
<1>1. UNCHANGED <<satellite, root, planned, cell, item, traces, keyless, survived>>
  BY DEF Start
<1>2. /\ record' \in Record /\ record'.kcv # NoRoot
      /\ record'.state = "owed" <=> record.state = "owed"
      /\ record'.scrubbed = record.scrubbed
  BY RecordedIs DEF Start, NoRoot
<1>3. retired \in BOOLEAN
  OBVIOUS
<1>4. PICK s \in {"checkpoint", "reopen"} :
        /\ s = "checkpoint" => record.state = "owed"
        /\ opener' = [Down EXCEPT !.step = s, !.root = root, !.left = planned, !.retired = retired]
  BY DEF Start
<1>5. opener' = [step |-> s, settling |-> "debt", root |-> root, retired |-> retired,
                 left |-> planned, column |-> {}, sealed |-> FALSE, unreadable |-> FALSE]
  BY <1>4 DEF Down
<1> HIDE DEF retired
<1>6. opener' \in Opener
  BY <1>3, <1>5 DEF Opener, Step
<1>7. /\ opener'.step = s /\ opener'.settling = "debt" /\ opener'.sealed = FALSE
      /\ opener'.root = root /\ opener'.left = planned /\ opener'.column = {}
  BY <1>5
<1> QED
  BY <1>1, <1>2, <1>4, <1>6, <1>7

\* Reopening resets columns and touches nothing else.
LEMMA ReopenEffect ==
  ASSUME SInv, Reopen
  PROVE  /\ opener' \in Opener
         /\ opener.step = "reopen" /\ opener'.step \in {"reopen", "migrate"}
         /\ UNCHANGED <<opener.root, opener.column, opener.settling, opener.sealed,
                        opener.retired>>
         /\ item' \in [Column -> Item]
         /\ \A c \in Column : item'[c] = item[c] \/ item'[c] = Reset
         /\ UNCHANGED <<satellite, root, planned, cell, record, traces, keyless, survived>>
<1> USE DEF SInv, TypeOK
<1>1. opener.step = "reopen" /\ UNCHANGED <<satellite, root, planned, cell, record,
                                            traces, keyless, survived>>
  BY DEF Reopen
<1>2. CASE opener.left = {}
  <2>1. opener' = [opener EXCEPT !.step = "migrate", !.left = planned] /\ item' = item
    BY <1>2 DEF Reopen
  <2>2. opener' \in Opener /\ opener'.step = "migrate"
        /\ UNCHANGED <<opener.root, opener.column, opener.settling, opener.sealed,
                       opener.retired>>
    BY <2>1 DEF Opener, Step
  <2> QED
    BY <1>1, <2>1, <2>2
<1>3. CASE opener.left # {}
  <2>1. PICK c \in opener.left :
          /\ item' = IF Resets(c) THEN [item EXCEPT ![c] = Reset] ELSE item
          /\ opener' = [opener EXCEPT !.left = @ \ {c}]
    BY <1>3 DEF Reopen
  <2>2. opener' \in Opener /\ opener'.step = opener.step
        /\ UNCHANGED <<opener.root, opener.column, opener.settling, opener.sealed,
                       opener.retired>>
    BY <2>1 DEF Opener
  <2>3. Reset \in Item
    BY DEF Reset, Item
  <2>4. item' \in [Column -> Item] /\ \A d \in Column : item'[d] = item[d] \/ item'[d] = Reset
    BY <2>1, <2>3
  <2> QED
    BY <1>1, <2>2, <2>4
<1> QED
  BY <1>2, <1>3

\* The debt is on record through every step that makes or pays it.
LEMMA DebtStep == SInv /\ Next => DebtInv'
<1> SUFFICES ASSUME SInv, Next PROVE DebtInv'
  OBVIOUS
<1> USE DEF SInv
<1>1. CASE Start
  BY <1>1, StartEffect DEF DebtInv, Settling, TypeOK
<1>2. CASE Checkpoint
  BY <1>2 DEF Checkpoint, StoreFrame, DebtInv, Settling
<1>3. CASE Scrub
  BY <1>3, ScrubEffect DEF DebtInv, Settling, TypeOK
<1>4. CASE Vacuum
  BY <1>4, VacuumEffect DEF DebtInv, Settling, TypeOK
<1>5. CASE Confirm
  BY <1>5 DEF Confirm, StoreFrame, Onward, Settled, DebtInv, Settling
<1>6. CASE SettleFails
  BY <1>6 DEF SettleFails, Settling, StoreFrame, Onward, Owed, DebtInv
<1>7. CASE Reopen
  BY <1>7, ReopenEffect DEF DebtInv, Settling, TypeOK
<1>8. CASE Skip
  BY <1>8 DEF Skip, DebtInv, Settling
<1>9. CASE Begin
  BY <1>9 DEF Begin, ScrubOwed, Owed, DebtInv, Settling
<1>10. CASE Batch
  BY <1>10 DEF Batch, BatchIn, BatchOf, NeedsReseal, Short, After, Opens, DebtInv, Settling
<1>11. CASE Walked
  BY <1>11 DEF Walked, Recorded, DebtInv, Settling
<1>12. CASE Migrated
  BY <1>12 DEF Migrated, DebtInv, Settling
<1>13. CASE Serve
  BY <1>13 DEF Serve, Down, DebtInv, Settling
<1>14. CASE Write
  BY <1>14 DEF Write, DebtInv, Settling
<1>15. CASE KeylessOpen
  BY <1>15 DEF KeylessOpen, KeylessFrame, DebtInv, Settling
<1>16. CASE Refresh
  BY <1>16 DEF Refresh, KeylessFrame, DebtInv, Settling
<1>17. CASE KeylessWrite
  BY <1>17 DEF KeylessWrite, KeylessFrame, StoredPlain, DebtInv, Settling
<1>18. CASE CheckedWrite
  BY <1>18 DEF CheckedWrite, KeylessFrame, StoredPlain, DebtInv, Settling
<1>19. CASE Crash
  BY <1>19 DEF Crash, Down, DebtInv, Settling
<1>20. CASE Adopt
  BY <1>20 DEF Adopt, DebtInv, Settling
<1>21. CASE Upgrade
  BY <1>21 DEF Upgrade, DebtInv, Settling
<1>22. CASE DayPasses
  BY <1>22 DEF DayPasses, DebtInv, Settling
<1> QED
  BY <1>1, <1>2, <1>3, <1>4, <1>5, <1>6, <1>7, <1>8, <1>9, <1>10, <1>11, <1>12, <1>13,
     <1>14, <1>15, <1>16, <1>17, <1>18, <1>19, <1>20, <1>21, <1>22 DEF Next, Settle,
     Migrate, Keyless

\* How far the scrub has come bounds what is left of the plaintext.
LEMMA TraceStep == SInv /\ Next => TraceInv'
<1> SUFFICES ASSUME SInv, Next PROVE TraceInv'
  OBVIOUS
<1> USE DEF SInv
<1>1. CASE Start
  BY <1>1, StartEffect DEF TraceInv, TypeOK
<1>2. CASE Checkpoint
  BY <1>2 DEF Checkpoint, StoreFrame, TraceInv, TypeOK
<1>3. CASE Scrub
  BY <1>3, ScrubEffect DEF TraceInv, TypeOK
<1>4. CASE Vacuum
  BY <1>4, VacuumEffect DEF TraceInv, TypeOK
<1>5. CASE Confirm
  BY <1>5 DEF Confirm, StoreFrame, Onward, Settled, TraceInv
<1>6. CASE SettleFails
  BY <1>6 DEF SettleFails, Settling, StoreFrame, Onward, Owed, TraceInv
<1>7. CASE Reopen
  BY <1>7, ReopenEffect DEF TraceInv, TypeOK
<1>8. CASE Skip
  BY <1>8 DEF Skip, TraceInv
<1>9. CASE Begin
  BY <1>9 DEF Begin, ScrubOwed, Owed, TraceInv
<1>10. CASE Batch
  BY <1>10 DEF Batch, BatchIn, BatchOf, NeedsReseal, Short, After, Opens, TraceInv
<1>11. CASE Walked
  BY <1>11 DEF Walked, Recorded, TraceInv
<1>12. CASE Migrated
  BY <1>12 DEF Migrated, TraceInv
<1>13. CASE Serve
  BY <1>13 DEF Serve, Down, TraceInv
<1>14. CASE Write
  BY <1>14 DEF Write, TraceInv
<1>15. CASE KeylessOpen
  BY <1>15 DEF KeylessOpen, KeylessFrame, TraceInv
<1>16. CASE Refresh
  BY <1>16 DEF Refresh, KeylessFrame, TraceInv
<1>17. CASE KeylessWrite
  BY <1>17 DEF KeylessWrite, KeylessFrame, StoredPlain, TraceInv
<1>18. CASE CheckedWrite
  BY <1>18 DEF CheckedWrite, KeylessFrame, StoredPlain, TraceInv
<1>19. CASE Crash
  BY <1>19 DEF Crash, Down, TraceInv
<1>20. CASE Adopt
  BY <1>20 DEF Adopt, TraceInv
<1>21. CASE Upgrade
  BY <1>21 DEF Upgrade, TraceInv
<1>22. CASE DayPasses
  BY <1>22 DEF DayPasses, TraceInv
<1> QED
  BY <1>1, <1>2, <1>3, <1>4, <1>5, <1>6, <1>7, <1>8, <1>9, <1>10, <1>11, <1>12, <1>13,
     <1>14, <1>15, <1>16, <1>17, <1>18, <1>19, <1>20, <1>21, <1>22 DEF Next, Settle,
     Migrate, Keyless

\* A key is on record before anything is sealed, and never taken back.
LEMMA KeyStep == SInv /\ Next => KeyInv'
<1> SUFFICES ASSUME SInv, Next PROVE KeyInv'
  OBVIOUS
<1> USE DEF SInv
<1>1. CASE Start
  <2>1. root # NoRoot
    BY DEF TypeOK, NoRoot
  <2> QED
    BY <1>1, <2>1, StartEffect DEF KeyInv, SealedMeansRecorded
<1>2. CASE Checkpoint
  BY <1>2 DEF Checkpoint, StoreFrame, KeyInv, SealedMeansRecorded
<1>3. CASE Scrub
  BY <1>3, ScrubEffect DEF KeyInv, SealedMeansRecorded, TypeOK, StoreFrame, NoRoot
<1>4. CASE Vacuum
  BY <1>4, VacuumEffect DEF KeyInv, SealedMeansRecorded, TypeOK, StoreFrame, NoRoot
<1>5. CASE Confirm
  BY <1>5 DEF Confirm, StoreFrame, Onward, Settled, KeyInv, SealedMeansRecorded
<1>6. CASE SettleFails
  BY <1>6 DEF SettleFails, Settling, StoreFrame, Onward, Owed, KeyInv, SealedMeansRecorded
<1>7. CASE Reopen
  BY <1>7, ReopenEffect DEF KeyInv, SealedMeansRecorded, TypeOK, StoreFrame, NoRoot
<1>8. CASE Skip
  BY <1>8 DEF Skip, KeyInv, SealedMeansRecorded
<1>9. CASE Begin
  BY <1>9 DEF Begin, ScrubOwed, Owed, KeyInv, SealedMeansRecorded
<1>10. CASE Batch
  BY <1>10 DEF Batch, BatchIn, BatchOf, NeedsReseal, Short, After, Opens, KeyInv,
     SealedMeansRecorded
<1>11. CASE Walked
  BY <1>11 DEF Walked, Recorded, KeyInv, SealedMeansRecorded
<1>12. CASE Migrated
  BY <1>12 DEF Migrated, KeyInv, SealedMeansRecorded
<1>13. CASE Serve
  BY <1>13 DEF Serve, Down, KeyInv, SealedMeansRecorded
<1>14. CASE Write
  BY <1>14 DEF Write, KeyInv, SealedMeansRecorded
<1>15. CASE KeylessOpen
  BY <1>15 DEF KeylessOpen, KeylessFrame, KeyInv, SealedMeansRecorded
<1>16. CASE Refresh
  BY <1>16 DEF Refresh, KeylessFrame, KeyInv, SealedMeansRecorded
<1>17. CASE KeylessWrite
  <2>1. PICK x \in Cell : StoredPlain(x)
    BY <1>17 DEF KeylessWrite
  <2>2. \A y \in Cell : cell'[y] \in {cell[y], Plain}
    BY <2>1 DEF StoredPlain, TypeOK
  <2>3. record' = record /\ opener' = opener
    BY <1>17 DEF KeylessWrite, KeylessFrame
  <2> QED
    BY <2>2, <2>3 DEF KeyInv, SealedMeansRecorded, Plain
<1>18. CASE CheckedWrite
  <2>1. PICK x \in Cell : StoredPlain(x)
    BY <1>18 DEF CheckedWrite
  <2>2. \A y \in Cell : cell'[y] \in {cell[y], Plain}
    BY <2>1 DEF StoredPlain, TypeOK
  <2>3. record' = record /\ opener' = opener
    BY <1>18 DEF CheckedWrite, KeylessFrame
  <2> QED
    BY <2>2, <2>3 DEF KeyInv, SealedMeansRecorded, Plain
<1>19. CASE Crash
  BY <1>19 DEF Crash, Down, KeyInv, SealedMeansRecorded
<1>20. CASE Adopt
  BY <1>20 DEF Adopt, KeyInv, SealedMeansRecorded
<1>21. CASE Upgrade
  BY <1>21 DEF Upgrade, KeyInv, SealedMeansRecorded
<1>22. CASE DayPasses
  BY <1>22 DEF DayPasses, KeyInv, SealedMeansRecorded
<1> QED
  BY <1>1, <1>2, <1>3, <1>4, <1>5, <1>6, <1>7, <1>8, <1>9, <1>10, <1>11, <1>12, <1>13,
     <1>14, <1>15, <1>16, <1>17, <1>18, <1>19, <1>20, <1>21, <1>22 DEF Next, Settle,
     Migrate, Keyless

\* A store that reads ok has nothing left, after every step.
LEMMA CleanStep == SInv /\ Next => OkMeansClean'
<1> SUFFICES ASSUME SInv, Next PROVE OkMeansClean'
  OBVIOUS
<1> USE DEF SInv
<1>1. CASE Start
  BY <1>1, StartEffect DEF OkMeansClean, Finished, TypeOK, TraceInv, StoreFrame, Reset
<1>2. CASE Checkpoint
  BY <1>2 DEF Checkpoint, StoreFrame, OkMeansClean, Finished
<1>3. CASE Scrub
  BY <1>3, ScrubEffect DEF OkMeansClean, Finished, TypeOK, TraceInv, StoreFrame, Reset
<1>4. CASE Vacuum
  BY <1>4, VacuumEffect DEF OkMeansClean, Finished, TypeOK, TraceInv, StoreFrame, Reset
<1>5. CASE Confirm
  BY <1>5 DEF Confirm, StoreFrame, Onward, Settled, OkMeansClean, Finished, TypeOK,
     DebtInv, Settling, TraceInv, Opener, Step
<1>6. CASE SettleFails
  BY <1>6 DEF SettleFails, Settling, StoreFrame, Onward, Owed, OkMeansClean, Finished
<1>7. CASE Reopen
  <2>1. Finished' => Finished
    BY <1>7, ReopenEffect DEF Finished, TypeOK, Reset
  <2> QED
    BY <1>7, <2>1, ReopenEffect DEF OkMeansClean
<1>8. CASE Skip
  BY <1>8 DEF Skip, OkMeansClean, Finished
<1>9. CASE Begin
  BY <1>9 DEF Begin, ScrubOwed, Owed, OkMeansClean, Finished
<1>10. CASE Batch
  BY <1>10 DEF Batch, BatchIn, BatchOf, NeedsReseal, Short, After, Opens, OkMeansClean,
     Finished, TypeOK, DebtInv, Settling
<1>11. CASE Walked
  BY <1>11 DEF Walked, Recorded, OkMeansClean, Finished, TypeOK, DebtInv, Settling
<1>12. CASE Migrated
  BY <1>12 DEF Migrated, OkMeansClean, Finished
<1>13. CASE Serve
  BY <1>13 DEF Serve, Down, OkMeansClean, Finished
<1>14. CASE Write
  BY <1>14 DEF Write, OkMeansClean, Finished
<1>15. CASE KeylessOpen
  BY <1>15 DEF KeylessOpen, KeylessFrame, OkMeansClean, Finished
<1>16. CASE Refresh
  BY <1>16 DEF Refresh, KeylessFrame, OkMeansClean, Finished
<1>17. CASE KeylessWrite
  BY <1>17 DEF KeylessWrite, KeylessFrame, StoredPlain, OkMeansClean, Finished
<1>18. CASE CheckedWrite
  BY <1>18 DEF CheckedWrite, KeylessFrame, StoredPlain, OkMeansClean, Finished
<1>19. CASE Crash
  BY <1>19 DEF Crash, Down, OkMeansClean, Finished
<1>20. CASE Adopt
  BY <1>20 DEF Adopt, OkMeansClean, Finished
<1>21. CASE Upgrade
  BY <1>21 DEF Upgrade, OkMeansClean, Finished
<1>22. CASE DayPasses
  BY <1>22 DEF DayPasses, OkMeansClean, Finished
<1> QED
  BY <1>1, <1>2, <1>3, <1>4, <1>5, <1>6, <1>7, <1>8, <1>9, <1>10, <1>11, <1>12, <1>13,
     <1>14, <1>15, <1>16, <1>17, <1>18, <1>19, <1>20, <1>21, <1>22 DEF Next, Settle,
     Migrate, Keyless

\* Every action keeps the types.
LEMMA TypeStep == SInv /\ Next => TypeOK'
<1> SUFFICES ASSUME SInv, Next PROVE TypeOK'
  OBVIOUS
<1> USE DEF SInv
<1>1. CASE Start
  BY <1>1, StartEffect DEF TypeOK
<1>2. CASE Checkpoint
  <2>1. opener' \in Opener /\ opener'.step \in {"scrub", "vacuum"} /\ opener'.column = opener.column
    BY <1>2, MovedIs DEF Checkpoint, Step, TypeOK
  <2> QED
    BY <1>2, <2>1 DEF Checkpoint, StoreFrame, TypeOK
<1>3. CASE Scrub
  BY <1>3, ScrubEffect DEF TypeOK, StoreFrame
<1>4. CASE Vacuum
  BY <1>4, VacuumEffect DEF TypeOK, StoreFrame
<1>5. CASE Confirm
  BY <1>5, OnwardIs, SettledIs DEF Confirm, StoreFrame, TypeOK
<1>6. CASE SettleFails
  BY <1>6, OnwardIs, OwedIs DEF SettleFails, Settling, StoreFrame, TypeOK
<1>7. CASE Reopen
  <2>1. item' \in [Column -> Item] /\ \A c \in Column : item'[c].cursor <= RowsOf[c]
    BY <1>7, ReopenEffect DEF TypeOK, Reset
  <2> QED
    BY <1>7, <2>1, ReopenEffect DEF TypeOK
<1>8. CASE Skip
  BY <1>8 DEF Skip, TypeOK, Opener
<1>9. CASE Begin
  <2>1. PICK c \in opener.left :
          /\ item' = [item EXCEPT ![c].state = "sealing"]
          /\ opener' = [opener EXCEPT !.step = "batch", !.left = @ \ {c}, !.column = {c}]
    BY <1>9 DEF Begin
  <2>2. c \in Column
    BY DEF TypeOK, Opener
  <2>3. opener' \in Opener /\ opener'.step = "batch" /\ opener'.column = {c}
    BY <2>1, <2>2 DEF Opener, Step, TypeOK
  <2>4. item' \in [Column -> Item] /\ \A d \in Column : item'[d].cursor = item[d].cursor
    BY <2>1, <2>2 DEF Item, TypeOK
  <2>5. (record.state = "owed" /\ record.recent) \in BOOLEAN
    OBVIOUS
  <2>6. record' \in Record
    BY <1>9, <2>5, OwedIs DEF Begin, ScrubOwed, TypeOK
  <2> QED
    BY <1>9, <2>3, <2>4, <2>6 DEF Begin, TypeOK
<1>10. CASE Batch
  <2>1. PICK c \in opener.column : BatchIn(c)
    BY <1>10 DEF Batch, BatchIn
  <2>2. c \in Column /\ opener.root \in 0..Lost
    BY DEF TypeOK, Opener, Lost
  <2>3. cell' \in [Cell -> 0..Lost] /\ survived' \in [Cell -> 0..2]
    BY <2>1, <2>2 DEF BatchIn, TypeOK
  <2>4. traces' \in SUBSET {"wal", "free", "slack"}
    BY <2>1 DEF BatchIn, TypeOK
  <2>5. item' \in [Column -> Item] /\ \A d \in Column : item'[d].cursor <= RowsOf[d]
    <3>1. After(c) \in Nat /\ After(c) <= RowsOf[c]
      BY <2>2 DEF TypeOK, Item, After, Short
    <3>2. item' = [item EXCEPT ![c].cursor = After(c)]
      BY <2>1 DEF BatchIn
    <3> QED
      BY <2>2, <3>1, <3>2 DEF TypeOK, Item
  <2>6. opener' \in Opener /\ opener'.step \in {"batch", "walked"} /\ opener'.column = opener.column
    <3>1. PICK s \in {"batch", "walked"}, a \in BOOLEAN, u \in BOOLEAN :
            opener' = [opener EXCEPT !.step = s, !.sealed = a, !.unreadable = u]
      BY <2>1 DEF BatchIn, TypeOK, Opener
    <3> QED
      BY <3>1 DEF TypeOK, Opener, Step
  <2> QED
    BY <1>10, <2>2, <2>3, <2>4, <2>5, <2>6 DEF Batch, TypeOK
<1>11. CASE Walked
  <2>1. item' \in [Column -> Item] /\ \A d \in Column : item'[d].cursor <= RowsOf[d]
    BY <1>11 DEF Walked, TypeOK, Item
  <2>2. opener' \in Opener /\ opener'.step = "migrate" /\ opener'.column = {}
    BY <1>11 DEF Walked, TypeOK, Opener, Step
  <2>3. opener.root \in 1..MaxRoot
    BY <1>11 DEF Walked, KeyInv, TypeOK, Opener, NoRoot
  <2>4. record' \in Record
    BY <1>11, <2>3, RecordedIs DEF Walked, TypeOK
  <2> QED
    BY <1>11, <2>1, <2>2, <2>4 DEF Walked, TypeOK
<1>12. CASE Migrated
  <2>1. PICK s \in {"checkpoint", "opened"} :
          opener' = [opener EXCEPT !.settling = "migration", !.step = s]
    BY <1>12 DEF Migrated
  <2>2. opener' \in Opener /\ opener'.step = s /\ opener'.column = opener.column
    BY <2>1 DEF TypeOK, Opener, Step
  <2> QED
    BY <1>12, <2>2 DEF Migrated, TypeOK
<1>13. CASE Serve
  <2>1. opener' \in Opener /\ opener'.step = "serving" /\ opener'.column = {}
    BY <1>13 DEF Serve, Down, TypeOK, Opener, Step
  <2>2. survived' \in [Cell -> 0..2]
    BY <1>13 DEF Serve, TypeOK
  <2> QED
    BY <1>13, <2>1, <2>2 DEF Serve, TypeOK
<1>14. CASE Write
  BY <1>14 DEF Write, TypeOK, Opener, Step, NoRoot, Plain, Lost
<1>15. CASE KeylessOpen
  BY <1>15 DEF KeylessOpen, KeylessFrame, TypeOK
<1>16. CASE Refresh
  BY <1>16 DEF Refresh, KeylessFrame, TypeOK
<1>17. CASE KeylessWrite
  BY <1>17 DEF KeylessWrite, KeylessFrame, StoredPlain, TypeOK, NoRoot, Plain, Lost
<1>18. CASE CheckedWrite
  BY <1>18 DEF CheckedWrite, KeylessFrame, StoredPlain, TypeOK, NoRoot, Plain, Lost
<1>19. CASE Crash
  BY <1>19 DEF Crash, Down, TypeOK, Opener, Step, NoRoot, Plain, Lost
<1>20. CASE Adopt
  BY <1>20 DEF Adopt, TypeOK
<1>21. CASE Upgrade
  BY <1>21 DEF Upgrade, TypeOK
<1>22. CASE DayPasses
  <2>1. record' \in Record
    BY <1>22 DEF DayPasses, TypeOK, Record
  <2> QED
    BY <1>22, <2>1 DEF DayPasses, TypeOK
<1> QED
  BY <1>1, <1>2, <1>3, <1>4, <1>5, <1>6, <1>7, <1>8, <1>9, <1>10, <1>11, <1>12, <1>13,
     <1>14, <1>15, <1>16, <1>17, <1>18, <1>19, <1>20, <1>21, <1>22 DEF Next, Settle,
     Migrate, Keyless

\* No column is passed over by the open.
LEMMA PlaceStep == SInv /\ Next => PlaceInv'
<1> SUFFICES ASSUME SInv, Next PROVE PlaceInv'
  OBVIOUS
<1> USE DEF SInv
<1>1. CASE Start
  BY <1>1, StartEffect DEF PlaceInv, Settling, TypeOK
<1>2. CASE Checkpoint
  <2>1. /\ Settling /\ UNCHANGED <<satellite, planned, cell, item, survived, opener.left,
                                   opener.column, opener.settling, opener.retired>>
        /\ opener'.step \in {"scrub", "vacuum", "confirm", "reopen", "opened"}
        /\ opener'.step = "reopen" => opener.settling = "debt"
        /\ opener'.step = "opened" => opener.settling = "migration"
    BY <1>2, MovedIs DEF Checkpoint, StoreFrame, Settling, Step, TypeOK
  <2> QED
    BY <2>1 DEF PlaceInv, Settling, TypeOK, Opener
<1>3. CASE Scrub
  <2>1. /\ Settling /\ UNCHANGED <<satellite, planned, cell, item, survived, opener.left,
                                   opener.column, opener.settling, opener.retired>>
        /\ opener'.step \in {"scrub", "vacuum", "confirm", "reopen", "opened"}
        /\ opener'.step = "reopen" => opener.settling = "debt"
        /\ opener'.step = "opened" => opener.settling = "migration"
    BY <1>3, ScrubEffect DEF StoreFrame, Settling, TypeOK, Opener
  <2> QED
    BY <2>1 DEF PlaceInv, Settling, TypeOK, Opener
<1>4. CASE Vacuum
  <2>1. /\ Settling /\ UNCHANGED <<satellite, planned, cell, item, survived, opener.left,
                                   opener.column, opener.settling, opener.retired>>
        /\ opener'.step \in {"scrub", "vacuum", "confirm", "reopen", "opened"}
        /\ opener'.step = "reopen" => opener.settling = "debt"
        /\ opener'.step = "opened" => opener.settling = "migration"
    BY <1>4, VacuumEffect DEF StoreFrame, Settling, TypeOK, Opener
  <2> QED
    BY <2>1 DEF PlaceInv, Settling, TypeOK, Opener
<1>5. CASE Confirm
  <2>1. /\ Settling /\ UNCHANGED <<satellite, planned, cell, item, survived, opener.left,
                                   opener.column, opener.settling, opener.retired>>
        /\ opener'.step \in {"scrub", "vacuum", "confirm", "reopen", "opened"}
        /\ opener'.step = "reopen" => opener.settling = "debt"
        /\ opener'.step = "opened" => opener.settling = "migration"
    BY <1>5, OnwardIs DEF Confirm, StoreFrame, Settling, TypeOK, Opener
  <2> QED
    BY <2>1 DEF PlaceInv, Settling, TypeOK, Opener
<1>6. CASE SettleFails
  <2>1. /\ Settling /\ UNCHANGED <<satellite, planned, cell, item, survived, opener.left,
                                   opener.column, opener.settling, opener.retired>>
        /\ opener'.step \in {"scrub", "vacuum", "confirm", "reopen", "opened"}
        /\ opener'.step = "reopen" => opener.settling = "debt"
        /\ opener'.step = "opened" => opener.settling = "migration"
    BY <1>6, OnwardIs DEF SettleFails, StoreFrame, Settling, TypeOK, Opener
  <2> QED
    BY <2>1 DEF PlaceInv, Settling, TypeOK, Opener
<1>7. CASE Reopen
  <2>1. opener.step = "reopen" /\ UNCHANGED <<planned, opener.column>> /\ opener.column = {}
    BY <1>7, ReopenEffect DEF TypeOK
  <2>2. CASE opener.left = {}
    <3>1. opener'.step = "migrate" /\ opener'.left = planned
      BY <1>7, <2>2 DEF Reopen, TypeOK, Opener
    <3> QED
      BY <2>1, <3>1 DEF PlaceInv, Settling
  <2>3. CASE opener.left # {}
    <3>1. opener'.step = "reopen" /\ opener'.left \subseteq opener.left
      BY <1>7, <2>1, <2>3 DEF Reopen, TypeOK, Opener
    <3> QED
      BY <2>1, <3>1 DEF PlaceInv, Settling
  <2> QED
    BY <2>2, <2>3
<1>8. CASE Skip
  <2>1. PICK c \in opener.left :
          item[c].state = "sealed" /\ opener' = [opener EXCEPT !.left = @ \ {c}]
    BY <1>8 DEF Skip
  <2>2. /\ opener.step = "migrate" /\ opener'.step = "migrate"
        /\ opener'.left = opener.left \ {c} /\ opener'.column = opener.column
        /\ UNCHANGED <<satellite, planned, cell, item, survived>>
    BY <1>8, <2>1 DEF Skip, TypeOK, Opener
  <2> QED
    BY <2>1, <2>2 DEF PlaceInv, Settling
<1>9. CASE Begin
  <2>1. PICK c \in opener.left :
          /\ item[c].state # "sealed"
          /\ item' = [item EXCEPT ![c].state = "sealing"]
          /\ opener' = [opener EXCEPT !.step = "batch", !.left = @ \ {c}, !.column = {c}]
    BY <1>9 DEF Begin
  <2>2. /\ opener.step = "migrate" /\ opener.column = {} /\ opener'.step = "batch"
        /\ opener'.left = opener.left \ {c} /\ opener'.column = {c}
        /\ UNCHANGED <<satellite, planned, cell, survived>>
    BY <1>9, <2>1 DEF Begin, TypeOK, Opener
  <2>3. \A d \in Column : /\ item'[d].cursor = item[d].cursor
                          /\ item'[d].state = "sealed" <=> item[d].state = "sealed"
    BY <2>1 DEF TypeOK, Item, Opener
  <2> QED
    BY <2>2, <2>3 DEF PlaceInv, Settling, TypeOK
<1>10. CASE Batch
  <2>1. PICK c \in opener.column : BatchIn(c)
    BY <1>10 DEF Batch
  <2>2. /\ opener.step = "batch" /\ c \in Column /\ opener.column = {c}
        /\ UNCHANGED <<satellite, planned>>
    BY <1>10, <2>1 DEF Batch, TypeOK, Opener, PlaceInv
  <2>3. /\ opener'.step = IF Short(c) THEN "walked" ELSE "batch"
        /\ UNCHANGED <<opener.left, opener.column>>
    BY <2>1 DEF BatchIn, TypeOK, Opener
  <2>4. /\ \A d \in Column : /\ item'[d].state = item[d].state
                             /\ d # c => item'[d].cursor = item[d].cursor
        /\ item'[c].cursor = After(c)
    BY <2>1, <2>2 DEF BatchIn, TypeOK, Item
  <2>5. Short(c) => item'[c].cursor = RowsOf[c]
    BY <2>4 DEF After
  <2>6. \A d \in planned : d \in Column
    BY DEF TypeOK
  <2>7. CASE Short(c)
    <3>1. opener'.step = "walked" /\ opener'.left = opener.left /\ opener'.column = opener.column
      BY <2>3, <2>7
    <3>2. \A d \in opener'.column : item'[d].cursor = RowsOf[d]
      BY <2>2, <2>5, <2>7, <3>1
    <3>3. \A d \in planned \ (opener'.left \cup opener'.column) : item'[d].state = "sealed"
      BY <2>2, <2>4, <2>6, <3>1 DEF PlaceInv
    <3> QED
      BY <2>2, <3>1, <3>2, <3>3 DEF PlaceInv, Settling
  <2>8. CASE ~Short(c)
    BY <2>2, <2>3, <2>4, <2>6, <2>8 DEF PlaceInv, Settling
  <2> QED
    BY <2>7, <2>8
<1>11. CASE Walked
  <2>1. /\ opener.step = "walked" /\ opener'.step = "migrate"
        /\ opener'.left = opener.left /\ opener'.column = {}
        /\ UNCHANGED <<satellite, planned, cell, survived>>
    BY <1>11 DEF Walked, TypeOK, Opener
  <2>2. \A d \in Column : IF d \in opener.column THEN item'[d].state = "sealed"
                                               ELSE item'[d] = item[d]
    BY <1>11 DEF Walked
  <2> QED
    BY <2>1, <2>2 DEF PlaceInv, Settling, TypeOK
<1>12. CASE Migrated
  <2>1. /\ opener.step = "migrate" /\ opener.left = {} /\ opener.column = {}
        /\ opener'.step \in {"checkpoint", "opened"} /\ opener'.settling = "migration"
        /\ UNCHANGED <<satellite, planned, cell, item, survived>>
    BY <1>12 DEF Migrated, TypeOK, Opener
  <2> QED
    BY <2>1 DEF PlaceInv, Settling
<1>13. CASE Serve
  BY <1>13 DEF Serve, Down, PlaceInv, Settling
<1>14. CASE Write
  BY <1>14 DEF Write, PlaceInv, Settling
<1>15. CASE KeylessOpen
  BY <1>15 DEF KeylessOpen, KeylessFrame, PlaceInv, Settling
<1>16. CASE Refresh
  BY <1>16 DEF Refresh, KeylessFrame, PlaceInv, Settling
<1>17. CASE KeylessWrite
  BY <1>17 DEF KeylessWrite, StoredPlain, KeylessFrame, PlaceInv, Settling
<1>18. CASE CheckedWrite
  BY <1>18 DEF CheckedWrite, StoredPlain, KeylessFrame, PlaceInv, Settling
<1>19. CASE Crash
  <2>1. opener'.step = "down" /\ UNCHANGED <<satellite, planned, cell, item, survived>>
    BY <1>19 DEF Crash, Down
  <2> QED
    BY <2>1 DEF PlaceInv, Settling
<1>20. CASE Adopt
  BY <1>20 DEF Adopt, KeylessFrame, PlaceInv, Settling
<1>21. CASE Upgrade
  <2>1. /\ opener.step = "down" /\ planned \subseteq planned'
        /\ UNCHANGED <<satellite, cell, item, survived, opener>>
    BY <1>21 DEF Upgrade
  <2> QED
    BY <2>1 DEF PlaceInv, Settling
<1>22. CASE DayPasses
  BY <1>22 DEF DayPasses, KeylessFrame, PlaceInv, Settling
<1> QED
  BY <1>1, <1>2, <1>3, <1>4, <1>5, <1>6, <1>7, <1>8, <1>9, <1>10, <1>11, <1>12, <1>13,
     <1>14, <1>15, <1>16, <1>17, <1>18, <1>19, <1>20, <1>21, <1>22 DEF Next, Settle,
     Migrate, Keyless

\* Whose store it is does not change.
LEMMA SatelliteFixed == Next => satellite' = satellite
BY DEF Next, Settle, Migrate, Keyless, Start, Checkpoint, Scrub, Vacuum, Confirm,
   SettleFails, Reopen, Skip, Begin, Batch, Walked, Migrated, Serve, Write, KeylessOpen,
   Refresh, KeylessWrite, CheckedWrite, Crash, Adopt, Upgrade, DayPasses, StoreFrame,
   KeylessFrame

\* A survivor is found again: it is in a finished item or ahead of the cursor.
LEMMA FoundStep == SInv /\ Next => (satellite => FoundInv)'
<1> SUFFICES ASSUME SInv, Next, satellite PROVE FoundInv'
  BY SatelliteFixed
<1> USE DEF SInv
<1>1. CASE Start
  BY <1>1, StartEffect DEF FoundInv, PlaceInv, Settling, Survivor, Ahead, TypeOK
<1>2. CASE Checkpoint
  <2>1. /\ Settling /\ UNCHANGED <<satellite, planned, cell, item, survived, opener.left,
                                   opener.column, opener.settling, opener.retired>>
        /\ opener'.step \in {"scrub", "vacuum", "confirm", "reopen", "opened"}
        /\ opener'.step = "reopen" => opener.settling = "debt"
        /\ opener'.step = "opened" => opener.settling = "migration"
    BY <1>2, MovedIs DEF Checkpoint, StoreFrame, Settling, Step, TypeOK
  <2> QED
    BY <2>1 DEF FoundInv, PlaceInv, Settling, Survivor, Ahead, TypeOK, Opener
<1>3. CASE Scrub
  <2>1. /\ Settling /\ UNCHANGED <<satellite, planned, cell, item, survived, opener.left,
                                   opener.column, opener.settling, opener.retired>>
        /\ opener'.step \in {"scrub", "vacuum", "confirm", "reopen", "opened"}
        /\ opener'.step = "reopen" => opener.settling = "debt"
        /\ opener'.step = "opened" => opener.settling = "migration"
    BY <1>3, ScrubEffect DEF StoreFrame, Settling, TypeOK, Opener
  <2> QED
    BY <2>1 DEF FoundInv, PlaceInv, Settling, Survivor, Ahead, TypeOK, Opener
<1>4. CASE Vacuum
  <2>1. /\ Settling /\ UNCHANGED <<satellite, planned, cell, item, survived, opener.left,
                                   opener.column, opener.settling, opener.retired>>
        /\ opener'.step \in {"scrub", "vacuum", "confirm", "reopen", "opened"}
        /\ opener'.step = "reopen" => opener.settling = "debt"
        /\ opener'.step = "opened" => opener.settling = "migration"
    BY <1>4, VacuumEffect DEF StoreFrame, Settling, TypeOK, Opener
  <2> QED
    BY <2>1 DEF FoundInv, PlaceInv, Settling, Survivor, Ahead, TypeOK, Opener
<1>5. CASE Confirm
  <2>1. /\ Settling /\ UNCHANGED <<satellite, planned, cell, item, survived, opener.left,
                                   opener.column, opener.settling, opener.retired>>
        /\ opener'.step \in {"scrub", "vacuum", "confirm", "reopen", "opened"}
        /\ opener'.step = "reopen" => opener.settling = "debt"
        /\ opener'.step = "opened" => opener.settling = "migration"
    BY <1>5, OnwardIs DEF Confirm, StoreFrame, Settling, TypeOK, Opener
  <2> QED
    BY <2>1 DEF FoundInv, PlaceInv, Settling, Survivor, Ahead, TypeOK, Opener
<1>6. CASE SettleFails
  <2>1. /\ Settling /\ UNCHANGED <<satellite, planned, cell, item, survived, opener.left,
                                   opener.column, opener.settling, opener.retired>>
        /\ opener'.step \in {"scrub", "vacuum", "confirm", "reopen", "opened"}
        /\ opener'.step = "reopen" => opener.settling = "debt"
        /\ opener'.step = "opened" => opener.settling = "migration"
    BY <1>6, OnwardIs DEF SettleFails, StoreFrame, Settling, TypeOK, Opener
  <2> QED
    BY <2>1 DEF FoundInv, PlaceInv, Settling, Survivor, Ahead, TypeOK, Opener
<1>7. CASE Reopen
  <2>1. opener.step = "reopen" /\ UNCHANGED <<satellite, planned, cell, survived>>
    BY <1>7 DEF Reopen
  <2>2. CASE opener.left = {}
    <3>1. /\ item' = item /\ opener'.step = "migrate"
          /\ opener'.left = planned /\ opener'.column = {}
      BY <1>7, <2>2 DEF Reopen, TypeOK, Opener
    <3> QED
      BY <2>1, <2>2, <3>1 DEF FoundInv, PlaceInv, Settling, Survivor, Ahead
  <2>3. CASE opener.left # {}
    <3>1. PICK c \in opener.left :
            /\ item' = IF Resets(c) THEN [item EXCEPT ![c] = Reset] ELSE item
            /\ opener' = [opener EXCEPT !.left = @ \ {c}]
      BY <1>7, <2>3 DEF Reopen
    <3>2. c \in Column /\ opener'.step = "reopen" /\ opener'.left = opener.left \ {c}
      BY <2>1, <3>1 DEF TypeOK, Opener
    <3>3. \A x \in Cell : x[1] \in Column /\ x[2] \in Nat /\ x[2] > 0
      BY DEF Cell
    <3>4. \A x \in Cell : Survivor(x) /\ x[1] = c => Ahead(x)'
      BY <3>1, <3>2, <3>3, <2>1 DEF Resets, Reset, PlainIn, Survivor, Ahead, FoundInv,
         TypeOK
    <3>5. \A d \in Column : d # c => item'[d] = item[d]
      BY <3>1, <3>2 DEF TypeOK
    <3> QED
      BY <2>1, <3>2, <3>3, <3>4, <3>5 DEF FoundInv, PlaceInv, Settling, Survivor, Ahead
  <2> QED
    BY <2>2, <2>3
<1>8. CASE Skip
  <2>1. PICK c \in opener.left :
          item[c].state = "sealed" /\ opener' = [opener EXCEPT !.left = @ \ {c}]
    BY <1>8 DEF Skip
  <2>2. /\ opener.step = "migrate" /\ opener'.step = "migrate"
        /\ opener'.left = opener.left \ {c} /\ opener'.column = opener.column
        /\ UNCHANGED <<satellite, planned, cell, item, survived>>
    BY <1>8, <2>1 DEF Skip, TypeOK, Opener
  <2> QED
    BY <2>1, <2>2 DEF FoundInv, PlaceInv, Settling, Survivor, Ahead
<1>9. CASE Begin
  <2>1. PICK c \in opener.left :
          /\ item[c].state # "sealed"
          /\ item' = [item EXCEPT ![c].state = "sealing"]
          /\ opener' = [opener EXCEPT !.step = "batch", !.left = @ \ {c}, !.column = {c}]
    BY <1>9 DEF Begin
  <2>2. /\ opener.step = "migrate" /\ opener.column = {} /\ opener'.step = "batch"
        /\ opener'.left = opener.left \ {c} /\ opener'.column = {c}
        /\ UNCHANGED <<satellite, planned, cell, survived>>
    BY <1>9, <2>1 DEF Begin, TypeOK, Opener
  <2>3. \A d \in Column : /\ item'[d].cursor = item[d].cursor
                          /\ item'[d].state = "sealed" <=> item[d].state = "sealed"
    BY <2>1 DEF TypeOK, Item, Opener
  <2>4. \A x \in Cell : x[1] \in Column
    BY DEF Cell
  <2> QED
    BY <2>2, <2>3, <2>4 DEF FoundInv, PlaceInv, Settling, Survivor, Ahead, TypeOK
<1>10. CASE Batch
  <2>1. PICK c \in opener.column : BatchIn(c)
    BY <1>10 DEF Batch
  <2>2. /\ opener.step = "batch" /\ c \in Column /\ opener.column = {c}
        /\ UNCHANGED <<satellite, planned>>
    BY <1>10, <2>1 DEF Batch, TypeOK, Opener, PlaceInv
  <2>3. /\ opener'.step = IF Short(c) THEN "walked" ELSE "batch"
        /\ UNCHANGED <<opener.left, opener.column>>
    BY <2>1 DEF BatchIn, TypeOK, Opener
  <2>4. /\ \A d \in Column : /\ item'[d].state = item[d].state
                             /\ d # c => item'[d].cursor = item[d].cursor
        /\ item'[c].cursor = After(c)
    BY <2>1, <2>2 DEF BatchIn, TypeOK, Item
  <2>5. \A x \in Cell : x[1] \in Column /\ x[2] \in Nat /\ x[2] <= RowsOf[x[1]]
    BY DEF Cell
  <2>6. opener.root \in Nat /\ opener.root > 0
    BY <2>2 DEF KeyInv, NoRoot, TypeOK, Opener
  <2>7. \A x \in Cell : survived'[x] = 0 \/ survived'[x] = survived[x]
    BY <2>1 DEF BatchIn
  <2>8. \A x \in Cell : Survivor(x)' => Survivor(x) /\ x \notin BatchOf(c)
    BY <2>1, <2>6 DEF BatchIn, NeedsReseal, Survivor, Plain
  <2>9. \A x \in Cell : Survivor(x)' /\ x[1] = c => After(c) < x[2]
    BY <2>2, <2>5, <2>8 DEF FoundInv, PlaceInv, Ahead, BatchOf, After, Short, TypeOK, Item
  <2>10. \A x \in Cell : Survivor(x)' => x[1] \in opener.left \cup opener.column /\ Ahead(x)'
    BY <2>2, <2>4, <2>5, <2>8, <2>9 DEF FoundInv, PlaceInv, Ahead
  <2> QED
    BY <2>2, <2>3, <2>4, <2>7, <2>8, <2>10 DEF FoundInv, PlaceInv, Settling, After, TypeOK
<1>11. CASE Walked
  <2>1. /\ opener.step = "walked" /\ opener'.step = "migrate"
        /\ opener'.left = opener.left /\ opener'.column = {}
        /\ UNCHANGED <<satellite, planned, cell, survived>>
    BY <1>11 DEF Walked, TypeOK, Opener
  <2>2. \A d \in Column : IF d \in opener.column THEN item'[d].state = "sealed"
                                               ELSE item'[d] = item[d]
    BY <1>11 DEF Walked
  <2>3. \A x \in Cell : x[1] \in Column /\ x[2] \in 1..RowsOf[x[1]]
    BY DEF Cell
  <2>4. \A x \in Cell : Survivor(x) => x[1] \in opener.left
    <3> SUFFICES ASSUME NEW x \in Cell, Survivor(x), x[1] \in opener.column PROVE FALSE
      BY <2>1 DEF FoundInv, PlaceInv
    <3>1. item[x[1]].cursor < x[2] /\ item[x[1]].cursor = RowsOf[x[1]]
      BY <2>1 DEF FoundInv, PlaceInv, Ahead
    <3>2. RowsOf[x[1]] \in Nat
      BY <2>3
    <3> QED
      BY <3>1, <3>2, <2>3
  <2> QED
    BY <2>1, <2>2, <2>3, <2>4 DEF FoundInv, PlaceInv, Settling, Survivor, Ahead, TypeOK
<1>12. CASE Migrated
  <2>1. /\ opener.step = "migrate" /\ opener.left = {} /\ opener.column = {}
        /\ opener'.step \in {"checkpoint", "opened"} /\ opener'.settling = "migration"
        /\ UNCHANGED <<satellite, planned, cell, item, survived>>
    BY <1>12 DEF Migrated, TypeOK, Opener
  <2> QED
    BY <2>1 DEF FoundInv, PlaceInv, Settling, Survivor, Ahead
<1>13. CASE Serve
  <2>1. /\ opener.step = "opened" /\ opener'.step = "serving"
        /\ UNCHANGED <<satellite, planned, cell, item>>
    BY <1>13 DEF Serve, Down
  <2>2. \A x \in Cell : ~Survivor(x)
    BY <2>1 DEF FoundInv, PlaceInv
  <2>3. \A x \in Cell : x[1] \in planned => item[x[1]].state = "sealed"
    BY <2>1 DEF PlaceInv
  <2>4. \A x \in Cell : survived'[x] <= 1 /\ (survived'[x] >= 1 => x[1] \in planned)
    BY <1>13, <2>2 DEF Serve, Survivor, FoundInv, TypeOK
  <2> QED
    BY <2>1, <2>3, <2>4 DEF FoundInv, PlaceInv, Settling, Survivor
<1>14. CASE Write
  <2>1. opener.step = "serving" /\ UNCHANGED <<satellite, planned, item, opener, survived>>
    BY <1>14 DEF Write
  <2>2. opener.root # Plain
    BY <2>1 DEF KeyInv, NoRoot, Plain
  <2>3. \A y \in Cell : cell'[y] = cell[y] \/ cell'[y] # Plain
    BY <1>14, <2>2 DEF Write, TypeOK
  <2> QED
    BY <2>1, <2>3 DEF FoundInv, PlaceInv, Settling, Survivor, Ahead
<1>15. CASE KeylessOpen
  BY <1>15 DEF KeylessOpen, KeylessFrame, FoundInv, PlaceInv, Settling, Survivor, Ahead
<1>16. CASE Refresh
  BY <1>16 DEF Refresh, KeylessFrame, FoundInv, PlaceInv, Settling, Survivor, Ahead
<1>17. CASE KeylessWrite
  <2>1. PICK x \in Cell : StoredPlain(x)
    BY <1>17 DEF KeylessWrite
  <2>2. \A y \in Cell : survived'[y] = 0 \/ (survived'[y] = survived[y] /\ cell'[y] = cell[y])
    BY <2>1 DEF StoredPlain, TypeOK
  <2> QED
    BY <1>17, <2>2 DEF KeylessWrite, KeylessFrame, FoundInv, PlaceInv, Settling,
       Survivor, Ahead
<1>18. CASE CheckedWrite
  <2>1. PICK x \in Cell : StoredPlain(x)
    BY <1>18 DEF CheckedWrite
  <2>2. \A y \in Cell : survived'[y] = 0 \/ (survived'[y] = survived[y] /\ cell'[y] = cell[y])
    BY <2>1 DEF StoredPlain, TypeOK
  <2> QED
    BY <1>18, <2>2 DEF CheckedWrite, KeylessFrame, FoundInv, PlaceInv, Settling,
       Survivor, Ahead
<1>19. CASE Crash
  <2>1. opener'.step = "down" /\ UNCHANGED <<satellite, planned, cell, item, survived>>
    BY <1>19 DEF Crash, Down
  <2> QED
    BY <2>1 DEF FoundInv, PlaceInv, Settling, Survivor, Ahead
<1>20. CASE Adopt
  BY <1>20 DEF Adopt, KeylessFrame, FoundInv, PlaceInv, Settling, Survivor, Ahead
<1>21. CASE Upgrade
  <2>1. /\ opener.step = "down" /\ planned \subseteq planned'
        /\ UNCHANGED <<satellite, cell, item, survived, opener>>
    BY <1>21 DEF Upgrade
  <2> QED
    BY <2>1 DEF FoundInv, PlaceInv, Settling, Survivor, Ahead
<1>22. CASE DayPasses
  BY <1>22 DEF DayPasses, KeylessFrame, FoundInv, PlaceInv, Settling, Survivor, Ahead
<1> QED
  BY <1>1, <1>2, <1>3, <1>4, <1>5, <1>6, <1>7, <1>8, <1>9, <1>10, <1>11, <1>12, <1>13,
     <1>14, <1>15, <1>16, <1>17, <1>18, <1>19, <1>20, <1>21, <1>22 DEF Next, Settle,
     Migrate, Keyless

\* What a resetting caller has walked is under its root, unless it met a value it
\* could not read.
LEMMA MoveStep == SInv /\ Next => (~satellite => MoveInv)'
<1> SUFFICES ASSUME SInv, Next, ~satellite PROVE MoveInv'
  BY SatelliteFixed
<1> USE DEF SInv
<1>1. CASE Start
  BY <1>1, StartEffect DEF MoveInv, TypeOK
<1>2. CASE Checkpoint
  <2>1. /\ Settling /\ UNCHANGED <<satellite, planned, cell, item, survived, opener.left,
                                   opener.column, opener.settling, opener.retired>>
        /\ opener'.step \in {"scrub", "vacuum", "confirm", "reopen", "opened"}
        /\ opener'.step = "reopen" => opener.settling = "debt"
        /\ opener'.step = "opened" => opener.settling = "migration"
    BY <1>2, MovedIs DEF Checkpoint, StoreFrame, Settling, Step, TypeOK
  <2> QED
    BY <2>1 DEF MoveInv, WalkedBy, PlaceInv, Settling, TypeOK, Opener
<1>3. CASE Scrub
  <2>1. /\ Settling /\ UNCHANGED <<satellite, planned, cell, item, survived, opener.left,
                                   opener.column, opener.settling, opener.retired>>
        /\ opener'.step \in {"scrub", "vacuum", "confirm", "reopen", "opened"}
        /\ opener'.step = "reopen" => opener.settling = "debt"
        /\ opener'.step = "opened" => opener.settling = "migration"
    BY <1>3, ScrubEffect DEF StoreFrame, Settling, TypeOK, Opener
  <2> QED
    BY <2>1 DEF MoveInv, WalkedBy, PlaceInv, Settling, TypeOK, Opener
<1>4. CASE Vacuum
  <2>1. /\ Settling /\ UNCHANGED <<satellite, planned, cell, item, survived, opener.left,
                                   opener.column, opener.settling, opener.retired>>
        /\ opener'.step \in {"scrub", "vacuum", "confirm", "reopen", "opened"}
        /\ opener'.step = "reopen" => opener.settling = "debt"
        /\ opener'.step = "opened" => opener.settling = "migration"
    BY <1>4, VacuumEffect DEF StoreFrame, Settling, TypeOK, Opener
  <2> QED
    BY <2>1 DEF MoveInv, WalkedBy, PlaceInv, Settling, TypeOK, Opener
<1>5. CASE Confirm
  <2>1. /\ Settling /\ UNCHANGED <<satellite, planned, cell, item, survived, opener.left,
                                   opener.column, opener.settling, opener.retired>>
        /\ opener'.step \in {"scrub", "vacuum", "confirm", "reopen", "opened"}
        /\ opener'.step = "reopen" => opener.settling = "debt"
        /\ opener'.step = "opened" => opener.settling = "migration"
    BY <1>5, OnwardIs DEF Confirm, StoreFrame, Settling, TypeOK, Opener
  <2> QED
    BY <2>1 DEF MoveInv, WalkedBy, PlaceInv, Settling, TypeOK, Opener
<1>6. CASE SettleFails
  <2>1. /\ Settling /\ UNCHANGED <<satellite, planned, cell, item, survived, opener.left,
                                   opener.column, opener.settling, opener.retired>>
        /\ opener'.step \in {"scrub", "vacuum", "confirm", "reopen", "opened"}
        /\ opener'.step = "reopen" => opener.settling = "debt"
        /\ opener'.step = "opened" => opener.settling = "migration"
    BY <1>6, OnwardIs DEF SettleFails, StoreFrame, Settling, TypeOK, Opener
  <2> QED
    BY <2>1 DEF MoveInv, WalkedBy, PlaceInv, Settling, TypeOK, Opener
<1>7. CASE Reopen
  <2>1. /\ opener.step = "reopen" /\ UNCHANGED <<satellite, planned, cell, opener.column,
                                                 opener.retired>>
        /\ opener.column = {}
    BY <1>7, ReopenEffect DEF TypeOK
  <2>2. CASE opener.left = {}
    <3>1. item' = item /\ opener'.step = "migrate" /\ opener'.left = planned
      BY <1>7, <2>2 DEF Reopen, TypeOK, Opener
    <3> QED
      BY <2>1, <2>2, <3>1 DEF MoveInv, WalkedBy
  <2>3. CASE opener.left # {}
    <3>1. PICK c \in opener.left :
            /\ item' = IF Resets(c) THEN [item EXCEPT ![c] = Reset] ELSE item
            /\ opener' = [opener EXCEPT !.left = @ \ {c}]
      BY <1>7, <2>3 DEF Reopen
    <3>2. c \in Column /\ opener'.step = "reopen" /\ opener'.left = opener.left \ {c}
      BY <2>1, <3>1 DEF TypeOK, Opener
    <3>3. /\ opener.retired => item'[c] = Reset
          /\ \A d \in Column : d # c => item'[d] = item[d]
      BY <3>1, <3>2 DEF Resets, TypeOK
    <3>4. planned \subseteq Column
      BY DEF TypeOK
    <3> QED
      BY <2>1, <3>2, <3>3, <3>4 DEF MoveInv
  <2> QED
    BY <2>2, <2>3
<1>8. CASE Skip
  <2>1. opener.retired = FALSE
    BY <1>8 DEF Skip, MoveInv, Reset, TypeOK, Opener
  <2>2. opener'.retired = FALSE
    BY <1>8, <2>1 DEF Skip, TypeOK, Opener
  <2> QED
    BY <2>2 DEF MoveInv
<1>9. CASE Begin
  <2>1. PICK c \in opener.left :
          /\ item[c].state # "sealed"
          /\ item' = [item EXCEPT ![c].state = "sealing"]
          /\ opener' = [opener EXCEPT !.step = "batch", !.left = @ \ {c}, !.column = {c}]
    BY <1>9 DEF Begin
  <2>2. /\ opener.step = "migrate" /\ opener.column = {} /\ opener'.step = "batch"
        /\ opener'.left = opener.left \ {c} /\ opener'.column = {c}
        /\ UNCHANGED <<satellite, planned, cell, opener.root, opener.retired,
                       opener.unreadable>>
    BY <1>9, <2>1 DEF Begin, TypeOK, Opener
  <2>3. /\ \A d \in Column : d # c => item'[d] = item[d]
        /\ item'[c].cursor = item[c].cursor /\ c \in Column
    BY <2>1 DEF TypeOK, Item, Opener
  <2>4. \A x \in Cell : x[1] \in Column /\ x[2] \in Nat /\ x[2] > 0
    BY DEF Cell
  <2>5. opener.retired => item[c].cursor = 0 /\ c \in opener.left
    BY <2>1, <2>2 DEF MoveInv, Reset
  <2>6. opener.retired => WalkedBy' \subseteq WalkedBy
    BY <2>2, <2>3, <2>4, <2>5 DEF WalkedBy
  <2>7. opener.left \subseteq Column
    BY DEF TypeOK, Opener
  <2> QED
    BY <2>2, <2>3, <2>6, <2>7 DEF MoveInv
<1>10. CASE Batch
  <2>1. PICK c \in opener.column : BatchIn(c)
    BY <1>10 DEF Batch
  <2>2. /\ opener.step = "batch" /\ c \in Column /\ opener.column = {c}
        /\ UNCHANGED <<satellite, planned>>
    BY <1>10, <2>1 DEF Batch, TypeOK, Opener, PlaceInv
  <2>3. /\ opener'.step = IF Short(c) THEN "walked" ELSE "batch"
        /\ UNCHANGED <<opener.left, opener.column>>
    BY <2>1 DEF BatchIn, TypeOK, Opener
  <2>4. /\ \A d \in Column : /\ item'[d].state = item[d].state
                             /\ d # c => item'[d].cursor = item[d].cursor
        /\ item'[c].cursor = After(c)
    BY <2>1, <2>2 DEF BatchIn, TypeOK, Item
  <2>5. \A x \in Cell : x[1] \in Column /\ x[2] \in Nat
    BY DEF Cell
  <2>6. /\ UNCHANGED <<opener.root, opener.retired>>
        /\ opener'.unreadable = (opener.unreadable \/ \E x \in BatchOf(c) : ~Opens(x))
    BY <2>1 DEF BatchIn, TypeOK, Opener
  <2>7. \A x \in Cell : x \in WalkedBy' => x \in WalkedBy \/ x \in BatchOf(c)
    BY <2>2, <2>3, <2>4, <2>5 DEF WalkedBy, BatchOf, After, Short, TypeOK, Item
  <2>8. \A x \in Cell : cell'[x] \in {cell[x], opener.root}
    BY <2>1 DEF BatchIn
  <2>9. ASSUME NEW x \in Cell, x \in BatchOf(c), Opens(x) PROVE cell'[x] = opener.root
    BY <2>1, <2>9 DEF BatchIn, NeedsReseal, Opens, TypeOK, Opener, Lost
  <2>10. WalkedBy' \subseteq Cell
    BY DEF WalkedBy
  <2>11. ~opener'.unreadable /\ opener.retired =>
           \A x \in WalkedBy' : cell'[x] \in {Plain, opener.root}
    BY <2>2, <2>6, <2>7, <2>8, <2>9, <2>10 DEF MoveInv
  <2>12. \A d \in opener.left : d \in Column /\ d # c
    BY <2>2 DEF PlaceInv, TypeOK, Opener
  <2>13. \A d \in Column : d # c => item'[d] = item[d]
    BY <2>1, <2>2 DEF BatchIn, TypeOK
  <2> QED
    BY <2>2, <2>3, <2>6, <2>11, <2>12, <2>13 DEF MoveInv
<1>11. CASE Walked
  <2>1. /\ opener.step = "walked" /\ opener'.step = "migrate"
        /\ opener'.left = opener.left /\ opener'.column = {}
        /\ UNCHANGED <<satellite, planned, cell, opener.root, opener.retired,
                       opener.unreadable>>
    BY <1>11 DEF Walked, TypeOK, Opener
  <2>2. \A d \in Column : IF d \in opener.column THEN item'[d].state = "sealed"
                                               ELSE item'[d] = item[d]
    BY <1>11 DEF Walked
  <2>3. \A x \in Cell : x[1] \in Column /\ x[2] <= RowsOf[x[1]]
    BY DEF Cell
  <2>4. WalkedBy' \subseteq WalkedBy
    BY <2>1, <2>3 DEF WalkedBy, PlaceInv
  <2>5. \A c \in opener.left : c \in Column /\ c \notin opener.column
    BY <2>1 DEF PlaceInv, TypeOK, Opener
  <2> QED
    BY <2>1, <2>2, <2>4, <2>5 DEF MoveInv
<1>12. CASE Migrated
  <2>1. /\ opener.step = "migrate" /\ opener.left = {} /\ opener.column = {}
        /\ opener'.step \in {"checkpoint", "opened"} /\ opener'.settling = "migration"
        /\ UNCHANGED <<satellite, planned, cell, item, survived>>
    BY <1>12 DEF Migrated, TypeOK, Opener
  <2> QED
    BY <2>1 DEF MoveInv, WalkedBy, PlaceInv, Settling
<1>13. CASE Serve
  BY <1>13 DEF Serve, Down, MoveInv
<1>14. CASE Write
  BY <1>14 DEF Write, MoveInv
<1>15. CASE KeylessOpen
  BY <1>15 DEF KeylessOpen, KeylessFrame, MoveInv, WalkedBy, PlaceInv, Settling
<1>16. CASE Refresh
  BY <1>16 DEF Refresh, KeylessFrame, MoveInv, WalkedBy, PlaceInv, Settling
<1>17. CASE KeylessWrite
  <2>1. PICK x \in Cell : StoredPlain(x)
    BY <1>17 DEF KeylessWrite
  <2>2. \A y \in Cell : cell'[y] \in {cell[y], Plain}
    BY <2>1 DEF StoredPlain, TypeOK
  <2> QED
    BY <1>17, <2>2 DEF KeylessWrite, KeylessFrame, MoveInv, WalkedBy
<1>18. CASE CheckedWrite
  <2>1. PICK x \in Cell : StoredPlain(x)
    BY <1>18 DEF CheckedWrite
  <2>2. \A y \in Cell : cell'[y] \in {cell[y], Plain}
    BY <2>1 DEF StoredPlain, TypeOK
  <2> QED
    BY <1>18, <2>2 DEF CheckedWrite, KeylessFrame, MoveInv, WalkedBy
<1>19. CASE Crash
  <2>1. opener'.step = "down" /\ UNCHANGED <<satellite, planned, cell, item, survived>>
    BY <1>19 DEF Crash, Down
  <2> QED
    BY <2>1 DEF MoveInv, WalkedBy, PlaceInv, Settling
<1>20. CASE Adopt
  BY <1>20 DEF Adopt, KeylessFrame, MoveInv, WalkedBy, PlaceInv, Settling
<1>21. CASE Upgrade
  <2>1. /\ opener.step = "down" /\ planned \subseteq planned'
        /\ UNCHANGED <<satellite, cell, item, survived, opener>>
    BY <1>21 DEF Upgrade
  <2> QED
    BY <2>1 DEF MoveInv, WalkedBy, PlaceInv, Settling
<1>22. CASE DayPasses
  BY <1>22 DEF DayPasses, KeylessFrame, MoveInv, WalkedBy, PlaceInv, Settling
<1> QED
  BY <1>1, <1>2, <1>3, <1>4, <1>5, <1>6, <1>7, <1>8, <1>9, <1>10, <1>11, <1>12, <1>13,
     <1>14, <1>15, <1>16, <1>17, <1>18, <1>19, <1>20, <1>21, <1>22 DEF Next, Settle,
     Migrate, Keyless

\* A store of an older version satisfies the invariant.
LEMMA InitSInv == Init => SInv
<1> SUFFICES ASSUME Init PROVE SInv
  OBVIOUS
<1> USE DEF Init, Down, Plain, NoRoot, Lost
<1>1. TypeOK
  BY DEF TypeOK, Record, Opener, Step, Item
<1>2. KeyInv /\ DebtInv /\ TraceInv
  BY DEF KeyInv, SealedMeansRecorded, DebtInv, Settling, TraceInv
<1>3. OkMeansClean
  BY DEF OkMeansClean, Finished
<1>4. PlaceInv /\ FoundInv /\ MoveInv
  BY DEF PlaceInv, FoundInv, MoveInv, Settling, Survivor
<1> QED
  BY <1>1, <1>2, <1>3, <1>4 DEF SInv

\* Every step preserves it.
LEMMA NextSInv == SInv /\ [Next]_vars => SInv'
<1> SUFFICES ASSUME SInv, [Next]_vars PROVE SInv'
  OBVIOUS
<1>1. CASE Next
  BY <1>1, TypeStep, KeyStep, DebtStep, TraceStep, CleanStep, PlaceStep, FoundStep,
     MoveStep DEF SInv
<1>2. CASE UNCHANGED vars
  BY <1>2 DEF vars, SInv, TypeOK, KeyInv, SealedMeansRecorded, DebtInv, TraceInv,
     OkMeansClean, Finished,
             PlaceInv, FoundInv, MoveInv, WalkedBy, Settling, Survivor, Ahead
<1> QED
  BY <1>1, <1>2

\* The inductive invariant holds of the store (content_sqlite.rs, plugin_keys/).
THEOREM StoreInvariant == Spec => []SInv
<1>1. Init => SInv
  BY InitSInv
<1>2. SInv /\ [Next]_vars => SInv'
  BY NextSInv
<1> QED
  BY <1>1, <1>2, PTL DEF Spec

\* Type correctness: in particular no cursor passes the end of its table.
THEOREM StoreTypeCorrect == Spec => []TypeOK
BY StoreInvariant, PTL DEF SInv

\* Whatever is interrupted, a finished store that reads ok holds no freed plaintext.
THEOREM CleanWhenOk == Spec => []OkMeansClean
BY StoreInvariant, PTL DEF SInv

\* A keyless write into a sealed column survives at most one start of a satellite.
THEOREM PlaintextFound == Spec => []PlaintextIsFound
<1>1. SInv => PlaintextIsFound
  BY DEF SInv, FoundInv, PlaintextIsFound
<1> QED
  BY <1>1, StoreInvariant, PTL

\* Only the end of an item moves a record from one root to another.
LEMMA OnlyWalkedMoves ==
  ASSUME SInv, Next, MovesRecord
  PROVE  Walked
<1> USE DEF SInv, TypeOK, MovesRecord
<1>1. ~Start
  BY DEF Start
<1>2. ASSUME Settle PROVE FALSE
  BY <1>2, OwedIs, SettledIs, ScrubEffect, VacuumEffect DEF Settle, Checkpoint, Confirm,
     SettleFails
<1>3. ~Begin
  <2>1. (record.state = "owed" /\ record.recent) \in BOOLEAN
    OBVIOUS
  <2> QED
    BY <2>1, OwedIs DEF Begin, ScrubOwed
<1>4. ~DayPasses
  BY DEF DayPasses, Record
<1>5. ASSUME Reopen \/ Skip \/ Batch \/ Migrated \/ Serve \/ Write \/ Crash \/ Adopt \/ Upgrade
      PROVE  FALSE
  BY <1>5 DEF Reopen, Skip, Batch, Migrated, Serve, Write, Crash, Adopt, Upgrade
<1>6. ~Keyless
  BY DEF Keyless, KeylessOpen, Refresh, KeylessWrite, CheckedWrite, KeylessFrame
<1> QED
  BY <1>1, <1>2, <1>3, <1>4, <1>5, <1>6 DEF Next, Migrate

\* And when it does, every column was walked by this very migration.
LEMMA MoveNamesEveryValue ==
  ASSUME SInv, Walked, MovesRecord, ~satellite
  PROVE  NamesEveryValue
<1> USE DEF SInv
<1>1. /\ opener.step = "walked" /\ opener.retired /\ ~opener.unreadable /\ AllItemsSealed
      /\ record' = Recorded(opener.root)
  BY DEF Walked, MovesRecord
<1>2. opener.root \in 1..MaxRoot
  BY <1>1 DEF KeyInv, TypeOK, Opener, NoRoot
<1>3. record'.kcv = opener.root
  BY <1>1, <1>2, RecordedIs DEF TypeOK
<1>4. opener.left = {}
  <2> SUFFICES ASSUME NEW c \in opener.left PROVE FALSE
    OBVIOUS
  <2>1. c \in Column /\ c \notin opener.column
    BY <1>1 DEF PlaceInv, TypeOK, Opener
  <2>2. item'[c] = Reset
    BY <1>1, <2>1 DEF Walked, MoveInv
  <2> QED
    BY <1>1, <2>1, <2>2 DEF AllItemsSealed, Reset
<1>5. \A x \in Cell : x[1] \in planned => x \in WalkedBy
  BY <1>1, <1>4 DEF WalkedBy, PlaceInv, Cell
<1> QED
  BY <1>1, <1>3, <1>5 DEF NamesEveryValue, MoveInv

\* A caller that resets a retired store moves its record only with every value.
THEOREM RecordMoves == Spec => RecordMovesWithItsValues
<1>1. SInv /\ [Next]_vars => [MovesRecord /\ ~satellite => NamesEveryValue]_vars
  BY OnlyWalkedMoves, MoveNamesEveryValue
<1> QED
  BY <1>1, StoreInvariant, PTL DEF Spec, RecordMovesWithItsValues

\* No value is sealed in a store that records no key.
THEOREM SealedIsRecorded == Spec => []SealedMeansRecorded
<1>1. SInv => SealedMeansRecorded
  BY DEF SInv, KeyInv
<1> QED
  BY <1>1, StoreInvariant, PTL

\* What the row of a store says is true of the file.
THEOREM RowTrue == Spec => []RowIsTrue
<1>1. OkMeansClean /\ SealedMeansRecorded => RowIsTrue
  BY DEF RowIsTrue
<1> QED
  BY <1>1, CleanWhenOk, SealedIsRecorded, PTL

=============================================================================
