---------------------------- MODULE InboxProofs ----------------------------
(***************************************************************************)
(* Theorems about Inbox: each new row is accounted for once, the replied   *)
(* flag tells the truth in both directions, and an account that is gone    *)
(* stays without rows.                                                     *)
(***************************************************************************)
EXTENDS Inbox, FiniteSetTheorems, TLAPS

\* What a pass holds: between two accounts it has no batch; an item waits to be stored, or
\* for the end of its account, or to be announced, in one of these places only; and what it
\* holds is of an account that it will not read again.
Orderly(q) ==
  /\ q.step # "storing" => q.batch = {}
  /\ q.items \cap (q.batch \cup q.fresh) = {}
  /\ q.batch \cap q.fresh = {}
  /\ \A i \in q.items \cup q.batch \cup q.fresh : i[1] \notin q.todo

PassInv == \A p \in Pass : Orderly(pass[p])

\* A row that is marked next was answered, and rows that are replied to have been there.
RowInv ==
  /\ \A c \in marking : c[2] \in answered
  /\ \A c \in calling : c[2][2] <= inserted[c[2][1]]
  /\ \A r \in answered : r[2] <= inserted[r[1]]

\* The inductive invariant.
BInv == TypeOK /\ PassInv /\ RowInv /\ EachNewRowOnce /\ ReplyIsMarkedTruly

USE InboxAssumption

-----------------------------------------------------------------------------
(* Types.                                                                  *)

LEMMA IdleType ==
  Idle \in [step : {"idle", "reading", "storing"}, todo : SUBSET Account,
            items : SUBSET Item, batch : SUBSET Item, fresh : SUBSET Item]
BY DEF Idle

LEMMA CountedType ==
  ASSUME NEW f \in [Item -> Nat], NEW S
  PROVE  Counted(f, S) \in [Item -> Nat]
BY DEF Counted

LEMMA InitType == Init => TypeOK
<1> SUFFICES ASSUME Init PROVE TypeOK
  OBVIOUS
<1>1. inserted \in [Item -> Nat]
  BY DEF Init
<1>2. pass \in [Pass -> [step : {"idle", "reading", "storing"}, todo : SUBSET Account,
                         items : SUBSET Item, batch : SUBSET Item, fresh : SUBSET Item]]
  BY IdleType DEF Init
<1>3. \A p \in Pass : pass[p] = Idle /\ pass[p].step = "idle" /\ pass[p].items = {}
  BY DEF Init, Idle
<1> QED BY <1>1, <1>2, <1>3 DEF Init, TypeOK

\* The pass of a step keeps its type when its new value has it.
PassType == [step : {"idle", "reading", "storing"}, todo : SUBSET Account,
             items : SUBSET Item, batch : SUBSET Item, fresh : SUBSET Item]

LEMMA OnePass ==
  ASSUME TypeOK, NEW p \in Pass, NEW q \in PassType, pass' = [pass EXCEPT ![p] = q],
         q.step = "idle" => q = Idle, q.step = "storing" <=> q.items # {}
  PROVE  /\ pass' \in [Pass -> PassType]
         /\ \A r \in Pass : /\ pass'[r].step = "idle" => pass'[r] = Idle
                            /\ pass'[r].step = "storing" <=> pass'[r].items # {}
BY DEF TypeOK, PassType

LEMMA AfterType ==
  ASSUME TypeOK, NEW p \in Pass, NEW i \in pass[p].items, NEW S \in SUBSET {i}
  PROVE  /\ After(p, i, S) \in PassType
         /\ After(p, i, S).step # "idle"
         /\ After(p, i, S).step = "storing" <=> After(p, i, S).items # {}
<1>1. pass[p] \in PassType
  BY DEF TypeOK, PassType
<1>2. S \subseteq Item
  BY <1>1 DEF PassType
<1> DEFINE left == pass[p].items \ {i}
<1>3. CASE left = {}
  <2>1. After(p, i, S) = [pass[p] EXCEPT !.items = {}, !.step = "reading", !.batch = {},
                                         !.fresh = @ \cup (pass[p].batch \cup S)]
    BY <1>3 DEF After
  <2> QED BY <1>1, <1>2, <2>1 DEF PassType
<1>4. CASE left # {}
  <2>1. After(p, i, S) = [pass[p] EXCEPT !.items = left, !.step = "storing",
                                         !.batch = pass[p].batch \cup S]
    BY <1>1, <1>4 DEF After, PassType
  <2> QED BY <1>1, <1>2, <1>4, <2>1 DEF PassType
<1> QED BY <1>3, <1>4

LEMMA TypeStep == TypeOK /\ [Next]_vars => TypeOK'
<1> SUFFICES ASSUME TypeOK, [Next]_vars PROVE TypeOK'
  OBVIOUS
<1> USE DEF Item
<1>1. ASSUME NEW p \in Pass, Listed(p) PROVE TypeOK'
  <2>1. PICK accounts \in Scope(p) \ {{}} :
          pass' = [pass EXCEPT ![p] = [Idle EXCEPT !.step = "reading", !.todo = accounts]]
    BY <1>1 DEF Listed
  <2>2. accounts \in SUBSET Account
    BY DEF Scope, Connected
  <2>3. [Idle EXCEPT !.step = "reading", !.todo = accounts] \in PassType
    BY <2>2 DEF Idle, PassType
  <2> QED BY <1>1, <2>1, <2>3, OnePass DEF Listed, TypeOK, replies, tally, Idle, PassType
<1>2. ASSUME NEW p \in Pass, Read(p) PROVE TypeOK'
  <2>1. PICK a \in pass[p].todo, seen \in SUBSET Comment :
          pass' = [pass EXCEPT ![p].todo = @ \ {a}, ![p].items = {a} \X seen,
                               ![p].step = IF seen = {} THEN "reading" ELSE "storing"]
    BY <1>2 DEF Read
  <2>2. a \in Account /\ pass[p] \in PassType
    BY DEF TypeOK, PassType
  <2> DEFINE q == [step |-> IF seen = {} THEN "reading" ELSE "storing", todo |-> pass[p].todo \ {a},
                   items |-> {a} \X seen, batch |-> pass[p].batch, fresh |-> pass[p].fresh]
  <2>3. q \in PassType /\ q.step # "idle" /\ (q.step = "storing" <=> q.items # {})
    <3>1. {a} \X seen \subseteq Item
      BY <2>2
    <3>2. seen # {} => {a} \X seen # {}
      <4> SUFFICES ASSUME NEW s \in seen PROVE <<a, s>> \in {a} \X seen
        OBVIOUS
      <4> QED OBVIOUS
    <3>3. seen = {} => {a} \X seen = {}
      OBVIOUS
    <3> QED BY <2>2, <3>1, <3>2, <3>3 DEF PassType
  <2>4. pass' = [pass EXCEPT ![p] = q]
    <3>1. pass'[p] = [pass[p] EXCEPT !.todo = @ \ {a}, !.items = {a} \X seen,
                                     !.step = IF seen = {} THEN "reading" ELSE "storing"]
      BY <2>1 DEF TypeOK
    <3>2. pass'[p] = q
      BY <2>2, <3>1 DEF PassType
    <3>3. pass' = [pass EXCEPT ![p] = pass'[p]]
      BY <2>1 DEF TypeOK
    <3> QED BY <3>2, <3>3
  <2> HIDE DEF q
  <2> QED BY <1>2, <2>3, <2>4, OnePass DEF Read, TypeOK, replies, tally, PassType
<1>3. ASSUME NEW p \in Pass, Stored(p) PROVE TypeOK'
  <2>1. PICK i \in pass[p].items :
          LET new == {j \in {i} : inbox[j] = "absent"} IN
          /\ inbox' = [j \in Item |-> IF j \in new THEN "unreplied" ELSE inbox[j]]
          /\ inserted' = Counted(inserted, new)
          /\ pass' = [pass EXCEPT ![p] = After(p, i, new)]
    BY <1>3 DEF Stored
  <2> DEFINE new == {j \in {i} : inbox[j] = "absent"}
  <2>2. inbox' \in [Item -> {"absent", "unreplied", "replied"}]
    BY <2>1 DEF TypeOK
  <2>3. inserted' \in [Item -> Nat]
    BY <2>1, CountedType DEF TypeOK
  <2>4. After(p, i, new) \in PassType /\ After(p, i, new).step # "idle"
        /\ (After(p, i, new).step = "storing" <=> After(p, i, new).items # {})
    BY AfterType
  <2> HIDE DEF new
  <2>5. pass' = [pass EXCEPT ![p] = After(p, i, new)]
    BY <2>1 DEF new
  <2>6. /\ pass' \in [Pass -> PassType]
         /\ \A r \in Pass : /\ pass'[r].step = "idle" => pass'[r] = Idle
                            /\ pass'[r].step = "storing" <=> pass'[r].items # {}
    BY <2>4, <2>5, OnePass
  <2>7. UNCHANGED <<workspace, account, replies, events, cutOff, failed, faults>>
    BY <1>3 DEF Stored
  <2> QED BY <2>2, <2>3, <2>6, <2>7 DEF TypeOK, replies, PassType
<1>4. ASSUME NEW p \in Pass, StoreFails(p) PROVE TypeOK'
  <2> DEFINE q == [step |-> "reading", todo |-> pass[p].todo, items |-> {}, batch |-> {},
                   fresh |-> pass[p].fresh]
  <2>1. pass' = [pass EXCEPT ![p] = q]
    BY <1>4 DEF StoreFails, TypeOK
  <2>2. q \in PassType /\ q.step = "reading" /\ q.items = {}
    BY DEF PassType, TypeOK
  <2>3. failed' \in [Item -> Nat]
    BY <1>4, CountedType DEF StoreFails, TypeOK
  <2> HIDE DEF q
  <2>4. /\ pass' \in [Pass -> PassType]
         /\ \A r \in Pass : /\ pass'[r].step = "idle" => pass'[r] = Idle
                            /\ pass'[r].step = "storing" <=> pass'[r].items # {}
    BY <2>1, <2>2, OnePass
  <2> QED BY <1>4, <2>3, <2>4 DEF StoreFails, TypeOK, replies, Fault, PassType
<1>5. ASSUME NEW p \in Pass, Announced(p) PROVE TypeOK'
  <2>1. PICK i \in pass[p].fresh :
          /\ events' = Counted(events, {i})
          /\ pass' = [pass EXCEPT ![p].fresh = @ \ {i}]
    BY <1>5 DEF Announced
  <2> DEFINE q == [pass[p] EXCEPT !.fresh = @ \ {i}]
  <2>2. q \in PassType /\ q.step = "reading" /\ q.items = {}
    <3>1. pass[p] \in PassType /\ pass[p].step = "reading" /\ pass[p].items = {}
      BY <1>5 DEF PassType, TypeOK, Announced
    <3> QED BY <3>1 DEF PassType
  <2>3. events' \in [Item -> Nat]
    BY <2>1, CountedType DEF TypeOK
  <2>4. pass' = [pass EXCEPT ![p] = q]
    BY <2>1
  <2> HIDE DEF q
  <2>5. /\ pass' \in [Pass -> PassType]
         /\ \A r \in Pass : /\ pass'[r].step = "idle" => pass'[r] = Idle
                            /\ pass'[r].step = "storing" <=> pass'[r].items # {}
    BY <2>2, <2>4, OnePass
  <2>6. UNCHANGED <<workspace, account, inbox, replies, inserted, cutOff, failed, faults>>
    BY <1>5 DEF Announced
  <2> QED BY <2>3, <2>5, <2>6 DEF TypeOK, replies, PassType
<1>6. ASSUME NEW p \in Pass, pass' = [pass EXCEPT ![p] = Idle]
      PROVE  /\ pass' \in [Pass -> PassType]
             /\ \A r \in Pass : /\ pass'[r].step = "idle" => pass'[r] = Idle
                                /\ pass'[r].step = "storing" <=> pass'[r].items # {}
  BY <1>6, IdleType, OnePass DEF PassType, Idle
<1>7. ASSUME NEW p \in Pass, Finished(p) PROVE TypeOK'
  BY <1>6, <1>7 DEF Finished, TypeOK, replies, tally, PassType
<1>8. ASSUME NEW p \in Pass, HungUp(p) PROVE TypeOK'
  <2>1. cutOff' \in [Item -> Nat]
    BY <1>8, CountedType DEF HungUp, TypeOK
  <2>2. /\ pass' \in [Pass -> PassType]
         /\ \A r \in Pass : /\ pass'[r].step = "idle" => pass'[r] = Idle
                            /\ pass'[r].step = "storing" <=> pass'[r].items # {}
    BY <1>6, <1>8 DEF HungUp
  <2>3. /\ UNCHANGED <<workspace, account, inbox, replies, inserted, events, failed>>
        /\ faults < MaxFaults /\ faults' = faults + 1
    BY <1>8 DEF HungUp, Fault
  <2> QED BY <2>1, <2>2, <2>3 DEF TypeOK, replies, PassType
<1>9. ASSUME NEW i \in Item, NEW r \in Replier, Replied(<<r, Row(i)>>) PROVE TypeOK'
  <2>1. <<r, Row(i)>> \in Replier \X (Item \X Nat)
    BY DEF Row, TypeOK
  <2> QED BY <1>9, <2>1 DEF Replied, TypeOK, tally
<1>10. ASSUME NEW c \in calling \cup marking, Sent(c) \/ Refused(c) \/ Marked(c) \/ ReplyCutOff(c)
       PROVE  TypeOK'
  <2>1. c \in Replier \X (Item \X Nat) /\ c[2] \in Item \X Nat
    BY DEF TypeOK
  <2>2. CASE Sent(c)
    BY <2>1, <2>2 DEF Sent, TypeOK, tally
  <2>3. CASE Refused(c)
    BY <2>1, <2>3 DEF Refused, TypeOK, tally
  <2>4. CASE Marked(c)
    <3>1. inbox' \in [Item -> {"absent", "unreplied", "replied"}]
      BY <2>4 DEF Marked, TypeOK
    <3> QED BY <2>1, <2>4, <3>1 DEF Marked, TypeOK, tally
  <2>5. CASE ReplyCutOff(c)
    BY <2>1, <2>5 DEF ReplyCutOff, TypeOK, tally, Fault
  <2> QED BY <1>10, <2>2, <2>3, <2>4, <2>5
<1>11. ASSUME NEW a \in Account, Connection(a) \/ DeleteAccount(a) PROVE TypeOK'
  <2>1. account' \in [Account -> {"connected", "disconnected", "removed"}]
    BY <1>11 DEF Connection, DeleteAccount, TypeOK
  <2> QED BY <1>11, <2>1 DEF Connection, DeleteAccount, TypeOK, replies, tally
<1>12. CASE DeleteWorkspace
  BY <1>12 DEF DeleteWorkspace, TypeOK, replies, tally
<1>13. CASE Crash
  <2>1. pass' \in [Pass -> PassType] /\ \A r \in Pass : pass'[r] = Idle
    BY <1>13, IdleType DEF Crash, PassType
  <2>2. ASSUME NEW i \in Item PROVE Cardinality({p \in Pass : i \in Owes(p)}) \in Nat
    BY FS_Subset, FS_CardinalityType
  <2>3. cutOff' \in [Item -> Nat]
    BY <1>13, <2>2 DEF Crash, TypeOK
  <2>4. unmarked' \in SUBSET (Item \X Nat)
    BY <1>13 DEF Crash, TypeOK
  <2> QED BY <1>13, <2>1, <2>3, <2>4 DEF Crash, TypeOK, Fault, Idle, PassType
<1>14. CASE UNCHANGED vars
  BY <1>14 DEF vars, TypeOK, replies, tally
<1> QED BY <1>1, <1>2, <1>3, <1>4, <1>5, <1>7, <1>8, <1>9, <1>10, <1>11, <1>12, <1>13, <1>14
        DEF Next, Refresh, Reply

-----------------------------------------------------------------------------
(* The count.                                                              *)

Owe(q, i) == IF i \in q.batch \cup q.fresh THEN 1 ELSE 0

\* What became of the item's rows so far, but for the passes that still owe an event.
Told(i) == events[i] + cutOff[i] + failed[i]

\* A step of a pass leaves it orderly, and keeps the account of every item.
Accounted(p, q) ==
  /\ pass' = [pass EXCEPT ![p] = q]
  /\ q \in PassType /\ Orderly(q)
  /\ \A i \in Item : inserted'[i] + Told(i) + Owe(pass[p], i) = inserted[i] + Told(i)' + Owe(q, i)

LEMMA ListedAccounted ==
  ASSUME TypeOK, PassInv, NEW p \in Pass, Listed(p)
  PROVE  \E q : Accounted(p, q)
<1>1. PICK accounts \in Scope(p) \ {{}} :
        pass' = [pass EXCEPT ![p] = [Idle EXCEPT !.step = "reading", !.todo = accounts]]
  BY DEF Listed
<1> DEFINE q == [Idle EXCEPT !.step = "reading", !.todo = accounts]
<1>2. q \in PassType /\ q.batch = {} /\ q.fresh = {} /\ q.items = {}
  BY DEF Scope, Connected, Idle, PassType
<1>3. pass[p].batch = {} /\ pass[p].fresh = {}
  BY DEF Listed, TypeOK, Idle
<1>4. UNCHANGED tally
  BY DEF Listed
<1>5. pass' = [pass EXCEPT ![p] = q]
  BY <1>1
<1> HIDE DEF q
<1>6. Orderly(q)
  BY <1>2 DEF Orderly
<1>7. \A i \in Item : inserted'[i] + Told(i) + Owe(pass[p], i) = inserted[i] + Told(i)' + Owe(q, i)
  BY <1>2, <1>3, <1>4 DEF Told, Owe, tally, TypeOK
<1> QED BY <1>2, <1>5, <1>6, <1>7 DEF Accounted

LEMMA ReadAccounted ==
  ASSUME TypeOK, PassInv, NEW p \in Pass, Read(p)
  PROVE  \E q : Accounted(p, q)
<1>1. PICK a \in pass[p].todo, seen \in SUBSET Comment :
        pass' = [pass EXCEPT ![p].todo = @ \ {a}, ![p].items = {a} \X seen,
                             ![p].step = IF seen = {} THEN "reading" ELSE "storing"]
  BY DEF Read
<1> DEFINE q == [step |-> IF seen = {} THEN "reading" ELSE "storing", todo |-> pass[p].todo \ {a},
                 items |-> {a} \X seen, batch |-> pass[p].batch, fresh |-> pass[p].fresh]
<1>2. a \in Account /\ pass[p] \in PassType
  BY DEF TypeOK, PassType
<1>3. {a} \X seen \subseteq Item
  BY <1>2 DEF Item
<1>4. q \in PassType
  BY <1>2, <1>3 DEF PassType
<1>5. pass' = [pass EXCEPT ![p] = q]
  <2>1. pass'[p] = [pass[p] EXCEPT !.todo = @ \ {a}, !.items = {a} \X seen,
                                   !.step = IF seen = {} THEN "reading" ELSE "storing"]
    BY <1>1 DEF TypeOK
  <2>2. pass'[p] = q
    BY <1>2, <2>1 DEF PassType
  <2>3. pass' = [pass EXCEPT ![p] = pass'[p]]
    BY <1>1 DEF TypeOK
  <2> QED BY <2>2, <2>3
<1>6. Orderly(q)
  <2>1. Orderly(pass[p]) /\ pass[p].batch = {}
    BY DEF PassInv, Read, Orderly
  <2>2. \A i \in q.items : i[1] = a
    OBVIOUS
  <2>3. \A i \in pass[p].fresh : i[1] # a
    BY <2>1 DEF Orderly
  <2> QED BY <2>1, <2>2, <2>3 DEF Orderly
<1>7. \A i \in Item : inserted'[i] + Told(i) + Owe(pass[p], i) = inserted[i] + Told(i)' + Owe(q, i)
  BY DEF Told, Owe, tally, TypeOK, Read
<1> QED BY <1>4, <1>5, <1>6, <1>7 DEF Accounted

LEMMA StoredAccounted ==
  ASSUME TypeOK, PassInv, NEW p \in Pass, Stored(p)
  PROVE  \E q : Accounted(p, q)
<1>1. PICK i \in pass[p].items :
        LET new == {j \in {i} : inbox[j] = "absent"} IN
        /\ inserted' = Counted(inserted, new)
        /\ pass' = [pass EXCEPT ![p] = After(p, i, new)]
  BY DEF Stored
<1> DEFINE new == {j \in {i} : inbox[j] = "absent"}
           q   == After(p, i, new)
<1>2. new \subseteq {i}
  OBVIOUS
<1>3. inserted' = Counted(inserted, new) /\ pass' = [pass EXCEPT ![p] = q]
  BY <1>1
<1> HIDE DEF new
<1>4. q \in PassType
  BY <1>2, AfterType
<1>5. pass[p] \in PassType /\ Orderly(pass[p])
  BY DEF TypeOK, PassType, PassInv
<1>6. /\ q.todo = pass[p].todo /\ q.items = pass[p].items \ {i}
      /\ \/ q.step = "storing" /\ q.batch = pass[p].batch \cup new /\ q.fresh = pass[p].fresh
         \/ q.batch = {} /\ q.fresh = pass[p].fresh \cup pass[p].batch \cup new
  BY <1>5 DEF After, PassType
<1> HIDE DEF q
<1>7. Orderly(q)
  BY <1>2, <1>5, <1>6 DEF Orderly
<1>8. i \notin pass[p].batch \cup pass[p].fresh
  BY <1>5 DEF Orderly
<1>9. \A j \in Item : Owe(q, j) = Owe(pass[p], j) + (IF j \in new THEN 1 ELSE 0)
  BY <1>2, <1>6, <1>8 DEF Owe
<1>10. UNCHANGED <<events, cutOff, failed>>
  BY DEF Stored
<1>11. \A j \in Item : inserted'[j] = inserted[j] + (IF j \in new THEN 1 ELSE 0)
  BY <1>3 DEF Counted
<1>12. \A j \in Item : /\ inserted[j] \in Nat /\ Told(j) \in Nat /\ Told(j)' = Told(j)
                       /\ Owe(pass[p], j) \in Nat
  BY <1>10 DEF TypeOK, Told, Owe
<1>13. \A j \in Item : inserted'[j] + Told(j) + Owe(pass[p], j) = inserted[j] + Told(j)' + Owe(q, j)
  BY <1>9, <1>11, <1>12
<1> QED BY <1>3, <1>4, <1>7, <1>13 DEF Accounted

LEMMA StoreFailsAccounted ==
  ASSUME TypeOK, PassInv, NEW p \in Pass, StoreFails(p)
  PROVE  \E q : Accounted(p, q)
<1> DEFINE q == [step |-> "reading", todo |-> pass[p].todo, items |-> {}, batch |-> {},
                 fresh |-> pass[p].fresh]
<1>1. pass' = [pass EXCEPT ![p] = q]
  BY DEF StoreFails, TypeOK
<1>2. pass[p] \in PassType /\ Orderly(pass[p])
  BY DEF TypeOK, PassType, PassInv
<1>3. q \in PassType
  BY <1>2 DEF PassType
<1>4. Orderly(q)
  BY <1>2 DEF Orderly
<1>5. \A j \in Item : failed'[j] = failed[j] + (IF j \in pass[p].batch THEN 1 ELSE 0)
  BY DEF StoreFails, Counted
<1>6. \A j \in Item : Owe(pass[p], j) = Owe(q, j) + (IF j \in pass[p].batch THEN 1 ELSE 0)
  BY <1>2 DEF Owe, Orderly
<1>7. UNCHANGED <<inserted, events, cutOff>>
  BY DEF StoreFails
<1>8. \A j \in Item : /\ inserted[j] \in Nat /\ events[j] \in Nat /\ cutOff[j] \in Nat /\ failed[j] \in Nat
                      /\ Owe(q, j) \in Nat
  BY DEF TypeOK, Owe
<1> HIDE DEF q
<1>9. \A j \in Item : inserted'[j] + Told(j) + Owe(pass[p], j) = inserted[j] + Told(j)' + Owe(q, j)
  BY <1>5, <1>6, <1>7, <1>8 DEF Told
<1> QED BY <1>1, <1>3, <1>4, <1>9 DEF Accounted

LEMMA AnnouncedAccounted ==
  ASSUME TypeOK, PassInv, NEW p \in Pass, Announced(p)
  PROVE  \E q : Accounted(p, q)
<1>1. PICK i \in pass[p].fresh :
        events' = Counted(events, {i}) /\ pass' = [pass EXCEPT ![p].fresh = @ \ {i}]
  BY DEF Announced
<1> DEFINE q == [pass[p] EXCEPT !.fresh = @ \ {i}]
<1>2. pass[p] \in PassType /\ Orderly(pass[p]) /\ pass[p].batch = {}
  BY DEF TypeOK, PassType, PassInv, Announced, Orderly
<1>3. q \in PassType /\ q.step = pass[p].step /\ q.items = pass[p].items /\ q.todo = pass[p].todo
      /\ q.batch = {} /\ q.fresh = pass[p].fresh \ {i}
  BY <1>2 DEF PassType
<1>4. pass' = [pass EXCEPT ![p] = q]
  BY <1>1
<1> HIDE DEF q
<1>5. Orderly(q)
  BY <1>2, <1>3 DEF Orderly
<1>6. \A j \in Item : events'[j] = events[j] + (IF j = i THEN 1 ELSE 0)
  BY <1>1 DEF Counted
<1>7. \A j \in Item : Owe(pass[p], j) = Owe(q, j) + (IF j = i THEN 1 ELSE 0)
  BY <1>2, <1>3 DEF Owe
<1>8. UNCHANGED <<inserted, cutOff, failed>>
  BY DEF Announced
<1>9. \A j \in Item : /\ inserted[j] \in Nat /\ events[j] \in Nat /\ cutOff[j] \in Nat /\ failed[j] \in Nat
                      /\ Owe(q, j) \in Nat
  BY DEF TypeOK, Owe
<1>10. \A j \in Item : inserted'[j] + Told(j) + Owe(pass[p], j) = inserted[j] + Told(j)' + Owe(q, j)
  BY <1>6, <1>7, <1>8, <1>9 DEF Told
<1> QED BY <1>3, <1>4, <1>5, <1>10 DEF Accounted

\* A pass that ends owes nothing, and what it owed is counted as cut off.
LEMMA EndAccounted ==
  ASSUME TypeOK, PassInv, NEW p \in Pass, Finished(p) \/ HungUp(p)
  PROVE  Accounted(p, Idle)
<1>1. pass' = [pass EXCEPT ![p] = Idle]
  BY DEF Finished, HungUp
<1>2. Idle \in PassType /\ Orderly(Idle) /\ \A i \in Item : Owe(Idle, i) = 0
  BY IdleType DEF PassType, Orderly, Idle, Owe
<1>3. UNCHANGED <<inserted, events, failed>>
  BY DEF Finished, HungUp, tally
<1>4. \A j \in Item : cutOff'[j] = cutOff[j] + Owe(pass[p], j)
  <2>1. CASE Finished(p)
    <3>1. pass[p].batch = {} /\ pass[p].fresh = {}
      BY <2>1 DEF Finished, PassInv, Orderly
    <3> QED BY <2>1, <3>1 DEF Finished, tally, Owe, TypeOK
  <2>2. CASE HungUp(p)
    BY <2>2 DEF HungUp, Counted, Owes, Owe
  <2> QED BY <2>1, <2>2
<1>5. \A j \in Item : /\ inserted[j] \in Nat /\ events[j] \in Nat /\ cutOff[j] \in Nat /\ failed[j] \in Nat
                      /\ Owe(pass[p], j) \in Nat
  BY DEF TypeOK, Owe
<1>6. \A j \in Item : inserted'[j] + Told(j) + Owe(pass[p], j) = inserted[j] + Told(j)' + Owe(Idle, j)
  BY <1>2, <1>3, <1>4, <1>5 DEF Told
<1> QED BY <1>1, <1>2, <1>6 DEF Accounted

LEMMA PassAccounted ==
  ASSUME TypeOK, PassInv, NEW p \in Pass, Listed(p) \/ Refresh(p) \/ HungUp(p)
  PROVE  \E q : Accounted(p, q)
<1>1. CASE Listed(p)
  BY <1>1, ListedAccounted
<1>2. CASE Read(p)
  BY <1>2, ReadAccounted
<1>3. CASE Stored(p)
  BY <1>3, StoredAccounted
<1>4. CASE StoreFails(p)
  BY <1>4, StoreFailsAccounted
<1>5. CASE Announced(p)
  BY <1>5, AnnouncedAccounted
<1>6. CASE Finished(p) \/ HungUp(p)
  BY <1>6, EndAccounted
<1> QED BY <1>1, <1>2, <1>3, <1>4, <1>5, <1>6 DEF Refresh

\* One pass more or fewer owes the event of an item.
LEMMA OwingCount ==
  ASSUME TypeOK, NEW p \in Pass, NEW q, Accounted(p, q), NEW i \in Item
  PROVE  /\ Cardinality(Owing(i)) \in Nat
         /\ Cardinality(Owing(i)') + Owe(pass[p], i) = Cardinality(Owing(i)) + Owe(q, i)
<1>1. IsFiniteSet(Owing(i)) /\ Cardinality(Owing(i)) \in Nat
  BY FS_Subset, FS_CardinalityType DEF Owing
<1>2. pass'[p] = q /\ \A r \in Pass \ {p} : pass'[r] = pass[r]
  BY DEF Accounted, TypeOK
<1>3. p \in Owing(i) <=> i \in pass[p].batch \cup pass[p].fresh
  BY DEF Owing, Owes
<1>4. CASE i \in q.batch \cup q.fresh
  <2>1. Owing(i)' = Owing(i) \cup {p}
    BY <1>2, <1>4 DEF Owing, Owes
  <2>2. Cardinality(Owing(i) \cup {p}) = IF p \in Owing(i) THEN Cardinality(Owing(i))
                                         ELSE Cardinality(Owing(i)) + 1
    BY <1>1, FS_AddElement
  <2> QED BY <1>1, <1>3, <1>4, <2>1, <2>2 DEF Owe
<1>5. CASE i \notin q.batch \cup q.fresh
  <2>1. Owing(i)' = Owing(i) \ {p}
    BY <1>2, <1>5 DEF Owing, Owes
  <2>2. Cardinality(Owing(i) \ {p}) = IF p \in Owing(i) THEN Cardinality(Owing(i)) - 1
                                      ELSE Cardinality(Owing(i))
    BY <1>1, FS_RemoveElement
  <2> QED BY <1>1, <1>3, <1>5, <2>1, <2>2 DEF Owe
<1> QED BY <1>4, <1>5

LEMMA CountStep ==
  TypeOK /\ PassInv /\ EachNewRowOnce /\ [Next]_vars => PassInv' /\ EachNewRowOnce'
<1> SUFFICES ASSUME TypeOK, PassInv, EachNewRowOnce, [Next]_vars PROVE PassInv' /\ EachNewRowOnce'
  OBVIOUS
<1>1. ASSUME NEW p \in Pass, Listed(p) \/ Refresh(p) \/ HungUp(p) PROVE PassInv' /\ EachNewRowOnce'
  <2>1. PICK q : Accounted(p, q)
    BY <1>1, PassAccounted
  <2>2. PassInv'
    BY <2>1 DEF Accounted, PassInv, TypeOK
  <2>3. ASSUME NEW i \in Item
        PROVE  inserted'[i] = events'[i] + Cardinality(Owing(i)') + cutOff'[i] + failed'[i]
    <3>1. /\ Cardinality(Owing(i)) \in Nat
          /\ Cardinality(Owing(i)') + Owe(pass[p], i) = Cardinality(Owing(i)) + Owe(q, i)
      BY <2>1, OwingCount
    <3>2. inserted'[i] + Told(i) + Owe(pass[p], i) = inserted[i] + Told(i)' + Owe(q, i)
      BY <2>1 DEF Accounted
    <3>3. inserted[i] = Told(i) + Cardinality(Owing(i))
      BY <3>1 DEF EachNewRowOnce, Told, TypeOK
    <3>4. /\ inserted[i] \in Nat /\ Told(i) \in Nat /\ Owe(pass[p], i) \in Nat /\ Owe(q, i) \in Nat
          /\ inserted'[i] \in Nat /\ Told(i)' \in Nat
          /\ events'[i] \in Nat /\ cutOff'[i] \in Nat /\ failed'[i] \in Nat
      BY TypeStep DEF TypeOK, Told, Owe
    <3>5. Cardinality(Owing(i)') \in Nat
      BY FS_Subset, FS_CardinalityType DEF Owing
    <3>6. inserted'[i] = Told(i)' + Cardinality(Owing(i)')
      <4> DEFINE c == Cardinality(Owing(i))   d == Cardinality(Owing(i)')
                 o == Owe(pass[p], i)         w == Owe(q, i)
                 t == Told(i)                 u == Told(i)'
                 n == inserted'[i]            m == inserted[i]
      <4>1. c \in Nat /\ d \in Nat /\ o \in Nat /\ w \in Nat
        BY <3>1, <3>4, <3>5
      <4>2. t \in Nat /\ u \in Nat /\ n \in Nat /\ m \in Nat
        BY <3>4
      <4>3. d + o = c + w /\ n + t + o = m + u + w /\ m = t + c
        BY <3>1, <3>2, <3>3
      <4> HIDE DEF c, d, o, w, t, u, n, m
      <4>4. n = u + d
        BY <4>1, <4>2, <4>3
      <4> QED BY <4>4 DEF n, u, d
    <3> QED BY <3>4, <3>5, <3>6 DEF Told
  <2> QED BY <2>2, <2>3 DEF EachNewRowOnce
<1>2. CASE UNCHANGED <<pass, tally>>
  <2>1. \A i \in Item : Owing(i)' = Owing(i)
    BY <1>2 DEF Owing, Owes
  <2>2. PassInv'
    BY <1>2 DEF PassInv, Orderly
  <2> QED BY <1>2, <2>1, <2>2 DEF EachNewRowOnce, tally
<1>3. CASE Crash
  <2>1. \A p \in Pass : pass'[p] = Idle
    BY <1>3 DEF Crash
  <2>2. PassInv'
    BY <2>1 DEF PassInv, Orderly, Idle
  <2>3. ASSUME NEW i \in Item
        PROVE  inserted'[i] = events'[i] + Cardinality(Owing(i)') + cutOff'[i] + failed'[i]
    <3>1. Owing(i)' = {}
      BY <2>1 DEF Owing, Owes, Idle
    <3>2. cutOff'[i] = cutOff[i] + Cardinality(Owing(i))
      BY <1>3 DEF Crash, Owing
    <3>3. Cardinality({}) = 0
      BY FS_EmptySet
    <3>4. Cardinality(Owing(i)) \in Nat
      BY FS_Subset, FS_CardinalityType DEF Owing
    <3>5. UNCHANGED <<inserted, events, failed>>
      BY <1>3 DEF Crash
    <3>6. inserted[i] \in Nat /\ events[i] \in Nat /\ cutOff[i] \in Nat /\ failed[i] \in Nat
      BY DEF TypeOK
    <3>7. inserted[i] = events[i] + Cardinality(Owing(i)) + cutOff[i] + failed[i]
      BY DEF EachNewRowOnce
    <3>8. Cardinality(Owing(i)') = 0
      BY <3>1, <3>3
    <3> QED BY <3>2, <3>4, <3>5, <3>6, <3>7, <3>8
  <2> QED BY <2>2, <2>3 DEF EachNewRowOnce
<1>4. ASSUME NEW i \in Item, NEW r \in Replier, Replied(<<r, Row(i)>>) PROVE UNCHANGED <<pass, tally>>
  BY <1>4 DEF Replied
<1>5. ASSUME NEW c \in calling \cup marking, Reply(c) PROVE UNCHANGED <<pass, tally>>
  BY <1>5 DEF Reply, Sent, Refused, Marked, ReplyCutOff, tally
<1>6. ASSUME NEW a \in Account, Connection(a) \/ DeleteAccount(a) PROVE UNCHANGED <<pass, tally>>
  BY <1>6 DEF Connection, DeleteAccount
<1>7. CASE DeleteWorkspace
  BY <1>2, <1>7 DEF DeleteWorkspace
<1>8. CASE UNCHANGED vars
  BY <1>2, <1>8 DEF vars
<1> QED BY <1>1, <1>2, <1>3, <1>4, <1>5, <1>6, <1>7, <1>8 DEF Next

-----------------------------------------------------------------------------
(* The replied flag.                                                       *)

LEMMA RowStep ==
  TypeOK /\ RowInv /\ ReplyIsMarkedTruly /\ [Next]_vars => RowInv' /\ ReplyIsMarkedTruly'
<1> SUFFICES ASSUME TypeOK, RowInv, ReplyIsMarkedTruly, [Next]_vars
             PROVE  RowInv' /\ ReplyIsMarkedTruly'
  OBVIOUS
<1> USE DEF RowInv, ReplyIsMarkedTruly, RepliedMeansSent, SentIsMarked, Row
<1>1. CASE UNCHANGED <<inbox, replies, inserted>>
  BY <1>1 DEF replies
<1>2. ASSUME NEW p \in Pass, Listed(p) \/ Refresh(p) \/ HungUp(p), ~Stored(p)
      PROVE  UNCHANGED <<inbox, replies, inserted>>
  BY <1>2 DEF Refresh, Listed, Read, StoreFails, Announced, Finished, HungUp, tally
<1>3. ASSUME NEW p \in Pass, Stored(p) PROVE RowInv' /\ ReplyIsMarkedTruly'
  <2>1. PICK i \in pass[p].items :
          LET new == {j \in {i} : inbox[j] = "absent"} IN
          /\ inbox' = [j \in Item |-> IF j \in new THEN "unreplied" ELSE inbox[j]]
          /\ inserted' = Counted(inserted, new)
    BY <1>3 DEF Stored
  <2> DEFINE new == {j \in {i} : inbox[j] = "absent"}
  <2>2. \A j \in Item : /\ inbox'[j] = IF j \in new THEN "unreplied" ELSE inbox[j]
                        /\ inserted'[j] = inserted[j] + (IF j \in new THEN 1 ELSE 0)
                        /\ inserted[j] \in Nat
    BY <2>1 DEF Counted, TypeOK
  <2>3. UNCHANGED <<calling, marking, answered, unmarked>>
    BY <1>3 DEF Stored, replies
  <2>4. /\ \A c \in calling : c[2] \in Item \X Nat
        /\ answered \subseteq Item \X Nat
    BY DEF TypeOK
  <2> HIDE DEF new
  <2>5. RowInv'
    <3>1. \A c \in calling : c[2][1] \in Item /\ c[2][2] \in Nat
      BY <2>4
    <3>2. \A r \in answered : r[1] \in Item /\ r[2] \in Nat
      BY <2>4
    <3> QED BY <2>2, <2>3, <3>1, <3>2
  <2>6. \A j \in Item : j \in new => <<j, inserted'[j]>> \notin answered
    <3> SUFFICES ASSUME NEW j \in Item, j \in new, <<j, inserted'[j]>> \in answered PROVE FALSE
      OBVIOUS
    <3>1. inserted'[j] <= inserted[j]
      BY DEF RowInv
    <3> QED BY <2>2, <3>1
  <2>7. \A j \in Item : j \notin new => <<j, inserted'[j]>> = <<j, inserted[j]>> /\ inbox'[j] = inbox[j]
    BY <2>2
  <2>8. \A j \in Item : j \in new => inbox'[j] = "unreplied"
    BY <2>2
  <2> QED BY <2>3, <2>5, <2>6, <2>7, <2>8
<1>4. ASSUME NEW i \in Item, NEW r \in Replier, Replied(<<r, Row(i)>>)
      PROVE  RowInv' /\ ReplyIsMarkedTruly'
  <2>1. UNCHANGED <<inbox, marking, answered, unmarked, inserted>>
    BY <1>4 DEF Replied, tally
  <2>2. calling' = calling \cup {<<r, <<i, inserted[i]>>>>}
    BY <1>4 DEF Replied
  <2>3. \A c \in calling' : c[2][2] <= inserted[c[2][1]]
    <3>1. inserted[i] <= inserted[i]
      BY DEF TypeOK
    <3> QED BY <2>2, <3>1
  <2>4. RowInv'
    BY <2>1, <2>3
  <2>5. RepliedMeansSent' /\ SentIsMarked'
    BY <2>1
  <2> QED BY <2>4, <2>5
<1>5. ASSUME NEW c \in calling \cup marking, Sent(c) PROVE RowInv' /\ ReplyIsMarkedTruly'
  BY <1>5 DEF Sent, tally
<1>6. ASSUME NEW c \in calling \cup marking, Refused(c) PROVE RowInv' /\ ReplyIsMarkedTruly'
  BY <1>6 DEF Refused, tally
<1>7. ASSUME NEW c \in calling \cup marking, Marked(c) PROVE RowInv' /\ ReplyIsMarkedTruly'
  <2>1. \A i \in Item : inbox'[i] = IF c[2] = <<i, inserted[i]>> /\ inbox[i] # "absent"
                                    THEN "replied" ELSE inbox[i]
    BY <1>7 DEF Marked
  <2>2. UNCHANGED <<calling, answered, unmarked, inserted>> /\ marking' = marking \ {c} /\ c \in marking
    BY <1>7 DEF Marked, tally
  <2>3. RowInv'
    BY <2>2
  <2>4. RepliedMeansSent'
    BY <2>1, <2>2
  <2>5. SentIsMarked'
    BY <2>1, <2>2
  <2> QED BY <2>3, <2>4, <2>5
<1>8. ASSUME NEW c \in calling \cup marking, ReplyCutOff(c) PROVE RowInv' /\ ReplyIsMarkedTruly'
  BY <1>8 DEF ReplyCutOff, tally
<1>9. ASSUME NEW a \in Account, Connection(a) \/ DeleteAccount(a)
      PROVE  UNCHANGED <<inbox, replies, inserted>>
  BY <1>9 DEF Connection, DeleteAccount, tally
<1>10. CASE DeleteWorkspace
  BY <1>10 DEF DeleteWorkspace, replies, tally
<1>11. CASE Crash
  BY <1>11 DEF Crash
<1>12. CASE UNCHANGED vars
  BY <1>1, <1>12 DEF vars, tally
<1> QED BY <1>1, <1>2, <1>3, <1>4, <1>5, <1>6, <1>7, <1>8, <1>9, <1>10, <1>11, <1>12
        DEF Next, Refresh, Reply

-----------------------------------------------------------------------------
(* Theorems.                                                               *)

LEMMA InitInv == Init => BInv
<1> SUFFICES ASSUME Init PROVE BInv
  OBVIOUS
<1>1. PassInv
  BY DEF Init, PassInv, Orderly, Idle
<1>2. RowInv /\ ReplyIsMarkedTruly
  BY DEF Init, RowInv, ReplyIsMarkedTruly, RepliedMeansSent, SentIsMarked
<1>3. \A i \in Item : Cardinality(Owing(i)) = 0
  <2>1. \A i \in Item : Owing(i) = {}
    BY DEF Init, Owing, Owes, Idle
  <2> QED BY <2>1, FS_EmptySet
<1>4. EachNewRowOnce
  BY <1>3 DEF Init, EachNewRowOnce
<1> QED BY <1>1, <1>2, <1>4, InitType DEF BInv

\* The inductive invariant of the inbox: what passes hold, what replies know, and the count
\* of every item's rows.
THEOREM InboxInvariant == Spec => []BInv
<1>1. BInv /\ [Next]_vars => BInv'
  BY TypeStep, CountStep, RowStep DEF BInv
<1> QED BY <1>1, InitInv, PTL DEF Spec

\* However many passes run, each row that was new is announced once, owed once, or taken
\* once by a crash, a hang-up or a failing insert.
THEOREM NewRowsOnce == Spec => []EachNewRowOnce
<1>1. BInv => EachNewRowOnce
  BY DEF BInv
<1> QED BY <1>1, InboxInvariant, PTL

\* The replied flag says that a provider confirmed the reply, and is set once the handler of
\* a confirmed reply is done.
THEOREM RepliesMarked == Spec => []ReplyIsMarkedTruly
<1>1. BInv => ReplyIsMarkedTruly
  BY DEF BInv
<1> QED BY <1>1, InboxInvariant, PTL

\* Rows, passes, replies and counts keep their types.
THEOREM InboxTypeCorrect == Spec => []TypeOK
<1>1. BInv => TypeOK
  BY DEF BInv
<1> QED BY <1>1, InboxInvariant, PTL

\* An account that is gone, has no rows and is in no pass.
Deserted(a) ==
  /\ account[a] = "removed"
  /\ \A c \in Comment : inbox[<<a, c>>] = "absent"
  /\ \A p \in Pass : a \notin pass[p].todo /\ \A i \in pass[p].items : i[1] # a

LEMMA DesertedStep ==
  ASSUME TypeOK, NEW a \in Account, Deserted(a), [Next]_vars
  PROVE  Deserted(a)'
<1> USE DEF Deserted
<1>1. \A c \in Comment : <<a, c>> \in Item
  BY DEF Item
<1>2. CASE UNCHANGED <<account, inbox, pass>>
  BY <1>2
<1>3. ASSUME NEW p \in Pass, Listed(p) PROVE Deserted(a)'
  <2>1. PICK accounts \in Scope(p) \ {{}} :
          pass' = [pass EXCEPT ![p] = [Idle EXCEPT !.step = "reading", !.todo = accounts]]
    BY <1>3 DEF Listed
  <2>2. a \notin accounts
    BY DEF Scope, Connected
  <2>3. pass'[p].todo = accounts /\ pass'[p].items = {} /\ \A r \in Pass \ {p} : pass'[r] = pass[r]
    BY <2>1 DEF Idle, TypeOK
  <2>4. UNCHANGED <<account, inbox>>
    BY <1>3 DEF Listed
  <2> QED BY <2>2, <2>3, <2>4
<1>4. ASSUME NEW p \in Pass, Read(p) PROVE Deserted(a)'
  <2>1. PICK b \in pass[p].todo, seen \in SUBSET Comment :
          pass' = [pass EXCEPT ![p].todo = @ \ {b}, ![p].items = {b} \X seen,
                               ![p].step = IF seen = {} THEN "reading" ELSE "storing"]
    BY <1>4 DEF Read
  <2>2. b # a
    OBVIOUS
  <2>3. pass[p] \in PassType
    BY DEF TypeOK, PassType
  <2>4. pass'[p].todo = pass[p].todo \ {b} /\ pass'[p].items = {b} \X seen
    <3>1. pass'[p] = [pass[p] EXCEPT !.todo = @ \ {b}, !.items = {b} \X seen,
                                     !.step = IF seen = {} THEN "reading" ELSE "storing"]
      BY <2>1 DEF TypeOK
    <3> QED BY <2>3, <3>1 DEF PassType
  <2>5. \A r \in Pass \ {p} : pass'[r] = pass[r]
    BY <2>1 DEF TypeOK
  <2>6. UNCHANGED <<account, inbox>>
    BY <1>4 DEF Read
  <2>7. \A i \in {b} \X seen : i[1] # a
    BY <2>2
  <2> QED BY <2>4, <2>5, <2>6, <2>7
<1>5. ASSUME NEW p \in Pass, Stored(p) PROVE Deserted(a)'
  <2>1. PICK i \in pass[p].items :
          LET new == {j \in {i} : inbox[j] = "absent"} IN
          /\ inbox' = [j \in Item |-> IF j \in new THEN "unreplied" ELSE inbox[j]]
          /\ pass' = [pass EXCEPT ![p] = After(p, i, new)]
    BY <1>5 DEF Stored
  <2> DEFINE new == {j \in {i} : inbox[j] = "absent"}
  <2>2. i[1] # a
    OBVIOUS
  <2>3. \A c \in Comment : <<a, c>> \notin new
    BY <2>2
  <2>4. \A c \in Comment : inbox'[<<a, c>>] = "absent"
    BY <1>1, <2>1, <2>3
  <2>5. pass'[p] = After(p, i, new) /\ \A r \in Pass \ {p} : pass'[r] = pass[r]
    BY <2>1 DEF TypeOK
  <2> HIDE DEF new
  <2>6. pass'[p].todo = pass[p].todo /\ pass'[p].items = pass[p].items \ {i}
    BY <2>5 DEF After, TypeOK
  <2>7. account' = account
    BY <1>5 DEF Stored
  <2> QED BY <2>4, <2>5, <2>6, <2>7
<1>6. ASSUME NEW p \in Pass, StoreFails(p) PROVE Deserted(a)'
  <2>1. pass'[p].todo = pass[p].todo /\ pass'[p].items = {} /\ \A r \in Pass \ {p} : pass'[r] = pass[r]
    BY <1>6 DEF StoreFails, TypeOK
  <2>2. UNCHANGED <<account, inbox>>
    BY <1>6 DEF StoreFails
  <2> QED BY <2>1, <2>2
<1>7. ASSUME NEW p \in Pass, Announced(p) PROVE Deserted(a)'
  <2>1. pass'[p].todo = pass[p].todo /\ pass'[p].items = pass[p].items
        /\ \A r \in Pass \ {p} : pass'[r] = pass[r]
    BY <1>7 DEF Announced, TypeOK
  <2>2. UNCHANGED <<account, inbox>>
    BY <1>7 DEF Announced
  <2> QED BY <2>1, <2>2
<1>8. ASSUME NEW p \in Pass, Finished(p) \/ HungUp(p) PROVE Deserted(a)'
  <2>1. pass'[p] = Idle /\ \A r \in Pass \ {p} : pass'[r] = pass[r]
    BY <1>8 DEF Finished, HungUp, TypeOK
  <2>2. UNCHANGED <<account, inbox>>
    BY <1>8 DEF Finished, HungUp
  <2> QED BY <2>1, <2>2 DEF Idle
<1>9. ASSUME NEW i \in Item, NEW r \in Replier, Replied(<<r, Row(i)>>)
      PROVE  UNCHANGED <<account, inbox, pass>>
  BY <1>9 DEF Replied
<1>10. ASSUME NEW c \in calling \cup marking, Reply(c) PROVE Deserted(a)'
  <2>1. UNCHANGED <<account, pass>>
    BY <1>10 DEF Reply, Sent, Refused, Marked, ReplyCutOff
  <2>2. \A d \in Comment : inbox'[<<a, d>>] = "absent"
    BY <1>1, <1>10 DEF Reply, Sent, Refused, Marked, ReplyCutOff
  <2> QED BY <2>1, <2>2
<1>11. ASSUME NEW b \in Account, Connection(b) PROVE Deserted(a)'
  <2>1. account'[a] = "removed"
    BY <1>11 DEF Connection, TypeOK
  <2> QED BY <1>11, <2>1 DEF Connection
<1>12. ASSUME NEW b \in Account, DeleteAccount(b) PROVE Deserted(a)'
  <2>1. account'[a] = "removed"
    BY <1>12 DEF DeleteAccount, TypeOK
  <2> QED BY <1>12, <2>1 DEF DeleteAccount
<1>13. CASE DeleteWorkspace
  BY <1>1, <1>13 DEF DeleteWorkspace
<1>14. CASE Crash
  BY <1>14 DEF Crash, Idle
<1>15. CASE UNCHANGED vars
  BY <1>2, <1>15 DEF vars
<1> QED BY <1>2, <1>3, <1>4, <1>5, <1>6, <1>7, <1>8, <1>9, <1>10, <1>11, <1>12, <1>13, <1>14, <1>15
        DEF Next, Refresh

\* Nothing brings back the rows of an account that is gone, once the passes that knew it
\* are done.
THEOREM GoneStaysEmpty == Spec => QuietAfterRemoval
<1> SUFFICES ASSUME NEW a \in Account
             PROVE  Spec => [](account[a] = "removed" /\ (\A c \in Comment : inbox[<<a, c>>] = "absent")
                               /\ (\A p \in Pass : pass[p] = Idle)
                               => [](\A c \in Comment : inbox[<<a, c>>] = "absent"))
  BY DEF QuietAfterRemoval
<1> DEFINE E == \A c \in Comment : inbox[<<a, c>>] = "absent"
           B == account[a] = "removed" /\ E /\ (\A p \in Pass : pass[p] = Idle)
<1>1. B => Deserted(a)
  BY DEF Deserted, Idle
<1>2. TypeOK /\ Deserted(a) /\ [Next]_vars => Deserted(a)'
  BY DesertedStep
<1>3. Deserted(a) => E
  BY DEF Deserted
<1> HIDE DEF E, B
<1>4. Spec => [](B => []E)
  BY <1>1, <1>2, <1>3, InboxTypeCorrect, PTL DEF Spec
<1> QED BY <1>4 DEF B, E
=============================================================================
