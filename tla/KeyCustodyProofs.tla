-------------------------- MODULE KeyCustodyProofs --------------------------
(***************************************************************************)
(* Theorems about KeyCustody: no key under which the folder holds data is  *)
(* dropped, and processes serve under the recorded key.                    *)
(***************************************************************************)
EXTENDS KeyCustody, TLAPS

\* Where a key may be found again, or why it need not be.
Safe == Held \cup gone \cup Operator

\* The index names no key whose material is not there.
VaultInv ==
  \A k \in Key : /\ index[k] = "file" => k \in vault.file
                 /\ index[k] = "chain" => k \in vault.chain

\* The key in hand is in the vault, and waits for its entry in the index.
HandInv ==
  \A p \in Proc : IF At(p, "index") THEN proc[p].hand \in vault[proc[p].into]
                  ELSE proc[p].hand = NoKey

\* A task that serves, or is about to without another look.
Known(t) ==
  \/ t.pc \in {"compare", "serving"}
  \/ t.pc \in {"retire", "index", "record"} /\ t.next \in {"serving", "record"}

KnownInv ==
  \A p \in Proc : /\ Known(proc[p]) => proc[p].key \in Safe
                  /\ proc[p].pc \in {"store", "verify", "publish"} => proc[p].key \in Key

\* Only Core's place runs commands, and the other process is down meanwhile.
AloneInv ==
  /\ proc["node"].pc \notin {"install", "confirm", "place", "unslot", "record"}
  /\ proc["node"].pc \in {"retire", "index"} => proc["node"].next = "serving"
  /\ proc["core"].pc = "record" => proc["core"].next \in {"down", "serving"}
  /\ Commanding => At("node", "down")

Towards(t, next) == t.pc \in {"retire", "index"} /\ t.next = next

\* What a command will overwrite is its new key, or in the vault, or on its way there.
Covered(t, k) == k \in {t.key, t.hand} \cup t.todo \cup Retired

CommandInv ==
  LET t == proc["core"] IN
  /\ (Towards(t, "install") \/ t.pc = "install") /\ t.chain = "write" /\ slot \in Key
       => Covered(t, slot)
  /\ (Towards(t, "install") \/ t.pc \in {"install", "confirm", "place"}) /\ master = record /\ master \in Key
       => Covered(t, master)
  /\ t.pc \in {"install", "confirm", "place", "unslot"} => t.todo = {}
  /\ Towards(t, "unslot") \/ t.pc = "unslot" => t.key \in {master, legacy}

\* Where a key is without the vault, or was.  Only a command takes one away.
Placed == {slot, master, legacy} \cup gone

\* This task is a command's.
Mine(p) == p = "core" /\ Commanding

\* A start retires what it found, and leaves it where it was.
FoundInv ==
  \A p \in Proc : ~Mine(p) =>
    /\ At(p, "compare") /\ proc[p].source # "env" => proc[p].key \in Placed
    /\ proc[p].pc \in {"retire", "index"} => proc[p].todo \cup ({proc[p].hand} \cap Key) \subseteq Placed

\* The index that a retirement read names no key whose material is not there, and has an
\* entry for each key that only an entry gives back; a command's is the index itself.
ReadInv ==
  /\ \A p \in Proc : At(p, "index") =>
       \A k \in Key : /\ proc[p].read[k] = "file" => k \in vault.file
                      /\ proc[p].read[k] = "chain" => k \in vault.chain
                      /\ k \notin Placed => (proc[p].read[k] = "no" <=> index[k] = "no")
  /\ Commanding /\ At("core", "index") => proc["core"].read = index

\* The inductive invariant of custody.
CInv ==
  /\ TypeOK /\ VaultInv /\ HandInv /\ KnownInv /\ AloneInv /\ CommandInv
  /\ FoundInv /\ ReadInv /\ KeysKept

\* What Core read of the record is the record until it writes it.
Ready(t) == t.pc \in {"serving"} \/ Towards(t, "serving")
RecordInv ==
  /\ LET t == proc["core"] IN
     /\ t.pc \in {"ladder", "store", "verify", "publish", "refused", "compare"} => t.recorded = record
     /\ Ready(t) => t.key = record
  /\ LET t == proc["node"] IN
     Ready(t) /\ t.recorded # NoKey => t.key = t.recorded

USE CustodyAssumption

-----------------------------------------------------------------------------
(* Types.                                                                  *)

LEMMA GoesTo ==
  ASSUME proc \in [Proc -> Task], NEW p \in Proc, NEW t, Goes(p, t)
  PROVE  /\ proc'[p] = t
         /\ \A q \in Proc : q # p => proc'[q] = proc[q]
         /\ t \in Task => proc' \in [Proc -> Task]
BY DEF Goes

PCs == {"down", "ladder", "store", "verify", "publish", "refused", "compare", "retire",
        "index", "install", "confirm", "place", "unslot", "record", "serving"}
Nexts == {"down", "install", "unslot", "serving", "record"}

\* A task with one field changed, and its fields.
LEMMA TaskUpdates ==
  ASSUME NEW t \in Task
  PROVE  /\ \A pc \in PCs : [t EXCEPT !.pc = pc] \in Task
         /\ \A k \in Operator \cup {NoKey} : [t EXCEPT !.env = k] \in Task
         /\ \A c \in {"off", "read", "write"} : [t EXCEPT !.chain = c] \in Task
         /\ \A k \in Key \cup {NoKey} : /\ [t EXCEPT !.recorded = k] \in Task
                                        /\ [t EXCEPT !.key = k] \in Task
                                        /\ [t EXCEPT !.hand = k] \in Task
         /\ \A s \in {"none", "env", "chain", "file"} : [t EXCEPT !.source = s] \in Task
         /\ \A S \in SUBSET Key : [t EXCEPT !.todo = S] \in Task
         /\ \A v \in {"file", "chain"} : [t EXCEPT !.into = v] \in Task
         /\ \A n \in Nexts : [t EXCEPT !.next = n] \in Task
         /\ \A x \in [Key -> {"no", "file", "chain"}] : [t EXCEPT !.read = x] \in Task
<1>1. \A pc \in PCs : [t EXCEPT !.pc = pc] \in Task
  BY DEF Task, PCs
<1>2. \A k \in Operator \cup {NoKey} : [t EXCEPT !.env = k] \in Task
  BY DEF Task
<1>3. \A c \in {"off", "read", "write"} : [t EXCEPT !.chain = c] \in Task
  BY DEF Task
<1>4. \A k \in Key \cup {NoKey} : [t EXCEPT !.recorded = k] \in Task
  BY DEF Task
<1>5. \A k \in Key \cup {NoKey} : [t EXCEPT !.key = k] \in Task
  BY DEF Task
<1>6. \A k \in Key \cup {NoKey} : [t EXCEPT !.hand = k] \in Task
  BY DEF Task
<1>7. \A s \in {"none", "env", "chain", "file"} : [t EXCEPT !.source = s] \in Task
  BY DEF Task
<1>8. \A S \in SUBSET Key : [t EXCEPT !.todo = S] \in Task
  BY DEF Task
<1>9. \A v \in {"file", "chain"} : [t EXCEPT !.into = v] \in Task
  BY DEF Task
<1>10. \A n \in Nexts : [t EXCEPT !.next = n] \in Task
  BY DEF Task, Nexts
<1>11. \A x \in [Key -> {"no", "file", "chain"}] : [t EXCEPT !.read = x] \in Task
  BY DEF Task
<1> QED BY <1>1, <1>2, <1>3, <1>4, <1>5, <1>6, <1>7, <1>8, <1>9, <1>10, <1>11

LEMMA TaskFields ==
  ASSUME NEW t \in Task
  PROVE  /\ t.key \in Key \cup {NoKey} /\ t.recorded \in Key \cup {NoKey}
         /\ t.env \in Operator \cup {NoKey} /\ t.hand \in Key \cup {NoKey}
         /\ t.todo \subseteq Key /\ t.into \in {"file", "chain"} /\ t.next \in Nexts /\ t.pc \in PCs
         /\ t.read \in [Key -> {"no", "file", "chain"}]
BY DEF Task, Nexts, PCs

LEMMA IntoStays ==
  ASSUME NEW t \in Task, NEW k
  PROVE  [t EXCEPT !.todo = @ \ {k}, !.hand = k].into = t.into
BY DEF Task

LEMMA TaskTypes ==
  ASSUME NEW t \in Task, NEW k \in Key \cup {NoKey}
  PROVE  /\ Idle \in Task /\ Recording(k) \in Task /\ Serving(t, k) \in Task
         /\ Follows(t) \in Task /\ RetireFails(t) \in Task
<1>1. Idle \in Task
  BY DEF Idle, NoEntry, Task
<1>2. \A s \in Key \cup {NoKey} : Recording(s) \in Task
  BY <1>1 DEF Recording, Task
<1>3. \A s \in Key \cup {NoKey} : Serving(t, s) \in Task
  BY <1>1 DEF Serving, Task
<1>7. t.key \in Key \cup {NoKey}
  BY DEF Task
<1>4. t.next \notin {"down", "serving", "record"} => [t EXCEPT !.pc = t.next] \in Task
  BY DEF Task
<1>5. Follows(t) \in Task
  BY <1>1, <1>2, <1>3, <1>4, <1>7 DEF Follows
<1>6. RetireFails(t) \in Task
  BY <1>1, <1>5 DEF RetireFails
<1> QED BY <1>1, <1>2, <1>3, <1>5, <1>6 DEF Task


LEMMA CommandTasks ==
  /\ Commands \subseteq Task
  /\ \A t \in Commands : t.hand = NoKey /\ t.todo = {} /\ t.next = "down"
<1>1. Idle \in Task /\ Idle.hand = NoKey /\ Idle.todo = {} /\ Idle.next = "down"
  BY DEF Idle, NoEntry, Task
<1> DEFINE Given(env, chain) == [Idle EXCEPT !.env = env, !.chain = chain,
                                             !.into = IF chain = "write" THEN "chain" ELSE "file"]
<1>2. \A env \in Operator \cup {NoKey}, chain \in {"off", "read", "write"} : Given(env, chain) \in Task
  BY <1>1, TaskUpdates
<1>3. \A env, chain : Given(env, chain).hand = NoKey /\ Given(env, chain).todo = {} /\ Given(env, chain).next = "down"
  BY <1>1 DEF Task
<1>4. Commands = {Given(env, chain) : env \in Operator \cup {NoKey}, chain \in {"off", "read", "write"}}
  BY DEF Commands
<1> HIDE DEF Given
<1> QED BY <1>2, <1>3, <1>4

LEMMA InitType == Init => TypeOK
<1> SUFFICES ASSUME Init PROVE TypeOK
  OBVIOUS
<1>1. PICK k \in Key \ Operator : slot \in {NoKey, k} /\ master \in {NoKey, k}
  BY DEF Init
<1>2. Idle \in Task
  BY DEF Idle, NoEntry, Task
<1> QED BY <1>1, <1>2 DEF Init, NoEntry, TypeOK

\* A step that changes the tasks only.
LEMMA TaskStep ==
  ASSUME TypeOK, NEW p \in Proc, NEW t \in Task, Goes(p, t), ResolveFrame
  PROVE  TypeOK'
BY GoesTo DEF TypeOK, ResolveFrame, Files, Vault

LEMMA SafeKeys == TypeOK => Safe \subseteq Key
BY DEF TypeOK, Safe, Held

LEMMA TypeStep == TypeOK /\ KnownInv /\ [Next]_vars => TypeOK'
<1> SUFFICES ASSUME TypeOK, KnownInv, [Next]_vars PROVE TypeOK'
  OBVIOUS
<1> USE DEF Files, Vault
<1>0. \A p \in Proc : proc[p] \in Task
  BY DEF TypeOK
<1>1. ASSUME NEW p \in Proc, Begin(p) PROVE TypeOK'
  <2>1. PICK env \in Operator \cup {NoKey, Broken}, chain \in {"off", "read", "write"} :
          LET t == [Idle EXCEPT !.chain = chain, !.recorded = record] IN
          Goes(p, IF env = Broken THEN [t EXCEPT !.pc = "refused"]
                  ELSE IF env = NoKey THEN [t EXCEPT !.pc = "ladder"]
                  ELSE [t EXCEPT !.pc = "compare", !.env = env, !.key = env, !.source = "env"])
    BY <1>1 DEF Begin
  <2>2. Idle \in Task /\ record \in Key \cup {NoKey}
    BY TaskTypes, <1>0 DEF TypeOK
  <2> DEFINE t == [Idle EXCEPT !.chain = chain, !.recorded = record]
  <2>3. t \in Task
    BY <2>2 DEF Task
  <2>4. env # Broken /\ env # NoKey => env \in Operator /\ env \in Key
    OBVIOUS
  <2>5. /\ [t EXCEPT !.pc = "refused"] \in Task /\ [t EXCEPT !.pc = "ladder"] \in Task
        /\ env # Broken /\ env # NoKey
             => [t EXCEPT !.pc = "compare", !.env = env, !.key = env, !.source = "env"] \in Task
    BY <2>3, <2>4, TaskUpdates DEF PCs
  <2>6. proc' \in [Proc -> Task]
    BY <2>1, <2>5, GoesTo DEF TypeOK
  <2>7. events' \in 0..MaxEvents
    BY <1>1 DEF Begin, TypeOK
  <2> QED BY <1>1, <2>6, <2>7 DEF Begin, TypeOK
<1>2. ASSUME NEW p \in Proc, FoundInChain(p) \/ FoundInFile(p) \/ Verify(p) \/ Publish(p) PROVE TypeOK'
  <2>0. proc[p].key \in Key \cup {NoKey}
    BY <1>0, TaskFields
  <2>1. PICK k \in Key \cup {NoKey}, source \in {"chain", "file"} :
          \/ Goes(p, [proc[p] EXCEPT !.pc = "compare", !.key = k, !.source = source])
          \/ Goes(p, [proc[p] EXCEPT !.pc = "refused"])
    <3>1. CASE FoundInChain(p)
      BY <3>1 DEF FoundInChain, Found, InChain
    <3>2. CASE FoundInFile(p)
      BY <3>2 DEF FoundInFile, Found, TypeOK
    <3>3. CASE Verify(p)
      BY <3>3, <2>0 DEF Verify, Found, TypeOK
    <3>4. CASE Publish(p)
      BY <3>4, <2>0 DEF Publish, Found, TypeOK
    <3> QED BY <1>2, <3>1, <3>2, <3>3, <3>4
  <2>2. proc' \in [Proc -> Task]
    BY <2>1, <1>0, TaskUpdates, GoesTo DEF TypeOK, PCs
  <2>3. /\ legacy' \in Key \cup {NoKey} /\ master' \in Key \cup {NoKey}
        /\ UNCHANGED <<slot, vault, index, record, sealed, gone, events>>
    BY <1>2, <1>0 DEF FoundInChain, FoundInFile, Verify, Publish, RetireMatchingLegacy, LadderFrame,
                      TypeOK, Task
  <2> QED BY <2>2, <2>3 DEF TypeOK
<1>3. ASSUME NEW p \in Proc, AdoptExisting(p) \/ Generate(p) \/ LadderRefuses(p) PROVE TypeOK'
  <2>1. PICK k \in Key \cup {NoKey}, pc \in {"publish", "store"} :
          \/ Goes(p, [proc[p] EXCEPT !.key = k, !.pc = pc])
          \/ Goes(p, [proc[p] EXCEPT !.pc = "refused"])
    <3>1. CASE AdoptExisting(p)
      BY <3>1 DEF AdoptExisting, OnItsWay, Existing, TypeOK
    <3>2. CASE Generate(p)
      BY <3>2 DEF Generate, OnItsWay, Fresh
    <3>3. CASE LadderRefuses(p)
      BY <3>3 DEF LadderRefuses
    <3> QED BY <1>3, <3>1, <3>2, <3>3
  <2>2. proc' \in [Proc -> Task]
    BY <2>1, <1>0, TaskUpdates, GoesTo DEF TypeOK, PCs
  <2> QED BY <1>3, <2>2 DEF AdoptExisting, Generate, LadderRefuses, LadderFrame, TypeOK
<1>4. ASSUME NEW p \in Proc, Store(p) PROVE TypeOK'
  <2>1. PICK pc \in {"verify", "publish", "refused"} : Goes(p, [proc[p] EXCEPT !.pc = pc])
    BY <1>4 DEF Store
  <2>2. proc' \in [Proc -> Task]
    BY <2>1, <1>0, TaskUpdates, GoesTo DEF TypeOK, PCs
  <2>3. slot' \in Key \cup {NoKey, Broken} /\ gone' \in SUBSET Key
    BY <1>4, <1>0 DEF Store, TypeOK, Task
  <2> QED BY <1>4, <2>2, <2>3 DEF Store, LadderFrame, TypeOK
<1>5. ASSUME NEW p \in Proc, Refused(p) \/ Matches(p) \/ Mismatch(p) \/ Unrecorded(p) PROVE TypeOK'
  <2>1. proc[p] \in Task /\ proc[p].key \in Key \cup {NoKey} /\ proc[p].recorded \in Key \cup {NoKey}
    BY <1>0 DEF Task
  <2>2. ASSUME NEW k \in Key \cup {NoKey}, proc[p].key \in Key, NEW next \in {"serving", "record"}
        PROVE  Recovered(proc[p], k, next) \in Task
    <3>1. Serving(proc[p], k) \in Task
      BY <2>1, TaskTypes
    <3>2. PICK into \in {"file", "chain"} : Into(proc[p], proc[p].source = "chain") = into
      BY DEF Into
    <3> HIDE DEF Serving
    <3>3. [Serving(proc[p], k) EXCEPT !.pc = next, !.next = "serving"] \in Task
      BY <3>1, TaskUpdates DEF PCs, Nexts
    <3>4. [Serving(proc[p], k) EXCEPT !.pc = "retire", !.todo = {proc[p].key},
                 !.into = into, !.next = next] \in Task
      <4>1. [Serving(proc[p], k) EXCEPT !.pc = "retire"] \in Task
        BY <3>1, TaskUpdates DEF PCs
      <4>2. [Serving(proc[p], k) EXCEPT !.pc = "retire", !.todo = {proc[p].key}] \in Task
        BY <2>2, <4>1, TaskUpdates
      <4> QED BY <4>2, TaskUpdates DEF Nexts
    <3> QED BY <3>2, <3>3, <3>4 DEF Recovered
  <2>3. At(p, "compare") => proc[p].key \in Key
    BY SafeKeys DEF KnownInv, Known, At
  <2>4. PICK k \in Key \cup {NoKey}, next \in {"serving", "record"} :
          \/ Goes(p, Idle) \/ Goes(p, Serving(proc[p], k)) \/ Goes(p, Recording(k))
          \/ proc[p].key \in Key /\ Goes(p, Recovered(proc[p], k, next))
    <3>1. CASE Refused(p)
      BY <3>1, <2>1 DEF Refused
    <3>2. CASE Matches(p)
      BY <3>2, <2>1 DEF Matches
    <3>3. CASE Mismatch(p)
      BY <3>3, <2>1, <2>3 DEF Mismatch
    <3>4. CASE Unrecorded(p)
      <4>1. \A s \in Samples : s \subseteq Key
        BY DEF Samples, TypeOK
      <4> QED BY <3>4, <2>1, <2>3, <4>1 DEF Unrecorded
    <3> QED BY <1>5, <3>1, <3>2, <3>3, <3>4
  <2>5. PICK t \in Task : Goes(p, t)
    BY <2>1, <2>2, <2>4, TaskTypes
  <2> QED BY <1>5, <2>5, TaskStep DEF Refused, Matches, Mismatch, Unrecorded
<1>6. ASSUME NEW p \in Proc, Retire(p) \/ Index(p) \/ AllRetired(p) \/ Record(p) PROVE TypeOK'
  <2>1. \A k \in Key : /\ [[proc[p] EXCEPT !.todo = @ \ {k}, !.hand = k] EXCEPT !.hand = NoKey] \in Task
                       /\ [[proc[p] EXCEPT !.todo = @ \ {k}, !.hand = k]
                             EXCEPT !.pc = "index", !.read = index] \in Task
    <3>1. proc[p].todo \subseteq Key
      BY <1>0, TaskFields
    <3>2. index \in [Key -> {"no", "file", "chain"}]
      BY DEF TypeOK
    <3> QED BY <1>0, <3>1, <3>2, TaskUpdates DEF PCs
  <2>2. [proc[p] EXCEPT !.pc = "retire", !.hand = NoKey, !.read = NoEntry] \in Task
    <3>1. NoEntry \in [Key -> {"no", "file", "chain"}]
      BY DEF NoEntry
    <3> QED BY <1>0, <3>1, TaskUpdates DEF PCs
  <2>3. proc[p].todo \subseteq Key /\ proc[p].into \in {"file", "chain"}
        /\ proc[p].key \in Key \cup {NoKey}
    BY <1>0 DEF Task
  <2>4. PICK t \in Task : Goes(p, t)
    <3>1. CASE Retire(p)
      BY <3>1, <2>1, <2>3, <1>0, TaskTypes DEF Retire
    <3>2. CASE Index(p) \/ AllRetired(p) \/ Record(p)
      BY <3>2, <2>2, <1>0, TaskTypes DEF Index, AllRetired, Record
    <3> QED BY <1>6, <3>1, <3>2
  <2>5. proc' \in [Proc -> Task]
    BY <2>4, GoesTo DEF TypeOK
  <2>6. vault' \in [file : SUBSET Key, chain : SUBSET Key]
    <3>1. CASE Retire(p)
      <4>1. vault' = vault \/ \E k \in Key : vault' = [vault EXCEPT ![proc[p].into] = @ \cup {k}]
        BY <3>1, <2>3, <1>0, IntoStays DEF Retire
      <4> QED BY <4>1, <2>3 DEF TypeOK
    <3>2. CASE Index(p) \/ AllRetired(p) \/ Record(p)
      BY <3>2 DEF Index, AllRetired, Record, TypeOK
    <3> QED BY <1>6, <3>1, <3>2
  <2>7. index' \in [Key -> {"no", "file", "chain"}] /\ record' \in Key \cup {NoKey}
    <3>1. CASE Retire(p) \/ AllRetired(p) \/ Record(p)
      BY <2>3, <3>1 DEF Retire, AllRetired, Record, VaultFrame, TypeOK
    <3>2. CASE Index(p)
      <4>1. index' = [proc[p].read EXCEPT ![proc[p].hand] = proc[p].into] /\ record' = record
        BY <3>2 DEF Index, VaultFrame
      <4>2. proc[p].read \in [Key -> {"no", "file", "chain"}]
        BY <1>0, TaskFields
      <4> QED BY <2>3, <4>1, <4>2 DEF TypeOK
    <3> QED BY <1>6, <3>1, <3>2
  <2> QED BY <1>6, <2>5, <2>6, <2>7 DEF Retire, Index, AllRetired, Record, VaultFrame, TypeOK
<1>7. ASSUME Adopt \/ Import \/ RetireCommand PROVE TypeOK'
  <2>1. Commands \subseteq Task
    BY CommandTasks
  <2>2. \A t, key, extra : ToRetire(t, key, extra) \subseteq Key
    BY DEF ToRetire
  <2>3. PICK t \in Commands, k \in Key, todo \in SUBSET Key, next \in {"install", "down", "unslot"} :
          \/ Goes("core", [t EXCEPT !.pc = "retire", !.env = NoKey, !.key = k, !.next = next, !.todo = todo])
          \/ Goes("core", [t EXCEPT !.pc = "retire", !.env = NoKey, !.todo = todo])
          \/ Goes("core", [t EXCEPT !.pc = "retire", !.env = NoKey, !.key = k, !.todo = {k}, !.next = next])
    <3>1. CASE Adopt
      <4>1. PICK t \in Commands : \E k \in Candidates(t) : InstallCurrent(t, k, {})
        BY <3>1 DEF Adopt
      <4>2. PICK k \in Key : InstallCurrent(t, k, {})
        BY <4>1 DEF Candidates, Live, Loadable
      <4> QED BY <4>2, <2>2 DEF InstallCurrent
    <3>2. CASE Import
      <4>1. PICK t \in Commands, k \in Key, extra \in SUBSET Key :
              \/ Goes("core", [t EXCEPT !.pc = "retire", !.env = NoKey, !.todo = extra])
              \/ InstallCurrent(t, k, extra)
        BY <3>2 DEF Import
      <4> QED BY <4>1, <2>2 DEF InstallCurrent
    <3>3. CASE RetireCommand
      <4>1. PICK t \in Commands : \E k \in Live(t) :
              Goes("core", [t EXCEPT !.pc = "retire", !.env = NoKey, !.key = k, !.todo = {k},
                                     !.next = IF k = t.env THEN "down" ELSE "unslot"])
        BY <3>3 DEF RetireCommand
      <4> QED BY <4>1 DEF Live
    <3> QED BY <1>7, <3>1, <3>2, <3>3
  <2>4. proc' \in [Proc -> Task]
    <3>1. t \in Task
      BY <2>1
    <3>2. [t EXCEPT !.pc = "retire", !.env = NoKey] \in Task
      BY <3>1, TaskUpdates DEF PCs
    <3>3. [t EXCEPT !.pc = "retire", !.env = NoKey, !.key = k] \in Task
      BY <3>2, TaskUpdates
    <3>4. [t EXCEPT !.pc = "retire", !.env = NoKey, !.key = k, !.next = next, !.todo = todo] \in Task
      BY <3>3, TaskUpdates DEF Nexts
    <3>5. [t EXCEPT !.pc = "retire", !.env = NoKey, !.todo = todo] \in Task
      BY <3>2, TaskUpdates
    <3>6. [t EXCEPT !.pc = "retire", !.env = NoKey, !.key = k, !.todo = {k}, !.next = next] \in Task
      BY <3>3, TaskUpdates DEF Nexts
    <3> QED BY <2>3, <3>4, <3>5, <3>6, GoesTo DEF TypeOK, Proc
  <2>5. CommandFrame
    BY <1>7 DEF Adopt, Import, RetireCommand
  <2>6. events' \in 0..MaxEvents
    BY <2>5 DEF CommandFrame, TypeOK
  <2> QED BY <2>4, <2>5, <2>6 DEF CommandFrame, TypeOK
<1>8. ASSUME Unslot \/ Install \/ Confirm \/ Place PROVE TypeOK'
  <2>1. proc["core"] \in Task
    BY <1>0 DEF Proc
  <2>2. PICK t \in Task : Goes("core", t)
    <3>1. Idle \in Task
      BY TaskTypes, <2>1
    <3>2. \A pc \in {"confirm", "place"} : [proc["core"] EXCEPT !.pc = pc] \in Task
      BY <2>1 DEF Task
    <3>3. \A pc \in {"record", "place"} : [proc["core"] EXCEPT !.pc = pc, !.next = "down"] \in Task
      BY <2>1 DEF Task
    <3> QED BY <1>8, <3>1, <3>2, <3>3 DEF Unslot, Install, Confirm, Place
  <2>3. proc' \in [Proc -> Task]
    BY <2>2, GoesTo DEF TypeOK, Proc
  <2>4. /\ slot' \in Key \cup {NoKey, Broken} /\ master' \in Key \cup {NoKey}
        /\ legacy' \in Key \cup {NoKey} /\ gone' \in SUBSET Key
    BY <1>8, <2>1 DEF Unslot, Install, Confirm, Place, InstallFrame, TypeOK, Task
  <2> QED BY <1>8, <2>3, <2>4 DEF Unslot, Install, Confirm, Place, InstallFrame, TypeOK
<1>9. ASSUME NEW p \in Proc, Seal(p) PROVE TypeOK'
  BY <1>9, SafeKeys DEF Seal, TypeOK, KnownInv, Known, At
<1>10. ASSUME NEW p \in Proc, Stop(p) PROVE TypeOK'
  BY <1>10, <1>0, TaskTypes, TaskStep DEF Stop, ResolveFrame
<1>11. ASSUME ChainLoses PROVE TypeOK'
  BY <1>11 DEF ChainLoses, TypeOK
<1>12. CASE UNCHANGED vars
  BY <1>12 DEF vars, TypeOK
<1> QED BY <1>1, <1>2, <1>3, <1>4, <1>5, <1>6, <1>7, <1>8, <1>9, <1>10, <1>11, <1>12
        DEF Next, Ladder, Resolve, Vaulting, Command
-----------------------------------------------------------------------------
(* No step makes a key unsafe.                                             *)

LEMMA SafeKept == UNCHANGED <<slot, master, legacy, vault, index, gone>> => Safe' = Safe
BY DEF Safe, Held

LEMMA RetiredIsHeld == TypeOK /\ VaultInv => Retired \subseteq Held
BY DEF TypeOK, VaultInv, Retired, Held

LEMMA RetiredStays == TypeOK /\ VaultInv /\ UNCHANGED Vault => Retired \subseteq Safe'
BY DEF TypeOK, VaultInv, Retired, Safe, Held, Vault

LEMMA SafeStep ==
  ASSUME CInv, [Next]_vars
  PROVE  Safe \subseteq Safe'
<1> USE DEF Files, Vault
<1>0. TypeOK /\ VaultInv /\ HandInv /\ CommandInv /\ ReadInv /\ (\A p \in Proc : proc[p] \in Task)
  BY DEF CInv, TypeOK
<1>1. ASSUME NEW p \in Proc, \/ Begin(p) \/ FoundInFile(p) \/ AdoptExisting(p) \/ Generate(p) \/ LadderRefuses(p)
                             \/ Resolve(p) \/ AllRetired(p) \/ Record(p) \/ Seal(p) \/ Stop(p)
      PROVE  Safe \subseteq Safe'
  BY <1>1, SafeKept DEF Begin, FoundInFile, AdoptExisting, Generate, LadderRefuses, LadderFrame, Resolve, Refused,
       Matches, Mismatch, Unrecorded, ResolveFrame, AllRetired, VaultFrame, Record, Seal, Stop
<1>2. CASE Adopt \/ Import \/ RetireCommand \/ Confirm \/ UNCHANGED vars
  BY <1>2, SafeKept DEF Adopt, Import, RetireCommand, CommandFrame, Confirm, InstallFrame, vars
<1>3. ASSUME NEW p \in Proc, FoundInChain(p) \/ Verify(p) PROVE Safe \subseteq Safe'
  <2>1. /\ UNCHANGED <<slot, master, gone, vault, index>>
        /\ legacy' = legacy \/ legacy = slot
    BY <1>3 DEF FoundInChain, Verify, RetireMatchingLegacy, LadderFrame
  <2> QED BY <2>1 DEF Safe, Held
<1>4. ASSUME NEW p \in Proc, Store(p) PROVE Safe \subseteq Safe'
  <2>1. UNCHANGED <<master, legacy, vault, index>>
    BY <1>4 DEF Store, LadderFrame
  <2>2. \/ UNCHANGED <<slot, gone>>
        \/ slot' = proc[p].key /\ gone' = gone \cup ({slot} \cap (Key \ {proc[p].key}))
    BY <1>4 DEF Store
  <2> QED BY <2>1, <2>2 DEF Safe, Held
<1>5. ASSUME NEW p \in Proc, Publish(p) PROVE Safe \subseteq Safe'
  <2>1. UNCHANGED <<slot, legacy, vault, index, gone>> /\ (master = NoKey \/ master' = master)
    BY <1>5 DEF Publish, LadderFrame
  <2> QED BY <2>1 DEF Safe, Held
<1>6. ASSUME NEW p \in Proc, Retire(p) PROVE Safe \subseteq Safe'
  <2>1. UNCHANGED <<slot, master, legacy, index, gone>>
    BY <1>6 DEF Retire, VaultFrame
  <2>2. proc[p].into \in {"file", "chain"}
    BY <1>0, TaskFields
  <2>3. vault.file \subseteq vault'.file /\ vault.chain \subseteq vault'.chain
    <3>1. vault' = vault \/ \E k \in proc[p].todo : vault' = [vault EXCEPT ![proc[p].into] = @ \cup {k}]
      BY <1>0, <1>6, IntoStays DEF Retire
    <3> QED BY <1>0, <2>2, <3>1 DEF TypeOK
  <2> QED BY <2>1, <2>3 DEF Safe, Held
<1>7. ASSUME NEW p \in Proc, Index(p) PROVE Safe \subseteq Safe'
  <2>1. UNCHANGED <<slot, master, legacy, vault, gone>> /\ index' = [proc[p].read EXCEPT ![proc[p].hand] = proc[p].into]
    BY <1>7 DEF Index, VaultFrame
  <2>2. proc[p].hand \in vault[proc[p].into] /\ proc[p].into \in {"file", "chain"}
    BY <1>0, <1>7, TaskFields DEF Index, HandInv
  <2>6. proc[p].read \in [Key -> {"no", "file", "chain"}]
    BY <1>0, TaskFields
  <2>3. \A k \in Key : IF k = proc[p].hand THEN index'[k] = proc[p].into ELSE index'[k] = proc[p].read[k]
    BY <2>1, <2>6
  <2> SUFFICES ASSUME NEW k \in Safe PROVE k \in Safe'
    OBVIOUS
  <2>4. CASE k = proc[p].hand
    <3>0. k \in Key
      BY <1>0, SafeKeys
    <3>1. index'[k] = proc[p].into /\ k \in vault'[proc[p].into]
      BY <2>1, <2>2, <2>3, <2>4, <3>0
    <3>2. \/ index'[k] = "file" /\ k \in vault'.file
          \/ index'[k] = "chain" /\ k \in vault'.chain
      BY <2>2, <3>1
    <3> QED BY <3>0, <3>2 DEF Safe, Held
  <2>5. CASE k # proc[p].hand
    <3>0. k \in Key /\ index'[k] = proc[p].read[k]
      BY <1>0, <2>3, <2>5, SafeKeys
    <3>1. CASE k \in Placed \cup Operator
      BY <2>1, <3>0, <3>1 DEF Placed, Safe, Held
    <3>2. CASE k \notin Placed \cup Operator
      <4>1. index[k] # "no"
        BY <3>0, <3>2 DEF Placed, Safe, Held
      <4>2. proc[p].read[k] # "no"
        BY <1>0, <1>7, <3>0, <3>2, <4>1 DEF ReadInv, Index
      <4>3. \/ index'[k] = "file" /\ k \in vault'.file
            \/ index'[k] = "chain" /\ k \in vault'.chain
        BY <1>0, <1>7, <2>1, <2>6, <3>0, <4>2 DEF ReadInv, Index
      <4> QED BY <3>0, <4>3 DEF Safe, Held
    <3> QED BY <3>1, <3>2
  <2> QED BY <2>4, <2>5
<1>8. CASE Unslot
  <2>1. UNCHANGED <<slot, vault, index, gone>>
    BY <1>8 DEF Unslot
  <2>2. proc["core"].key \in Retired \/ UNCHANGED Files
    BY <1>8 DEF Unslot, Loadable, Retired
  <2>3. /\ master' # master => master = proc["core"].key
        /\ legacy' # legacy => legacy = proc["core"].key
    BY <1>0, <1>8 DEF Unslot, CommandInv, At
  <2>4. Retired \subseteq Safe'
    BY <1>0, <2>1, RetiredStays
  <2> QED BY <2>1, <2>2, <2>3, <2>4 DEF Safe, Held
<1>9. CASE Install
  <2>1. UNCHANGED <<master, legacy, vault, index, gone>> /\ (slot' = slot \/ slot' = proc["core"].key)
    BY <1>9 DEF Install, InstallFrame
  <2>2. proc["core"].todo = {} /\ proc["core"].hand = NoKey
    BY <1>0, <1>9 DEF Install, CommandInv, HandInv, At, Proc
  <2>3. slot' # slot /\ slot \in Key => Covered(proc["core"], slot)
    BY <1>0, <1>9 DEF Install, CommandInv, At
  <2>4. slot' # slot /\ slot \in Key => slot = slot' \/ slot \in Retired
    BY <2>1, <2>2, <2>3 DEF Covered
  <2>5. Retired \subseteq Safe'
    BY <1>0, <2>1, RetiredStays
  <2> QED BY <2>1, <2>4, <2>5 DEF Safe, Held
<1>10. CASE Place
  <2>1. UNCHANGED <<slot, legacy, vault, index>>
    BY <1>10 DEF Place, InstallFrame
  <2>2. proc["core"].todo = {} /\ proc["core"].hand = NoKey
    BY <1>0, <1>10 DEF Place, CommandInv, HandInv, At, Proc
  <2>3. master \in Key /\ master = record => master = proc["core"].key \/ master \in Retired
    BY <1>0, <1>10, <2>2 DEF Place, CommandInv, At, Covered
  <2>4. \/ UNCHANGED <<master, gone>>
        \/ /\ master' = proc["core"].key
           /\ gone' = gone \cup ({master} \cap (Key \ (Retired \cup {proc["core"].key, record})))
    BY <1>10 DEF Place
  <2>5. Retired \subseteq Safe'
    BY <1>0, <2>1, RetiredStays
  <2> QED BY <2>1, <2>3, <2>4, <2>5 DEF Safe, Held
<1>11. CASE ChainLoses
  BY <1>11 DEF ChainLoses, Safe, Held
<1> QED BY <1>1, <1>2, <1>3, <1>4, <1>5, <1>6, <1>7, <1>8, <1>9, <1>10, <1>11
        DEF Next, Ladder, Vaulting, Command
-----------------------------------------------------------------------------
(* What each part of the invariant needs.                                  *)

LEMMA VaultUntouched ==
  ASSUME [Next]_vars, \A p \in Proc : ~Retire(p) /\ ~Index(p)
  PROVE  UNCHANGED Vault
<1> USE DEF Vault
<1>1. ASSUME NEW p \in Proc, Ladder(p) PROVE UNCHANGED Vault
  BY <1>1 DEF Ladder, Begin, FoundInChain, FoundInFile, AdoptExisting, Generate, LadderRefuses, Store, Verify,
              Publish, LadderFrame
<1>2. ASSUME NEW p \in Proc, Resolve(p) \/ AllRetired(p) \/ Record(p) \/ Seal(p) \/ Stop(p) PROVE UNCHANGED Vault
  BY <1>2 DEF Resolve, Refused, Matches, Mismatch, Unrecorded, ResolveFrame, AllRetired, Record, Seal, Stop
<1>3. CASE Command
  BY <1>3 DEF Command, Adopt, Import, RetireCommand, CommandFrame, Unslot, Install, Confirm, Place, InstallFrame
<1>4. CASE ChainLoses \/ UNCHANGED vars
  BY <1>4 DEF ChainLoses, vars
<1> QED BY <1>1, <1>2, <1>3, <1>4 DEF Next, Vaulting

LEMMA VaultGrows ==
  ASSUME CInv, [Next]_vars
  PROVE  vault.file \subseteq vault'.file /\ vault.chain \subseteq vault'.chain
<1>0. TypeOK /\ (\A p \in Proc : proc[p] \in Task)
  BY DEF CInv, TypeOK
<1>1. ASSUME NEW p \in Proc, Retire(p)
      PROVE  vault.file \subseteq vault'.file /\ vault.chain \subseteq vault'.chain
  <2>1. proc[p].into \in {"file", "chain"}
    BY <1>0, TaskFields
  <2>2. vault' = vault \/ \E k \in proc[p].todo : vault' = [vault EXCEPT ![proc[p].into] = @ \cup {k}]
    BY <1>0, <1>1, IntoStays DEF Retire
  <2> QED BY <1>0, <2>1, <2>2 DEF TypeOK
<1>2. ASSUME NEW p \in Proc, Index(p) PROVE vault' = vault
  BY <1>2 DEF Index
<1> QED BY <1>1, <1>2, VaultUntouched DEF Vault

LEMMA VaultStep ==
  ASSUME CInv, [Next]_vars
  PROVE  VaultInv'
<1>0. TypeOK /\ VaultInv /\ HandInv /\ ReadInv /\ (\A p \in Proc : proc[p] \in Task)
  BY DEF CInv, TypeOK
<1>1. ASSUME NEW p \in Proc, Retire(p) PROVE VaultInv'
  BY <1>0, <1>1, VaultGrows DEF Retire, VaultInv
<1>2. ASSUME NEW p \in Proc, Index(p) PROVE VaultInv'
  <2>1. UNCHANGED vault /\ index' = [proc[p].read EXCEPT ![proc[p].hand] = proc[p].into]
    BY <1>2 DEF Index
  <2>2. proc[p].hand \in vault[proc[p].into] /\ proc[p].into \in {"file", "chain"}
    BY <1>0, <1>2, TaskFields DEF Index, HandInv
  <2>3. \A k \in Key : IF k = proc[p].hand THEN index'[k] = proc[p].into ELSE index'[k] = proc[p].read[k]
    <3>1. proc[p].read \in [Key -> {"no", "file", "chain"}]
      BY <1>0, TaskFields
    <3> QED BY <2>1, <3>1
  <2>4. \A k \in Key : /\ proc[p].read[k] = "file" => k \in vault.file
                       /\ proc[p].read[k] = "chain" => k \in vault.chain
    BY <1>0, <1>2 DEF ReadInv, Index
  <2> QED BY <2>1, <2>2, <2>3, <2>4 DEF VaultInv
<1>3. UNCHANGED Vault => VaultInv'
  BY <1>0 DEF VaultInv, Vault
<1> QED BY <1>1, <1>2, <1>3, VaultUntouched

\* The other tasks go on holding what they hold.
LEMMA HandByStep ==
  ASSUME CInv, NEW p \in Proc, NEW t, Goes(p, t),
         [Next]_vars,
         IF t.pc = "index" THEN t.hand \in vault'[t.into] ELSE t.hand = NoKey
  PROVE  HandInv'
<1>1. TypeOK /\ HandInv /\ \A q \in Proc : proc[q].into \in {"file", "chain"}
  BY TaskFields DEF CInv, TypeOK
<1>3. vault.file \subseteq vault'.file /\ vault.chain \subseteq vault'.chain
  BY VaultGrows
<1>2. proc'[p] = t /\ \A q \in Proc : q # p => proc'[q] = proc[q]
  BY <1>1, GoesTo DEF TypeOK
<1> QED BY <1>1, <1>2, <1>3 DEF HandInv, At
\* What the steps that end a resolution make of a task.
LEMMA NewTasks ==
  ASSUME NEW t \in Task, NEW k
  PROVE  /\ Idle.pc = "down" /\ Idle.hand = NoKey /\ Idle.todo = {}
         /\ Recording(k).pc = "record" /\ Recording(k).next = "serving" /\ Recording(k).key = k
         /\ Recording(k).hand = NoKey /\ Recording(k).todo = {} /\ Recording(k).recorded = NoKey
         /\ Serving(t, k).pc = "serving" /\ Serving(t, k).key = k /\ Serving(t, k).hand = NoKey
         /\ Serving(t, k).recorded = t.recorded /\ Serving(t, k).todo = {}
BY DEF Idle, Recording, Serving

\* Another candidate than the one that was found will serve.
LEMMA RecoveredTask ==
  ASSUME NEW t \in Task, NEW k, NEW next \in {"serving", "record"}
  PROVE  LET r == Recovered(t, k, next) IN
         /\ r.key = k /\ r.recorded = t.recorded /\ r.hand = NoKey
         /\ \/ r.pc = next /\ r.next = "serving"
            \/ r.pc = "retire" /\ r.next = next /\ r.todo = {t.key} /\ t.source # "env"
BY DEF Recovered, Serving, Idle

-----------------------------------------------------------------------------
(* What a step makes of the task that takes it.                            *)

Same(t, s) == t.hand = s.hand /\ t.todo = s.todo /\ t.next = s.next /\ t.recorded = s.recorded

\* A step of the ladder.
LadderTo(p, t) ==
  /\ Goes(p, t) /\ Same(t, proc[p])
  /\ proc[p].pc \in {"ladder", "store", "verify", "publish"}
  /\ t.pc \in {"store", "verify", "publish", "refused", "compare"}
  /\ t.pc = "compare" => t.key \in Key /\ t.key \in Placed'
  /\ t.pc \in {"store", "verify", "publish"} => t.key \in Key

LEMMA LadderTask ==
  ASSUME CInv, NEW p \in Proc, Ladder(p), ~Begin(p)
  PROVE  \E t : LadderTo(p, t)
<1>0. TypeOK /\ KnownInv /\ proc[p] \in Task
  BY DEF CInv, TypeOK
\* What the ladder found.
<1>1. ASSUME NEW k \in Key, k \in Placed', NEW source, Found(p, k, source), proc[p].pc \in {"ladder", "verify", "publish"}
      PROVE  \E t : LadderTo(p, t)
  <2>1. PICK t : Goes(p, t) /\ t = [proc[p] EXCEPT !.pc = "compare", !.key = k, !.source = source]
    BY <1>1 DEF Found
  <2>2. Same(t, proc[p]) /\ t.pc = "compare" /\ t.key = k
    BY <1>0, <2>1 DEF Same, Task
  <2>3. LadderTo(p, t)
    BY <1>1, <2>1, <2>2 DEF LadderTo
  <2> QED BY <2>3
\* Where it goes without having found one.
<1>2. ASSUME NEW pc \in {"store", "verify", "publish", "refused"}, Goes(p, [proc[p] EXCEPT !.pc = pc]),
             proc[p].pc \in {"ladder", "store", "verify"}, pc = "refused" \/ proc[p].key \in Key
      PROVE  \E t : LadderTo(p, t)
  <2>1. PICK t : Goes(p, t) /\ t = [proc[p] EXCEPT !.pc = pc]
    BY <1>2
  <2>2. Same(t, proc[p]) /\ t.pc = pc /\ t.key = proc[p].key
    BY <1>0, <2>1 DEF Same, Task
  <2>3. LadderTo(p, t)
    BY <1>2, <2>1, <2>2 DEF LadderTo
  <2> QED BY <2>3
<1>3. CASE FoundInChain(p)
  <2>1. Found(p, slot, "chain") /\ proc[p].pc = "ladder" /\ slot \in Key /\ slot' = slot
    BY <1>3 DEF FoundInChain, InChain, At
  <2>2. slot \in Placed'
    BY <2>1 DEF Placed
  <2> QED BY <1>1, <2>1, <2>2
<1>4. CASE FoundInFile(p)
  <2>1. Found(p, master, "file") /\ proc[p].pc = "ladder" /\ master \in Key /\ master' = master
    BY <1>0, <1>4 DEF FoundInFile, Files, TypeOK, At
  <2>2. master \in Placed'
    BY <2>1 DEF Placed
  <2> QED BY <1>1, <2>1, <2>2
<1>5. CASE Verify(p)
  <2>1. proc[p].pc = "verify" /\ slot' = slot /\ proc[p].key \in Key
    BY <1>0, <1>5 DEF Verify, KnownInv, At
  <2>2. CASE slot = proc[p].key
    <3>1. slot \in Placed'
      BY <2>1 DEF Placed
    <3> QED BY <1>1, <1>5, <2>1, <2>2, <3>1 DEF Verify
  <2>3. CASE slot # proc[p].key
    BY <1>2, <1>5, <2>1, <2>3 DEF Verify
  <2> QED BY <2>2, <2>3
<1>6. CASE Publish(p)
  <2>1. proc[p].pc = "publish" /\ proc[p].key \in Key
    BY <1>0, <1>6 DEF Publish, KnownInv, At
  <2>2. Found(p, master', "file") /\ master' \in Key
    BY <1>0, <1>6, <2>1 DEF Publish, TypeOK
  <2>3. master' \in Placed'
    BY DEF Placed
  <2> QED BY <1>1, <2>1, <2>2, <2>3
<1>7. CASE AdoptExisting(p) \/ Generate(p)
  <2>1. PICK k \in Key : OnItsWay(p, k)
    <3>1. CASE AdoptExisting(p)
      BY <1>0, <3>1 DEF AdoptExisting, Existing, TypeOK
    <3>2. CASE Generate(p)
      BY <3>2 DEF Generate, Fresh
    <3> QED BY <1>7, <3>1, <3>2
  <2> PICK pc \in {"store", "publish"} : Goes(p, [proc[p] EXCEPT !.key = k, !.pc = pc])
    BY <2>1 DEF OnItsWay
  <2>2. PICK t : Goes(p, t) /\ t = [proc[p] EXCEPT !.key = k, !.pc = pc]
    OBVIOUS
  <2>3. Same(t, proc[p]) /\ t.pc = pc /\ t.key = k
    BY <1>0, <2>2 DEF Same, Task
  <2>4. proc[p].pc = "ladder"
    BY <1>7 DEF AdoptExisting, Generate, Without, At
  <2>5. LadderTo(p, t)
    BY <2>2, <2>3, <2>4 DEF LadderTo
  <2> QED BY <2>5
<1>8. CASE LadderRefuses(p)
  BY <1>2, <1>8 DEF LadderRefuses, At
<1>9. CASE Store(p)
  <2>1. PICK pc \in {"verify", "publish", "refused"} : Goes(p, [proc[p] EXCEPT !.pc = pc])
    BY <1>9 DEF Store
  <2>2. proc[p].pc = "store" /\ proc[p].key \in Key
    BY <1>0, <1>9 DEF Store, KnownInv, At
  <2> QED BY <1>2, <2>1, <2>2
<1> QED BY <1>3, <1>4, <1>5, <1>6, <1>7, <1>8, <1>9 DEF Ladder

\* A start.
BeginTo(p, t) ==
  /\ Goes(p, t) /\ t.hand = NoKey /\ t.recorded = record
  /\ t.pc \in {"refused", "ladder", "compare"}
  /\ t.pc = "compare" => t.key \in Safe' /\ t.source = "env"

LEMMA BeginTask ==
  ASSUME CInv, NEW p \in Proc, Begin(p)
  PROVE  \E t : BeginTo(p, t)
<1>0. TypeOK
  BY DEF CInv
<1> PICK env \in Operator \cup {NoKey, Broken}, chain \in {"off", "read", "write"} :
      LET s == [Idle EXCEPT !.chain = chain, !.recorded = record] IN
      Goes(p, IF env = Broken THEN [s EXCEPT !.pc = "refused"]
              ELSE IF env = NoKey THEN [s EXCEPT !.pc = "ladder"]
              ELSE [s EXCEPT !.pc = "compare", !.env = env, !.key = env, !.source = "env"])
  BY DEF Begin
<1>1. PICK s, t :
        /\ s = [Idle EXCEPT !.chain = chain, !.recorded = record]
        /\ Goes(p, t)
        /\ t = IF env = Broken THEN [s EXCEPT !.pc = "refused"]
               ELSE IF env = NoKey THEN [s EXCEPT !.pc = "ladder"]
               ELSE [s EXCEPT !.pc = "compare", !.env = env, !.key = env, !.source = "env"]
  OBVIOUS
<1>2. s \in Task /\ s.hand = NoKey /\ s.recorded = record
  BY <1>0, <1>1 DEF Idle, NoEntry, Task, TypeOK
<1>3. /\ t.hand = NoKey /\ t.recorded = record
      /\ t.pc = IF env = Broken THEN "refused" ELSE IF env = NoKey THEN "ladder" ELSE "compare"
      /\ t.pc = "compare" => t.key = env /\ t.source = "env" /\ env \in Operator
  BY <1>1, <1>2 DEF Task
<1>4. Operator \subseteq Safe'
  BY DEF Safe
<1>5. BeginTo(p, t)
  BY <1>1, <1>3, <1>4 DEF BeginTo
<1> QED BY <1>5

\* The end of a resolution, or what a retirement stands between.
ResolveTo(p, t) ==
  /\ Goes(p, t) /\ t.hand = NoKey
  /\ proc[p].pc \in {"refused", "compare"}
  /\ \/ t.pc = "down"
     \/ /\ t.pc = "serving" \/ (t.pc = "retire" /\ t.next = "serving")
        /\ t.key \in Safe /\ t.recorded = proc[p].recorded
        /\ t.key = t.recorded \/ (p # "core" /\ t.recorded = NoKey)
     \/ /\ (t.pc = "record" /\ t.next = "serving") \/ (t.pc = "retire" /\ t.next = "record")
        /\ t.key \in Safe /\ p = "core"
  /\ t.pc = "retire" => At(p, "compare") /\ proc[p].source # "env" /\ t.todo = {proc[p].key}

LEMMA CandidatesSafe == TypeOK => \A p \in Proc : Candidates(proc[p]) \subseteq Safe
<1> SUFFICES ASSUME TypeOK, NEW p \in Proc PROVE Candidates(proc[p]) \subseteq Safe
  OBVIOUS
<1>1. proc[p].env \in Operator \cup {NoKey}
  BY TaskFields DEF TypeOK
<1> QED BY <1>1 DEF Candidates, Live, InChain, Loadable, Safe, Held

LEMMA ResolveTask ==
  ASSUME CInv, NEW p \in Proc, Resolve(p)
  PROVE  \E t : ResolveTo(p, t)
<1>0. TypeOK /\ KnownInv /\ proc[p] \in Task /\ proc[p].recorded \in Key \cup {NoKey}
  BY TaskFields DEF CInv, TypeOK
<1>1. At(p, "compare") => proc[p].key \in Safe
  BY <1>0 DEF KnownInv, Known, At
<1>2. Candidates(proc[p]) \subseteq Safe /\ Safe \subseteq Key
  BY <1>0, CandidatesSafe, SafeKeys
<1>3. proc[p].pc \in {"refused", "compare"}
  BY DEF Resolve, Refused, Matches, Mismatch, Unrecorded, At
<1>4. ASSUME Goes(p, Idle) PROVE \E t : ResolveTo(p, t)
  <2>1. ResolveTo(p, Idle)
    BY <1>0, <1>3, <1>4, NewTasks DEF ResolveTo
  <2> QED BY <2>1
<1>5. ASSUME NEW k \in Safe, Goes(p, Serving(proc[p], k)), k = proc[p].recorded \/ (p # "core" /\ proc[p].recorded = NoKey)
      PROVE  \E t : ResolveTo(p, t)
  <2>1. PICK t : t = Serving(proc[p], k) /\ Goes(p, t)
    BY <1>5
  <2>2. t.pc = "serving" /\ t.key = k /\ t.hand = NoKey /\ t.recorded = proc[p].recorded
    BY <1>0, <2>1, NewTasks
  <2>3. ResolveTo(p, t)
    BY <1>3, <1>5, <2>1, <2>2 DEF ResolveTo
  <2> QED BY <2>3
<1>6. ASSUME NEW k \in Safe, Goes(p, Recording(k)), p = "core" PROVE \E t : ResolveTo(p, t)
  <2>1. PICK t : t = Recording(k) /\ Goes(p, t)
    BY <1>6
  <2>2. t.pc = "record" /\ t.next = "serving" /\ t.key = k /\ t.hand = NoKey
    BY <1>0, <2>1, NewTasks
  <2>3. ResolveTo(p, t)
    BY <1>3, <1>6, <2>1, <2>2 DEF ResolveTo
  <2> QED BY <2>3
<1>7. ASSUME NEW k \in Safe, NEW next \in {"serving", "record"}, Goes(p, Recovered(proc[p], k, next)),
             (next = "serving" /\ k = proc[p].recorded) \/ (next = "record" /\ p = "core"), At(p, "compare")
      PROVE  \E t : ResolveTo(p, t)
  <2>1. PICK t : t = Recovered(proc[p], k, next) /\ Goes(p, t)
    BY <1>7
  <2>2. /\ t.key = k /\ t.recorded = proc[p].recorded /\ t.hand = NoKey
        /\ \/ t.pc = next /\ t.next = "serving"
           \/ t.pc = "retire" /\ t.next = next /\ t.todo = {proc[p].key} /\ proc[p].source # "env"
    BY <1>0, <2>1, RecoveredTask
  <2>3. CASE next = "serving"
    <3>1. k = proc[p].recorded
      BY <1>7, <2>3
    <3>2. ResolveTo(p, t)
      BY <1>3, <1>7, <2>1, <2>2, <2>3, <3>1 DEF ResolveTo
    <3> QED BY <3>2
  <2>4. CASE next = "record"
    <3>1. p = "core"
      BY <1>7, <2>4
    <3>2. ResolveTo(p, t)
      BY <1>3, <1>7, <2>1, <2>2, <2>4, <3>1 DEF ResolveTo
    <3> QED BY <3>2
  <2> QED BY <2>3, <2>4
<1>8. CASE Refused(p)
  <2>1. CASE proc[p].recorded \in Candidates(proc[p])
    <3>1. Goes(p, Serving(proc[p], proc[p].recorded))
      BY <1>8, <2>1 DEF Refused
    <3>2. proc[p].recorded \in Safe
      BY <1>2, <2>1
    <3> QED BY <1>5, <3>1, <3>2
  <2>2. CASE proc[p].recorded \notin Candidates(proc[p])
    BY <1>4, <1>8, <2>2 DEF Refused
  <2> QED BY <2>1, <2>2
<1>9. CASE Matches(p)
  <2>1. Goes(p, Serving(proc[p], proc[p].key)) /\ proc[p].recorded = proc[p].key /\ proc[p].key \in Safe
    BY <1>1, <1>9 DEF Matches
  <2> QED BY <1>5, <2>1
<1>10. CASE Mismatch(p)
  <2>1. CASE Goes(p, Idle)
    BY <1>4, <2>1
  <2>2. CASE ~Goes(p, Idle)
    <3>1. Goes(p, Recovered(proc[p], proc[p].recorded, "serving")) /\ proc[p].recorded \in Candidates(proc[p])
      BY <1>10, <2>2 DEF Mismatch
    <3>2. proc[p].recorded \in Safe /\ At(p, "compare")
      BY <1>2, <1>10, <3>1 DEF Mismatch
    <3> QED BY <1>7, <3>1, <3>2
  <2> QED BY <2>1, <2>2
<1>11. CASE Unrecorded(p)
  <2>1. CASE p # "core"
    BY <1>1, <1>5, <1>11, <2>1 DEF Unrecorded
  <2>2. CASE p = "core"
    <3>1. PICK s \in Samples :
            IF s = {} \/ proc[p].key \in s
              THEN Goes(p, Recording(proc[p].key))
              ELSE IF s \cap Candidates(proc[p]) = {} THEN Goes(p, Idle)
              ELSE \E k \in s \cap Candidates(proc[p]) : Goes(p, Recovered(proc[p], k, "record"))
      BY <1>11, <2>2 DEF Unrecorded
    <3>2. At(p, "compare")
      BY <1>11 DEF Unrecorded
    <3> QED BY <1>1, <1>2, <1>4, <1>6, <1>7, <2>2, <3>1, <3>2
  <2> QED BY <2>1, <2>2
<1> QED BY <1>8, <1>9, <1>10, <1>11 DEF Resolve

\* What follows the retirements, or a record.
FollowTo(s, t) ==
  /\ t.hand = NoKey
  /\ \/ t.pc = "down"
     \/ s.next = "serving" /\ t.pc = "serving" /\ t.key = s.key /\ t.recorded = s.recorded
     \/ s.next = "record" /\ t.pc = "record" /\ t.next = "serving" /\ t.key = s.key
     \/ /\ s.next \in {"install", "unslot"} /\ t.pc = s.next
        /\ t.key = s.key /\ t.chain = s.chain /\ t.todo = s.todo

LEMMA FollowTask ==
  ASSUME NEW s \in Task, s.hand = NoKey
  PROVE  /\ FollowTo(s, Follows(s)) /\ FollowTo(s, RetireFails(s))
         /\ RetireFails(s).pc \notin {"install", "unslot"}
<1>1. CASE s.next = "down"
  BY <1>1, NewTasks DEF Follows, RetireFails, FollowTo
<1>2. CASE s.next = "serving"
  BY <1>2, NewTasks DEF Follows, RetireFails, FollowTo
<1>3. CASE s.next = "record"
  BY <1>3, NewTasks DEF Follows, RetireFails, FollowTo
<1>4. CASE s.next \in {"install", "unslot"}
  <2>1. PICK t : t = [s EXCEPT !.pc = s.next]
    OBVIOUS
  <2>2. t.hand = NoKey /\ t.pc = s.next /\ t.key = s.key /\ t.chain = s.chain /\ t.todo = s.todo
    BY <2>1 DEF Task
  <2>3. Follows(s) = t /\ RetireFails(s) = Idle
    BY <1>4, <2>1 DEF Follows, RetireFails
  <2> QED BY <1>4, <2>2, <2>3, NewTasks DEF FollowTo
<1> QED BY <1>1, <1>2, <1>3, <1>4, TaskFields DEF Nexts

Kept(t, s) == t.key = s.key /\ t.next = s.next /\ t.chain = s.chain /\ t.recorded = s.recorded

\* A step of a retirement, or the record.
VaultTo(p, t) ==
  /\ Goes(p, t) /\ proc[p].pc \in {"retire", "index", "record"}
  /\ \/ /\ Kept(t, proc[p]) /\ proc[p].pc \in {"retire", "index"}
        /\ \/ t.pc = "retire" /\ t.hand = NoKey
           \/ t.pc = "index" /\ t.hand \in vault'[t.into] /\ t.read = index /\ index' = index
        /\ t.todo \cup ({t.hand} \cap Key) \subseteq proc[p].todo
        /\ Mine(p) => \A k \in Key : Covered(proc[p], k) => k \in {t.key, t.hand} \cup t.todo \cup Retired'
     \/ /\ FollowTo(proc[p], t) /\ proc[p].pc \in {"retire", "record"}
        /\ t.pc \in {"install", "unslot"} /\ proc[p].pc = "retire" =>
             proc[p].todo = {} /\ proc[p].hand = NoKey

LEMMA VaultTask ==
  ASSUME CInv, NEW p \in Proc, Vaulting(p)
  PROVE  \E t : VaultTo(p, t)
<1>0. /\ TypeOK /\ HandInv /\ ReadInv /\ proc[p] \in Task /\ proc[p].todo \subseteq Key
      /\ proc[p].into \in {"file", "chain"} /\ proc[p].hand \in Key \cup {NoKey}
  BY TaskFields DEF CInv, TypeOK
<1>1. proc[p].pc \in {"retire", "index", "record"} /\ (proc[p].pc # "index" => proc[p].hand = NoKey)
  BY <1>0 DEF Vaulting, Retire, Index, AllRetired, Record, At, HandInv
<1>2. CASE Retire(p)
  <2>1. /\ At(p, "retire") /\ UNCHANGED index /\ Retired' = Retired
    BY <1>2 DEF Retire, Retired
  <2>2. PICK k \in proc[p].todo :
          LET s == [proc[p] EXCEPT !.todo = @ \ {k}, !.hand = k] IN
          IF index[k] # "no" THEN Goes(p, [s EXCEPT !.hand = NoKey])
          ELSE IF Full THEN Goes(p, RetireFails(proc[p]))
          ELSE /\ vault' = [vault EXCEPT ![s.into] = @ \cup {k}]
               /\ Goes(p, [s EXCEPT !.pc = "index", !.read = index])
    BY <1>2 DEF Retire
  <2>3. PICK s : s = [proc[p] EXCEPT !.todo = @ \ {k}, !.hand = k]
    OBVIOUS
  <2>4. /\ s \in Task /\ Kept(s, proc[p]) /\ s.todo = proc[p].todo \ {k} /\ s.hand = k
        /\ s.into = proc[p].into /\ s.pc = "retire"
    BY <1>0, <2>1, <2>3 DEF Task, Kept, At
  <2>5. CASE index[k] # "no"
    <3>1. PICK t : Goes(p, t) /\ t = [s EXCEPT !.hand = NoKey]
      BY <2>2, <2>3, <2>5
    <3>2. Kept(t, proc[p]) /\ t.todo = proc[p].todo \ {k} /\ t.hand = NoKey /\ t.pc = "retire"
      BY <2>4, <3>1 DEF Task, Kept
    <3>3. k \in Retired'
      BY <1>0, <2>1, <2>5 DEF Retired
    <3>4. \A j \in Key : Covered(proc[p], j) => j \in {t.key, t.hand} \cup t.todo \cup Retired'
      BY <1>1, <2>1, <3>2, <3>3 DEF Covered, Kept, At
    <3>5. VaultTo(p, t)
      BY <1>0, <1>1, <2>1, <3>1, <3>2, <3>4 DEF VaultTo, At
    <3> QED BY <3>5
  <2>6. CASE index[k] = "no" /\ Full
    <3>1. PICK t : Goes(p, t) /\ t = RetireFails(proc[p])
      BY <2>2, <2>6
    <3>2. FollowTo(proc[p], t) /\ t.pc \notin {"install", "unslot"}
      BY <1>0, <1>1, <2>1, <3>1, FollowTask DEF At
    <3>3. VaultTo(p, t)
      BY <1>1, <2>1, <3>1, <3>2 DEF VaultTo, At
    <3> QED BY <3>3
  <2>7. CASE index[k] = "no" /\ ~Full
    <3>1. PICK t : Goes(p, t) /\ t = [s EXCEPT !.pc = "index", !.read = index]
      BY <2>2, <2>3, <2>7
    <3>2. /\ Kept(t, proc[p]) /\ t.todo = proc[p].todo \ {k} /\ t.hand = k /\ t.pc = "index"
          /\ t.into = proc[p].into /\ t.read = index
      BY <2>4, <3>1 DEF Task, Kept
    <3>3. vault' = [vault EXCEPT ![proc[p].into] = @ \cup {k}]
      BY <2>2, <2>3, <2>4, <2>7
    <3>4. k \in vault'[t.into]
      BY <1>0, <3>2, <3>3 DEF TypeOK
    <3>5. \A j \in Key : Covered(proc[p], j) => j \in {t.key, t.hand} \cup t.todo \cup Retired'
      BY <1>1, <2>1, <3>2 DEF Covered, Kept, At
    <3>6. VaultTo(p, t)
      BY <1>1, <2>1, <3>1, <3>2, <3>4, <3>5 DEF VaultTo, At
    <3> QED BY <3>6
  <2> QED BY <2>5, <2>6, <2>7
<1>3. CASE Index(p)
  <2>1. PICK t : Goes(p, t) /\ t = [proc[p] EXCEPT !.pc = "retire", !.hand = NoKey, !.read = NoEntry]
    BY <1>3 DEF Index
  <2>2. Kept(t, proc[p]) /\ t.todo = proc[p].todo /\ t.hand = NoKey /\ t.pc = "retire"
    BY <1>0, <2>1 DEF Task, Kept
  <2>3. index' = [proc[p].read EXCEPT ![proc[p].hand] = proc[p].into] /\ At(p, "index")
    BY <1>3 DEF Index
  <2>4. Mine(p) => Retired \cup ({proc[p].hand} \cap Key) \subseteq Retired'
    <3>1. Mine(p) => proc[p].read = index
      BY <1>0, <2>3 DEF ReadInv, Mine
    <3> QED BY <1>0, <2>3, <3>1 DEF Retired, TypeOK
  <2>5. Mine(p) => \A j \in Key : Covered(proc[p], j) => j \in {t.key, t.hand} \cup t.todo \cup Retired'
    BY <2>2, <2>4 DEF Covered, Kept
  <2>6. VaultTo(p, t)
    BY <1>1, <2>1, <2>2, <2>3, <2>5 DEF VaultTo, At
  <2> QED BY <2>6
<1>4. CASE AllRetired(p) \/ Record(p)
  <2>1. PICK t : Goes(p, t) /\ t = Follows(proc[p])
    BY <1>4 DEF AllRetired, Record
  <2>2. /\ proc[p].pc \in {"retire", "record"} /\ proc[p].hand = NoKey
        /\ proc[p].pc = "retire" => proc[p].todo = {}
    BY <1>1, <1>4 DEF AllRetired, Record, At
  <2>3. FollowTo(proc[p], t)
    BY <1>0, <2>1, <2>2, FollowTask
  <2>4. VaultTo(p, t)
    BY <2>1, <2>2, <2>3 DEF VaultTo
  <2> QED BY <2>4
<1> QED BY <1>2, <1>3, <1>4 DEF Vaulting

\* A command begins: what it will overwrite is covered.
CommandTo(t) ==
  /\ Goes("core", t) /\ AllDown /\ UNCHANGED <<slot, Files, record, index>>
  /\ t.pc = "retire" /\ t.hand = NoKey /\ t.next \in {"down", "install", "unslot"}
  /\ t.next = "install" => /\ t.chain = "write" /\ slot \in Key => Covered(t, slot)
                           /\ master = record /\ master \in Key => Covered(t, master)
  /\ t.next = "unslot" => t.key \in {master, legacy}

LEMMA InstallTask ==
  ASSUME CInv, NEW s \in Commands, NEW k \in Key, NEW extra, InstallCurrent(s, k, extra), CommandFrame, AllDown
  PROVE  \E t : CommandTo(t)
<1>1. s \in Task /\ s.hand = NoKey
  BY CommandTasks
<1>2. PICK t : /\ Goes("core", t)
               /\ t = [s EXCEPT !.pc = "retire", !.env = NoKey, !.key = k, !.next = "install",
                                !.todo = ToRetire(s, k, extra)]
  BY DEF InstallCurrent
<1>3. /\ t.pc = "retire" /\ t.hand = NoKey /\ t.next = "install" /\ t.key = k /\ t.chain = s.chain
      /\ t.todo = ToRetire(s, k, extra)
  BY <1>1, <1>2 DEF Task
<1>4. s.chain = "write" /\ slot \in Key => slot \in {k} \cup ToRetire(s, k, extra)
  BY DEF ToRetire, InChain
<1>5. master = record /\ master \in Key => master \in {k} \cup ToRetire(s, k, extra)
  BY DEF ToRetire, Live
<1>6. UNCHANGED <<slot, Files, record, index>>
  BY DEF CommandFrame, Vault
<1>7. CommandTo(t)
  BY <1>2, <1>3, <1>4, <1>5, <1>6 DEF CommandTo, Covered
<1> QED BY <1>7

LEMMA CommandTask ==
  ASSUME CInv, Adopt \/ Import \/ RetireCommand
  PROVE  \E t : CommandTo(t)
<1>1. AllDown /\ CommandFrame /\ UNCHANGED <<slot, Files, record, index>>
  BY DEF Adopt, Import, RetireCommand, CommandFrame, Vault
<1>3. CASE Adopt
  <2>1. PICK s \in Commands : \E k \in Candidates(s) : InstallCurrent(s, k, {})
    BY <1>3 DEF Adopt
  <2>2. PICK k \in Key : InstallCurrent(s, k, {})
    BY <2>1 DEF Candidates, Live, Loadable
  <2> QED BY <1>1, <2>2, InstallTask
<1>4. CASE Import
  <2>1. PICK s \in Commands, k \in Key, extra \in {{}} \cup {{e} : e \in Key} :
          \/ Goes("core", [s EXCEPT !.pc = "retire", !.env = NoKey, !.todo = extra])
          \/ InstallCurrent(s, k, extra)
    BY <1>4 DEF Import
  <2>2. CASE InstallCurrent(s, k, extra)
    BY <1>1, <2>2, InstallTask
  <2>3. CASE Goes("core", [s EXCEPT !.pc = "retire", !.env = NoKey, !.todo = extra])
    <3>1. s \in Task /\ s.hand = NoKey /\ s.next = "down"
      BY CommandTasks
    <3>2. PICK t : Goes("core", t) /\ t = [s EXCEPT !.pc = "retire", !.env = NoKey, !.todo = extra]
      BY <2>3
    <3>3. t.pc = "retire" /\ t.hand = NoKey /\ t.next = "down"
      BY <3>1, <3>2 DEF Task
    <3>4. CommandTo(t)
      BY <1>1, <3>2, <3>3 DEF CommandTo
    <3> QED BY <3>4
  <2> QED BY <2>1, <2>2, <2>3
<1>5. CASE RetireCommand
  <2>1. PICK s \in Commands : \E k \in Live(s) \ {record} :
          /\ k = s.env \/ k # InChain(s)
          /\ Goes("core", [s EXCEPT !.pc = "retire", !.env = NoKey, !.key = k, !.todo = {k},
                                    !.next = IF k = s.env THEN "down" ELSE "unslot"])
    BY <1>5 DEF RetireCommand
  <2>2. PICK k \in Live(s) :
          /\ k = s.env \/ k # InChain(s)
          /\ Goes("core", [s EXCEPT !.pc = "retire", !.env = NoKey, !.key = k, !.todo = {k},
                                    !.next = IF k = s.env THEN "down" ELSE "unslot"])
    BY <2>1
  <2>3. s \in Task /\ s.hand = NoKey
    BY CommandTasks
  <2>4. PICK t : /\ Goes("core", t)
                 /\ t = [s EXCEPT !.pc = "retire", !.env = NoKey, !.key = k, !.todo = {k},
                                  !.next = IF k = s.env THEN "down" ELSE "unslot"]
    BY <2>2
  <2>5. /\ t.pc = "retire" /\ t.hand = NoKey /\ t.key = k
        /\ t.next = IF k = s.env THEN "down" ELSE "unslot"
    BY <2>3, <2>4 DEF Task
  <2>6. k # s.env => k \in {master, legacy}
    BY <2>2 DEF Live
  <2>7. CommandTo(t)
    BY <1>1, <2>4, <2>5, <2>6 DEF CommandTo
  <2> QED BY <2>7
<1> QED BY <1>3, <1>4, <1>5

\* A command changes the place of the key.
PlaceTo(t) ==
  /\ Goes("core", t) /\ t.hand = NoKey
  /\ proc["core"].pc \in {"unslot", "install", "confirm", "place"}
  /\ \/ t.pc = "down"
     \/ t.pc = "record" /\ t.next = "down"
     \/ /\ t.pc \in {"confirm", "place"}
        /\ t.key = proc["core"].key /\ t.todo = proc["core"].todo
        /\ proc["core"].pc \in {"install", "confirm"} /\ UNCHANGED <<master, record, index>>

LEMMA PlaceTask ==
  ASSUME CInv, Unslot \/ Install \/ Confirm \/ Place
  PROVE  \E t : PlaceTo(t)
<1>0. proc["core"] \in Task /\ HandInv
  BY DEF CInv, TypeOK, Proc
<1>1. proc["core"].pc \in {"unslot", "install", "confirm", "place"} /\ proc["core"].hand = NoKey
  BY <1>0 DEF Unslot, Install, Confirm, Place, At, HandInv, Proc
<1>2. Idle.pc = "down" /\ Idle.hand = NoKey
  BY DEF Idle
<1>3. CASE Goes("core", Idle)
  <2>1. PlaceTo(Idle)
    BY <1>1, <1>2, <1>3 DEF PlaceTo
  <2> QED BY <2>1
<1>4. CASE Install
  <2>1. PICK pc \in {"confirm", "place"} : Goes("core", [proc["core"] EXCEPT !.pc = pc])
    BY <1>4 DEF Install
  <2>2. PICK t : Goes("core", t) /\ t = [proc["core"] EXCEPT !.pc = pc]
    BY <2>1
  <2>3. t.pc = pc /\ t.hand = NoKey /\ t.key = proc["core"].key /\ t.todo = proc["core"].todo
    BY <1>0, <1>1, <2>2 DEF Task
  <2>4. proc["core"].pc = "install" /\ UNCHANGED <<master, record, index>>
    BY <1>4 DEF Install, InstallFrame, Vault, At
  <2>5. PlaceTo(t)
    BY <2>2, <2>3, <2>4 DEF PlaceTo
  <2> QED BY <2>5
<1>5. CASE Confirm
  <2>1. PICK pc \in {"record", "place"} : Goes("core", [proc["core"] EXCEPT !.pc = pc, !.next = "down"])
    BY <1>5 DEF Confirm
  <2>2. PICK t : Goes("core", t) /\ t = [proc["core"] EXCEPT !.pc = pc, !.next = "down"]
    BY <2>1
  <2>3. /\ t.pc = pc /\ t.hand = NoKey /\ t.key = proc["core"].key /\ t.todo = proc["core"].todo
        /\ t.next = "down"
    BY <1>0, <1>1, <2>2 DEF Task
  <2>4. proc["core"].pc = "confirm" /\ UNCHANGED <<master, record, index>>
    BY <1>5 DEF Confirm, InstallFrame, Vault, At
  <2>5. PlaceTo(t)
    BY <2>2, <2>3, <2>4 DEF PlaceTo
  <2> QED BY <2>5
<1>6. CASE Place /\ ~Goes("core", Idle)
  <2>1. PICK t : Goes("core", t) /\ t = [proc["core"] EXCEPT !.pc = "record", !.next = "down"]
    BY <1>6 DEF Place
  <2>2. t.pc = "record" /\ t.hand = NoKey /\ t.next = "down"
    BY <1>0, <1>1, <2>1 DEF Task
  <2>3. PlaceTo(t)
    BY <1>1, <2>1, <2>2 DEF PlaceTo
  <2> QED BY <2>3
<1> QED BY <1>3, <1>4, <1>5, <1>6 DEF Unslot

\* Every step is one of these to the task that takes it.
Moves(p, t) ==
  \/ Begin(p) /\ BeginTo(p, t)
  \/ Ladder(p) /\ LadderTo(p, t)
  \/ Resolve(p) /\ ResolveTo(p, t)
  \/ Vaulting(p) /\ VaultTo(p, t)
  \/ p = "core" /\ (Adopt \/ Import \/ RetireCommand) /\ CommandTo(t)
  \/ p = "core" /\ (Unslot \/ Install \/ Confirm \/ Place) /\ PlaceTo(t)
  \/ Stop(p) /\ t = Idle /\ Goes(p, t)

LEMMA StepMoves ==
  ASSUME CInv, [Next]_vars
  PROVE  \/ \E p \in Proc : \E t : Moves(p, t)
         \/ UNCHANGED proc /\ ((\E p \in Proc : Seal(p)) \/ ChainLoses \/ UNCHANGED vars)
<1>1. ASSUME NEW p \in Proc, Ladder(p) \/ Resolve(p) \/ Vaulting(p) \/ Stop(p)
      PROVE  \E t : Moves(p, t)
  BY <1>1, BeginTask, LadderTask, ResolveTask, VaultTask DEF Moves, Stop, Ladder
<1>2. Command => \E t : Moves("core", t)
  BY CommandTask, PlaceTask DEF Command, Moves
<1>3. "core" \in Proc
  BY DEF Proc
<1>4. CASE \E p \in Proc : Seal(p)
  BY <1>4 DEF Seal
<1>5. CASE ChainLoses \/ UNCHANGED vars
  BY <1>5 DEF ChainLoses, vars
<1> QED BY <1>1, <1>2, <1>3, <1>4, <1>5 DEF Next

LEMMA OneMoves ==
  ASSUME CInv, NEW p \in Proc, NEW t, Moves(p, t)
  PROVE  proc'[p] = t /\ \A q \in Proc : q # p => proc'[q] = proc[q]
<1>1. Goes(p, t)
  BY DEF Moves, BeginTo, LadderTo, ResolveTo, VaultTo, CommandTo, PlaceTo
<1> QED BY <1>1, GoesTo DEF CInv, TypeOK

LEMMA HandStep ==
  ASSUME CInv, [Next]_vars
  PROVE  HandInv'
<1>1. ASSUME NEW p \in Proc, NEW t, Moves(p, t) PROVE HandInv'
  <2>1. Goes(p, t)
    BY <1>1 DEF Moves, BeginTo, LadderTo, ResolveTo, VaultTo, CommandTo, PlaceTo
  <2>2. IF t.pc = "index" THEN t.hand \in vault'[t.into] ELSE t.hand = NoKey
    <3>1. CASE LadderTo(p, t)
      BY <3>1 DEF LadderTo, Same, CInv, HandInv, At
    <3>2. CASE BeginTo(p, t) \/ ResolveTo(p, t) \/ CommandTo(t) \/ PlaceTo(t)
      BY <3>2 DEF BeginTo, ResolveTo, CommandTo, PlaceTo
    <3>3. CASE VaultTo(p, t)
      <4>1. CASE FollowTo(proc[p], t)
        BY <4>1 DEF FollowTo
      <4>2. CASE ~FollowTo(proc[p], t)
        BY <3>3, <4>2 DEF VaultTo
      <4> QED BY <4>1, <4>2
    <3>4. CASE t = Idle
      BY <3>4 DEF Idle
    <3> QED BY <1>1, <3>1, <3>2, <3>3, <3>4 DEF Moves
  <2> QED BY <2>1, <2>2, HandByStep
<1>2. CASE UNCHANGED proc
  <2>1. HandInv /\ \A q \in Proc : proc[q].into \in {"file", "chain"}
    BY TaskFields DEF CInv, TypeOK
  <2> QED BY <1>2, <2>1, VaultGrows DEF HandInv, At
<1> QED BY <1>1, <1>2, StepMoves

LEMMA KnownStep ==
  ASSUME CInv, [Next]_vars
  PROVE  KnownInv'
<1>0. KnownInv /\ Safe \subseteq Safe'
  BY SafeStep DEF CInv
<1>1. ASSUME NEW p \in Proc, NEW t, Moves(p, t) PROVE KnownInv'
  <2>1. proc'[p] = t /\ \A q \in Proc : q # p => proc'[q] = proc[q]
    BY <1>1, OneMoves
  <2>2. /\ Known(t) => t.key \in Safe'
        /\ t.pc \in {"store", "verify", "publish"} => t.key \in Key
    <3>1. CASE BeginTo(p, t)
      BY <3>1 DEF BeginTo, Known
    <3>2. CASE LadderTo(p, t)
      <4>1. Placed' \cap Key \subseteq Safe'
        BY DEF Placed, Safe, Held
      <4> QED BY <3>2, <4>1 DEF LadderTo, Known
    <3>3. CASE ResolveTo(p, t)
      BY <1>0, <3>3 DEF ResolveTo, Known
    <3>4. CASE VaultTo(p, t)
      <4>1. CASE FollowTo(proc[p], t)
        <5>1. Known(t) => Known(proc[p]) /\ t.key = proc[p].key
          BY <3>4, <4>1 DEF FollowTo, VaultTo, Known
        <5>2. t.pc \notin {"store", "verify", "publish"}
          BY <4>1 DEF FollowTo
        <5> QED BY <1>0, <5>1, <5>2 DEF KnownInv
      <4>2. CASE ~FollowTo(proc[p], t)
        <5>1. Known(t) => Known(proc[p]) /\ t.key = proc[p].key
          BY <3>4, <4>2 DEF VaultTo, Kept, Known
        <5>2. t.pc \notin {"store", "verify", "publish"}
          BY <3>4, <4>2 DEF VaultTo
        <5> QED BY <1>0, <5>1, <5>2 DEF KnownInv
      <4> QED BY <4>1, <4>2
    <3>5. CASE CommandTo(t)
      BY <3>5 DEF CommandTo, Known
    <3>6. CASE PlaceTo(t)
      BY <3>6 DEF PlaceTo, Known
    <3>7. CASE t = Idle
      BY <3>7 DEF Idle, Known
    <3> QED BY <1>1, <3>1, <3>2, <3>3, <3>4, <3>5, <3>6, <3>7 DEF Moves
  <2> QED BY <1>0, <2>1, <2>2 DEF KnownInv
<1>2. CASE UNCHANGED proc
  BY <1>0, <1>2 DEF KnownInv, Known
<1> QED BY <1>1, <1>2, StepMoves

LEMMA NodeAlone ==
  ASSUME CInv, NEW t, Moves("node", t)
  PROVE  /\ ~Commanding
         /\ t.pc \notin {"install", "confirm", "place", "unslot", "record"}
         /\ t.pc \in {"retire", "index"} => t.next = "serving"
<1>0. AloneInv
  BY DEF CInv
<1>1. At("node", "down") => Begin("node")
  BY DEF Moves, LadderTo, ResolveTo, VaultTo, Stop, At
<1>2. ~Commanding
  BY <1>0, <1>1 DEF AloneInv, Begin
<1>3. CASE BeginTo("node", t) \/ LadderTo("node", t) \/ ResolveTo("node", t)
  BY <1>2, <1>3 DEF BeginTo, LadderTo, ResolveTo
<1>4. CASE VaultTo("node", t)
  <2>1. proc["node"].pc \in {"retire", "index"} /\ proc["node"].next = "serving"
    BY <1>0, <1>4 DEF AloneInv, VaultTo
  <2> QED BY <1>2, <1>4, <2>1 DEF VaultTo, FollowTo, Kept
<1>5. CASE t = Idle
  BY <1>2, <1>5 DEF Idle
<1> QED BY <1>3, <1>4, <1>5 DEF Moves

LEMMA AloneStep ==
  ASSUME CInv, [Next]_vars
  PROVE  AloneInv'
<1>0. AloneInv /\ {"core", "node"} = Proc
  BY DEF CInv, Proc
<1>1. ASSUME NEW t, Moves("node", t) PROVE AloneInv'
  <2>1. proc'["node"] = t /\ proc'["core"] = proc["core"]
    BY <1>0, <1>1, OneMoves
  <2> QED BY <1>0, <1>1, <2>1, NodeAlone DEF AloneInv, Commanding
<1>2. ASSUME NEW t, Moves("core", t) PROVE AloneInv'
  <2>1. proc'["core"] = t /\ proc'["node"] = proc["node"]
    BY <1>0, <1>2, OneMoves
  <2> DEFINE Commanded(s) == \/ s.pc \in {"install", "confirm", "place", "unslot"}
                             \/ s.pc \in {"retire", "index", "record"} /\ s.next \notin {"serving", "record"}
  <2>2. (Commanded(t) => Commanded(proc["core"]) \/ AllDown) /\ (t.pc = "record" => t.next \in {"down", "serving"})
    <3>1. CASE BeginTo("core", t) \/ LadderTo("core", t) \/ ResolveTo("core", t)
      BY <3>1 DEF BeginTo, LadderTo, ResolveTo
    <3>2. CASE VaultTo("core", t)
      BY <3>2 DEF VaultTo, FollowTo, Kept
    <3>3. CASE CommandTo(t)
      BY <3>3 DEF CommandTo
    <3>4. CASE PlaceTo(t)
      BY <3>4 DEF PlaceTo
    <3>5. CASE t = Idle
      BY <3>5 DEF Idle
    <3> QED BY <1>2, <3>1, <3>2, <3>3, <3>4, <3>5 DEF Moves
  <2> QED BY <1>0, <2>1, <2>2 DEF AloneInv, Commanding, AllDown, At
<1>3. CASE UNCHANGED proc
  BY <1>0, <1>3 DEF AloneInv, Commanding, At
<1> QED BY <1>0, <1>1, <1>2, <1>3, StepMoves

LEMMA VaultingFrame ==
  ASSUME NEW p \in Proc, Vaulting(p)
  PROVE  /\ UNCHANGED <<slot, master, legacy>>
         /\ proc[p].pc # "record" => UNCHANGED record
         /\ proc[p].pc = "record" => record' = proc[p].key
         /\ proc[p].pc # "index" => Retired' = Retired
BY DEF Vaulting, Retire, Index, AllRetired, Record, VaultFrame, Files, Vault, At, Retired

LEMMA CommandStep ==
  ASSUME CInv, [Next]_vars
  PROVE  CommandInv'
<1>0. AloneInv /\ HandInv /\ CommandInv /\ {"core", "node"} = Proc
  BY DEF CInv, Proc
<1>1. ~Commanding' => CommandInv'
  BY DEF CommandInv, Commanding, Towards
<1>2. ASSUME NEW t, Moves("node", t) PROVE CommandInv'
  <2>1. proc'["core"] = proc["core"]
    BY <1>0, <1>2, OneMoves
  <2> QED BY <1>1, <1>2, <2>1, NodeAlone DEF Commanding
<1>3. ASSUME NEW t, Moves("core", t) PROVE CommandInv'
  <2>1. proc'["core"] = t
    BY <1>0, <1>3, OneMoves
  <2>2. CASE BeginTo("core", t) \/ LadderTo("core", t) \/ ResolveTo("core", t) \/ t = Idle
    <3>1. ~Commanding'
      BY <2>1, <2>2 DEF Commanding, BeginTo, LadderTo, ResolveTo, Idle
    <3> QED BY <1>1, <3>1
  <2>3. CASE Vaulting("core") /\ VaultTo("core", t)
    <3>1. UNCHANGED <<slot, master, legacy>> /\ (proc["core"].pc # "record" => UNCHANGED record)
      BY <1>0, <2>3, VaultingFrame
    <3>2. CASE FollowTo(proc["core"], t)
      <4>1. CASE t.pc \notin {"install", "unslot"}
        <5>1. ~Commanding'
          BY <2>1, <3>2, <4>1 DEF FollowTo, Commanding
        <5> QED BY <1>1, <5>1
      <4>2. CASE t.pc \in {"install", "unslot"}
        <5>1. proc["core"].pc = "retire"
          BY <1>0, <2>3, <3>2, <4>2 DEF FollowTo, VaultTo, AloneInv, Kept
        <5>2. proc["core"].todo = {} /\ proc["core"].hand = NoKey
          BY <2>3, <3>2, <4>2, <5>1 DEF VaultTo
        <5>3. t.pc = proc["core"].next /\ t.key = proc["core"].key /\ t.chain = proc["core"].chain /\ t.todo = {}
          BY <3>2, <4>2, <5>2 DEF FollowTo
        <5>4. \A k \in Key : Covered(proc["core"], k) => k \in {t.key} \cup Retired'
          BY <1>0, <2>3, <5>1, <5>2, <5>3, VaultingFrame DEF Covered
        <5> QED BY <1>0, <2>1, <3>1, <4>2, <5>1, <5>3, <5>4 DEF CommandInv, Towards, Covered
      <4> QED BY <4>1, <4>2
    <3>3. CASE ~FollowTo(proc["core"], t)
      <4>1. /\ Kept(t, proc["core"]) /\ proc["core"].pc \in {"retire", "index"} /\ t.pc \in {"retire", "index"}
            /\ Commanding => \A k \in Key : Covered(proc["core"], k) => k \in {t.key, t.hand} \cup t.todo \cup Retired'
        BY <2>3, <3>3 DEF VaultTo, Mine
      <4>2. CASE ~Commanding
        <5>1. ~Commanding'
          BY <2>1, <4>1, <4>2 DEF Commanding, Kept
        <5> QED BY <1>1, <5>1
      <4>3. CASE Commanding
        BY <1>0, <2>1, <3>1, <4>1, <4>3 DEF CommandInv, Towards, Covered, Kept
      <4> QED BY <4>2, <4>3
    <3> QED BY <3>2, <3>3
  <2>4. CASE CommandTo(t)
    <3>1. UNCHANGED <<slot, master, legacy, record>> /\ Retired' = Retired
      BY <2>4 DEF CommandTo, Files, Retired
    <3> QED BY <2>1, <2>4, <3>1 DEF CommandTo, CommandInv, Towards, Covered
  <2>5. CASE PlaceTo(t)
    <3>1. CASE t.pc \in {"confirm", "place"}
      <4>1. /\ proc["core"].pc \in {"install", "confirm"} /\ UNCHANGED <<master, record, index>>
            /\ t.key = proc["core"].key /\ t.todo = proc["core"].todo /\ t.hand = NoKey
        BY <2>5, <3>1 DEF PlaceTo
      <4>2. proc["core"].hand = NoKey /\ Retired' = Retired
        BY <1>0, <4>1 DEF HandInv, At, Retired
      <4> QED BY <1>0, <2>1, <3>1, <4>1, <4>2 DEF CommandInv, Towards, Covered
    <3>2. CASE t.pc \notin {"confirm", "place"}
      BY <2>1, <2>5, <3>2 DEF PlaceTo, CommandInv, Towards
    <3> QED BY <3>1, <3>2
  <2> QED BY <1>3, <2>2, <2>3, <2>4, <2>5 DEF Moves
<1>4. CASE UNCHANGED proc /\ ((\E p \in Proc : Seal(p)) \/ ChainLoses \/ UNCHANGED vars)
  <2>1. UNCHANGED <<proc, master, legacy, record, index>> /\ (slot' = slot \/ slot' \notin Key)
    BY <1>4 DEF Seal, ChainLoses, vars, Files, Vault
  <2>2. Retired' = Retired
    BY <2>1 DEF Retired
  <2> QED BY <1>0, <2>1, <2>2 DEF CommandInv, Towards, Covered
<1> QED BY <1>0, <1>2, <1>3, <1>4, StepMoves

LEMMA PlacedGrows ==
  ASSUME CInv, [Next]_vars, ~(Unslot \/ Install \/ Place)
  PROVE  Placed \cap Key \subseteq Placed'
<1> USE DEF Files, Placed
<1>1. ASSUME NEW p \in Proc, Begin(p) \/ FoundInFile(p) \/ AdoptExisting(p) \/ Generate(p) \/ LadderRefuses(p)
      PROVE  Placed \cap Key \subseteq Placed'
  BY <1>1 DEF Begin, FoundInFile, AdoptExisting, Generate, LadderRefuses
<1>2. ASSUME NEW p \in Proc, FoundInChain(p) \/ Verify(p) PROVE Placed \cap Key \subseteq Placed'
  BY <1>2 DEF FoundInChain, Verify, RetireMatchingLegacy
<1>3. ASSUME NEW p \in Proc, Store(p) PROVE Placed \cap Key \subseteq Placed'
  <2>1. UNCHANGED <<master, legacy>> /\ (\/ UNCHANGED <<slot, gone>>
                                        \/ /\ slot' = proc[p].key
                                           /\ gone' = gone \cup ({slot} \cap (Key \ {proc[p].key})))
    BY <1>3 DEF Store
  <2> QED BY <2>1
<1>4. ASSUME NEW p \in Proc, Publish(p) PROVE Placed \cap Key \subseteq Placed'
  <2>1. UNCHANGED <<slot, legacy, gone>> /\ (master = NoKey \/ master' = master)
    BY <1>4 DEF Publish
  <2> QED BY <2>1
<1>5. ASSUME NEW p \in Proc, Resolve(p) \/ Vaulting(p) \/ Seal(p) \/ Stop(p)
      PROVE  Placed \cap Key \subseteq Placed'
  <2>1. UNCHANGED <<slot, master, legacy, gone>>
    BY <1>5 DEF Resolve, Refused, Matches, Mismatch, Unrecorded, ResolveFrame, Vaulting, Retire, Index,
                AllRetired, Record, VaultFrame, Seal, Stop
  <2> QED BY <2>1
<1>6. CASE Adopt \/ Import \/ RetireCommand \/ Confirm \/ UNCHANGED vars
  <2>1. UNCHANGED <<slot, master, legacy, gone>>
    BY <1>6 DEF Adopt, Import, RetireCommand, CommandFrame, Confirm, InstallFrame, vars
  <2> QED BY <2>1
<1>7. CASE ChainLoses
  BY <1>7 DEF ChainLoses
<1> QED BY <1>1, <1>2, <1>3, <1>4, <1>5, <1>6, <1>7 DEF Next, Ladder, Command

\* What is placed stays so for a task that is not a command's.
LEMMA PlacedStays ==
  ASSUME CInv, [Next]_vars, NEW p \in Proc, ~Mine(p), ~At(p, "down")
  PROVE  Placed \cap Key \subseteq Placed'
<1>1. AloneInv /\ p \in {"core", "node"}
  BY DEF CInv, Proc
<1>2. Unslot \/ Install \/ Place => Commanding
  BY DEF Unslot, Install, Place, Commanding, At
<1>3. ~Commanding
  BY <1>1 DEF AloneInv, Mine
<1> QED BY <1>2, <1>3, PlacedGrows

\* The other task keeps its nature.
LEMMA MineStays ==
  ASSUME NEW p \in Proc, proc'[p] = proc[p]
  PROVE  Mine(p)' <=> Mine(p)
BY DEF Mine, Commanding

LEMMA FoundStep ==
  ASSUME CInv, [Next]_vars
  PROVE  FoundInv'
<1>0. FoundInv /\ AloneInv /\ TypeOK
  BY DEF CInv
<1>1. ASSUME NEW p \in Proc, proc'[p] = proc[p], ~Mine(p)'
      PROVE  /\ At(p, "compare")' /\ proc'[p].source # "env" => proc'[p].key \in Placed'
             /\ proc'[p].pc \in {"retire", "index"} =>
                  proc'[p].todo \cup ({proc'[p].hand} \cap Key) \subseteq Placed'
  <2>1. ~Mine(p)
    BY <1>1, MineStays
  <2>2. proc[p] \in Task
    BY <1>0 DEF TypeOK
  <2>3. proc[p].pc \in {"compare", "retire", "index"} => Placed \cap Key \subseteq Placed'
    BY <2>1, PlacedStays DEF At
  <2>4. At(p, "compare") => proc[p].key \in Key
    BY <1>0, SafeKeys DEF CInv, KnownInv, Known, At
  <2>5. proc[p].todo \subseteq Key
    BY <2>2, TaskFields
  <2> QED BY <1>0, <1>1, <2>1, <2>3, <2>4, <2>5 DEF FoundInv, At
<1>2. ASSUME NEW p \in Proc, NEW t, Moves(p, t), proc'[p] = t, ~Mine(p)'
      PROVE  /\ t.pc = "compare" /\ t.source # "env" => t.key \in Placed'
             /\ t.pc \in {"retire", "index"} => t.todo \cup ({t.hand} \cap Key) \subseteq Placed'
  <2>1. CASE BeginTo(p, t)
    BY <2>1 DEF BeginTo
  <2>2. CASE LadderTo(p, t)
    BY <2>2 DEF LadderTo
  <2>3. CASE Resolve(p) /\ ResolveTo(p, t)
    <3>1. UNCHANGED <<slot, master, legacy, gone>>
      BY <2>3 DEF Resolve, Refused, Matches, Mismatch, Unrecorded, ResolveFrame, Files
    <3>2. ~Mine(p)
      BY <2>3 DEF ResolveTo, Mine, Commanding
    <3>3. t.pc = "retire" => t.todo = {proc[p].key} /\ proc[p].key \in Placed
      BY <1>0, <2>3, <3>2 DEF ResolveTo, FoundInv
    <3>4. t.hand = NoKey /\ t.pc \notin {"compare", "index"}
      BY <2>3 DEF ResolveTo
    <3> QED BY <3>1, <3>3, <3>4 DEF Placed
  <2>4. CASE Vaulting(p) /\ VaultTo(p, t)
    <3>1. UNCHANGED <<slot, master, legacy, gone>>
      BY <2>4 DEF Vaulting, Retire, Index, AllRetired, Record, VaultFrame, Files
    <3>2. CASE FollowTo(proc[p], t)
      BY <3>2 DEF FollowTo
    <3>3. CASE ~FollowTo(proc[p], t)
      <4>1. /\ t.next = proc[p].next /\ proc[p].pc \in {"retire", "index"} /\ t.pc \in {"retire", "index"}
            /\ t.todo \cup ({t.hand} \cap Key) \subseteq proc[p].todo
        BY <2>4, <3>3 DEF VaultTo, Kept
      <4>2. ~Mine(p)
        BY <1>2, <4>1 DEF Mine, Commanding
      <4> QED BY <1>0, <3>1, <4>1, <4>2 DEF FoundInv, Placed
    <3> QED BY <3>2, <3>3
  <2>5. CASE p = "core" /\ CommandTo(t)
    BY <1>2, <2>5 DEF CommandTo, Mine, Commanding
  <2>6. CASE PlaceTo(t)
    BY <2>6 DEF PlaceTo
  <2>7. CASE t = Idle
    BY <2>7 DEF Idle
  <2> QED BY <1>2, <2>1, <2>2, <2>3, <2>4, <2>5, <2>6, <2>7 DEF Moves
<1>3. ASSUME NEW p \in Proc, NEW t, Moves(p, t) PROVE FoundInv'
  <2>1. proc'[p] = t /\ \A q \in Proc : q # p => proc'[q] = proc[q]
    BY <1>3, OneMoves
  <2> QED BY <1>1, <1>2, <1>3, <2>1 DEF FoundInv, At
<1>4. CASE UNCHANGED proc
  BY <1>1, <1>4 DEF FoundInv, At
<1> QED BY <1>3, <1>4, StepMoves

LEMMA ReadStep ==
  ASSUME CInv, [Next]_vars
  PROVE  ReadInv'
<1>0. /\ ReadInv /\ FoundInv /\ AloneInv /\ TypeOK /\ {"core", "node"} = Proc
      /\ \A p \in Proc : proc[p] \in Task
  BY DEF CInv, TypeOK, Proc
<1> DEFINE ReadOf(t) ==
      \A k \in Key : /\ t.read[k] = "file" => k \in vault'.file
                     /\ t.read[k] = "chain" => k \in vault'.chain
                     /\ k \notin Placed' => (t.read[k] = "no" <=> index'[k] = "no")
\* The task that comes to write the index has just read it.
<1>1. ASSUME NEW p \in Proc, NEW t, Moves(p, t), t.pc = "index"
      PROVE  ReadOf(t) /\ t.read = index'
  <2>1. VaultTo(p, t)
    BY <1>1 DEF Moves, BeginTo, LadderTo, ResolveTo, CommandTo, PlaceTo, Idle
  <2>2. t.read = index'
    BY <1>1, <2>1 DEF VaultTo, FollowTo
  <2> QED BY <2>2, VaultStep DEF VaultInv
\* No step of the other task makes it wrong.
<1>2. ASSUME NEW p \in Proc, At(p, "index"), proc'[p] = proc[p], ~Mine(p)
      PROVE  ReadOf(proc[p])
  <2>1. Placed \cap Key \subseteq Placed' /\ vault.file \subseteq vault'.file /\ vault.chain \subseteq vault'.chain
    BY <1>2, PlacedStays, VaultGrows DEF At
  <2>2. ASSUME NEW k \in Key, k \notin Placed PROVE index'[k] = "no" <=> index[k] = "no"
    <3>1. ASSUME NEW q \in Proc, Index(q) PROVE index'[k] = "no" <=> index[k] = "no"
      <4>1. At(q, "index") /\ index' = [proc[q].read EXCEPT ![proc[q].hand] = proc[q].into]
        BY <3>1 DEF Index
      <4>2. ~Mine(q)
        BY <1>0, <1>2, <4>1 DEF AloneInv, Mine, At
      <4>3. k # proc[q].hand
        BY <1>0, <2>2, <4>1, <4>2 DEF FoundInv, At
      <4>4. proc[q].read \in [Key -> {"no", "file", "chain"}]
        BY <1>0, TaskFields
      <4>5. index'[k] = proc[q].read[k]
        BY <4>1, <4>3, <4>4
      <4> QED BY <1>0, <2>2, <4>1, <4>5 DEF ReadInv
    <3>2. ASSUME NEW q \in Proc, Retire(q) PROVE index' = index
      BY <3>2 DEF Retire
    <3> QED BY <3>1, <3>2, VaultUntouched DEF Vault
  <2> QED BY <1>0, <1>2, <2>1, <2>2 DEF ReadInv
<1>3. ASSUME NEW p \in Proc, NEW t, Moves(p, t) PROVE ReadInv'
  <2>1. proc'[p] = t /\ \A q \in Proc : q # p => proc'[q] = proc[q]
    BY <1>3, OneMoves
  <2>2. \A q \in Proc : q # p => ~Mine(q)
    BY <1>0, <1>3, NodeAlone DEF Mine
  <2>3. ASSUME NEW q \in Proc, At(q, "index")' PROVE ReadOf(proc'[q])
    <3>1. CASE q = p
      BY <1>1, <1>3, <2>1, <2>3, <3>1 DEF At
    <3>2. CASE q # p
      BY <1>2, <2>1, <2>2, <2>3, <3>2 DEF At
    <3> QED BY <3>1, <3>2
  <2>4. ASSUME Commanding', At("core", "index")' PROVE proc'["core"].read = index'
    <3>1. p = "core"
      BY <1>0, <2>1, <2>2, <2>4, MineStays DEF Mine
    <3> QED BY <1>1, <1>3, <2>1, <2>4, <3>1 DEF At
  <2> QED BY <2>3, <2>4 DEF ReadInv
<1>4. CASE UNCHANGED proc /\ ((\E p \in Proc : Seal(p)) \/ ChainLoses \/ UNCHANGED vars)
  <2>1. index' = index
    BY <1>4 DEF Seal, ChainLoses, vars, Vault
  <2>2. Commanding' <=> Commanding
    BY <1>4 DEF Commanding
  <2>3. ASSUME NEW p \in Proc, At(p, "index") PROVE ReadOf(proc[p])
    <3>1. CASE ~Mine(p)
      BY <1>2, <1>4, <2>3, <3>1
    <3>2. CASE Mine(p)
      <4>1. proc[p].read = index'
        BY <1>0, <2>1, <2>3, <3>2 DEF ReadInv, Mine
      <4> QED BY <4>1, VaultStep DEF VaultInv
    <3> QED BY <3>1, <3>2
  <2> QED BY <1>0, <1>4, <2>1, <2>2, <2>3 DEF ReadInv, At
<1> QED BY <1>3, <1>4, StepMoves

LEMMA KeysStep ==
  ASSUME CInv, [Next]_vars
  PROVE  KeysKept'
<1>1. sealed \subseteq Safe
  BY DEF CInv, KeysKept, Safe
<1>2. Safe \subseteq Safe'
  BY SafeStep
<1>3. sealed' \subseteq Safe
  <2>1. ASSUME NEW p \in Proc, Seal(p) PROVE sealed' \subseteq Safe
    <3>1. proc[p].key \in Safe
      BY <2>1 DEF CInv, KnownInv, Known, Seal, At
    <3> QED BY <1>1, <2>1, <3>1 DEF Seal
  <2>2. ASSUME NEW p \in Proc, Ladder(p) PROVE sealed' = sealed
    BY <2>2 DEF Ladder, Begin, FoundInChain, FoundInFile, AdoptExisting, Generate, LadderRefuses, Store, Verify,
                Publish, LadderFrame
  <2>3. ASSUME NEW p \in Proc, Resolve(p) \/ Vaulting(p) \/ Stop(p) PROVE sealed' = sealed
    BY <2>3 DEF Resolve, Refused, Matches, Mismatch, Unrecorded, ResolveFrame, Vaulting, Retire, Index,
                AllRetired, VaultFrame, Record, Stop
  <2>4. CASE Command
    BY <1>1, <2>4 DEF Command, Adopt, Import, RetireCommand, CommandFrame, Unslot, Install, Confirm, Place, InstallFrame
  <2>5. CASE ChainLoses \/ UNCHANGED vars
    BY <1>1, <2>5 DEF ChainLoses, vars
  <2> QED BY <1>1, <2>1, <2>2, <2>3, <2>4, <2>5 DEF Next
<1> QED BY <1>2, <1>3 DEF KeysKept, Safe

\* The record moves only when it is written.
LEMMA RecordStays ==
  ASSUME NEW p \in Proc, Ladder(p) \/ Resolve(p) \/ Stop(p) \/ Command
  PROVE  record' = record
<1>1. CASE Ladder(p)
  BY <1>1 DEF Ladder, Begin, FoundInChain, FoundInFile, AdoptExisting, Generate, LadderRefuses, Store, Verify,
              Publish, LadderFrame
<1>2. CASE Resolve(p) \/ Stop(p)
  BY <1>2 DEF Resolve, Refused, Matches, Mismatch, Unrecorded, ResolveFrame, Stop
<1>3. CASE Command
  BY <1>3 DEF Command, Adopt, Import, RetireCommand, CommandFrame, Unslot, Install, Confirm, Place, InstallFrame
<1> QED BY <1>1, <1>2, <1>3

LEMMA RecordStep ==
  ASSUME CInv, RecordInv, [Next]_vars
  PROVE  RecordInv'
<1>0. AloneInv /\ {"core", "node"} = Proc
  BY DEF CInv, Proc
<1>1. ASSUME NEW t, Moves("core", t) PROVE RecordInv'
  <2>1. proc'["core"] = t /\ proc'["node"] = proc["node"]
    BY <1>0, <1>1, OneMoves
  <2>2. /\ t.pc \in {"ladder", "store", "verify", "publish", "refused", "compare"} => t.recorded = record'
        /\ Ready(t) => t.key = record'
    <3>1. CASE Vaulting("core") /\ VaultTo("core", t)
      <4>1. /\ proc["core"].pc # "record" => record' = record
            /\ proc["core"].pc = "record" => record' = proc["core"].key
        BY <1>0, <3>1, VaultingFrame
      <4>2. CASE FollowTo(proc["core"], t)
        BY <3>1, <4>1, <4>2 DEF FollowTo, VaultTo, RecordInv, Ready, Towards
      <4>3. CASE ~FollowTo(proc["core"], t)
        BY <3>1, <4>1, <4>3 DEF VaultTo, RecordInv, Ready, Towards, Kept
      <4> QED BY <4>2, <4>3
    <3>2. CASE ~(Vaulting("core") /\ VaultTo("core", t))
      <4>1. record' = record
        BY <1>0, <1>1, <3>2, RecordStays DEF Moves, Ladder, Command
      <4>2. CASE BeginTo("core", t)
        BY <4>1, <4>2 DEF BeginTo, Ready, Towards
      <4>3. CASE LadderTo("core", t)
        BY <4>1, <4>3 DEF LadderTo, Same, RecordInv, Ready, Towards
      <4>4. CASE ResolveTo("core", t)
        BY <4>1, <4>4 DEF ResolveTo, RecordInv, Ready, Towards
      <4>5. CASE CommandTo(t) \/ PlaceTo(t)
        BY <4>5 DEF CommandTo, PlaceTo, Ready, Towards
      <4>6. CASE t = Idle
        BY <4>6 DEF Idle, Ready, Towards
      <4> QED BY <1>1, <3>2, <4>2, <4>3, <4>4, <4>5, <4>6 DEF Moves
    <3> QED BY <3>1, <3>2
  <2> QED BY <2>1, <2>2 DEF RecordInv
<1>2. ASSUME NEW t, Moves("node", t) PROVE RecordInv'
  <2>1. proc'["node"] = t /\ proc'["core"] = proc["core"]
    BY <1>0, <1>2, OneMoves
  <2>2. Ready(t) /\ t.recorded # NoKey => t.key = t.recorded
    <3>1. CASE BeginTo("node", t) \/ LadderTo("node", t)
      BY <3>1 DEF BeginTo, LadderTo, Ready, Towards
    <3>2. CASE ResolveTo("node", t)
      BY <3>2 DEF ResolveTo, Ready, Towards
    <3>3. CASE VaultTo("node", t)
      <4>1. proc["node"].pc \in {"retire", "index"} /\ proc["node"].next = "serving"
        BY <1>0, <3>3 DEF AloneInv, VaultTo
      <4> QED BY <3>3, <4>1 DEF VaultTo, FollowTo, Kept, RecordInv, Ready, Towards
    <3>4. CASE t = Idle
      BY <3>4 DEF Idle, Ready, Towards
    <3> QED BY <1>2, <3>1, <3>2, <3>3, <3>4 DEF Moves
  <2>3. record' = record
    <3>1. CASE Vaulting("node")
      <4>1. proc["node"].pc # "record"
        BY <1>0 DEF AloneInv
      <4> QED BY <1>0, <3>1, <4>1, VaultingFrame
    <3>2. CASE ~Vaulting("node")
      BY <1>0, <1>2, <3>2, RecordStays DEF Moves, Ladder
    <3> QED BY <3>1, <3>2
  <2> QED BY <2>1, <2>2, <2>3 DEF RecordInv
<1>3. CASE UNCHANGED proc /\ ((\E p \in Proc : Seal(p)) \/ ChainLoses \/ UNCHANGED vars)
  BY <1>3 DEF Seal, ChainLoses, vars, RecordInv
<1> QED BY <1>0, <1>1, <1>2, <1>3, StepMoves

-----------------------------------------------------------------------------
(* The theorems.                                                           *)

LEMMA InitCustody == Init => CInv /\ RecordInv
<1> SUFFICES ASSUME Init PROVE CInv /\ RecordInv
  OBVIOUS
<1>1. TypeOK
  BY InitType
<1>2. \A p \in Proc : proc[p] = Idle
  BY DEF Init
<1>3. Idle.pc = "down" /\ Idle.hand = NoKey /\ Idle.next = "down"
  BY DEF Idle
<1>4. VaultInv
  BY DEF Init, NoEntry, VaultInv
<1>5. HandInv /\ KnownInv /\ AloneInv /\ CommandInv /\ RecordInv
  BY <1>2, <1>3 DEF HandInv, KnownInv, Known, AloneInv, Commanding, CommandInv, RecordInv, Ready, Towards, At, Proc
<1>7. FoundInv /\ ReadInv
  BY <1>2, <1>3 DEF FoundInv, ReadInv, At, Proc
<1>6. KeysKept
  BY <1>1 DEF Init, KeysKept, Held, TypeOK
<1> QED BY <1>1, <1>4, <1>5, <1>6, <1>7 DEF CInv

\* The invariant of custody, whatever is interrupted, lost or commanded (custody.rs, lib.rs).
THEOREM CustodyInvariant == Spec => [](CInv /\ RecordInv)
<1>1. CInv /\ RecordInv /\ [Next]_vars => CInv' /\ RecordInv'
  <2> SUFFICES ASSUME CInv, RecordInv, [Next]_vars PROVE CInv' /\ RecordInv'
    OBVIOUS
  <2>1. TypeOK'
    BY TypeStep DEF CInv
  <2>2. VaultInv' /\ HandInv' /\ KnownInv' /\ AloneInv' /\ CommandInv'
    BY VaultStep, HandStep, KnownStep, AloneStep, CommandStep
  <2>3. FoundInv' /\ ReadInv' /\ KeysKept'
    BY FoundStep, ReadStep, KeysStep
  <2> QED BY <2>1, <2>2, <2>3, RecordStep DEF CInv
<1> QED BY <1>1, InitCustody, PTL DEF Spec

\* Every variable of custody stays in its type.
THEOREM CustodyTypeCorrect == Spec => []TypeOK
<1>1. CInv => TypeOK
  BY DEF CInv
<1> QED BY <1>1, CustodyInvariant, PTL

\* Each key under which the folder holds data is where a start finds it, unless the
\* keychain lost it, it went unread or the operator brought it (resolve, install_current,
\* retire_with).
THEOREM KeysAreKept == Spec => []KeysKept
<1>1. CInv => KeysKept
  BY DEF CInv
<1> QED BY <1>1, CustodyInvariant, PTL

\* Core serves under the key on record, and another process under the key that was on
\* record when it began (resolve).
THEOREM ServesRecord == Spec => []ServesTheRecord
<1>1. RecordInv => ServesTheRecord
  BY DEF RecordInv, ServesTheRecord, Ready, At, Proc
<1> QED BY <1>1, CustodyInvariant, PTL
=============================================================================
