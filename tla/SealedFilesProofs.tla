-------------------------- MODULE SealedFilesProofs --------------------------
(***************************************************************************)
(* Proofs about the parts of the crypto crate that MCSealedFiles checks:   *)
(* ScopedKeys for every number of master keys, plugins, tenants, records,  *)
(* processes and threads, and AppKey for every number of keys, threads,    *)
(* starts and losses; SealedFile for every length of plaintext and chunks; *)
(* SealedLog for every number of records and faults; VectorIndex for every *)
(* number of indexes, partitions, vectors and bytes.  ScopedInv, AppInv,   *)
(* FileInv, LogInv and IndexSound are the inductive invariants.            *)
(***************************************************************************)
EXTENDS SealedFileParts, Integers, Sequences, SequenceTheorems, FiniteSetTheorems, WellFoundedInduction, TLAPS

\* A behaviour of the composition is one of each part, which mostly stutters.
LEMMA PartsAreTheirOwn == PartsSpec => File!Spec /\ Log!Spec /\ Scoped!Spec /\ Cache!Spec /\ App!Spec
<1>1. PartsInit => File!Init /\ Log!Init /\ Scoped!Init /\ Cache!Init /\ App!Init
  BY DEF PartsInit
<1>2. [PartsNext]_PartVars => [Scoped!Next]_Scoped!vars
  BY DEF PartsNext, PartVars, KeyVars, Scoped!vars
<1>3. [PartsNext]_PartVars => [App!Next]_App!vars
  BY DEF PartsNext, PartVars, AppVars, App!vars
<1>4. [PartsNext]_PartVars => [File!Next]_File!vars
  BY DEF PartsNext, PartVars, FileVars, File!vars
<1>5. [PartsNext]_PartVars => [Log!Next]_Log!vars
  BY DEF PartsNext, PartVars, LogVars, Log!vars
<1>6. [PartsNext]_PartVars => [Cache!Next]_(Cache!vars)
  BY DEF PartsNext, PartVars, CacheVars, Cache!vars, Cache!Next
<1> QED
  BY <1>1, <1>2, <1>3, <1>4, <1>5, <1>6, PTL
     DEF PartsSpec, File!Spec, Log!Spec, Scoped!Spec, Cache!Spec, App!Spec

-----------------------------------------------------------------------------
(* ScopedKeys.                                                             *)

LEMMA ScopedInit ==
  ASSUME Scoped!KeysAssumption, Scoped!Init
  PROVE  Scoped!ScopedInv
<1>1. (CHOOSE m \in Master : TRUE) \in Master
  BY DEF Scoped!KeysAssumption
<1>2. Scoped!KeysTypes
  <2>1. custody \in Scoped!Keys
    BY <1>1 DEF Scoped!Init, Scoped!Keys
  <2>2. core \in Scoped!Cells
    <3>1. /\ Absent \in (SUBSET Master) \cup {Absent} /\ Absent \in Master \cup {Absent}
          /\ Absent \in Scoped!Keys \cup {Absent} /\ FALSE \in BOOLEAN
      OBVIOUS
    <3> QED
      BY <3>1, Zenon DEF Scoped!Init, Scoped!Cells
  <2>3. thread \in [Thread -> Scoped!Threads]
    BY DEF Scoped!Init, Scoped!Threads, Scoped!Waiting
  <2>4. Scoped!NotRun \in Scoped!Process
    BY DEF Scoped!NotRun, Scoped!Process
  <2> QED
    BY <2>1, <2>2, <2>3, <2>4 DEF Scoped!KeysTypes, Scoped!Init
<1>3. Scoped!CoreInv
  BY DEF Scoped!CoreInv, Scoped!Init, Scoped!Waiting
<1>4. Scoped!ChildInv
  <2>1. Scoped!Proper(Scoped!NotRun)
    BY DEF Scoped!Proper, Scoped!NotRun
  <2> QED
    BY <2>1 DEF Scoped!ChildInv, Scoped!Init
<1>5. Scoped!StoredInv
  BY DEF Scoped!StoredInv, Scoped!Init
<1> QED
  BY <1>2, <1>3, <1>4, <1>5 DEF Scoped!ScopedInv

\* The cells and the threads of Core, when the rest stays.
LEMMA CellsGoOn ==
  ASSUME Scoped!ScopedInv, UNCHANGED <<custody, child, stored>>,
         core' \in Scoped!Cells, thread' \in [Thread -> Scoped!Threads], Scoped!CoreInv'
  PROVE  Scoped!ScopedInv'
<1>1. Scoped!ChildInv'
  BY DEF Scoped!ScopedInv, Scoped!ChildInv, Scoped!Proper, Scoped!Known
<1>2. Scoped!StoredInv'
  BY DEF Scoped!ScopedInv, Scoped!StoredInv, Scoped!Marked, Scoped!Known
<1> QED
  BY <1>1, <1>2 DEF Scoped!ScopedInv, Scoped!KeysTypes

LEMMA ChildrenGoOn ==
  ASSUME Scoped!ScopedInv, UNCHANGED <<custody, core, stored>>,
         thread' \in [Thread -> Scoped!Threads], child' \in [Child -> Scoped!Process],
         \A t \in Thread : thread'[t] = thread[t] \/ thread'[t] = Scoped!Waiting,
         Scoped!ChildInv'
  PROVE  Scoped!ScopedInv'
<1>1. Scoped!CoreInv'
  <2>1. Scoped!Waiting.pc = "idle"
    BY DEF Scoped!Waiting
  <2> QED
    BY <2>1 DEF Scoped!ScopedInv, Scoped!CoreInv
<1>2. Scoped!StoredInv'
  BY DEF Scoped!ScopedInv, Scoped!StoredInv, Scoped!Marked, Scoped!Known
<1> QED
  BY <1>1, <1>2 DEF Scoped!ScopedInv, Scoped!KeysTypes

\* The first value stays.
LEMMA CellKeeps ==
  ASSUME NEW cell, NEW value, cell \in {Absent, value}
  PROVE  Scoped!Keeps(cell, value) = value
BY DEF Scoped!Keeps

LEMMA CoreSteps ==
  ASSUME Scoped!KeysAssumption, Scoped!ScopedInv, NEW t \in Thread,
         \/ Scoped!Ask(t) \/ Scoped!Resolve(t) \/ Scoped!RecordRetired(t) \/ Scoped!RecordKey(t)
         \/ Scoped!RecordCipher(t) \/ Scoped!ReadCells(t)
  PROVE  Scoped!ScopedInv'
<1>1. /\ Scoped!KeysTypes /\ Scoped!CoreInv
      /\ core.up /\ UNCHANGED <<custody, child, stored>>
  BY DEF Scoped!ScopedInv, Scoped!Ask, Scoped!Resolve, Scoped!RecordRetired, Scoped!RecordKey,
         Scoped!RecordCipher, Scoped!ReadCells, Scoped!At
<1>2. /\ custody \in Scoped!Keys /\ custody.retired \in SUBSET Master /\ custody.key \in Master
      /\ custody # Absent /\ custody.retired # Absent /\ custody.key # Absent
  BY <1>1 DEF Scoped!KeysTypes, Scoped!Keys, Scoped!KeysAssumption
<1>3. /\ core = [up |-> core.up, retired |-> core.retired, key |-> core.key, cipher |-> core.cipher]
      /\ core \in Scoped!Cells
  BY <1>1 DEF Scoped!KeysTypes, Scoped!Cells
\* Only the place of the thread changes.
<1>4. ASSUME NEW pc \in {"idle", "resolve", "retired", "key", "cipher", "derive", "spawn"},
             NEW found \in Scoped!Keys \cup {Absent},
             thread' = [thread EXCEPT ![t] = [pc |-> pc, found |-> found]]
      PROVE  /\ thread' \in [Thread -> Scoped!Threads]
             /\ thread'[t].pc = pc /\ thread'[t].found = found
             /\ \A u \in Thread : u # t => thread'[u] = thread[u]
  BY <1>1, <1>4 DEF Scoped!KeysTypes, Scoped!Threads
<1>5. ASSUME NEW pc, Scoped!Goes(t, pc)
      PROVE  thread' = [thread EXCEPT ![t] = [pc |-> pc, found |-> thread[t].found]]
  <2>1. thread[t] = [pc |-> thread[t].pc, found |-> thread[t].found]
    BY <1>1 DEF Scoped!KeysTypes, Scoped!Threads
  <2>2. [thread[t] EXCEPT !.pc = pc] = [pc |-> pc, found |-> thread[t].found]
    BY <2>1
  <2>3. thread' = [thread EXCEPT ![t] = [thread[t] EXCEPT !.pc = pc]]
    BY <1>5 DEF Scoped!Goes
  <2> QED
    BY <2>2, <2>3
<1>6. thread[t].found \in Scoped!Keys \cup {Absent}
  BY <1>1 DEF Scoped!KeysTypes, Scoped!Threads
<1>7. CASE Scoped!Ask(t)
  <2>1. PICK pc \in {"derive", "resolve"} : Scoped!Goes(t, pc) /\ (pc = "derive" => core.cipher # Absent)
    BY <1>7 DEF Scoped!Ask
  <2>2. core' = core
    BY <1>7 DEF Scoped!Ask
  <2>3. thread' \in [Thread -> Scoped!Threads] /\ thread'[t].pc = pc
        /\ \A u \in Thread : u # t => thread'[u] = thread[u]
    BY <1>4, <1>5, <1>6, <2>1
  <2>4. Scoped!CoreInv'
    BY <1>1, <2>1, <2>2, <2>3 DEF Scoped!CoreInv
  <2> QED
    BY <1>1, <1>3, <2>2, <2>3, <2>4, CellsGoOn
<1>8. CASE Scoped!Resolve(t)
  <2>1. core' = core
    BY <1>8 DEF Scoped!Resolve
  <2>2. PICK pc \in {"retired", "idle"}, found \in Scoped!Keys \cup {Absent} :
          /\ thread' = [thread EXCEPT ![t] = [pc |-> pc, found |-> found]]
          /\ pc = "retired" => found = custody
    BY <1>2, <1>5, <1>6, <1>8 DEF Scoped!Resolve
  <2>3. thread' \in [Thread -> Scoped!Threads] /\ thread'[t].pc = pc /\ thread'[t].found = found
        /\ \A u \in Thread : u # t => thread'[u] = thread[u]
    BY <1>4, <2>2
  <2>4. Scoped!CoreInv'
    BY <1>1, <2>1, <2>2, <2>3 DEF Scoped!CoreInv
  <2> QED
    BY <1>1, <1>3, <2>1, <2>3, <2>4, CellsGoOn
<1>9. CASE Scoped!RecordRetired(t)
  <2>1. thread[t].found = custody /\ thread[t].pc = "retired"
    BY <1>1, <1>9 DEF Scoped!RecordRetired, Scoped!At, Scoped!CoreInv
  <2>2. core' = [core EXCEPT !.retired = custody.retired]
    BY <1>1, <1>9, <2>1, CellKeeps DEF Scoped!RecordRetired, Scoped!CoreInv
  <2>3. /\ core'.up = core.up /\ core'.retired = custody.retired /\ core'.key = core.key
        /\ core'.cipher = core.cipher /\ core' \in Scoped!Cells
    BY <1>2, <1>3, <2>2 DEF Scoped!Cells
  <2>4. thread' \in [Thread -> Scoped!Threads] /\ thread'[t].pc = "key" /\ thread'[t].found = custody
        /\ \A u \in Thread : u # t => thread'[u] = thread[u]
    BY <1>4, <1>5, <1>6, <1>9, <2>1 DEF Scoped!RecordRetired
  <2>5. Scoped!CoreInv'
    BY <1>1, <1>2, <2>3, <2>4 DEF Scoped!CoreInv
  <2> QED
    BY <1>1, <2>3, <2>4, <2>5, CellsGoOn
<1>10. CASE Scoped!RecordKey(t)
  <2>1. thread[t].found = custody /\ thread[t].pc = "key" /\ core.retired # Absent
    BY <1>1, <1>10 DEF Scoped!RecordKey, Scoped!At, Scoped!CoreInv
  <2>2. core' = [core EXCEPT !.key = custody.key]
    BY <1>1, <1>10, <2>1, CellKeeps DEF Scoped!RecordKey, Scoped!CoreInv
  <2>3. /\ core'.up = core.up /\ core'.retired = core.retired /\ core'.key = custody.key
        /\ core'.cipher = core.cipher /\ core' \in Scoped!Cells
    BY <1>2, <1>3, <2>2 DEF Scoped!Cells
  <2>4. thread' \in [Thread -> Scoped!Threads] /\ thread'[t].pc = "cipher" /\ thread'[t].found = custody
        /\ \A u \in Thread : u # t => thread'[u] = thread[u]
    BY <1>4, <1>5, <1>6, <1>10, <2>1 DEF Scoped!RecordKey
  <2>5. Scoped!CoreInv'
    BY <1>1, <1>2, <2>1, <2>3, <2>4 DEF Scoped!CoreInv
  <2> QED
    BY <1>1, <2>3, <2>4, <2>5, CellsGoOn
<1>11. CASE Scoped!RecordCipher(t)
  <2>1. thread[t].found = custody /\ thread[t].pc = "cipher" /\ core.key # Absent
    BY <1>1, <1>11 DEF Scoped!RecordCipher, Scoped!At, Scoped!CoreInv
  <2>2. core' = [core EXCEPT !.cipher = custody]
    BY <1>1, <1>11, <2>1, CellKeeps DEF Scoped!RecordCipher, Scoped!CoreInv
  <2>3. /\ core'.up = core.up /\ core'.retired = core.retired /\ core'.key = core.key
        /\ core'.cipher = custody /\ core' \in Scoped!Cells
    BY <1>2, <1>3, <2>2 DEF Scoped!Cells
  <2>4. thread' \in [Thread -> Scoped!Threads] /\ thread'[t].pc = "derive"
        /\ \A u \in Thread : u # t => thread'[u] = thread[u]
    BY <1>4, <1>5, <1>6, <1>11, <2>1 DEF Scoped!RecordCipher
  <2>5. Scoped!CoreInv'
    BY <1>1, <1>2, <2>1, <2>3, <2>4 DEF Scoped!CoreInv
  <2> QED
    BY <1>1, <2>3, <2>4, <2>5, CellsGoOn
<1>12. CASE Scoped!ReadCells(t)
  <2>1. core.key # Absent /\ core' = core
    BY <1>1, <1>12 DEF Scoped!ReadCells, Scoped!At, Scoped!CoreInv
  <2>2. [key |-> core.key, retired |-> core.retired] = custody /\ core.retired # Absent
    BY <1>1, <1>2, <2>1 DEF Scoped!CoreInv, Scoped!Keys
  <2>3. thread' = [thread EXCEPT ![t] = [pc |-> "spawn", found |-> custody]]
    BY <1>12, <2>1, <2>2 DEF Scoped!ReadCells
  <2>4. thread' \in [Thread -> Scoped!Threads] /\ thread'[t].pc = "spawn" /\ thread'[t].found = custody
        /\ \A u \in Thread : u # t => thread'[u] = thread[u]
    BY <1>2, <1>4, <2>3
  <2>5. Scoped!CoreInv'
    BY <1>1, <2>1, <2>4 DEF Scoped!CoreInv
  <2> QED
    BY <1>1, <1>3, <2>1, <2>4, <2>5, CellsGoOn
<1> QED
  BY <1>7, <1>8, <1>9, <1>10, <1>11, <1>12

\* The subkeys of one resolution, for one scope.
LEMMA EnvIs ==
  ASSUME NEW keys, NEW s \in Scoped!Scope, keys.key \in Master, keys.retired \in SUBSET Master
  PROVE  Scoped!ChildEnv(keys, s) \in Scoped!Delivery /\ Scoped!ChildEnv(keys, s).scope = s
BY DEF Scoped!ChildEnv, Scoped!Derive, Scoped!Delivery

LEMMA ChildChanges ==
  ASSUME Scoped!ScopedInv, UNCHANGED <<custody, core, stored>>,
         thread' \in [Thread -> Scoped!Threads],
         \A t \in Thread : thread'[t] = thread[t] \/ thread'[t] = Scoped!Waiting,
         NEW c \in Child, NEW k \in Scoped!Process, Scoped!Proper(k), child' = [child EXCEPT ![c] = k]
  PROVE  Scoped!ScopedInv'
<1>1. child' \in [Child -> Scoped!Process]
  BY DEF Scoped!ScopedInv, Scoped!KeysTypes
<1>2. \A d \in Child : child'[d] = IF d = c THEN k ELSE child[d]
  BY DEF Scoped!ScopedInv, Scoped!KeysTypes
<1>3. \A d \in Child : Scoped!Proper(child'[d])
  BY <1>2 DEF Scoped!ScopedInv, Scoped!ChildInv
<1>4. Scoped!ChildInv'
  BY <1>3 DEF Scoped!ChildInv, Scoped!Proper, Scoped!Known
<1> QED
  BY <1>1, <1>4, ChildrenGoOn

LEMMA SpawnStep ==
  ASSUME Scoped!KeysAssumption, Scoped!ScopedInv, NEW t \in Thread, NEW c \in Child,
         NEW s \in Scoped!Scope, Scoped!Spawn(t, c, s)
  PROVE  Scoped!ScopedInv'
<1>1. /\ custody \in Scoped!Keys /\ custody.key \in Master /\ custody.retired \in SUBSET Master
      /\ thread \in [Thread -> Scoped!Threads] /\ custody # Absent
  BY DEF Scoped!ScopedInv, Scoped!KeysTypes, Scoped!Keys, Scoped!KeysAssumption
<1>2. thread[t].found = custody
  BY DEF Scoped!ScopedInv, Scoped!CoreInv, Scoped!Spawn, Scoped!At
<1> DEFINE given == Scoped!ChildEnv(custody, s)
           k == [Scoped!NotRun EXCEPT !.alive = TRUE, !.scope = s, !.since = custody, !.env = given]
<1>3. given \in Scoped!Delivery /\ given.scope = s /\ given # Absent
  BY <1>1, EnvIs DEF Scoped!KeysAssumption
<1>4. child' = [child EXCEPT ![c] = k] /\ thread' = [thread EXCEPT ![t] = Scoped!Waiting]
      /\ UNCHANGED <<custody, core, stored>>
  BY <1>1, <1>2 DEF Scoped!Spawn
<1>5. Scoped!Waiting \in Scoped!Threads
  BY DEF Scoped!Waiting, Scoped!Threads
<1>6. thread' \in [Thread -> Scoped!Threads]
      /\ \A u \in Thread : thread'[u] = thread[u] \/ thread'[u] = Scoped!Waiting
  BY <1>1, <1>4, <1>5
<1> HIDE DEF given
<1>7. /\ k.alive = TRUE /\ k.scope = s /\ k.host = FALSE /\ k.operator = Absent /\ k.env = given
      /\ k.held = Absent /\ k.cipher = Absent /\ k.since = custody
  BY DEF Scoped!NotRun
<1>8. k \in Scoped!Process
  BY <1>1, <1>3 DEF Scoped!Process, Scoped!NotRun
<1>9. Scoped!Proper(k)
  <2>1. given = Scoped!ChildEnv(custody, given.scope)
    BY <1>3 DEF given
  <2> HIDE DEF k
  <2> QED
    BY <1>1, <1>7, <2>1 DEF Scoped!Proper, Scoped!Known
<1> HIDE DEF k
<1> QED
  BY <1>4, <1>6, <1>8, <1>9, ChildChanges

LEMMA StartStep ==
  ASSUME Scoped!KeysAssumption, Scoped!ScopedInv, NEW c \in Child, NEW s \in Scoped!Scope,
         NEW host \in BOOLEAN, Scoped!StartByHand(c, s, host)
  PROVE  Scoped!ScopedInv'
<1>1. /\ custody \in Scoped!Keys /\ custody.key \in Master /\ custody.retired \in SUBSET Master
      /\ thread \in [Thread -> Scoped!Threads]
  BY DEF Scoped!ScopedInv, Scoped!KeysTypes, Scoped!Keys, Scoped!KeysAssumption
<1> DEFINE operator == IF host THEN Absent ELSE custody.key
           k == [Scoped!NotRun EXCEPT !.alive = TRUE, !.scope = s, !.host = host, !.since = custody,
                                      !.operator = operator]
<1>2. child' = [child EXCEPT ![c] = k] /\ UNCHANGED <<custody, core, thread, stored>>
  BY DEF Scoped!StartByHand
<1>3. operator \in Master \cup {Absent} /\ (operator # Absent => ~host /\ operator = custody.key)
  BY <1>1
<1> HIDE DEF operator
<1>4. k \in Scoped!Process
  BY <1>1, <1>3 DEF Scoped!Process, Scoped!NotRun
<1>5. Scoped!Proper(k)
  <2>1. /\ k.alive = TRUE /\ k.scope = s /\ k.host = host /\ k.operator = operator /\ k.env = Absent
        /\ k.held = Absent /\ k.cipher = Absent /\ k.since = custody
    BY DEF Scoped!NotRun
  <2> HIDE DEF k
  <2> QED
    BY <1>1, <1>3, <2>1 DEF Scoped!Proper, Scoped!Known
<1> HIDE DEF k
<1> QED
  BY <1>1, <1>2, <1>4, <1>5, ChildChanges

LEMMA ForkStep ==
  ASSUME Scoped!KeysAssumption, Scoped!ScopedInv, NEW c \in Child, NEW d \in Child,
         NEW s \in Scoped!Scope, NEW scrub \in BOOLEAN, Scoped!Fork(c, d, s, scrub)
  PROVE  Scoped!ScopedInv'
<1>1. /\ thread \in [Thread -> Scoped!Threads] /\ child[c] \in Scoped!Process
      /\ Scoped!Proper(child[c]) /\ child[c].alive
  BY DEF Scoped!ScopedInv, Scoped!KeysTypes, Scoped!ChildInv, Scoped!Fork
<1> DEFINE given == IF scrub THEN Absent ELSE child[c].env
           operator == IF scrub THEN Absent ELSE child[c].operator
           k == [Scoped!NotRun EXCEPT !.alive = TRUE, !.scope = s, !.since = child[c].since, !.env = given,
                                      !.operator = operator]
<1>2. child' = [child EXCEPT ![d] = k] /\ UNCHANGED <<custody, core, thread, stored>>
  BY DEF Scoped!Fork
<1>4. /\ operator \in Master \cup {Absent} /\ given \in Scoped!Delivery \cup {Absent}
      /\ child[c].since \in Scoped!Keys \cup {Absent}
  BY <1>1 DEF Scoped!Process
<1>5. /\ child[c].since \in Scoped!Keys
      /\ {child[c].since.key} \cup child[c].since.retired \subseteq Scoped!Known
      /\ operator # Absent => operator = child[c].since.key
      /\ given # Absent => given = Scoped!ChildEnv(child[c].since, given.scope)
  BY <1>1 DEF Scoped!Proper
<1> HIDE DEF given, operator
<1>6. k \in Scoped!Process
  BY <1>4, <1>5 DEF Scoped!Process, Scoped!NotRun
<1>7. Scoped!Proper(k)
  <2>1. /\ k.alive = TRUE /\ k.scope = s /\ k.host = FALSE /\ k.operator = operator /\ k.env = given
        /\ k.held = Absent /\ k.cipher = Absent /\ k.since = child[c].since
    BY DEF Scoped!NotRun
  <2> HIDE DEF k
  <2> QED
    BY <1>5, <2>1 DEF Scoped!Proper
<1> HIDE DEF k
<1> QED
  BY <1>1, <1>2, <1>6, <1>7, ChildChanges

LEMMA CaptureStep ==
  ASSUME Scoped!KeysAssumption, Scoped!ScopedInv, NEW c \in Child, Scoped!Capture(c)
  PROVE  Scoped!ScopedInv'
<1>1. /\ thread \in [Thread -> Scoped!Threads] /\ child[c] \in Scoped!Process
      /\ Scoped!Proper(child[c]) /\ child[c].alive /\ ~child[c].read
  BY DEF Scoped!ScopedInv, Scoped!KeysTypes, Scoped!ChildInv, Scoped!Capture
<1> DEFINE k == [child[c] EXCEPT !.read = TRUE, !.held = child[c].env, !.env = Absent]
<1>2. child' = [child EXCEPT ![c] = k] /\ UNCHANGED <<custody, core, thread, stored>>
  BY DEF Scoped!Capture
<1>3. k \in Scoped!Process
  BY <1>1 DEF Scoped!Process
<1>4. Scoped!Proper(k)
  <2>1. /\ k.alive = child[c].alive /\ k.scope = child[c].scope /\ k.host = child[c].host
        /\ k.operator = child[c].operator /\ k.env = Absent /\ k.held = child[c].env
        /\ k.cipher = child[c].cipher /\ k.since = child[c].since
    BY <1>1 DEF Scoped!Process
  <2>2. k.cipher = Absent
    BY <1>1, <2>1 DEF Scoped!Proper
  <2> HIDE DEF k
  <2> QED
    BY <1>1, <2>1, <2>2 DEF Scoped!Proper
<1> HIDE DEF k
<1> QED
  BY <1>1, <1>2, <1>3, <1>4, ChildChanges

LEMMA UseStep ==
  ASSUME Scoped!KeysAssumption, Scoped!ScopedInv, NEW c \in Child, Scoped!Use(c)
  PROVE  Scoped!ScopedInv'
<1>1. /\ thread \in [Thread -> Scoped!Threads] /\ child[c] \in Scoped!Process
      /\ Scoped!Proper(child[c]) /\ child[c].alive
  BY DEF Scoped!ScopedInv, Scoped!KeysTypes, Scoped!ChildInv, Scoped!Use
<1>2. /\ custody \in Scoped!Keys /\ custody.key \in Master /\ custody.retired \in SUBSET Master
  BY DEF Scoped!ScopedInv, Scoped!KeysTypes, Scoped!Keys
<1> DEFINE delivered == IF child[c].read THEN child[c].held ELSE child[c].env
           cipher == Scoped!Subkey(c, delivered)
           since == IF delivered = Absent /\ child[c].host THEN custody ELSE child[c].since
           k == [child[c] EXCEPT !.read = TRUE, !.held = delivered, !.cipher = cipher, !.since = since]
<1>3. child' = [child EXCEPT ![c] = k] /\ UNCHANGED <<custody, core, thread, stored>>
  BY DEF Scoped!Use
<1>4. /\ delivered \in Scoped!Delivery \cup {Absent} /\ (child[c].host => delivered = Absent)
      /\ delivered # Absent => delivered = Scoped!ChildEnv(child[c].since, delivered.scope)
  BY <1>1 DEF Scoped!Process, Scoped!Proper
<1>5. /\ child[c].scope \in Scoped!Scope /\ child[c].since \in Scoped!Keys
      /\ {child[c].since.key} \cup child[c].since.retired \subseteq Scoped!Known
  BY <1>1 DEF Scoped!Proper
<1> HIDE DEF delivered
\* Which of the four ways to a subkey there is.
<1>6. CASE delivered # Absent
  <2>1. cipher = IF delivered.scope = child[c].scope THEN delivered ELSE Absent
    BY <1>6 DEF Scoped!Subkey
  <2>2. since = child[c].since /\ cipher \in Scoped!Delivery \cup {Absent}
    BY <1>4, <1>6, <2>1
  <2>3. cipher # Absent => cipher = Scoped!ChildEnv(child[c].since, child[c].scope)
    BY <1>4, <1>6, <2>1
  <2> HIDE DEF cipher, since
  <2>4. k \in Scoped!Process
    BY <1>1, <1>4, <1>5, <2>2 DEF Scoped!Process
  <2>5. /\ k.alive = TRUE /\ k.scope = child[c].scope /\ k.host = child[c].host /\ k.read = TRUE
        /\ k.operator = child[c].operator /\ k.env = child[c].env /\ k.held = delivered
        /\ k.cipher = cipher /\ k.since = child[c].since
    BY <1>1, <2>2 DEF Scoped!Process
  <2>6. Scoped!Proper(k)
    <3> HIDE DEF k
    <3> QED
      BY <1>1, <1>4, <1>5, <1>6, <2>3, <2>5 DEF Scoped!Proper
  <2> HIDE DEF k
  <2> QED
    BY <1>1, <1>3, <2>4, <2>6, ChildChanges
<1>7. CASE delivered = Absent /\ child[c].host
  <2>1. cipher = Scoped!ChildEnv(custody, child[c].scope) /\ since = custody
    BY <1>7 DEF Scoped!Subkey
  <2>2. cipher \in Scoped!Delivery
    BY <1>2, <1>5, <2>1, EnvIs
  <2>3. /\ k.alive = TRUE /\ k.scope = child[c].scope /\ k.host = TRUE /\ k.read = TRUE
        /\ k.operator = child[c].operator /\ k.env = child[c].env /\ k.held = Absent
        /\ k.cipher = cipher /\ k.since = custody
    BY <1>1, <1>7, <2>1 DEF Scoped!Process
  <2> HIDE DEF cipher, since
  <2>4. k \in Scoped!Process
    BY <1>1, <1>2, <1>4, <2>1, <2>2 DEF Scoped!Process
  <2>5. Scoped!Proper(k)
    <3> HIDE DEF k
    <3>1. {custody.key} \cup custody.retired \subseteq Scoped!Known
      BY DEF Scoped!Known
    <3>2. k.env = Absent /\ k.operator = Absent
      BY <1>1, <1>7, <2>3 DEF Scoped!Proper
    <3> QED
      BY <1>2, <1>5, <2>1, <2>3, <3>1, <3>2 DEF Scoped!Proper
  <2> HIDE DEF k
  <2> QED
    BY <1>1, <1>3, <2>4, <2>5, ChildChanges
<1>8. CASE delivered = Absent /\ ~child[c].host
  <2>1. since = child[c].since
    BY <1>8
  <2>2. cipher # Absent => cipher = Scoped!ChildEnv([key |-> child[c].since.key, retired |-> {}], child[c].scope)
    BY <1>1, <1>8 DEF Scoped!Subkey, Scoped!Proper
  <2>3. cipher \in Scoped!Delivery \cup {Absent}
    <3>1. child[c].since.key \in Master /\ {} \in SUBSET Master
      BY <1>5 DEF Scoped!Keys
    <3> QED
      BY <1>5, <2>2, <3>1, EnvIs
  <2> HIDE DEF cipher, since
  <2>4. k \in Scoped!Process
    BY <1>1, <1>4, <1>5, <2>1, <2>3 DEF Scoped!Process
  <2>5. /\ k.alive = TRUE /\ k.scope = child[c].scope /\ k.host = FALSE /\ k.read = TRUE
        /\ k.operator = child[c].operator /\ k.env = child[c].env /\ k.held = Absent
        /\ k.cipher = cipher /\ k.since = child[c].since
    BY <1>1, <1>8, <2>1 DEF Scoped!Process
  <2>6. Scoped!Proper(k)
    <3> HIDE DEF k
    <3> QED
      BY <1>1, <1>5, <2>2, <2>5 DEF Scoped!Proper
  <2> HIDE DEF k
  <2> QED
    BY <1>1, <1>3, <2>4, <2>6, ChildChanges
<1> QED
  BY <1>6, <1>7, <1>8

LEMMA CoreStarts ==
  ASSUME Scoped!ScopedInv, Scoped!Start
  PROVE  Scoped!ScopedInv'
<1>1. /\ Scoped!KeysTypes /\ Scoped!CoreInv /\ core' = [core EXCEPT !.up = TRUE]
      /\ UNCHANGED <<custody, thread, child, stored>>
  BY DEF Scoped!ScopedInv, Scoped!Start
<1>2. /\ core'.up = TRUE /\ core'.retired = core.retired /\ core'.key = core.key
      /\ core'.cipher = core.cipher /\ core' \in Scoped!Cells
  BY <1>1 DEF Scoped!KeysTypes, Scoped!Cells
<1>3. Scoped!CoreInv'
  BY <1>1, <1>2 DEF Scoped!CoreInv
<1> QED
  BY <1>1, <1>2, <1>3, CellsGoOn DEF Scoped!KeysTypes

LEMMA CoreStops ==
  ASSUME Scoped!ScopedInv, Scoped!Stop
  PROVE  Scoped!ScopedInv'
<1> DEFINE cells == [up |-> FALSE, retired |-> Absent, key |-> Absent, cipher |-> Absent]
<1>1. /\ core' = cells /\ thread' = [t \in Thread |-> Scoped!Waiting]
      /\ UNCHANGED <<custody, child, stored>>
  BY DEF Scoped!Stop, Scoped!Down
<1>2. /\ cells.up = FALSE /\ cells.retired = Absent /\ cells.key = Absent /\ cells.cipher = Absent
      /\ cells \in Scoped!Cells
  BY DEF Scoped!Cells
<1>3. Scoped!Waiting \in Scoped!Threads /\ Scoped!Waiting.pc = "idle"
  BY DEF Scoped!Waiting, Scoped!Threads
<1>4. Scoped!CoreInv'
  BY <1>1, <1>2, <1>3 DEF Scoped!CoreInv
<1> HIDE DEF cells
<1> QED
  BY <1>1, <1>2, <1>3, <1>4, CellsGoOn

LEMMA CustodyAdopts ==
  ASSUME Scoped!KeysAssumption, Scoped!ScopedInv, NEW m \in Master, Scoped!Adopt(m)
  PROVE  Scoped!ScopedInv'
<1>1. /\ Scoped!KeysTypes /\ Scoped!CoreInv /\ Scoped!ChildInv /\ Scoped!StoredInv
      /\ ~core.up /\ custody' = [key |-> m, retired |-> custody.retired \cup {custody.key}]
      /\ UNCHANGED <<core, thread, child, stored>>
  BY DEF Scoped!ScopedInv, Scoped!Adopt
<1>2. Scoped!KeysTypes'
  BY <1>1 DEF Scoped!KeysTypes, Scoped!Keys
<1>3. Scoped!Known \subseteq Scoped!Known'
  BY <1>1 DEF Scoped!Known
<1>4. Scoped!CoreInv'
  <2>1. core.retired = Absent /\ core.key = Absent /\ core.cipher = Absent
    BY <1>1 DEF Scoped!CoreInv
  <2>2. Scoped!Waiting.pc = "idle"
    BY DEF Scoped!Waiting
  <2> QED
    BY <1>1, <2>1, <2>2 DEF Scoped!CoreInv
<1>5. Scoped!ChildInv'
  <2>1. ASSUME NEW k, Scoped!Proper(k)
        PROVE  /\ IF k.alive THEN k.scope \in Scoped!Scope /\ k.since \in Scoped!Keys
                                  /\ {k.since.key} \cup k.since.retired \subseteq Scoped!Known'
                             ELSE k = Scoped!NotRun
    BY <1>3, <2>1 DEF Scoped!Proper
  <2> QED
    BY <1>1, <2>1 DEF Scoped!ChildInv, Scoped!Proper
<1>6. Scoped!StoredInv'
  BY <1>1, <1>3 DEF Scoped!StoredInv, Scoped!Marked
<1> QED
  BY <1>2, <1>4, <1>5, <1>6 DEF Scoped!ScopedInv

-----------------------------------------------------------------------------
\* What a cipher in use is: the subkeys of its scope, of what it knows the custody to be.
Subkeys(u) ==
  /\ u.cipher.scope \in Scoped!Owner /\ u.context \in Context \cup {Absent}
  /\ u.since.key \in Scoped!Known /\ u.cipher.key = Scoped!Derive(u.since.key, u.cipher.scope)
  /\ \A sk \in u.cipher.retired : \E m \in Scoped!Known : sk = Scoped!Derive(m, u.cipher.scope)
  /\ u.all => u.cipher.retired = {Scoped!Derive(m, u.cipher.scope) : m \in u.since.retired}

LEMMA CustodyIs ==
  ASSUME Scoped!ScopedInv
  PROVE  /\ custody \in Scoped!Keys /\ custody.key \in Scoped!Known /\ custody.retired \subseteq Scoped!Known
         /\ custody.key \in Master /\ custody.retired \subseteq Master
BY DEF Scoped!ScopedInv, Scoped!KeysTypes, Scoped!Keys, Scoped!Known

LEMMA InUseAre ==
  ASSUME Scoped!KeysAssumption, Scoped!ScopedInv, NEW u \in Scoped!InUse
  PROVE  Subkeys(u)
<1>1. CASE \E c \in {d \in Child : child[d].cipher # Absent}, x \in Context \cup {Absent} :
             u = [cipher |-> child[c].cipher, context |-> x, since |-> child[c].since,
                  all |-> child[c].held # Absent \/ child[c].host]
  <2>1. PICK c \in Child, x \in Context \cup {Absent} :
          /\ child[c].cipher # Absent
          /\ u = [cipher |-> child[c].cipher, context |-> x, since |-> child[c].since,
                  all |-> child[c].held # Absent \/ child[c].host]
    BY <1>1
  <2>2. Scoped!Proper(child[c])
    BY DEF Scoped!ScopedInv, Scoped!ChildInv
  <2>3. child[c].alive
    BY <2>1, <2>2 DEF Scoped!Proper, Scoped!NotRun
  <2> DEFINE since == child[c].since
             scope == child[c].scope
  <2>4. /\ scope \in Scoped!Scope /\ since.key \in Scoped!Known /\ since.retired \subseteq Scoped!Known
        /\ scope \in Scoped!Owner
    BY <2>2, <2>3 DEF Scoped!Proper, Scoped!Owner
  <2>5. /\ u.cipher = child[c].cipher /\ u.context = x /\ u.since = since
        /\ u.all = (child[c].held # Absent \/ child[c].host)
    BY <2>1
  <2>6. CASE child[c].host \/ child[c].held # Absent
    <3>1. u.cipher = Scoped!ChildEnv(since, scope)
      BY <2>1, <2>2, <2>5, <2>6 DEF Scoped!Proper
    <3>2. /\ u.cipher.scope = scope /\ u.cipher.key = Scoped!Derive(since.key, scope)
          /\ u.cipher.retired = {Scoped!Derive(m, scope) : m \in since.retired}
      BY <3>1 DEF Scoped!ChildEnv
    <3> HIDE DEF since, scope
    <3> QED
      BY <2>4, <2>5, <3>2 DEF Subkeys
  <2>7. CASE ~(child[c].host \/ child[c].held # Absent)
    <3>1. u.cipher = Scoped!ChildEnv([key |-> since.key, retired |-> {}], scope)
      BY <2>1, <2>2, <2>5, <2>7 DEF Scoped!Proper
    <3>2. /\ u.cipher.scope = scope /\ u.cipher.key = Scoped!Derive(since.key, scope)
          /\ u.cipher.retired = {Scoped!Derive(m, scope) : m \in {}}
      BY <3>1 DEF Scoped!ChildEnv
    <3>3. ~u.all
      BY <2>5, <2>7
    <3> HIDE DEF since, scope
    <3> QED
      BY <2>4, <2>5, <3>2, <3>3 DEF Subkeys
  <2> QED
    BY <2>6, <2>7
<1>2. CASE core.cipher # Absent /\ \E s \in Scoped!Scope \cup {Scoped!CoreScope}, x \in Context \cup {Absent} :
             u = [cipher |-> Scoped!CoreCipher(s), context |-> x, since |-> core.cipher, all |-> TRUE]
  <2>1. PICK s \in Scoped!Owner, x \in Context \cup {Absent} :
          u = [cipher |-> Scoped!CoreCipher(s), context |-> x, since |-> core.cipher, all |-> TRUE]
    BY <1>2 DEF Scoped!Owner
  <2>2. core.cipher = custody
    BY <1>2 DEF Scoped!ScopedInv, Scoped!CoreInv
  <2>3. /\ u.context = x /\ u.since = custody /\ u.all = TRUE /\ u.cipher.scope = s
        /\ u.cipher.key = Scoped!Derive(custody.key, s)
        /\ u.cipher.retired = {Scoped!Derive(m, s) : m \in custody.retired}
    BY <2>1, <2>2 DEF Scoped!CoreCipher, Scoped!ChildEnv
  <2> QED
    BY <2>3, CustodyIs DEF Subkeys
<1>3. CASE core.cipher # Absent /\ \E b \in Scoped!Bound, x \in Context :
             u = [cipher |-> Scoped!TenantCipher(b), context |-> x, since |-> core.cipher, all |-> FALSE]
  <2>1. PICK b \in Scoped!Owner, x \in Context :
          u = [cipher |-> Scoped!TenantCipher(b), context |-> x, since |-> core.cipher, all |-> FALSE]
    BY <1>3 DEF Scoped!Owner
  <2>2. core.cipher = custody
    BY <1>3 DEF Scoped!ScopedInv, Scoped!CoreInv
  <2>3. /\ u.context = x /\ u.since = custody /\ u.all = FALSE /\ u.cipher.scope = b
        /\ u.cipher.key = Scoped!Derive(custody.key, b) /\ u.cipher.retired = {}
    BY <2>1, <2>2 DEF Scoped!TenantCipher
  <2> QED
    BY <2>3, CustodyIs DEF Subkeys
<1> QED
  BY <1>1, <1>2, <1>3 DEF Scoped!InUse

LEMMA SealedIsMarked ==
  ASSUME Scoped!KeysAssumption, Scoped!ScopedInv, NEW u \in Scoped!InUse
  PROVE  Scoped!Marked(Scoped!Sealed(u.cipher, u.context))
BY InUseAre DEF Subkeys, Scoped!Marked, Scoped!Sealed

LEMMA ValueSteps ==
  ASSUME Scoped!KeysAssumption, Scoped!ScopedInv,
         \/ Scoped!Seal \/ Scoped!Reseal
         \/ \E s \in Scoped!Scope \cup {Scoped!CoreScope}, x \in Context \cup {Absent} : Scoped!Legacy(s, x)
  PROVE  Scoped!ScopedInv'
<1>1. UNCHANGED <<custody, core, thread, child>>
  BY DEF Scoped!Seal, Scoped!Reseal, Scoped!Legacy
<1>2. \A v \in stored' : v.form # "plain" => v \in stored \/ Scoped!Marked(v)
  <2>1. CASE Scoped!Seal
    BY <2>1, SealedIsMarked DEF Scoped!Seal
  <2>2. CASE Scoped!Reseal
    BY <2>2, SealedIsMarked DEF Scoped!Reseal
  <2>3. CASE \E s \in Scoped!Scope \cup {Scoped!CoreScope}, x \in Context \cup {Absent} : Scoped!Legacy(s, x)
    BY <2>3 DEF Scoped!Legacy
  <2> QED
    BY <2>1, <2>2, <2>3
<1>3. Scoped!StoredInv'
  BY <1>1, <1>2 DEF Scoped!ScopedInv, Scoped!StoredInv, Scoped!Marked, Scoped!Known
<1>4. Scoped!KeysTypes' /\ Scoped!CoreInv'
  BY <1>1 DEF Scoped!ScopedInv, Scoped!KeysTypes, Scoped!CoreInv
<1>5. Scoped!ChildInv'
  BY <1>1 DEF Scoped!ScopedInv, Scoped!ChildInv, Scoped!Proper, Scoped!Known
<1> QED
  BY <1>3, <1>4, <1>5 DEF Scoped!ScopedInv

LEMMA ScopedNext ==
  ASSUME Scoped!KeysAssumption, Scoped!ScopedInv, [Scoped!Next]_Scoped!vars
  PROVE  Scoped!ScopedInv'
<1>1. CASE Scoped!Start \/ Scoped!Stop \/ \E m \in Master : Scoped!Adopt(m)
  BY <1>1, CoreStarts, CoreStops, CustodyAdopts
<1>2. CASE \E t \in Thread :
             \/ Scoped!Ask(t) \/ Scoped!Resolve(t) \/ Scoped!RecordRetired(t) \/ Scoped!RecordKey(t)
             \/ Scoped!RecordCipher(t) \/ Scoped!ReadCells(t)
  BY <1>2, CoreSteps
<1>3. CASE \E t \in Thread, c \in Child, s \in Scoped!Scope : Scoped!Spawn(t, c, s)
  BY <1>3, SpawnStep
<1>4. CASE \E c \in Child, s \in Scoped!Scope, host \in BOOLEAN : Scoped!StartByHand(c, s, host)
  BY <1>4, StartStep
<1>5. CASE \E c, d \in Child, s \in Scoped!Scope, scrub \in BOOLEAN : Scoped!Fork(c, d, s, scrub)
  BY <1>5, ForkStep
<1>6. CASE \E c \in Child : Scoped!Capture(c) \/ Scoped!Use(c)
  BY <1>6, CaptureStep, UseStep
<1>7. CASE \/ Scoped!Seal \/ Scoped!Reseal
           \/ \E s \in Scoped!Scope \cup {Scoped!CoreScope}, x \in Context \cup {Absent} : Scoped!Legacy(s, x)
  BY <1>7, ValueSteps
<1>8. CASE UNCHANGED Scoped!vars
  <2>1. UNCHANGED <<custody, core, thread, child, stored>>
    BY <1>8 DEF Scoped!vars
  <2>2. core' \in Scoped!Cells /\ thread' \in [Thread -> Scoped!Threads] /\ Scoped!CoreInv'
    BY <2>1 DEF Scoped!ScopedInv, Scoped!KeysTypes, Scoped!CoreInv
  <2> QED
    BY <2>1, <2>2, CellsGoOn
<1> QED
  BY <1>1, <1>2, <1>3, <1>4, <1>5, <1>6, <1>7, <1>8 DEF Scoped!Next

LEMMA MarkedOpens ==
  ASSUME Scoped!KeysAssumption, Scoped!ScopedInv, NEW u \in Scoped!InUse, NEW v \in stored,
         v.form # "plain"
  PROVE  /\ Scoped!OpensWith(u.cipher, u.context, v) => v.owner = u.cipher.scope /\ v.context = u.context
         /\ v.owner = u.cipher.scope /\ v.context = u.context /\ u.since = custody
            /\ (u.all \/ v.key.of = custody.key) => Scoped!OpensWith(u.cipher, u.context, v)
<1>1. Subkeys(u) /\ Scoped!Marked(v)
  BY InUseAre DEF Scoped!ScopedInv, Scoped!StoredInv
<1>2. PICK m \in Scoped!Known : v.key = Scoped!Derive(m, v.owner)
  BY <1>1 DEF Scoped!Marked
<1>3. ASSUME Scoped!OpensWith(u.cipher, u.context, v)
      PROVE  v.owner = u.cipher.scope /\ v.context = u.context
  <2>1. PICK n : v.key = Scoped!Derive(n, u.cipher.scope)
    BY <1>1, <1>3 DEF Scoped!OpensWith, Subkeys
  <2>2. v.owner = u.cipher.scope
    BY <1>2, <2>1 DEF Scoped!Derive
  <2>3. v.context = u.context
    <3>1. \A x \in Context : <<v.owner, x>> # Absent
      BY <1>1 DEF Scoped!KeysAssumption, Scoped!Marked
    <3> QED
      BY <1>1, <1>3, <2>2, <3>1 DEF Scoped!OpensWith, Scoped!Marked, Scoped!AssociatedData, Subkeys
  <2> QED
    BY <2>2, <2>3
<1>4. ASSUME v.owner = u.cipher.scope, v.context = u.context, u.since = custody,
             u.all \/ v.key.of = custody.key
      PROVE  Scoped!OpensWith(u.cipher, u.context, v)
  <2>1. v.key \in {u.cipher.key} \cup u.cipher.retired
    <3>1. CASE m = custody.key
      BY <1>1, <1>2, <1>4, <3>1 DEF Subkeys
    <3>2. CASE m # custody.key
      <4>1. m \in custody.retired /\ u.all
        BY <1>2, <1>4, <3>2 DEF Scoped!Known, Scoped!Derive
      <4> QED
        BY <1>1, <1>2, <1>4, <4>1 DEF Subkeys
    <3> QED
      BY <3>1, <3>2
  <2> QED
    BY <1>1, <1>4, <2>1 DEF Scoped!OpensWith, Scoped!Marked
<1> QED
  BY <1>3, <1>4

LEMMA ScopedInvariant ==
  ASSUME Scoped!KeysAssumption
  PROVE  Scoped!Spec => []Scoped!ScopedInv
<1>1. Scoped!Init => Scoped!ScopedInv
  BY ScopedInit
<1>2. Scoped!ScopedInv /\ [Scoped!Next]_Scoped!vars => Scoped!ScopedInv'
  BY ScopedNext
<1> QED
  BY <1>1, <1>2, PTL DEF Scoped!Spec

\* Whichever threads of Core resolve the key at once, and however far each is in recording
\* it, subkeys are derived from the whole of one resolution.
THEOREM SubkeysAreOfOneResolution ==
  ASSUME Scoped!KeysAssumption
  PROVE  PartsSpec => []ResolvedWhole
<1>1. Scoped!ScopedInv => ResolvedWhole
  BY DEF ResolvedWhole, Scoped!ScopedInv, Scoped!CoreInv, Scoped!ResolvedWhole
<1> QED
  BY <1>1, ScopedInvariant, PartsAreTheirOwn, PTL

\* A cipher opens no value of another scope, tenant or record, and every one of its own when
\* it knows the custody as it is, whoever sealed the value under whichever master key.
THEOREM CiphersOpenTheirOwn ==
  ASSUME Scoped!KeysAssumption
  PROVE  PartsSpec => []OpensItsOwn
<1>1. Scoped!ScopedInv => OpensItsOwn
  BY MarkedOpens DEF OpensItsOwn, Scoped!OpensItsOwn
<1> QED
  BY <1>1, ScopedInvariant, PartsAreTheirOwn, PTL
-----------------------------------------------------------------------------
(* AppKey.                                                                 *)

\* What a thread knows of the keys stays so while none disappears and the entry stays, or is
\* lost.
LEMMA ThreadStays ==
  ASSUME App!AppAssumption, NEW u \in Thread, App!ThreadInv(u), task'[u] = task[u],
         App!Placed \subseteq App!Placed', entry' \in {entry, NoKey, Broken}
  PROVE  App!ThreadInv(u)'
<1> DEFINE k == task[u]
<1>1. /\ k.saw \subseteq App!Placed' /\ k.read \in App!Placed' \cup {NoKey}
      /\ k.pc \in {"pin", "record", "serving"} => k.key \in App!Placed'
  BY DEF App!ThreadInv
<1>2. /\ k.pc = "pin" /\ k.source = "chain" /\ k.crossed = FALSE => entry' \in {k.held, NoKey, Broken}
      /\ k.pc \in {"store", "publish"} /\ k.locked = FALSE /\ k.crossed = FALSE => entry' \in {NoKey, Broken}
      /\ k.pc = "pin" /\ k.source = "file" /\ k.locked = FALSE /\ k.crossed = FALSE => entry' \in {NoKey, Broken}
  BY DEF App!ThreadInv
<1> QED
  BY <1>1, <1>2 DEF App!ThreadInv

\* A choice that was sound stays so while the keys that are gone only grow, and with them
\* the key whose entry was replaced.
LEMMA ChoiceStays ==
  ASSUME NEW u \in Thread, App!NotForkedBy(u), task'[u] = task[u], task[u].saw \subseteq AppKeys,
         gone \subseteq gone', entry' = entry \/ entry \in gone' \/ entry \notin AppKeys
  PROVE  App!NotForkedBy(u)'
BY DEF App!NotForkedBy

\* A thread's step that leaves the keychain alone keeps the invariant if it keeps its own
\* part, and drops no copy of a key.
LEMMA ThreadMoves ==
  ASSUME App!AppAssumption, App!AppInv, NEW t \in Thread, NEW new \in App!Resolution,
         env # App!Down, task' = [task EXCEPT ![t] = new],
         UNCHANGED <<entry, gone, reach, sealed, env, cached, events>>,
         keyfile' \in AppKeys \cup {NoKey}, App!Placed \subseteq App!Placed',
         record' \in (App!Placed' \cap AppKeys) \cup {NoKey},
         App!ThreadInv(t)', new.crossed = FALSE => App!NotForkedBy(t)'
  PROVE  App!AppInv'
<1> USE DEF App!AppInv
<1>1. /\ task' \in [Thread -> App!Resolution] /\ task'[t] = new
      /\ \A u \in Thread \ {t} : task'[u] = task[u]
  BY DEF App!TypeOK
<1>2. App!TypeOK'
  BY <1>1 DEF App!TypeOK
<1>3. App!InPlace'
  BY <1>2 DEF App!TypeOK, App!InPlace, App!Placed
<1>4. App!NotForked'
  <2> SUFFICES ASSUME NEW u \in Thread, task'[u].crossed = FALSE PROVE App!NotForkedBy(u)'
    BY DEF App!NotForked
  <2>1. CASE u = t
    BY <1>1, <2>1
  <2>2. CASE u # t
    <3>1. task'[u] = task[u] /\ App!NotForkedBy(u) /\ task[u].saw \subseteq AppKeys
      BY <1>1, <2>2 DEF App!NotForked, App!TypeOK, App!Resolution
    <3> QED
      BY <3>1, ChoiceStays
  <2> QED
    BY <2>1, <2>2
<1>5. \A u \in Thread : App!ThreadInv(u)'
  <2> SUFFICES ASSUME NEW u \in Thread PROVE App!ThreadInv(u)'
    OBVIOUS
  <2>1. CASE u = t
    BY <2>1
  <2>2. CASE u # t
    BY <1>1, <2>2, ThreadStays
  <2> QED
    BY <2>1, <2>2
<1> QED
  BY <1>2, <1>3, <1>4, <1>5

\* A resolution that fails leaves nothing of itself.
LEMMA FailMoves ==
  ASSUME App!AppAssumption, App!AppInv, NEW t \in Thread, env # App!Down,
         task' = [task EXCEPT ![t] = App!Idle],
         UNCHANGED <<entry, keyfile, record, gone, reach, sealed, env, cached, events>>
  PROVE  App!AppInv'
<1>1. App!Idle \in App!Resolution /\ task'[t] = App!Idle /\ App!Placed' = App!Placed
  BY DEF App!Idle, App!Resolution, App!AppInv, App!TypeOK, App!Placed
<1>2. App!ThreadInv(t)' /\ App!NotForkedBy(t)'
  BY <1>1 DEF App!ThreadInv, App!NotForkedBy, App!Idle
<1> QED
  BY <1>1, <1>2, ThreadMoves DEF App!AppInv, App!TypeOK, App!Placed

\* A step of the world around the threads: the keychain is locked or loses its entry, values
\* are sealed, a result is cached.
LEMMA WorldMoves ==
  ASSUME App!AppAssumption, App!AppInv, App!TypeOK', UNCHANGED <<task, keyfile, record>>,
         App!Placed \subseteq App!Placed', entry' \in {entry, NoKey, Broken},
         gone \subseteq gone', entry' = entry \/ entry \in gone' \/ entry \notin AppKeys,
         sealed' \subseteq App!Placed', cached'.key \in App!Placed' \cup {NoKey},
         env' = App!Down => env = App!Down
  PROVE  App!AppInv'
<1> USE DEF App!AppInv
<1>1. App!InPlace'
  BY DEF App!TypeOK, App!InPlace, App!Placed
<1>2. App!NotForked'
  <2> SUFFICES ASSUME NEW u \in Thread, task'[u].crossed = FALSE PROVE App!NotForkedBy(u)'
    BY DEF App!NotForked
  <2>1. task'[u] = task[u] /\ App!NotForkedBy(u) /\ task[u].saw \subseteq AppKeys
    BY DEF App!NotForked, App!TypeOK, App!Resolution
  <2> QED
    BY <2>1, ChoiceStays
<1>3. \A u \in Thread : App!ThreadInv(u)'
  BY ThreadStays
<1> QED
  BY <1>1, <1>2, <1>3

\* The steps of a resolution before it looks at the keychain, and the answers it finds at once.
LEMMA LookStep ==
  ASSUME App!AppAssumption, App!AppInv, NEW t \in Thread,
         App!Begin(t) \/ App!FromEnv(t) \/ App!FromChain(t) \/ App!FromFile(t) \/ App!LadderFails(t)
  PROVE  App!AppInv'
<1> DEFINE k == task[t]
<1>1. /\ k \in App!Resolution /\ App!ThreadInv(t) /\ App!InPlace /\ App!TypeOK
      /\ sealed \subseteq App!Placed /\ record \in (App!Placed \cap AppKeys) \cup {NoKey}
      /\ cached.key \in App!Placed \cup {NoKey}
  BY DEF App!AppInv, App!TypeOK, App!InPlace, App!Placed
<1>2. App!Idle \in App!Resolution
  BY DEF App!Idle, App!Resolution
<1>3. CASE App!Begin(t)
  <2>1. CASE cached.key # NoKey
    <3> DEFINE new == [App!Idle EXCEPT !.pc = "serving", !.key = cached.key, !.retired = cached.retired,
                                       !.source = "none", !.saw = {}]
    <3>1. /\ new \in App!Resolution /\ new.pc = "serving" /\ new.saw = {} /\ new.read = NoKey
          /\ new.key = cached.key /\ new.source = "none"
      BY <1>1 DEF App!Idle, App!Resolution, App!TypeOK
    <3>2. task' = [task EXCEPT ![t] = new] /\ env # App!Down
      BY <1>3, <2>1 DEF App!Begin, App!Goes, App!At
    <3> HIDE DEF new
    <3>3. task'[t] = new /\ App!Placed' = App!Placed
      BY <1>1, <1>3, <3>2 DEF App!TypeOK, App!Begin, App!Disk, App!Chain, App!Placed
    <3>4. App!ThreadInv(t)'
      BY <1>1, <2>1, <3>1, <3>3 DEF App!ThreadInv
    <3>5. App!NotForkedBy(t)'
      BY <3>1, <3>3 DEF App!NotForkedBy
    <3> QED
      BY <1>1, <1>3, <3>1, <3>2, <3>3, <3>4, <3>5, ThreadMoves
         DEF App!Begin, App!Disk, App!Chain, App!Process, App!TypeOK
  <2>2. CASE cached.key = NoKey
    <3> DEFINE new == [App!Idle EXCEPT !.pc = "ladder", !.read = record, !.saw = sealed]
    <3>1. /\ new \in App!Resolution /\ new.pc = "ladder" /\ new.saw = sealed /\ new.read = record
          /\ new.locked = FALSE /\ new.crossed = FALSE
      BY <1>1 DEF App!Idle, App!Resolution, App!TypeOK
    <3>2. task' = [task EXCEPT ![t] = new] /\ env # App!Down
      BY <1>3, <2>2 DEF App!Begin, App!Goes, App!At
    <3> HIDE DEF new
    <3>3. task'[t] = new /\ App!Placed' = App!Placed
      BY <1>1, <1>3, <3>2 DEF App!TypeOK, App!Begin, App!Disk, App!Chain, App!Placed
    <3>4. App!ThreadInv(t)'
      BY <1>1, <3>1, <3>3 DEF App!ThreadInv
    <3>5. App!NotForkedBy(t)'
      BY <3>1, <3>3 DEF App!NotForkedBy
    <3> QED
      BY <1>1, <1>3, <3>1, <3>2, <3>3, <3>4, <3>5, ThreadMoves
         DEF App!Begin, App!Disk, App!Chain, App!Process, App!TypeOK
  <2> QED
    BY <2>1, <2>2
<1>4. CASE App!LadderFails(t)
  <2>1. task' = [task EXCEPT ![t] = App!Idle] /\ env # App!Down
    BY <1>4 DEF App!LadderFails, App!Fails, App!Goes, App!At
  <2> QED
    BY <1>1, <1>4, <2>1, FailMoves DEF App!LadderFails, App!Disk, App!Chain, App!Process
<1>5. CASE App!FromEnv(t)
  <2> DEFINE new == [k EXCEPT !.pc = "pin", !.key = env, !.source = "env", !.held = NoKey, !.locked = FALSE]
  <2>1. env \in Operator \cap AppKeys /\ env # App!Down /\ k.pc = "ladder"
    BY <1>1, <1>5 DEF App!FromEnv, App!At, App!TypeOK, App!AppAssumption
  <2>2. /\ new \in App!Resolution /\ new.pc = "pin" /\ new.saw = k.saw /\ new.read = k.read
        /\ new.key = env /\ new.source = "env"
    BY <1>1, <2>1 DEF App!Resolution
  <2>3. task' = [task EXCEPT ![t] = new]
    BY <1>5 DEF App!FromEnv, App!Found, App!Goes
  <2> HIDE DEF new
  <2>4. task'[t] = new /\ App!Placed' = App!Placed
    BY <1>1, <1>5, <2>3 DEF App!TypeOK, App!FromEnv, App!Disk, App!Chain, App!Placed
  <2>5. App!ThreadInv(t)'
    BY <1>1, <2>1, <2>2, <2>4 DEF App!ThreadInv, App!Placed
  <2>6. App!NotForkedBy(t)'
    BY <2>2, <2>4 DEF App!NotForkedBy
  <2> QED
    BY <1>1, <1>5, <2>1, <2>2, <2>3, <2>4, <2>5, <2>6, ThreadMoves
       DEF App!FromEnv, App!Disk, App!Chain, App!Process, App!TypeOK
<1>6. CASE App!FromChain(t)
  <2> DEFINE new == [k EXCEPT !.pc = "pin", !.key = entry, !.source = "chain", !.held = entry, !.locked = FALSE]
  <2>1. entry \in AppKeys /\ env # App!Down /\ k.pc = "ladder"
    BY <1>6 DEF App!FromChain, App!At, App!Entry, App!AppAssumption
  <2>2. /\ new \in App!Resolution /\ new.pc = "pin" /\ new.saw = k.saw /\ new.read = k.read
        /\ new.key = entry /\ new.source = "chain" /\ new.held = entry
    BY <1>1, <2>1 DEF App!Resolution
  <2>3. /\ task' = [task EXCEPT ![t] = new] /\ UNCHANGED <<entry, gone>>
        /\ keyfile' = IF keyfile = entry THEN NoKey ELSE keyfile
    BY <1>6 DEF App!FromChain, App!Found, App!Goes, App!RetireMatchingFile, App!Chain
  <2> HIDE DEF new
  <2>4. task'[t] = new /\ App!Placed' = App!Placed
    BY <1>1, <2>1, <2>3 DEF App!TypeOK, App!Placed, App!AppAssumption
  <2>5. App!ThreadInv(t)'
    BY <1>1, <2>1, <2>2, <2>3, <2>4 DEF App!ThreadInv, App!Placed
  <2>6. App!NotForkedBy(t)'
    BY <2>2, <2>4 DEF App!NotForkedBy
  <2> QED
    BY <1>1, <1>6, <2>1, <2>2, <2>3, <2>4, <2>5, <2>6, ThreadMoves
       DEF App!FromChain, App!Process, App!TypeOK
<1>7. CASE App!FromFile(t)
  <2> DEFINE new == [k EXCEPT !.pc = "pin", !.key = keyfile, !.source = "file", !.held = NoKey, !.locked = TRUE]
  <2>1. keyfile \in AppKeys /\ env # App!Down /\ k.pc = "ladder"
    BY <1>1, <1>7 DEF App!FromFile, App!At, App!TypeOK
  <2>2. /\ new \in App!Resolution /\ new.pc = "pin" /\ new.saw = k.saw /\ new.read = k.read
        /\ new.key = keyfile /\ new.source = "file" /\ new.locked = TRUE
    BY <1>1, <2>1 DEF App!Resolution
  <2>3. task' = [task EXCEPT ![t] = new] /\ UNCHANGED <<entry, gone, keyfile>>
    BY <1>7 DEF App!FromFile, App!Found, App!Goes, App!Chain, App!Disk
  <2> HIDE DEF new
  <2>4. task'[t] = new /\ App!Placed' = App!Placed
    BY <1>1, <2>3 DEF App!TypeOK, App!Placed
  <2>5. App!ThreadInv(t)'
    BY <1>1, <2>1, <2>2, <2>4 DEF App!ThreadInv, App!Placed
  <2>6. App!NotForkedBy(t)'
    BY <2>2, <2>4 DEF App!NotForkedBy
  <2> QED
    BY <1>1, <1>7, <2>1, <2>2, <2>3, <2>4, <2>5, <2>6, ThreadMoves
       DEF App!FromFile, App!Process, App!Disk, App!TypeOK
<1> QED
  BY <1>3, <1>4, <1>5, <1>6, <1>7

\* The steps of a resolution that makes a key, or moves that of the file.
LEMMA MakeStep ==
  ASSUME App!AppAssumption, App!AppInv, NEW t \in Thread,
         App!Seed(t) \/ App!GenerateUnseen(t) \/ App!Verify(t) \/ App!Publish(t)
  PROVE  App!AppInv'
<1> DEFINE k == task[t]
<1>1. /\ k \in App!Resolution /\ App!ThreadInv(t) /\ App!InPlace /\ App!TypeOK
      /\ record \in (App!Placed \cap AppKeys) \cup {NoKey}
  BY DEF App!AppInv, App!TypeOK, App!InPlace, App!Placed
<1>2. CASE App!Seed(t)
  <2>1. PICK made \in IF keyfile # NoKey THEN {keyfile} ELSE App!Fresh :
          task' = [task EXCEPT ![t] = [k EXCEPT !.pc = "store", !.key = made]]
    BY <1>2 DEF App!Seed, App!Goes
  <2> DEFINE new == [k EXCEPT !.pc = "store", !.key = made]
  <2>2. made \in AppKeys /\ env # App!Down /\ k.pc = "ladder" /\ entry = NoKey
    BY <1>1, <1>2 DEF App!Seed, App!At, App!TypeOK, App!Fresh
  <2>3. /\ new \in App!Resolution /\ new.pc = "store" /\ new.saw = k.saw /\ new.read = k.read
        /\ new.key = made /\ new.locked = k.locked
    BY <1>1, <2>2 DEF App!Resolution
  <2>4. task' = [task EXCEPT ![t] = new] /\ UNCHANGED <<entry, gone, keyfile>>
    BY <1>2, <2>1 DEF App!Seed, App!Chain, App!Disk
  <2> HIDE DEF new
  <2>5. task'[t] = new /\ App!Placed' = App!Placed
    BY <1>1, <2>4 DEF App!TypeOK, App!Placed
  <2>6. App!ThreadInv(t)'
    BY <1>1, <2>2, <2>3, <2>4, <2>5 DEF App!ThreadInv
  <2>7. App!NotForkedBy(t)'
    BY <2>3, <2>5 DEF App!NotForkedBy
  <2> QED
    BY <1>1, <1>2, <2>2, <2>3, <2>4, <2>5, <2>6, <2>7, ThreadMoves
       DEF App!Seed, App!Process, App!Disk, App!TypeOK
<1>3. CASE App!GenerateUnseen(t)
  <2>1. PICK made \in App!Fresh :
          task' = [task EXCEPT ![t] = [k EXCEPT !.pc = "publish", !.key = made, !.locked = TRUE]]
    BY <1>3 DEF App!GenerateUnseen, App!Goes
  <2> DEFINE new == [k EXCEPT !.pc = "publish", !.key = made, !.locked = TRUE]
  <2>2. made \in AppKeys /\ env # App!Down /\ k.pc = "ladder" /\ k.read = NoKey
    BY <1>3 DEF App!GenerateUnseen, App!At, App!Fresh, App!Seen
  <2>3. /\ new \in App!Resolution /\ new.pc = "publish" /\ new.saw = k.saw /\ new.read = NoKey
        /\ new.key = made /\ new.locked = TRUE
    BY <1>1, <2>2 DEF App!Resolution
  <2>4. task' = [task EXCEPT ![t] = new] /\ UNCHANGED <<entry, gone, keyfile>>
    BY <1>3, <2>1 DEF App!GenerateUnseen, App!Chain, App!Disk
  <2> HIDE DEF new
  <2>5. task'[t] = new /\ App!Placed' = App!Placed
    BY <1>1, <2>4 DEF App!TypeOK, App!Placed
  <2>6. App!ThreadInv(t)'
    BY <1>1, <2>2, <2>3, <2>5 DEF App!ThreadInv
  <2>7. App!NotForkedBy(t)'
    BY <2>3, <2>5 DEF App!NotForkedBy
  <2> QED
    BY <1>1, <1>3, <2>2, <2>3, <2>4, <2>5, <2>6, <2>7, ThreadMoves
       DEF App!GenerateUnseen, App!Process, App!Disk, App!TypeOK
<1>4. CASE App!Verify(t)
  <2>1. CASE App!Entry # k.key
    <3>1. task' = [task EXCEPT ![t] = App!Idle] /\ env # App!Down /\ keyfile' = keyfile
      BY <1>4, <2>1 DEF App!Verify, App!Fails, App!Goes, App!At
    <3> QED
      BY <1>1, <1>4, <3>1, FailMoves DEF App!Verify, App!Chain, App!Process
  <2>2. CASE App!Entry = k.key
    <3> DEFINE new == [k EXCEPT !.pc = "pin", !.key = entry, !.source = "chain", !.held = entry, !.locked = FALSE]
    <3>1. entry \in AppKeys /\ env # App!Down /\ k.pc = "verify"
      BY <1>1, <1>4, <2>2 DEF App!Verify, App!At, App!Entry, App!AppAssumption, App!ThreadInv
    <3>2. /\ new \in App!Resolution /\ new.pc = "pin" /\ new.saw = k.saw /\ new.read = k.read
          /\ new.key = entry /\ new.source = "chain" /\ new.held = entry
      BY <1>1, <3>1 DEF App!Resolution
    <3>3. /\ task' = [task EXCEPT ![t] = new] /\ UNCHANGED <<entry, gone>>
          /\ keyfile' = IF keyfile = entry THEN NoKey ELSE keyfile
      BY <1>4, <2>2 DEF App!Verify, App!Found, App!Goes, App!RetireMatchingFile, App!Chain
    <3> HIDE DEF new
    <3>4. task'[t] = new /\ App!Placed' = App!Placed
      BY <1>1, <3>1, <3>3 DEF App!TypeOK, App!Placed, App!AppAssumption
    <3>5. App!ThreadInv(t)'
      BY <1>1, <3>1, <3>2, <3>3, <3>4 DEF App!ThreadInv, App!Placed
    <3>6. App!NotForkedBy(t)'
      BY <3>2, <3>4 DEF App!NotForkedBy
    <3> QED
      BY <1>1, <1>4, <3>1, <3>2, <3>3, <3>4, <3>5, <3>6, ThreadMoves
         DEF App!Verify, App!Process, App!TypeOK
  <2> QED
    BY <2>1, <2>2
<1>5. CASE App!Publish(t)
  <2> DEFINE new == [k EXCEPT !.pc = "pin", !.key = keyfile', !.source = "file", !.held = NoKey, !.locked = k.locked]
  <2>1. /\ keyfile' = IF keyfile = NoKey THEN k.key ELSE keyfile
        /\ env # App!Down /\ k.pc = "publish" /\ UNCHANGED <<entry, gone>>
    BY <1>5 DEF App!Publish, App!At, App!Chain
  <2>2. keyfile' \in AppKeys
    BY <1>1, <2>1 DEF App!TypeOK, App!ThreadInv
  <2>3. /\ new \in App!Resolution /\ new.pc = "pin" /\ new.saw = k.saw /\ new.read = k.read
        /\ new.key = keyfile' /\ new.source = "file" /\ new.locked = k.locked /\ new.crossed = k.crossed
    BY <1>1, <2>2 DEF App!Resolution
  <2>4. task' = [task EXCEPT ![t] = new]
    BY <1>5 DEF App!Publish, App!Found, App!Goes
  <2> HIDE DEF new
  <2>5. task'[t] = new /\ App!Placed \subseteq App!Placed'
    BY <1>1, <2>1, <2>4 DEF App!TypeOK, App!Placed, App!AppAssumption
  <2>6. App!ThreadInv(t)'
    BY <1>1, <2>1, <2>2, <2>3, <2>5 DEF App!ThreadInv, App!Placed
  <2>7. App!NotForkedBy(t)'
    BY <2>3, <2>5 DEF App!NotForkedBy
  <2> QED
    BY <1>1, <1>5, <2>1, <2>2, <2>3, <2>4, <2>5, <2>6, <2>7, ThreadMoves
       DEF App!Publish, App!Process, App!TypeOK
<1> QED
  BY <1>2, <1>3, <1>4, <1>5

\* The choice.  What the thread saw in use is in the keychain or the key file, or it is lost
\* or the operator's; unless it was crossed, its candidates have the one or it could not read
\* it, and they have the other.
LEMMA PinStep ==
  ASSUME App!AppAssumption, App!AppInv, NEW t \in Thread, App!Pin(t)
  PROVE  App!AppInv'
<1> DEFINE k == task[t]  fine == ~(k.source = "file" /\ k.locked /\ k.read \notin App!Candidates(t) \cup {NoKey})
<1>1. /\ k \in App!Resolution /\ App!ThreadInv(t) /\ App!InPlace /\ App!TypeOK
      /\ record \in (App!Placed \cap AppKeys) \cup {NoKey} /\ k.pc = "pin" /\ env # App!Down
      /\ UNCHANGED <<entry, gone, reach, keyfile, record, sealed, env, cached, events>>
      /\ App!Placed' = App!Placed /\ env \in (Operator \cap AppKeys) \cup {NoKey}
  BY DEF App!AppInv, App!TypeOK, App!InPlace, App!Placed, App!Pin, App!At, App!Chain, App!Disk,
         App!Process, App!AppAssumption
<1>2. PICK chosen \in {k.key} \cup (App!Candidates(t) \cap {k.read}) :
        /\ task' = [task EXCEPT ![t] = App!Serves(t, chosen)] \/ task' = [task EXCEPT ![t] = App!Idle]
        /\ task' # [task EXCEPT ![t] = App!Idle] =>
             /\ k.source # "env" /\ k.read \in App!Candidates(t) => chosen = k.read
             /\ fine
  <2>1. CASE k.source = "env" \/ k.read = NoKey
    <3>1. NoKey \notin App!Candidates(t)
      BY DEF App!Candidates, App!AppAssumption
    <3>2. task' = [task EXCEPT ![t] = App!Serves(t, k.key)] /\ fine
      BY <2>1, <3>1 DEF App!Pin, App!Goes
    <3> QED
      BY <2>1, <3>1, <3>2
  <2>2. CASE k.source # "env" /\ k.read # NoKey /\ k.read \in App!Candidates(t)
    <3>1. task' = [task EXCEPT ![t] = App!Serves(t, k.read)]
      BY <2>2 DEF App!Pin, App!Goes
    <3> QED
      BY <2>2, <3>1
  <2>3. CASE k.source # "env" /\ k.read # NoKey /\ k.read \notin App!Candidates(t) /\ ~fine
    <3>1. task' = [task EXCEPT ![t] = App!Idle]
      BY <2>3 DEF App!Pin, App!Goes
    <3> QED
      BY <3>1
  <2>4. CASE k.source # "env" /\ k.read # NoKey /\ k.read \notin App!Candidates(t) /\ fine
    <3>1. task' = [task EXCEPT ![t] = App!Serves(t, k.key)]
      BY <2>4 DEF App!Pin, App!Goes
    <3> QED
      BY <2>4, <3>1
  <2> QED
    BY <2>1, <2>2, <2>3, <2>4
<1>3. CASE task' = [task EXCEPT ![t] = App!Idle]
  BY <1>1, <1>3, FailMoves
<1>4. CASE task' # [task EXCEPT ![t] = App!Idle]
  <2> DEFINE new == [k EXCEPT !.pc = IF k.read = chosen THEN "serving" ELSE "record",
                              !.key = chosen, !.retired = App!Candidates(t) \ {chosen}]
  <2>1. task' = [task EXCEPT ![t] = new]
    BY <1>2, <1>4 DEF App!Serves
  <2>2. App!Candidates(t) \subseteq AppKeys
    BY DEF App!Candidates
  <2>3. chosen \in App!Placed /\ chosen \in AppKeys
    BY <1>1, <1>2, <2>2 DEF App!ThreadInv, App!Candidates, App!Placed, App!Resolution, App!AppAssumption, App!TypeOK
  <2>4. /\ new \in App!Resolution /\ new.pc \in {"record", "serving"} /\ new.saw = k.saw /\ new.read = k.read
        /\ new.key = chosen /\ new.retired = App!Candidates(t) \ {chosen}
        /\ new.source = k.source /\ new.locked = k.locked /\ new.crossed = k.crossed
    BY <1>1, <2>2, <2>3 DEF App!Resolution
  <2> HIDE DEF new
  <2>5. task'[t] = new
    BY <1>1, <2>1 DEF App!TypeOK
  <2>6. App!ThreadInv(t)'
    BY <1>1, <2>3, <2>4, <2>5 DEF App!ThreadInv
  <2>7. ASSUME new.crossed = FALSE PROVE App!NotForkedBy(t)'
    <3> DEFINE before == k.saw \ (gone \cup Operator)
    <3> SUFFICES ASSUME k.source \in {"chain", "file"}, k.read # NoKey
                 PROVE  /\ before # {} /\ k.read \notin gone \cup Operator => chosen \in k.saw \cup {k.read}
                        /\ before \subseteq {chosen} \cup (App!Candidates(t) \ {chosen})
                                           \cup IF k.locked THEN {entry} ELSE {}
      BY <1>1, <2>4, <2>5 DEF App!NotForkedBy
    <3>1. ASSUME NEW m \in App!Placed \ (gone \cup Operator)
          PROVE  m \in App!Candidates(t) \/ (k.locked /\ k.source = "file" /\ m = entry)
      <4>1. m \in AppKeys /\ (m = entry \/ m = keyfile)
        BY DEF App!Placed
      <4>2. CASE m = keyfile
        BY <4>1, <4>2 DEF App!Candidates, App!AppAssumption
      <4>3. CASE m = entry /\ k.source = "chain"
        <5>1. entry = k.held
          BY <1>1, <2>4, <2>7, <4>1, <4>3 DEF App!ThreadInv, App!AppAssumption
        <5> QED
          BY <4>1, <4>3, <5>1 DEF App!Candidates
      <4>4. CASE m = entry /\ k.source = "file"
        <5>1. k.locked # FALSE
          BY <1>1, <2>4, <2>7, <4>1, <4>4 DEF App!ThreadInv, App!AppAssumption
        <5> QED
          BY <1>1, <4>4, <5>1 DEF App!Resolution
      <4> QED
        BY <4>1, <4>2, <4>3, <4>4
    <3>2. before \subseteq App!Placed \ (gone \cup Operator)
      BY <1>1 DEF App!ThreadInv
    <3>3. before \subseteq App!Candidates(t) \cup IF k.locked THEN {entry} ELSE {}
      BY <3>1, <3>2
    <3>4. ASSUME k.read \notin gone \cup Operator PROVE chosen = k.read
      <4>1. k.read \in App!Placed \ (gone \cup Operator)
        BY <1>1, <3>4 DEF App!ThreadInv
      <4>2. k.read \in App!Candidates(t)
        BY <1>2, <1>4, <3>1, <4>1
      <4> QED
        BY <1>2, <1>4, <4>2
    <3> QED
      BY <3>3, <3>4
  <2> QED
    BY <1>1, <2>1, <2>3, <2>4, <2>5, <2>6, <2>7, ThreadMoves DEF App!TypeOK
<1> QED
  BY <1>3, <1>4

\* A thread stores its key; whoever is between its look and its choice is crossed.
LEMMA StoreStep ==
  ASSUME App!AppAssumption, App!AppInv, NEW t \in Thread, App!Store(t)
  PROVE  App!AppInv'
<1> DEFINE k == task[t]
<1> USE DEF App!AppInv
<1>1. /\ k \in App!Resolution /\ App!ThreadInv(t) /\ App!InPlace /\ App!TypeOK
      /\ record \in (App!Placed \cap AppKeys) \cup {NoKey} /\ k.pc = "store" /\ env # App!Down
      /\ UNCHANGED <<reach, keyfile, record, sealed, env, cached, events>>
  BY DEF App!TypeOK, App!InPlace, App!Placed, App!Store, App!At, App!Disk, App!Process
<1>2. CASE reach # "write"
  <2> DEFINE new == [k EXCEPT !.pc = "publish"]
  <2>1. task' = [task EXCEPT ![t] = new] /\ UNCHANGED <<entry, gone>>
    BY <1>2 DEF App!Store, App!Goes, App!Chain, App!AppAssumption
  <2>2. /\ new \in App!Resolution /\ new.pc = "publish" /\ new.saw = k.saw /\ new.read = k.read
        /\ new.key = k.key /\ new.locked = k.locked /\ new.crossed = k.crossed
    BY <1>1 DEF App!Resolution
  <2> HIDE DEF new
  <2>3. task'[t] = new /\ App!Placed' = App!Placed
    BY <1>1, <2>1 DEF App!TypeOK, App!Placed
  <2>4. App!ThreadInv(t)'
    BY <1>1, <2>1, <2>2, <2>3 DEF App!ThreadInv
  <2>5. App!NotForkedBy(t)'
    BY <2>2, <2>3 DEF App!NotForkedBy
  <2> QED
    BY <1>1, <2>1, <2>2, <2>3, <2>4, <2>5, ThreadMoves DEF App!TypeOK
<1>3. CASE reach = "write"
  <2>1. /\ entry' = k.key /\ gone' = gone \cup ({entry} \cap (AppKeys \ {k.key})) /\ k.key \in AppKeys
        /\ task' = [u \in Thread |->
             IF u = t THEN [k EXCEPT !.pc = "verify"]
             ELSE [task[u] EXCEPT !.crossed = task[u].crossed \/ (App!Between(u) /\ entry # entry')]]
    BY <1>1, <1>3 DEF App!Store, App!ThreadInv
  <2>2. App!Placed \subseteq App!Placed'
    BY <1>1, <2>1 DEF App!Placed
  <2>3. ASSUME NEW u \in Thread
        PROVE  task'[u] \in App!Resolution /\ App!ThreadInv(u)' /\ (task'[u].crossed = FALSE => App!NotForkedBy(u)')
    <3>1. CASE u = t
      <4> DEFINE new == [k EXCEPT !.pc = "verify"]
      <4>1. task'[u] = new
        BY <2>1, <3>1
      <4>2. /\ new \in App!Resolution /\ new.pc = "verify" /\ new.saw = k.saw /\ new.read = k.read
            /\ new.key = k.key /\ new.locked = k.locked
        BY <1>1 DEF App!Resolution
      <4> HIDE DEF new
      <4>3. App!ThreadInv(u)'
        BY <1>1, <2>1, <2>2, <4>1, <4>2 DEF App!ThreadInv
      <4> QED
        BY <4>1, <4>2, <4>3 DEF App!NotForkedBy
    <3>2. CASE u # t
      <4> DEFINE o == task[u]  crossing == App!Between(u) /\ entry # entry'
                 new == [o EXCEPT !.crossed = o.crossed \/ crossing]
      <4>1. o \in App!Resolution /\ App!ThreadInv(u) /\ (o.crossed = FALSE => App!NotForkedBy(u))
        BY DEF App!TypeOK, App!NotForked
      <4>2. task'[u] = new
        BY <2>1, <3>2
      <4>3. crossing \in BOOLEAN
        BY DEF App!Between
      <4>4. (o.crossed \/ crossing) \in BOOLEAN
        OBVIOUS
      <4> DEFINE flag == o.crossed \/ crossing
      <4>5. /\ new \in App!Resolution /\ new.pc = o.pc /\ new.saw = o.saw /\ new.read = o.read
            /\ new.key = o.key /\ new.locked = o.locked /\ new.source = o.source
            /\ new.held = o.held /\ new.retired = o.retired /\ new.crossed = flag
        <5> HIDE DEF flag
        <5>1. new = [o EXCEPT !.crossed = flag] /\ flag \in BOOLEAN
          BY <4>4 DEF flag
        <5> HIDE DEF new
        <5> QED
          BY <4>1, <5>1 DEF App!Resolution
      <4> HIDE DEF new
      <4>6. new.crossed = FALSE => o.crossed = FALSE /\ (entry' = entry \/ o.pc \notin {"store", "verify", "publish", "pin"})
        BY <4>1, <4>5 DEF App!Between, App!Resolution
      <4>7. o.pc = "ladder" => new.crossed = FALSE
        BY <4>1, <4>5 DEF App!Between, App!ThreadInv
      <4>8. App!ThreadInv(u)'
        BY <2>2, <4>1, <4>2, <4>5, <4>6, <4>7 DEF App!ThreadInv
      <4>9. ASSUME new.crossed = FALSE PROVE App!NotForkedBy(u)'
        <5>1. App!NotForkedBy(u) /\ o.saw \subseteq AppKeys
          BY <4>1, <4>6, <4>9 DEF App!Resolution
        <5>2. gone \subseteq gone' /\ (entry' = entry \/ entry \in gone' \/ entry \notin AppKeys)
          BY <2>1
        <5> QED
          BY <4>2, <4>5, <5>1, <5>2 DEF App!NotForkedBy
      <4> QED
        BY <4>2, <4>5, <4>8, <4>9
    <3> QED
      BY <3>1, <3>2
  <2>4. task' \in [Thread -> App!Resolution]
    BY <2>1, <2>3
  <2>5. App!TypeOK'
    BY <1>1, <2>1, <2>4 DEF App!TypeOK
  <2>6. App!InPlace'
    BY <1>1, <2>2, <2>5 DEF App!TypeOK, App!InPlace, App!Placed
  <2>7. App!NotForked'
    BY <2>3 DEF App!NotForked
  <2>8. cached'.key \in App!Placed' \cup {NoKey} /\ record' \in App!Placed' \cup {NoKey}
    BY <1>1, <2>2
  <2> QED
    BY <1>1, <2>3, <2>5, <2>6, <2>7, <2>8
<1> QED
  BY <1>2, <1>3

\* A resolution is recorded and cached, and values are sealed under it.
LEMMA ServeStep ==
  ASSUME App!AppAssumption, App!AppInv, NEW t \in Thread,
         App!Record(t) \/ App!Cache(t) \/ App!Seal(t)
  PROVE  App!AppInv'
<1> DEFINE k == task[t]
<1>1. /\ k \in App!Resolution /\ App!ThreadInv(t) /\ App!InPlace /\ App!TypeOK
      /\ record \in (App!Placed \cap AppKeys) \cup {NoKey} /\ (k.crossed = FALSE => App!NotForkedBy(t))
      /\ cached.key \in App!Placed \cup {NoKey} /\ sealed \subseteq App!Placed
  BY DEF App!AppInv, App!TypeOK, App!InPlace, App!Placed, App!NotForked
<1>2. CASE App!Record(t)
  <2> DEFINE new == [k EXCEPT !.pc = "serving"]
  <2>1. /\ task' = [task EXCEPT ![t] = new] /\ record' \in {record, k.key} /\ env # App!Down /\ k.pc = "record"
        /\ UNCHANGED <<entry, gone, reach, keyfile, sealed, env, cached, events>>
    BY <1>2 DEF App!Record, App!Goes, App!At, App!Chain, App!Process
  <2>2. /\ new \in App!Resolution /\ new.pc = "serving" /\ new.saw = k.saw /\ new.read = k.read
        /\ new.key = k.key /\ new.locked = k.locked /\ new.source = k.source
        /\ new.retired = k.retired /\ new.crossed = k.crossed
    BY <1>1 DEF App!Resolution
  <2> HIDE DEF new
  <2>3. task'[t] = new /\ App!Placed' = App!Placed
    BY <1>1, <2>1 DEF App!TypeOK, App!Placed
  <2>4. App!ThreadInv(t)'
    BY <1>1, <2>1, <2>2, <2>3 DEF App!ThreadInv
  <2>5. new.crossed = FALSE => App!NotForkedBy(t)'
    BY <1>1, <2>1, <2>2, <2>3 DEF App!NotForkedBy
  <2>6. k.key \in App!Placed \cap AppKeys
    BY <1>1, <2>1 DEF App!ThreadInv, App!Placed, App!AppAssumption, App!TypeOK
  <2> QED
    BY <1>1, <2>1, <2>2, <2>3, <2>4, <2>5, <2>6, ThreadMoves DEF App!TypeOK
<1>3. CASE App!Cache(t)
  <2>1. /\ cached' = [key |-> k.key, retired |-> k.retired] /\ k.pc = "serving"
        /\ UNCHANGED <<entry, gone, reach, keyfile, record, sealed, env, task, events>>
    BY <1>3 DEF App!Cache, App!At, App!Chain, App!Disk
  <2>2. k.key \in App!Placed /\ App!Placed' = App!Placed
    BY <1>1, <2>1 DEF App!ThreadInv, App!Placed
  <2>3. App!TypeOK'
    BY <1>1, <2>1 DEF App!TypeOK, App!Resolution
  <2> QED
    BY <1>1, <2>1, <2>2, <2>3, WorldMoves
<1>4. CASE App!Seal(t)
  <2>1. /\ sealed' = sealed \cup {k.key} /\ k.pc = "serving"
        /\ UNCHANGED <<entry, gone, reach, keyfile, record, cached, env, task, events>>
    BY <1>4 DEF App!Seal, App!At, App!Chain, App!Process
  <2>2. k.key \in App!Placed /\ App!Placed' = App!Placed
    BY <1>1, <2>1 DEF App!ThreadInv, App!Placed
  <2>3. k.key \in AppKeys
    BY <1>1, <2>2 DEF App!Placed, App!AppAssumption, App!TypeOK
  <2>4. App!TypeOK'
    BY <1>1, <2>1, <2>3 DEF App!TypeOK
  <2> QED
    BY <1>1, <2>1, <2>2, <2>4, WorldMoves
<1> QED
  BY <1>2, <1>3, <1>4

\* The process starts and stops, and the keychain is locked, or loses its entry.
LEMMA AroundStep ==
  ASSUME App!AppAssumption, App!AppInv, App!Start \/ App!Stop \/ App!ReachChanges \/ App!EntryLost
  PROVE  App!AppInv'
<1>1. /\ App!TypeOK /\ sealed \subseteq App!Placed /\ cached.key \in App!Placed \cup {NoKey}
  BY DEF App!AppInv, App!TypeOK, App!InPlace, App!Placed
<1>2. CASE App!Start
  <2>1. /\ env' \in Operator \cup {NoKey} /\ events' = events + 1 /\ events < MaxEvents
        /\ UNCHANGED <<entry, gone, reach, keyfile, record, sealed, cached, task>>
    BY <1>2 DEF App!Start, App!Chain, App!Disk
  <2>2. App!Placed' = App!Placed
    BY <2>1 DEF App!Placed
  <2>3. App!TypeOK'
    BY <1>1, <2>1 DEF App!TypeOK, App!AppAssumption
  <2>4. env' # App!Down
    BY <2>1 DEF App!AppAssumption
  <2> QED
    BY <1>1, <2>1, <2>2, <2>3, <2>4, WorldMoves
<1>3. CASE App!Stop
  <2>1. /\ env' = App!Down /\ cached' = App!Nothing /\ task' = [t \in Thread |-> App!Idle]
        /\ UNCHANGED <<entry, gone, reach, keyfile, record, sealed, events>>
    BY <1>3 DEF App!Stop, App!Chain, App!Disk
  <2>2. App!Placed' = App!Placed
    BY <2>1 DEF App!Placed
  <2>3. App!Idle \in App!Resolution /\ App!Nothing \in [key : AppKeys \cup {NoKey}, retired : SUBSET AppKeys]
    BY DEF App!Idle, App!Resolution, App!Nothing
  <2>4. App!TypeOK'
    BY <1>1, <2>1, <2>3 DEF App!TypeOK
  <2>5. App!InPlace' /\ record' \in App!Placed' \cup {NoKey} /\ cached'.key = NoKey
    BY <2>1, <2>2 DEF App!AppInv, App!InPlace, App!Nothing
  <2>6. \A t \in Thread : App!ThreadInv(t)' /\ App!NotForkedBy(t)' /\ task'[t] = App!Idle
    BY <2>1 DEF App!ThreadInv, App!NotForkedBy, App!Idle
  <2> QED
    BY <2>4, <2>5, <2>6 DEF App!AppInv, App!NotForked
<1>4. CASE App!ReachChanges
  <2>1. /\ reach' \in {"off", "read", "write"}
        /\ UNCHANGED <<entry, gone, env, events, keyfile, record, sealed, cached, task>>
    BY <1>4 DEF App!ReachChanges, App!Chain, App!Disk, App!Process
  <2>2. App!Placed' = App!Placed
    BY <2>1 DEF App!Placed
  <2>3. App!TypeOK'
    BY <1>1, <2>1 DEF App!TypeOK
  <2> QED
    BY <1>1, <2>1, <2>2, <2>3, WorldMoves
<1>5. CASE App!EntryLost
  <2>1. /\ entry' \in {NoKey, Broken} /\ gone' = gone \cup {entry} /\ entry \in AppKeys
        /\ events < MaxEvents /\ events' = events + 1
        /\ UNCHANGED <<reach, env, keyfile, record, sealed, cached, task>>
    BY <1>5 DEF App!EntryLost, App!Disk, App!Process
  <2>2. App!Placed \subseteq App!Placed'
    BY <2>1 DEF App!Placed
  <2>3. App!TypeOK'
    BY <1>1, <2>1 DEF App!TypeOK, App!AppAssumption
  <2> QED
    BY <1>1, <2>1, <2>2, <2>3, WorldMoves
<1> QED
  BY <1>2, <1>3, <1>4, <1>5

LEMMA AppInit == App!AppAssumption /\ App!Init => App!AppInv
<1> SUFFICES ASSUME App!AppAssumption, App!Init PROVE App!AppInv
  OBVIOUS
<1> USE DEF App!Init
<1>1. App!Idle \in App!Resolution /\ App!Nothing \in [key : AppKeys \cup {NoKey}, retired : SUBSET AppKeys]
  BY DEF App!Idle, App!Resolution, App!Nothing
<1>2. App!TypeOK
  BY <1>1 DEF App!TypeOK, App!AppAssumption
<1>3. App!InPlace
  BY DEF App!InPlace
<1>4. \A t \in Thread : App!ThreadInv(t) /\ App!NotForkedBy(t)
  BY DEF App!ThreadInv, App!NotForkedBy, App!Idle
<1> QED
  BY <1>2, <1>3, <1>4 DEF App!AppInv, App!NotForked, App!Nothing

LEMMA AppNext == App!AppAssumption /\ App!AppInv /\ [App!Next]_App!vars => App!AppInv'
<1> SUFFICES ASSUME App!AppAssumption, App!AppInv, [App!Next]_App!vars PROVE App!AppInv'
  OBVIOUS
<1>1. CASE UNCHANGED App!vars
  <2>1. UNCHANGED <<entry, reach, keyfile, record, sealed, gone, env, cached, task, events>>
    BY <1>1 DEF App!vars
  <2> QED
    BY <2>1 DEF App!AppInv, App!TypeOK, App!InPlace, App!NotForked, App!NotForkedBy, App!Placed, App!ThreadInv
<1>2. ASSUME NEW t \in Thread, App!Resolve(t) PROVE App!AppInv'
  BY <1>2, LookStep, MakeStep, PinStep, StoreStep, ServeStep DEF App!Resolve
<1>3. ASSUME NEW t \in Thread, App!Seal(t) PROVE App!AppInv'
  BY <1>3, ServeStep
<1> QED
  BY <1>1, <1>2, <1>3, AroundStep DEF App!Next

\* Whichever threads resolve an app's key at once, and whatever is locked, lost or interrupted:
\* each key that sealed a file stays in the keychain or in the key file, and no thread goes on
\* with another without the first, unless the entry was replaced behind its back
\* (resolve_app_key, publish).
THEOREM AppKeysStay == ASSUME App!AppAssumption PROVE PartsSpec => []AppKeysKept
<1>1. App!AppInv => AppKeysKept
  BY DEF AppKeysKept, App!AppInv, App!AppKeysKept
<1> QED
  BY <1>1, AppInit, AppNext, PartsAreTheirOwn, PTL DEF App!Spec

-----------------------------------------------------------------------------
(* SealedFile.                                                             *)

\* Where a byte stands: the index of its chunk, and its place in it.
LEMMA Division ==
  ASSUME NEW n \in Nat \ {0}, NEW p \in Nat
  PROVE  /\ p \div n \in Nat /\ p % n \in 0..n - 1
         /\ p = (p \div n) * n + (p % n)
OBVIOUS

LEMMA DivisionGrows ==
  ASSUME NEW n \in Nat \ {0}, NEW p \in Nat, NEW q \in Nat, p <= q
  PROVE  p \div n <= q \div n
OBVIOUS

LEMMA DivisionIs ==
  ASSUME NEW n \in Nat \ {0}, NEW p \in Nat, NEW i \in Nat, i * n <= p, p < (i + 1) * n
  PROVE  p \div n = i
OBVIOUS

LEMMA Least ==
  ASSUME NEW T \in SUBSET Nat, T # {}
  PROVE  \E m \in T : \A k \in T : m <= k
<1>1. PICK m \in T : \A k \in T : ~(<<k, m>> \in OpToRel(<, Nat))
  BY NatLessThanWellFounded, WFMin
<1>2. \A k \in T : ~(k < m)
  BY <1>1 DEF OpToRel
<1> QED
  BY <1>2

\* A chunk that opens holds the plaintext of its index; the last of a file its end.
LEMMA OpenedIsWhole ==
  ASSUME File!FileAssumption, NEW f, File!FileTrue(f), NEW index \in Nat, NEW count, File!Opens(f, index, count)
  PROVE  /\ File!Cached(f, index) \in [index : Int, data : Seq(Nat)]
         /\ File!Cached(f, index).index = index
         /\ File!WholeAt(index, File!Cached(f, index).data)
         /\ index + 1 = count => index * ChunkSize + Len(f.chunks[index + 1].data) = len
<1> DEFINE c == f.chunks[index + 1]
<1>1. /\ index + 1 \in 1..Len(f.chunks) /\ f.chunks \in Seq(File!ChunkType)
      /\ c.index = index /\ c.last = (index + 1 = count)
  BY DEF File!FileTrue, File!FileType, File!Opens
<1>2. c \in File!ChunkType
  BY <1>1
<1>3. File!WholeAt(index, c.data) /\ (c.last => index * ChunkSize + Len(c.data) = len)
  BY <1>1 DEF File!FileTrue
<1> HIDE DEF c
<1>4. File!Cached(f, index) = [index |-> index, data |-> c.data] /\ c.data \in Seq(Nat)
  BY <1>2 DEF File!Cached, File!ChunkType, c
<1>5. c.index = index /\ (index + 1 = count => c.last)
  BY <1>1
<1>6. index + 1 = count => index * ChunkSize + Len(c.data) = len
  BY <1>3, <1>5
<1>7. File!WholeAt(index, c.data)
  BY <1>3, <1>5
<1>8. File!Cached(f, index).index = index /\ File!Cached(f, index).data = c.data
  BY <1>4
<1>9. index + 1 = count => index * ChunkSize + Len(f.chunks[index + 1].data) = len
  BY <1>6 DEF c
<1> QED
  BY <1>4, <1>7, <1>8, <1>9

\* The byte at a place of a chunk that stands there.
LEMMA WholeByte ==
  ASSUME File!FileAssumption, len \in Nat, NEW p \in Nat, p < len,
         NEW data, File!WholeAt(p \div ChunkSize, data)
  PROVE  data[(p % ChunkSize) + 1] = p + 1
<1> DEFINE i == p \div ChunkSize
           r == p % ChunkSize
<1>1. i \in Nat /\ r \in 0..ChunkSize - 1 /\ p = i * ChunkSize + r /\ ChunkSize \in Nat
  BY Division DEF File!FileAssumption
<1>2. data \in Seq(Nat) /\ (\A j \in 1..Len(data) : data[j] = i * ChunkSize + j)
      /\ (Len(data) = ChunkSize \/ i * ChunkSize + Len(data) = len)
  BY DEF File!WholeAt, File!TrueAt
<1> HIDE DEF i, r
<1>3. i * ChunkSize \in Nat /\ Len(data) \in Nat
  BY <1>1, <1>2
<1> DEFINE base == i * ChunkSize
<1> HIDE DEF base
<1>4. r + 1 \in 1..Len(data)
  BY <1>1, <1>2, <1>3 DEF base
<1>5. data[r + 1] = base + (r + 1)
  BY <1>2, <1>4 DEF base
<1>6. p = base + r /\ base \in Nat
  BY <1>1, <1>3 DEF base
<1> QED
  BY <1>1, <1>5, <1>6 DEF r

\* The chunk at hand and one read from the disk now are whole alike.
LEMMA LoadedIsWhole ==
  ASSUME File!FileAssumption, File!FileInv, reader.open, NEW index \in Nat, File!Loads(index)
  PROVE  /\ File!Loaded(index) \in [index : Int, data : Seq(Nat)]
         /\ File!Loaded(index).index = index
         /\ File!WholeAt(index, File!Loaded(index).data)
<1>1. CASE index = reader.cached.index
  BY <1>1 DEF File!Loaded, File!FileInv, File!ReaderInv
<1>2. CASE index # reader.cached.index
  <2>1. File!Opens(path, index, reader.count) /\ File!Loaded(index) = File!Cached(path, index)
    BY <1>2 DEF File!Loads, File!Loaded
  <2> QED
    BY <2>1, OpenedIsWhole DEF File!FileInv
<1> QED
  BY <1>1, <1>2

LEMMA BytesAreTrue ==
  ASSUME File!FileAssumption, File!FileInv, reader.open, NEW from \in Nat, NEW to \in Nat, to <= len,
         \A p \in from..to - 1 : File!Loads(p \div ChunkSize)
  PROVE  \A i \in DOMAIN File!BytesOf(from, to) : File!BytesOf(from, to)[i] = from + i
<1> SUFFICES ASSUME NEW i \in 1..to - from PROVE File!ByteAt(from + i - 1) = from + i
  BY DEF File!BytesOf
<1> DEFINE p == from + i - 1
<1>1. p \in Nat /\ p \in from..to - 1 /\ p < len /\ p + 1 = from + i
  BY DEF File!FileInv
<1> HIDE DEF p
<1>2. p \div ChunkSize \in Nat
  BY <1>1, Division DEF File!FileAssumption
<1>3. File!WholeAt(p \div ChunkSize, File!Loaded(p \div ChunkSize).data)
  BY <1>1, <1>2, LoadedIsWhole
<1>4. File!ByteAt(p) = p + 1
  BY <1>1, <1>3, WholeByte DEF File!ByteAt, File!FileInv
<1> QED
  BY <1>1, <1>4 DEF p

-----------------------------------------------------------------------------
\* Chunks that are left, cut or exchanged are what they were.
LEMMA ChunksStay ==
  ASSUME NEW f, File!FileTrue(f), NEW s \in Seq(File!ChunkType),
         \A i \in 1..Len(s) : \E j \in 1..Len(f.chunks) :
            /\ s[i].index = f.chunks[j].index /\ s[i].last = f.chunks[j].last
            /\ s[i].data = f.chunks[j].data
  PROVE  File!FileTrue([f EXCEPT !.chunks = s])
<1> DEFINE g == [f EXCEPT !.chunks = s]
<1>1. g \in File!FileType /\ g.chunks = s
  BY DEF File!FileTrue, File!FileType
<1>2. ASSUME NEW i \in 1..Len(s)
      PROVE  /\ File!WholeAt(s[i].index, s[i].data)
             /\ s[i].last => s[i].index * ChunkSize + Len(s[i].data) = len
  <2>1. PICK j \in 1..Len(f.chunks) :
            /\ s[i].index = f.chunks[j].index /\ s[i].last = f.chunks[j].last
            /\ s[i].data = f.chunks[j].data
    OBVIOUS
  <2>2. /\ File!WholeAt(f.chunks[j].index, f.chunks[j].data)
        /\ f.chunks[j].last => f.chunks[j].index * ChunkSize + Len(f.chunks[j].data) = len
    BY DEF File!FileTrue
  <2> QED
    BY <2>1, <2>2, Zenon
<1> HIDE DEF g
<1> QED
  BY <1>1, <1>2 DEF File!FileTrue, g

LEMMA CutsAreTrue ==
  ASSUME NEW f, File!FileTrue(f), NEW g \in File!Cuts(f)
  PROVE  File!FileTrue(g)
<1>1. f \in File!FileType /\ f.chunks \in Seq(File!ChunkType)
  BY DEF File!FileTrue, File!FileType
<1>2. ASSUME NEW n \in 0..Len(f.chunks) - 1, g = [f EXCEPT !.chunks = SubSeq(@, 1, n)]
      PROVE  File!FileTrue(g)
  <2> DEFINE s == SubSeq(f.chunks, 1, n)
  <2>1. s \in Seq(File!ChunkType) /\ Len(s) = n /\ \A i \in 1..n : s[i] = f.chunks[i] /\ i \in 1..Len(f.chunks)
    BY <1>1
  <2>2. g = [f EXCEPT !.chunks = s]
    BY <1>2
  <2> HIDE DEF s
  <2> QED
    BY <2>1, <2>2, ChunksStay
<1>3. ASSUME NEW n \in DOMAIN f.chunks, g = [f EXCEPT !.chunks[n].cut = TRUE]
      PROVE  File!FileTrue(g)
  <2> DEFINE c == [f.chunks[n] EXCEPT !.cut = TRUE]
             s == [f.chunks EXCEPT ![n] = c]
  <2>1. n \in 1..Len(f.chunks) /\ f.chunks[n] \in File!ChunkType
    BY <1>1
  <2>4. /\ c \in File!ChunkType /\ c.index = f.chunks[n].index /\ c.last = f.chunks[n].last
        /\ c.data = f.chunks[n].data
    BY <2>1 DEF File!ChunkType
  <2>5. s = [f.chunks EXCEPT ![n].cut = TRUE]
    OBVIOUS
  <2> HIDE DEF c
  <2>2. /\ s \in Seq(File!ChunkType) /\ Len(s) = Len(f.chunks)
        /\ \A i \in 1..Len(s) : /\ s[i].index = f.chunks[i].index /\ s[i].last = f.chunks[i].last
                                /\ s[i].data = f.chunks[i].data
    BY <1>1, <2>1, <2>4
  <2>3. g = [f EXCEPT !.chunks = s]
    BY <1>3, <2>5
  <2> HIDE DEF s
  <2> QED
    BY <2>2, <2>3, ChunksStay
<1> QED
  BY <1>2, <1>3 DEF File!Cuts

LEMMA ExchangesAreTrue ==
  ASSUME NEW f, File!FileTrue(f), NEW g \in File!Exchanges(f)
  PROVE  File!FileTrue(g)
<1>1. f \in File!FileType /\ f.chunks \in Seq(File!ChunkType)
  BY DEF File!FileTrue, File!FileType
<1>2. PICK i \in DOMAIN f.chunks, j \in DOMAIN f.chunks :
        g = [f EXCEPT !.chunks = [f.chunks EXCEPT ![i] = f.chunks[j], ![j] = f.chunks[i]]]
  BY DEF File!Exchanges
<1> DEFINE s == [f.chunks EXCEPT ![i] = f.chunks[j], ![j] = f.chunks[i]]
<1>3. g = [f EXCEPT !.chunks = s]
  BY <1>1, <1>2 DEF File!FileType
<1>4. i \in 1..Len(f.chunks) /\ j \in 1..Len(f.chunks)
      /\ f.chunks[i] \in File!ChunkType /\ f.chunks[j] \in File!ChunkType
  BY <1>1
<1>5. s \in Seq(File!ChunkType) /\ Len(s) = Len(f.chunks)
      /\ \A m \in 1..Len(s) : s[m] \in {f.chunks[m], f.chunks[i], f.chunks[j]}
  BY <1>1, <1>4
<1> HIDE DEF s
<1> QED
  BY <1>3, <1>4, <1>5, ChunksStay

\* A file that opens has the length of the plaintext, and its last chunk is at hand.
LEMMA OpenableIsWhole ==
  ASSUME File!FileAssumption, NEW f, File!FileTrue(f), File!Openable(f), len \in Nat
  PROVE  /\ Len(f.chunks) \in Nat /\ File!LengthOf(f) = len
         /\ File!Cached(f, Len(f.chunks) - 1) \in [index : Int, data : Seq(Nat)]
         /\ File!WholeAt(File!Cached(f, Len(f.chunks) - 1).index, File!Cached(f, Len(f.chunks) - 1).data)
<1> DEFINE n == Len(f.chunks)
<1>1. f.chunks \in Seq(File!ChunkType) /\ f.chunks # <<>> /\ File!Opens(f, n - 1, n)
  BY DEF File!FileTrue, File!FileType, File!Openable
<1>2. n \in Nat /\ n - 1 \in Nat /\ (n - 1) + 1 = n
  BY <1>1
<1> HIDE DEF n
<1>3. (n - 1) * ChunkSize + Len(f.chunks[n].data) = len
  BY <1>1, <1>2, OpenedIsWhole
<1>4. File!LengthOf(f) = len
  BY <1>3, Zenon DEF File!LengthOf, File!Last, n
<1>5. /\ File!Cached(f, n - 1) \in [index : Int, data : Seq(Nat)] /\ File!Cached(f, n - 1).index = n - 1
      /\ File!WholeAt(n - 1, File!Cached(f, n - 1).data)
  BY <1>1, <1>2, OpenedIsWhole
<1> QED
  BY <1>2, <1>4, <1>5, Zenon DEF n

\* FileInv is inductive.
LEMMA FileInit == File!FileAssumption /\ File!Init => File!FileInv
<1> SUFFICES ASSUME File!FileAssumption, File!Init PROVE File!FileInv
  OBVIOUS
<1>1. len \in Nat /\ <<>> \in Seq(Nat) /\ <<>> \in Seq(File!ChunkType) /\ Len(<<>>) = 0
  BY DEF File!Init, File!FileAssumption
<1>2. File!FileTrue(path) /\ File!FileTrue(temp)
  BY <1>1 DEF File!Init, File!FileTrue, File!FileType, File!PlainFile, File!None
<1>3. File!JobInv
  BY <1>1 DEF File!Init, File!JobInv, File!NoJob
<1>4. File!ReaderInv
  BY <1>1 DEF File!Init, File!ReaderInv, File!NoReader
<1>5. File!ReadsTheTruth
  BY <1>1 DEF File!Init, File!ReadsTheTruth, File!NoReader, File!Nothing
<1> QED
  BY <1>1, <1>2, <1>3, <1>4, <1>5 DEF File!FileInv

\* A step of the reader changes no file, and one of the writer nothing that was read.
LEMMA ReaderGoesOn ==
  ASSUME File!FileInv, UNCHANGED <<path, len, temp, job>>, File!ReaderInv', File!ReadsTheTruth'
  PROVE  File!FileInv'
<1>1. File!FileTrue(path)' /\ File!FileTrue(temp)'
  BY DEF File!FileInv, File!FileTrue, File!WholeAt, File!TrueAt
<1>2. File!JobInv'
  BY DEF File!FileInv, File!JobInv, File!TrueAt, File!Plain
<1> QED
  BY <1>1, <1>2 DEF File!FileInv

LEMMA WriterGoesOn ==
  ASSUME File!FileInv, UNCHANGED <<len, reader, got>>,
         File!FileTrue(path'), File!FileTrue(temp'), File!JobInv'
  PROVE  File!FileInv'
<1>1. File!FileTrue(path)' /\ File!FileTrue(temp)'
  BY DEF File!FileTrue, File!WholeAt, File!TrueAt
<1>2. File!ReaderInv' /\ File!ReadsTheTruth'
  BY DEF File!FileInv, File!ReaderInv, File!WholeAt, File!TrueAt, File!ReadsTheTruth
<1> QED
  BY <1>1, <1>2 DEF File!FileInv

LEMMA AppendIsTrue ==
  ASSUME NEW f, File!FileTrue(f), NEW c \in File!ChunkType, File!WholeAt(c.index, c.data),
         c.last => c.index * ChunkSize + Len(c.data) = len
  PROVE  /\ File!FileTrue([f EXCEPT !.chunks = Append(@, c)])
         /\ Len([f EXCEPT !.chunks = Append(@, c)].chunks) = Len(f.chunks) + 1
<1> DEFINE g == [f EXCEPT !.chunks = Append(@, c)]
           n == Len(f.chunks)
<1>1. f \in File!FileType /\ f.chunks \in Seq(File!ChunkType) /\ n \in Nat
  BY DEF File!FileTrue, File!FileType
<1>2. /\ g \in File!FileType /\ Len(g.chunks) = n + 1
      /\ g.chunks[n + 1] = c /\ \A i \in 1..n : g.chunks[i] = f.chunks[i]
  <2> DEFINE s == Append(f.chunks, c)
  <2>1. /\ s \in Seq(File!ChunkType) /\ Len(s) = n + 1
        /\ s[n + 1] = c /\ \A i \in 1..n : s[i] = f.chunks[i]
    BY <1>1, AppendProperties
  <2>2. g = [f EXCEPT !.chunks = s]
    OBVIOUS
  <2> HIDE DEF s, g
  <2>3. g \in File!FileType /\ g.chunks = s
    BY <1>1, <2>1, <2>2 DEF File!FileType
  <2> QED
    BY <2>1, <2>3
<1> HIDE DEF g, n
<1>3. \A i \in 1..n + 1 : i \in 1..n \/ i = n + 1
  BY <1>1
<1>4. ASSUME NEW i \in 1..n + 1
      PROVE  /\ File!WholeAt(g.chunks[i].index, g.chunks[i].data)
             /\ g.chunks[i].last => g.chunks[i].index * ChunkSize + Len(g.chunks[i].data) = len
  <2>1. CASE i = n + 1
    BY <1>2, <2>1, Zenon
  <2>2. CASE i \in 1..n
    <3>1. /\ File!WholeAt(f.chunks[i].index, f.chunks[i].data)
          /\ f.chunks[i].last => f.chunks[i].index * ChunkSize + Len(f.chunks[i].data) = len
      BY <2>2 DEF File!FileTrue, n
    <3> QED
      BY <1>2, <2>2, <3>1, Zenon
  <2> QED
    BY <1>3, <2>1, <2>2
<1>5. File!FileTrue(g)
  BY <1>2, <1>4 DEF File!FileTrue
<1> QED
  BY <1>2, <1>5 DEF g, n

LEMMA CopyStep ==
  ASSUME File!FileAssumption, File!FileInv, File!Copy
  PROVE  File!FileInv'
<1> DEFINE n == Len(temp.chunks)
           b == Len(job.buffer)
           byte == job.read + 1
           c == File!Chunk(FALSE)
<1>1. /\ job \in [pc : {"idle", "copy", "verify", "rename"}, read : Nat, buffer : Seq(Nat)]
      /\ job.pc = "copy" /\ job.read < len /\ b <= ChunkSize /\ n * ChunkSize + b = job.read
      /\ File!TrueAt(n, job.buffer) /\ File!FileTrue(temp) /\ File!FileTrue(path) /\ len \in Nat
      /\ ChunkSize \in Nat \ {0} /\ UNCHANGED <<path, len, reader, got>>
  BY DEF File!FileInv, File!JobInv, File!Copy, File!FileAssumption
<1>2. n \in Nat /\ b \in Nat /\ byte \in Nat /\ byte <= len /\ job.buffer \in Seq(Nat)
  BY <1>1 DEF File!FileTrue, File!FileType
<1>3. CASE b = ChunkSize
  <2>1. /\ temp' = [temp EXCEPT !.chunks = Append(@, c)]
        /\ job' = [job EXCEPT !.read = byte, !.buffer = <<byte>>]
    BY <1>3 DEF File!Copy
  <2>2. c \in File!ChunkType /\ c.index = n /\ c.data = job.buffer /\ c.last = FALSE
    BY <1>2 DEF File!Chunk, File!ChunkType
  <2> HIDE DEF c, n, b, byte
  <2>3. File!WholeAt(n, job.buffer)
    BY <1>1, <1>3 DEF File!WholeAt, b
  <2>4. File!FileTrue(temp') /\ Len(temp'.chunks) = n + 1
    BY <1>1, <2>1, <2>2, <2>3, AppendIsTrue DEF n
  <2>5. (n + 1) * ChunkSize \in Nat /\ (n + 1) * ChunkSize + 1 = byte
    BY <1>1, <1>2, <1>3 DEF byte
  <2>6. <<byte>> \in Seq(Nat) /\ Len(<<byte>>) = 1 /\ <<byte>>[1] = byte
    BY <1>2
  <2>7. File!TrueAt(n + 1, <<byte>>)
    BY <1>2, <2>5, <2>6 DEF File!TrueAt
  <2>8. /\ job' \in [pc : {"idle", "copy", "verify", "rename"}, read : Nat, buffer : Seq(Nat)]
        /\ job'.pc = "copy" /\ job'.read = byte /\ job'.buffer = <<byte>>
    BY <1>1, <1>2, <2>1, <2>6
  <2>9. File!JobInv'
    BY <1>1, <1>2, <2>4, <2>5, <2>6, <2>7, <2>8 DEF File!JobInv, File!TrueAt
  <2> QED
    BY <1>1, <2>4, <2>9, WriterGoesOn
<1>4. CASE b # ChunkSize
  <2>1. temp' = temp /\ job' = [job EXCEPT !.read = byte, !.buffer = Append(@, byte)]
    BY <1>4 DEF File!Copy
  <2> DEFINE next == Append(job.buffer, byte)
  <2>2. /\ next \in Seq(Nat) /\ Len(next) = b + 1 /\ next[b + 1] = byte
        /\ \A j \in 1..b : next[j] = job.buffer[j]
    BY <1>2
  <2>3. /\ job' \in [pc : {"idle", "copy", "verify", "rename"}, read : Nat, buffer : Seq(Nat)]
        /\ job'.pc = "copy" /\ job'.read = byte /\ job'.buffer = next
    BY <1>1, <1>2, <2>1, <2>2
  <2> DEFINE base == n * ChunkSize
  <2>4. base \in Nat /\ base + b = job.read /\ \A j \in 1..b : job.buffer[j] = base + j
    BY <1>1, <1>2 DEF File!TrueAt
  <2> HIDE DEF next, base, n, b
  <2>5. byte = base + (b + 1) /\ b + 1 <= ChunkSize
    BY <1>1, <1>2, <1>4, <2>4
  <2>6. ASSUME NEW j \in 1..b + 1 PROVE next[j] = base + j
    <3>1. j \in 1..b \/ j = b + 1
      BY <1>2
    <3>2. CASE j \in 1..b
      BY <2>2, <2>4, <3>2
    <3>3. CASE j = b + 1
      BY <2>2, <2>5, <3>3
    <3> QED
      BY <3>1, <3>2, <3>3
  <2>7. File!TrueAt(n, next)
    BY <1>2, <2>2, <2>6 DEF File!TrueAt, base
  <2>8. base + Len(next) = byte /\ Len(next) <= ChunkSize
    BY <2>2, <2>5
  <2>9. File!JobInv'
    BY <1>1, <1>2, <2>1, <2>3, <2>7, <2>8 DEF File!JobInv, File!TrueAt, base, n
  <2> QED
    BY <1>1, <2>1, <2>9, WriterGoesOn
<1> QED
  BY <1>3, <1>4

LEMMA FinishStep ==
  ASSUME File!FileAssumption, File!FileInv, File!Finish
  PROVE  File!FileInv'
<1> DEFINE n == Len(temp.chunks)
           c == File!Chunk(TRUE)
<1>1. /\ job \in [pc : {"idle", "copy", "verify", "rename"}, read : Nat, buffer : Seq(Nat)]
      /\ n * ChunkSize + Len(job.buffer) = len
      /\ File!TrueAt(n, job.buffer) /\ File!FileTrue(temp) /\ File!FileTrue(path)
      /\ UNCHANGED <<path, len, reader, got>>
  BY DEF File!FileInv, File!JobInv, File!Finish
<1>2. temp' = [temp EXCEPT !.chunks = Append(@, c)] /\ job' = [job EXCEPT !.pc = "verify", !.buffer = <<>>]
  BY DEF File!Finish
<1>3. n \in Nat /\ job.buffer \in Seq(Nat)
  BY <1>1 DEF File!FileTrue, File!FileType
<1>4. c \in File!ChunkType /\ c.index = n /\ c.data = job.buffer
  BY <1>3 DEF File!Chunk, File!ChunkType
<1>5. File!WholeAt(n, job.buffer)
  BY <1>1 DEF File!WholeAt
<1> HIDE DEF c, n
<1>6. File!FileTrue(temp')
  BY <1>1, <1>2, <1>4, <1>5, AppendIsTrue
<1>7. /\ job' \in [pc : {"idle", "copy", "verify", "rename"}, read : Nat, buffer : Seq(Nat)]
      /\ job'.pc = "verify"
  <2>1. <<>> \in Seq(Nat)
    OBVIOUS
  <2> QED
    BY <1>1, <1>2, <2>1
<1>8. File!JobInv'
  BY <1>7 DEF File!JobInv
<1> QED
  BY <1>1, <1>6, <1>8, WriterGoesOn

\* The other steps of the job, and what may happen to the files.
LEMMA JobStep ==
  ASSUME File!FileAssumption, File!FileInv, File!Start \/ File!Verify \/ File!Rename \/ File!Fails
  PROVE  File!FileInv'
<1>1. /\ job \in [pc : {"idle", "copy", "verify", "rename"}, read : Nat, buffer : Seq(Nat)]
      /\ File!FileTrue(temp) /\ File!FileTrue(path) /\ len \in Nat /\ ChunkSize \in Nat
  BY DEF File!FileInv, File!JobInv, File!FileAssumption
<1>2. /\ <<>> \in Seq(Nat) /\ <<>> \in Seq(File!ChunkType) /\ Len(<<>>) = 0
  OBVIOUS
<1>3. File!FileTrue(File!Empty) /\ File!FileTrue(File!None)
  BY <1>2 DEF File!FileTrue, File!FileType, File!Empty, File!None
<1>4. /\ File!NoJob \in [pc : {"idle", "copy", "verify", "rename"}, read : Nat, buffer : Seq(Nat)]
      /\ File!NoJob.pc = "idle"
  BY <1>2 DEF File!NoJob
<1>5. CASE File!Start
  <2>1. /\ job' = [File!NoJob EXCEPT !.pc = "copy"] /\ temp' = File!Empty
        /\ UNCHANGED <<path, len, reader, got>>
    BY <1>5 DEF File!Start
  <2>2. /\ job' \in [pc : {"idle", "copy", "verify", "rename"}, read : Nat, buffer : Seq(Nat)]
        /\ job'.pc = "copy" /\ job'.read = 0 /\ job'.buffer = <<>>
    BY <1>4, <2>1 DEF File!NoJob
  <2>3. Len(temp'.chunks) = 0 /\ 0 * ChunkSize + 0 = 0
    BY <1>1, <1>2, <2>1 DEF File!Empty
  <2>4. File!TrueAt(0, <<>>)
    BY <1>2 DEF File!TrueAt
  <2>5. File!JobInv'
    BY <1>1, <1>2, <2>1, <2>2, <2>3, <2>4 DEF File!JobInv, File!TrueAt
  <2> QED
    BY <1>1, <1>3, <2>1, <2>5, WriterGoesOn
<1>6. CASE File!Verify /\ File!Decrypts(temp) /\ File!Decrypted(temp) = File!Plain
  <2>1. job' = [job EXCEPT !.pc = "rename"] /\ UNCHANGED <<temp, path, len, reader, got>>
    BY <1>6 DEF File!Verify
  <2>2. /\ job' \in [pc : {"idle", "copy", "verify", "rename"}, read : Nat, buffer : Seq(Nat)]
        /\ job'.pc = "rename"
    BY <1>1, <2>1
  <2>3. (File!Decrypts(temp) /\ File!Decrypted(temp) = File!Plain)'
    BY <1>6, <2>1 DEF File!Plain
  <2>4. File!JobInv'
    BY <2>2, <2>3 DEF File!JobInv
  <2> QED
    BY <1>1, <2>1, <2>4, WriterGoesOn
<1>7. CASE File!Rename \/ File!Fails \/ (File!Verify /\ ~(File!Decrypts(temp) /\ File!Decrypted(temp) = File!Plain))
  <2>1. /\ job' = File!NoJob /\ temp' = File!None /\ path' \in {path, temp}
        /\ UNCHANGED <<len, reader, got>>
    BY <1>7 DEF File!Rename, File!Fails, File!Verify
  <2>2. File!JobInv'
    BY <1>4, <2>1 DEF File!JobInv
  <2> QED
    BY <1>1, <1>3, <2>1, <2>2, WriterGoesOn
<1> QED
  BY <1>5, <1>6, <1>7

LEMMA DamageStep ==
  ASSUME File!FileAssumption, File!FileInv, File!Crash \/ File!DiskDamage
  PROVE  File!FileInv'
<1>1. /\ job \in [pc : {"idle", "copy", "verify", "rename"}, read : Nat, buffer : Seq(Nat)]
      /\ File!FileTrue(temp) /\ File!FileTrue(path) /\ len \in Nat
  BY DEF File!FileInv, File!JobInv
<1>2. <<>> \in Seq(Nat)
  OBVIOUS
<1>3. CASE File!Crash
  <2>1. /\ job' = File!NoJob /\ reader' = File!NoReader /\ got' = File!Nothing
        /\ temp' \in {temp} \cup File!Cuts(temp) /\ UNCHANGED <<path, len>>
    BY <1>3 DEF File!Crash
  <2>2. File!FileTrue(temp') /\ File!FileTrue(path')
    BY <1>1, <2>1, CutsAreTrue
  <2>3. File!FileTrue(path)' /\ File!FileTrue(temp)'
    BY <2>1, <2>2 DEF File!FileTrue, File!WholeAt, File!TrueAt
  <2>4. File!JobInv'
    BY <1>2, <2>1 DEF File!JobInv, File!NoJob
  <2>5. File!ReaderInv' /\ File!ReadsTheTruth'
    BY <1>2, <2>1 DEF File!ReaderInv, File!NoReader, File!ReadsTheTruth, File!Nothing
  <2> QED
    BY <1>1, <2>1, <2>3, <2>4, <2>5 DEF File!FileInv
<1>4. CASE File!DiskDamage
  <2>1. /\ UNCHANGED <<len, job, reader, got>>
        /\ \/ job.pc = "verify" /\ temp' \in File!Cuts(temp) \cup File!Exchanges(temp) /\ UNCHANGED path
           \/ path' \in File!Cuts(path) \cup File!Exchanges(path) /\ UNCHANGED temp
    BY <1>4 DEF File!DiskDamage
  <2>2. File!FileTrue(temp') /\ File!FileTrue(path')
    BY <1>1, <2>1, CutsAreTrue, ExchangesAreTrue
  <2>3. File!JobInv'
    BY <2>1 DEF File!FileInv, File!JobInv, File!TrueAt, File!Plain
  <2> QED
    BY <2>1, <2>2, <2>3, WriterGoesOn
<1> QED
  BY <1>3, <1>4

-----------------------------------------------------------------------------
\* A read of what lies within one chunk.
LEMMA ReadStep ==
  ASSUME File!FileAssumption, File!FileInv, File!Read
  PROVE  File!FileInv'
<1>1. /\ reader \in [open : BOOLEAN, count : Nat, length : Nat, position : Nat,
                     cached : [index : Int, data : Seq(Nat)]]
      /\ reader.open /\ reader.length = len /\ len \in Nat /\ reader.position < len
      /\ ChunkSize \in Nat \ {0} /\ UNCHANGED <<path, len, temp, job>>
  BY DEF File!Read, File!FileInv, File!ReaderInv, File!FileAssumption
<1> DEFINE at == reader.position
           index == at \div ChunkSize
           within(count) == IF at + count > (index + 1) * ChunkSize THEN (index + 1) * ChunkSize ELSE at + count
<1>2. PICK count \in 1..ChunkSize :
        IF File!Loads(index)
          THEN /\ got' = [from |-> at, data |-> File!BytesOf(at, File!AtMost(within(count)))]
               /\ reader' = [reader EXCEPT !.position = File!AtMost(within(count)), !.cached = File!Loaded(index)]
          ELSE got' = File!Nothing /\ UNCHANGED reader
  BY DEF File!Read
<1> DEFINE end == File!AtMost(within(count))
<1>3. at \in Nat /\ index \in Nat /\ at = index * ChunkSize + (at % ChunkSize) /\ at % ChunkSize \in 0..ChunkSize - 1
  BY <1>1, Division
<1> HIDE DEF at, index
<1>4. index * ChunkSize \in Nat /\ (index + 1) * ChunkSize \in Nat /\ index * ChunkSize <= at
  <2> DEFINE r == at % ChunkSize
  <2>1. r \in Nat /\ at = index * ChunkSize + r
    BY <1>1, <1>3
  <2> HIDE DEF r
  <2> QED
    BY <1>1, <1>3, <2>1
<1>5. end \in Nat /\ end <= len /\ end <= (index + 1) * ChunkSize
  BY <1>1, <1>3, <1>4 DEF File!AtMost
<1> HIDE DEF end, within
<1>6. CASE File!Loads(index)
  <2>1. /\ got' = [from |-> at, data |-> File!BytesOf(at, end)]
        /\ reader' = [reader EXCEPT !.position = end, !.cached = File!Loaded(index)]
    BY <1>2, <1>6 DEF end
  <2>2. ASSUME NEW p \in at..end - 1 PROVE p \in Nat /\ File!Loads(p \div ChunkSize)
    <3>1. p \in Nat /\ index * ChunkSize <= p /\ p < (index + 1) * ChunkSize
      BY <1>3, <1>4, <1>5
    <3>2. p \div ChunkSize = index
      BY <1>1, <1>3, <3>1, DivisionIs
    <3> QED
      BY <1>6, <3>1, <3>2
  <2>3. \A i \in DOMAIN File!BytesOf(at, end) : File!BytesOf(at, end)[i] = at + i
    BY <1>1, <1>3, <1>5, <2>2, BytesAreTrue
  <2>4. /\ File!Loaded(index) \in [index : Int, data : Seq(Nat)] /\ File!Loaded(index).index = index
        /\ File!WholeAt(index, File!Loaded(index).data)
    BY <1>1, <1>3, <1>6, LoadedIsWhole
  <2>5. /\ reader' \in [open : BOOLEAN, count : Nat, length : Nat, position : Nat,
                        cached : [index : Int, data : Seq(Nat)]]
        /\ reader'.cached = File!Loaded(index) /\ reader'.length = len
    BY <1>1, <1>5, <2>1, <2>4
  <2>6. File!ReaderInv'
    BY <1>1, <2>4, <2>5 DEF File!ReaderInv, File!WholeAt, File!TrueAt
  <2>7. File!ReadsTheTruth'
    BY <1>1, <2>1, <2>3, <2>5 DEF File!ReadsTheTruth
  <2> QED
    BY <1>1, <2>6, <2>7, ReaderGoesOn
<1>7. CASE ~File!Loads(index)
  <2>1. got' = File!Nothing /\ UNCHANGED reader
    BY <1>2, <1>7
  <2>2. File!ReaderInv' /\ File!ReadsTheTruth'
    BY <1>1, <2>1 DEF File!FileInv, File!ReaderInv, File!WholeAt, File!TrueAt, File!ReadsTheTruth, File!Nothing
  <2> QED
    BY <1>1, <2>2, ReaderGoesOn
<1> QED
  BY <1>6, <1>7

\* A read of a range, chunk by chunk, which may end early at one that does not open.
LEMMA ReadRangeStep ==
  ASSUME File!FileAssumption, File!FileInv, File!ReadRange
  PROVE  File!FileInv'
<1>1. /\ reader \in [open : BOOLEAN, count : Nat, length : Nat, position : Nat,
                     cached : [index : Int, data : Seq(Nat)]]
      /\ reader.open /\ reader.length = len /\ len \in Nat
      /\ ChunkSize \in Nat \ {0} /\ MaxLen \in Nat /\ UNCHANGED <<path, len, temp, job>>
  BY DEF File!ReadRange, File!FileInv, File!ReaderInv, File!FileAssumption
<1>2. PICK from \in 0..MaxLen, to \in 1..MaxLen :
        LET e == File!AtMost(to)
            l == (e - 1) \div ChunkSize
        IN /\ from < e
           /\ got' = IF l \in File!Before(from, e) THEN [from |-> from, data |-> File!BytesOf(from, e)]
                     ELSE File!Nothing
           /\ reader' = IF File!Before(from, e) = {} THEN reader
                        ELSE [reader EXCEPT !.cached =
                                File!Loaded(CHOOSE c \in File!Before(from, e) : c + 1 \notin File!Before(from, e))]
  BY DEF File!ReadRange
<1> DEFINE end == File!AtMost(to)
           first == from \div ChunkSize
           last == (end - 1) \div ChunkSize
           B == File!Before(from, end)
           m == CHOOSE c \in B : c + 1 \notin B
<1>3. from \in Nat /\ end \in Nat /\ end <= len /\ from < end /\ end - 1 \in Nat
  BY <1>1, <1>2 DEF File!AtMost
<1>4. first \in Nat /\ last \in Nat
  BY <1>1, <1>3, Division
<1>5. /\ got' = IF last \in B THEN [from |-> from, data |-> File!BytesOf(from, end)] ELSE File!Nothing
      /\ reader' = IF B = {} THEN reader ELSE [reader EXCEPT !.cached = File!Loaded(m)]
  BY <1>2, Zenon
<1>6. \A c \in B : c \in first..last /\ \A b \in first..c : File!Loads(b)
  BY DEF File!Before
<1>7. ASSUME NEW p \in from..end - 1, last \in B PROVE File!Loads(p \div ChunkSize)
  <2>1. p \in Nat /\ from <= p /\ p <= end - 1
    BY <1>3
  <2>2. first <= p \div ChunkSize /\ p \div ChunkSize <= last /\ p \div ChunkSize \in Nat
    BY <1>1, <1>3, <2>1, Division, DivisionGrows
  <2> QED
    BY <1>4, <1>6, <1>7, <2>2
<1> HIDE DEF end, first, last, B
<1>8. ASSUME B # {} PROVE m \in Nat /\ File!Loads(m)
  <2> DEFINE T == {last - c : c \in B}
  <2>1. T \in SUBSET Nat /\ T # {}
    BY <1>4, <1>6, <1>8
  <2>2. PICK d \in T : \A k \in T : d <= k
    BY <2>1, Least
  <2>3. PICK c \in B : d = last - c
    OBVIOUS
  <2>4. c + 1 \notin B
    <3> SUFFICES ASSUME c + 1 \in B PROVE FALSE
      OBVIOUS
    <3>1. last - (c + 1) \in T
      OBVIOUS
    <3>2. c \in Int /\ last \in Int
      BY <1>4, <1>6
    <3> QED
      BY <2>2, <2>3, <3>1, <3>2
  <2>5. m \in B
    BY <2>4
  <2> QED
    BY <1>4, <1>6, <2>5
<1> HIDE DEF m
<1>9. \A i \in DOMAIN got'.data : got'.data[i] = got'.from + i
  <2>1. CASE last \in B
    <3>1. \A i \in DOMAIN File!BytesOf(from, end) : File!BytesOf(from, end)[i] = from + i
      BY <1>1, <1>3, <1>7, <2>1, BytesAreTrue
    <3> QED
      BY <1>5, <2>1, <3>1
  <2>2. CASE last \notin B
    BY <1>5, <2>2 DEF File!Nothing
  <2> QED
    BY <2>1, <2>2
<1>10. File!ReaderInv' /\ reader'.length = len
  <2>1. CASE B = {}
    BY <1>1, <1>5, <2>1 DEF File!FileInv, File!ReaderInv, File!WholeAt, File!TrueAt
  <2>2. CASE B # {}
    <3>1. /\ File!Loaded(m) \in [index : Int, data : Seq(Nat)] /\ File!Loaded(m).index = m
          /\ File!WholeAt(m, File!Loaded(m).data)
      BY <1>1, <1>8, <2>2, LoadedIsWhole
    <3>2. /\ reader' \in [open : BOOLEAN, count : Nat, length : Nat, position : Nat,
                          cached : [index : Int, data : Seq(Nat)]]
          /\ reader'.cached = File!Loaded(m) /\ reader'.length = len
      BY <1>1, <1>5, <2>2, <3>1
    <3> QED
      BY <1>1, <3>1, <3>2 DEF File!ReaderInv, File!WholeAt, File!TrueAt
  <2> QED
    BY <2>1, <2>2
<1>11. File!ReadsTheTruth'
  BY <1>1, <1>9, <1>10 DEF File!ReadsTheTruth
<1> QED
  BY <1>1, <1>10, <1>11, ReaderGoesOn

LEMMA PlaceStep ==
  ASSUME File!FileAssumption, File!FileInv, File!OpenReader \/ File!Seek \/ File!CloseReader
  PROVE  File!FileInv'
<1>1. /\ reader \in [open : BOOLEAN, count : Nat, length : Nat, position : Nat,
                     cached : [index : Int, data : Seq(Nat)]]
      /\ len \in Nat /\ File!FileTrue(path) /\ MaxLen \in Nat
  BY DEF File!FileInv, File!ReaderInv, File!FileAssumption
<1>2. /\ got' = File!Nothing /\ UNCHANGED <<path, len, temp, job>>
      /\ \A i \in DOMAIN File!Nothing.data : File!Nothing.data[i] = File!Nothing.from + i
  BY DEF File!OpenReader, File!Seek, File!CloseReader, File!Nothing
<1>3. File!ReaderInv' /\ (reader'.open => reader'.length = len')
  <2>1. CASE File!OpenReader
    <3> DEFINE n == Len(path.chunks)
    <3>1. /\ File!Openable(path)
          /\ reader' = [open |-> TRUE, count |-> n, length |-> File!LengthOf(path),
                        position |-> 0, cached |-> File!Cached(path, n - 1)]
      BY <2>1 DEF File!OpenReader
    <3>2. /\ n \in Nat /\ File!LengthOf(path) = len
          /\ File!Cached(path, n - 1) \in [index : Int, data : Seq(Nat)]
          /\ File!WholeAt(File!Cached(path, n - 1).index, File!Cached(path, n - 1).data)
      BY <1>1, <3>1, OpenableIsWhole
    <3> HIDE DEF n
    <3> QED
      BY <1>1, <1>2, <3>1, <3>2 DEF File!ReaderInv, File!WholeAt, File!TrueAt
  <2>2. CASE File!Seek
    <3>1. PICK to \in 0..MaxLen : reader' = [reader EXCEPT !.position = to]
      BY <2>2 DEF File!Seek
    <3> QED
      BY <1>1, <1>2, <3>1 DEF File!FileInv, File!ReaderInv, File!WholeAt, File!TrueAt
  <2>3. CASE File!CloseReader
    <3>1. <<>> \in Seq(Nat)
      OBVIOUS
    <3> QED
      BY <2>3, <3>1 DEF File!CloseReader, File!ReaderInv, File!NoReader
  <2> QED
    BY <2>1, <2>2, <2>3
<1>4. File!ReadsTheTruth'
  BY <1>2, <1>3 DEF File!ReadsTheTruth
<1> QED
  BY <1>2, <1>3, <1>4, ReaderGoesOn

LEMMA FileNext == File!FileAssumption /\ File!FileInv /\ [File!Next]_File!vars => File!FileInv'
<1> SUFFICES ASSUME File!FileAssumption, File!FileInv, [File!Next]_File!vars PROVE File!FileInv'
  OBVIOUS
<1>1. CASE UNCHANGED File!vars
  <2>1. UNCHANGED <<path, len, temp, job, reader, got>>
    BY <1>1 DEF File!vars
  <2>2. File!ReaderInv' /\ File!ReadsTheTruth'
    BY <2>1 DEF File!FileInv, File!ReaderInv, File!WholeAt, File!TrueAt, File!ReadsTheTruth
  <2> QED
    BY <2>1, <2>2, ReaderGoesOn
<1> QED
  BY <1>1, CopyStep, FinishStep, JobStep, DamageStep, ReadStep, ReadRangeStep, PlaceStep DEF File!Next

-----------------------------------------------------------------------------
\* For every length of plaintext and of chunks: a reader tells the true length and gives the
\* bytes at the place it was asked for, or an error, however a file was cut off, altered or
\* its chunks exchanged, before it was opened or since (open, load_chunk, read_range, read).
THEOREM ReadersTellTheTruth == ASSUME File!FileAssumption PROVE PartsSpec => []ReadsTheTruth
<1>1. File!FileInv => ReadsTheTruth
  BY DEF ReadsTheTruth, File!FileInv
<1> QED
  BY <1>1, FileInit, FileNext, PartsAreTheirOwn, PTL DEF File!Spec

\* The plaintext goes only when a copy that reads back as all of it takes its place, wherever
\* the copy fails or the process dies (seal_file_in_place).
THEOREM PlaintextGoesForItsWhole == ASSUME File!FileAssumption PROVE PartsSpec => ReplacedWhole
<1> DEFINE Whole == path' # path /\ path.kind = "plain" => File!Decrypts(path') /\ File!Decrypted(path') = File!Plain
<1>1. File!FileInv /\ [File!Next]_File!vars => [Whole]_File!vars
  <2> SUFFICES ASSUME File!FileInv, [File!Next]_File!vars, path' # path, path.kind = "plain"
               PROVE  File!Decrypts(path') /\ File!Decrypted(path') = File!Plain
    BY DEF File!vars
  <2>1. File!Rename
    BY DEF File!Next, File!vars, File!Start, File!Copy, File!Finish, File!Verify, File!Fails, File!OpenReader,
           File!ReadRange, File!Seek, File!Read, File!CloseReader, File!Crash, File!DiskDamage
  <2>2. path' = temp /\ job.pc = "rename"
    BY <2>1 DEF File!Rename
  <2> QED
    BY <2>2 DEF File!FileInv, File!JobInv
<1> QED
  BY <1>1, FileInit, FileNext, PartsAreTheirOwn, PTL DEF File!Spec, ReplacedWhole, File!ReplacedWhole

-----------------------------------------------------------------------------
(* SealedLog.                                                              *)

\* What is committed under a key, once the pieces are known.
LEMMA CommittedIs ==
  ASSUME Len(log.pieces) \in Nat, NEW k, NEW n \in 0..Len(log.pieces),
         \A i \in 1..n : Log!Opens(k, i), n < Len(log.pieces) => ~Log!Opens(k, n + 1)
  PROVE  Log!Committed(k) = n
<1> DEFINE P(c) == /\ \A i \in 1..c : Log!Opens(k, i)
                   /\ c < Len(log.pieces) => ~Log!Opens(k, c + 1)
<1>1. P(n)
  OBVIOUS
<1>2. ASSUME NEW c \in 0..Len(log.pieces), P(c) PROVE c = n
  <2>1. ~(c < n)
    <3> SUFFICES ASSUME c < n PROVE FALSE
      OBVIOUS
    <3>1. c + 1 \in 1..n /\ c < Len(log.pieces)
      OBVIOUS
    <3> QED
      BY <3>1, <1>2
  <2>2. ~(n < c)
    <3> SUFFICES ASSUME n < c PROVE FALSE
      OBVIOUS
    <3>1. n + 1 \in 1..c /\ n < Len(log.pieces)
      OBVIOUS
    <3> QED
      BY <3>1, <1>2
  <2> QED
    BY <2>1, <2>2
<1>3. Log!Committed(k) = CHOOSE c \in 0..Len(log.pieces) : P(c)
  BY DEF Log!Committed
<1> HIDE DEF P
<1> QED
  BY <1>1, <1>2, <1>3

\* Under its key the records of a log are committed, and under another nothing is.
LEMMA RecordsAreCommitted ==
  ASSUME NEW m, Log!LogTypes, Log!Sound(m), NEW k
  PROVE  Log!Committed(k) = IF k = log.key THEN m ELSE 0
<1>1. Len(log.pieces) \in Nat /\ m \in 0..Len(log.pieces)
  BY DEF Log!LogTypes, Log!Sound
<1>2. CASE k = log.key
  <2>1. \A i \in 1..m : Log!Opens(k, i)
    BY <1>2 DEF Log!Sound, Log!Opens
  <2>2. m < Len(log.pieces) => ~Log!Opens(k, m + 1)
    <3> SUFFICES ASSUME m < Len(log.pieces) PROVE log.pieces[m + 1].kind # "whole"
      BY DEF Log!Opens
    <3>1. m + 1 \in m + 1..Len(log.pieces)
      BY <1>1
    <3> QED
      BY <3>1 DEF Log!Sound, Log!Torn, Log!Rest
  <2> QED
    BY <1>1, <1>2, <2>1, <2>2, CommittedIs
<1>3. CASE k # log.key
  <2>1. \A i : ~Log!Opens(k, i)
    BY <1>3 DEF Log!Opens
  <2>2. \A i \in 1..0 : Log!Opens(k, i)
    OBVIOUS
  <2> QED
    BY <1>1, <1>3, <2>1, <2>2, CommittedIs
<1> QED
  BY <1>2, <1>3

\* Whatever key a log opens with, it gives its records.
LEMMA OpeningsGiveTheRecords ==
  ASSUME NEW m, Log!LogTypes, Log!Sound(m), NEW o \in Log!Openings
  PROVE  Log!Committed(o.key) = m
<1>1. Len(log.pieces) \in Nat /\ m \in 0..Len(log.pieces)
  BY DEF Log!LogTypes, Log!Sound
<1>2. ASSUME o.key # log.key, m # 0 PROVE FALSE
  <2>1. Log!Committed(o.key) = 0
    BY <1>2, RecordsAreCommitted
  <2>2. log.pieces[1].kind = "whole" /\ Len(log.pieces) # 0
    <3>1. 1 \in 1..m
      BY <1>1, <1>2
    <3> QED
      BY <3>1, <1>1 DEF Log!Sound
  <2>3. o.end \in Log!Ends(o.key) /\ ~Log!Foreign(o.key, o.end) /\ o.end # "corrupt"
    BY DEF Log!Openings
  <2>4. Log!Ends(o.key) = IF 1 = Len(log.pieces) THEN {"failed"} ELSE {"corrupt"}
    BY <2>1, <2>2, <1>1 DEF Log!Ends
  <2> QED
    BY <2>1, <2>3, <2>4 DEF Log!Foreign
<1> QED
  BY <1>2, RecordsAreCommitted

\* A log with records opens.
LEMMA LogOpens ==
  ASSUME NEW m, Log!LogTypes, Log!Sound(m), log.header = "whole", m # 0
  PROVE  Log!Openings # {}
<1>1. Len(log.pieces) \in Nat /\ m \in 1..Len(log.pieces) /\ log.key \in 0..key /\ key \in Nat
  BY DEF Log!LogTypes, Log!Sound
<1>2. Log!Committed(log.key) = m
  BY RecordsAreCommitted
<1>3. \E e \in {"clean", "short", "failed"} : e \in Log!Ends(log.key)
  <2>1. CASE m = Len(log.pieces)
    BY <1>2, <2>1 DEF Log!Ends
  <2>2. CASE m + 1 = Len(log.pieces)
    BY <1>1, <1>2, <2>2 DEF Log!Ends
  <2>3. CASE m + 1 < Len(log.pieces)
    BY <1>1, <1>2, <2>3 DEF Log!Ends, Log!Sound
  <2> QED
    BY <1>1, <2>1, <2>2, <2>3
<1>4. PICK e \in {"clean", "short", "failed"} : e \in Log!Ends(log.key)
  BY <1>3
<1>5. ~Log!Foreign(log.key, e)
  BY <1>2 DEF Log!Foreign
<1>6. ASSUME NEW newer \in log.key + 1..key
      PROVE  \E f \in Log!Ends(newer) : f = "corrupt" \/ Log!Foreign(newer, f)
  <2>1. Log!Committed(newer) = 0
    <3>1. newer # log.key
      BY <1>1
    <3> QED
      BY <3>1, RecordsAreCommitted
  <2>2. log.pieces[1].kind = "whole"
    <3>1. 1 \in 1..m
      BY <1>1
    <3> QED
      BY <3>1 DEF Log!Sound
  <2>3. Log!Ends(newer) = IF 1 = Len(log.pieces) THEN {"failed"} ELSE {"corrupt"}
    BY <2>1, <2>2, <1>1 DEF Log!Ends
  <2> QED
    BY <2>1, <2>3 DEF Log!Foreign
<1> DEFINE o == [key |-> log.key, end |-> e]
<1>7. o \in [key : 0..key, end : {"clean", "short", "failed"}]
  BY <1>1
<1>8. o.key = log.key /\ o.end = e
  OBVIOUS
<1> HIDE DEF o
<1>9. o \in Log!Openings
  BY <1>4, <1>5, <1>6, <1>7, <1>8 DEF Log!Openings
<1> QED
  BY <1>9

\* The strict read of a compaction gives what was promised.
LEMMA ReadsGiveThePromised ==
  ASSUME NEW m, Log!LogTypes, Log!Sound(m), Log!PromisedAt(m), dest.state = "none", NEW o \in Log!Openings
  PROVE  promised \subseteq Log!Range(Log!Recovered(o.key))
<1>1. Log!Committed(o.key) = m
  BY OpeningsGiveTheRecords
<1>2. ASSUME NEW r \in promised PROVE r \in Log!Range(Log!Recovered(o.key))
  <2>1. PICK i \in 1..m : log.pieces[i].record = r
    BY <1>2 DEF Log!PromisedAt
  <2> DEFINE f == Log!Recovered(o.key)
  <2>2. f = [j \in 1..m |-> log.pieces[j].record]
    BY <1>1 DEF Log!Recovered
  <2>3. DOMAIN f = 1..m /\ f[i] = r
    BY <2>1, <2>2
  <2> HIDE DEF f
  <2>4. r \in Log!Range(f)
    BY <2>3 DEF Log!Range
  <2> QED
    BY <2>4 DEF f
<1> QED
  BY <1>2

LEMMA LogOpensInv == Log!LogInv => Log!PromisedOpens
<1> SUFFICES ASSUME Log!LogInv, ~overlaid, promised # {}
             PROVE  \/ promised \subseteq Log!Range(dest.records)
                    \/ /\ Log!Openings # {}
                       /\ \A o \in Log!Openings : promised \subseteq Log!Range(Log!Recovered(o.key))
  BY DEF Log!PromisedOpens
<1>1. PICK m \in 0..Len(log.pieces) : Log!LogAt(m)
  BY DEF Log!LogInv
<1>2. CASE dest.state = "whole"
  BY <1>1, <1>2 DEF Log!LogAt, Log!PromisedAt
<1>3. CASE dest.state = "none"
  <2>1. PICK r \in promised : TRUE
    OBVIOUS
  <2>2. PICK i \in 1..m : log.pieces[i].record = r
    BY <1>1, <1>3 DEF Log!LogAt, Log!PromisedAt
  <2>3. m # 0
    BY <2>2
  <2>4. log.header = "whole"
    <3> SUFFICES ASSUME log.pieces = <<>> PROVE FALSE
      BY <1>1 DEF Log!LogAt, Log!Headed
    <3> QED
      BY <2>3
  <2> QED
    BY <1>1, <1>3, <2>3, <2>4, LogOpens, ReadsGiveThePromised DEF Log!LogAt
<1> QED
  BY <1>1, <1>2, <1>3 DEF Log!LogAt, Log!LogTypes

LEMMA LogStarts == Log!Init => Log!LogInv
<1> SUFFICES ASSUME Log!Init PROVE Log!LogAt(0) /\ 0 \in 0..Len(log.pieces)
  BY DEF Log!LogInv
<1>1. log.pieces = <<>> /\ log.header = "none" /\ log.key = 0 /\ log \in [header : {"none", "short", "whole"}, key : {0}, pieces : Seq(Log!Piece)]
  BY DEF Log!Init, Log!NoLog
<1>2. writer = [open |-> FALSE, next |-> 0, torn |-> FALSE] /\ compaction.pc = "idle" /\ dest.state = "none"
  BY DEF Log!Init, Log!NoWriter, Log!NoCompaction, Log!NoFile
<1>3. durable = 0 /\ appends = 0 /\ key = 0 /\ promised = {}
  BY DEF Log!Init
<1>4. Log!LogTypes
  BY <1>1, <1>2, <1>3 DEF Log!LogTypes
<1> QED
  BY <1>1, <1>2, <1>3, <1>4 DEF Log!LogAt, Log!Headed, Log!Sound, Log!WriterFollows, Log!PromisedAt

LEMMA CreateKeeps ==
  ASSUME NEW m \in 0..Len(log.pieces), Log!LogAt(m), Log!Create \/ Log!CreateFails
  PROVE  Log!LogInv'
<1> SUFFICES Log!LogAt(0)' /\ 0 \in 0..Len(log'.pieces)
  BY DEF Log!LogInv
<1>1. ~writer.open /\ log.header = "none" /\ dest.state = "none" /\ dest' = dest /\ compaction' = compaction
      /\ copy' = copy /\ durable' = durable /\ key' = key /\ appends' = appends /\ promised' = promised
  BY DEF Log!Create, Log!CreateFails, Log!History, Log!Compacting
<1>2. log.pieces = <<>> /\ m = 0 /\ compaction.pc = "idle" /\ promised = {} /\ durable = 0
  <2>1. log.pieces = <<>> /\ compaction.pc = "idle"
    BY <1>1 DEF Log!LogAt, Log!Headed
  <2> QED
    BY <1>1, <2>1 DEF Log!LogAt, Log!LogTypes, Log!PromisedAt
<1>3. key \in Nat /\ appends \in Nat /\ writer \in [open : BOOLEAN, next : Nat, torn : BOOLEAN]
  BY DEF Log!LogAt, Log!LogTypes
<1>4. /\ log'.pieces = <<>> /\ log'.key = key /\ writer' \in [open : BOOLEAN, next : Nat, torn : BOOLEAN]
      /\ log' \in [header : {"none", "short", "whole"}, key : 0..key, pieces : Seq(Log!Piece)]
      /\ writer'.open => log'.header = "whole" /\ writer'.next = 0 /\ ~writer'.torn
  <2>1. <<>> \in Seq(Log!Piece) /\ key \in 0..key
    BY <1>3
  <2>2. CASE Log!Create
    <3>1. log' = [header |-> "whole", key |-> key, pieces |-> <<>>] /\ writer' = [open |-> TRUE, next |-> 0, torn |-> FALSE]
      BY <2>2 DEF Log!Create, Log!NoWriter
    <3> QED
      BY <2>1, <3>1
  <2>3. CASE Log!CreateFails
    <3>1. log' = [header |-> "short", key |-> key, pieces |-> <<>>] /\ writer' = writer
      BY <2>3 DEF Log!CreateFails, Log!NoLog
    <3> QED
      BY <2>1, <3>1, <1>1, <1>3
  <2> QED
    BY <2>2, <2>3
<1>6. Log!LogTypes'
  BY <1>1, <1>2, <1>3, <1>4 DEF Log!LogTypes
<1>7. Log!Headed' /\ Log!Sound(0)'
  BY <1>1, <1>2, <1>4 DEF Log!Headed, Log!Sound
<1>8. Log!WriterFollows(0)'
  BY <1>1, <1>2, <1>4 DEF Log!WriterFollows
<1>9. Log!PromisedAt(0)'
  BY <1>1, <1>2 DEF Log!PromisedAt
<1> QED
  BY <1>4, <1>6, <1>7, <1>8, <1>9 DEF Log!LogAt

LEMMA OpenAppendKeeps ==
  ASSUME NEW m \in 0..Len(log.pieces), Log!LogAt(m), Log!OpenAppend
  PROVE  Log!LogInv'
<1>1. PICK o \in Log!Openings :
        /\ o.key = key
        /\ log' = [log EXCEPT !.key = key, !.pieces = SubSeq(@, 1, Log!Committed(key))]
        /\ durable' = IF o.end = "clean" THEN durable ELSE Log!Committed(key)
        /\ writer' = [open |-> TRUE, next |-> Log!Committed(key), torn |-> FALSE]
  BY DEF Log!OpenAppend
<1>2. Log!Committed(key) = m
  BY <1>1, OpeningsGiveTheRecords DEF Log!LogAt
<1>3. /\ dest.state = "none" /\ compaction.pc = "idle" /\ dest' = dest /\ compaction' = compaction
      /\ copy' = copy /\ key' = key /\ appends' = appends /\ promised' = promised
  BY DEF Log!OpenAppend, Log!History, Log!Compacting
<1>4. /\ log \in [header : {"none", "short", "whole"}, key : 0..key, pieces : Seq(Log!Piece)] /\ log.header = "whole"
      /\ key \in Nat /\ appends \in Nat /\ durable \in 0..Len(log.pieces)
  BY DEF Log!LogAt, Log!LogTypes, Log!Openings
<1> DEFINE s == log.pieces
           t == SubSeq(s, 1, m)
<1>5. s \in Seq(Log!Piece) /\ Len(s) \in Nat /\ m \in 0..Len(s)
  BY <1>4
<1>6. t \in Seq(Log!Piece) /\ Len(t) = m /\ \A i \in 1..m : t[i] = s[i]
  <2>1. \A i \in 1..m : s[i] \in Log!Piece
    BY <1>5
  <2> QED
    BY <1>5, <2>1, SubSeqProperties
<1>7. log' = [log EXCEPT !.key = key, !.pieces = t]
  BY <1>1, <1>2
<1>8. \A i \in 1..m : s[i].kind = "whole" /\ s[i].index = i - 1
  BY DEF Log!LogAt, Log!Sound
<1>9. \A r \in promised : \E i \in 1..m : i <= durable /\ s[i].record = r
  BY <1>3 DEF Log!LogAt, Log!PromisedAt
<1>10. o.end = "clean" => m = Len(s)
  <2>1. o.end \in Log!Ends(key)
    BY <1>1 DEF Log!Openings
  <2> QED
    BY <1>2, <2>1 DEF Log!Ends
<1>11. durable \in 0..Len(s)
  BY <1>4
<1> HIDE DEF s, t
<1>12. /\ log'.pieces = t /\ log'.key = key /\ log'.header = "whole"
      /\ log' \in [header : {"none", "short", "whole"}, key : 0..key, pieces : Seq(Log!Piece)]
  <2>1. log'.pieces = t /\ log'.key = key /\ log'.header = log.header /\ log' = [header |-> log.header, key |-> key, pieces |-> t]
    BY <1>7, <1>4
  <2>2. key \in 0..key
    BY <1>4
  <2> QED
    BY <1>4, <1>6, <2>1, <2>2
<1>13. durable' \in 0..m /\ (o.end = "clean" => durable' = durable) /\ (o.end # "clean" => durable' = m)
  BY <1>1, <1>2, <1>5, <1>10, <1>11
<1>14. writer' = [open |-> TRUE, next |-> m, torn |-> FALSE]
  BY <1>1, <1>2
<1>15. Log!LogTypes'
  BY <1>3, <1>4, <1>5, <1>6, <1>12, <1>13, <1>14 DEF Log!LogTypes
<1>16. Log!Headed'
  BY <1>12 DEF Log!Headed
<1>17. Log!Sound(m)'
  <2>1. \A i \in 1..m : t[i].kind = "whole" /\ t[i].index = i - 1
    BY <1>6, <1>8
  <2>2. m \in 0..Len(t) /\ ~(m + 1 < Len(t)) /\ \A i \in m + 1..Len(t) : FALSE
    BY <1>5, <1>6
  <2> QED
    BY <1>12, <2>1, <2>2 DEF Log!Sound
<1>18. Log!WriterFollows(m)'
  BY <1>3, <1>6, <1>12, <1>14 DEF Log!WriterFollows
<1>19. Log!PromisedAt(m)'
  <2>1. ASSUME NEW r \in promised PROVE \E i \in 1..m : i <= durable' /\ t[i].record = r
    <3>1. PICK i \in 1..m : i <= durable /\ s[i].record = r
      BY <1>9
    <3>2. i <= durable'
      BY <1>5, <1>13, <3>1
    <3> QED
      BY <1>6, <3>1, <3>2
  <2> QED
    BY <1>3, <1>12, <2>1 DEF Log!PromisedAt
<1> QED
  BY <1>5, <1>6, <1>12, <1>15, <1>16, <1>17, <1>18, <1>19 DEF Log!LogInv, Log!LogAt

LEMMA AppendKeeps ==
  ASSUME NEW m \in 0..Len(log.pieces), Log!LogAt(m), Log!AppendRecord, ~overlaid'
  PROVE  Log!LogInv'
<1> DEFINE s == log.pieces
           p == Log!Whole(writer.next, appends + 1)
           t == Append(s, p)
<1>1. /\ writer.open /\ ~writer.torn /\ log' = [log EXCEPT !.pieces = t] /\ appends' = appends + 1
      /\ writer' = [writer EXCEPT !.next = @ + 1]
      /\ durable' = durable /\ promised' = promised /\ key' = key
      /\ dest' = dest /\ compaction' = compaction /\ copy' = copy
  BY DEF Log!AppendRecord, Log!Compacting
<1>2. /\ log \in [header : {"none", "short", "whole"}, key : 0..key, pieces : Seq(Log!Piece)]
      /\ key \in Nat /\ appends \in Nat /\ durable \in 0..Len(s)
      /\ writer \in [open : BOOLEAN, next : Nat, torn : BOOLEAN]
  BY DEF Log!LogAt, Log!LogTypes
<1>3. /\ log.header = "whole" /\ log.key = key /\ compaction.pc = "idle" /\ dest.state = "none"
      /\ writer.next = m /\ m = Len(s)
  BY <1>1 DEF Log!LogAt, Log!WriterFollows
<1>4. p \in Log!Piece /\ p.kind = "whole" /\ p.index = m
  BY <1>2, <1>3 DEF Log!Whole, Log!Piece
<1>5. s \in Seq(Log!Piece) /\ Len(s) \in Nat
  BY <1>2
<1>6. \A i \in 1..m : s[i].kind = "whole" /\ s[i].index = i - 1
  BY DEF Log!LogAt, Log!Sound
<1>7. \A r \in promised : \E i \in 1..m : i <= durable /\ s[i].record = r
  BY <1>3 DEF Log!LogAt, Log!PromisedAt
<1> HIDE DEF p, s
<1>8. t \in Seq(Log!Piece) /\ Len(t) = m + 1 /\ t[m + 1] = p /\ \A i \in 1..m : t[i] = s[i]
  BY <1>3, <1>4, <1>5, AppendProperties
<1> HIDE DEF t
<1>9. /\ log'.pieces = t /\ log'.key = key /\ log'.header = "whole"
      /\ log' \in [header : {"none", "short", "whole"}, key : 0..key, pieces : Seq(Log!Piece)]
  BY <1>1, <1>2, <1>3, <1>8
<1>10. /\ writer' \in [open : BOOLEAN, next : Nat, torn : BOOLEAN]
       /\ writer'.next = m + 1 /\ ~writer'.torn
  BY <1>1, <1>2, <1>3
<1>11. Log!LogTypes'
  <2>1. compaction.pc \in {"idle", "write", "rename"} /\ dest.state \in {"none", "whole"}
    BY DEF Log!LogAt, Log!LogTypes
  <2> QED
    BY <1>1, <1>2, <1>3, <1>5, <1>8, <1>9, <1>10, <2>1 DEF Log!LogTypes
<1>12. Log!Headed'
  BY <1>9 DEF Log!Headed
<1>13. Log!Sound(m + 1)'
  <2>1. \A i \in 1..m + 1 : t[i].kind = "whole" /\ t[i].index = i - 1
    BY <1>3, <1>4, <1>5, <1>6, <1>8
  <2> QED
    BY <1>3, <1>5, <1>8, <1>9, <2>1 DEF Log!Sound
<1>14. Log!WriterFollows(m + 1)'
  BY <1>1, <1>3, <1>8, <1>9, <1>10 DEF Log!WriterFollows
<1>15. Log!PromisedAt(m + 1)'
  <2>1. ASSUME NEW r \in promised PROVE \E i \in 1..m + 1 : i <= durable /\ t[i].record = r
    <3>1. PICK i \in 1..m : i <= durable /\ s[i].record = r
      BY <1>7
    <3> QED
      BY <1>3, <1>5, <1>8, <3>1
  <2> QED
    BY <1>1, <1>3, <1>9, <2>1 DEF Log!PromisedAt
<1>16. m + 1 \in 0..Len(log'.pieces)
  BY <1>3, <1>5, <1>8, <1>9
<1> QED
  BY <1>11, <1>12, <1>13, <1>14, <1>15, <1>16 DEF Log!LogInv, Log!LogAt

\* A failed write, after which there is the same writer or none.
LEMMA TearingKeeps ==
  ASSUME NEW m \in 0..Len(log.pieces), Log!LogAt(m), writer.open,
         log' = [log EXCEPT !.pieces = Append(@, Log!Rest("short"))],
         writer' \in {[writer EXCEPT !.torn = TRUE], Log!NoWriter}, compaction'.pc = "idle",
         UNCHANGED <<durable, key, copy, dest, appends, promised>>
  PROVE  Log!LogInv'
<1> DEFINE s == log.pieces
           p == Log!Rest("short")
           t == Append(s, p)
<1>1. log' = [log EXCEPT !.pieces = t]
  OBVIOUS
<1>2. /\ log \in [header : {"none", "short", "whole"}, key : 0..key, pieces : Seq(Log!Piece)]
      /\ key \in Nat /\ appends \in Nat /\ durable \in 0..Len(s) /\ dest.state \in {"none", "whole"}
      /\ writer \in [open : BOOLEAN, next : Nat, torn : BOOLEAN]
  BY DEF Log!LogAt, Log!LogTypes
<1>3. /\ log.header = "whole" /\ log.key = key /\ dest.state = "none" /\ writer.next = m
      /\ \A i \in m + 1..Len(s) : s[i].kind = "short"
  <2>1. m = Len(s) => \A i \in m + 1..Len(s) : s[i].kind = "short"
    OBVIOUS
  <2> QED
    BY <2>1 DEF Log!LogAt, Log!WriterFollows
<1>4. p \in Log!Piece /\ p.kind = "short" /\ p \in Log!Torn
  BY DEF Log!Rest, Log!Piece, Log!Torn
<1>5. s \in Seq(Log!Piece) /\ Len(s) \in Nat /\ m \in 0..Len(s)
  BY <1>2
<1>6. /\ \A i \in 1..m : s[i].kind = "whole" /\ s[i].index = i - 1
      /\ \A i \in m + 1..Len(s) : s[i] \in Log!Torn
  BY DEF Log!LogAt, Log!Sound
<1>7. \A r \in promised : \E i \in 1..m : i <= durable /\ s[i].record = r
  BY <1>3 DEF Log!LogAt, Log!PromisedAt
<1> HIDE DEF p, s
<1>8. t \in Seq(Log!Piece) /\ Len(t) = Len(s) + 1 /\ t[Len(s) + 1] = p /\ \A i \in 1..Len(s) : t[i] = s[i]
  BY <1>4, <1>5, AppendProperties
<1> HIDE DEF t
<1>9. /\ log'.pieces = t /\ log'.key = key /\ log'.header = "whole"
      /\ log' \in [header : {"none", "short", "whole"}, key : 0..key, pieces : Seq(Log!Piece)]
  BY <1>1, <1>2, <1>3, <1>8
<1>10. /\ writer' \in [open : BOOLEAN, next : Nat, torn : BOOLEAN]
       /\ writer'.open => writer'.next = m /\ writer'.torn
  <2>1. CASE writer' = [writer EXCEPT !.torn = TRUE]
    BY <1>2, <1>3, <2>1
  <2>2. CASE writer' = Log!NoWriter
    BY <2>2 DEF Log!NoWriter
  <2> QED
    BY <2>1, <2>2
<1>11. Log!LogTypes'
  BY <1>2, <1>3, <1>5, <1>8, <1>9, <1>10 DEF Log!LogTypes
<1>12. Log!Headed'
  BY <1>9 DEF Log!Headed
<1>13. \A i \in m + 1..Len(t) : t[i].kind = "short" /\ t[i] \in Log!Torn
  <2> SUFFICES ASSUME NEW i \in m + 1..Len(t) PROVE t[i].kind = "short" /\ t[i] \in Log!Torn
    OBVIOUS
  <2>1. CASE i = Len(s) + 1
    BY <2>1, <1>4, <1>8
  <2>2. CASE i # Len(s) + 1
    BY <2>2, <1>3, <1>5, <1>6, <1>8
  <2> QED
    BY <2>1, <2>2
<1>14. Log!Sound(m)'
  BY <1>5, <1>6, <1>8, <1>9, <1>13 DEF Log!Sound
<1>15. Log!WriterFollows(m)'
  BY <1>3, <1>9, <1>10, <1>13 DEF Log!WriterFollows
<1>16. Log!PromisedAt(m)'
  <2>1. ASSUME NEW r \in promised PROVE \E i \in 1..m : i <= durable /\ t[i].record = r
    <3>1. PICK i \in 1..m : i <= durable /\ s[i].record = r
      BY <1>7
    <3> QED
      BY <1>5, <1>8, <3>1
  <2> QED
    BY <1>3, <1>9, <2>1 DEF Log!PromisedAt
<1>17. m \in 0..Len(log'.pieces)
  BY <1>5, <1>8, <1>9
<1> QED
  BY <1>11, <1>12, <1>14, <1>15, <1>16, <1>17 DEF Log!LogInv, Log!LogAt

\* What was not synced is lost from some byte on.
LEMMA PowerLossKeeps ==
  ASSUME NEW m \in 0..Len(log.pieces), Log!LogAt(m), Log!PowerLoss
  PROVE  Log!LogInv'
<1> DEFINE s == log.pieces
<1>1. PICK n \in durable..Len(s) :
        log' \in {[log EXCEPT !.pieces = SubSeq(@, 1, n)]} \cup
                 {[log EXCEPT !.pieces = Append(SubSeq(@, 1, n), t)] : t \in {t \in Log!Torn : n < Len(s)}}
  BY DEF Log!PowerLoss
<1>2. /\ writer' = Log!NoWriter /\ compaction'.pc = "idle" /\ durable' = durable /\ key' = key /\ copy' = copy
      /\ dest' = dest /\ appends' = appends /\ promised' = promised
  BY DEF Log!PowerLoss, Log!Down, Log!History, Log!NoCompaction
<1>3. /\ log \in [header : {"none", "short", "whole"}, key : 0..key, pieces : Seq(Log!Piece)]
      /\ key \in Nat /\ appends \in Nat /\ durable \in 0..Len(s) /\ dest.state \in {"none", "whole"}
  BY DEF Log!LogAt, Log!LogTypes
<1>4. s \in Seq(Log!Piece) /\ Len(s) \in Nat /\ m \in 0..Len(s) /\ n \in 0..Len(s) /\ durable <= n /\ durable \in Nat
  BY <1>1, <1>3
<1>5. /\ \A i \in 1..m : s[i].kind = "whole" /\ s[i].index = i - 1
      /\ \A i \in m + 1..Len(s) : s[i] \in Log!Torn
      /\ m + 1 < Len(s) => s[m + 1].kind = "short"
  BY DEF Log!LogAt, Log!Sound
<1> DEFINE u == SubSeq(s, 1, n)
<1>6. u \in Seq(Log!Piece) /\ Len(u) = n /\ \A i \in 1..n : u[i] = s[i]
  <2>1. \A i \in 1..n : s[i] \in Log!Piece
    BY <1>4
  <2> QED
    BY <1>4, <2>1, SubSeqProperties
<1>7. log.header # "whole" => s = <<>>
  BY DEF Log!LogAt, Log!Headed
<1>8. \A t \in Log!Torn : t \in Log!Piece
  BY DEF Log!Torn, Log!Rest, Log!Piece
<1> HIDE DEF u
<1>9. PICK v \in Seq(Log!Piece) :
        /\ log' = [log EXCEPT !.pieces = v]
        /\ \/ v = u
           \/ n < Len(s) /\ Len(v) = n + 1 /\ v[n + 1] \in Log!Torn /\ \A i \in 1..n : v[i] = u[i]
  <2>1. CASE log' = [log EXCEPT !.pieces = u]
    BY <2>1, <1>6
  <2>2. ASSUME NEW t \in Log!Torn, n < Len(s), log' = [log EXCEPT !.pieces = Append(u, t)]
        PROVE  \E v \in Seq(Log!Piece) :
                 /\ log' = [log EXCEPT !.pieces = v]
                 /\ \/ v = u
                    \/ n < Len(s) /\ Len(v) = n + 1 /\ v[n + 1] \in Log!Torn /\ \A i \in 1..n : v[i] = u[i]
    <3> DEFINE v == Append(u, t)
    <3>1. v \in Seq(Log!Piece) /\ Len(v) = n + 1 /\ v[n + 1] = t /\ \A i \in 1..n : v[i] = u[i]
      BY <1>6, <1>8, AppendProperties
    <3>2. log' = [log EXCEPT !.pieces = v]
      BY <2>2
    <3> HIDE DEF v
    <3>3. v[n + 1] \in Log!Torn
      BY <3>1
    <3> QED
      BY <2>2, <3>1, <3>2, <3>3
  <2> QED
    BY <1>1, <2>1, <2>2 DEF u
<1> DEFINE k == IF n < m THEN n ELSE m
<1>10. Len(v) \in {n, n + 1} /\ (Len(v) # n => n < Len(s) /\ v[n + 1] \in Log!Torn) /\ \A i \in 1..n : v[i] = s[i]
  BY <1>4, <1>6, <1>9
<1>11. \A r \in promised : dest.state = "none" => \E i \in 1..m : i <= durable /\ s[i].record = r
  BY DEF Log!LogAt, Log!PromisedAt
<1>12. dest.state = "whole" => promised \subseteq Log!Range(dest.records)
  BY DEF Log!LogAt, Log!PromisedAt
<1> HIDE DEF s
<1>13. /\ log'.pieces = v /\ log'.header = log.header
       /\ log' \in [header : {"none", "short", "whole"}, key : 0..key, pieces : Seq(Log!Piece)]
  BY <1>3, <1>9
<1>14. k \in 0..Len(v) /\ k <= n /\ k <= m /\ k \in Nat
  BY <1>4, <1>10
<1>15. Log!Sound(k)'
  <2>1. ASSUME NEW i \in 1..k PROVE v[i].kind = "whole" /\ v[i].index = i - 1
    <3>1. i \in 1..m /\ i \in 1..n
      BY <1>4
    <3> QED
      BY <3>1, <1>5, <1>10
  <2>2. ASSUME NEW i \in k + 1..Len(v) PROVE v[i] \in Log!Torn
    <3>1. CASE i = n + 1
      BY <1>4, <1>10, <1>14, <2>2, <3>1
    <3>2. CASE i # n + 1
      <4>1. i \in 1..n /\ i \in m + 1..Len(s)
        BY <1>4, <1>10, <1>14, <2>2, <3>2
      <4> QED
        BY <4>1, <1>5, <1>10
    <3> QED
      BY <3>1, <3>2
  <2>3. k + 1 < Len(v) => v[k + 1].kind = "short"
    <3> SUFFICES ASSUME k + 1 < Len(v) PROVE v[k + 1].kind = "short"
      OBVIOUS
    <3>1. k = m /\ m + 1 \in 1..n /\ m + 1 < Len(s)
      BY <1>4, <1>10
    <3> QED
      BY <3>1, <1>5, <1>10
  <2> HIDE DEF k
  <2> QED
    BY <1>13, <1>14, <2>1, <2>2, <2>3 DEF Log!Sound
<1>16. Log!PromisedAt(k)'
  <2>1. ASSUME NEW r \in promised, dest.state = "none" PROVE \E i \in 1..k : i <= durable /\ v[i].record = r
    <3>1. PICK i \in 1..m : i <= durable /\ s[i].record = r
      BY <1>11, <2>1
    <3>2. i \in 1..k /\ i \in 1..n
      BY <1>4, <3>1
    <3> QED
      BY <1>10, <3>1, <3>2
  <2> HIDE DEF k
  <2> QED
    BY <1>2, <1>3, <1>12, <1>13, <2>1 DEF Log!PromisedAt
<1> HIDE DEF k
<1>17. Log!LogTypes'
  <2>1. durable \in 0..Len(v)
    BY <1>4, <1>10
  <2>2. Log!NoWriter \in [open : BOOLEAN, next : Nat, torn : BOOLEAN]
    BY DEF Log!NoWriter
  <2> QED
    BY <1>2, <1>3, <1>13, <2>1, <2>2 DEF Log!LogTypes
<1>18. Log!Headed'
  <2> SUFFICES ASSUME s = <<>> PROVE v = <<>>
    BY <1>2, <1>7, <1>13 DEF Log!Headed
  <2>1. Len(v) = 0
    BY <1>4, <1>10
  <2> QED
    BY <2>1, EmptySeq
<1>19. Log!WriterFollows(k)'
  BY <1>2 DEF Log!WriterFollows, Log!NoWriter
<1> QED
  BY <1>13, <1>14, <1>15, <1>16, <1>17, <1>18, <1>19 DEF Log!LogInv, Log!LogAt

\* A step that leaves the log as it is.
LEMMA QuietKeeps ==
  ASSUME NEW m \in 0..Len(log.pieces), Log!LogAt(m),
         UNCHANGED <<log, durable, appends, promised>>, key' \in Nat, key <= key',
         \/ writer' = Log!NoWriter
         \/ writer' = writer /\ UNCHANGED <<key, compaction, dest>>,
         compaction'.pc \in {"idle", "write", "rename"}, dest'.state \in {"none", "whole"},
         Log!Headed', Log!PromisedAt(m)'
  PROVE  Log!LogInv'
<1>1. Log!LogTypes'
  <2>1. writer' \in [open : BOOLEAN, next : Nat, torn : BOOLEAN]
    <3>1. Log!NoWriter \in [open : BOOLEAN, next : Nat, torn : BOOLEAN]
      BY DEF Log!NoWriter
    <3>2. writer \in [open : BOOLEAN, next : Nat, torn : BOOLEAN]
      BY DEF Log!LogAt, Log!LogTypes
    <3> QED
      BY <3>1, <3>2
  <2>2. log \in [header : {"none", "short", "whole"}, key : 0..key', pieces : Seq(Log!Piece)]
    <3>1. log \in [header : {"none", "short", "whole"}, key : 0..key, pieces : Seq(Log!Piece)]
      BY DEF Log!LogAt, Log!LogTypes
    <3>2. 0..key \in SUBSET (0..key')
      BY DEF Log!LogAt, Log!LogTypes
    <3> QED
      BY <3>1, <3>2
  <2> QED
    BY <2>1, <2>2 DEF Log!LogAt, Log!LogTypes
<1>2. Log!Sound(m)'
  BY DEF Log!LogAt, Log!Sound
<1>3. Log!WriterFollows(m)'
  <2>1. CASE writer' = Log!NoWriter
    BY <2>1 DEF Log!WriterFollows, Log!NoWriter
  <2>2. CASE writer' = writer /\ UNCHANGED <<key, compaction, dest>>
    BY <2>2 DEF Log!LogAt, Log!WriterFollows
  <2> QED
    BY <2>1, <2>2
<1> QED
  BY <1>1, <1>2, <1>3 DEF Log!LogInv, Log!LogAt

LEMMA LogStep == Log!LogInv /\ [Log!Next]_Log!vars => Log!LogInv'
<1> SUFFICES ASSUME Log!LogInv, [Log!Next]_Log!vars, ~overlaid' PROVE Log!LogInv'
  BY DEF Log!LogInv
<1>1. ~overlaid
  BY DEF Log!Next, Log!vars, Log!Create, Log!CreateFails, Log!OpenAppend, Log!AppendRecord, Log!AppendFails, Log!Sync,
         Log!Close, Log!CompactBegin, Log!CompactWrite, Log!CompactRename, Log!CompactFails, Log!DropLog, Log!Dies,
         Log!PowerLoss, Log!NewKey, Log!History
<1>2. PICK m \in 0..Len(log.pieces) : Log!LogAt(m)
  BY <1>1 DEF Log!LogInv
<1> USE <1>2
<1>3. /\ key \in Nat /\ compaction.pc \in {"idle", "write", "rename"} /\ dest.state \in {"none", "whole"}
      /\ Log!Headed /\ Log!PromisedAt(m) /\ Log!Sound(m) /\ Log!WriterFollows(m) /\ Log!LogTypes
  BY DEF Log!LogAt, Log!LogTypes
<1>4. CASE Log!Create \/ Log!CreateFails
  BY <1>4, CreateKeeps
<1>5. CASE Log!OpenAppend
  BY <1>5, OpenAppendKeeps
<1>6. CASE Log!AppendRecord
  BY <1>6, AppendKeeps
<1>7. CASE Log!AppendFails
  <2>1. compaction.pc = "idle"
    BY <1>3, <1>7 DEF Log!AppendFails, Log!WriterFollows
  <2> QED
    BY <1>7, <2>1, TearingKeeps DEF Log!AppendFails, Log!History, Log!Compacting
<1>8. CASE Log!Sync
  <2>1. /\ writer.open /\ durable' = Len(log.pieces) /\ promised' = {p.record : p \in Log!Range(log.pieces)} \ {0}
        /\ UNCHANGED <<log, writer, appends, key, copy, dest, compaction>>
    BY <1>8 DEF Log!Sync, Log!Compacting
  <2>2. Log!LogTypes'
    BY <1>3, <2>1 DEF Log!LogTypes
  <2>3. Log!Headed' /\ Log!Sound(m)' /\ Log!WriterFollows(m)'
    BY <1>3, <2>1 DEF Log!Headed, Log!Sound, Log!WriterFollows
  <2>4. ASSUME NEW r \in promised' PROVE \E i \in 1..m : i <= durable' /\ log.pieces[i].record = r
    <3>1. PICK i \in DOMAIN log.pieces : log.pieces[i].record = r /\ r # 0
      BY <2>1, <2>4 DEF Log!Range
    <3>2. i \in 1..Len(log.pieces) /\ Len(log.pieces) \in Nat /\ m \in 0..Len(log.pieces)
      BY <1>3 DEF Log!LogTypes
    <3>3. i \notin m + 1..Len(log.pieces)
      BY <1>3, <3>1 DEF Log!Sound, Log!Torn, Log!Rest
    <3>4. i \in 1..m /\ i <= durable'
      BY <2>1, <3>2, <3>3
    <3> QED
      BY <3>1, <3>4
  <2>5. Log!PromisedAt(m)'
    BY <1>3, <2>1, <2>4 DEF Log!PromisedAt, Log!WriterFollows
  <2> QED
    BY <2>1, <2>2, <2>3, <2>5 DEF Log!LogInv, Log!LogAt
<1>9. CASE Log!Close
  BY <1>3, <1>9, QuietKeeps DEF Log!Close, Log!History, Log!Compacting, Log!Headed, Log!PromisedAt
<1>10. CASE Log!CompactBegin
  <2>1. PICK o \in Log!Openings : compaction' = [pc |-> "write", records |-> Log!Recovered(o.key)]
    BY <1>10 DEF Log!CompactBegin
  <2>2. /\ ~writer.open /\ dest.state = "none" /\ log.header = "whole"
        /\ UNCHANGED <<log, durable, writer, key, dest, appends, promised>>
    BY <1>10, <2>1 DEF Log!CompactBegin, Log!History, Log!Openings
  <2>3. promised \subseteq Log!Range(Log!Recovered(o.key))
    BY <1>3, <2>2, ReadsGiveThePromised
  <2>4. Log!PromisedAt(m)'
    BY <1>3, <2>1, <2>2, <2>3 DEF Log!PromisedAt
  <2>5. Log!Headed'
    BY <2>2 DEF Log!Headed
  <2>6. Log!LogTypes'
    BY <1>3, <2>1, <2>2 DEF Log!LogTypes
  <2>7. Log!Sound(m)' /\ Log!WriterFollows(m)'
    BY <1>3, <2>2 DEF Log!Sound, Log!WriterFollows
  <2> QED
    BY <2>2, <2>4, <2>5, <2>6, <2>7 DEF Log!LogInv, Log!LogAt
<1>11. CASE Log!CompactWrite \/ Log!CompactRename \/ Log!CompactFails
  <2>1. /\ compaction.pc # "idle"
        /\ UNCHANGED <<log, durable, writer, key, appends, promised>>
    BY <1>11 DEF Log!CompactWrite, Log!CompactRename, Log!CompactFails, Log!History
  <2>2. ~writer.open /\ log.header = "whole" /\ dest.state = "none"
    BY <1>3, <2>1 DEF Log!WriterFollows, Log!Headed, Log!PromisedAt
  <2>3. compaction'.pc \in {"idle", "write", "rename"} /\ dest'.state \in {"none", "whole"} /\ Log!PromisedAt(m)'
    <3>1. CASE Log!CompactWrite
      <4>1. /\ copy' = [state |-> "whole", records |-> compaction.records] /\ dest' = dest
            /\ compaction'.pc = "rename" /\ compaction'.records = compaction.records
        BY <3>1 DEF Log!CompactWrite
      <4> QED
        BY <1>3, <2>1, <4>1 DEF Log!PromisedAt
    <3>2. CASE Log!CompactRename
      <4>1. compaction.pc = "rename" /\ dest' = copy /\ compaction'.pc = "idle"
        BY <3>2 DEF Log!CompactRename, Log!NoCompaction
      <4> QED
        BY <1>3, <2>1, <4>1 DEF Log!PromisedAt
    <3>3. CASE Log!CompactFails
      <4>1. dest' = dest /\ compaction'.pc = "idle"
        BY <3>3 DEF Log!CompactFails, Log!NoCompaction
      <4> QED
        BY <1>3, <2>1, <4>1 DEF Log!PromisedAt
    <3> QED
      BY <1>11, <3>1, <3>2, <3>3
  <2>4. Log!Headed' /\ Log!LogTypes' /\ Log!Sound(m)' /\ Log!WriterFollows(m)'
    BY <1>3, <2>1, <2>2, <2>3 DEF Log!Headed, Log!LogTypes, Log!Sound, Log!WriterFollows
  <2> QED
    BY <2>1, <2>3, <2>4 DEF Log!LogInv, Log!LogAt
<1>12. CASE Log!DropLog
  <2>1. /\ ~writer.open /\ dest.state = "whole" /\ log' = Log!NoLog /\ durable' = 0
        /\ UNCHANGED <<writer, key, appends, promised, compaction, copy, dest>>
    BY <1>12 DEF Log!DropLog, Log!History, Log!Compacting
  <2>2. log'.pieces = <<>> /\ log'.header = "none" /\ log'.key = 0
        /\ log' \in [header : {"none", "short", "whole"}, key : 0..key, pieces : Seq(Log!Piece)]
    BY <1>3, <2>1 DEF Log!NoLog
  <2>3. compaction.pc = "idle"
    BY <1>3, <2>1 DEF Log!PromisedAt
  <2>4. Log!LogTypes'
    BY <1>3, <2>1, <2>2 DEF Log!LogTypes
  <2>5. Log!Headed' /\ Log!Sound(0)' /\ Log!WriterFollows(0)'
    BY <2>1, <2>2, <2>3 DEF Log!Headed, Log!Sound, Log!WriterFollows
  <2>6. Log!PromisedAt(0)'
    BY <1>3, <2>1, <2>3 DEF Log!PromisedAt
  <2>7. 0 \in 0..Len(log'.pieces)
    BY <2>2
  <2> QED
    BY <2>4, <2>5, <2>6, <2>7 DEF Log!LogInv, Log!LogAt
<1>13. CASE Log!Dies
  <2>1. /\ writer' = Log!NoWriter /\ compaction'.pc = "idle"
        /\ UNCHANGED <<durable, key, copy, dest, appends, promised>>
    BY <1>13 DEF Log!Dies, Log!Down, Log!NoCompaction, Log!History
  <2>2. CASE UNCHANGED log
    BY <1>3, <2>1, <2>2, QuietKeeps DEF Log!Headed, Log!PromisedAt
  <2>3. CASE writer.open /\ log' = [log EXCEPT !.pieces = Append(@, Log!Rest("short"))]
    BY <2>1, <2>3, TearingKeeps
  <2> QED
    BY <1>13, <2>2, <2>3 DEF Log!Dies
<1>14. CASE Log!PowerLoss
  BY <1>14, PowerLossKeeps
<1>15. CASE Log!NewKey
  <2>1. /\ ~writer.open /\ key' = key + 1
        /\ UNCHANGED <<log, durable, writer, appends, promised, compaction, copy, dest>>
    BY <1>15 DEF Log!NewKey, Log!History, Log!Compacting
  <2>2. Log!Headed' /\ Log!Sound(m)' /\ Log!WriterFollows(m)' /\ Log!PromisedAt(m)'
    BY <1>3, <2>1 DEF Log!Headed, Log!Sound, Log!WriterFollows, Log!PromisedAt
  <2>3. Log!LogTypes'
    <3>1. log \in [header : {"none", "short", "whole"}, key : 0..key, pieces : Seq(Log!Piece)]
      BY <1>3 DEF Log!LogTypes
    <3>2. 0..key \in SUBSET (0..key + 1) /\ key + 1 \in Nat
      BY <1>3
    <3>3. log \in [header : {"none", "short", "whole"}, key : 0..key + 1, pieces : Seq(Log!Piece)]
      BY <3>1, <3>2
    <3> QED
      BY <1>3, <2>1, <3>2, <3>3 DEF Log!LogTypes
  <2> QED
    BY <2>1, <2>2, <2>3 DEF Log!LogInv, Log!LogAt
<1>16. CASE UNCHANGED Log!vars
  <2>1. UNCHANGED <<log, durable, appends, promised, writer, key, compaction, copy, dest>>
    BY <1>16 DEF Log!vars
  <2> QED
    BY <1>3, <2>1, QuietKeeps DEF Log!Headed, Log!PromisedAt
<1> QED
  BY <1>4, <1>5, <1>6, <1>7, <1>8, <1>9, <1>10, <1>11, <1>12, <1>13, <1>14, <1>15, <1>16 DEF Log!Next

\* Whatever is interrupted, lost or torn, and however often the key changes: a record that a
\* sync promised is in the compacted file, or is given back by every opening of the log,
\* unless a failed append was followed by another of the same writer (sealed_log.rs).
THEOREM PromisedRecordsOpen == PartsSpec => []PromisedOpens
<1>1. Log!Spec => []Log!LogInv
  BY LogStarts, LogStep, PTL DEF Log!Spec
<1>2. Log!LogInv => PromisedOpens
  BY LogOpensInv DEF PromisedOpens
<1> QED
  BY <1>1, <1>2, PartsAreTheirOwn, PTL

-----------------------------------------------------------------------------
(* What functions add up to (VectorIndex).                                  *)

LEMMA IndexCounts ==
  ASSUME NEW S
  PROVE  (Cache!IsFiniteSet(S) <=> IsFiniteSet(S)) /\ Cache!Cardinality(S) = Cardinality(S)
<1>1. Cache!IsFiniteSet(S) <=> IsFiniteSet(S)
  BY DEF IsFiniteSet, Cache!IsFiniteSet
<1>2. Cache!Cardinality(S) = Cardinality(S)
  BY DEF Cardinality, Cache!Cardinality
<1> QED
  BY <1>1, <1>2

\* Finitely many numbers, and the pairs that Amount counts.
Numbers(f) == IsFiniteSet(DOMAIN f) /\ f = [x \in DOMAIN f |-> f[x]] /\ \A x \in DOMAIN f : f[x] \in Nat
Units(f) == UNION {{x} \X (1..f[x]) : x \in DOMAIN f}
Only(f, S) == [x \in S |-> f[x]]

LEMMA AmountIs ==
  ASSUME NEW f, Numbers(f)
  PROVE  /\ IsFiniteSet(Units(f)) /\ Cache!Amount(f) = Cardinality(Units(f))
         /\ Cache!Amount(f) \in Nat
<1> DEFINE all == {{x} \X (1..f[x]) : x \in DOMAIN f}
           of == [x \in DOMAIN f |-> {x} \X (1..f[x])]
<1>1. \A x \in DOMAIN f : IsFiniteSet({x} \X (1..f[x]))
  <2> SUFFICES ASSUME NEW x \in DOMAIN f PROVE IsFiniteSet({x} \X (1..f[x]))
    OBVIOUS
  <2> DEFINE top == f[x]
  <2>1. 1 \in Int /\ top \in Int
    BY DEF Numbers
  <2> HIDE DEF top
  <2>2. IsFiniteSet(1..top) /\ IsFiniteSet({x})
    BY <2>1, FS_Interval, FS_Singleton
  <2>3. IsFiniteSet({x} \X (1..top))
    BY <2>2, FS_Product
  <2> QED
    BY <2>3 DEF top
<1>2. of \in Surjection(DOMAIN f, all)
  BY DEF Surjection
<1>3. IsFiniteSet(all)
  BY <1>2, FS_Surjection DEF Numbers
<1>4. IsFiniteSet(UNION all)
  <2>1. \A a \in all : IsFiniteSet(a)
    BY <1>1
  <2> HIDE DEF all
  <2> QED
    BY <1>3, <2>1, FS_UNION
<1>5. Cache!Amount(f) = Cardinality(Units(f))
  BY IndexCounts DEF Cache!Amount, Units
<1> QED
  BY <1>4, <1>5, FS_CardinalityType DEF Units

LEMMA AmountOfNone ==
  ASSUME NEW f, DOMAIN f = {}
  PROVE  Cache!Amount(f) = 0
<1>1. UNION {{x} \X (1..f[x]) : x \in DOMAIN f} = {}
  OBVIOUS
<1> QED
  BY <1>1, IndexCounts, FS_EmptySet DEF Cache!Amount

LEMMA OnlyIs ==
  ASSUME NEW f, Numbers(f), NEW S \in SUBSET DOMAIN f
  PROVE  Numbers(Only(f, S)) /\ DOMAIN Only(f, S) = S
<1>1. IsFiniteSet(S)
  BY FS_Subset DEF Numbers
<1> QED
  BY <1>1 DEF Numbers, Only

LEMMA AmountOfTwo ==
  ASSUME NEW f, Numbers(f), NEW S \in SUBSET DOMAIN f
  PROVE  Cache!Amount(f) = Cache!Amount(Only(f, S)) + Cache!Amount(Only(f, DOMAIN f \ S))
<1> DEFINE T == DOMAIN f \ S
<1>1. Numbers(Only(f, S)) /\ Numbers(Only(f, T))
  BY OnlyIs
<1>2. Units(f) = Units(Only(f, S)) \cup Units(Only(f, T))
  BY DEF Units, Only
<1>3. Units(Only(f, S)) \cap Units(Only(f, T)) = {}
  BY DEF Units, Only
<1>4. IsFiniteSet(Units(Only(f, S))) /\ IsFiniteSet(Units(Only(f, T)))
  BY <1>1, AmountIs
<1>5. Cardinality(Units(f)) = Cardinality(Units(Only(f, S))) + Cardinality(Units(Only(f, T))) - Cardinality({})
  BY <1>2, <1>3, <1>4, FS_Union
<1>6. Cache!Amount(f) = Cardinality(Units(f))
  BY AmountIs
<1>7. /\ Cache!Amount(Only(f, S)) = Cardinality(Units(Only(f, S)))
      /\ Cache!Amount(Only(f, T)) = Cardinality(Units(Only(f, T)))
      /\ Cache!Amount(Only(f, S)) \in Nat /\ Cache!Amount(Only(f, T)) \in Nat
  BY <1>1, AmountIs
<1>8. Cardinality({}) = 0
  BY FS_EmptySet
<1> QED
  BY <1>5, <1>6, <1>7, <1>8

LEMMA AmountOfOne ==
  ASSUME NEW f, Numbers(f), NEW a, DOMAIN f = {a}
  PROVE  Cache!Amount(f) = f[a]
<1> DEFINE n == f[a]
           pair == [u \in 1..n |-> <<a, u>>]
<1>1. Units(f) = {a} \X (1..n)
  BY DEF Units
<1>2. pair \in Bijection(1..n, Units(f))
  <2>1. pair \in Injection(1..n, Units(f))
    BY <1>1 DEF Injection, IsInjective
  <2>2. pair \in Surjection(1..n, Units(f))
    BY <1>1 DEF Surjection
  <2> QED
    BY <2>1, <2>2 DEF Bijection
<1>3. n \in Nat
  BY DEF Numbers
<1> HIDE DEF n, pair
<1>4. IsFiniteSet(1..n) /\ Cardinality(1..n) = n
  BY <1>3, FS_Interval
<1>5. Cardinality(Units(f)) = n
  BY <1>2, <1>4, FS_Bijection DEF ExistsBijection
<1> QED
  BY <1>5, AmountIs DEF n

\* One taken away, one added, and one changed.
LEMMA AmountWithout ==
  ASSUME NEW f, Numbers(f), NEW a \in DOMAIN f
  PROVE  /\ Cache!Amount(Only(f, DOMAIN f \ {a})) = Cache!Amount(f) - f[a]
         /\ Cache!Amount(Only(f, DOMAIN f \ {a})) \in Nat
<1>1. Numbers(Only(f, {a})) /\ DOMAIN Only(f, {a}) = {a} /\ Numbers(Only(f, DOMAIN f \ {a}))
  BY OnlyIs
<1>2. Cache!Amount(Only(f, {a})) = f[a]
  <2>1. Cache!Amount(Only(f, {a})) = Only(f, {a})[a]
    BY <1>1, AmountOfOne
  <2> QED
    BY <2>1 DEF Only
<1>3. Cache!Amount(f) = Cache!Amount(Only(f, {a})) + Cache!Amount(Only(f, DOMAIN f \ {a}))
  BY AmountOfTwo
<1>4. Cache!Amount(Only(f, DOMAIN f \ {a})) \in Nat /\ f[a] \in Nat
  BY <1>1, AmountIs DEF Numbers
<1> QED
  BY <1>2, <1>3, <1>4

LEMMA AmountOfMore ==
  ASSUME NEW f, Numbers(f), NEW g, g = [x \in DOMAIN g |-> g[x]], NEW a, a \notin DOMAIN f,
         DOMAIN g = DOMAIN f \cup {a}, \A x \in DOMAIN f : g[x] = f[x], g[a] \in Nat
  PROVE  Numbers(g) /\ Cache!Amount(g) = Cache!Amount(f) + g[a]
<1>1. Numbers(g)
  <2>1. IsFiniteSet(DOMAIN f \cup {a})
    BY FS_AddElement DEF Numbers
  <2> QED
    BY <2>1 DEF Numbers
<1>2. Only(g, DOMAIN g \ {a}) = f
  <2>1. DOMAIN g \ {a} = DOMAIN f
    OBVIOUS
  <2>2. [x \in DOMAIN f |-> g[x]] = [x \in DOMAIN f |-> f[x]]
    OBVIOUS
  <2>3. f = [x \in DOMAIN f |-> f[x]]
    BY DEF Numbers
  <2> QED
    BY <2>1, <2>2, <2>3 DEF Only
<1>3. Cache!Amount(f) = Cache!Amount(g) - g[a]
  BY <1>1, <1>2, AmountWithout
<1>4. Cache!Amount(f) \in Nat /\ Cache!Amount(g) \in Nat
  BY <1>1, AmountIs
<1> QED
  BY <1>1, <1>3, <1>4

LEMMA AmountOfChanged ==
  ASSUME NEW f, Numbers(f), NEW g, g = [x \in DOMAIN g |-> g[x]], NEW a \in DOMAIN f,
         DOMAIN g = DOMAIN f, \A x \in DOMAIN f \ {a} : g[x] = f[x], g[a] \in Nat
  PROVE  Numbers(g) /\ Cache!Amount(g) = (Cache!Amount(f) - f[a]) + g[a]
<1>1. Numbers(g)
  BY DEF Numbers
<1>2. Only(g, DOMAIN g \ {a}) = Only(f, DOMAIN f \ {a})
  BY DEF Only
<1>3. Cache!Amount(Only(f, DOMAIN f \ {a})) = Cache!Amount(f) - f[a]
  BY AmountWithout
<1>4. Cache!Amount(Only(g, DOMAIN g \ {a})) = Cache!Amount(g) - g[a]
  BY <1>1, AmountWithout
<1>5. Cache!Amount(f) \in Nat /\ Cache!Amount(g) \in Nat /\ f[a] \in Nat
  BY <1>1, AmountIs DEF Numbers
<1> QED
  BY <1>1, <1>2, <1>3, <1>4, <1>5

\* A part is no more than the whole.
LEMMA AmountOfFewer ==
  ASSUME NEW f, Numbers(f), NEW S \in SUBSET DOMAIN f
  PROVE  Cache!Amount(Only(f, S)) <= Cache!Amount(f)
<1>1. Numbers(Only(f, S)) /\ Numbers(Only(f, DOMAIN f \ S))
  BY OnlyIs
<1>2. Cache!Amount(Only(f, S)) \in Nat /\ Cache!Amount(Only(f, DOMAIN f \ S)) \in Nat
  BY <1>1, AmountIs
<1>3. Cache!Amount(f) = Cache!Amount(Only(f, S)) + Cache!Amount(Only(f, DOMAIN f \ S))
  BY AmountOfTwo
<1> QED
  BY <1>2, <1>3

-----------------------------------------------------------------------------
(* Partitions (VectorIndex).                                                *)

LEMMA VectorIs ==
  ASSUME Cache!IndexAssumption, NEW v \in Cache!Vector
  PROVE  v.id \in Id /\ v.dims \in Dims /\ Cache!Bytes(v) \in Nat
<1>1. v.id \in Id /\ v.dims \in Dims
  BY DEF Cache!Vector
<1>2. v.dims \in Nat
  BY <1>1 DEF Cache!IndexAssumption
<1>3. Cache!Bytes(v) = v.dims + 1
  BY DEF Cache!Bytes, Cache!Overhead
<1> QED
  BY <1>1, <1>2, <1>3

LEMMA SizesAre ==
  ASSUME Cache!IndexAssumption, NEW vectors \in Seq(Cache!Vector)
  PROVE  /\ Numbers(Cache!Sizes(vectors)) /\ DOMAIN Cache!Sizes(vectors) = 1..Len(vectors)
         /\ \A n \in 1..Len(vectors) : Cache!Sizes(vectors)[n] = Cache!Bytes(vectors[n])
         /\ Cache!Amount(Cache!Sizes(vectors)) \in Nat
<1>1. DOMAIN vectors = 1..Len(vectors) /\ Len(vectors) \in Nat /\ \A n \in 1..Len(vectors) : vectors[n] \in Cache!Vector
  OBVIOUS
<1>2. IsFiniteSet(1..Len(vectors))
  BY <1>1, FS_Interval
<1>3. /\ DOMAIN Cache!Sizes(vectors) = 1..Len(vectors)
      /\ \A n \in 1..Len(vectors) : Cache!Sizes(vectors)[n] = Cache!Bytes(vectors[n])
      /\ Cache!Sizes(vectors) = [n \in 1..Len(vectors) |-> Cache!Sizes(vectors)[n]]
  BY <1>1 DEF Cache!Sizes
<1>4. Numbers(Cache!Sizes(vectors))
  BY <1>1, <1>2, <1>3, VectorIs DEF Numbers
<1> QED
  BY <1>3, <1>4, AmountIs

\* The bytes of a partition are those of its vectors, which are where it says.
Right(p) ==
  /\ Cache!IsPartition(p) /\ Cache!Places(p)
  /\ p.bytes = Cache!Amount(Cache!Sizes(p.vectors))

LEMMA EmptyIsRight == Right(Cache!Empty)
<1> DEFINE e == Cache!Empty
<1>1. e.vectors = <<>> /\ e.position = <<>> /\ e.bytes = 0 /\ e = [vectors |-> <<>>, position |-> <<>>, bytes |-> 0]
  BY DEF Cache!Empty
<1>2. DOMAIN e.position = {} /\ DOMAIN e.vectors = {} /\ e.vectors \in Seq(Cache!Vector)
      /\ e.position = [id \in {} |-> e.position[id]]
  <2>1. DOMAIN <<>> = {} /\ <<>> = [id \in {} |-> <<>>[id]] /\ <<>> \in Seq(Cache!Vector)
    OBVIOUS
  <2> QED
    BY <2>1, <1>1
<1>3. Cache!IsPartition(e)
  BY <1>1, <1>2 DEF Cache!IsPartition
<1>4. Cache!Amount(Cache!Sizes(e.vectors)) = 0
  BY <1>2, AmountOfNone DEF Cache!Sizes
<1>5. Cache!Places(e)
  BY <1>2 DEF Cache!Places
<1> QED
  BY <1>1, <1>3, <1>4, <1>5 DEF Right

LEMMA PutInPlace ==
  ASSUME Cache!IndexAssumption, NEW p, Right(p), NEW v \in Cache!Vector, v.id \in DOMAIN p.position
  PROVE  Right(Cache!Put(p, v))
<1> DEFINE n == p.position[v.id]
           w == [p.vectors EXCEPT ![n] = v]
           q == Cache!Put(p, v)
<1>1. /\ p.vectors \in Seq(Cache!Vector) /\ DOMAIN p.position \subseteq Id /\ p.bytes \in Nat
      /\ p.position = [id \in DOMAIN p.position |-> p.position[id]]
      /\ p = [vectors |-> p.vectors, position |-> p.position, bytes |-> p.bytes]
  BY DEF Right, Cache!IsPartition
<1>2. DOMAIN p.vectors = 1..Len(p.vectors) /\ Len(p.vectors) \in Nat
  BY <1>1
<1>3. n \in 1..Len(p.vectors) /\ p.vectors[n].id = v.id
  BY <1>2 DEF Right, Cache!Places
<1>4. w \in Seq(Cache!Vector) /\ Len(w) = Len(p.vectors) /\ DOMAIN w = 1..Len(p.vectors)
      /\ w[n] = v /\ \A i \in 1..Len(p.vectors) : i # n => w[i] = p.vectors[i]
  BY <1>1, <1>2, <1>3
<1>5. q = [vectors |-> w, position |-> p.position, bytes |-> p.bytes + Cache!Bytes(v) - Cache!Bytes(p.vectors[n])]
  <2>1. q = [p EXCEPT !.vectors[n] = v, !.bytes = @ + Cache!Bytes(v) - Cache!Bytes(p.vectors[n])]
    BY DEF Cache!Put
  <2> QED
    BY <1>1, <2>1
<1>6. q.vectors = w /\ q.position = p.position /\ q.bytes = p.bytes + Cache!Bytes(v) - Cache!Bytes(p.vectors[n])
  BY <1>5
<1> DEFINE f == Cache!Sizes(p.vectors)
           g == Cache!Sizes(w)
<1>7. /\ Numbers(f) /\ DOMAIN f = 1..Len(p.vectors) /\ f[n] = Cache!Bytes(p.vectors[n])
      /\ Numbers(g) /\ DOMAIN g = 1..Len(p.vectors) /\ g[n] = Cache!Bytes(v)
      /\ \A i \in 1..Len(p.vectors) : i # n => g[i] = f[i]
      /\ Cache!Amount(f) \in Nat /\ Cache!Amount(g) \in Nat
  <2>1. /\ Numbers(f) /\ DOMAIN f = 1..Len(p.vectors) /\ Cache!Amount(f) \in Nat
        /\ \A i \in 1..Len(p.vectors) : f[i] = Cache!Bytes(p.vectors[i])
    BY <1>1, SizesAre
  <2>2. /\ Numbers(g) /\ DOMAIN g = 1..Len(w) /\ Cache!Amount(g) \in Nat
        /\ \A i \in 1..Len(w) : g[i] = Cache!Bytes(w[i])
    <3> HIDE DEF w
    <3> QED
      BY <1>4, SizesAre
  <2> HIDE DEF f, g, w, n
  <2> QED
    BY <2>1, <2>2, <1>3, <1>4
<1>8. Cache!Bytes(v) \in Nat /\ Cache!Bytes(p.vectors[n]) \in Nat
  BY <1>1, <1>3, VectorIs
<1>9. Cache!Amount(g) = (Cache!Amount(f) - Cache!Bytes(p.vectors[n])) + Cache!Bytes(v)
  <2>1. g = [i \in DOMAIN g |-> g[i]]
    BY <1>7 DEF Numbers
  <2>2. n \in DOMAIN f /\ DOMAIN g = DOMAIN f /\ \A i \in DOMAIN f \ {n} : g[i] = f[i]
    BY <1>3, <1>7
  <2>3. g[n] \in Nat /\ g[n] = Cache!Bytes(v) /\ f[n] = Cache!Bytes(p.vectors[n])
    BY <1>7, <1>8
  <2> HIDE DEF f, g, n
  <2>4. Cache!Amount(g) = (Cache!Amount(f) - f[n]) + g[n]
    BY <2>1, <2>2, <2>3, <1>7, AmountOfChanged
  <2> QED
    BY <2>3, <2>4
<1>10. q.bytes = Cache!Amount(Cache!Sizes(q.vectors)) /\ q.bytes \in Nat
  <2>1. p.bytes = Cache!Amount(f)
    BY DEF Right
  <2> HIDE DEF f, g, n, w, q
  <2>2. q.bytes = Cache!Amount(g)
    BY <2>1, <1>6, <1>7, <1>8, <1>9
  <2> QED
    BY <2>2, <1>6, <1>7 DEF g
<1>11. Cache!Places(q)
  <2>1. \A i \in DOMAIN w : w[i].id = p.vectors[i].id
    BY <1>3, <1>4
  <2>2. Cache!Places(p)
    BY DEF Right
  <2> HIDE DEF q, w, n
  <2> QED
    BY <2>1, <2>2, <1>2, <1>4, <1>6 DEF Cache!Places
<1>12. Cache!IsPartition(q)
  <2> HIDE DEF q, w, n
  <2> QED
    BY <1>1, <1>4, <1>5, <1>6, <1>10 DEF Cache!IsPartition
<1> QED
  BY <1>10, <1>11, <1>12 DEF Right

LEMMA PutAtTheEnd ==
  ASSUME Cache!IndexAssumption, NEW p, Right(p), NEW v \in Cache!Vector, v.id \notin DOMAIN p.position
  PROVE  Right(Cache!Put(p, v))
<1> DEFINE n == Len(p.vectors) + 1
           w == Append(p.vectors, v)
           at == Cache!With(p.position, v.id, n)
           q == Cache!Put(p, v)
<1>1. /\ p.vectors \in Seq(Cache!Vector) /\ DOMAIN p.position \subseteq Id /\ p.bytes \in Nat
      /\ Cache!Places(p) /\ v.id \in Id
  BY VectorIs DEF Right, Cache!IsPartition
<1>2. DOMAIN p.vectors = 1..Len(p.vectors) /\ Len(p.vectors) \in Nat
  BY <1>1
<1>3. w \in Seq(Cache!Vector) /\ Len(w) = n /\ DOMAIN w = 1..n
      /\ w[n] = v /\ \A i \in 1..Len(p.vectors) : w[i] = p.vectors[i]
  BY <1>1, <1>2
<1>4. /\ DOMAIN at = DOMAIN p.position \cup {v.id} /\ at[v.id] = n
      /\ \A id \in DOMAIN p.position : at[id] = p.position[id]
      /\ at = [id \in DOMAIN at |-> at[id]]
  BY DEF Cache!With
<1>5. q = [vectors |-> w, position |-> at, bytes |-> p.bytes + Cache!Bytes(v)]
  BY DEF Cache!Put
<1>6. q.vectors = w /\ q.position = at /\ q.bytes = p.bytes + Cache!Bytes(v)
  BY <1>5
<1> DEFINE f == Cache!Sizes(p.vectors)
           g == Cache!Sizes(w)
<1> HIDE DEF q, w, at
<1>7. /\ Numbers(f) /\ DOMAIN f = 1..Len(p.vectors) /\ Cache!Amount(f) \in Nat
      /\ \A i \in 1..Len(p.vectors) : f[i] = Cache!Bytes(p.vectors[i])
  BY <1>1, SizesAre
<1>8. /\ Numbers(g) /\ DOMAIN g = 1..n /\ Cache!Amount(g) \in Nat
      /\ \A i \in 1..n : g[i] = Cache!Bytes(w[i])
  <2> HIDE DEF n
  <2> QED
    BY <1>3, SizesAre
<1>9. Cache!Bytes(v) \in Nat
  BY VectorIs
<1>10. Cache!Amount(g) = Cache!Amount(f) + Cache!Bytes(v)
  <2>1. g = [i \in DOMAIN g |-> g[i]]
    BY <1>8 DEF Numbers
  <2>2. 1..n = 1..Len(p.vectors) \cup {n} /\ n \notin 1..Len(p.vectors)
    BY <1>2
  <2>3. \A i \in 1..Len(p.vectors) : g[i] = f[i]
    BY <2>2, <1>3, <1>7, <1>8
  <2>4. g[n] = Cache!Bytes(v) /\ g[n] \in Nat
    BY <2>2, <1>3, <1>8, <1>9
  <2> HIDE DEF f, g, n
  <2>5. Cache!Amount(g) = Cache!Amount(f) + g[n]
    <3>1. n \notin DOMAIN f /\ DOMAIN g = DOMAIN f \cup {n} /\ \A i \in DOMAIN f : g[i] = f[i]
      BY <2>2, <2>3, <1>7, <1>8
    <3>2. Numbers(f)
      BY <1>7
    <3> QED
      BY <3>1, <3>2, <2>1, <2>4, AmountOfMore
  <2> QED
    BY <2>4, <2>5
<1>11. q.bytes = Cache!Amount(Cache!Sizes(q.vectors)) /\ q.bytes \in Nat
  <2>1. p.bytes = Cache!Amount(f)
    BY DEF Right
  <2> HIDE DEF f
  <2>2. q.bytes = Cache!Amount(g)
    BY <2>1, <1>6, <1>10
  <2> QED
    BY <2>2, <1>6, <1>8
<1>12. Cache!Places(q)
  <2>1. 1..n = 1..Len(p.vectors) \cup {n} /\ n \notin 1..Len(p.vectors)
    BY <1>2
  <2>2. ASSUME NEW i \in DOMAIN w PROVE w[i].id \in DOMAIN at /\ at[w[i].id] = i
    <3>1. CASE i = n
      BY <3>1, <1>3, <1>4
    <3>2. CASE i # n
      <4>1. i \in DOMAIN p.vectors /\ w[i] = p.vectors[i]
        BY <3>2, <2>1, <1>2, <1>3
      <4>2. w[i].id \in DOMAIN p.position /\ p.position[w[i].id] = i
        BY <4>1, <1>1 DEF Cache!Places
      <4> QED
        BY <4>2, <1>4
    <3> QED
      BY <3>1, <3>2
  <2>3. ASSUME NEW id \in DOMAIN at PROVE at[id] \in DOMAIN w /\ w[at[id]].id = id
    <3>1. CASE id = v.id
      BY <3>1, <2>1, <1>3, <1>4
    <3>2. CASE id # v.id
      <4>1. id \in DOMAIN p.position /\ at[id] = p.position[id]
        BY <3>2, <1>4
      <4>2. p.position[id] \in 1..Len(p.vectors) /\ p.vectors[p.position[id]].id = id
        BY <4>1, <1>1, <1>2 DEF Cache!Places
      <4> QED
        BY <4>1, <4>2, <2>1, <1>3
    <3> QED
      BY <3>1, <3>2
  <2> QED
    BY <2>2, <2>3, <1>6 DEF Cache!Places
<1>13. Cache!IsPartition(q)
  <2>1. DOMAIN at \subseteq Id
    BY <1>1, <1>4
  <2>2. q = [vectors |-> q.vectors, position |-> [id \in DOMAIN q.position |-> q.position[id]], bytes |-> q.bytes]
    BY <1>4, <1>5, <1>6
  <2> QED
    BY <2>1, <2>2, <1>3, <1>6, <1>11 DEF Cache!IsPartition
<1> QED
  BY <1>11, <1>12, <1>13 DEF Right, q

LEMMA PutIsRight ==
  ASSUME Cache!IndexAssumption, NEW p, Right(p), NEW v \in Cache!Vector
  PROVE  Right(Cache!Put(p, v))
BY PutInPlace, PutAtTheEnd

\* What holds of 0, and of n + 1 if it holds of n, holds of every number.
LEMMA NumbersFollow ==
  ASSUME NEW S, 0 \in S, \A n \in Nat : n \in S => n + 1 \in S
  PROVE  Nat \subseteq S
<1> SUFFICES ASSUME Nat \ S # {} PROVE FALSE
  OBVIOUS
<1>1. PICK m \in Nat \ S : \A k \in Nat \ S : m <= k
  BY Least
<1>2. m - 1 \in Nat /\ m - 1 \in S
  BY <1>1
<1>3. (m - 1) + 1 \in S
  BY <1>2
<1> QED
  BY <1>1, <1>3


LEMMA SwapRemoves ==
  ASSUME Cache!IndexAssumption, NEW u \in Seq(Cache!Vector), NEW n \in 1..Len(u)
  PROVE  /\ Cache!SwapRemoved(u, n) \in Seq(Cache!Vector)
         /\ Len(Cache!SwapRemoved(u, n)) = Len(u) - 1
         /\ \A i \in 1..Len(u) - 1 : Cache!SwapRemoved(u, n)[i] = (IF i = n THEN u[Len(u)] ELSE u[i])
         /\ Cache!Amount(Cache!Sizes(Cache!SwapRemoved(u, n))) = Cache!Amount(Cache!Sizes(u)) - Cache!Bytes(u[n])
<1> DEFINE w == Cache!SwapRemoved(u, n)
           k == Len(u) - 1
           f == Cache!Sizes(u)
           g == Cache!Sizes(w)
           h == Only(f, 1..k)
<1>1. k \in Nat /\ Len(u) = k + 1 /\ k + 1 \in 1..Len(u) /\ 1..Len(u) = 1..k \cup {k + 1} /\ k + 1 \notin 1..k
  OBVIOUS
<1>2. w \in Seq(Cache!Vector) /\ Len(w) = k /\ \A i \in 1..k : w[i] = (IF i = n THEN u[k + 1] ELSE u[i])
  <2>1. \A i \in 1..Len(u) : u[i] \in Cache!Vector
    OBVIOUS
  <2>2. w = [i \in 1..k |-> IF i = n THEN u[k + 1] ELSE u[i]]
    BY <1>1 DEF Cache!SwapRemoved
  <2>3. \A i \in 1..k : (IF i = n THEN u[k + 1] ELSE u[i]) \in Cache!Vector
    BY <2>1, <1>1
  <2>4. w \in [1..k -> Cache!Vector]
    BY <2>2, <2>3
  <2> HIDE DEF w, k
  <2> QED
    BY <2>2, <2>4, <1>1
<1> HIDE DEF k, w
<1>3. /\ Numbers(f) /\ DOMAIN f = 1..Len(u) /\ Cache!Amount(f) \in Nat
      /\ \A i \in 1..Len(u) : f[i] = Cache!Bytes(u[i])
  BY SizesAre
<1>4. /\ Numbers(g) /\ DOMAIN g = 1..k /\ Cache!Amount(g) \in Nat
      /\ \A i \in 1..k : g[i] = Cache!Bytes(w[i])
  BY <1>2, SizesAre
<1>5. g = [i \in DOMAIN g |-> g[i]]
  BY <1>4 DEF Numbers
<1>6. \A i \in 1..Len(u) : Cache!Bytes(u[i]) \in Nat
  BY VectorIs
<1> HIDE DEF f, g
<1>7. /\ Cache!Amount(h) = Cache!Amount(f) - f[k + 1] /\ Cache!Amount(h) \in Nat
      /\ Numbers(h) /\ DOMAIN h = 1..k /\ \A i \in 1..k : h[i] = f[i]
  <2>1. DOMAIN f \ {k + 1} = 1..k /\ k + 1 \in DOMAIN f
    BY <1>1, <1>3
  <2>2. Cache!Amount(Only(f, DOMAIN f \ {k + 1})) = Cache!Amount(f) - f[k + 1]
        /\ Cache!Amount(Only(f, DOMAIN f \ {k + 1})) \in Nat
    BY <2>1, <1>3, AmountWithout
  <2>3. Numbers(h) /\ DOMAIN h = 1..k
    BY <2>1, <1>3, OnlyIs
  <2> QED
    BY <2>1, <2>2, <2>3 DEF Only
<1> HIDE DEF h
<1>8. Cache!Amount(g) = Cache!Amount(f) - f[n]
  <2>1. CASE n = k + 1
    <3>1. \A i \in 1..k : g[i] = h[i]
      <4> SUFFICES ASSUME NEW i \in 1..k PROVE g[i] = h[i]
        OBVIOUS
      <4>1. i # n /\ i \in 1..Len(u)
        BY <1>1, <2>1
      <4> QED
        BY <4>1, <1>2, <1>3, <1>4, <1>7
    <3>2. h = [i \in DOMAIN h |-> h[i]]
      BY <1>7 DEF Numbers
    <3>3. g = h
      BY <3>1, <3>2, <1>4, <1>5, <1>7
    <3> QED
      BY <3>3, <1>7, <2>1
  <2>2. CASE n # k + 1
    <3>1. n \in 1..k
      BY <1>1, <2>2
    <3>2. \A i \in 1..k : i # n => g[i] = h[i]
      <4> SUFFICES ASSUME NEW i \in 1..k, i # n PROVE g[i] = h[i]
        OBVIOUS
      <4>1. i \in 1..Len(u)
        BY <1>1
      <4> QED
        BY <4>1, <1>2, <1>3, <1>4, <1>7
    <3>3. g[n] = f[k + 1] /\ g[n] \in Nat
      BY <3>1, <1>1, <1>2, <1>3, <1>4, <1>6
    <3>4. n \in DOMAIN h /\ DOMAIN g = DOMAIN h /\ \A i \in DOMAIN h \ {n} : g[i] = h[i]
      BY <3>1, <3>2, <1>4, <1>7
    <3>5. Numbers(h)
      BY <1>7
    <3>6. Cache!Amount(g) = (Cache!Amount(h) - h[n]) + g[n]
      BY <3>3, <3>4, <3>5, <1>5, AmountOfChanged
    <3>7. h[n] = f[n] /\ f[n] \in Nat /\ f[k + 1] \in Nat
      BY <3>1, <1>1, <1>3, <1>6, <1>7
    <3> QED
      BY <3>3, <3>6, <3>7, <1>3, <1>7
  <2> QED
    BY <2>1, <2>2
<1>9. Cache!Amount(g) = Cache!Amount(f) - Cache!Bytes(u[n])
  BY <1>3, <1>8
<1> QED
  BY <1>1, <1>2, <1>9 DEF w, k, f, g

LEMMA TakeIsRight ==
  ASSUME Cache!IndexAssumption, NEW p, Right(p), NEW id \in DOMAIN p.position
  PROVE  Right(Cache!Take(p, id)) /\ Cache!Take(p, id).bytes <= p.bytes
<1> DEFINE n == p.position[id]
           u == p.vectors
           w == Cache!SwapRemoved(u, n)
           k == Len(u) - 1
           moved == u[Len(u)].id
           at == Cache!Without([p.position EXCEPT ![moved] = n], {id})
           q == Cache!Take(p, id)
<1>1. /\ u \in Seq(Cache!Vector) /\ DOMAIN p.position \subseteq Id /\ p.bytes \in Nat
      /\ Cache!Places(p) /\ p.position = [x \in DOMAIN p.position |-> p.position[x]]
  BY DEF Right, Cache!IsPartition
<1>2. DOMAIN u = 1..Len(u) /\ Len(u) \in Nat
  BY <1>1
<1>3. n \in 1..Len(u) /\ u[n].id = id
  BY <1>2 DEF Right, Cache!Places
<1>4. k \in Nat /\ Len(u) = k + 1 /\ 1..Len(u) = 1..k \cup {k + 1} /\ k + 1 \notin 1..k
  BY <1>2, <1>3
<1>5. moved \in DOMAIN p.position /\ p.position[moved] = k + 1
  BY <1>1, <1>2, <1>4 DEF Cache!Places
<1>6. /\ w \in Seq(Cache!Vector) /\ Len(w) = k
      /\ \A i \in 1..k : w[i] = (IF i = n THEN u[k + 1] ELSE u[i])
      /\ Cache!Amount(Cache!Sizes(w)) = Cache!Amount(Cache!Sizes(u)) - Cache!Bytes(u[n])
  <2>1. u \in Seq(Cache!Vector) /\ n \in 1..Len(u)
    BY <1>1, <1>3
  <2> HIDE DEF u, n
  <2>2. /\ w \in Seq(Cache!Vector) /\ Len(w) = Len(u) - 1
        /\ \A i \in 1..Len(u) - 1 : w[i] = (IF i = n THEN u[Len(u)] ELSE u[i])
        /\ Cache!Amount(Cache!Sizes(w)) = Cache!Amount(Cache!Sizes(u)) - Cache!Bytes(u[n])
    BY <2>1, SwapRemoves
  <2> HIDE DEF w
  <2> QED
    BY <2>2, <1>4
<1>7. /\ DOMAIN at = DOMAIN p.position \ {id} /\ at = [x \in DOMAIN at |-> at[x]]
      /\ \A x \in DOMAIN at : at[x] = IF x = moved THEN n ELSE p.position[x]
  <2> HIDE DEF n, moved
  <2> QED
    BY <1>1, <1>5 DEF Cache!Without
<1>8. q = [vectors |-> w, position |-> at, bytes |-> p.bytes - Cache!Bytes(u[n])]
  BY DEF Cache!Take
<1>9. q.vectors = w /\ q.position = at /\ q.bytes = p.bytes - Cache!Bytes(u[n])
  BY <1>8
<1>10. q.bytes = Cache!Amount(Cache!Sizes(w)) /\ Cache!Amount(Cache!Sizes(w)) \in Nat /\ Cache!Bytes(u[n]) \in Nat
  <2>1. p.bytes = Cache!Amount(Cache!Sizes(u))
    BY DEF Right
  <2>2. Cache!Bytes(u[n]) \in Nat
    BY <1>1, <1>3, VectorIs
  <2> HIDE DEF w, u, n, q
  <2>3. Cache!Amount(Cache!Sizes(w)) \in Nat
    BY <1>6, SizesAre
  <2> QED
    BY <2>1, <2>2, <2>3, <1>6, <1>9
<1>11. u[k + 1].id = moved
  BY <1>4
<1> HIDE DEF q, w, at, moved, u, n, k
<1>12. DOMAIN w = 1..k
  BY <1>6
<1>13. Cache!Places(q)
  <2>1. /\ \A i \in 1..Len(u) : u[i].id \in DOMAIN p.position /\ p.position[u[i].id] = i
        /\ \A x \in DOMAIN p.position : p.position[x] \in 1..Len(u) /\ u[p.position[x]].id = x
    BY <1>1, <1>2 DEF Cache!Places, u
  <2>2. p.position[id] = n
    BY DEF n
  <2>3. ASSUME NEW i \in 1..k PROVE w[i].id \in DOMAIN at /\ at[w[i].id] = i
    <3>1. i \in 1..Len(u) /\ k + 1 \in 1..Len(u) /\ i # k + 1
      BY <1>4
    <3>2. CASE i = n
      <4>1. w[i].id = moved /\ moved # id
        BY <3>1, <3>2, <2>1, <2>2, <1>5, <1>6, <1>11
      <4>2. moved \in DOMAIN at
        BY <4>1, <1>5, <1>7
      <4> QED
        BY <4>1, <4>2, <3>2, <1>7
    <3>3. CASE i # n
      <4>1. w[i] = u[i]
        BY <3>3, <1>6
      <4>2. u[i].id \in DOMAIN p.position /\ p.position[u[i].id] = i
        BY <3>1, <2>1
      <4>3. u[i].id # id /\ u[i].id # moved
        BY <4>2, <3>1, <3>3, <2>2, <1>5
      <4>4. u[i].id \in DOMAIN at
        BY <4>2, <4>3, <1>7
      <4> QED
        BY <4>1, <4>2, <4>3, <4>4, <1>7
    <3> QED
      BY <3>2, <3>3
  <2>4. ASSUME NEW x \in DOMAIN at PROVE at[x] \in 1..k /\ w[at[x]].id = x
    <3>1. x \in DOMAIN p.position /\ x # id
      BY <1>7
    <3>2. p.position[x] \in 1..Len(u) /\ u[p.position[x]].id = x
      BY <3>1, <2>1
    <3>3. CASE x = moved
      <4>1. at[x] = n
        BY <3>3, <1>7
      <4>2. n # k + 1
        BY <3>1, <3>3, <1>3, <1>11
      <4>3. n \in 1..k
        BY <4>2, <1>3, <1>4
      <4>4. w[n] = u[k + 1]
        BY <4>3, <1>6
      <4> QED
        BY <4>1, <4>3, <4>4, <3>3, <1>11
    <3>4. CASE x # moved
      <4>1. at[x] = p.position[x]
        BY <3>4, <1>7
      <4>2. p.position[x] # k + 1
        BY <3>2, <3>4, <1>11
      <4>3. p.position[x] \in 1..k
        BY <4>2, <3>2, <1>4
      <4>4. p.position[x] # n
        BY <3>1, <3>2, <1>3
      <4>5. w[p.position[x]] = u[p.position[x]]
        BY <4>3, <4>4, <1>6
      <4> QED
        BY <4>1, <4>3, <4>5, <3>2
    <3> QED
      BY <3>3, <3>4
  <2> QED
    BY <2>3, <2>4, <1>9, <1>12 DEF Cache!Places
<1>14. Cache!IsPartition(q)
  <2>1. DOMAIN at \subseteq Id
    BY <1>1, <1>7
  <2>2. q = [vectors |-> q.vectors, position |-> [x \in DOMAIN q.position |-> q.position[x]], bytes |-> q.bytes]
    BY <1>7, <1>8, <1>9
  <2> QED
    BY <2>1, <2>2, <1>6, <1>9, <1>10 DEF Cache!IsPartition
<1>15. q.bytes <= p.bytes
  BY <1>1, <1>9, <1>10
<1> QED
  BY <1>9, <1>10, <1>13, <1>14, <1>15 DEF Right, q

\* Vector by vector.
LEMMA BuiltIsRight ==
  ASSUME Cache!IndexAssumption, NEW s \in Seq(Cache!Vector)
  PROVE  Right(Cache!Built(s))
<1> DEFINE Unrolled(g, k) == [n \in 0..k |-> IF n = 0 THEN Cache!Empty ELSE Cache!Put(g[n - 1], s[n])]
           Long == {k \in Nat : k <= Len(s) => \E g : g = Unrolled(g, k)}
           built == CHOOSE g : g = Unrolled(g, Len(s))
<1>0. Len(s) \in Nat
  OBVIOUS
<1>1. 0 \in Long
  <2> DEFINE g == [n \in 0..0 |-> Cache!Empty]
  <2>1. g = Unrolled(g, 0)
    OBVIOUS
  <2> HIDE DEF g
  <2> QED
    BY <2>1
<1>2. ASSUME NEW k \in Nat, k \in Long PROVE k + 1 \in Long
  <2> SUFFICES ASSUME k + 1 <= Len(s) PROVE \E h : h = Unrolled(h, k + 1)
    OBVIOUS
  <2>1. PICK g : g = Unrolled(g, k)
    BY <1>0, <1>2
  <2> DEFINE h == [n \in 0..(k + 1) |-> IF n = k + 1 THEN Cache!Put(g[k], s[k + 1]) ELSE g[n]]
  <2>2. ASSUME NEW n \in 0..(k + 1) PROVE h[n] = IF n = 0 THEN Cache!Empty ELSE Cache!Put(h[n - 1], s[n])
    <3>1. CASE n = k + 1
      <4>1. n # 0 /\ n - 1 = k /\ k \in 0..(k + 1) /\ k # k + 1
        BY <3>1
      <4> QED
        BY <3>1, <4>1
    <3>2. CASE n # k + 1
      <4>1. n \in 0..k /\ (n # 0 => n - 1 \in 0..(k + 1) /\ n - 1 # k + 1)
        BY <3>2
      <4>2. h[n] = g[n] /\ (n # 0 => h[n - 1] = g[n - 1])
        BY <3>2, <4>1
      <4>3. g[n] = IF n = 0 THEN Cache!Empty ELSE Cache!Put(g[n - 1], s[n])
        BY <2>1, <4>1
      <4> HIDE DEF h
      <4> QED
        BY <4>2, <4>3
    <3> QED
      BY <3>1, <3>2
  <2>3. h = [n \in 0..(k + 1) |-> h[n]]
    OBVIOUS
  <2> HIDE DEF h
  <2>4. h = Unrolled(h, k + 1)
    BY <2>2, <2>3
  <2> QED
    BY <2>4
<1>3. Len(s) \in Long
  <2> HIDE DEF Long
  <2> QED
    BY <1>0, <1>1, <1>2, NumbersFollow
<1>4. built = Unrolled(built, Len(s))
  BY <1>0, <1>3
<1>5. Cache!Built(s) = built[Len(s)]
  BY DEF Cache!Built
<1> HIDE DEF built
<1>6. built[0] = Cache!Empty /\ \A n \in 1..Len(s) : built[n] = Cache!Put(built[n - 1], s[n])
  <2>1. \A n \in 0..Len(s) : built[n] = IF n = 0 THEN Cache!Empty ELSE Cache!Put(built[n - 1], s[n])
    BY <1>4
  <2>2. 0 \in 0..Len(s) /\ \A n \in 1..Len(s) : n \in 0..Len(s) /\ n # 0
    BY <1>0
  <2> QED
    BY <2>1, <2>2
<1> DEFINE Fine == {k \in Nat : k <= Len(s) => Right(built[k])}
<1>7. 0 \in Fine
  BY <1>6, EmptyIsRight
<1>8. ASSUME NEW k \in Nat, k \in Fine PROVE k + 1 \in Fine
  <2> SUFFICES ASSUME k + 1 <= Len(s) PROVE Right(built[k + 1])
    OBVIOUS
  <2>1. Right(built[k]) /\ k + 1 \in 1..Len(s) /\ (k + 1) - 1 = k
    BY <1>0, <1>8
  <2>2. built[k + 1] = Cache!Put(built[k], s[k + 1]) /\ s[k + 1] \in Cache!Vector
    BY <1>6, <2>1
  <2> QED
    BY <2>1, <2>2, PutIsRight
<1>9. Len(s) \in Fine
  <2> HIDE DEF Fine
  <2> QED
    BY <1>0, <1>7, <1>8, NumbersFollow
<1> QED
  BY <1>0, <1>5, <1>9

-----------------------------------------------------------------------------
(* The budget (VectorIndex).                                                *)

Held(m) == IsFiniteSet(DOMAIN m) /\ DOMAIN m \subseteq Cache!Key /\ \A k \in DOMAIN m : Right(m[k])

LEMMA FreedIs ==
  ASSUME NEW m, Held(m), NEW S \in SUBSET DOMAIN m
  PROVE  /\ Cache!Freed(m, S) \in Nat
         /\ \A T \in SUBSET S : Cache!Freed(m, S) = Cache!Freed(m, T) + Cache!Freed(m, S \ T)
         /\ \A T \in SUBSET S : Cache!Freed(m, T) \in Nat /\ Cache!Freed(m, T) <= Cache!Freed(m, S)
         /\ \A k \in S : Cache!Freed(m, {k}) = m[k].bytes /\ m[k].bytes \in Nat
<1> DEFINE f(T) == [k \in T |-> m[k].bytes]
<1>1. \A k \in DOMAIN m : m[k].bytes \in Nat
  BY DEF Held, Right, Cache!IsPartition
<1>2. \A T \in SUBSET S : Numbers(f(T)) /\ DOMAIN f(T) = T
  <2> SUFFICES ASSUME NEW T \in SUBSET S PROVE Numbers(f(T)) /\ DOMAIN f(T) = T
    OBVIOUS
  <2>1. IsFiniteSet(T)
    BY FS_Subset DEF Held
  <2> QED
    BY <2>1, <1>1 DEF Numbers
<1>3. \A T \in SUBSET S : Only(f(S), T) = f(T)
  BY DEF Only
<1>4. \A T : Cache!Freed(m, T) = Cache!Amount(f(T))
  BY DEF Cache!Freed
<1>5. S \in SUBSET S /\ \A k \in S : {k} \in SUBSET S /\ DOMAIN f({k}) = {k} /\ f({k})[k] = m[k].bytes
  OBVIOUS
<1>6. DOMAIN f(S) = S
  OBVIOUS
<1> HIDE DEF f
<1>7. \A T \in SUBSET S : Cache!Amount(f(T)) \in Nat
  BY <1>2, AmountIs
<1>8. ASSUME NEW T \in SUBSET S
      PROVE  Cache!Amount(f(S)) = Cache!Amount(f(T)) + Cache!Amount(f(S \ T))
  <2>1. Only(f(S), T) = f(T) /\ Only(f(S), S \ T) = f(S \ T)
    BY <1>3
  <2>2. Cache!Amount(f(S)) = Cache!Amount(Only(f(S), T)) + Cache!Amount(Only(f(S), S \ T))
    BY <1>2, <1>5, <1>6, AmountOfTwo
  <2> QED
    BY <2>1, <2>2
<1>9. ASSUME NEW T \in SUBSET S PROVE Cache!Amount(f(T)) <= Cache!Amount(f(S))
  BY <1>2, <1>3, <1>5, <1>6, AmountOfFewer
<1>10. \A k \in S : Cache!Amount(f({k})) = m[k].bytes
  BY <1>2, <1>5, AmountOfOne
<1> QED
  BY <1>1, <1>4, <1>5, <1>7, <1>8, <1>9, <1>10

LEMMA FreedAlike ==
  ASSUME NEW m, NEW o, NEW S, \A k \in S : m[k].bytes = o[k].bytes
  PROVE  Cache!Freed(m, S) = Cache!Freed(o, S)
<1>1. [k \in S |-> m[k].bytes] = [k \in S |-> o[k].bytes]
  OBVIOUS
<1> QED
  BY <1>1 DEF Cache!Freed

\* Which of two was used less recently.
Sorted(ord, D) ==
  /\ ord \subseteq D \X D
  /\ \A a, b \in D : <<a, b>> \in ord <=> a # b /\ <<b, a>> \notin ord
  /\ \A a, b, c \in D : <<a, b>> \in ord /\ <<b, c>> \in ord => <<a, c>> \in ord

LEMMA Earliest ==
  ASSUME NEW D, IsFiniteSet(D), NEW ord, Sorted(ord, D), NEW S \in SUBSET D, S # {}
  PROVE  \E k \in S : \A q \in S : <<q, k>> \notin ord
<1> DEFINE before(k) == {q \in S : <<q, k>> \in ord}
           sizes == {Cardinality(before(k)) : k \in S}
<1>1. \A k \in S : IsFiniteSet(before(k)) /\ Cardinality(before(k)) \in Nat
  <2> SUFFICES ASSUME NEW k \in S PROVE IsFiniteSet(before(k)) /\ Cardinality(before(k)) \in Nat
    OBVIOUS
  <2>1. before(k) \in SUBSET D
    OBVIOUS
  <2> HIDE DEF before
  <2>2. IsFiniteSet(before(k))
    BY <2>1, FS_Subset
  <2> QED
    BY <2>2, FS_CardinalityType
<1>2. sizes \in SUBSET Nat /\ sizes # {}
  BY <1>1
<1>3. PICK n \in sizes : \A j \in sizes : n <= j
  <2> HIDE DEF sizes
  <2> QED
    BY <1>2, Least
<1>4. PICK k \in S : n = Cardinality(before(k))
  BY <1>3
<1>5. ASSUME NEW q \in S, <<q, k>> \in ord PROVE FALSE
  <2>1. before(q) \subseteq before(k)
    BY <1>5 DEF Sorted
  <2>2. q \in before(k) /\ q \notin before(q)
    BY <1>5 DEF Sorted
  <2>3. n <= Cardinality(before(q))
    BY <1>3
  <2> HIDE DEF before
  <2>4. Cardinality(before(q)) <= Cardinality(before(k)) /\ (Cardinality(before(k)) = Cardinality(before(q)) => before(k) = before(q))
    BY <2>1, <1>1, FS_Subset
  <2> QED
    BY <2>2, <2>3, <2>4, <1>1, <1>4
<1> QED
  BY <1>5

\* Either it fits, or nothing else is left.
LEMMA VictimsMakeRoom ==
  ASSUME Cache!IndexAssumption, NEW m, Held(m), NEW ord, NEW D, IsFiniteSet(D), DOMAIN m \subseteq D, Sorted(ord, D),
         NEW inUse \in Int, NEW extra \in Int, NEW keep
  PROVE  LET out == Cache!Victims(m, ord, inUse, extra, keep)
         IN  /\ out \in SUBSET (DOMAIN m \ {keep})
             /\ out = DOMAIN m \ {keep} \/ (inUse + extra) - Cache!Freed(m, out) <= Limit
<1> DEFINE others == DOMAIN m \ {keep}
           out == Cache!Victims(m, ord, inUse, extra, keep)
           before(k) == {q \in others : <<q, k>> \in ord}
<1>1. out = {k \in others : inUse + extra - Cache!Freed(m, before(k)) > Limit}
  BY DEF Cache!Victims
<1>2. out \in SUBSET (DOMAIN m \ {keep})
  BY <1>1
<1>3. ASSUME others \ out # {} PROVE (inUse + extra) - Cache!Freed(m, out) <= Limit
  <2>1. others \ out \in SUBSET D
    OBVIOUS
  <2>2. PICK k \in others \ out : \A q \in others \ out : <<q, k>> \notin ord
    <3> HIDE DEF others, out
    <3> QED
      BY <2>1, <1>3, Earliest
  <2>3. before(k) \in SUBSET out
    BY <2>2
  <2>4. ~(inUse + extra - Cache!Freed(m, before(k)) > Limit)
    BY <2>2, <1>1
  <2> HIDE DEF before, others, out
  <2>5. out \in SUBSET DOMAIN m
    BY <1>2 DEF others
  <2>6. Cache!Freed(m, before(k)) \in Nat /\ Cache!Freed(m, before(k)) <= Cache!Freed(m, out) /\ Cache!Freed(m, out) \in Nat
    BY <2>3, <2>5, FreedIs
  <2>7. Limit \in Nat
    BY DEF Cache!IndexAssumption
  <2> QED
    BY <2>4, <2>6, <2>7
<1> HIDE DEF out
<1>4. out = DOMAIN m \ {keep} \/ (inUse + extra) - Cache!Freed(m, out) <= Limit
  BY <1>2, <1>3
<1> QED
  BY <1>2, <1>4 DEF out

LEMMA AmongIsSorted ==
  ASSUME NEW ord, NEW D, Sorted(ord, D), NEW S \in SUBSET D
  PROVE  Sorted(Cache!Among(ord, S), S)
<1> DEFINE o == Cache!Among(ord, S)
<1>1. o \subseteq S \X S /\ \A a, b \in S : <<a, b>> \in o <=> <<a, b>> \in ord
  BY DEF Cache!Among
<1> HIDE DEF o
<1>2. \A a, b \in S : <<a, b>> \in o <=> a # b /\ <<b, a>> \notin o
  BY <1>1 DEF Sorted
<1>3. \A a, b, c \in S : <<a, b>> \in o /\ <<b, c>> \in o => <<a, c>> \in o
  <2> SUFFICES ASSUME NEW a \in S, NEW b \in S, NEW c \in S, <<a, b>> \in o, <<b, c>> \in o PROVE <<a, c>> \in o
    OBVIOUS
  <2>1. a \in D /\ b \in D /\ c \in D /\ <<a, b>> \in ord /\ <<b, c>> \in ord
    BY <1>1
  <2> QED
    BY <2>1, <1>1 DEF Sorted
<1> QED
  BY <1>1, <1>2, <1>3 DEF Sorted, o

LEMMA PlacedIsSorted ==
  ASSUME NEW ord, NEW D, Sorted(ord, D), NEW k, k \notin D, NEW o \in Cache!PlacedSince(ord, D, k)
  PROVE  Sorted(o, D \cup {k})
<1>1. PICK early \in SUBSET D :
        /\ \A p \in ord : p[2] \in early => p[1] \in early
        /\ o = ord \cup (early \X {k}) \cup ({k} \X (D \ early))
  BY DEF Cache!PlacedSince
<1>2. ord \subseteq D \X D
  BY DEF Sorted
<1>3. o \subseteq (D \cup {k}) \X (D \cup {k})
  BY <1>1, <1>2
<1>4. /\ \A a, b \in D : <<a, b>> \in o <=> <<a, b>> \in ord
      /\ \A a \in D : (<<a, k>> \in o <=> a \in early) /\ (<<k, a>> \in o <=> a \notin early)
      /\ <<k, k>> \notin o
  <2>1. \A a, b : <<a, b>> \in o <=> <<a, b>> \in ord \/ (a \in early /\ b = k) \/ (a = k /\ b \in D \ early)
    BY <1>1
  <2>2. \A a, b : <<a, b>> \in ord => a \in D /\ b \in D
    BY <1>2
  <2> QED
    BY <2>1, <2>2
<1>5. \A a, b \in D \cup {k} : <<a, b>> \in o <=> a # b /\ <<b, a>> \notin o
  <2>1. \A a, b \in D : <<a, b>> \in o <=> a # b /\ <<b, a>> \notin o
    BY <1>4 DEF Sorted
  <2> QED
    BY <2>1, <1>4
<1>6. \A a, b \in D : <<a, b>> \in ord /\ b \in early => a \in early
  BY <1>1
<1>7. \A a, b, c \in D \cup {k} : <<a, b>> \in o /\ <<b, c>> \in o => <<a, c>> \in o
  <2> SUFFICES ASSUME NEW a \in D \cup {k}, NEW b \in D \cup {k}, NEW c \in D \cup {k}, <<a, b>> \in o, <<b, c>> \in o
               PROVE  <<a, c>> \in o
    OBVIOUS
  <2>1. CASE a = k
    <3>1. b \in D /\ b \notin early
      BY <2>1, <1>4
    <3>2. c # k
      BY <3>1, <1>4
    <3>3. c \in D /\ <<b, c>> \in ord
      BY <3>1, <3>2, <1>4
    <3>4. c \notin early
      BY <3>1, <3>3, <1>6
    <3> QED
      BY <2>1, <3>3, <3>4, <1>4
  <2>2. CASE a # k /\ b = k
    <3>1. a \in D /\ a \in early /\ c \in D /\ c \notin early
      BY <2>2, <1>4
    <3>2. a # c /\ <<c, a>> \notin ord
      BY <3>1, <1>6
    <3> QED
      BY <3>1, <3>2, <1>4 DEF Sorted
  <2>3. CASE a # k /\ b # k /\ c = k
    <3>1. a \in D /\ b \in D /\ <<a, b>> \in ord /\ b \in early
      BY <2>3, <1>4
    <3> QED
      BY <3>1, <2>3, <1>4, <1>6
  <2>4. CASE a # k /\ b # k /\ c # k
    BY <2>4, <1>4 DEF Sorted
  <2> QED
    BY <2>1, <2>2, <2>3, <2>4
<1> QED
  BY <1>3, <1>5, <1>7 DEF Sorted

LEMMA TouchedIsSorted ==
  ASSUME Sorted(order, DOMAIN mem), NEW k \in DOMAIN mem
  PROVE  Sorted(Cache!Touched(k), DOMAIN mem)
<1> DEFINE D == DOMAIN mem \ {k}
           a == Cache!Among(order, D)
<1>1. Sorted(a, D)
  BY AmongIsSorted
<1>2. a \subseteq D \X D
  BY DEF Cache!Among
<1>3. Cache!Touched(k) = a \cup (D \X {k}) \cup ({k} \X (D \ D))
  BY DEF Cache!Touched
<1>4. \A p \in a : p[2] \in D => p[1] \in D
  BY <1>2
<1>5. Cache!Touched(k) \in Cache!PlacedSince(a, D, k)
  BY <1>3, <1>4 DEF Cache!PlacedSince
<1>6. k \notin D /\ D \cup {k} = DOMAIN mem
  OBVIOUS
<1> HIDE DEF D, a
<1> QED
  BY <1>1, <1>5, <1>6, PlacedIsSorted

\* Memory is counted, in order, and within its limit.
Sound(m, ord, u) ==
  /\ Held(m) /\ Sorted(ord, DOMAIN m)
  /\ u = Cache!Freed(m, DOMAIN m)
  /\ u <= Limit \/ Cache!Cardinality(DOMAIN m) = 1

LEMMA LeftIsHeld ==
  ASSUME NEW m, Held(m), NEW out
  PROVE  /\ DOMAIN Cache!Without(m, out) = DOMAIN m \ out /\ Held(Cache!Without(m, out))
         /\ \A k \in DOMAIN m \ out : Cache!Without(m, out)[k] = m[k]
         /\ Cache!Freed(Cache!Without(m, out), DOMAIN m \ out) \in Nat
         /\ out \subseteq DOMAIN m =>
              Cache!Freed(Cache!Without(m, out), DOMAIN m \ out) = Cache!Freed(m, DOMAIN m) - Cache!Freed(m, out)
<1> DEFINE w == Cache!Without(m, out)
           D == DOMAIN m
<1>1. DOMAIN w = D \ out /\ \A k \in D \ out : w[k] = m[k]
  BY DEF Cache!Without
<1>2. IsFiniteSet(D \ out)
  BY FS_Subset DEF Held
<1> HIDE DEF w
<1>3. Held(w)
  BY <1>1, <1>2 DEF Held
<1>4. Cache!Freed(w, D \ out) = Cache!Freed(m, D \ out)
  BY <1>1, FreedAlike
<1>5. D \ out \in SUBSET D /\ D \in SUBSET D
  OBVIOUS
<1> HIDE DEF D
<1>6. Cache!Freed(m, D \ out) \in Nat /\ Cache!Freed(m, D) \in Nat
  BY <1>5, FreedIs DEF D
<1>7. ASSUME out \subseteq D PROVE Cache!Freed(m, D \ out) = Cache!Freed(m, D) - Cache!Freed(m, out)
  <2>1. out \in SUBSET D
    BY <1>7
  <2>2. Cache!Freed(m, D) = Cache!Freed(m, out) + Cache!Freed(m, D \ out) /\ Cache!Freed(m, out) \in Nat
    BY <2>1, <1>5, FreedIs DEF D
  <2> QED
    BY <2>2, <1>6
<1> QED
  BY <1>1, <1>3, <1>4, <1>6, <1>7 DEF w, D

LEMMA ChangedIsHeld ==
  ASSUME NEW m, Held(m), NEW k \in DOMAIN m, NEW p, Right(p)
  PROVE  LET g == [m EXCEPT ![k] = p]
         IN  /\ DOMAIN g = DOMAIN m /\ Held(g) /\ g[k] = p
             /\ Cache!Freed(g, DOMAIN m) = (Cache!Freed(m, DOMAIN m) - m[k].bytes) + p.bytes
             /\ m[k].bytes \in Nat /\ p.bytes \in Nat /\ Cache!Freed(m, DOMAIN m) \in Nat
<1> DEFINE g == [m EXCEPT ![k] = p]
           D == DOMAIN m
<1>1. DOMAIN g = D /\ g[k] = p /\ \A q \in D \ {k} : g[q] = m[q]
  OBVIOUS
<1> HIDE DEF g
<1>2. Held(g)
  BY <1>1 DEF Held
<1>3. Cache!Freed(g, D \ {k}) = Cache!Freed(m, D \ {k})
  BY <1>1, FreedAlike
<1>4. {k} \in SUBSET D /\ D \in SUBSET D
  OBVIOUS
<1>5. /\ Cache!Freed(m, D) = Cache!Freed(m, {k}) + Cache!Freed(m, D \ {k})
      /\ Cache!Freed(m, {k}) = m[k].bytes /\ m[k].bytes \in Nat /\ Cache!Freed(m, D) \in Nat
  <2>1. D \in SUBSET DOMAIN m /\ k \in D
    OBVIOUS
  <2> HIDE DEF D
  <2> QED
    BY <2>1, <1>4, FreedIs
<1>6. /\ Cache!Freed(g, D) = Cache!Freed(g, {k}) + Cache!Freed(g, D \ {k})
      /\ Cache!Freed(g, {k}) = g[k].bytes /\ g[k].bytes \in Nat
  <2>1. D = DOMAIN g
    BY <1>1
  <2> HIDE DEF D
  <2> QED
    BY <2>1, <1>2, <1>4, FreedIs
<1>7. Cache!Freed(m, D \ {k}) \in Nat
  <2>1. D \ {k} \in SUBSET D
    OBVIOUS
  <2> QED
    BY <2>1, <1>4, FreedIs
<1>8. Cache!Freed(g, D) = (Cache!Freed(m, D) - m[k].bytes) + p.bytes /\ p.bytes \in Nat
  BY <1>1, <1>3, <1>5, <1>6, <1>7
<1> QED
  BY <1>1, <1>2, <1>5, <1>8 DEF g

LEMMA AddedIsHeld ==
  ASSUME NEW m, Held(m), NEW k \in Cache!Key, k \notin DOMAIN m, NEW p, Right(p)
  PROVE  LET g == Cache!With(m, k, p)
         IN  /\ DOMAIN g = DOMAIN m \cup {k} /\ Held(g)
             /\ Cache!Freed(g, DOMAIN g) = Cache!Freed(m, DOMAIN m) + p.bytes
             /\ p.bytes \in Nat /\ Cache!Freed(m, DOMAIN m) \in Nat
<1> DEFINE g == Cache!With(m, k, p)
           D == DOMAIN m
<1>1. DOMAIN g = D \cup {k} /\ g[k] = p /\ \A q \in D : g[q] = m[q]
  BY DEF Cache!With
<1>2. IsFiniteSet(D \cup {k})
  BY FS_AddElement DEF Held
<1> HIDE DEF g
<1>3. Held(g)
  BY <1>1, <1>2 DEF Held
<1>4. Cache!Freed(g, D) = Cache!Freed(m, D)
  BY <1>1, FreedAlike
<1> DEFINE E == DOMAIN g
<1>5. {k} \in SUBSET E /\ E \in SUBSET E /\ E \ {k} = D
  BY <1>1
<1> HIDE DEF E
<1>6. /\ Cache!Freed(g, E) = Cache!Freed(g, {k}) + Cache!Freed(g, E \ {k})
      /\ Cache!Freed(g, {k}) = g[k].bytes /\ g[k].bytes \in Nat
  BY <1>3, <1>5, FreedIs DEF E
<1>7. Cache!Freed(m, D) \in Nat
  <2>1. D \in SUBSET DOMAIN m
    OBVIOUS
  <2> HIDE DEF D
  <2> QED
    BY <2>1, FreedIs
<1>8. Cache!Freed(g, E) = Cache!Freed(m, D) + p.bytes /\ p.bytes \in Nat
  BY <1>1, <1>4, <1>5, <1>6, <1>7
<1> QED
  BY <1>1, <1>3, <1>7, <1>8 DEF g, E

LEMMA NoneFreed ==
  ASSUME NEW m, Held(m)
  PROVE  Cache!Freed(m, {}) = 0
<1>1. DOMAIN [k \in {} |-> m[k].bytes] = {}
  OBVIOUS
<1> QED
  BY <1>1, AmountOfNone DEF Cache!Freed

LEMMA FewerWithin ==
  ASSUME Cache!IndexAssumption, NEW m, NEW ord, NEW u, Sound(m, ord, u), NEW k
  PROVE  LET w == Cache!Without(m, {k})
             left == u - (IF k \in DOMAIN m THEN m[k].bytes ELSE 0)
         IN  Sound(w, Cache!Among(ord, DOMAIN w), left) /\ left \in Nat /\ Held(w)
             /\ DOMAIN w = DOMAIN m \ {k}
<1> DEFINE w == Cache!Without(m, {k})
           left == u - (IF k \in DOMAIN m THEN m[k].bytes ELSE 0)
<1>1. Held(m) /\ Sorted(ord, DOMAIN m) /\ u = Cache!Freed(m, DOMAIN m) /\ u \in Nat
  <2>1. Held(m)
    BY DEF Sound
  <2>2. Cache!Freed(m, DOMAIN m) \in Nat
    BY <2>1, FreedIs
  <2> QED
    BY <2>1, <2>2 DEF Sound
<1>2. DOMAIN w = DOMAIN m \ {k} /\ Held(w) /\ \A q \in DOMAIN m \ {k} : w[q] = m[q]
  BY <1>1, LeftIsHeld
<1>3. Cache!Freed(w, DOMAIN w) = left /\ left \in Nat /\ left <= u
  <2>1. CASE k \in DOMAIN m
    <3>1. {k} \subseteq DOMAIN m
      BY <2>1
    <3>2. Cache!Freed(w, DOMAIN m \ {k}) = Cache!Freed(m, DOMAIN m) - Cache!Freed(m, {k})
          /\ Cache!Freed(w, DOMAIN m \ {k}) \in Nat
      BY <3>1, <1>1, LeftIsHeld
    <3>3. Cache!Freed(m, {k}) = m[k].bytes /\ m[k].bytes \in Nat
      BY <2>1, <1>1, FreedIs
    <3> HIDE DEF w
    <3> QED
      BY <2>1, <3>2, <3>3, <1>1, <1>2
  <2>2. CASE k \notin DOMAIN m
    <3>1. DOMAIN w = DOMAIN m /\ \A q \in DOMAIN m : m[q].bytes = w[q].bytes
      BY <2>2, <1>2
    <3> HIDE DEF w
    <3>2. Cache!Freed(m, DOMAIN m) = Cache!Freed(w, DOMAIN m)
      BY <3>1, FreedAlike
    <3> QED
      BY <2>2, <3>1, <3>2, <1>1
  <2> QED
    BY <2>1, <2>2
<1>4. Sorted(Cache!Among(ord, DOMAIN w), DOMAIN w)
  <2>1. DOMAIN w \in SUBSET DOMAIN m
    BY <1>2
  <2> HIDE DEF w
  <2> QED
    BY <2>1, <1>1, AmongIsSorted
<1>5. left <= Limit \/ Cache!Cardinality(DOMAIN w) = 1
  <2>1. CASE u <= Limit
    BY <2>1, <1>1, <1>3 DEF Cache!IndexAssumption
  <2>2. CASE Cache!Cardinality(DOMAIN m) = 1
    <3>1. PICK q : DOMAIN m = {q}
      BY <1>1, <2>2, IndexCounts, FS_Singleton DEF Held
    <3>2. CASE k = q
      <4>1. DOMAIN w = {}
        BY <3>1, <3>2, <1>2
      <4> HIDE DEF w, left
      <4>2. left = 0
        BY <4>1, <1>2, <1>3, NoneFreed
      <4> QED
        BY <4>2 DEF Cache!IndexAssumption
    <3>3. CASE k # q
      <4>1. DOMAIN w = DOMAIN m
        BY <3>1, <3>3, <1>2
      <4> QED
        BY <4>1, <2>2
    <3> QED
      BY <3>2, <3>3
  <2> QED
    BY <2>1, <2>2 DEF Sound
<1> QED
  BY <1>2, <1>3, <1>4, <1>5 DEF Sound

\* How many vectors exist is known of some partitions, and what is not in memory is told.
Told(D, t, e, asked) ==
  /\ asked \ D = e /\ D \subseteq asked
  /\ DOMAIN t \subseteq Cache!Key /\ IsFiniteSet(DOMAIN t) /\ \A k \in DOMAIN t : t[k] \in Nat

Collected(ks, os) ==
  /\ os \in Seq(Score) /\ ks \subseteq DOMAIN os
  /\ Cache!Cardinality(ks) = (IF Len(os) < K THEN Len(os) ELSE K)
  /\ \A n \in ks, m \in DOMAIN os \ ks : os[n] >= os[m]

\* An index does not report more in memory than there is.
LEMMA CoverageIs ==
  ASSUME Held(mem), NEW D, Told(D, total, evicted, known), NEW i
  PROVE  Cache!Coverage(i).hydrated <= Cache!Coverage(i).total
<1> DEFINE f == [k \in {q \in DOMAIN mem : q[1] = i} |-> Len(mem[k].vectors)]
           g == [k \in {q \in DOMAIN total : q[1] = i} |-> total[k]]
<1>1. Numbers(f)
  <2>1. \A k \in DOMAIN mem : Len(mem[k].vectors) \in Nat
    <3> SUFFICES ASSUME NEW k \in DOMAIN mem PROVE Len(mem[k].vectors) \in Nat
      OBVIOUS
    <3>1. mem[k].vectors \in Seq(Cache!Vector)
      BY DEF Held, Right, Cache!IsPartition
    <3> QED
      BY <3>1
  <2>2. {q \in DOMAIN mem : q[1] = i} \in SUBSET DOMAIN mem
    OBVIOUS
  <2>3. IsFiniteSet(DOMAIN f)
    BY <2>2, FS_Subset DEF Held
  <2> QED
    BY <2>1, <2>3 DEF Numbers
<1>2. Numbers(g)
  <2>1. {q \in DOMAIN total : q[1] = i} \in SUBSET DOMAIN total
    OBVIOUS
  <2>2. IsFiniteSet(DOMAIN g)
    BY <2>1, FS_Subset DEF Told
  <2> QED
    BY <2>2 DEF Numbers, Told
<1>3. /\ Cache!Coverage(i).hydrated = Cache!Amount(f)
      /\ Cache!Coverage(i).total = Cache!Larger(Cache!Amount(g), Cache!Amount(f))
  BY DEF Cache!Coverage
<1> HIDE DEF f, g
<1>4. Cache!Amount(f) \in Nat /\ Cache!Amount(g) \in Nat
  BY <1>1, <1>2, AmountIs
<1> QED
  BY <1>3, <1>4 DEF Cache!Larger

LEMMA InvIs ==
  ASSUME Sound(mem, order, used), Told(DOMAIN mem, total, evicted, known), Collected(kept, offered)
  PROVE  Cache!CacheInv
<1>1. Held(mem)
  BY DEF Sound
<1>2. used \in Nat
  <2>1. Cache!Freed(mem, DOMAIN mem) \in Nat
    BY <1>1, FreedIs
  <2> QED
    BY <2>1 DEF Sound
<1>3. Cache!TypeOK
  <2>1. \A k \in DOMAIN mem : Cache!IsPartition(mem[k])
    BY <1>1 DEF Held, Right
  <2> QED
    BY <1>1, <1>2, <2>1, IndexCounts DEF Cache!TypeOK, Sound, Held, Sorted, Told, Collected
<1>4. Cache!Ordered
  BY DEF Sound, Sorted, Cache!Ordered
<1>5. Cache!Accounted
  BY <1>1 DEF Sound, Held, Right, Cache!Accounted
<1>6. Cache!WithinLimit
  BY DEF Sound, Cache!WithinLimit
<1>7. Cache!Reported
  BY <1>1, CoverageIs DEF Told, Cache!Reported
<1>8. Cache!BestKept
  BY DEF Collected, Cache!BestKept
<1> QED
  BY <1>3, <1>4, <1>5, <1>6, <1>7, <1>8 DEF Cache!CacheInv, Cache!CacheIsHonest

LEMMA TotalsGo ==
  ASSUME NEW D, NEW t, NEW e, NEW asked, Told(D, t, e, asked), NEW k \in Cache!Key
  PROVE  /\ \A n \in Nat : Told(D, Cache!With(t, k, n), e, asked)
         /\ \A n \in Nat : k \in DOMAIN t => Told(D, [t EXCEPT ![k] = n], e, asked)
         /\ DOMAIN Cache!Without(t, {k}) \subseteq Cache!Key /\ IsFiniteSet(DOMAIN Cache!Without(t, {k}))
         /\ \A q \in DOMAIN Cache!Without(t, {k}) : Cache!Without(t, {k})[q] \in Nat
<1>1. ASSUME NEW n \in Nat PROVE Told(D, Cache!With(t, k, n), e, asked)
  <2> DEFINE w == Cache!With(t, k, n)
  <2>1. DOMAIN w = DOMAIN t \cup {k} /\ \A q \in DOMAIN w : w[q] = IF q = k THEN n ELSE t[q]
    BY DEF Cache!With
  <2>2. IsFiniteSet(DOMAIN t \cup {k})
    BY FS_AddElement DEF Told
  <2> HIDE DEF w
  <2>3. Told(D, w, e, asked)
    BY <2>1, <2>2 DEF Told
  <2> QED
    BY <2>3 DEF w
<1>2. ASSUME NEW n \in Nat, k \in DOMAIN t PROVE Told(D, [t EXCEPT ![k] = n], e, asked)
  <2> DEFINE w == [t EXCEPT ![k] = n]
  <2>1. DOMAIN w = DOMAIN t /\ \A q \in DOMAIN w : w[q] = IF q = k THEN n ELSE t[q]
    OBVIOUS
  <2> HIDE DEF w
  <2>2. Told(D, w, e, asked)
    BY <2>1 DEF Told
  <2> QED
    BY <2>2 DEF w
<1>3. /\ DOMAIN Cache!Without(t, {k}) = DOMAIN t \ {k}
      /\ \A q \in DOMAIN t \ {k} : Cache!Without(t, {k})[q] = t[q]
  BY DEF Cache!Without
<1>4. IsFiniteSet(DOMAIN t \ {k})
  BY FS_Subset DEF Told
<1> QED
  BY <1>1, <1>2, <1>3, <1>4 DEF Told

IndexSound == Sound(mem, order, used) /\ Told(DOMAIN mem, total, evicted, known) /\ Collected(kept, offered)

LEMMA HydratedSound ==
  ASSUME Cache!IndexAssumption, IndexSound, NEW k \in Cache!Key, NEW s \in Cache!Hydrated, Cache!Hydrate(k, s)
  PROVE  Sound(mem', order', used') /\ Told(DOMAIN mem', total', evicted', known')
<1> DEFINE p == Cache!Built(s)
           rest == Cache!Without(mem, {k})
           left == used - (IF k \in DOMAIN mem THEN mem[k].bytes ELSE 0)
           out == Cache!Victims(rest, order, left, p.bytes, k)
           stay == DOMAIN rest \ out
           n == Cache!Larger(Cache!Known(k), Len(p.vectors))
<1>1. /\ total' = Cache!With(total, k, n) /\ known' = known \cup {k}
      /\ \/ /\ p.bytes > Limit
            /\ mem' = rest /\ order' = Cache!Among(order, DOMAIN rest) /\ used' = left
            /\ evicted' = evicted \cup {k}
         \/ /\ p.bytes <= Limit
            /\ mem' = Cache!With(Cache!Without(rest, out), k, p)
            /\ order' \in Cache!PlacedSince(Cache!Among(order, stay), stay, k)
            /\ used' = left - Cache!Freed(rest, out) + p.bytes
            /\ evicted' = (evicted \cup out) \ {k}
  BY DEF Cache!Hydrate
<1>2. Right(p)
  <2>1. s \in Seq(Cache!Vector)
    BY DEF Cache!Hydrated, Cache!IndexAssumption
  <2> QED
    BY <2>1, BuiltIsRight
<1>3. p.bytes \in Nat /\ Len(p.vectors) \in Nat
  <2>1. p.bytes \in Nat /\ p.vectors \in Seq(Cache!Vector)
    BY <1>2 DEF Right, Cache!IsPartition
  <2> HIDE DEF p
  <2> QED
    BY <2>1
<1>4. /\ Sound(rest, Cache!Among(order, DOMAIN rest), left) /\ left \in Nat /\ Held(rest)
      /\ DOMAIN rest = DOMAIN mem \ {k}
  BY FewerWithin DEF IndexSound
<1>5. n \in Nat
  <2>1. Cache!Known(k) \in Nat
    BY DEF Cache!Known, IndexSound, Told
  <2> HIDE DEF p
  <2> QED
    BY <2>1, <1>3 DEF Cache!Larger
<1>6. Told(DOMAIN mem, total', evicted, known)
  <2> HIDE DEF n
  <2> QED
    BY <1>1, <1>5, TotalsGo DEF IndexSound
<1>7. Limit \in Nat
  BY DEF Cache!IndexAssumption
<1>8. IsFiniteSet(DOMAIN mem) /\ Sorted(order, DOMAIN mem)
  BY DEF IndexSound, Sound, Held
<1> HIDE DEF p, rest, left, n
<1>9. /\ out \in SUBSET (DOMAIN rest \ {k})
      /\ out = DOMAIN rest \ {k} \/ (left + p.bytes) - Cache!Freed(rest, out) <= Limit
  <2>1. DOMAIN rest \subseteq DOMAIN mem /\ left \in Int /\ p.bytes \in Int
    BY <1>3, <1>4
  <2> QED
    BY <2>1, <1>4, <1>8, VictimsMakeRoom
<1> HIDE DEF out
<1>10. CASE p.bytes > Limit /\ mem' = rest /\ order' = Cache!Among(order, DOMAIN rest) /\ used' = left
            /\ evicted' = evicted \cup {k}
  <2>1. Sound(mem', order', used')
    BY <1>4, <1>10
  <2>2. Told(DOMAIN mem', total', evicted', known')
    BY <1>1, <1>4, <1>6, <1>10 DEF Told
  <2> QED
    BY <2>1, <2>2
<1>11. CASE /\ p.bytes <= Limit
            /\ mem' = Cache!With(Cache!Without(rest, out), k, p)
            /\ order' \in Cache!PlacedSince(Cache!Among(order, stay), stay, k)
            /\ used' = left - Cache!Freed(rest, out) + p.bytes
            /\ evicted' = (evicted \cup out) \ {k}
  <2> DEFINE w == Cache!Without(rest, out)
  <2>1. /\ DOMAIN w = stay /\ Held(w) /\ Cache!Freed(w, stay) \in Nat
        /\ Cache!Freed(w, stay) = Cache!Freed(rest, DOMAIN rest) - Cache!Freed(rest, out)
    BY <1>4, <1>9, LeftIsHeld
  <2>2. left = Cache!Freed(rest, DOMAIN rest)
    BY <1>4 DEF Sound
  <2>3. Cache!Freed(rest, out) \in Nat
    <3>1. out \in SUBSET DOMAIN rest
      BY <1>9
    <3> QED
      BY <3>1, <1>4, FreedIs
  <2>4. k \notin stay
    BY <1>4
  <2> HIDE DEF w
  <2>5. /\ DOMAIN mem' = stay \cup {k} /\ Held(mem')
        /\ Cache!Freed(mem', DOMAIN mem') = Cache!Freed(w, stay) + p.bytes
    BY <1>2, <1>11, <2>1, <2>4, AddedIsHeld DEF w
  <2>6. used' = Cache!Freed(mem', DOMAIN mem')
    BY <1>3, <1>4, <1>11, <2>1, <2>2, <2>3, <2>5
  <2>7. used' <= Limit
    <3>1. CASE out = DOMAIN rest \ {k}
      <4>1. stay = {}
        BY <3>1, <1>4
      <4>2. Cache!Freed(w, stay) = 0
        BY <4>1, <2>1, NoneFreed
      <4> QED
        BY <4>2, <2>5, <2>6, <1>3, <1>11
    <3>2. CASE (left + p.bytes) - Cache!Freed(rest, out) <= Limit
      BY <3>2, <1>3, <1>4, <1>7, <1>11, <2>3
    <3> QED
      BY <3>1, <3>2, <1>9
  <2>8. Sorted(order', DOMAIN mem')
    <3>1. stay \in SUBSET DOMAIN mem
      BY <1>4
    <3> HIDE DEF stay
    <3>2. Sorted(Cache!Among(order, stay), stay)
      BY <3>1, <1>8, AmongIsSorted
    <3> QED
      BY <3>2, <1>11, <2>4, <2>5, PlacedIsSorted
  <2>9. Sound(mem', order', used')
    BY <2>5, <2>6, <2>7, <2>8 DEF Sound
  <2>10. Told(DOMAIN mem', total', evicted', known')
    <3>1. /\ known \ DOMAIN mem = evicted /\ DOMAIN mem \subseteq known
          /\ DOMAIN total' \subseteq Cache!Key /\ IsFiniteSet(DOMAIN total') /\ \A q \in DOMAIN total' : total'[q] \in Nat
      BY <1>6 DEF Told
    <3>2. DOMAIN mem' = ((DOMAIN mem \ {k}) \ out) \cup {k} /\ out \subseteq DOMAIN mem \ {k}
      BY <1>4, <1>9, <2>5
    <3>3. evicted' = (evicted \cup out) \ {k} /\ known' = known \cup {k}
      BY <1>1, <1>11
    <3>4. known' \ DOMAIN mem' = evicted' /\ DOMAIN mem' \subseteq known'
      BY <3>1, <3>2, <3>3
    <3> QED
      BY <3>1, <3>4 DEF Told
  <2> QED
    BY <2>9, <2>10
<1> QED
  BY <1>1, <1>10, <1>11 DEF p, rest, left, out

LEMMA UpsertedSound ==
  ASSUME Cache!IndexAssumption, IndexSound, NEW k \in Cache!Key, NEW v \in Cache!Vector, Cache!Upsert(k, v)
  PROVE  Sound(mem', order', used') /\ Told(DOMAIN mem', total', evicted', known')
<1> DEFINE p == Cache!Put(mem[k], v)
           grown == [mem EXCEPT ![k] = p]
           inUse == used + p.bytes - mem[k].bytes
           out == IF inUse > Limit THEN Cache!Victims(grown, Cache!Touched(k), inUse, 0, k) ELSE {}
<1>1. /\ k \in DOMAIN mem
      /\ mem' = Cache!Without(grown, out)
      /\ order' = Cache!Among(Cache!Touched(k), DOMAIN mem \ out)
      /\ used' = inUse - Cache!Freed(grown, out)
      /\ evicted' = evicted \cup out
      /\ total' = IF v.id \in DOMAIN mem[k].position THEN total ELSE Cache!With(total, k, Cache!Known(k) + 1)
      /\ known' = known
  BY DEF Cache!Upsert
<1>2. Held(mem) /\ Sorted(order, DOMAIN mem) /\ used = Cache!Freed(mem, DOMAIN mem) /\ IsFiniteSet(DOMAIN mem)
  BY DEF IndexSound, Sound, Held
<1>3. Right(p)
  <2>1. Right(mem[k])
    BY <1>1, <1>2 DEF Held
  <2> QED
    BY <2>1, PutIsRight
<1> HIDE DEF p
<1>4. /\ DOMAIN grown = DOMAIN mem /\ Held(grown)
      /\ Cache!Freed(grown, DOMAIN mem) = (Cache!Freed(mem, DOMAIN mem) - mem[k].bytes) + p.bytes
      /\ mem[k].bytes \in Nat /\ p.bytes \in Nat /\ Cache!Freed(mem, DOMAIN mem) \in Nat
  BY <1>1, <1>2, <1>3, ChangedIsHeld
<1>5. inUse = Cache!Freed(grown, DOMAIN mem) /\ inUse \in Nat
  <2>1. Cache!Freed(grown, DOMAIN mem) \in Nat
    <3> HIDE DEF grown
    <3> QED
      BY <1>4, FreedIs
  <2> QED
    BY <2>1, <1>2, <1>4
<1>6. Sorted(Cache!Touched(k), DOMAIN mem)
  BY <1>1, <1>2, TouchedIsSorted
<1> HIDE DEF grown, inUse
<1>7. /\ out \in SUBSET (DOMAIN mem \ {k})
      /\ out = DOMAIN mem \ {k} \/ inUse - Cache!Freed(grown, out) <= Limit
  <2>1. CASE inUse > Limit
    <3>1. out = Cache!Victims(grown, Cache!Touched(k), inUse, 0, k)
      BY <2>1
    <3> HIDE DEF out
    <3>2. /\ out \in SUBSET (DOMAIN grown \ {k})
          /\ out = DOMAIN grown \ {k} \/ (inUse + 0) - Cache!Freed(grown, out) <= Limit
      <4>1. inUse \in Int /\ 0 \in Int /\ DOMAIN grown \subseteq DOMAIN mem
        BY <1>4, <1>5
      <4> QED
        BY <3>1, <4>1, <1>2, <1>4, <1>6, VictimsMakeRoom
    <3> QED
      BY <3>2, <1>4, <1>5
  <2>2. CASE ~(inUse > Limit)
    <3>1. out = {}
      BY <2>2
    <3> HIDE DEF out
    <3>2. Cache!Freed(grown, out) = 0
      BY <3>1, <1>4, NoneFreed
    <3> QED
      BY <3>1, <3>2, <2>2, <1>5 DEF Cache!IndexAssumption
  <2> QED
    BY <2>1, <2>2
<1> HIDE DEF out
<1>8. /\ DOMAIN mem' = DOMAIN mem \ out /\ Held(mem')
      /\ Cache!Freed(mem', DOMAIN mem') = inUse - Cache!Freed(grown, out)
  BY <1>1, <1>4, <1>5, <1>7, LeftIsHeld
<1>9. Sorted(order', DOMAIN mem')
  <2>1. DOMAIN mem \ out \in SUBSET DOMAIN mem
    OBVIOUS
  <2> QED
    BY <2>1, <1>1, <1>6, <1>8, AmongIsSorted
<1>10. used' <= Limit \/ Cache!Cardinality(DOMAIN mem') = 1
  <2>1. CASE out = DOMAIN mem \ {k}
    <3>1. DOMAIN mem' = {k}
      BY <2>1, <1>1, <1>8
    <3> QED
      BY <3>1, IndexCounts, FS_Singleton
  <2>2. CASE inUse - Cache!Freed(grown, out) <= Limit
    BY <2>2, <1>1
  <2> QED
    BY <2>1, <2>2, <1>7
<1>11. Sound(mem', order', used')
  BY <1>1, <1>8, <1>9, <1>10 DEF Sound
<1>12. Told(DOMAIN mem, total', evicted, known)
  <2>1. Told(DOMAIN mem, total, evicted, known)
    BY DEF IndexSound
  <2>2. Cache!Known(k) + 1 \in Nat
    BY <2>1 DEF Cache!Known, Told
  <2>3. Told(DOMAIN mem, Cache!With(total, k, Cache!Known(k) + 1), evicted, known)
    BY <2>1, <2>2, TotalsGo
  <2> QED
    BY <2>1, <2>3, <1>1
<1>13. Told(DOMAIN mem', total', evicted', known')
  <2>1. /\ known \ DOMAIN mem = evicted /\ DOMAIN mem \subseteq known
        /\ DOMAIN total' \subseteq Cache!Key /\ IsFiniteSet(DOMAIN total') /\ \A q \in DOMAIN total' : total'[q] \in Nat
    BY <1>12 DEF Told
  <2>2. known' \ DOMAIN mem' = evicted' /\ DOMAIN mem' \subseteq known'
    BY <2>1, <1>1, <1>7, <1>8
  <2> QED
    BY <2>1, <2>2 DEF Told
<1> QED
  BY <1>11, <1>13

LEMMA RemovedSound ==
  ASSUME Cache!IndexAssumption, IndexSound, NEW k \in Cache!Key, NEW id \in Id, Cache!RemoveVector(k, id)
  PROVE  Sound(mem', order', used') /\ Told(DOMAIN mem', total', evicted', known')
<1> DEFINE p == Cache!Take(mem[k], id)
<1>1. /\ k \in DOMAIN mem /\ id \in DOMAIN mem[k].position
      /\ mem' = [mem EXCEPT ![k] = p]
      /\ used' = used - (mem[k].bytes - mem'[k].bytes)
      /\ total' = IF k \in DOMAIN total /\ total[k] > 0 THEN [total EXCEPT ![k] = total[k] - 1] ELSE total
      /\ order' = order /\ evicted' = evicted /\ known' = known
  BY DEF Cache!RemoveVector
<1>2. Held(mem) /\ Sorted(order, DOMAIN mem) /\ used = Cache!Freed(mem, DOMAIN mem)
  BY DEF IndexSound, Sound, Held
<1>3. Right(p) /\ p.bytes <= mem[k].bytes
  <2>1. Right(mem[k])
    BY <1>1, <1>2 DEF Held
  <2> QED
    BY <2>1, <1>1, TakeIsRight
<1> HIDE DEF p
<1>4. /\ DOMAIN mem' = DOMAIN mem /\ Held(mem') /\ mem'[k] = p
      /\ Cache!Freed(mem', DOMAIN mem) = (Cache!Freed(mem, DOMAIN mem) - mem[k].bytes) + p.bytes
      /\ mem[k].bytes \in Nat /\ p.bytes \in Nat /\ Cache!Freed(mem, DOMAIN mem) \in Nat
  BY <1>1, <1>2, <1>3, ChangedIsHeld
<1>5. used' = Cache!Freed(mem', DOMAIN mem') /\ used' <= used /\ used' \in Int /\ used \in Int
  BY <1>1, <1>2, <1>3, <1>4
<1>6. used' <= Limit \/ Cache!Cardinality(DOMAIN mem') = 1
  <2>1. used <= Limit \/ Cache!Cardinality(DOMAIN mem) = 1
    BY DEF IndexSound, Sound
  <2> QED
    BY <2>1, <1>4, <1>5 DEF Cache!IndexAssumption
<1>7. Sound(mem', order', used')
  BY <1>1, <1>2, <1>4, <1>5, <1>6 DEF Sound
<1>8. Told(DOMAIN mem', total', evicted', known')
  <2>1. Told(DOMAIN mem, total, evicted, known)
    BY DEF IndexSound
  <2>2. CASE k \in DOMAIN total /\ total[k] > 0
    <3>1. total[k] - 1 \in Nat
      BY <2>1, <2>2 DEF Told
    <3>2. Told(DOMAIN mem, [total EXCEPT ![k] = total[k] - 1], evicted, known)
      BY <2>1, <2>2, <3>1, TotalsGo
    <3> QED
      BY <3>2, <2>2, <1>1, <1>4
  <2>3. CASE ~(k \in DOMAIN total /\ total[k] > 0)
    BY <2>1, <2>3, <1>1, <1>4
  <2> QED
    BY <2>2, <2>3
<1> QED
  BY <1>7, <1>8

LEMMA DroppedSound ==
  ASSUME Cache!IndexAssumption, IndexSound, NEW k \in Cache!Key, Cache!DropPartition(k)
  PROVE  Sound(mem', order', used') /\ Told(DOMAIN mem', total', evicted', known')
<1> DEFINE w == Cache!Without(mem, {k})
           left == used - (IF k \in DOMAIN mem THEN mem[k].bytes ELSE 0)
<1>1. /\ mem' = w /\ order' = Cache!Among(order, DOMAIN mem \ {k}) /\ used' = left
      /\ total' = Cache!Without(total, {k}) /\ evicted' = evicted \ {k} /\ known' = known \ {k}
  BY DEF Cache!DropPartition
<1>2. Sound(w, Cache!Among(order, DOMAIN w), left) /\ DOMAIN w = DOMAIN mem \ {k}
  BY FewerWithin DEF IndexSound
<1>3. Told(DOMAIN mem, total, evicted, known)
  BY DEF IndexSound
<1>4. DOMAIN total' \subseteq Cache!Key /\ IsFiniteSet(DOMAIN total') /\ \A q \in DOMAIN total' : total'[q] \in Nat
  BY <1>1, <1>3, TotalsGo
<1> HIDE DEF w, left
<1>5. known' \ DOMAIN mem' = evicted' /\ DOMAIN mem' \subseteq known'
  BY <1>1, <1>2, <1>3 DEF Told
<1> QED
  BY <1>1, <1>2, <1>4, <1>5 DEF Told

LEMMA OfferedCollected ==
  ASSUME Cache!IndexAssumption, Collected(kept, offered), NEW score \in Score, Cache!Offer(score)
  PROVE  Collected(kept', offered')
<1> DEFINE l == Len(offered)
<1>1. /\ offered \in Seq(Score) /\ l \in Nat /\ DOMAIN offered = 1..l /\ kept \subseteq 1..l
      /\ Cache!Cardinality(kept) = (IF l < K THEN l ELSE K)
      /\ \A n \in kept, m \in 1..l \ kept : offered[n] >= offered[m]
  BY DEF Collected
<1>2. /\ offered' \in Seq(Score) /\ Len(offered') = l + 1 /\ DOMAIN offered' = 1..l + 1
      /\ offered'[l + 1] = score /\ \A n \in 1..l : offered'[n] = offered[n]
  <2>1. offered' = Append(offered, score)
    BY DEF Cache!Offer
  <2> QED
    BY <2>1, <1>1
<1>3. Len(offered) = l
  OBVIOUS
<1> DEFINE lowest == \A n \in Cache!Lowest : score > offered[n]
<1> HIDE DEF l, lowest
<1>4. /\ score \in Int /\ K \in Nat /\ \A n \in 1..l : offered[n] \in Int
      /\ 1..l + 1 = 1..l \cup {l + 1} /\ l + 1 \notin 1..l
  <2>1. Score \subseteq Int /\ K \in Nat
    BY DEF Cache!IndexAssumption
  <2>2. \A n \in 1..l : offered[n] \in Score
    <3>1. \A n \in DOMAIN offered : offered[n] \in Score
      BY <1>1
    <3> QED
      BY <3>1, <1>1
  <2>3. l \in Nat
    BY <1>1
  <2>4. 1..l + 1 = 1..l \cup {l + 1} /\ l + 1 \notin 1..l
    BY <2>3
  <2> QED
    BY <2>1, <2>2, <2>4
<1>5. IsFiniteSet(kept) /\ Cardinality(kept) = Cache!Cardinality(kept)
  <2>1. IsFiniteSet(1..l)
    BY <1>1, FS_Interval
  <2> QED
    BY <2>1, <1>1, FS_Subset, IndexCounts
<1>6. l + 1 \notin kept
  BY <1>1, <1>4
<1>7. Cache!Accepts(score) <=> K > 0 /\ (Cache!Cardinality(kept) < K \/ lowest)
  BY DEF Cache!Accepts, lowest
<1>8. \A n \in Cache!Lowest : n \in kept /\ \A m \in kept : offered[n] <= offered[m]
  BY DEF Cache!Lowest
<1>9. CASE ~Cache!Accepts(score) /\ kept' = kept
  <2>1. Cache!Cardinality(kept) = K /\ l >= K
    BY <1>1, <1>4, <1>7, <1>9
  <2>2. \A n \in kept : offered[n] >= score
    <3>1. CASE K = 0
      <4>1. kept = {}
        BY <3>1, <2>1, <1>5, FS_EmptySet
      <4> QED
        BY <4>1
    <3>2. CASE K # 0
      <4>1. PICK n \in Cache!Lowest : ~(score > offered[n])
        BY <3>2, <2>1, <1>4, <1>7, <1>9 DEF lowest
      <4>2. n \in kept /\ \A m \in kept : offered[n] <= offered[m]
        BY <4>1, <1>8
      <4>3. \A m \in kept : offered[m] \in Int
        BY <1>1, <1>4
      <4> QED
        BY <4>1, <4>2, <4>3, <1>4
    <3> QED
      BY <3>1, <3>2
  <2>3. \A n \in kept', m \in DOMAIN offered' \ kept' : offered'[n] >= offered'[m]
    BY <2>2, <1>1, <1>2, <1>4, <1>9
  <2>4. Cache!Cardinality(kept') = (IF Len(offered') < K THEN Len(offered') ELSE K)
    BY <2>1, <1>1, <1>2, <1>4, <1>9
  <2> QED
    BY <2>3, <2>4, <1>1, <1>2, <1>4, <1>9 DEF Collected
<1>10. CASE Cache!Accepts(score) /\ Cache!Cardinality(kept) # K /\ kept' = kept \cup {l + 1}
  <2>1. Cache!Cardinality(kept) = l /\ l < K
    BY <1>1, <1>4, <1>10
  <2>2. kept = 1..l
    <3>1. IsFiniteSet(1..l) /\ Cardinality(1..l) = l
      BY <1>1, FS_Interval
    <3>2. kept \in SUBSET (1..l) /\ Cardinality(1..l) = Cardinality(kept)
      BY <3>1, <2>1, <1>1, <1>5
    <3> QED
      BY <3>1, <3>2, FS_Subset
  <2>3. kept' = DOMAIN offered'
    BY <2>2, <1>2, <1>4, <1>10
  <2>4. Cardinality(kept') = l + 1
    BY <2>1, <1>5, <1>6, <1>10, FS_AddElement
  <2>5. Cache!Cardinality(kept') = (IF Len(offered') < K THEN Len(offered') ELSE K)
    BY <2>1, <2>4, <1>1, <1>2, <1>4, IndexCounts
  <2> QED
    BY <2>3, <2>5, <1>2 DEF Collected
<1>11. ASSUME Cache!Accepts(score), Cache!Cardinality(kept) = K,
              NEW x \in Cache!Lowest, kept' = (kept \ {x}) \cup {l + 1}
       PROVE  Collected(kept', offered')
  <2>1. score > offered[x] /\ x \in kept /\ \A m \in kept : offered[x] <= offered[m]
    <3>1. lowest
      BY <1>4, <1>7, <1>11
    <3> QED
      BY <3>1, <1>8 DEF lowest
  <2>2. l >= K /\ K > 0
    BY <1>1, <1>4, <1>7, <1>11
  <2>3. IsFiniteSet(kept \ {x}) /\ Cardinality(kept \ {x}) = K - 1
    BY <2>1, <1>5, <1>11, FS_RemoveElement
  <2>4. l + 1 \notin kept \ {x}
    BY <1>6
  <2>5. Cardinality(kept') = (K - 1) + 1
    <3> DEFINE others == kept \ {x}
    <3>1. IsFiniteSet(others) /\ l + 1 \notin others /\ kept' = others \cup {l + 1} /\ Cardinality(others) = K - 1
      BY <2>3, <2>4, <1>11
    <3> HIDE DEF others
    <3> QED
      BY <3>1, FS_AddElement
  <2>6. Cache!Cardinality(kept') = (IF Len(offered') < K THEN Len(offered') ELSE K)
    BY <2>2, <2>5, <1>1, <1>2, <1>4, IndexCounts
  <2>7. \A m \in 1..l \ (kept \ {x}) : offered[x] >= offered[m] /\ offered[m] \in Int
    BY <2>1, <1>1, <1>4
  <2>8. ASSUME NEW n \in kept', NEW m \in DOMAIN offered' \ kept' PROVE offered'[n] >= offered'[m]
    <3>1. m \in 1..l /\ m \notin kept \ {x} /\ offered'[m] = offered[m] /\ offered[m] <= offered[x]
      BY <2>7, <2>8, <1>1, <1>2, <1>4, <1>11
    <3>2. CASE n = l + 1
      BY <3>1, <3>2, <2>1, <1>1, <1>2, <1>4
    <3>3. CASE n # l + 1
      <4>1. n \in kept /\ n \in 1..l /\ offered'[n] = offered[n] /\ offered[x] <= offered[n]
        BY <3>3, <2>1, <2>8, <1>1, <1>2, <1>11
      <4> QED
        BY <4>1, <3>1, <2>1, <1>1, <1>4
    <3> QED
      BY <3>2, <3>3
  <2>9. kept' \subseteq DOMAIN offered'
    BY <1>1, <1>2, <1>4, <1>11
  <2> QED
    BY <2>6, <2>8, <2>9, <1>2 DEF Collected
<1> QED
  BY <1>9, <1>10, <1>11 DEF Cache!Offer, l

LEMMA IndexNext ==
  ASSUME Cache!IndexAssumption, IndexSound, [Cache!Next]_(Cache!vars)
  PROVE  IndexSound'
<1> USE DEF Cache!Memory, Cache!Meta, Cache!Stream
<1>0. /\ Sound(mem, order, used) /\ Told(DOMAIN mem, total, evicted, known) /\ Collected(kept, offered)
  BY DEF IndexSound
<1>1. ASSUME NEW k \in Cache!Key, NEW s \in Cache!Hydrated, Cache!Hydrate(k, s) PROVE IndexSound'
  <2>1. Sound(mem', order', used') /\ Told(DOMAIN mem', total', evicted', known')
    BY <1>1, HydratedSound
  <2>2. kept' = kept /\ offered' = offered
    BY <1>1 DEF Cache!Hydrate
  <2> QED
    BY <2>1, <2>2, <1>0 DEF IndexSound
<1>2. ASSUME NEW k \in Cache!Key, NEW n \in {0, MaxTotal}, Cache!SetTotal(k, n) PROVE IndexSound'
  <2>1. total' = Cache!With(total, k, n) /\ mem' = mem /\ order' = order /\ used' = used /\ evicted' = evicted
        /\ known' = known /\ kept' = kept /\ offered' = offered
    BY <1>2 DEF Cache!SetTotal
  <2>2. n \in Nat
    BY DEF Cache!IndexAssumption
  <2>3. Told(DOMAIN mem, Cache!With(total, k, n), evicted, known)
    BY <2>2, <1>0, TotalsGo
  <2> QED
    BY <2>1, <2>3, <1>0 DEF IndexSound
<1>3. ASSUME NEW k \in Cache!Key, NEW v \in Cache!Vector, Cache!Upsert(k, v) PROVE IndexSound'
  <2>1. Sound(mem', order', used') /\ Told(DOMAIN mem', total', evicted', known')
    BY <1>3, UpsertedSound
  <2>2. kept' = kept /\ offered' = offered
    BY <1>3 DEF Cache!Upsert
  <2> QED
    BY <2>1, <2>2, <1>0 DEF IndexSound
<1>4. ASSUME NEW k \in Cache!Key, NEW id \in Id, Cache!RemoveVector(k, id) PROVE IndexSound'
  <2>1. Sound(mem', order', used') /\ Told(DOMAIN mem', total', evicted', known')
    BY <1>4, RemovedSound
  <2>2. kept' = kept /\ offered' = offered
    BY <1>4 DEF Cache!RemoveVector
  <2> QED
    BY <2>1, <2>2, <1>0 DEF IndexSound
<1>5. ASSUME NEW k \in Cache!Key, Cache!DropPartition(k) PROVE IndexSound'
  <2>1. Sound(mem', order', used') /\ Told(DOMAIN mem', total', evicted', known')
    BY <1>5, DroppedSound
  <2>2. kept' = kept /\ offered' = offered
    BY <1>5 DEF Cache!DropPartition
  <2> QED
    BY <2>1, <2>2, <1>0 DEF IndexSound
<1>6. ASSUME NEW k \in Cache!Key, Cache!Search(k) PROVE IndexSound'
  <2>1. k \in DOMAIN mem /\ order' = Cache!Touched(k) /\ mem' = mem /\ used' = used /\ total' = total
        /\ evicted' = evicted /\ known' = known /\ kept' = kept /\ offered' = offered
    BY <1>6 DEF Cache!Search
  <2>2. Sorted(Cache!Touched(k), DOMAIN mem)
    BY <2>1, <1>0, TouchedIsSorted DEF Sound
  <2>3. Sound(mem, Cache!Touched(k), used)
    BY <2>2, <1>0 DEF Sound
  <2> QED
    BY <2>1, <2>3, <1>0 DEF IndexSound
<1>7. ASSUME NEW score \in Score, Cache!Offer(score) PROVE IndexSound'
  <2>1. Collected(kept', offered')
    BY <1>0, <1>7, OfferedCollected
  <2>2. mem' = mem /\ order' = order /\ used' = used /\ total' = total /\ evicted' = evicted /\ known' = known
    BY <1>7 DEF Cache!Offer
  <2> QED
    BY <2>1, <2>2, <1>0 DEF IndexSound
<1>8. CASE UNCHANGED Cache!vars
  BY <1>0, <1>8 DEF Cache!vars, IndexSound
<1> QED
  BY <1>1, <1>2, <1>3, <1>4, <1>5, <1>6, <1>7, <1>8 DEF Cache!Next, Cache!CacheNext, Cache!QueryNext

LEMMA IndexInit ==
  ASSUME Cache!IndexAssumption, Cache!Init
  PROVE  IndexSound
<1>1. /\ mem = <<>> /\ order = {} /\ used = 0 /\ total = <<>> /\ evicted = {} /\ known = {} /\ kept = {} /\ offered = <<>>
  BY DEF Cache!Init
<1>2. DOMAIN <<>> = {} /\ IsFiniteSet({}) /\ Cardinality({}) = 0
  BY FS_EmptySet
<1>3. Held(mem)
  BY <1>1, <1>2 DEF Held
<1>4. used = Cache!Freed(mem, DOMAIN mem)
  BY <1>1, <1>2, <1>3, NoneFreed
<1>5. Sorted(order, DOMAIN mem)
  BY <1>1, <1>2 DEF Sorted
<1>6. Limit \in Nat /\ K \in Nat
  BY DEF Cache!IndexAssumption
<1>7. Sound(mem, order, used)
  BY <1>1, <1>3, <1>4, <1>5, <1>6 DEF Sound
<1>8. Told(DOMAIN mem, total, evicted, known)
  BY <1>1, <1>2 DEF Told
<1>9. Collected(kept, offered)
  <2>1. offered \in Seq(Score) /\ Len(offered) = 0 /\ DOMAIN offered = {}
    BY <1>1
  <2>2. Cache!Cardinality(kept) = 0
    BY <1>1, <1>2, IndexCounts
  <2>3. (IF Len(offered) < K THEN Len(offered) ELSE K) = 0
    BY <2>1, <1>6
  <2> QED
    BY <2>1, <2>2, <2>3, <1>1 DEF Collected
<1> QED
  BY <1>7, <1>8, <1>9 DEF IndexSound

\* Over every number of indexes, partitions and vectors, and for every budget: what memory
\* holds is counted byte for byte and fits, unless one partition outgrew the budget alone, what
\* was pushed out is told, and a streamed query ends with the best of its candidates
\* (make_room, hydrate_partition, upsert, remove, TopK).
THEOREM IndexesStayKept == ASSUME Cache!IndexAssumption PROVE PartsSpec => []IndexKept
<1>1. Cache!Init => IndexSound
  BY IndexInit
<1>2. IndexSound /\ [Cache!Next]_(Cache!vars) => IndexSound'
  BY IndexNext
<1>3. IndexSound => IndexKept
  BY InvIs DEF IndexSound, IndexKept, Cache!CacheInv, Cache!IndexKept
<1> QED
  BY <1>1, <1>2, <1>3, PartsAreTheirOwn, PTL DEF Cache!Spec
=============================================================================
