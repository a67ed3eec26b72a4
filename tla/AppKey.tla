------------------------------- MODULE AppKey -------------------------------
(***************************************************************************)
(* The key of a process that is not Core and seals its own stores          *)
(* (app_key.rs): it lives in a keychain entry of its own, or in a key file *)
(* while no keychain is reachable.  The ladder is the master key's         *)
(* (load_master_key_guarded), with one file in the place of both of its    *)
(* files.  A record of the check value pins the key in use.                *)
(*                                                                         *)
(* Threads of the process resolve the key on their first use; each read    *)
(* and each write is a step, the keychain may be locked and unlocked       *)
(* between any two of them, and the process may die at any of them.        *)
(***************************************************************************)
EXTENDS Naturals, FiniteSets, Functions

CONSTANTS
  Key,        \* keys; a check value names its key
  Operator,   \* those an operator may put into RYU_MASTER_KEY
  NoKey,
  Broken,     \* an entry that does not decode
  AllowFile,  \* whether the host allows a key file
  Thread,
  MaxEvents   \* bounds the starts and the losses of the entry

VARIABLES
  entry,   \* the keychain entry of the slot
  reach,   \* what can be done with the keychain: nothing, read it, write it too
  file,    \* secrets/<slot>.key
  record,  \* state/<slot>.kcv.json
  used,    \* keys under which the slot has sealed files
  gone,    \* keys whose entry was deleted, damaged or overwritten
  env,     \* RYU_MASTER_KEY of the process, if it runs
  cached,  \* what it resolved
  task,    \* its threads
  events

vars == <<entry, reach, file, record, used, gone, env, cached, task, events>>

Idle == [pc |-> "idle", read |-> NoKey, key |-> NoKey, source |-> "none", held |-> NoKey,
         locked |-> FALSE, retired |-> {}, saw |-> {}, crossed |-> FALSE]
Down == "down"

\* read, saw: the record and the used keys when it began; crossed: another thread replaced
\* the entry between its look at the keychain and its choice (saw, crossed: no code).
Resolution == [pc : {"idle", "ladder", "store", "verify", "publish", "pin", "record", "serving"},
               read : Key \cup {NoKey}, key : Key \cup {NoKey},
               source : {"none", "env", "chain", "file"}, held : Key \cup {NoKey},
               locked : BOOLEAN, retired : SUBSET Key, saw : SUBSET Key, crossed : BOOLEAN]

TypeOK ==
  /\ entry \in Key \cup {NoKey, Broken} /\ reach \in {"off", "read", "write"}
  /\ file \in Key \cup {NoKey} /\ record \in Key \cup {NoKey}
  /\ used \in SUBSET Key /\ gone \in SUBSET Key
  /\ env \in Operator \cup {NoKey, Down}
  /\ cached \in [key : Key \cup {NoKey}, retired : SUBSET Key]
  /\ task \in [Thread -> Resolution]
  /\ events \in 0..MaxEvents

Nothing == [key |-> NoKey, retired |-> {}]

\* A fresh slot; or one of an older version, which kept no record and may have left a
\* file key beside the entry.
Init ==
  /\ entry \in (Key \ Operator) \cup {NoKey} /\ file \in (Key \ Operator) \cup {NoKey}
  /\ used \in SUBSET ({entry, file} \ {NoKey})
  /\ reach = "write" /\ record = NoKey /\ gone = {}
  /\ env = Down /\ cached = Nothing /\ task = [t \in Thread |-> Idle] /\ events = 0

Disk == <<file, record, used>>
Chain == <<entry, gone>>
Process == <<env, cached>>

At(t, pc) == env # Down /\ task[t].pc = pc
Goes(t, new) == task' = [task EXCEPT ![t] = new]
Fails(t) == Goes(t, Idle)

Entry == IF reach = "off" THEN NoKey ELSE entry

Fresh == Key \ (Operator \cup {entry, file, record} \cup used \cup gone
                \cup UNION {{task[u].key, task[u].held} : u \in Thread} \cup {cached.key})

-----------------------------------------------------------------------------

\* resolve_cached; the record is read first.  The lock on the cache is not held meanwhile.
Begin(t) ==
  /\ At(t, "idle")
  /\ Goes(t, IF cached.key # NoKey
             THEN [Idle EXCEPT !.pc = "serving", !.key = cached.key, !.retired = cached.retired,
                               !.source = "none", !.saw = {}]
             ELSE [Idle EXCEPT !.pc = "ladder", !.read = record, !.saw = used])
  /\ UNCHANGED <<Chain, reach, Disk, Process, events>>

Found(t, key, source, held, locked) ==
  Goes(t, [task[t] EXCEPT !.pc = "pin", !.key = key, !.source = source, !.held = held, !.locked = locked])

\* The environment's key is taken without a look at the keychain.
FromEnv(t) ==
  /\ At(t, "ladder") /\ env # NoKey
  /\ Found(t, env, "env", NoKey, FALSE)
  /\ UNCHANGED <<Chain, reach, Disk, Process, events>>

\* The file goes when the keychain holds the same key.
RetireAnyFile(key) == file' = NoKey
RetireMatchingFile(key) == file' = IF file = key THEN NoKey ELSE file

FromChain(t) ==
  /\ At(t, "ladder") /\ env = NoKey /\ Entry \in Key
  /\ RetireMatchingFile(entry)
  /\ Found(t, entry, "chain", entry, FALSE)
  /\ UNCHANGED <<Chain, reach, record, used, Process, events>>

\* The keychain is readable and empty: the file's key moves in, or a new one.
Seed(t) ==
  /\ At(t, "ladder") /\ env = NoKey /\ reach # "off" /\ entry = NoKey
  /\ \E k \in IF file # NoKey THEN {file} ELSE Fresh :
       Goes(t, [task[t] EXCEPT !.pc = "store", !.key = k])
  /\ UNCHANGED <<Chain, reach, Disk, Process, events>>

Between(u) == task[u].pc \in {"store", "verify", "publish", "pin"}

Store(t) ==
  /\ At(t, "store")
  /\ IF reach = "write"
     THEN /\ entry' = task[t].key
          /\ gone' = gone \cup ({entry} \cap (Key \ {task[t].key}))
          /\ task' = [u \in Thread |->
               IF u = t THEN [task[t] EXCEPT !.pc = "verify"]
               ELSE [task[u] EXCEPT !.crossed = @ \/ (Between(u) /\ entry # entry')]]
     ELSE /\ IF AllowFile THEN Goes(t, [task[t] EXCEPT !.pc = "publish"]) ELSE Fails(t)
          /\ UNCHANGED Chain
  /\ UNCHANGED <<reach, Disk, Process, events>>

Verify(t) ==
  /\ At(t, "verify")
  /\ IF Entry = task[t].key
     THEN RetireMatchingFile(entry) /\ Found(t, entry, "chain", entry, FALSE)
     ELSE UNCHANGED file /\ Fails(t)
  /\ UNCHANGED <<Chain, reach, record, used, Process, events>>

FromFile(t) ==
  /\ At(t, "ladder") /\ env = NoKey /\ reach = "off" /\ AllowFile /\ file # NoKey
  /\ Found(t, file, "file", NoKey, TRUE)
  /\ UNCHANGED <<Chain, reach, Disk, Process, events>>

\* The guard applies while the keychain cannot be read: a record, or without one a sealed
\* file, is evidence that a key exists.
Seen(t) == task[t].read # NoKey \/ used # {}

GenerateUnseen(t) ==
  /\ At(t, "ladder") /\ env = NoKey /\ reach = "off" /\ AllowFile /\ file = NoKey
  /\ ~Seen(t)
  /\ \E k \in Fresh : Goes(t, [task[t] EXCEPT !.pc = "publish", !.key = k, !.locked = TRUE])
  /\ UNCHANGED <<Chain, reach, Disk, Process, events>>

LadderFails(t) ==
  /\ At(t, "ladder") /\ env = NoKey
  /\ \/ Entry = Broken
     \/ reach = "off" /\ ~AllowFile
     \/ reach = "off" /\ file = NoKey /\ Seen(t)
  /\ Fails(t)
  /\ UNCHANGED <<Chain, reach, Disk, Process, events>>

\* write_key_file: the first writer wins.
Publish(t) ==
  /\ At(t, "publish")
  /\ file' = IF file = NoKey THEN task[t].key ELSE file
  /\ Found(t, file', "file", NoKey, task[t].locked)
  /\ UNCHANGED <<Chain, reach, record, used, Process, events>>

-----------------------------------------------------------------------------

Candidates(t) == ({task[t].key, env, task[t].held} \cup IF AllowFile THEN {file} ELSE {}) \cap Key

Serves(t, key) ==
  [task[t] EXCEPT !.pc = IF task[t].read = key THEN "serving" ELSE "record",
                  !.key = key, !.retired = Candidates(t) \ {key}]

\* The record pins the current key, except against the operator's; a file key that is not
\* the recorded one does not stand in for a keychain that cannot be read.
PinLax(t) ==
  /\ At(t, "pin")
  /\ Goes(t, IF task[t].source # "env" /\ task[t].read \in Candidates(t)
             THEN Serves(t, task[t].read) ELSE Serves(t, task[t].key))
  /\ UNCHANGED <<Chain, reach, Disk, Process, events>>
Pin(t) ==
  /\ At(t, "pin")
  /\ Goes(t, CASE task[t].source = "env" \/ task[t].read = NoKey -> Serves(t, task[t].key)
               [] task[t].source # "env" /\ task[t].read \in Candidates(t) -> Serves(t, task[t].read)
               [] task[t].source = "file" /\ task[t].locked /\ task[t].read \notin Candidates(t) \cup {NoKey} -> Idle
               [] OTHER -> Serves(t, task[t].key))
  /\ UNCHANGED <<Chain, reach, Disk, Process, events>>

\* A record that cannot be written is a warning.
Record(t) ==
  /\ At(t, "record")
  /\ record' \in {record, task[t].key}
  /\ Goes(t, [task[t] EXCEPT !.pc = "serving"])
  /\ UNCHANGED <<Chain, reach, file, used, Process, events>>

\* The result is cached, over that of a thread that was quicker.
Cache(t) ==
  /\ At(t, "serving") /\ cached # [key |-> task[t].key, retired |-> task[t].retired] /\ task[t].source # "none"
  /\ cached' = [key |-> task[t].key, retired |-> task[t].retired]
  /\ UNCHANGED <<Chain, reach, Disk, env, task, events>>

Seal(t) ==
  /\ At(t, "serving")
  /\ used' = used \cup {task[t].key}
  /\ UNCHANGED <<Chain, reach, file, record, Process, task, events>>

-----------------------------------------------------------------------------
(* Around it.                                                                *)

Start ==
  /\ env = Down /\ events < MaxEvents /\ events' = events + 1
  /\ env' \in Operator \cup {NoKey}
  /\ UNCHANGED <<Chain, reach, Disk, cached, task>>

Stop ==
  /\ env # Down
  /\ env' = Down /\ cached' = Nothing /\ task' = [t \in Thread |-> Idle]
  /\ UNCHANGED <<Chain, reach, Disk, events>>

\* It is locked, unlocked, or its prompt denied.
ReachChanges ==
  /\ \E r \in {"off", "read", "write"} \ {reach} : reach' = r
  /\ UNCHANGED <<Chain, Disk, Process, task, events>>

EntryLost ==
  /\ entry \in Key /\ events < MaxEvents /\ events' = events + 1
  /\ entry' \in {NoKey, Broken} /\ gone' = gone \cup {entry}
  /\ UNCHANGED <<reach, Disk, Process, task>>

Resolve(t) ==
  \/ Begin(t) \/ FromEnv(t) \/ FromChain(t) \/ Seed(t) \/ Store(t) \/ Verify(t) \/ FromFile(t)
  \/ GenerateUnseen(t) \/ LadderFails(t) \/ Publish(t) \/ Pin(t) \/ Record(t) \/ Cache(t)

Next ==
  \/ \E t \in Thread : Resolve(t) \/ Seal(t)
  \/ Start \/ Stop \/ ReachChanges \/ EntryLost

Spec == Init /\ [][Next]_vars

-----------------------------------------------------------------------------
\* Each key that sealed a file is in the keychain or in the key file, unless the entry was
\* lost or the operator brought it.
InPlace == used \subseteq {entry, file} \cup gone \cup Operator

\* A slot that has a record goes on with a key it used or recorded, unless that one was
\* lost or the operator's, and the keys it used before are retired keys of the cipher, the
\* keychain's excepted while it cannot be read.  (An environment key overrules this.)
NotForkedBy(t) ==
  LET known == task[t].saw \ (gone \cup Operator)
  IN task[t].pc \in {"record", "serving"} /\ task[t].source \in {"chain", "file"} /\ task[t].read # NoKey =>
       /\ known # {} /\ task[t].read \notin gone \cup Operator => task[t].key \in task[t].saw \cup {task[t].read}
       /\ known \subseteq {task[t].key} \cup task[t].retired
                          \cup IF task[t].locked THEN {entry} ELSE {}

NeverForked == \A t \in Thread : NotForkedBy(t)
NotForked == \A t \in Thread : task[t].crossed = FALSE => NotForkedBy(t)

\* Whatever is locked, lost or interrupted, a key that sealed something is not dropped and
\* another does not silently take its place (app_key.rs 13-29), unless another thread
\* replaced the entry meanwhile.
AppKeysKept == InPlace /\ NotForked

-----------------------------------------------------------------------------
(* Why that holds (SealedFilesProofs).                                     *)

AppAssumption ==
  /\ Operator \subseteq Key /\ AllowFile
  /\ NoKey \notin Key /\ Broken \notin Key /\ Broken # NoKey /\ Down \notin Key \cup {NoKey}
  /\ MaxEvents \in Nat

\* Where a key is, or why it is not; no step takes one from here.
Placed == ({entry, file} \cap Key) \cup gone \cup Operator

\* The keys a thread works with are somewhere.  If nobody crossed it, it knows the key of the
\* keychain, has seen that there is none, or could not read it; and what a locked keychain
\* may hold is generated for a slot without a record only.
ThreadInv(t) ==
  LET k == task[t]
  IN /\ k.saw \subseteq Placed /\ k.read \in Placed \cup {NoKey}
     /\ k.pc \in {"store", "verify", "publish"} => k.key \in Key
     /\ k.pc \in {"pin", "record", "serving"} => k.key \in Placed
     /\ k.pc = "ladder" => k.locked = FALSE /\ k.crossed = FALSE
     /\ k.pc \in {"store", "verify"} => k.locked = FALSE
     /\ k.pc = "pin" => k.source # "none"
     /\ k.pc = "pin" /\ k.source = "chain" /\ k.crossed = FALSE => entry \in {k.held, NoKey, Broken}
     /\ k.pc \in {"store", "publish"} /\ k.locked = FALSE /\ k.crossed = FALSE => entry \in {NoKey, Broken}
     /\ k.pc = "pin" /\ k.source = "file" /\ k.locked = FALSE /\ k.crossed = FALSE => entry \in {NoKey, Broken}
     /\ k.pc = "publish" /\ k.locked => k.read = NoKey

AppInv ==
  /\ TypeOK /\ InPlace /\ NotForked
  /\ record \in Placed \cup {NoKey} /\ cached.key \in Placed \cup {NoKey}
  /\ env = Down => \A t \in Thread : task[t] = Idle
  /\ \A t \in Thread : ThreadInv(t)
=============================================================================
