----------------------------- MODULE KeyCustody -----------------------------
(***************************************************************************)
(* Custody of the master key of a data folder (custody.rs, and the ladder  *)
(* in lib.rs).  The key may be in the environment, in the OS keychain, in  *)
(* a key file, in the legacy memory key or among the retired keys; a       *)
(* record names the one that seals the folder.                             *)
(*                                                                         *)
(* Core resolves the key at each start and records it; the other processes *)
(* of a node resolve it too and record nothing.  The operator's commands   *)
(* (adopt, retire, import) run with Core stopped.  Every write is a step,  *)
(* and a process may die before any of them.                               *)
(***************************************************************************)
EXTENDS Naturals, FiniteSets, Functions

CONSTANTS
  Key,         \* 32-byte keys; a check value names its key
  NoKey,
  Broken,      \* what a keychain entry holds that does not decode
  Operator,    \* the keys an operator may put into RYU_MASTER_KEY
  AllowFile,   \* whether the hosts of this folder may use a key file
  MaxRetired,  \* MAX_RETIRED_KEYS
  MaxEvents    \* bounds commands, losses of the keychain and starts of the second process

ASSUME CustodyAssumption ==
  /\ NoKey \notin Key /\ Broken \notin Key /\ NoKey # Broken
  /\ Operator \subseteq Key
  /\ MaxRetired \in Nat /\ MaxEvents \in Nat
  /\ AllowFile \in BOOLEAN

VARIABLES
  slot,      \* the keychain entry
  master,    \* secrets/master.key
  legacy,    \* secrets/memory.key
  vault,     \* where retired key material is: in files, in the keychain
  index,     \* retired-keys.json: per key "no", "file" or "chain"
  record,    \* master-key.kcv
  sealed,    \* the keys under which the folder holds data
  gone,      \* keys whose entry was lost by the keychain, or overwritten unread
  proc,      \* the processes
  events     \* commands given, keychain entries lost, starts of the second process

vars == <<slot, master, legacy, vault, index, record, sealed, gone, proc, events>>

Files == <<master, legacy>>
Vault == <<vault, index>>

Proc == {"core", "node"}

\* "chain" is what this process can do with the keychain: nothing ("off": disabled or
\* locked), read it, or write it too.  "todo" are keys to retire, into "vault", and then
\* "next" follows; "read" is the index as the retirement of "hand" read it.
NoEntry == [k \in Key |-> "no"]
Idle == [pc |-> "down", env |-> NoKey, chain |-> "off", recorded |-> NoKey, key |-> NoKey,
         source |-> "none", todo |-> {}, hand |-> NoKey, read |-> NoEntry, into |-> "file",
         next |-> "down"]

Task ==
  [pc : {"down", "ladder", "store", "verify", "publish", "refused", "compare", "retire",
         "index", "install", "confirm", "place", "unslot", "record", "serving"},
   env : Operator \cup {NoKey}, chain : {"off", "read", "write"},
   recorded : Key \cup {NoKey}, key : Key \cup {NoKey},
   source : {"none", "env", "chain", "file"}, todo : SUBSET Key, hand : Key \cup {NoKey},
   read : [Key -> {"no", "file", "chain"}], into : {"file", "chain"},
   next : {"down", "install", "unslot", "record", "serving"}]

TypeOK ==
  /\ slot \in Key \cup {NoKey, Broken}
  /\ master \in Key \cup {NoKey} /\ legacy \in Key \cup {NoKey}
  /\ vault \in [file : SUBSET Key, chain : SUBSET Key]
  /\ index \in [Key -> {"no", "file", "chain"}]
  /\ record \in Key \cup {NoKey}
  /\ sealed \in SUBSET Key /\ gone \in SUBSET Key
  /\ events \in 0..MaxEvents
  /\ proc \in [Proc -> Task]

\* A fresh folder, or one of a version without a record: its key may be in the keychain
\* with a copy in the file, and an older one in the legacy memory key.  Its data is
\* sealed under keys it still has.
Init ==
  /\ \E k \in Key \ Operator : slot \in {NoKey, k} /\ master \in {NoKey, k}
  /\ master # NoKey => AllowFile
  /\ legacy \in (Key \ Operator) \cup {NoKey}
  /\ sealed \in SUBSET ({slot, master, legacy} \ {NoKey})
  /\ vault = [file |-> {}, chain |-> {}]
  /\ index = NoEntry
  /\ record = NoKey
  /\ gone = {}
  /\ events = 0
  /\ proc = [p \in Proc |-> Idle]

-----------------------------------------------------------------------------
(* What a task can see.                                                    *)

InChain(t) == IF t.chain = "off" THEN NoKey ELSE slot

Retired == {k \in Key : index[k] # "no"}

\* load_all: an entry whose material cannot be read is left out.
Loadable(t) ==
  {k \in Key : \/ index[k] = "file" /\ k \in vault.file
               \/ index[k] = "chain" /\ k \in vault.chain /\ t.chain # "off"}

\* The candidates that are in use, and all of them.
Live(t) == {t.env, InChain(t), master, legacy} \cap Key
Candidates(t) == Live(t) \cup Loadable(t)

\* A key that was never anywhere.
Fresh == Key \ (Operator \cup {slot, master, legacy, record} \cup vault.file \cup vault.chain
                \cup sealed \cup gone \cup UNION {{t.key, t.hand} \cup t.todo : t \in Range(proc)})

At(p, pc) == proc[p].pc = pc
Goes(p, task) == proc' = [proc EXCEPT ![p] = task]

-----------------------------------------------------------------------------
(* The ladder: load_master_key_guarded.                                    *)

LadderFrame == UNCHANGED <<Vault, record, sealed, events>>

\* A command is running in Core's place.
Commanding ==
  \/ proc["core"].pc \in {"install", "confirm", "place", "unslot"}
  \/ /\ proc["core"].pc \in {"retire", "index", "record"}
     /\ proc["core"].next \notin {"serving", "record"}

Begin(p) ==
  /\ At(p, "down")
  /\ p = "node" => events < MaxEvents /\ ~Commanding
  /\ events' = IF p = "node" THEN events + 1 ELSE events
  /\ \E env \in Operator \cup {NoKey, Broken}, chain \in {"off", "read", "write"} :
       LET t == [Idle EXCEPT !.chain = chain, !.recorded = record] IN
       /\ Goes(p, IF env = Broken THEN [t EXCEPT !.pc = "refused"]
                  ELSE IF env = NoKey THEN [t EXCEPT !.pc = "ladder"]
                  ELSE [t EXCEPT !.pc = "compare", !.env = env, !.key = env, !.source = "env"])
  /\ UNCHANGED <<slot, Files, Vault, record, sealed, gone>>

Found(p, key, source) ==
  Goes(p, [proc[p] EXCEPT !.pc = "compare", !.key = key, !.source = source])

\* The legacy file goes when the keychain is known to hold the same key.
RetireMatchingLegacy(key) == legacy' = IF legacy = key THEN NoKey ELSE legacy

FoundInChain(p) ==
  /\ At(p, "ladder") /\ InChain(proc[p]) \in Key
  /\ RetireMatchingLegacy(slot)
  /\ Found(p, slot, "chain")
  /\ UNCHANGED <<slot, master, gone>> /\ LadderFrame

FoundInFile(p) ==
  /\ At(p, "ladder") /\ proc[p].chain = "off"
  /\ AllowFile /\ master # NoKey
  /\ Found(p, master, "file")
  /\ UNCHANGED <<slot, Files, gone>> /\ LadderFrame

\* No key where the ladder looks first.
Without(p) ==
  /\ At(p, "ladder")
  /\ \/ proc[p].chain # "off" /\ slot = NoKey
     \/ proc[p].chain = "off" /\ AllowFile /\ master = NoKey

\* Then the key file's, else the legacy one, else a new one.
Existing == IF AllowFile /\ master # NoKey THEN master ELSE legacy

OnItsWay(p, key) ==
  Goes(p, [proc[p] EXCEPT !.key = key,
             !.pc = IF proc[p].chain = "off" THEN "publish" ELSE "store"])

AdoptExisting(p) ==
  /\ Without(p) /\ Existing # NoKey
  /\ OnItsWay(p, Existing)
  /\ UNCHANGED <<slot, Files, gone>> /\ LadderFrame

\* The evidence of sealed data a host gives is exact; a record, as this start read it,
\* and a retired key count as well.
MayGenerate(p) == proc[p].recorded = NoKey /\ sealed = {} /\ Retired = {}

Generate(p) ==
  /\ Without(p) /\ Existing = NoKey
  /\ MayGenerate(p)
  /\ \E k \in Fresh : OnItsWay(p, k)
  /\ UNCHANGED <<slot, Files, gone>> /\ LadderFrame

LadderRefuses(p) ==
  /\ At(p, "ladder")
  /\ \/ InChain(proc[p]) = Broken
     \/ proc[p].chain = "off" /\ ~AllowFile
     \/ Without(p) /\ Existing = NoKey /\ ~MayGenerate(p)
  /\ Goes(p, [proc[p] EXCEPT !.pc = "refused"])
  /\ UNCHANGED <<slot, Files, gone>> /\ LadderFrame

\* The keychain keeps what is stored last; an entry another process made meanwhile is lost.
Store(p) ==
  /\ At(p, "store")
  /\ IF proc[p].chain = "write"
       THEN /\ slot' = proc[p].key
            /\ gone' = gone \cup ({slot} \cap (Key \ {proc[p].key}))
            /\ Goes(p, [proc[p] EXCEPT !.pc = "verify"])
       ELSE /\ Goes(p, [proc[p] EXCEPT !.pc = IF AllowFile THEN "publish" ELSE "refused"])
            /\ UNCHANGED <<slot, gone>>
  /\ UNCHANGED <<Files>> /\ LadderFrame

\* The entry is read back.
Verify(p) ==
  /\ At(p, "verify")
  /\ IF slot = proc[p].key
       THEN RetireMatchingLegacy(slot) /\ Found(p, slot, "chain")
       ELSE Goes(p, [proc[p] EXCEPT !.pc = "refused"]) /\ UNCHANGED legacy
  /\ UNCHANGED <<slot, master, gone>> /\ LadderFrame

\* write_key_file: the first writer wins, and the others take its key.
Publish(p) ==
  /\ At(p, "publish")
  /\ master' = IF master = NoKey THEN proc[p].key ELSE master
  /\ Found(p, master', "file")
  /\ UNCHANGED <<slot, legacy, gone>> /\ LadderFrame

-----------------------------------------------------------------------------
(* resolve: the key is compared with the record.                           *)

ResolveFrame == UNCHANGED <<slot, Files, Vault, record, sealed, gone, events>>

Serving(t, key) ==
  [Idle EXCEPT !.pc = "serving", !.key = key, !.recorded = t.recorded]

Recording(key) == [Idle EXCEPT !.pc = "record", !.key = key, !.next = "serving"]

\* The ladder gave nothing: a candidate that matches the record still serves.
Refused(p) ==
  /\ At(p, "refused")
  /\ Goes(p, IF proc[p].recorded \in Candidates(proc[p])
               THEN Serving(proc[p], proc[p].recorded) ELSE Idle)
  /\ ResolveFrame

Matches(p) ==
  /\ At(p, "compare") /\ proc[p].recorded = proc[p].key
  /\ Goes(p, Serving(proc[p], proc[p].key))
  /\ ResolveFrame

\* Where the vault puts a key: the keychain is tried when it is preferred.
Into(t, preferred) == IF preferred /\ t.chain = "write" THEN "chain" ELSE "file"

\* Another candidate serves; the key that was found is retired, unless the operator
\* gave it.
Recovered(t, key, then) ==
  IF t.source = "env" THEN [Serving(t, key) EXCEPT !.pc = then, !.next = "serving"]
  ELSE [Serving(t, key) EXCEPT !.pc = "retire", !.todo = {t.key},
                            !.into = Into(t, t.source = "chain"), !.next = then]

\* Faulty form: a key that does not match is used.
MismatchServes(p) ==
  /\ At(p, "compare") /\ proc[p].recorded \notin {NoKey, proc[p].key}
  /\ Goes(p, Serving(proc[p], proc[p].key))
  /\ ResolveFrame

Mismatch(p) ==
  /\ At(p, "compare") /\ proc[p].recorded \notin {NoKey, proc[p].key}
  /\ Goes(p, IF \/ proc[p].source = "env" /\ proc[p].key \notin Loadable(proc[p])
               \/ proc[p].recorded \notin Candidates(proc[p])
               THEN Idle ELSE Recovered(proc[p], proc[p].recorded, "serving"))
  /\ ResolveFrame

\* The probe opens a few sealed values.
Samples == {s \in SUBSET sealed : s # {} \/ sealed = {}}

\* Nothing is recorded: Core, which records, probes the key first.
Unrecorded(p) ==
  /\ At(p, "compare") /\ proc[p].recorded = NoKey
  /\ IF p # "core" THEN Goes(p, Serving(proc[p], proc[p].key))
     ELSE \E s \in Samples :
       IF s = {} \/ proc[p].key \in s
         THEN Goes(p, Recording(proc[p].key))
         ELSE IF s \cap Candidates(proc[p]) = {} THEN Goes(p, Idle)
         ELSE \E k \in s \cap Candidates(proc[p]) :
                Goes(p, Recovered(proc[p], k, "record"))
  /\ ResolveFrame

-----------------------------------------------------------------------------
(* The vault: the material of a key is stored, then its entry in the index. *)

VaultFrame == UNCHANGED <<slot, Files, record, sealed, gone, events>>

Full == Cardinality(Retired) >= MaxRetired

\* What follows the retirements.
Follows(t) ==
  CASE t.next = "down" -> Idle
    [] t.next = "serving" -> Serving(t, t.key)
    [] t.next = "record" -> Recording(t.key)
    [] OTHER -> [t EXCEPT !.pc = t.next]

\* A start goes on with a full vault, a command ends.
RetireFails(t) == IF t.next \in {"serving", "record"} THEN Follows(t) ELSE Idle

Retire(p) ==
  /\ At(p, "retire") /\ proc[p].todo # {}
  /\ \E k \in proc[p].todo :
       LET t == [proc[p] EXCEPT !.todo = @ \ {k}, !.hand = k] IN
       IF index[k] # "no" THEN Goes(p, [t EXCEPT !.hand = NoKey]) /\ UNCHANGED vault
       ELSE IF Full THEN Goes(p, RetireFails(proc[p])) /\ UNCHANGED vault
       ELSE /\ vault' = [vault EXCEPT ![t.into] = @ \cup {k}]
            /\ Goes(p, [t EXCEPT !.pc = "index", !.read = index])
  /\ UNCHANGED index /\ VaultFrame

\* The index is written whole, as it was read but for the new entry: the lock is one of this
\* process, and what another start entered meanwhile is dropped.
Index(p) ==
  /\ At(p, "index")
  /\ index' = [proc[p].read EXCEPT ![proc[p].hand] = proc[p].into]
  /\ Goes(p, [proc[p] EXCEPT !.pc = "retire", !.hand = NoKey, !.read = NoEntry])
  /\ UNCHANGED vault /\ VaultFrame

AllRetired(p) ==
  /\ At(p, "retire") /\ proc[p].todo = {}
  /\ Goes(p, Follows(proc[p]))
  /\ UNCHANGED Vault /\ VaultFrame

\* write_kcv_record: the last step of Core's first start, and of adopt and import.
Record(p) ==
  /\ At(p, "record")
  /\ record' = proc[p].key
  /\ Goes(p, Follows(proc[p]))
  /\ UNCHANGED <<slot, Files, Vault, sealed, gone, events>>

-----------------------------------------------------------------------------
(* The operator's commands.                                                *)

\* They are run with Core stopped, and so with its children.
AllDown == \A p \in Proc : At(p, "down")

\* A command sees the environment and the keychain of its own process.
Commands == {[Idle EXCEPT !.env = env, !.chain = chain, !.into = IF chain = "write" THEN "chain" ELSE "file"] :
               env \in Operator \cup {NoKey}, chain \in {"off", "read", "write"}}

\* Faulty form: only the key in the persistent place is retired.
ToRetirePersistent(t, key, extra) ==
  (({IF InChain(t) \in Key THEN InChain(t) ELSE master} \cup extra) \ {key}) \cap Key

\* The persistent key (the keychain's before the file's), the recorded key if any live
\* place holds it, and what a bundle retires.
ToRetire(t, key, extra) ==
  (({IF InChain(t) \in Key THEN InChain(t) ELSE master} \cup ({record} \cap Live(t)) \cup extra)
     \ {key}) \cap Key

\* install_current retires first, and only if the vault has room for all.
InstallCurrent(t, key, extra) ==
  /\ Cardinality(Retired \cup ToRetire(t, key, extra)) <= MaxRetired
  /\ Goes("core", [t EXCEPT !.pc = "retire", !.env = NoKey, !.key = key, !.next = "install",
                            !.todo = ToRetire(t, key, extra)])

CommandFrame ==
  /\ events < MaxEvents /\ events' = events + 1
  /\ UNCHANGED <<slot, Files, Vault, record, sealed, gone>>

\* With --accept-unreadable the probe refuses nothing.
Adopt ==
  /\ AllDown
  /\ \E t \in Commands :
       /\ \E k \in Candidates(t) : InstallCurrent(t, k, {})
  /\ CommandFrame

\* A bundle of another folder.  An environment key that it does not know is refused.
Import ==
  /\ AllDown
  /\ \E t \in Commands, k \in Key, extra \in {{}} \cup {{e} : e \in Key} :
       /\ t.env \in {NoKey, k} \cup extra
       /\ k \notin extra
       /\ IF record = k /\ k \in {t.env, InChain(t), master}
            THEN Goes("core", [t EXCEPT !.pc = "retire", !.env = NoKey, !.todo = extra])
            ELSE InstallCurrent(t, k, extra)
  /\ CommandFrame

\* A candidate that is not the current key, and not the keychain's, is moved to the vault.
RetireCommand ==
  /\ AllDown
  /\ \E t \in Commands : \E k \in Live(t) \ {record} :
       /\ k = t.env \/ k # InChain(t)
       /\ Goes("core", [t EXCEPT !.pc = "retire", !.env = NoKey, !.key = k, !.todo = {k},
                                       !.next = IF k = t.env THEN "down" ELSE "unslot"])
  /\ CommandFrame

\* The file it was in goes, once the vault gives the key back.
Unslot ==
  /\ At("core", "unslot")
  /\ LET t == proc["core"] IN
     IF t.key \notin Loadable(t) THEN UNCHANGED Files
     ELSE IF master = t.key THEN master' = NoKey /\ UNCHANGED legacy
     ELSE legacy' = NoKey /\ UNCHANGED master
  /\ Goes("core", Idle)
  /\ UNCHANGED <<slot, Vault, record, sealed, gone, events>>

InstallFrame == UNCHANGED <<legacy, Vault, record, sealed, events>>

Install ==
  /\ At("core", "install")
  /\ IF proc["core"].chain = "write"
       THEN slot' = proc["core"].key /\ Goes("core", [proc["core"] EXCEPT !.pc = "confirm"])
       ELSE UNCHANGED slot /\ Goes("core", [proc["core"] EXCEPT !.pc = "place"])
  /\ UNCHANGED <<master, gone>> /\ InstallFrame

Confirm ==
  /\ At("core", "confirm")
  /\ Goes("core", [proc["core"] EXCEPT
       !.pc = IF slot = proc["core"].key THEN "record" ELSE "place", !.next = "down"])
  /\ UNCHANGED <<slot, master, gone>> /\ InstallFrame

\* The key file takes the key.  What it held is retired, unless it was not the recorded
\* key and the keychain was readable with another one: then it goes unread.
Place ==
  /\ At("core", "place")
  /\ IF AllowFile
       THEN /\ master' = proc["core"].key
            /\ gone' = gone \cup ({master} \cap (Key \ (Retired \cup {proc["core"].key, record})))
            /\ Goes("core", [proc["core"] EXCEPT !.pc = "record", !.next = "down"])
       ELSE UNCHANGED <<master, gone>> /\ Goes("core", Idle)
  /\ UNCHANGED slot /\ InstallFrame

-----------------------------------------------------------------------------
(* What goes on around them.                                               *)

\* A process that serves seals under its key.
Seal(p) ==
  /\ At(p, "serving")
  /\ sealed' = sealed \cup {proc[p].key}
  /\ UNCHANGED <<slot, Files, Vault, record, gone, proc, events>>

\* It dies or ends, and what it had written stays.
Stop(p) ==
  /\ ~At(p, "down")
  /\ Goes(p, Idle)
  /\ UNCHANGED <<slot, Files, Vault, record, sealed, gone, events>>

\* The system loses or damages the entry.
ChainLoses ==
  /\ slot \in Key
  /\ events < MaxEvents /\ events' = events + 1
  /\ slot' \in {NoKey, Broken}
  /\ gone' = gone \cup {slot}
  /\ UNCHANGED <<Files, Vault, record, sealed, proc>>

-----------------------------------------------------------------------------

Ladder(p) ==
  \/ Begin(p) \/ FoundInChain(p) \/ FoundInFile(p) \/ AdoptExisting(p) \/ Generate(p)
  \/ LadderRefuses(p) \/ Store(p) \/ Verify(p) \/ Publish(p)
Resolve(p) == Refused(p) \/ Matches(p) \/ Mismatch(p) \/ Unrecorded(p)
Vaulting(p) == Retire(p) \/ Index(p) \/ AllRetired(p) \/ Record(p)
Command == Adopt \/ Import \/ RetireCommand \/ Unslot \/ Install \/ Confirm \/ Place

Next ==
  \/ \E p \in Proc : Ladder(p) \/ Resolve(p) \/ Vaulting(p) \/ Seal(p) \/ Stop(p)
  \/ Command
  \/ ChainLoses

Spec == Init /\ [][Next]_vars

-----------------------------------------------------------------------------
(* Properties.                                                             *)

Held == ({slot, master, legacy} \cap Key)
        \cup {k \in Key : index[k] = "file" /\ k \in vault.file}
        \cup {k \in Key : index[k] = "chain" /\ k \in vault.chain}

\* Whatever is interrupted, each key under which the folder holds data is in a place where
\* a start finds it, unless the keychain lost it, it went unread or the operator brought it
\* (resolve, install_current, retire_with).
KeysKept == \A k \in sealed : k \in Held \cup gone \cup Operator

\* Core serves under the key its folder records, and another process under the key that was
\* recorded when it began, whatever candidate the ladder found first (resolve).
ServesTheRecord ==
  \A p \in Proc : At(p, "serving") /\ (p = "core" \/ proc[p].recorded # NoKey) =>
    proc[p].key = IF p = "core" THEN record ELSE proc[p].recorded
=============================================================================
