----------------------------- MODULE ScopedKeys -----------------------------
(***************************************************************************)
(* Which key a process seals with (lib.rs, process_keys.rs, sealed.rs).    *)
(* Core resolves the master key once, from several threads; every other    *)
(* process of a node has a subkey of it for one scope only, delivered in   *)
(* its environment by the process that started it, or derived from the     *)
(* master key it finds itself.                                             *)
(*                                                                         *)
(* How the master key and its predecessors are found is KeyCustody; here   *)
(* it is what the custody says at that moment.  The custody changes only   *)
(* while Core is stopped.  A value is what the AEAD authenticates: a key   *)
(* and associated data.                                                    *)
(***************************************************************************)
EXTENDS Naturals, FiniteSets

CONSTANTS
  Master,      \* master keys
  Plugin,      \* canonical ids of plugins
  Part,        \* names of components
  Tenant,      \* tenants of the node
  Context,     \* the records and fields a bound value may be sealed for
  Child,       \* process slots
  Thread,      \* threads of Core
  None,        \* no key, no delivery, nothing resolved
  MaxValues    \* bounds the values that are stored

VARIABLES
  custody,  \* the master key in use and the retired ones
  core,     \* Core's once-cells: retired keys, key, cipher
  thread,   \* its threads
  child,    \* the other processes
  stored    \* values in the stores of the node

vars == <<custody, core, thread, child, stored>>

Scope == ({"plugin"} \X Plugin) \cup ({"component"} \X Part)
Bound == {"tenant"} \X Tenant
CoreScope == <<"core", None>>
Owner == Scope \cup Bound \cup {CoreScope}

\* HKDF with the kind of the scope as its domain: keys of different scopes differ.
Derive(master, scope) == [scope |-> scope, of |-> master]

Keys == [key : Master, retired : SUBSET Master]
Delivery == [scope : Scope, key : [scope : Scope, of : Master],
             retired : SUBSET [scope : Scope, of : Master]]
Cipher == Delivery

NoCells == [retired |-> None, key |-> None, cipher |-> None]
Waiting == [pc |-> "idle", found |-> None]
NotRun == [alive |-> FALSE, scope |-> None, host |-> FALSE, operator |-> None,
           env |-> None, read |-> FALSE, held |-> None, cipher |-> None, since |-> None]

\* A value is a field, sealed for its scope only, or content, sealed for a place in a
\* store too; a tenant's value always has a context.
Form(scope, context) ==
  CASE scope[1] # "tenant" /\ context # None -> "encb:v1"
    [] scope[1] = "plugin" -> "encp:v1"
    [] scope[1] = "component" -> "encc:v1"
    [] scope[1] = "tenant" -> "enc:v2"
    [] scope = CoreScope /\ context = None -> "enc:v1"

\* The labelled parts are length-prefixed: different contexts have different bytes.
AssociatedUnlabelled(scope, context) == <<scope>>
AssociatedData(scope, context) == <<scope, context>>

Value == [form : {"plain", "enc:v1", "encp:v1", "encc:v1", "enc:v2", "encb:v1"},
          key : [scope : Owner, of : Master] \cup {None},
          aad : {AssociatedData(o, x) : o \in Owner, x \in Context} \cup {None},
          owner : Owner, context : Context \cup {None}]

TypeOK ==
  /\ custody \in Keys
  /\ core \in [up : BOOLEAN, retired : (SUBSET Master) \cup {None}, key : Master \cup {None},
               cipher : Keys \cup {None}]
  /\ thread \in [Thread -> [pc : {"idle", "resolve", "retired", "key", "cipher", "derive", "spawn"},
                            found : Keys \cup {None}]]
  /\ \A c \in Child : child[c].cipher \in Cipher \cup {None}
  /\ stored \in SUBSET Value

Init ==
  /\ custody = [key |-> CHOOSE m \in Master : TRUE, retired |-> {}]
  /\ core = [up |-> FALSE, retired |-> None, key |-> None, cipher |-> None]
  /\ thread = [t \in Thread |-> Waiting]
  /\ child = [c \in Child |-> NotRun]
  /\ stored = {}

-----------------------------------------------------------------------------
(* Core: global_cipher, and the subkeys derived from what it recorded.       *)

Down == /\ core' = [up |-> FALSE, retired |-> None, key |-> None, cipher |-> None]
        /\ thread' = [t \in Thread |-> Waiting]

Start == ~core.up /\ core' = [core EXCEPT !.up = TRUE] /\ UNCHANGED <<custody, thread, child, stored>>
Stop == core.up /\ Down /\ UNCHANGED <<custody, child, stored>>

\* `keys adopt`, with Core stopped.
Adopt(m) ==
  /\ ~core.up /\ m \notin custody.retired \cup {custody.key}
  /\ custody' = [key |-> m, retired |-> custody.retired \cup {custody.key}]
  /\ UNCHANGED <<core, thread, child, stored>>

At(t, pc) == core.up /\ thread[t].pc = pc
Goes(t, pc) == thread' = [thread EXCEPT ![t].pc = pc]

\* A cipher that is there already is taken; the keys behind it are read next.
Ask(t) ==
  /\ At(t, "idle")
  /\ Goes(t, IF core.cipher # None THEN "derive" ELSE "resolve")
  /\ UNCHANGED <<custody, core, child, stored>>

\* The resolver finds the key, or fails and the caller gets no cipher.
Resolve(t) ==
  /\ At(t, "resolve")
  /\ \/ thread' = [thread EXCEPT ![t] = [pc |-> "retired", found |-> custody]]
     \/ Goes(t, "idle")
  /\ UNCHANGED <<custody, core, child, stored>>

\* A once-cell keeps its first value.
Keeps(cell, value) == IF cell = None THEN value ELSE cell

RecordCipherFirst(t) ==
  /\ At(t, "retired")
  /\ core' = [core EXCEPT !.cipher = Keeps(@, thread[t].found), !.retired = Keeps(@, thread[t].found.retired)]
  /\ Goes(t, "key")
  /\ UNCHANGED <<custody, child, stored>>

RecordRetired(t) ==
  /\ At(t, "retired")
  /\ core' = [core EXCEPT !.retired = Keeps(@, thread[t].found.retired)]
  /\ Goes(t, "key")
  /\ UNCHANGED <<custody, child, stored>>

RecordKey(t) ==
  /\ At(t, "key")
  /\ core' = [core EXCEPT !.key = Keeps(@, thread[t].found.key)]
  /\ Goes(t, "cipher")
  /\ UNCHANGED <<custody, child, stored>>

RecordCipher(t) ==
  /\ At(t, "cipher")
  /\ core' = [core EXCEPT !.cipher = Keeps(@, thread[t].found)]
  /\ Goes(t, "derive")
  /\ UNCHANGED <<custody, child, stored>>

\* resolved_master_and_retired: a key that is not recorded is an error, retired keys
\* that are not recorded are none.
ReadCells(t) ==
  /\ At(t, "derive")
  /\ thread' = [thread EXCEPT ![t] =
       [pc |-> "spawn",
        found |-> IF core.key = None THEN None
                  ELSE [key |-> core.key, retired |-> IF core.retired = None THEN {} ELSE core.retired]]]
  /\ UNCHANGED <<custody, core, child, stored>>

\* The environment of a child: its subkey, its scope, and its subkeys under retired keys.
ChildEnvCurrent(keys, scope) ==
  [scope |-> scope, key |-> Derive(keys.key, scope), retired |-> {}]
ChildEnv(keys, scope) ==
  [scope |-> scope, key |-> Derive(keys.key, scope), retired |-> {Derive(m, scope) : m \in keys.retired}]

\* A child of Core; without a key it gets no entries and seals nothing.
Spawn(t, c, s) ==
  /\ At(t, "spawn") /\ ~child[c].alive
  /\ child' = [child EXCEPT ![c] =
       [NotRun EXCEPT !.alive = TRUE, !.scope = s, !.since = custody,
                      !.env = IF thread[t].found = None THEN None ELSE ChildEnv(thread[t].found, s)]]
  /\ thread' = [thread EXCEPT ![t] = Waiting]
  /\ UNCHANGED <<custody, core, stored>>

-----------------------------------------------------------------------------
(* The other processes.                                                      *)

\* A process started without Core: its host resolves the master key as Core does, or
\* the operator puts the key in use into its environment.
StartByHand(c, s, host) ==
  /\ ~child[c].alive
  /\ child' = [child EXCEPT ![c] =
       [NotRun EXCEPT !.alive = TRUE, !.scope = s, !.host = host, !.since = custody,
                      !.operator = IF host THEN None ELSE custody.key]]
  /\ UNCHANGED <<custody, core, thread, stored>>

\* A process starts one of another scope, which inherits its environment unless that
\* is scrubbed.
Fork(c, d, s, scrub) ==
  /\ child[c].alive /\ ~child[d].alive /\ s # child[c].scope
  /\ child' = [child EXCEPT ![d] =
       [NotRun EXCEPT !.alive = TRUE, !.scope = s, !.since = child[c].since,
                      !.env = IF scrub THEN None ELSE child[c].env,
                      !.operator = IF scrub THEN None ELSE child[c].operator]]
  /\ UNCHANGED <<custody, core, thread, stored>>

\* capture_process_seal_key: read once, and gone from the environment.
Capture(c) ==
  /\ child[c].alive /\ ~child[c].read
  /\ child' = [child EXCEPT ![c] = [@ EXCEPT !.read = TRUE, !.held = child[c].env, !.env = None]]
  /\ UNCHANGED <<custody, core, thread, stored>>

\* What the process would seal with: the delivered subkey if it is for this scope, and
\* only without a delivery one it derives itself.
SubkeyUnchecked(c, delivered) ==
  CASE delivered # None -> [delivered EXCEPT !.scope = child[c].scope]
    [] delivered = None /\ child[c].host -> ChildEnv(custody, child[c].scope)
    [] delivered = None /\ ~child[c].host /\ child[c].operator # None ->
         ChildEnv([key |-> child[c].operator, retired |-> {}], child[c].scope)
    [] OTHER -> None
Subkey(c, delivered) ==
  CASE delivered # None -> IF delivered.scope = child[c].scope THEN delivered ELSE None
    [] delivered = None /\ child[c].host -> ChildEnv(custody, child[c].scope)
    [] delivered = None /\ ~child[c].host /\ child[c].operator # None ->
         ChildEnv([key |-> child[c].operator, retired |-> {}], child[c].scope)
    [] OTHER -> None

\* The first use reads the delivery if nothing captured it; the environment keeps it.
\* A host resolves the custody of this moment.
Use(c) ==
  LET delivered == IF child[c].read THEN child[c].held ELSE child[c].env
  IN /\ child[c].alive /\ child[c].cipher = None
     /\ child' = [child EXCEPT ![c] =
          [@ EXCEPT !.read = TRUE, !.held = delivered, !.cipher = Subkey(c, delivered),
                    !.since = IF delivered = None /\ child[c].host THEN custody ELSE child[c].since]]
     /\ UNCHANGED <<custody, core, thread, stored>>

-----------------------------------------------------------------------------
(* Values.                                                                   *)

CoreCipher(scope) == ChildEnv(core.cipher, scope)

\* A bound value: the current key only, and the context it was sealed for.
TenantCipher(b) == [scope |-> b, key |-> Derive(core.cipher.key, b), retired |-> {}]

Sealed(cipher, context) ==
  [form |-> Form(cipher.scope, context), key |-> cipher.key, owner |-> cipher.scope, context |-> context,
   aad |-> IF context = None THEN None ELSE AssociatedData(cipher.scope, context)]

\* The tag verifies: the key in use, or a retired one, and the same associated data.
OpensWith(cipher, context, v) ==
  /\ v.form = Form(cipher.scope, context)
  /\ v.key \in {cipher.key} \cup cipher.retired
  /\ v.aad = IF context = None THEN None ELSE AssociatedData(cipher.scope, context)

\* The ciphers in use, with the context they are asked for and the custody they know.
InUse ==
     {[cipher |-> child[c].cipher, context |-> x, since |-> child[c].since,
       all |-> child[c].held # None \/ child[c].host] :
        c \in {d \in Child : child[d].cipher # None}, x \in Context \cup {None}}
  \cup IF core.cipher = None THEN {}
       ELSE {[cipher |-> CoreCipher(s), context |-> x, since |-> core.cipher, all |-> TRUE] :
               s \in Scope \cup {CoreScope}, x \in Context \cup {None}}
        \cup {[cipher |-> TenantCipher(b), context |-> x, since |-> core.cipher, all |-> FALSE] :
               b \in Bound, x \in Context}

Fits(v) == v \in stored \/ Cardinality(stored) < MaxValues

Seal ==
  /\ \E u \in InUse : LET v == Sealed(u.cipher, u.context)
                      IN Fits(v) /\ stored' = stored \cup {v}
  /\ UNCHANGED <<custody, core, thread, child>>

\* A version that did not seal left a value.
Legacy(s, x) ==
  /\ Cardinality(stored) < MaxValues
  /\ stored' = stored \cup {[form |-> "plain", key |-> None, aad |-> None, owner |-> s, context |-> x]}
  /\ UNCHANGED <<custody, core, thread, child>>

\* A store seals what it opened as legacy plaintext; the master cipher and the content
\* ciphers also seal again what only a retired key opens.
Reseal ==
  /\ \E u \in InUse, v \in stored :
       /\ v.owner = u.cipher.scope /\ v.context = u.context
       /\ \/ v.form = "plain"
          \/ /\ v.form \in {"enc:v1", "encb:v1"}
             /\ OpensWith(u.cipher, u.context, v) /\ v.key # u.cipher.key
       /\ stored' = (stored \ {v}) \cup {Sealed(u.cipher, u.context)}
  /\ UNCHANGED <<custody, core, thread, child>>

Next ==
  \/ Start \/ Stop \/ \E m \in Master : Adopt(m)
  \/ \E t \in Thread : Ask(t) \/ Resolve(t) \/ RecordRetired(t) \/ RecordKey(t) \/ RecordCipher(t) \/ ReadCells(t)
  \/ \E t \in Thread, c \in Child, s \in Scope : Spawn(t, c, s)
  \/ \E c \in Child, s \in Scope, host \in BOOLEAN : StartByHand(c, s, host)
  \/ \E c, d \in Child, s \in Scope, scrub \in BOOLEAN : Fork(c, d, s, scrub)
  \/ \E c \in Child : Capture(c) \/ Use(c)
  \/ Seal \/ Reseal \/ \E s \in Scope \cup {CoreScope}, x \in Context \cup {None} : Legacy(s, x)

Spec == Init /\ [][Next]_vars

-----------------------------------------------------------------------------
\* What a thread of Core derives subkeys from is what was resolved: never "not
\* recorded" after it was given a cipher, never the key without its predecessors,
\* whichever thread is how far in recording (lib.rs 541-554).
ResolvedWhole ==
  \A t \in Thread : thread[t].pc = "spawn" => thread[t].found = custody

\* No cipher opens a sealed value of another scope, tenant or record.  One that was built
\* from what the custody says now opens every value of its own, whoever sealed it and
\* under whichever master key; except a tenant's, and a process the operator gave one
\* key, which know the key in use and no predecessor.
OpensItsOwn ==
  \A u \in InUse, v \in stored : v.form # "plain" =>
    /\ OpensWith(u.cipher, u.context, v) => v.owner = u.cipher.scope /\ v.context = u.context
    /\ /\ v.owner = u.cipher.scope /\ v.context = u.context
       /\ u.since = custody
       /\ u.all \/ v.key.of = custody.key
       => OpensWith(u.cipher, u.context, v)

-----------------------------------------------------------------------------
(* Why that holds (SealedFilesProofs).                                     *)

\* None is none of what it stands in for.
KeysAssumption ==
  /\ Master # {}
  /\ None \notin Master /\ None \notin Keys /\ \A S \in SUBSET Master : S # None
  /\ None \notin Delivery /\ None \notin Owner \X Context

Cells == [up : BOOLEAN, retired : (SUBSET Master) \cup {None}, key : Master \cup {None},
          cipher : Keys \cup {None}]
Threads == [pc : {"idle", "resolve", "retired", "key", "cipher", "derive", "spawn"},
            found : Keys \cup {None}]
Process == [alive : BOOLEAN, scope : Scope \cup {None}, host : BOOLEAN, operator : Master \cup {None},
            env : Delivery \cup {None}, read : BOOLEAN, held : Delivery \cup {None},
            cipher : Delivery \cup {None}, since : Keys \cup {None}]

KeysTypes ==
  /\ custody \in Keys /\ core \in Cells
  /\ thread \in [Thread -> Threads] /\ child \in [Child -> Process]

\* A once-cell holds what the custody says, and those of a thread's earlier steps are full.
CoreInv ==
  /\ ~core.up => core = [up |-> FALSE, retired |-> None, key |-> None, cipher |-> None] /\ \A t \in Thread : thread[t] = Waiting
  /\ core.retired \in {None, custody.retired} /\ core.key \in {None, custody.key}
  /\ core.cipher \in {None, custody}
  /\ core.cipher # None => core.key # None
  /\ core.key # None => core.retired # None
  /\ \A t \in Thread :
       /\ thread[t].pc \in {"retired", "key", "cipher", "spawn"} => thread[t].found = custody
       /\ thread[t].pc = "key" => core.retired # None
       /\ thread[t].pc \in {"cipher", "derive"} => core.key # None

\* The master keys that were ever in use.
Known == {custody.key} \cup custody.retired

\* A process was given the subkeys of the custody of its start, or of its first use, for
\* some scope; it seals with those of its own.
Proper(k) ==
  /\ IF k.alive THEN k.scope \in Scope /\ k.since \in Keys /\ {k.since.key} \cup k.since.retired \subseteq Known
                ELSE k = NotRun
  /\ k.operator # None => k.operator = k.since.key
  /\ k.host => k.env = None /\ k.held = None /\ k.operator = None
  /\ k.env # None => k.env = ChildEnv(k.since, k.env.scope)
  /\ k.held # None => k.held = ChildEnv(k.since, k.held.scope)
  /\ k.cipher # None => k.read
  /\ k.cipher # None =>
       IF k.host \/ k.held # None THEN k.cipher = ChildEnv(k.since, k.scope)
       ELSE k.cipher = ChildEnv([key |-> k.since.key, retired |-> {}], k.scope)
ChildInv == \A c \in Child : Proper(child[c])

\* A sealed value says whose it is, in its key and in what the tag covers.
Marked(v) ==
  /\ v.form = Form(v.owner, v.context) /\ v.owner \in Owner /\ v.context \in Context \cup {None}
  /\ \E m \in Known : v.key = Derive(m, v.owner)
  /\ v.aad = IF v.context = None THEN None ELSE AssociatedData(v.owner, v.context)
StoredInv == \A v \in stored : v.form # "plain" => Marked(v)

ScopedInv == KeysTypes /\ CoreInv /\ ChildInv /\ StoredInv
=============================================================================
