--------------------------- MODULE SealedFileParts ---------------------------
(***************************************************************************)
(* The parts of the crypto crate that stand on their own: SealedFile and   *)
(* SealedLog, the two kinds of files it writes, ScopedKeys and             *)
(* VectorIndex, and AppKey, the key of an app.  Each behaviour is one of   *)
(* one part, while the variables of the others keep their initial values.  *)
(***************************************************************************)
EXTENDS Naturals

CONSTANTS
  ChunkSize, MaxLen, MaxDamage,                              \* SealedFile
  MaxRecords, MaxFaults,                                     \* SealedLog
  Master, Plugin, Part, Tenant, Context, Child, Absent, MaxValues,  \* ScopedKeys
  Thread,                                                    \* ScopedKeys and AppKey
  Index, Space, Id, Dims, Limit, K, Score, MaxTotal, MaxOffers,     \* VectorIndex
  AppKeys, Operator, NoKey, Broken, AllowFile, MaxEvents         \* AppKey

VARIABLES
  which,  \* the part of this behaviour
  path, len, temp, job, reader, got, damage,
  log, durable, writer, appends, promised, overlaid, key, compaction, copy, dest, faults,
  custody, core, thread, child, stored,
  mem, order, used, total, evicted, known, kept, offered,
  entry, reach, keyfile, record, sealed, gone, env, cached, task, events

FileVars == <<path, len, temp, job, reader, got, damage>>
LogVars == <<log, durable, writer, appends, promised, overlaid, key, compaction, copy, dest, faults>>
KeyVars == <<custody, core, thread, child, stored>>
CacheVars == <<mem, order, used, total, evicted, known, kept, offered>>
AppVars == <<entry, reach, keyfile, record, sealed, gone, env, cached, task, events>>
PartVars == <<which, FileVars, LogVars, KeyVars, CacheVars, AppVars>>

File == INSTANCE SealedFile
Log == INSTANCE SealedLog WITH temp <- copy
Scoped == INSTANCE ScopedKeys WITH None <- Absent
Cache == INSTANCE VectorIndex WITH Part <- Space
App == INSTANCE AppKey WITH Key <- AppKeys, file <- keyfile, used <- sealed

PartsInit == File!Init /\ Log!Init /\ Scoped!Init /\ Cache!Init /\ App!Init

PartsNext ==
  \/ which = "file" /\ File!Next /\ UNCHANGED <<which, LogVars, KeyVars, CacheVars, AppVars>>
  \/ which = "log" /\ Log!Next /\ UNCHANGED <<which, FileVars, KeyVars, CacheVars, AppVars>>
  \/ which = "keys" /\ Scoped!Next /\ UNCHANGED <<which, FileVars, LogVars, CacheVars, AppVars>>
  \/ which = "cache" /\ Cache!CacheNext /\ UNCHANGED <<which, FileVars, LogVars, KeyVars, AppVars>>
  \/ which = "query" /\ Cache!QueryNext /\ UNCHANGED <<which, FileVars, LogVars, KeyVars, AppVars>>
  \/ which = "app" /\ App!Next /\ UNCHANGED <<which, FileVars, LogVars, KeyVars, CacheVars>>

PartsSpec == PartsInit /\ [][PartsNext]_PartVars

\* SealedFile: a reader gives the bytes it was asked for, or an error.
ReadsTheTruth == File!ReadsTheTruth

\* SealedFile: the plaintext goes only for a copy that reads back as all of it.
ReplacedWhole == File!ReplacedWhole

\* SealedLog: what a sync promised is given back.
PromisedOpens == Log!PromisedOpens

\* ScopedKeys: Core derives subkeys from the whole of one resolution.
ResolvedWhole == Scoped!ResolvedWhole

\* ScopedKeys: a cipher opens every value of its own, and no other.
OpensItsOwn == Scoped!OpensItsOwn

\* VectorIndex: the budget holds, what left memory is reported, and a query keeps the best.
IndexKept == Cache!IndexKept

\* AppKey: no key that sealed something is dropped, nor replaced in silence, unless another
\* thread replaced the keychain's entry during the resolution.
AppKeysKept == App!AppKeysKept
=============================================================================
