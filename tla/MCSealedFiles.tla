---------------------------- MODULE MCSealedFiles ----------------------------
(***************************************************************************)
(* Model checking of SealedFileParts.                                      *)
(***************************************************************************)
EXTENDS SealedFileParts, FiniteSets, TLC

VARIABLE race  \* whether threads of Core race, in a behaviour of ScopedKeys

ASSUME MCSealedFilesAssumption == 
  File!FileAssumption /\ Scoped!KeysAssumption /\ App!AppAssumption /\ Cache!IndexAssumption

\* Processes are alike, and so are the keys of the app that are not the operator's.
Alike == Permutations(Child) \cup Permutations(AppKeys \ Operator)

MCInit ==
  /\ which \in {"file", "log", "keys", "cache", "query", "app"}
  /\ race \in BOOLEAN /\ (race => which = "keys")
  /\ PartsInit
  /\ which # "file" => len = 0
  /\ which # "app" => entry = NoKey /\ keyfile = NoKey

\* Two processes that start children and seal, with one thread in Core and two master keys.
Processes == thread'["u"] = thread["u"] /\ custody'.key # "m3"
\* Two threads of Core that start one process, with three master keys.
Threads == stored' = stored /\ Cardinality({c \in Child : child'[c].alive}) <= 1

MCNext ==
  /\ PartsNext /\ race' = race
  /\ which = "keys" => IF race THEN Threads ELSE Processes

MCSpec == MCInit /\ [][MCNext]_<<PartVars, race>>
=============================================================================
