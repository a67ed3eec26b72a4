----------------------------- MODULE Workspaces -----------------------------
(***************************************************************************)
(* Workspaces and what they own (store.rs, templates.rs, api/auth.rs, the  *)
(* handlers of api/workspaces.rs, drafts.rs, library.rs and setup.rs): the *)
(* gate in front of every route, rows inserted by a handler some time      *)
(* after it, the claim of the default workspace, the seed of the starter   *)
(* templates, and the deletion of a workspace.                             *)
(*                                                                         *)
(* A store call is one step.  A handler makes several of them.             *)
(***************************************************************************)
EXTENDS Naturals, FiniteSets

CONSTANTS
  Default,   \* DEFAULT_WORKSPACE_ID
  Others,    \* names of the workspaces that may be created
  Identity,  \* verified callers: [user, org], each of which may be None
  None,
  Starter,   \* slugs of the built-in templates, numbers in their order
  Handler,   \* requests in flight
  MaxCalls   \* bounds the requests

VARIABLES
  owners,    \* the workspaces there are, with their owner and organization
  rows,      \* the rows of the other tables
  markers,   \* workspaces with a seed marker
  calls,     \* per handler
  begun,     \* requests so far
  \* What happened:
  claimant,  \* the identity that the default workspace was claimed by
  gone,      \* deleted workspaces
  late,      \* rows inserted for a deleted workspace by a call that had passed its gate
  dropped,   \* starters deleted when the marker was there and no seed was under way
  removed    \* starters deleted

vars == <<owners, rows, markers, calls, begun, claimant, gone, late, dropped, removed>>

Space == {Default} \cup Others
Nobody == [user |-> None, org |-> None]

\* A row names its workspace, or a parent: "drafts" stands for every table of the first kind
\* without children.  Ids are fresh; one row of each kind is enough.
Owned == {"drafts", "posts"}
Row(table, space) == [table |-> table, space |-> space, starter |-> 0]
StarterRow(s, space) == [table |-> "drafts", space |-> space, starter |-> s]
Children == {"targets", "history"}

Idle == [op |-> "none", space |-> Default, who |-> Nobody, next |-> 0, table |-> "drafts"]

RowType == [table : Owned \cup Children, space : Space, starter : {0} \cup Starter]

TypeOK ==
  /\ DOMAIN owners \subseteq Space /\ \A w \in DOMAIN owners : owners[w] \in Identity
  /\ rows \subseteq RowType /\ late \subseteq RowType
  /\ dropped \subseteq RowType /\ removed \subseteq RowType
  /\ markers \subseteq Space /\ gone \subseteq Others
  /\ claimant \in Identity /\ begun \in 0..MaxCalls
  /\ \A h \in Handler : calls[h].space \in Space /\ calls[h].who \in Identity

Init ==
  /\ owners = [w \in {Default} |-> Nobody]
  /\ rows = {} /\ markers = {}
  /\ calls = [h \in Handler |-> Idle] /\ begun = 0
  /\ claimant = Nobody /\ gone = {} /\ late = {} /\ dropped = {} /\ removed = {}

Live == DOMAIN owners

-----------------------------------------------------------------------------
(* The gate.                                                               *)

Mine(who, w) ==
  \/ who = Nobody
  \/ who.user # None /\ owners[w].user = who.user
  \/ who.org # None /\ owners[w].org = who.org

\* Faulty form: whoever comes to the default workspace takes it over.
ClaimsAnyOwner(who, w) == w = Default /\ who.user # None

\* The default workspace that belongs to nobody goes to the first verified user.
Claims(who, w) == w = Default /\ owners[w] = Nobody /\ who.user # None

\* authorize_request, workspace_accessible: a request that may go on becomes a call.
Enter(h, call) ==
  /\ calls[h] = Idle /\ begun < MaxCalls
  /\ begun' = begun + 1
  /\ call.space \in Live
  /\ \/ Mine(call.who, call.space) /\ UNCHANGED <<owners, claimant>>
     \/ /\ ~Mine(call.who, call.space) /\ Claims(call.who, call.space)
        /\ owners' = [owners EXCEPT ![Default] = call.who]
        /\ claimant' = IF claimant = Nobody THEN call.who ELSE claimant
  /\ calls' = [calls EXCEPT ![h] = call]

Request(h) ==
  /\ \E op \in {"insert", "list", "drop", "delete"}, w \in Space, who \in Identity, t \in Owned :
       /\ op # "insert" => t = "drafts"
       /\ Enter(h, [op |-> op, space |-> w, who |-> who, next |-> 0, table |-> t])
  /\ UNCHANGED <<rows, markers, gone, late, dropped, removed>>

Done(h) == calls' = [calls EXCEPT ![h] = Idle]

\* create_workspace needs no gate.
CreateWorkspace ==
  /\ begun < MaxCalls /\ begun' = begun + 1
  /\ \E w \in Others \ (Live \cup gone), who \in Identity :
       owners' = [v \in Live \cup {w} |-> IF v = w THEN who ELSE owners[v]]
  /\ UNCHANGED <<rows, markers, calls, claimant, gone, late, dropped, removed>>

-----------------------------------------------------------------------------
(* Handlers.                                                               *)

\* What a handler inserts: a post brings its leg and, once it was published, a history row.
Inserted(h) ==
  {Row(calls[h].table, calls[h].space)} \cup
  IF calls[h].table = "posts" THEN {Row(t, calls[h].space) : t \in Children} ELSE {}

\* create_account, create_draft, create_post, create_template, use_template, put_settings and
\* upsert_activity: none looks for the workspace again.
Insert(h) ==
  /\ calls[h].op = "insert"
  /\ rows' = rows \cup Inserted(h)
  /\ late' = late \cup IF calls[h].space \in Live THEN {} ELSE Inserted(h)
  /\ Done(h)
  /\ UNCHANGED <<owners, markers, begun, claimant, gone, dropped, removed>>

Seeding(w) == \E h \in Handler : calls[h].op = "seed" /\ calls[h].space = w

\* Faulty form: the marker is not looked at.
SeedAlways(h) ==
  /\ calls[h].op = "list"
  /\ calls' = [calls EXCEPT ![h].op = "seed", ![h].next = 1]
  /\ UNCHANGED <<owners, rows, markers, begun, claimant, gone, late, dropped, removed>>

\* seed_builtins begins: a workspace with a marker is listed as it is.
SeedCheck(h) ==
  /\ calls[h].op = "list"
  /\ IF calls[h].space \in markers THEN Done(h)
     ELSE calls' = [calls EXCEPT ![h].op = "seed", ![h].next = 1]
  /\ UNCHANGED <<owners, rows, markers, begun, claimant, gone, late, dropped, removed>>

\* insert_seed_template: at its own id, or nothing.
SeedOne(h) ==
  /\ calls[h].op = "seed" /\ calls[h].next \in Starter
  /\ LET row == StarterRow(calls[h].next, calls[h].space) IN
     /\ rows' = rows \cup {row}
     /\ late' = late \cup IF calls[h].space \in Live THEN {} ELSE {row}
  /\ calls' = [calls EXCEPT ![h].next = @ + 1]
  /\ UNCHANGED <<owners, markers, begun, claimant, gone, dropped, removed>>

\* The marker goes last.
SeedMark(h) ==
  /\ calls[h].op = "seed" /\ calls[h].next \notin Starter
  /\ markers' = markers \cup {calls[h].space}
  /\ Done(h)
  /\ UNCHANGED <<owners, rows, begun, claimant, gone, late, dropped, removed>>

\* delete_template, of a starter: the request finds its workspace by the row.
DropStarter(h) ==
  /\ calls[h].op = "drop"
  /\ \E s \in Starter :
       LET row == StarterRow(s, calls[h].space) IN
       /\ row \in rows
       /\ rows' = rows \ {row}
       /\ removed' = removed \cup {row}
       /\ dropped' = IF row.space \in markers /\ ~Seeding(row.space) THEN dropped \cup {row} ELSE dropped
  /\ Done(h)
  /\ UNCHANGED <<owners, markers, begun, claimant, gone, late>>

\* Faulty form: the posts go before the rows that are found through them.
KeptOrphans(w) == {r \in rows : r.space = w /\ r.table \in Children}

\* delete_workspace, in one transaction: the legs and their history are found through the
\* posts and go first, so that nothing is left.
Kept(w) == {}

DeleteWorkspace(h) ==
  /\ calls[h].op = "delete" /\ calls[h].space # Default
  /\ LET w == calls[h].space IN
     /\ rows' = {r \in rows : r.space # w} \cup Kept(w)
     /\ owners' = [v \in Live \ {w} |-> owners[v]]
     /\ gone' = gone \cup {w}
     /\ late' = {r \in late : r.space # w}
  /\ Done(h)
  /\ UNCHANGED <<markers, begun, claimant, dropped, removed>>

\* A refusal, an error, or a client that hangs up: in the middle of a seed as well.
GiveUp(h) ==
  /\ calls[h] # Idle
  /\ Done(h)
  /\ UNCHANGED <<owners, rows, markers, begun, claimant, gone, late, dropped, removed>>

Next ==
  \/ CreateWorkspace
  \/ \E h \in Handler :
       \/ Request(h) \/ Insert(h) \/ SeedCheck(h) \/ SeedOne(h) \/ SeedMark(h)
       \/ DropStarter(h) \/ DeleteWorkspace(h) \/ GiveUp(h)

Spec == Init /\ [][Next]_vars

-----------------------------------------------------------------------------
(* Properties.                                                             *)

\* A starter that was deleted stays deleted, once its workspace has been seeded and no
\* other list of its templates is being made (seed_builtins).
DeletedStarterStays == dropped \cap rows = {}

\* A deleted workspace leaves no row behind but those of handlers it overtook
\* (delete_workspace).
NothingLeftBehind == \A r \in rows : r.space \notin gone \/ r \in late

\* A verified caller works in the default workspace only as the user or a member of the
\* organization that claimed it, from the claim on (workspace_accessible).
ClaimedOnce ==
  /\ claimant # Nobody => owners[Default] = claimant
  /\ \A h \in Handler :
       LET who == calls[h].who IN
       calls[h] # Idle /\ calls[h].space = Default /\ who # Nobody =>
         \/ who.user # None /\ who.user = claimant.user
         \/ who.org # None /\ who.org = claimant.org

\* Deletes that overtake other handlers leave nothing of a workspace but what those bring
\* back, a deleted starter does not return, and claims at once leave the default workspace
\* to one caller (delete_workspace, seed_builtins, workspace_accessible).
SpacesKept == NothingLeftBehind /\ DeletedStarterStays /\ ClaimedOnce

-----------------------------------------------------------------------------
(* Why that holds (NodeProofs).                                            *)

\* No starter is a row of the other kinds.
StarterAssumption == Starter \subseteq Nat \ {0}

SpacesTypes ==
  /\ calls \in [Handler -> [op : {"none", "insert", "list", "drop", "delete", "seed"}, space : Space,
                            who : Identity \cup {Nobody}, next : Nat, table : Owned]]
  /\ Default \in Live /\ Live \cap gone = {}

\* A seed that was under way when the marker was looked for is over before a drop counts.
DroppedForGood ==
  \A r \in dropped : r \notin rows /\ r.starter # 0 /\ r.space \in markers /\ ~Seeding(r.space)

SpacesInv ==
  /\ SpacesTypes /\ NothingLeftBehind /\ DroppedForGood /\ ClaimedOnce
  /\ owners[Default] = claimant
=============================================================================
