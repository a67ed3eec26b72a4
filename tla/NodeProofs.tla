----------------------------- MODULE NodeProofs -----------------------------
(***************************************************************************)
(* Proofs about what a node keeps beside its queue and how it works on it: *)
(* the workspaces of Workspaces, the credential of NodeSettings, the       *)
(* snapshots of Engagement, the slots of Timing and the ticks of           *)
(* TickPolicy.  All but the last are the parts of NodeSpec, which keeps    *)
(* each of their specifications.                                           *)
(***************************************************************************)
EXTENDS NodeParts, TickPolicy, FiniteSetTheorems, SequenceTheorems, WellFoundedInduction, TLAPS

-----------------------------------------------------------------------------
\* A behaviour of the composition is one of each part, which mostly stutters.
LEMMA NodeIsItsParts == NodeSpec => Work!Spec /\ Node!Spec /\ Snapshots!Spec
<1>1. NodeInit => Work!Init /\ Node!Init /\ Snapshots!Init
  BY DEF NodeInit
<1>2. [NodeNext]_PartVars => [Work!Next]_Work!vars
  BY DEF NodeNext, PartVars, SpaceVars, Work!vars
<1>3. [NodeNext]_PartVars => [Node!Next]_Node!vars
  BY DEF NodeNext, PartVars, SettingVars, Node!vars
<1>4. [NodeNext]_PartVars => [Snapshots!Next]_Snapshots!vars
  BY DEF NodeNext, PartVars, EngagementVars, Snapshots!vars
<1> QED
  BY <1>1, <1>2, <1>3, <1>4, PTL DEF NodeSpec, Work!Spec, Node!Spec, Snapshots!Spec

-----------------------------------------------------------------------------
(* Workspaces.                                                             *)

\* What a step of handler h may do to the calls, but for a request.
CallGoesOn(h) ==
  /\ handlers' \in [Handler -> [op : {"none", "insert", "list", "drop", "delete", "seed"}, space : Work!Space,
                             who : Identity \cup {Work!Nobody}, next : Nat, table : Work!Owned]]
  /\ \A g \in Handler : g # h => handlers'[g] = handlers[g]
  /\ \/ handlers'[h] = Work!Idle
     \/ handlers[h] # Work!Idle /\ handlers'[h].space = handlers[h].space /\ handlers'[h].who = handlers[h].who

LEMMA IdleType ==
  /\ Work!Idle \in [op : {"none", "insert", "list", "drop", "delete", "seed"}, space : Work!Space,
                    who : Identity \cup {Work!Nobody}, next : Nat, table : Work!Owned]
  /\ Work!Idle.op = "none"
BY DEF Work!Idle, Work!Space, Work!Owned

LEMMA DoneGoesOn ==
  ASSUME Work!SpacesTypes, NEW h \in Handler, Work!Done(h)
  PROVE  CallGoesOn(h) /\ handlers'[h] = Work!Idle
BY IdleType DEF CallGoesOn, Work!Done, Work!SpacesTypes

LEMMA SeedGoesOn ==
  ASSUME Work!SpacesTypes, NEW h \in Handler, handlers[h] # Work!Idle, NEW n \in Nat,
         handlers' = [handlers EXCEPT ![h].op = "seed", ![h].next = n]
  PROVE  /\ CallGoesOn(h)
         /\ handlers'[h].op = "seed" /\ handlers'[h].space = handlers[h].space
BY DEF CallGoesOn, Work!SpacesTypes

LEMMA NextStarterGoesOn ==
  ASSUME Work!SpacesTypes, NEW h \in Handler, handlers[h].op = "seed",
         handlers' = [handlers EXCEPT ![h].next = @ + 1]
  PROVE  /\ CallGoesOn(h)
         /\ handlers'[h].op = "seed" /\ handlers'[h].space = handlers[h].space
<1>1. handlers[h] # Work!Idle
  BY IdleType
<1> QED
  BY <1>1 DEF CallGoesOn, Work!SpacesTypes

\* The claim of the default workspace stands as long as nothing is requested.
LEMMA ClaimStands ==
  ASSUME Work!SpacesInv, NEW h \in Handler, CallGoesOn(h), claimant' = claimant,
         owners'[Home] = owners[Home]
  PROVE  Work!ClaimedOnce' /\ owners'[Home] = claimant'
BY DEF CallGoesOn, Work!SpacesInv, Work!ClaimedOnce, Work!Nobody, Work!Idle

\* No seed begins in a workspace that has its marker.
LEMMA NoNewSeed ==
  ASSUME Work!SpacesTypes, NEW h \in Handler, CallGoesOn(h), NEW w, ~Work!Seeding(w),
         handlers'[h].op = "seed" => handlers[h].op = "seed" \/ handlers[h].space # w
  PROVE  ~Work!Seeding(w)'
BY IdleType DEF CallGoesOn, Work!Seeding

\* A handler that ends, having inserted rows for its workspace or none.
LEMMA HandlerStep ==
  ASSUME Work!StarterAssumption, Work!SpacesInv, NEW h \in Handler, CallGoesOn(h),
         UNCHANGED <<owners, markers, claimant, gone, dropped>>,
         NEW New, rows' = rows \cup New,
         \A r \in New : /\ r.space = handlers[h].space
                        /\ r.starter # 0 => handlers[h].op = "seed",
         late' = late \cup (IF handlers[h].space \in Work!Live THEN {} ELSE New),
         handlers'[h].op = "seed" => handlers[h].op = "seed" \/ handlers[h].space \notin markers
  PROVE  Work!SpacesInv'
<1> USE DEF Work!SpacesInv
<1>1. Work!SpacesTypes'
  BY DEF CallGoesOn, Work!SpacesTypes, Work!Live
<1>2. Work!NothingLeftBehind'
  BY DEF Work!NothingLeftBehind, Work!SpacesTypes
<1>3. ASSUME NEW r \in dropped
      PROVE  r \notin rows' /\ r.starter # 0 /\ r.space \in markers /\ ~Work!Seeding(r.space)'
  <2>1. r \notin rows /\ r.starter # 0 /\ r.space \in markers /\ ~Work!Seeding(r.space)
    BY <1>3 DEF Work!DroppedForGood
  <2>2. r \notin New
    BY <2>1 DEF Work!Seeding
  <2>3. ~Work!Seeding(r.space)'
    BY <2>1, NoNewSeed
  <2> QED
    BY <2>1, <2>2, <2>3
<1>4. Work!DroppedForGood'
  BY <1>3 DEF Work!DroppedForGood
<1>5. Work!ClaimedOnce' /\ owners'[Home] = claimant'
  BY ClaimStands
<1> QED
  BY <1>1, <1>2, <1>4, <1>5

LEMMA SpacesNext ==
  ASSUME Work!StarterAssumption, Work!SpacesInv, [Work!Next]_Work!vars
  PROVE  Work!SpacesInv'
<1> USE DEF Work!SpacesInv
<1>1. CASE Work!CreateWorkspace
  <2>1. PICK w \in Others \ (Work!Live \cup gone), who \in Identity :
          owners' = [v \in Work!Live \cup {w} |-> IF v = w THEN who ELSE owners[v]]
    BY <1>1 DEF Work!CreateWorkspace
  <2>2. UNCHANGED <<rows, markers, handlers, claimant, gone, late, dropped>>
    BY <1>1 DEF Work!CreateWorkspace
  <2>3. DOMAIN owners' = Work!Live \cup {w} /\ owners'[Home] = owners[Home]
    BY <2>1 DEF Work!SpacesTypes
  <2> QED
    BY <2>1, <2>2, <2>3 DEF Work!SpacesTypes, Work!Live, Work!NothingLeftBehind, Work!DroppedForGood,
         Work!Seeding, Work!ClaimedOnce
<1>2. ASSUME NEW h \in Handler, Work!Request(h)
      PROVE  Work!SpacesInv'
  <2>1. PICK op \in {"insert", "list", "drop", "delete"}, w \in Work!Space, who \in Identity, t \in Work!Owned :
          Work!Enter(h, [op |-> op, space |-> w, who |-> who, next |-> 0, table |-> t])
    BY <1>2 DEF Work!Request
  <2> DEFINE c == [op |-> op, space |-> w, who |-> who, next |-> 0, table |-> t]
  <2>2. UNCHANGED <<rows, markers, gone, late, dropped>>
    BY <1>2 DEF Work!Request
  <2>3. /\ handlers' = [handlers EXCEPT ![h] = c] /\ w \in Work!Live
        /\ \/ Work!Mine(who, w) /\ UNCHANGED <<owners, claimant>>
           \/ /\ ~Work!Mine(who, w) /\ Work!Claims(who, w)
              /\ owners' = [owners EXCEPT ![Home] = who]
              /\ claimant' = IF claimant = Work!Nobody THEN who ELSE claimant
    BY <2>1 DEF Work!Enter
  <2>4. c \in [op : {"none", "insert", "list", "drop", "delete", "seed"}, space : Work!Space,
               who : Identity \cup {Work!Nobody}, next : Nat, table : Work!Owned]
    OBVIOUS
  <2>5. /\ handlers'[h] = c /\ \A g \in Handler : g # h => handlers'[g] = handlers[g]
        /\ handlers' \in [Handler -> [op : {"none", "insert", "list", "drop", "delete", "seed"}, space : Work!Space,
                       who : Identity \cup {Work!Nobody}, next : Nat, table : Work!Owned]]
    BY <2>3, <2>4 DEF Work!SpacesTypes
  <2>6. DOMAIN owners' = DOMAIN owners /\ owners'[Home] = claimant'
    BY <2>3 DEF Work!SpacesTypes, Work!Live, Work!Claims
  <2>7. Work!SpacesTypes'
    BY <2>2, <2>5, <2>6 DEF Work!SpacesTypes, Work!Live
  <2>8. Work!NothingLeftBehind' /\ Work!DroppedForGood'
    BY <2>2, <2>5 DEF Work!NothingLeftBehind, Work!DroppedForGood, Work!Seeding
  <2>9. Work!ClaimedOnce'
    BY <2>3, <2>5, <2>6 DEF Work!ClaimedOnce, Work!Mine, Work!Claims, Work!Nobody
  <2> QED
    BY <2>6, <2>7, <2>8, <2>9
<1>3. ASSUME NEW h \in Handler, Work!Insert(h)
      PROVE  Work!SpacesInv'
  <2>1. \A r \in Work!Inserted(h) : r.space = handlers[h].space /\ r.starter = 0
    BY DEF Work!Inserted, Work!Row
  <2>2. CallGoesOn(h) /\ handlers'[h] = Work!Idle
    BY <1>3, DoneGoesOn DEF Work!Insert
  <2> QED
    BY <1>3, <2>1, <2>2, IdleType, HandlerStep DEF Work!Insert
<1>4. ASSUME NEW h \in Handler, Work!SeedCheck(h)
      PROVE  Work!SpacesInv'
  <2>1. UNCHANGED <<owners, rows, markers, claimant, gone, late, dropped>> /\ handlers[h].op = "list"
    BY <1>4 DEF Work!SeedCheck
  <2>2. CallGoesOn(h) /\ (handlers'[h].op = "seed" => handlers[h].space \notin markers)
    <3>1. CASE handlers[h].space \in markers
      BY <1>4, <3>1, DoneGoesOn, IdleType DEF Work!SeedCheck
    <3>2. CASE handlers[h].space \notin markers
      BY <1>4, <2>1, <3>2, SeedGoesOn, IdleType DEF Work!SeedCheck
    <3> QED
      BY <3>1, <3>2
  <2>3. rows' = rows \cup {} /\ late' = late \cup (IF handlers[h].space \in Work!Live THEN {} ELSE {})
    BY <2>1
  <2> QED
    BY <2>1, <2>2, <2>3, HandlerStep
<1>5. ASSUME NEW h \in Handler, Work!SeedOne(h)
      PROVE  Work!SpacesInv'
  <2> DEFINE row == Work!StarterRow(handlers[h].next, handlers[h].space)
  <2>1. /\ handlers[h].op = "seed" /\ rows' = rows \cup {row}
        /\ late' = late \cup (IF handlers[h].space \in Work!Live THEN {} ELSE {row})
        /\ UNCHANGED <<owners, markers, claimant, gone, dropped>>
        /\ handlers' = [handlers EXCEPT ![h].next = @ + 1]
    BY <1>5 DEF Work!SeedOne
  <2>2. \A r \in {row} : r.space = handlers[h].space /\ (r.starter # 0 => handlers[h].op = "seed")
    BY <2>1 DEF Work!StarterRow
  <2>3. CallGoesOn(h)
    BY <2>1, NextStarterGoesOn
  <2> DEFINE New == {row}
  <2>4. /\ handlers[h].op = "seed" /\ rows' = rows \cup New
        /\ late' = late \cup (IF handlers[h].space \in Work!Live THEN {} ELSE New)
        /\ UNCHANGED <<owners, markers, claimant, gone, dropped>>
        /\ \A r \in New : r.space = handlers[h].space /\ (r.starter # 0 => handlers[h].op = "seed")
    BY <2>1, <2>2
  <2> HIDE DEF New
  <2> QED
    BY <2>3, <2>4, HandlerStep
<1>6. ASSUME NEW h \in Handler, Work!SeedMark(h)
      PROVE  Work!SpacesInv'
  <2>1. /\ UNCHANGED <<owners, rows, claimant, gone, late, dropped>>
        /\ markers' = markers \cup {handlers[h].space}
        /\ CallGoesOn(h) /\ handlers'[h].op # "seed"
    BY <1>6, DoneGoesOn, IdleType DEF Work!SeedMark
  <2>2. Work!SpacesTypes' /\ Work!NothingLeftBehind'
    BY <2>1 DEF CallGoesOn, Work!SpacesTypes, Work!Live, Work!NothingLeftBehind
  <2>3. Work!DroppedForGood'
    BY <2>1, NoNewSeed DEF Work!DroppedForGood
  <2> QED
    BY <2>1, <2>2, <2>3, ClaimStands
<1>7. ASSUME NEW h \in Handler, Work!DropStarter(h)
      PROVE  Work!SpacesInv'
  <2>1. PICK s \in Starter :
          LET row == Work!StarterRow(s, handlers[h].space) IN
          /\ rows' = rows \ {row}
          /\ dropped' = IF row.space \in markers /\ ~Work!Seeding(row.space) THEN dropped \cup {row} ELSE dropped
    BY <1>7 DEF Work!DropStarter
  <2> DEFINE row == Work!StarterRow(s, handlers[h].space)
  <2>2. /\ UNCHANGED <<owners, markers, claimant, gone, late>>
        /\ CallGoesOn(h) /\ handlers'[h].op # "seed"
    BY <1>7, DoneGoesOn, IdleType DEF Work!DropStarter
  <2>3. row.starter # 0
    BY DEF Work!StarterRow, Work!StarterAssumption
  <2> HIDE DEF row
  <2>4. /\ rows' = rows \ {row}
        /\ dropped' = IF row.space \in markers /\ ~Work!Seeding(row.space) THEN dropped \cup {row} ELSE dropped
    BY <2>1 DEF row
  <2>5. Work!SpacesTypes' /\ Work!NothingLeftBehind'
    BY <2>2, <2>4 DEF CallGoesOn, Work!SpacesTypes, Work!Live, Work!NothingLeftBehind
  <2>6. ASSUME NEW r \in dropped'
        PROVE  r \notin rows' /\ r.starter # 0 /\ r.space \in markers /\ ~Work!Seeding(r.space)'
    <3>1. r \notin rows' /\ r.starter # 0 /\ r.space \in markers /\ ~Work!Seeding(r.space)
      BY <2>3, <2>4, <2>6 DEF Work!DroppedForGood
    <3> QED
      BY <2>2, <3>1, NoNewSeed
  <2>7. Work!DroppedForGood'
    BY <2>2, <2>6 DEF Work!DroppedForGood
  <2> QED
    BY <2>2, <2>5, <2>7, ClaimStands
<1>8. ASSUME NEW h \in Handler, Work!DeleteWorkspace(h)
      PROVE  Work!SpacesInv'
  <2> DEFINE w == handlers[h].space
  <2>1. /\ w # Home /\ rows' = {r \in rows : r.space # w}
        /\ owners' = [v \in Work!Live \ {w} |-> owners[v]]
        /\ gone' = gone \cup {w} /\ late' = {r \in late : r.space # w}
        /\ UNCHANGED <<markers, claimant, dropped>>
        /\ CallGoesOn(h) /\ handlers'[h].op # "seed"
    BY <1>8, DoneGoesOn, IdleType DEF Work!DeleteWorkspace, Work!Kept
  <2>2. DOMAIN owners' = Work!Live \ {w} /\ owners'[Home] = owners[Home]
    BY <2>1 DEF Work!SpacesTypes
  <2>3. Work!SpacesTypes' /\ Work!NothingLeftBehind'
    BY <2>1, <2>2 DEF CallGoesOn, Work!SpacesTypes, Work!Live, Work!NothingLeftBehind
  <2>4. Work!DroppedForGood'
    BY <2>1, NoNewSeed DEF Work!DroppedForGood
  <2> QED
    BY <2>1, <2>2, <2>3, <2>4, ClaimStands
<1>9. ASSUME NEW h \in Handler, Work!GiveUp(h)
      PROVE  Work!SpacesInv'
  <2>1. UNCHANGED <<owners, rows, markers, claimant, gone, late, dropped>>
    BY <1>9 DEF Work!GiveUp
  <2>2. CallGoesOn(h) /\ handlers'[h].op # "seed"
    BY <1>9, DoneGoesOn, IdleType DEF Work!GiveUp
  <2>3. rows' = rows \cup {} /\ late' = late \cup (IF handlers[h].space \in Work!Live THEN {} ELSE {})
    BY <2>1
  <2> QED
    BY <2>1, <2>2, <2>3, HandlerStep
<1>10. CASE UNCHANGED Work!vars
  BY <1>10 DEF Work!vars, Work!SpacesTypes, Work!Live, Work!NothingLeftBehind, Work!DroppedForGood,
       Work!Seeding, Work!ClaimedOnce
<1> QED
  BY <1>1, <1>2, <1>3, <1>4, <1>5, <1>6, <1>7, <1>8, <1>9, <1>10 DEF Work!Next

\* Deletes that overtake other calls leave nothing of a workspace but what those bring
\* back, a deleted starter does not return, and the default workspace stays with who claimed
\* it, for any callers and calls (delete_workspace, seed_builtins, workspace_accessible).
THEOREM WorkspacesKept ==
  ASSUME Work!StarterAssumption
  PROVE  NodeSpec => []SpacesKept
<1>1. Work!Init => Work!SpacesInv
  BY IdleType DEF Work!Init, Work!SpacesInv, Work!SpacesTypes, Work!Live, Work!NothingLeftBehind,
       Work!DroppedForGood, Work!ClaimedOnce
<1>2. Work!SpacesInv /\ [Work!Next]_Work!vars => Work!SpacesInv'
  BY SpacesNext
<1>3. Work!SpacesInv => SpacesKept
  BY DEF SpacesKept, Work!SpacesInv, Work!SpacesKept, Work!DroppedForGood, Work!DeletedStarterStays
<1> QED
  BY <1>1, <1>2, <1>3, NodeIsItsParts, PTL DEF Work!Spec

-----------------------------------------------------------------------------
(* NodeSettings.                                                           *)

LEMMA IdleChange ==
  /\ Node!Idle \in Node!Change
  /\ Node!Idle.pc = "idle"
BY DEF Node!Idle, Node!Change, Node!Knob

\* A step that keeps the row and begins no change but an unstale one of what is stored.
LEMMA CallsChange ==
  ASSUME Node!SettingsInv, UNCHANGED <<blob, wanted, knob, crossed>>, key' \in Key \cup {NoKey},
         calls' \in [Node!Actor -> Node!Change],
         \A h \in Handler : calls'[h].pc = "save" =>
            \/ calls'[h] = calls[h]
            \/ calls'[h].secret = Node!Stored /\ calls'[h].knob = blob.knob
  PROVE  Node!SettingsInv'
<1> USE DEF Node!SettingsInv
<1>1. Node!SettingsTypes'
  BY DEF Node!SettingsTypes
<1>2. Node!CredentialKept'
  BY DEF Node!CredentialKept
<1> QED
  BY <1>1, <1>2 DEF Node!Stored

\* What is read and written back is what was stored.
LEMMA ReadsStored ==
  ASSUME Node!SettingsInv, Node!Loads
  PROVE  Node!Read.secret = Node!Stored /\ Node!Read.knob = blob.knob
BY DEF Node!SettingsInv, Node!Loads, Node!Read, Node!Stored

LEMMA WrittenType ==
  ASSUME Node!SettingsTypes, NEW secret \in Secret \cup {NoSecret}, NEW turned \in Node!Knob
  PROVE  /\ Node!Written(secret, turned) \in [there : BOOLEAN, reads : BOOLEAN, secret : Secret \cup {NoSecret},
                                            under : Key \cup {NoKey}, knob : Node!Knob]
         /\ Node!Written(secret, turned).reads
         /\ Node!Written(secret, turned).secret = secret /\ Node!Written(secret, turned).knob = turned
BY DEF Node!Written, Node!SettingsTypes

LEMMA SettingsNext ==
  ASSUME Node!BootAssumption, Node!SettingsInv, [Node!Next]_Node!vars
  PROVE  Node!SettingsInv'
<1> USE DEF Node!SettingsInv
<1>1. CASE Node!Start
  <2>1. /\ UNCHANGED <<blob, wanted, knob, crossed>> /\ key' \in Key \cup {NoKey}
        /\ calls' = [calls EXCEPT ![Node!Boot].pc = "save"]
    BY <1>1 DEF Node!Start
  <2>2. calls' \in [Node!Actor -> Node!Change]
    <3> DEFINE c == [calls[Node!Boot] EXCEPT !.pc = "save"]
    <3>1. ASSUME Node!Boot \in Node!Actor PROVE c \in Node!Change
      BY <3>1 DEF Node!SettingsTypes, Node!Change
    <3>2. calls' = [calls EXCEPT ![Node!Boot] = c]
      BY <2>1
    <3> HIDE DEF c
    <3> QED
      BY <3>1, <3>2 DEF Node!SettingsTypes
  <2>3. \A h \in Handler : calls'[h] = calls[h]
    BY <2>1 DEF Node!BootAssumption, Node!SettingsTypes, Node!Actor
  <2> QED
    BY <2>1, <2>2, <2>3, CallsChange
<1>2. CASE Node!Normalize
  <2>1. /\ blob' = IF Node!Loads /\ Node!Saves(Node!Read.secret)
                   THEN Node!Written(Node!Read.secret, Node!Read.knob) ELSE blob
        /\ calls' = [calls EXCEPT ![Node!Boot] = Node!Idle]
        /\ UNCHANGED <<key, wanted, knob, crossed>>
    BY <1>2 DEF Node!Normalize
  <2>2. /\ calls' \in [Node!Actor -> Node!Change]
        /\ \A h \in Handler : calls'[h] = calls[h]
    BY <2>1, IdleChange DEF Node!BootAssumption, Node!SettingsTypes, Node!Actor
  <2>3. CASE blob' = blob
    BY <2>1, <2>2, <2>3, CallsChange DEF Node!SettingsTypes
  <2>4. CASE Node!Loads /\ blob' = Node!Written(Node!Read.secret, Node!Read.knob)
    <3>1. Node!Read.secret = Node!Stored /\ Node!Read.knob = blob.knob
      BY <2>4, ReadsStored
    <3>2. Node!Stored \in Secret \cup {NoSecret} /\ blob.knob \in Node!Knob
      BY DEF Node!SettingsTypes, Node!Stored
    <3>3. /\ blob' \in [there : BOOLEAN, reads : BOOLEAN, secret : Secret \cup {NoSecret},
                        under : Key \cup {NoKey}, knob : Node!Knob]
          /\ blob'.reads /\ blob'.secret = Node!Stored /\ blob'.knob = blob.knob
      BY <2>4, <3>1, <3>2, WrittenType
    <3>4. Node!SettingsTypes'
      BY <2>1, <2>2, <3>3 DEF Node!SettingsTypes
    <3>5. Node!CredentialKept'
      BY <2>1, <3>3 DEF Node!CredentialKept, Node!Stored
    <3> QED
      BY <2>2, <3>3, <3>4, <3>5 DEF Node!Stored
  <2> QED
    BY <2>1, <2>3, <2>4
<1>3. CASE Node!Crash
  <2>1. /\ UNCHANGED <<blob, key, wanted, knob, crossed>>
        /\ calls' = [a \in Node!Actor |-> Node!Idle]
    BY <1>3 DEF Node!Crash
  <2>2. calls' \in [Node!Actor -> Node!Change] /\ \A h \in Handler : calls'[h].pc # "save"
    BY <2>1, IdleChange DEF Node!Actor
  <2> QED
    BY <2>1, <2>2, CallsChange DEF Node!SettingsTypes
<1>4. ASSUME NEW h \in Handler, Node!PatchLoad(h)
      PROVE  Node!SettingsInv'
  <2>1. PICK patch \in Secret \cup {NoSecret, Keep}, turn \in Node!Knob \cup {Keep} : Node!Load(h, patch, turn)
    BY <1>4 DEF Node!PatchLoad
  <2> DEFINE c == [pc |-> "save", secret |-> Node!Read.secret, knob |-> Node!Read.knob,
                   patch |-> patch, turn |-> turn, stale |-> FALSE]
  <2>2. /\ UNCHANGED <<blob, key, wanted, knob, crossed>> /\ Node!Loads
        /\ calls' = [calls EXCEPT ![h] = c]
    BY <2>1 DEF Node!Load
  <2>3. Node!Read.secret = Node!Stored /\ Node!Read.knob = blob.knob
    BY <2>2, ReadsStored
  <2>4. Node!Stored \in Secret \cup {NoSecret} /\ blob.knob \in Node!Knob
    BY DEF Node!SettingsTypes, Node!Stored
  <2>5. c \in Node!Change /\ c.secret = Node!Stored /\ c.knob = blob.knob
    BY <2>3, <2>4 DEF Node!Change
  <2> HIDE DEF c
  <2>6. /\ calls' \in [Node!Actor -> Node!Change]
        /\ \A g \in Handler : calls'[g] = calls[g] \/ calls'[g] = c
    BY <2>2, <2>5 DEF Node!SettingsTypes, Node!Actor
  <2> QED
    BY <2>2, <2>5, <2>6, CallsChange DEF Node!SettingsTypes
<1>5. ASSUME NEW h \in Handler, Node!PatchSave(h)
      PROVE  Node!SettingsInv'
  <2> DEFINE c == calls[h]
             secret == Node!Applied(c.patch, c.secret)
             turned == Node!Applied(c.turn, c.knob)
  <2>1. c \in Node!Change /\ c.pc = "save" /\ UNCHANGED key /\ h \in Node!Actor
    BY <1>5 DEF Node!PatchSave, Node!SettingsTypes, Node!Actor
  <2>2. CASE ~Node!Saves(secret)
    <3>1. calls' = [calls EXCEPT ![h] = Node!Idle] /\ UNCHANGED <<blob, wanted, knob, crossed>>
      BY <1>5, <2>2 DEF Node!PatchSave
    <3>2. /\ calls' \in [Node!Actor -> Node!Change]
          /\ \A g \in Handler : calls'[g] = calls[g] \/ calls'[g].pc = "idle"
      BY <3>1, IdleChange DEF Node!SettingsTypes, Node!Actor
    <3> QED
      BY <2>1, <3>1, <3>2, CallsChange DEF Node!SettingsTypes
  <2>3. CASE Node!Saves(secret)
    <3>1. /\ blob' = Node!Written(secret, turned)
          /\ wanted' = Node!Applied(c.patch, wanted) /\ knob' = Node!Applied(c.turn, knob)
          /\ crossed' = (crossed \/ c.stale)
          /\ calls' = [a \in Node!Actor |->
               IF a = h THEN Node!Idle ELSE [calls[a] EXCEPT !.stale = calls[a].pc = "save"]]
      BY <1>5, <2>3 DEF Node!PatchSave
    <3>2. secret \in Secret \cup {NoSecret} /\ turned \in Node!Knob
      BY <2>1 DEF Node!Applied, Node!Change
    <3>3. /\ blob' \in [there : BOOLEAN, reads : BOOLEAN, secret : Secret \cup {NoSecret},
                        under : Key \cup {NoKey}, knob : Node!Knob]
          /\ blob'.reads /\ blob'.secret = secret /\ blob'.knob = turned
      BY <3>1, <3>2, WrittenType
    <3>4. ~crossed' => c.secret = Node!Stored /\ c.knob = blob.knob /\ ~crossed
      BY <2>1, <3>1
    <3>5. Node!CredentialKept'
      BY <3>1, <3>3, <3>4 DEF Node!CredentialKept, Node!Applied, Node!Stored
    <3>6. calls' \in [Node!Actor -> Node!Change]
      <4>1. ASSUME NEW a \in Node!Actor PROVE [calls[a] EXCEPT !.stale = calls[a].pc = "save"] \in Node!Change
        <5>1. calls[a] \in Node!Change /\ (calls[a].pc = "save") \in BOOLEAN
          BY DEF Node!SettingsTypes
        <5> QED
          BY <5>1 DEF Node!Change
      <4> QED
        BY <3>1, <4>1, IdleChange
    <3>7. crossed' \in BOOLEAN
      BY <2>1, <3>1 DEF Node!SettingsTypes, Node!Change
    <3>8. Node!SettingsTypes'
      BY <2>1, <3>3, <3>6, <3>7 DEF Node!SettingsTypes
    <3>9. ASSUME NEW g \in Handler PROVE ~(calls'[g].pc = "save" /\ ~calls'[g].stale)
      <4>1. calls[g] \in Node!Change /\ g \in Node!Actor
        BY DEF Node!SettingsTypes, Node!Actor
      <4> QED
        BY <3>1, <4>1, IdleChange DEF Node!Change
    <3> QED
      BY <3>3, <3>5, <3>8, <3>9
  <2> QED
    BY <2>2, <2>3
<1>6. CASE UNCHANGED Node!vars
  BY <1>6 DEF Node!vars, Node!SettingsTypes, Node!CredentialKept, Node!Stored
<1> QED
  BY <1>1, <1>2, <1>3, <1>4, <1>5, <1>6 DEF Node!Next

\* The row holds the credential of the last change of it, whatever keys the process was given,
\* however often it starts and stops, unless two changes crossed (load, save, patch).
THEOREM SettingsCredentialKept ==
  ASSUME Node!BootAssumption
  PROVE  NodeSpec => []CredentialKept
<1>1. Node!Init => Node!SettingsInv
  <2> SUFFICES ASSUME Node!Init PROVE Node!SettingsInv
    OBVIOUS
  <2>1. /\ calls = [a \in Node!Actor |-> Node!Idle] /\ crossed = FALSE /\ key = NoKey /\ knob = 0
        /\ wanted = (IF blob.reads THEN blob.secret ELSE NoSecret)
    BY DEF Node!Init
  <2>2. /\ blob \in [there : BOOLEAN, reads : BOOLEAN, secret : Secret \cup {NoSecret},
                     under : Key \cup {NoKey}, knob : Node!Knob]
        /\ blob.knob = 0
    <3>1. CASE blob = Node!NoBlob
      BY <3>1 DEF Node!NoBlob, Node!Knob
    <3>2. ASSUME NEW s \in Secret, NEW r \in BOOLEAN,
                 blob = [Node!NoBlob EXCEPT !.there = TRUE, !.secret = s, !.reads = r]
          PROVE  blob = [there |-> TRUE, reads |-> r, secret |-> s, under |-> NoKey, knob |-> 0]
      BY <3>2 DEF Node!NoBlob
    <3>3. ASSUME NEW s \in Secret, NEW r \in BOOLEAN,
                 blob = [there |-> TRUE, reads |-> r, secret |-> s, under |-> NoKey, knob |-> 0]
          PROVE  <2>2
      BY <3>3 DEF Node!Knob
    <3>4. CASE blob # Node!NoBlob
      <4>1. PICK s \in Secret, r \in BOOLEAN :
              blob = [Node!NoBlob EXCEPT !.there = TRUE, !.secret = s, !.reads = r]
        BY <3>4 DEF Node!Init
      <4> QED
        BY <3>2, <3>3, <4>1
    <3> QED
      BY <3>1, <3>4
  <2>3. /\ calls \in [Node!Actor -> Node!Change]
        /\ \A h \in Handler : calls[h].pc # "save"
    BY <2>1, IdleChange DEF Node!Actor
  <2> QED
    BY <2>1, <2>2, <2>3 DEF Node!SettingsInv, Node!SettingsTypes, Node!CredentialKept
<1>2. Node!SettingsInv /\ [Node!Next]_Node!vars => Node!SettingsInv'
  BY SettingsNext
<1>3. Node!SettingsInv => CredentialKept
  BY DEF Node!SettingsInv, CredentialKept
<1> QED
  BY <1>1, <1>2, <1>3, NodeIsItsParts, PTL DEF Node!Spec

-----------------------------------------------------------------------------
(* Engagement.                                                             *)

LEMMA QuietTypes ==
  ASSUME Snapshots!EngagementAssumption
  PROVE  /\ Snapshots!NoJob \in Snapshots!JobType /\ Snapshots!NoJob.pc = "idle"
         /\ Snapshots!NoJob.at = 0
         /\ Snapshots!NoPass \in Snapshots!PassType
         /\ Snapshots!NoPass.called = <<>> /\ Snapshots!NoPass.refreshed = 0
         /\ Snapshots!NoRow \in Snapshots!Snapshot /\ Snapshots!NoRow.at = 0
         /\ 0 \in Snapshots!Time
<1>1. 0 \in Snapshots!Time
  BY DEF Snapshots!EngagementAssumption, Snapshots!Time
<1>2. <<>> \in Seq([remote : Snapshots!Remote, row : Snapshots!Snapshot])
  OBVIOUS
<1> QED
  BY <1>1, <1>2 DEF Snapshots!NoJob, Snapshots!JobType, Snapshots!NoPass, Snapshots!PassType,
     Snapshots!NoRow, Snapshots!Snapshot

\* A step that leaves the pass where it is.
LEMMA PassStands ==
  ASSUME Snapshots!PassInv, pass' = pass, posts' \subseteq posts,
         jobs'["pass"].pc # "idle" => jobs["pass"].pc # "idle"
  PROVE  Snapshots!PassInv'
BY DEF Snapshots!PassInv, Snapshots!PassIsSparing

\* A step that writes no row: a reading is one of before, or has just been taken.
LEMMA ReadingsStand ==
  ASSUME Snapshots!EngagementAssumption, Snapshots!EngagementTypes, Snapshots!ReadingsInv,
         activity' = activity, hour' \in Snapshots!Time, hour <= hour',
         \A j \in Snapshots!Job : jobs'[j].at <= hour',
         \A j \in Snapshots!Job : jobs'[j].pc \in {"text", "write"} =>
            \/ /\ jobs[j].pc \in {"text", "write"} /\ jobs'[j].remote = jobs[j].remote
               /\ jobs'[j].at = jobs[j].at /\ jobs'[j].crossed = jobs[j].crossed
            \/ jobs'[j].remote \in Snapshots!Remote /\ jobs'[j].at = hour
  PROVE  Snapshots!ReadingsInv'
<1>1. /\ hour \in Nat /\ hour' \in Nat
      /\ \A r \in Snapshots!Remote : activity[r].at \in Nat
  BY DEF Snapshots!EngagementTypes, Snapshots!Time, Snapshots!Snapshot, Snapshots!EngagementAssumption
<1> QED
  BY <1>1 DEF Snapshots!ReadingsInv

LEMMA EngagementNext ==
  ASSUME Snapshots!EngagementAssumption, Snapshots!EngagementInv, [Snapshots!Next]_Snapshots!vars
  PROVE  Snapshots!EngagementInv'
<1> USE DEF Snapshots!EngagementInv
<1>1. /\ hour \in Snapshots!Time /\ hour \in Nat /\ hour <= hour
      /\ jobs \in [Snapshots!Job -> Snapshots!JobType] /\ "pass" \in Snapshots!Job /\ "request" \in Snapshots!Job
      /\ pass \in Snapshots!PassType /\ posts \subseteq Snapshots!Remote
  BY DEF Snapshots!EngagementTypes, Snapshots!Time, Snapshots!EngagementAssumption, Snapshots!Job
\* A job begins, reads, or ends.
<1>2. ASSUME NEW j \in Snapshots!Job, NEW c \in Snapshots!JobType, jobs' = [jobs EXCEPT ![j] = c],
             c.pc # "idle" => c.remote \in Snapshots!Remote, c.at <= hour,
             c.pc # "idle" /\ j = "pass" => jobs[j].pc # "idle",
             c.pc \in {"text", "write"} =>
               \/ /\ jobs[j].pc \in {"text", "write"} /\ c.remote = jobs[j].remote
                  /\ c.at = jobs[j].at /\ c.crossed = jobs[j].crossed
               \/ c.at = hour,
             UNCHANGED <<hour, activity, posts, pass>>
      PROVE  Snapshots!EngagementInv'
  <2>1. /\ jobs' \in [Snapshots!Job -> Snapshots!JobType]
        /\ jobs'[j] = c /\ \A k \in Snapshots!Job : k # j => jobs'[k] = jobs[k]
    BY <1>1, <1>2
  <2>2. Snapshots!EngagementTypes'
    BY <1>2, <2>1 DEF Snapshots!EngagementTypes
  <2>3. Snapshots!PassInv'
    BY <1>1, <1>2, <2>1, PassStands
  <2>4. \A k \in Snapshots!Job : jobs'[k].at <= hour'
    BY <1>2, <2>1 DEF Snapshots!ReadingsInv
  <2>5. Snapshots!ReadingsInv'
    BY <1>1, <1>2, <2>1, <2>4, ReadingsStand
  <2> QED
    BY <2>2, <2>3, <2>5
<1>3. CASE Snapshots!Request
  <2>1. PICK r \in posts : Snapshots!Begin("request", r)
    BY <1>3 DEF Snapshots!Request
  <2> DEFINE c == [Snapshots!NoJob EXCEPT !.pc = "call", !.remote = r]
  <2>2. /\ c \in Snapshots!JobType /\ c.pc = "call" /\ c.remote = r /\ r \in Snapshots!Remote
        /\ c.at = 0 /\ jobs' = [jobs EXCEPT !["request"] = c]
    BY <1>1, <2>1, QuietTypes DEF Snapshots!Begin, Snapshots!NoJob, Snapshots!JobType
  <2> HIDE DEF c
  <2>3. c.at <= hour
    BY <1>1, <2>2
  <2> QED
    BY <1>1, <1>2, <1>3, <2>2, <2>3 DEF Snapshots!Request
<1>4. CASE Snapshots!StartPass
  <2>1. /\ pass' = [Snapshots!NoPass EXCEPT !.on = TRUE, !.now = hour]
        /\ UNCHANGED <<hour, activity, posts, jobs>> /\ ~pass.on
    BY <1>4 DEF Snapshots!StartPass
  <2>2. pass' \in Snapshots!PassType /\ pass'.called = <<>> /\ pass'.refreshed = 0
    BY <1>1, <2>1, QuietTypes DEF Snapshots!NoPass, Snapshots!PassType
  <2>3. jobs["pass"].pc = "idle"
    BY <2>1 DEF Snapshots!PassInv
  <2>4. Snapshots!PassInv'
    BY <2>1, <2>2, <2>3 DEF Snapshots!PassInv, Snapshots!PassIsSparing, Snapshots!EngagementAssumption
  <2> QED
    BY <2>1, <2>2, <2>4 DEF Snapshots!EngagementTypes, Snapshots!ReadingsInv
<1>5. CASE Snapshots!Scan
  <2> DEFINE r == History[pass.next]
  <2>1. /\ pass.on /\ jobs["pass"].pc = "idle" /\ pass.next <= Len(History) /\ pass.refreshed < RefreshBatch
        /\ UNCHANGED <<hour, activity, posts>>
        /\ IF Snapshots!Skips(r)
           THEN pass' = [pass EXCEPT !.next = @ + 1, !.seen = Snapshots!Seen(r)] /\ UNCHANGED jobs
           ELSE /\ pass' = [pass EXCEPT !.next = @ + 1, !.seen = Snapshots!Seen(r),
                                        !.called = Append(@, [remote |-> r, row |-> activity[r]])]
                /\ Snapshots!Begin("pass", r)
    BY <1>5 DEF Snapshots!Scan
  <2>2. /\ pass.next \in Nat \ {0} /\ pass.seen \subseteq Snapshots!Remote /\ pass.now \in Nat
        /\ pass.called \in Seq([remote : Snapshots!Remote, row : Snapshots!Snapshot])
    BY <1>1 DEF Snapshots!PassType, Snapshots!Time, Snapshots!EngagementAssumption
  <2>3. r # 0 => r \in Snapshots!Remote
    BY <2>1, <2>2 DEF Snapshots!Remote, Snapshots!Range, Snapshots!EngagementAssumption
  <2> HIDE DEF r
  <2>4. CASE Snapshots!Skips(r)
    <3> DEFINE p == [pass EXCEPT !.next = @ + 1, !.seen = Snapshots!Seen(r)]
    <3>a. Snapshots!Seen(r) \subseteq Snapshots!Remote /\ pass.seen \subseteq Snapshots!Seen(r)
      BY <2>2, <2>3 DEF Snapshots!Seen
    <3>b. pass.next + 1 \in Nat \ {0}
      BY <2>2
    <3>c. /\ p \in Snapshots!PassType /\ p.on = pass.on /\ p.seen = Snapshots!Seen(r)
          /\ p.called = pass.called /\ p.refreshed = pass.refreshed /\ p.now = pass.now
      BY <1>1, <3>a, <3>b DEF Snapshots!PassType
    <3>d. pass' = p /\ UNCHANGED jobs
      BY <2>1, <2>4
    <3> HIDE DEF p
    <3>1. /\ pass' \in Snapshots!PassType /\ UNCHANGED jobs
          /\ pass'.called = pass.called /\ pass'.refreshed = pass.refreshed /\ pass'.now = pass.now
          /\ pass'.on /\ pass.seen \subseteq pass'.seen
      BY <2>1, <3>a, <3>c, <3>d
    <3>2. Snapshots!PassInv'
      BY <2>1, <3>1 DEF Snapshots!PassInv, Snapshots!PassIsSparing
    <3> QED
      BY <2>1, <3>1, <3>2 DEF Snapshots!EngagementTypes, Snapshots!ReadingsInv
  <2>5. CASE ~Snapshots!Skips(r)
    <3> DEFINE call == [remote |-> r, row |-> activity[r]]
               c == [Snapshots!NoJob EXCEPT !.pc = "call", !.remote = r]
    <3>1. /\ r \in Snapshots!Remote /\ r \notin pass.seen /\ ~Snapshots!Fresh(r)
          /\ pass' = [pass EXCEPT !.next = @ + 1, !.seen = Snapshots!Seen(r), !.called = Append(@, call)]
          /\ jobs' = [jobs EXCEPT !["pass"] = c]
      BY <2>1, <2>3, <2>5 DEF Snapshots!Skips, Snapshots!Begin
    <3>e. r # 0
      BY <3>1 DEF Snapshots!Remote
    <3>2. /\ call \in [remote : Snapshots!Remote, row : Snapshots!Snapshot]
          /\ call.remote = r /\ call.row = activity[r] /\ activity[r].at \in Nat
      BY <3>1 DEF Snapshots!EngagementTypes, Snapshots!Snapshot, Snapshots!Time, Snapshots!EngagementAssumption
    <3>3. c \in Snapshots!JobType /\ c.pc = "call" /\ c.remote = r /\ c.at = 0
      BY <3>1, QuietTypes DEF Snapshots!NoJob, Snapshots!JobType
    <3> HIDE DEF call, c
    <3>4. /\ jobs' \in [Snapshots!Job -> Snapshots!JobType]
          /\ jobs'["pass"] = c /\ \A k \in Snapshots!Job : k # "pass" => jobs'[k] = jobs[k]
      BY <1>1, <3>1, <3>3
    <3>5. /\ Append(pass.called, call) \in Seq([remote : Snapshots!Remote, row : Snapshots!Snapshot])
          /\ DOMAIN Append(pass.called, call) = 1..Len(pass.called) + 1 /\ Len(pass.called) \in Nat
          /\ DOMAIN pass.called = 1..Len(pass.called)
          /\ Append(pass.called, call)[Len(pass.called) + 1] = call
          /\ \A i \in 1..Len(pass.called) : Append(pass.called, call)[i] = pass.called[i]
      BY <2>2, <3>2, AppendProperties, LenProperties
    <3>6. /\ pass' \in Snapshots!PassType /\ pass'.called = Append(pass.called, call)
          /\ pass'.refreshed = pass.refreshed /\ pass'.now = pass.now /\ pass'.on
          /\ pass'.seen = pass.seen \cup {r}
      <4> DEFINE p == [pass EXCEPT !.next = @ + 1, !.seen = Snapshots!Seen(r),
                                   !.called = Append(@, call)]
      <4>1. /\ Snapshots!Seen(r) = pass.seen \cup {r}
            /\ Snapshots!Seen(r) \subseteq Snapshots!Remote
        BY <2>2, <3>1, <3>e DEF Snapshots!Seen
      <4>2. pass.next + 1 \in Nat \ {0}
        BY <2>2
      <4>3. /\ p \in Snapshots!PassType /\ p.on = pass.on /\ p.seen = Snapshots!Seen(r)
            /\ p.called = Append(pass.called, call)
            /\ p.refreshed = pass.refreshed /\ p.now = pass.now
        BY <1>1, <3>5, <4>1, <4>2 DEF Snapshots!PassType
      <4>4. pass' = p
        BY <3>1
      <4> HIDE DEF p
      <4> QED
        BY <2>1, <4>1, <4>3, <4>4
    <3>7. Snapshots!PassIsSparing'
      <4>1. \A i \in 1..Len(pass.called) : pass.called[i].remote # r
        BY <3>1, <3>5 DEF Snapshots!PassInv
      <4>2. activity[r].there /\ r \in posts => activity[r].at + MinAge <= pass.now
        BY <2>2, <3>1, <3>2 DEF Snapshots!Fresh, Snapshots!EngagementAssumption
      <4> QED
        BY <2>1, <3>2, <3>5, <3>6, <4>1, <4>2 DEF Snapshots!PassIsSparing, Snapshots!PassInv
    <3>8. Snapshots!PassInv'
      BY <2>1, <3>2, <3>5, <3>6, <3>7 DEF Snapshots!PassInv
    <3>9. Snapshots!EngagementTypes'
      BY <2>1, <3>1, <3>3, <3>4, <3>6 DEF Snapshots!EngagementTypes
    <3>10. Snapshots!ReadingsInv'
      <4>1. \A k \in Snapshots!Job : jobs'[k].at <= hour'
        BY <1>1, <2>1, <3>3, <3>4 DEF Snapshots!ReadingsInv
      <4> QED
        BY <1>1, <2>1, <3>3, <3>4, <4>1, ReadingsStand
    <3> QED
      BY <3>8, <3>9, <3>10
  <2> QED
    BY <2>4, <2>5
<1>6. CASE Snapshots!EndPass
  <2>1. pass' = Snapshots!NoPass /\ jobs["pass"].pc = "idle" /\ UNCHANGED <<hour, activity, posts, jobs>>
    BY <1>6 DEF Snapshots!EndPass
  <2>2. Snapshots!PassInv'
    BY <2>1, QuietTypes DEF Snapshots!PassInv, Snapshots!PassIsSparing, Snapshots!EngagementAssumption
  <2> QED
    BY <2>1, <2>2, QuietTypes DEF Snapshots!EngagementTypes, Snapshots!ReadingsInv
<1>7. ASSUME NEW j \in Snapshots!Job, Snapshots!CallReturns(j)
      PROVE  Snapshots!EngagementInv'
  <2> DEFINE c == [jobs[j] EXCEPT !.pc = "text", !.at = hour]
  <2>1. /\ jobs[j] \in Snapshots!JobType /\ jobs[j].pc = "call" /\ jobs[j].remote \in Snapshots!Remote
        /\ UNCHANGED <<hour, activity, posts, pass>>
    BY <1>1, <1>7 DEF Snapshots!CallReturns
  <2>2. jobs' = [jobs EXCEPT ![j] = c]
    BY <1>7 DEF Snapshots!CallReturns
  <2>3. /\ c \in Snapshots!JobType /\ c.pc = "text" /\ c.at = hour /\ c.remote = jobs[j].remote
        /\ c.at <= hour
    BY <1>1, <2>1 DEF Snapshots!JobType
  <2> HIDE DEF c
  <2> QED
    BY <1>2, <2>1, <2>2, <2>3
<1>8. ASSUME NEW j \in Snapshots!Job, Snapshots!ResolveText(j)
      PROVE  Snapshots!EngagementInv'
  <2> DEFINE t == jobs[j].remote \in drafts
             c == [jobs[j] EXCEPT !.pc = "write", !.text = t]
  <2>1. /\ jobs[j] \in Snapshots!JobType /\ jobs[j].pc = "text" /\ jobs[j].remote \in Snapshots!Remote
        /\ UNCHANGED <<hour, activity, posts, pass>>
    BY <1>1, <1>8 DEF Snapshots!ResolveText, Snapshots!EngagementTypes
  <2>2. jobs' = [jobs EXCEPT ![j] = c]
    BY <1>8 DEF Snapshots!ResolveText
  <2>3. /\ c \in Snapshots!JobType /\ c.pc = "write" /\ c.at = jobs[j].at /\ c.remote = jobs[j].remote
        /\ c.crossed = jobs[j].crossed
    <3>1. t \in BOOLEAN
      OBVIOUS
    <3> HIDE DEF t
    <3> QED
      BY <1>1, <2>1, <3>1 DEF Snapshots!JobType
  <2>4. c.at <= hour
    BY <2>3 DEF Snapshots!ReadingsInv
  <2> HIDE DEF c
  <2> QED
    BY <1>2, <2>1, <2>2, <2>3, <2>4
<1>9. ASSUME NEW j \in Snapshots!Job, Snapshots!Upsert(j)
      PROVE  Snapshots!EngagementInv'
  <2> DEFINE row == Snapshots!Merged(activity[jobs[j].remote], jobs[j])
  <2>1. /\ jobs[j] \in Snapshots!JobType /\ jobs[j].pc = "write" /\ jobs[j].remote \in Snapshots!Remote
        /\ jobs[j].at \in Snapshots!Time
        /\ activity' = [activity EXCEPT ![jobs[j].remote] = row] /\ UNCHANGED <<hour, posts>>
        /\ jobs' = [k \in Snapshots!Job |->
             IF k = j THEN Snapshots!NoJob
             ELSE [jobs[k] EXCEPT !.crossed = @ \/ (jobs[k].pc \in {"text", "write"} /\ jobs[k].remote = jobs[j].remote)]]
        /\ pass' = IF j = "pass" THEN [pass EXCEPT !.refreshed = @ + 1] ELSE pass
    BY <1>1, <1>9 DEF Snapshots!Upsert, Snapshots!EngagementTypes, Snapshots!JobType
  <2>2. row \in Snapshots!Snapshot /\ row.at = jobs[j].at
    BY <2>1 DEF Snapshots!Merged, Snapshots!Snapshot, Snapshots!EngagementTypes, Snapshots!JobType
  <2> HIDE DEF row
  <2>3. /\ activity' \in [Snapshots!Remote -> Snapshots!Snapshot]
        /\ activity'[jobs[j].remote].at = jobs[j].at
        /\ \A r \in Snapshots!Remote : r # jobs[j].remote => activity'[r] = activity[r]
    BY <2>1, <2>2 DEF Snapshots!EngagementTypes
  <2>4. ASSUME NEW k \in Snapshots!Job
        PROVE  /\ jobs'[k] \in Snapshots!JobType
               /\ jobs'[k].pc # "idle" =>
                    /\ k # j /\ jobs[k].pc = jobs'[k].pc
                    /\ jobs'[k].remote = jobs[k].remote /\ jobs'[k].at = jobs[k].at
                    /\ jobs'[k].pc \in {"text", "write"} /\ ~jobs'[k].crossed =>
                         ~jobs[k].crossed /\ jobs[k].remote # jobs[j].remote
    <3>1. CASE k = j
      BY <2>1, <3>1, QuietTypes
    <3>2. CASE k # j
      BY <1>1, <2>1, <3>2 DEF Snapshots!JobType
    <3> QED
      BY <3>1, <3>2
  <2>5. /\ pass' \in Snapshots!PassType /\ pass'.called = pass.called /\ pass'.now = pass.now
        /\ pass'.seen = pass.seen /\ pass'.on = pass.on
        /\ pass'.refreshed = pass.refreshed + IF j = "pass" THEN 1 ELSE 0
    BY <1>1, <2>1 DEF Snapshots!PassType
  <2>6. pass.refreshed \in Nat /\ RefreshBatch \in Nat
    BY <1>1 DEF Snapshots!PassType, Snapshots!EngagementAssumption
  <2>7. Snapshots!PassInv'
    <3>1. pass'.refreshed <= RefreshBatch
      <4>1. CASE j = "pass"
        BY <1>1, <2>1, <2>5, <2>6, <4>1 DEF Snapshots!PassInv
      <4>2. CASE j # "pass"
        BY <2>5, <2>6, <4>2 DEF Snapshots!PassInv, Snapshots!PassIsSparing
      <4> QED
        BY <4>1, <4>2
    <3>2. jobs'["pass"].pc # "idle" => pass'.on /\ pass'.refreshed < RefreshBatch
      BY <1>1, <2>4, <2>5, <2>6 DEF Snapshots!PassInv
    <3> QED
      BY <2>1, <2>5, <3>1, <3>2 DEF Snapshots!PassInv, Snapshots!PassIsSparing
  <2>8. Snapshots!ReadingsInv'
    <3>1. \A r \in Snapshots!Remote : activity'[r].at <= hour'
      BY <2>1, <2>3 DEF Snapshots!ReadingsInv
    <3>2. ASSUME NEW k \in Snapshots!Job PROVE jobs'[k].at <= hour'
      <4>1. CASE k = j
        BY <1>1, <2>1, <4>1, QuietTypes
      <4>2. CASE k # j
        BY <1>1, <2>1, <4>2 DEF Snapshots!ReadingsInv, Snapshots!JobType
      <4> QED
        BY <4>1, <4>2
    <3>3. ASSUME NEW k \in Snapshots!Job, jobs'[k].pc \in {"text", "write"}, ~jobs'[k].crossed
          PROVE  activity'[jobs'[k].remote].at <= jobs'[k].at
      <4>1. /\ jobs'[k].remote = jobs[k].remote /\ jobs'[k].at = jobs[k].at
            /\ jobs[k].pc \in {"text", "write"} /\ ~jobs[k].crossed
            /\ jobs[k].remote # jobs[j].remote
        BY <2>4, <3>3
      <4>2. jobs[k].remote \in Snapshots!Remote
        BY <4>1 DEF Snapshots!EngagementTypes
      <4> QED
        BY <2>3, <4>1, <4>2 DEF Snapshots!ReadingsInv
    <3> QED
      BY <3>1, <3>2, <3>3 DEF Snapshots!ReadingsInv
  <2>9. Snapshots!EngagementTypes'
    <3>1. jobs' \in [Snapshots!Job -> Snapshots!JobType]
      <4> DEFINE f(k) == IF k = j THEN Snapshots!NoJob
                ELSE [jobs[k] EXCEPT !.crossed = @ \/ (jobs[k].pc \in {"text", "write"} /\ jobs[k].remote = jobs[j].remote)]
      <4>1. jobs' = [k \in Snapshots!Job |-> f(k)]
        BY <2>1
      <4> HIDE DEF f
      <4>2. \A k \in Snapshots!Job : f(k) \in Snapshots!JobType
        BY <2>4, <4>1
      <4> QED
        BY <4>1, <4>2
    <3>2. \A k \in Snapshots!Job : jobs'[k].pc # "idle" => jobs'[k].remote \in Snapshots!Remote
      BY <2>4 DEF Snapshots!EngagementTypes
    <3> QED
      BY <2>1, <2>3, <2>5, <3>1, <3>2 DEF Snapshots!EngagementTypes
  <2> QED
    BY <2>7, <2>8, <2>9
<1>10. ASSUME NEW j \in Snapshots!Job, Snapshots!JobFails(j)
       PROVE  Snapshots!EngagementInv'
  <2>1. /\ jobs' = [jobs EXCEPT ![j] = Snapshots!NoJob] /\ UNCHANGED <<hour, activity, posts, pass>>
    BY <1>10 DEF Snapshots!JobFails
  <2>2. Snapshots!NoJob.at <= hour
    BY <1>1, QuietTypes
  <2> QED
    BY <1>2, <2>1, <2>2, QuietTypes
<1>11. CASE Snapshots!Tick
  <2>1. UNCHANGED <<activity, posts, pass, jobs>> /\ hour' = hour + 1 /\ hour' \in Snapshots!Time
    BY <1>1, <1>11 DEF Snapshots!Tick, Snapshots!Time, Snapshots!EngagementAssumption
  <2>2. Snapshots!ReadingsInv'
    <3>1. hour <= hour' /\ \A k \in Snapshots!Job : jobs[k].at <= hour'
      BY <1>1, <2>1 DEF Snapshots!ReadingsInv, Snapshots!JobType, Snapshots!Time
    <3> QED
      BY <1>1, <2>1, <3>1, ReadingsStand
  <2> QED
    BY <2>1, <2>2, PassStands DEF Snapshots!EngagementTypes
<1>12. CASE Snapshots!DeletePost
  <2>1. UNCHANGED <<hour, activity, pass, jobs>> /\ posts' \subseteq posts
    BY <1>12 DEF Snapshots!DeletePost
  <2> QED
    BY <2>1, PassStands DEF Snapshots!EngagementTypes, Snapshots!ReadingsInv
<1>13. CASE Snapshots!DeleteDraft \/ UNCHANGED Snapshots!vars
  BY <1>13 DEF Snapshots!DeleteDraft, Snapshots!vars, Snapshots!EngagementTypes, Snapshots!PassInv,
       Snapshots!PassIsSparing, Snapshots!ReadingsInv
<1> QED
  BY <1>3, <1>4, <1>5, <1>6, <1>7, <1>8, <1>9, <1>10, <1>11, <1>12, <1>13 DEF Snapshots!Next

LEMMA EngagementInit ==
  ASSUME Snapshots!EngagementAssumption, Snapshots!Init
  PROVE  Snapshots!EngagementInv
<1>1. /\ hour = 0 /\ activity = [r \in Snapshots!Remote |-> Snapshots!NoRow] /\ posts = Snapshots!Remote
      /\ pass = Snapshots!NoPass /\ jobs = [j \in Snapshots!Job |-> Snapshots!NoJob]
  BY DEF Snapshots!Init
<1>2. RefreshBatch \in Nat
  BY DEF Snapshots!EngagementAssumption
<1>3. Snapshots!EngagementTypes
  BY <1>1, QuietTypes DEF Snapshots!EngagementTypes
<1>4. Snapshots!PassInv
  BY <1>1, <1>2, QuietTypes DEF Snapshots!PassInv, Snapshots!PassIsSparing, Snapshots!Job
<1>5. Snapshots!ReadingsInv
  BY <1>1, QuietTypes DEF Snapshots!ReadingsInv
<1> QED
  BY <1>3, <1>4, <1>5 DEF Snapshots!EngagementInv

\* Only Upsert writes a row: it keeps the text, and writes an older reading over a newer one
\* only when another write has crossed it.
LEMMA SnapshotsKept ==
  ASSUME Snapshots!EngagementAssumption, Snapshots!EngagementInv, Snapshots!Next,
         NEW r \in Snapshots!Remote, activity'[r] # activity[r]
  PROVE  /\ activity[r].text => activity'[r].text
         /\ activity'[r].at < activity[r].at =>
              \E j \in Snapshots!Job : /\ jobs[j].pc = "write" /\ jobs[j].remote = r
                                       /\ jobs[j].crossed
<1>1. PICK j \in Snapshots!Job : Snapshots!Upsert(j)
  BY DEF Snapshots!Next, Snapshots!Request, Snapshots!StartPass, Snapshots!Scan, Snapshots!EndPass,
     Snapshots!CallReturns, Snapshots!ResolveText, Snapshots!JobFails, Snapshots!Tick,
     Snapshots!DeletePost, Snapshots!DeleteDraft
<1>2. /\ jobs[j].pc = "write" /\ jobs[j] \in Snapshots!JobType
      /\ activity \in [Snapshots!Remote -> Snapshots!Snapshot] /\ jobs[j].at \in Nat /\ activity[r].at \in Nat
      /\ activity' = [activity EXCEPT ![jobs[j].remote] = Snapshots!Merged(@, jobs[j])]
  BY <1>1 DEF Snapshots!Upsert, Snapshots!EngagementInv, Snapshots!EngagementTypes, Snapshots!JobType,
     Snapshots!Snapshot, Snapshots!Time, Snapshots!EngagementAssumption
<1>3. jobs[j].remote = r /\ activity'[r] = Snapshots!Merged(activity[r], jobs[j])
  BY <1>2
<1>4. activity'[r].at = jobs[j].at /\ (activity[r].text => activity'[r].text)
  <2>1. activity'[r] = [there |-> TRUE, at |-> jobs[j].at, text |-> jobs[j].text \/ activity[r].text]
    BY <1>3 DEF Snapshots!Merged
  <2> DEFINE t == jobs[j].text \/ activity[r].text
  <2>2. activity'[r].at = jobs[j].at /\ activity'[r].text = t
    BY <2>1
  <2>3. activity[r].text => t
    OBVIOUS
  <2> QED
    BY <2>2, <2>3
<1>5. activity'[r].at < activity[r].at => jobs[j].crossed
  BY <1>2, <1>3, <1>4 DEF Snapshots!EngagementInv, Snapshots!ReadingsInv
<1> QED
  BY <1>2, <1>3, <1>4, <1>5

\* Whatever the history, the batch and the interleaving of the pass with requests and deletes:
\* the pass reads no post twice and none that was fresh, and no write loses a text or puts an
\* older reading over a newer one that had not crossed it.
THEOREM RefreshesAreSparingAndKeep ==
  ASSUME Snapshots!EngagementAssumption
  PROVE  NodeSpec => RefreshesHold
<1>1. Snapshots!Init => Snapshots!EngagementInv
  BY EngagementInit
<1>2. Snapshots!EngagementInv /\ [Snapshots!Next]_Snapshots!vars => Snapshots!EngagementInv'
  BY EngagementNext
<1>3. Snapshots!EngagementInv => Snapshots!PassIsSparing
  BY DEF Snapshots!EngagementInv, Snapshots!PassInv
<1>4. Snapshots!EngagementInv /\ [Snapshots!Next]_Snapshots!vars =>
        [Snapshots!RowsKept]_Snapshots!vars
  BY SnapshotsKept DEF Snapshots!RowsKept
<1>5. Snapshots!Spec => []Snapshots!PassIsSparing
  BY <1>1, <1>2, <1>3, PTL DEF Snapshots!Spec
<1>6. Snapshots!Spec => Snapshots!SnapshotKeeps
  BY <1>1, <1>2, <1>4, PTL DEF Snapshots!Spec, Snapshots!SnapshotKeeps
<1> QED
  BY <1>5, <1>6, NodeIsItsParts DEF RefreshesHold, Snapshots!RefreshesHold

-----------------------------------------------------------------------------
(* TickPolicy.                                                             *)

\* The posts in some order are a sequence of them.
LEMMA InOrderIsOfThem ==
  ASSUME TickAssumption, NEW S \in SUBSET Post, NEW q \in InOrder(S)
  PROVE  q \in Seq(Post) /\ \A i \in DOMAIN q : q[i] \in S
<1>1. IsFiniteSet(S)
  <2>1. Post = 1..Len(SpaceOf) /\ Len(SpaceOf) \in Nat
    BY DEF TickAssumption, Post
  <2> QED
    <3>1. IsFiniteSet(1..Len(SpaceOf))
      BY <2>1, FS_Interval
    <3> QED
      BY <2>1, <3>1, FS_Subset
<1>2. Cardinality(S) \in Nat
  BY <1>1, FS_CardinalityType
<1>3. q \in [1..Cardinality(S) -> S]
  <2>1. Cardinality(S) = Cardinality(S)
    BY DEF Cardinality, Cardinality
  <2> QED
    BY <2>1 DEF InOrder
<1>4. q \in Seq(S)
  BY <1>2, <1>3, IsASeq
<1> QED
  BY <1>3, <1>4

\* A step that leaves the loop alone: settings only come to be on with wasOn.
LEMMA TickAround ==
  ASSUME TickInv, UNCHANGED <<loop, blind>>,
         settings' \in [Workspace -> Settings],
         post' \in [Post -> {"scheduled", "due", "publishing", "settled"}],
         \A run \in loop.runs : post'[run.post] \in {"publishing", "settled"},
         wasOn \subseteq wasOn', On' \subseteq wasOn'
  PROVE  TickInv'
<1>1. LoopTypes'
  BY DEF TickInv, LoopTypes
<1>2. BatchInv'
  BY DEF TickInv, BatchInv
<1>3. PolicyInv'
  BY DEF TickInv, PolicyInv
<1> QED
  BY <1>1, <1>2, <1>3 DEF TickInv

LEMMA NoLoopIs ==
  /\ NoLoop = [pc |-> "list", read |-> <<>>, policy |-> DefaultPolicy, queue |-> <<>>, runs |-> {}]
  /\ <<>> \in Seq(Settings \cup {Defaults}) /\ <<>> \in Seq(Post)
BY DEF NoLoop

\* The next settings that are read, of a workspace that was on if they are.
LEMMA ReadStep ==
  ASSUME TickAssumption, TickInv, loop.pc = "read", NEW s \in Settings \cup {Defaults},
         Reads(s), UNCHANGED <<settings, post, wasOn>>, blind \subseteq blind',
         s.on => Spaces[Len(loop.read) + 1] \in wasOn \cup blind'
  PROVE  TickInv'
<1> USE DEF TickInv
<1> DEFINE read == Append(loop.read, s)
<1>1. /\ loop.read \in Seq(Settings \cup {Defaults}) /\ Len(loop.read) < Len(Spaces)
      /\ loop.queue = <<>> /\ loop.runs = {} /\ Len(Spaces) \in Nat /\ Len(loop.read) \in Nat
  BY DEF LoopTypes, BatchInv, PolicyInv, TickAssumption
<1>2. /\ read \in Seq(Settings \cup {Defaults}) /\ Len(read) = Len(loop.read) + 1
      /\ DOMAIN read = 1..Len(loop.read) + 1
      /\ read[Len(loop.read) + 1] = s
      /\ \A i \in 1..Len(loop.read) : read[i] = loop.read[i]
  BY <1>1, AppendProperties, LenProperties
<1>3. ASSUME NEW i \in DOMAIN read, read[i].on PROVE Spaces[i] \in wasOn \cup blind'
  <2>1. CASE i = Len(loop.read) + 1
    BY <1>2, <1>3, <2>1
  <2>2. CASE i # Len(loop.read) + 1
    <3>1. i \in 1..Len(loop.read) /\ DOMAIN loop.read = 1..Len(loop.read)
      BY <1>1, <1>2, <2>2, LenProperties
    <3> QED
      BY <1>2, <1>3, <3>1 DEF PolicyInv
  <2> QED
    BY <2>1, <2>2
<1>4. loop' = IF Len(read) < Len(Spaces) THEN [loop EXCEPT !.read = read]
              ELSE [loop EXCEPT !.read = read, !.pc = "reap", !.policy = MergePolicy(read)]
  BY DEF Reads
<1> HIDE DEF read
<1>5. /\ loop' = [pc |-> loop'.pc, read |-> read, policy |-> loop'.policy, queue |-> <<>>, runs |-> {}]
      /\ \/ loop'.pc = "read" /\ Len(read) < Len(Spaces)
         \/ loop'.pc = "reap" /\ loop'.policy = MergePolicy(read)
  <2>1. loop = [pc |-> "read", read |-> loop.read, policy |-> loop.policy, queue |-> <<>>, runs |-> {}]
    BY <1>1 DEF LoopTypes
  <2>2. CASE Len(read) < Len(Spaces)
    <3> DEFINE old == loop.read  was == loop.policy
    <3>1. loop = [pc |-> "read", read |-> old, policy |-> was, queue |-> <<>>, runs |-> {}]
      BY <2>1
    <3>2. loop' = [loop EXCEPT !.read = read]
      BY <1>4, <2>2
    <3> HIDE DEF old, was
    <3>3. loop' = [pc |-> "read", read |-> read, policy |-> was, queue |-> <<>>, runs |-> {}]
      BY <3>1, <3>2
    <3> QED
      BY <2>2, <3>3
  <2>3. CASE ~(Len(read) < Len(Spaces))
    <3> DEFINE policy == MergePolicy(read)
    <3>1. loop' = [loop EXCEPT !.read = read, !.pc = "reap", !.policy = policy]
      BY <1>4, <2>3
    <3> HIDE DEF policy
    <3>2. loop' = [pc |-> "reap", read |-> read, policy |-> policy, queue |-> <<>>, runs |-> {}]
      <4> DEFINE old == loop.read  was == loop.policy
      <4>1. loop = [pc |-> "read", read |-> old, policy |-> was, queue |-> <<>>, runs |-> {}]
        BY <2>1
      <4> HIDE DEF old, was
      <4> QED
        BY <3>1, <4>1
    <3> QED
      BY <3>2 DEF policy
  <2> QED
    BY <2>2, <2>3
<1>6. MergePolicy(read).enabled \subseteq wasOn \cup blind'
  <2>1. read # <<>>
    BY <1>1, <1>2
  <2>2. MergePolicy(read).enabled = {Spaces[i] : i \in {k \in DOMAIN read : read[k].on}}
    BY <2>1 DEF MergePolicy
  <2> QED
    BY <1>3, <2>2
<1>7. /\ loop'.read = read /\ loop'.queue = <<>> /\ loop'.runs = {}
      /\ loop'.pc \in {"read", "reap"}
      /\ loop' = [pc |-> loop'.pc, read |-> loop'.read, policy |-> loop'.policy, queue |-> loop'.queue, runs |-> loop'.runs]
  BY <1>5
<1>8. LoopTypes'
  BY <1>2, <1>7, NoLoopIs DEF LoopTypes
<1>9. BatchInv'
  BY <1>7 DEF BatchInv
<1>10. PolicyInv'
  <2>1. On' \subseteq wasOn'
    BY DEF PolicyInv, On
  <2> QED
    BY <1>3, <1>5, <1>6, <1>7, <2>1 DEF PolicyInv
<1> QED
  BY <1>8, <1>9, <1>10

\* A step of the loop between its reads and its runs.
LoopWith(pc, queue, runs) ==
  [pc |-> pc, read |-> loop.read, policy |-> loop.policy, queue |-> queue, runs |-> runs]

LEMMA LoopGoesOn ==
  ASSUME TickInv, loop.pc \in {"reap", "claim", "drain", "run"},
         NEW pc \in {"list", "claim", "drain", "run"}, NEW queue \in Seq(Post), NEW runs,
         loop' = LoopWith(pc, queue, runs),
         pc # "run" => queue = <<>> /\ runs = {},
         \A run \in runs : run.post \in Post /\ post'[run.post] \in {"publishing", "settled"},
         \A i \in DOMAIN queue : SpaceOf[queue[i]] \in loop.policy.enabled,
         post' \in [Post -> {"scheduled", "due", "publishing", "settled"}],
         UNCHANGED <<settings, wasOn, blind>>
  PROVE  TickInv'
<1> USE DEF TickInv
<1>1. /\ loop' = [pc |-> pc, read |-> loop.read, policy |-> loop.policy, queue |-> queue, runs |-> runs]
      /\ loop'.pc = pc /\ loop'.read = loop.read /\ loop'.policy = loop.policy
      /\ loop'.queue = queue /\ loop'.runs = runs
  BY DEF LoopWith
<1>2. LoopTypes'
  BY <1>1 DEF LoopTypes
<1>3. BatchInv'
  BY <1>1 DEF BatchInv
<1>4. PolicyInv'
  <2>1. On' \subseteq wasOn'
    BY DEF PolicyInv, On
  <2> QED
    BY <1>1, <2>1 DEF PolicyInv
<1> QED
  BY <1>2, <1>3, <1>4

LEMMA RoundBegins ==
  ASSUME TickAssumption, TickInv, UNCHANGED <<settings, post>>, wasOn' = On,
         \/ loop' = [NoLoop EXCEPT !.pc = "read"]
         \/ loop' = [NoLoop EXCEPT !.pc = "reap"] /\ blind' = Workspace
  PROVE  TickInv'
<1> USE DEF TickInv
<1>1. /\ loop' = [pc |-> loop'.pc, read |-> <<>>, policy |-> DefaultPolicy, queue |-> <<>>, runs |-> {}]
      /\ loop'.pc = "read" \/ (loop'.pc = "reap" /\ blind' = Workspace)
  <2>1. ASSUME NEW pc \in {"read", "reap"}, loop' = [NoLoop EXCEPT !.pc = pc]
        PROVE  /\ loop' = [pc |-> loop'.pc, read |-> <<>>, policy |-> DefaultPolicy, queue |-> <<>>, runs |-> {}]
               /\ loop'.pc = pc
    <3>1. loop' = [pc |-> pc, read |-> <<>>, policy |-> DefaultPolicy, queue |-> <<>>, runs |-> {}]
      BY <2>1 DEF NoLoop
    <3> QED
      BY <3>1
  <2> QED
    BY <2>1
<1>2. /\ loop'.read = <<>> /\ loop'.policy = DefaultPolicy /\ loop'.queue = <<>> /\ loop'.runs = {}
      /\ loop' = [pc |-> loop'.pc, read |-> loop'.read, policy |-> loop'.policy, queue |-> loop'.queue, runs |-> loop'.runs]
  BY <1>1
<1>3. Len(<<>>) < Len(Spaces)
  BY DEF TickAssumption, Workspace, Range
<1>4. DefaultPolicy.enabled \subseteq Workspace
  BY DEF DefaultPolicy, TickAssumption
<1>5. LoopTypes'
  BY <1>1, <1>2, NoLoopIs DEF LoopTypes
<1>6. BatchInv'
  BY <1>2 DEF BatchInv
<1>7. PolicyInv'
  <2>1. On' \subseteq wasOn'
    BY DEF On
  <2> QED
    BY <1>1, <1>2, <1>3, <1>4, <2>1 DEF PolicyInv
<1> QED
  BY <1>5, <1>6, <1>7

LEMMA TickNext ==
  ASSUME TickAssumption, TickInv, [Next]_vars
  PROVE  TickInv' /\ RunOnlyIfOn
<1> USE DEF TickInv
<1>1. /\ settings \in [Workspace -> Settings]
      /\ post \in [Post -> {"scheduled", "due", "publishing", "settled"}]
      /\ loop = [pc |-> loop.pc, read |-> loop.read, policy |-> loop.policy, queue |-> loop.queue, runs |-> loop.runs]
      /\ loop.read \in Seq(Settings \cup {Defaults}) /\ loop.queue \in Seq(Post)
      /\ \A run \in loop.runs : run.post \in Post /\ post[run.post] \in {"publishing", "settled"}
      /\ On \subseteq wasOn
  BY DEF LoopTypes, BatchInv, PolicyInv
\* Only Spawn takes a post that is due.
<1>2. ASSUME \A p \in Post : post[p] = "due" => post'[p] # "publishing"
      PROVE  RunOnlyIfOn
  BY <1>2 DEF RunOnlyIfOn
<1>3. CASE PutSettings
  <2>1. PICK w \in Workspace, s \in Settings :
          /\ settings' = [settings EXCEPT ![w] = s]
          /\ wasOn' = IF s.on THEN wasOn \cup {w} ELSE wasOn
    BY <1>3 DEF PutSettings
  <2>2. UNCHANGED <<post, loop, blind>>
    BY <1>3 DEF PutSettings
  <2>3. settings' \in [Workspace -> Settings] /\ On' \subseteq wasOn' /\ wasOn \subseteq wasOn'
    BY <1>1, <2>1 DEF On
  <2> QED
    BY <1>1, <1>2, <2>2, <2>3, TickAround
<1>4. CASE TimePasses \/ UNCHANGED vars
  <2>1. UNCHANGED <<settings, post, loop, wasOn, blind>>
    BY <1>4 DEF TimePasses, vars
  <2>2. On' = On
    BY <2>1 DEF On
  <2> QED
    BY <1>1, <1>2, <2>1, <2>2, TickAround
<1>5. CASE PublishNow
  <2>1. PICK p \in Post : post[p] = "scheduled" /\ post' = [post EXCEPT ![p] = "due"]
    BY <1>5 DEF PublishNow
  <2>2. UNCHANGED <<settings, loop, wasOn, blind>>
    BY <1>5 DEF PublishNow
  <2>3. post' \in [Post -> {"scheduled", "due", "publishing", "settled"}]
    BY <1>1, <2>1
  <2>4. On' = On
    BY <2>2 DEF On
  <2>5. \A q \in Post : post[q] = "due" => post'[q] # "publishing"
    BY <1>1, <2>1
  <2>6. \A run \in loop.runs : post'[run.post] = post[run.post]
    BY <1>1, <2>1
  <2> QED
    BY <1>1, <1>2, <2>2, <2>3, <2>4, <2>5, <2>6, TickAround
<1>6. CASE ReadBegins \/ ListFails
  <2>1. /\ UNCHANGED <<settings, post>> /\ wasOn' = On
        /\ \/ loop' = [NoLoop EXCEPT !.pc = "read"]
           \/ loop' = [NoLoop EXCEPT !.pc = "reap"] /\ blind' = Workspace
    BY <1>6 DEF ReadBegins, ListFails, Frame
  <2> QED
    BY <1>1, <1>2, <2>1, RoundBegins
<1>7. CASE ReadSettings
  <2> DEFINE w == Spaces[Len(loop.read) + 1]
  <2>1. /\ loop.pc = "read" /\ Reads(settings[w]) /\ UNCHANGED <<settings, post, wasOn, blind>>
    BY <1>7 DEF ReadSettings, Frame
  <2>2. w \in Workspace
    BY <1>1, <2>1 DEF PolicyInv, TickAssumption
  <2>3. settings[w] \in Settings /\ (settings[w].on => w \in wasOn)
    BY <1>1, <2>2 DEF On
  <2> QED
    BY <1>1, <1>2, <2>1, <2>3, ReadStep
<1>8. CASE ReadFails
  <2>1. /\ loop.pc = "read" /\ Reads(Defaults) /\ UNCHANGED <<settings, post, wasOn>>
        /\ blind' = blind \cup {Spaces[Len(loop.read) + 1]}
    BY <1>8 DEF ReadFails, Frame
  <2> QED
    BY <1>1, <1>2, <2>1, ReadStep
\* With no batch under way.
<1>9. ASSUME loop.pc \in {"reap", "claim"}, NEW S \in SUBSET Post, NEW pc \in {"claim", "drain"},
             post' = [p \in Post |-> IF p \in S THEN "due" ELSE post[p]],
             loop' = [loop EXCEPT !.pc = pc], UNCHANGED <<settings, wasOn, blind>>
      PROVE  TickInv' /\ RunOnlyIfOn
  <2>1. loop.queue = <<>> /\ loop.runs = {}
    BY <1>9 DEF BatchInv
  <2>2. loop' = LoopWith(pc, <<>>, {})
    BY <1>1, <1>9, <2>1 DEF LoopWith
  <2>3. post' \in [Post -> {"scheduled", "due", "publishing", "settled"}]
    BY <1>1, <1>9
  <2>4. \A q \in Post : post[q] = "due" => post'[q] # "publishing"
    BY <1>1, <1>9
  <2> QED
    <3>1. DOMAIN <<>> = {} /\ \A q \in Post : q \in Post
      OBVIOUS
    <3>2. TickInv'
      BY <1>9, <2>2, <2>3, <3>1, NoLoopIs, LoopGoesOn
    <3> QED
      BY <1>2, <2>4, <3>2
<1>10. CASE Reap
  <2>1. PICK S \in SUBSET {p \in Post : post[p] = "publishing"} :
          post' = [p \in Post |-> IF p \in S THEN "due" ELSE post[p]]
    BY <1>10 DEF Reap
  <2>2. loop.pc = "reap" /\ loop' = [loop EXCEPT !.pc = "claim"] /\ UNCHANGED <<settings, wasOn, blind>>
    BY <1>10 DEF Reap, Frame
  <2>3. S \in SUBSET Post
    OBVIOUS
  <2> HIDE <1>10
  <2> QED
    BY <1>9, <2>1, <2>2, <2>3
<1>11. CASE Claim
  <2> DEFINE S == IF loop.policy.enabled = {} THEN {} ELSE First({p \in Post : Ready(p)})
  <2>1. /\ post' = [p \in Post |-> IF p \in S THEN "due" ELSE post[p]]
        /\ loop.pc = "claim" /\ loop' = [loop EXCEPT !.pc = "drain"] /\ UNCHANGED <<settings, wasOn, blind>>
    BY <1>11 DEF Claim, Frame
  <2>2. S \in SUBSET Post
    BY DEF First
  <2> HIDE DEF S
  <2> QED
    BY <1>9, <2>1, <2>2
<1>12. CASE Drain
  <2> DEFINE S == Runnable(First({p \in Post : post[p] = "due"}))
  <2>1. PICK q \in InOrder(S) : loop' = [loop EXCEPT !.pc = "run", !.queue = q]
    BY <1>12 DEF Drain
  <2>2. loop.pc = "drain" /\ UNCHANGED <<settings, post, wasOn, blind>>
    BY <1>12 DEF Drain, Frame
  <2>3. S \in SUBSET Post /\ \A p \in S : SpaceOf[p] \in loop.policy.enabled
    BY DEF Runnable, First
  <2> HIDE DEF S
  <2>4. q \in Seq(Post) /\ \A i \in DOMAIN q : q[i] \in S
    BY <2>3, InOrderIsOfThem
  <2>5. loop' = LoopWith("run", q, loop.runs)
    BY <1>1, <2>1 DEF LoopWith
  <2> QED
    BY <1>1, <1>2, <2>2, <2>3, <2>4, <2>5, LoopGoesOn
<1>13. CASE Spawn
  <2> DEFINE p == Head(loop.queue)
             run == [post |-> p, with |-> settings[SpaceOf[p]]]
  <2>1. /\ loop.pc = "run" /\ loop.queue # <<>> /\ UNCHANGED <<settings, wasOn, blind>>
        /\ IF post[p] = "due"
           THEN /\ post' = [post EXCEPT ![p] = "publishing"]
                /\ loop' = [loop EXCEPT !.queue = Tail(@), !.runs = @ \cup {run}]
           ELSE UNCHANGED post /\ loop' = [loop EXCEPT !.queue = Tail(@)]
    BY <1>13 DEF Spawn, Frame
  <2>2. /\ p \in Post /\ p = loop.queue[1] /\ 1 \in DOMAIN loop.queue
        /\ Tail(loop.queue) \in Seq(Post)
        /\ \A i \in DOMAIN Tail(loop.queue) : i + 1 \in DOMAIN loop.queue /\ Tail(loop.queue)[i] = loop.queue[i + 1]
    BY <1>1, <2>1, HeadTailProperties, LenProperties, ElementOfSeq
  <2>3. \A i \in DOMAIN Tail(loop.queue) : SpaceOf[Tail(loop.queue)[i]] \in loop.policy.enabled
    BY <2>2 DEF PolicyInv
  <2>4. SpaceOf[p] \in wasOn \cup blind
    BY <2>1, <2>2 DEF PolicyInv
  <2> HIDE DEF p
  <2>5. CASE post[p] = "due"
    <3>1. /\ post' \in [Post -> {"scheduled", "due", "publishing", "settled"}]
          /\ post'[p] = "publishing" /\ \A q \in Post : q # p => post'[q] = post[q]
      BY <1>1, <2>1, <2>2, <2>5
    <3>2. RunOnlyIfOn
      BY <2>4, <3>1 DEF RunOnlyIfOn
    <3>3. \A r \in loop.runs \cup {run} : r.post \in Post /\ post'[r.post] \in {"publishing", "settled"}
      BY <1>1, <2>2, <3>1
    <3>4. loop' = LoopWith("run", Tail(loop.queue), loop.runs \cup {run})
      BY <1>1, <2>1, <2>5 DEF LoopWith
    <3> HIDE DEF run
    <3> QED
      BY <2>1, <2>2, <2>3, <3>1, <3>2, <3>3, <3>4, LoopGoesOn
  <2>6. CASE post[p] # "due"
    <3>1. loop' = LoopWith("run", Tail(loop.queue), loop.runs) /\ UNCHANGED post
      BY <1>1, <2>1, <2>6 DEF LoopWith
    <3> QED
      BY <1>1, <1>2, <2>1, <2>2, <2>3, <3>1, LoopGoesOn
  <2> QED
    BY <2>5, <2>6
<1>14. CASE RunEnds
  <2>1. PICK run \in loop.runs, verdict \in {"settled", "publishing"} :
          /\ post' = [post EXCEPT ![run.post] = verdict]
          /\ loop' = [loop EXCEPT !.runs = @ \ {run}]
    BY <1>14 DEF RunEnds
  <2>2. UNCHANGED <<settings, wasOn, blind>>
    BY <1>14 DEF RunEnds, Frame
  <2>3. /\ loop.pc = "run" /\ run.post \in Post /\ post[run.post] \in {"publishing", "settled"}
    BY <1>1, <2>1 DEF BatchInv
  <2>4. /\ post' \in [Post -> {"scheduled", "due", "publishing", "settled"}]
        /\ post'[run.post] = verdict /\ \A q \in Post : q # run.post => post'[q] = post[q]
    BY <1>1, <2>1, <2>3
  <2>5. \A r \in loop.runs \ {run} : r.post \in Post /\ post'[r.post] \in {"publishing", "settled"}
    BY <1>1, <2>4
  <2>6. loop' = LoopWith("run", loop.queue, loop.runs \ {run})
    BY <1>1, <2>1, <2>3 DEF LoopWith
  <2>7. \A q \in Post : post[q] = "due" => post'[q] # "publishing"
    BY <2>3, <2>4
  <2>8. \A i \in DOMAIN loop.queue : SpaceOf[loop.queue[i]] \in loop.policy.enabled
    BY DEF PolicyInv
  <2> QED
    BY <1>1, <1>2, <2>2, <2>3, <2>4, <2>5, <2>6, <2>7, <2>8, LoopGoesOn
<1>15. CASE BatchEnds
  <2>1. /\ loop.pc = "run" /\ loop.queue = <<>> /\ loop.runs = {}
        /\ loop' = [loop EXCEPT !.pc = "list"] /\ UNCHANGED <<settings, post, wasOn, blind>>
    BY <1>15 DEF BatchEnds, Frame
  <2>2. loop' = LoopWith("list", <<>>, {})
    BY <1>1, <2>1 DEF LoopWith
  <2> QED
    <3>1. DOMAIN <<>> = {}
      OBVIOUS
    <3>2. TickInv'
      BY <1>1, <2>1, <2>2, <3>1, NoLoopIs, LoopGoesOn
    <3> QED
      BY <1>1, <1>2, <2>1, <3>2
<1> QED
  BY <1>3, <1>4, <1>5, <1>6, <1>7, <1>8, <1>10, <1>11, <1>12, <1>13, <1>14, <1>15
     DEF Next, LoopStep

LEMMA TickInit == Init => TickInv
<1> SUFFICES ASSUME Init PROVE TickInv
  OBVIOUS
<1>1. /\ loop = NoLoop /\ post = [p \in Post |-> "scheduled"] /\ wasOn = On
      /\ settings \in [Workspace -> Settings]
  BY DEF Init
<1> QED
  BY <1>1, NoLoopIs DEF TickInv, LoopTypes, BatchInv, PolicyInv

\* A post of a workspace that is off, and was when the round began to read, is not run, unless
\* the round could not read its settings.
THEOREM HeldPostIsNotRun ==
  ASSUME TickAssumption
  PROVE  Spec => HeldIsNotRun
<1>1. Init => TickInv
  BY TickInit
<1>2. TickInv /\ [Next]_vars => TickInv'
  BY TickNext
<1>3. TickInv /\ [Next]_vars => [RunOnlyIfOn]_vars
  BY TickNext
<1> QED
  BY <1>1, <1>2, <1>3, PTL DEF Spec, HeldIsNotRun

-----------------------------------------------------------------------------
(* Induction on numbers, from the order on them being well founded.         *)

\* A set of numbers that is not empty has a smallest.
LEMMA Least ==
  ASSUME NEW T \in SUBSET Nat, T # {}
  PROVE  \E m \in T : \A k \in T : m <= k
<1>1. PICK m \in T : \A k \in T : ~(<<k, m>> \in OpToRel(<, Nat))
  BY NatLessThanWellFounded, WFMin
<1>2. \A k \in T : ~(k < m)
  BY <1>1 DEF OpToRel
<1> QED
  BY <1>2

\* What holds of 0, and of n + 1 if it holds of n, holds of every number.
LEMMA NumbersFollow ==
  ASSUME NEW S, 0 \in S, \A n \in Nat : n \in S => n + 1 \in S
  PROVE  Nat \subseteq S
<1> SUFFICES ASSUME Nat \ S # {} PROVE FALSE
  OBVIOUS
<1>1. PICK m \in Nat \ S : \A k \in Nat \ S : m <= k
  BY Least
<1>2. m - 1 \in Nat /\ m - 1 \in S
  BY <1>1
<1>3. (m - 1) + 1 \in S
  BY <1>2
<1> QED
  BY <1>1, <1>3

\* A step can be repeated any number of times.
Repeats(f, S, first, stepping) == f \in [Nat -> S] /\ f[0] = first /\ \A n \in Nat : f[n + 1] = stepping[f[n]]

LEMMA StepsRepeat ==
  ASSUME NEW S, NEW first \in S, NEW stepping \in [S -> S]
  PROVE  \E f : Repeats(f, S, first, stepping)
<1> DEFINE Begins(g, k) == g \in [0..k -> S] /\ g[0] = first /\ \A n \in 0..(k - 1) : g[n + 1] = stepping[g[n]]
           Long == {k \in Nat : \E g \in [0..k -> S] : Begins(g, k)}
           Alike == {k \in Nat : \A m \in Nat : \A g \in [0..m -> S], h \in [0..k -> S] :
                                   k <= m /\ Begins(g, m) /\ Begins(h, k) => g[k] = h[k]}
           G(k) == CHOOSE g : Begins(g, k)
<1>1. 0 \in Long
  <2>1. [n \in 0..0 |-> first] \in [0..0 -> S]
    OBVIOUS
  <2>2. Begins([n \in 0..0 |-> first], 0)
    BY <2>1
  <2> QED
    BY <2>1, <2>2
<1>2. ASSUME NEW k \in Nat, k \in Long PROVE k + 1 \in Long
  <2>1. PICK g \in [0..k -> S] : Begins(g, k)
    BY <1>2
  <2> DEFINE h == [n \in 0..(k + 1) |-> IF n = k + 1 THEN stepping[g[k]] ELSE g[n]]
  <2>2. h \in [0..(k + 1) -> S]
    BY <2>1
  <2>3. h[0] = first
    BY <2>1
  <2>4. ASSUME NEW n \in 0..k PROVE h[n + 1] = stepping[h[n]]
    <3>1. h[n] = g[n]
      BY <2>4
    <3>2. CASE n = k
      BY <3>1, <3>2
    <3>3. CASE n # k
      <4>1. n \in 0..(k - 1) /\ n + 1 \in 0..(k + 1) /\ n + 1 # k + 1
        BY <3>3
      <4>2. h[n + 1] = g[n + 1] /\ g[n + 1] = stepping[g[n]]
        BY <4>1, <2>1
      <4> QED
        BY <4>2, <3>1
    <3> QED
      BY <3>2, <3>3
  <2>5. 0..((k + 1) - 1) = 0..k
    OBVIOUS
  <2> HIDE DEF h
  <2>6. Begins(h, k + 1)
    BY <2>2, <2>3, <2>4, <2>5
  <2> QED
    BY <2>2, <2>6
<1> HIDE DEF Begins
<1>3. Nat \subseteq Long
  BY <1>1, <1>2, NumbersFollow
<1>4. \A k \in Nat : Begins(G(k), k)
  BY <1>3
<1> HIDE DEF G
<1>5. \A k \in Nat : G(k)[k] \in S
  BY <1>4 DEF Begins
<1>6. \A k \in Nat : \A g \in [0..(k + 1) -> S] : Begins(g, k + 1) => Begins([n \in 0..k |-> g[n]], k)
  <2> SUFFICES ASSUME NEW k \in Nat, NEW g \in [0..(k + 1) -> S], Begins(g, k + 1)
               PROVE  Begins([n \in 0..k |-> g[n]], k)
    OBVIOUS
  <2>1. [n \in 0..k |-> g[n]] \in [0..k -> S]
    OBVIOUS
  <2>2. \A n \in 0..(k - 1) : n \in 0..((k + 1) - 1) /\ n \in 0..k /\ n + 1 \in 0..k
    OBVIOUS
  <2> QED
    BY <2>1, <2>2 DEF Begins
\* Two beginnings agree as far as the shorter goes.
<1>7. 0 \in Alike
  BY DEF Begins
<1>8. ASSUME NEW k \in Nat, k \in Alike PROVE k + 1 \in Alike
  <2> SUFFICES ASSUME NEW m \in Nat, NEW g \in [0..m -> S], NEW h \in [0..(k + 1) -> S],
                      k + 1 <= m, Begins(g, m), Begins(h, k + 1)
               PROVE  g[k + 1] = h[k + 1]
    OBVIOUS
  <2> DEFINE i == [n \in 0..k |-> h[n]]
  <2>1. Begins(i, k) /\ i \in [0..k -> S]
    BY <1>6
  <2>2. g[k] = i[k] /\ i[k] = h[k]
    BY <2>1, <1>8
  <2>3. k \in 0..(m - 1) /\ k \in 0..((k + 1) - 1)
    OBVIOUS
  <2>4. g[k + 1] = stepping[g[k]] /\ h[k + 1] = stepping[h[k]]
    BY <2>3 DEF Begins
  <2> QED
    BY <2>2, <2>4
<1>9. Nat \subseteq Alike
  <2> HIDE DEF Alike
  <2> QED
    BY <1>7, <1>8, NumbersFollow
<1> DEFINE f == [k \in Nat |-> G(k)[k]]
<1>10. f \in [Nat -> S]
  BY <1>5
<1>11. f[0] = first
  BY <1>4 DEF Begins
<1>12. ASSUME NEW n \in Nat PROVE f[n + 1] = stepping[f[n]]
  <2>1. Begins(G(n), n) /\ Begins(G(n + 1), n + 1)
    BY <1>4
  <2>2. G(n) \in [0..n -> S] /\ G(n + 1) \in [0..(n + 1) -> S]
    BY <2>1 DEF Begins
  <2>3. G(n + 1)[n] = G(n)[n]
    BY <1>9, <2>1, <2>2
  <2>4. n \in 0..((n + 1) - 1)
    OBVIOUS
  <2>5. G(n + 1)[n + 1] = stepping[G(n + 1)[n]]
    BY <2>1, <2>4 DEF Begins
  <2> QED
    BY <2>3, <2>5
<1> QED
  BY <1>10, <1>11, <1>12 DEF Repeats

\* Numbers can be added up.
Adds(f, d) == f \in [Nat -> Nat] /\ f[0] = 0 /\ \A n \in Nat : f[n + 1] = f[n] + d[n]

LEMMA SumsExist ==
  ASSUME NEW d \in [Nat -> Nat]
  PROVE  \E f : Adds(f, d)
<1> DEFINE S == Nat \X Nat
           stepping == [c \in S |-> <<c[1] + 1, c[2] + d[c[1]]>>]
<1>1. <<0, 0>> \in S /\ stepping \in [S -> S]
  OBVIOUS
<1> HIDE DEF stepping
<1>2. PICK h : Repeats(h, S, <<0, 0>>, stepping)
  BY <1>1, StepsRepeat
<1>3. \A n \in Nat : h[n] \in S /\ h[n + 1] = <<h[n][1] + 1, h[n][2] + d[h[n][1]]>>
  <2>1. \A n \in Nat : h[n] \in S /\ h[n + 1] = stepping[h[n]]
    BY <1>2 DEF Repeats
  <2> QED
    BY <2>1 DEF stepping
<1> DEFINE Counted == {n \in Nat : h[n][1] = n}
<1>4. Nat \subseteq Counted
  <2>1. 0 \in Counted
    BY <1>2 DEF Repeats
  <2>2. \A n \in Nat : n \in Counted => n + 1 \in Counted
    <3> SUFFICES ASSUME NEW n \in Nat, h[n][1] = n PROVE h[n + 1][1] = n + 1
      OBVIOUS
    <3> QED
      BY <1>3
  <2> HIDE DEF Counted
  <2> QED
    BY <2>1, <2>2, NumbersFollow
<1> DEFINE f == [n \in Nat |-> h[n][2]]
<1>5. f \in [Nat -> Nat]
  BY <1>3
<1>6. f[0] = 0
  BY <1>2 DEF Repeats
<1>7. ASSUME NEW n \in Nat PROVE f[n + 1] = f[n] + d[n]
  <2>1. h[n + 1] = <<h[n][1] + 1, h[n][2] + d[h[n][1]]>> /\ h[n][1] = n
    BY <1>3, <1>4
  <2>2. n + 1 \in Nat /\ h[n + 1][2] = h[n][2] + d[n]
    BY <2>1
  <2> QED
    BY <2>2
<1> QED
  BY <1>5, <1>6, <1>7 DEF Adds

\* A sum does not fall.
LEMMA SumsGrow ==
  ASSUME NEW d \in [Nat -> Nat], NEW f, Adds(f, d), NEW n \in Nat, NEW m \in Nat, n <= m
  PROVE  f[n] <= f[m]
<1> DEFINE Grown == {k \in Nat : f[n] <= f[n + k]}
<1>1. \A k \in Nat : f[k] \in Nat /\ f[k] <= f[k + 1]
  BY DEF Adds
<1>2. 0 \in Grown
  BY <1>1
<1>3. \A k \in Nat : k \in Grown => k + 1 \in Grown
  <2> SUFFICES ASSUME NEW k \in Nat, f[n] <= f[n + k] PROVE f[n] <= f[n + (k + 1)]
    OBVIOUS
  <2>1. n + k \in Nat /\ n + (k + 1) = (n + k) + 1 /\ n + (k + 1) \in Nat
    OBVIOUS
  <2>2. f[n + k] <= f[n + (k + 1)]
    BY <1>1, <2>1
  <2> QED
    BY <1>1, <2>1, <2>2
<1> HIDE DEF Grown
<1>4. Nat \subseteq Grown
  BY <1>2, <1>3, NumbersFollow
<1>5. m - n \in Nat /\ n + (m - n) = m
  OBVIOUS
<1> QED
  BY <1>4, <1>5 DEF Grown

\* A sum that is written as a recursion.
LEMMA UnrolledAdds ==
  ASSUME NEW d \in [Nat -> Nat], NEW g, g = [n \in Nat |-> IF n = 0 THEN 0 ELSE g[n - 1] + d[n - 1]]
  PROVE  Adds(g, d)
<1>1. g[0] = 0 /\ \A n \in Nat : g[n + 1] = g[n] + d[n]
  <2>1. \A n \in Nat : n + 1 \in Nat /\ n + 1 # 0 /\ (n + 1) - 1 = n
    OBVIOUS
  <2> QED
    BY <2>1
<1> DEFINE Good == {n \in Nat : g[n] \in Nat}
<1>2. 0 \in Good /\ \A n \in Nat : n \in Good => n + 1 \in Good
  BY <1>1
<1> HIDE DEF Good
<1>3. Nat \subseteq Good
  BY <1>2, NumbersFollow
<1>4. \A n \in Nat : g[n] \in Nat
  BY <1>3 DEF Good
<1>5. g \in [Nat -> Nat]
  <2>1. g = [n \in Nat |-> g[n]]
    OBVIOUS
  <2> QED
    BY <1>4, <2>1
<1> QED
  BY <1>1, <1>5 DEF Adds

\* Of finitely many numbers one is the largest.
LEMMA MostOfMany ==
  ASSUME NEW n \in Nat, NEW f \in [1..n + 1 -> Int]
  PROVE  \E i \in 1..n + 1 : \A j \in 1..n + 1 : f[i] >= f[j]
<1> DEFINE Top(k) == \E i \in 1..k + 1 : \A j \in 1..k + 1 : f[i] >= f[j]
           Has == {k \in Nat : k <= n => Top(k)}
<1>1. Top(0)
  <2>1. 1 \in 1..0 + 1 /\ \A j \in 1..0 + 1 : j = 1
    OBVIOUS
  <2>2. f[1] \in Int
    OBVIOUS
  <2> QED
    BY <2>1, <2>2
<1>2. ASSUME NEW k \in Nat, Top(k), k + 1 <= n PROVE Top(k + 1)
  <2>1. PICK i \in 1..k + 1 : \A j \in 1..k + 1 : f[i] >= f[j]
    BY <1>2
  <2>2. \A j \in 1..(k + 1) + 1 : f[j] \in Int /\ (j = (k + 1) + 1 \/ j \in 1..k + 1)
    BY <1>2
  <2>3. i \in 1..(k + 1) + 1 /\ (k + 1) + 1 \in 1..(k + 1) + 1
    OBVIOUS
  <2>4. CASE f[i] >= f[(k + 1) + 1]
    BY <2>1, <2>2, <2>3, <2>4
  <2>5. CASE ~(f[i] >= f[(k + 1) + 1])
    <3>1. \A j \in 1..k + 1 : f[(k + 1) + 1] >= f[j]
      BY <2>1, <2>2, <2>3, <2>5
    <3> DEFINE last == (k + 1) + 1
    <3>2. last \in 1..(k + 1) + 1 /\ \A j \in 1..(k + 1) + 1 : f[last] >= f[j]
      BY <2>2, <2>3, <3>1
    <3> HIDE DEF last
    <3> QED
      BY <3>2
  <2> QED
    BY <2>4, <2>5
<1> HIDE DEF Top
<1>3. 0 \in Has /\ \A k \in Nat : k \in Has => k + 1 \in Has
  BY <1>1, <1>2
<1> HIDE DEF Has
<1>4. n \in Has
  BY <1>3, NumbersFollow
<1> QED
  BY <1>4 DEF Has, Top

-----------------------------------------------------------------------------
(* The lease (TickPolicy).                                                  *)

LEMMA DoubledIs == Doubled \in [Nat -> Nat]
<1> DEFINE stepping == [n \in Nat |-> 2 * n]
<1>1. stepping \in [Nat -> Nat] /\ 1 \in Nat
  OBVIOUS
<1>2. PICK f : Repeats(f, Nat, 1, stepping)
  BY <1>1, StepsRepeat
<1> DEFINE Unrolled(h) == [n \in Nat |-> IF n = 0 THEN 1 ELSE 2 * h[n - 1]]
<1>3. f = Unrolled(f)
  <2>1. \A n \in Nat : n # 0 => n - 1 \in Nat /\ (n - 1) + 1 = n
    OBVIOUS
  <2>2. \A n \in Nat : f[n + 1] = 2 * f[n] /\ f[0] = 1
    BY <1>2 DEF Repeats
  <2>3. \A n \in Nat : f[n] = IF n = 0 THEN 1 ELSE 2 * f[n - 1]
    BY <2>1, <2>2
  <2> QED
    BY <1>2, <2>3 DEF Repeats
<1> DEFINE g == Doubled
<1>4. g = CHOOSE h : h = Unrolled(h)
  BY DEF Doubled
<1>5. g = Unrolled(g)
  BY <1>3, <1>4
<1> HIDE DEF g
<1>6. g = [n \in Nat |-> IF n = 0 THEN 1 ELSE 2 * g[n - 1]]
  BY <1>5
<1> DEFINE Good == {n \in Nat : g[n] \in Nat}
<1>7. g[0] = 1 /\ \A n \in Nat : g[n + 1] = 2 * g[n]
  <2>1. \A n \in Nat : n + 1 \in Nat /\ n + 1 # 0 /\ (n + 1) - 1 = n
    OBVIOUS
  <2> QED
    BY <1>6, <2>1
<1>8. 0 \in Good /\ \A n \in Nat : n \in Good => n + 1 \in Good
  BY <1>7
<1> HIDE DEF Good
<1>9. Nat \subseteq Good
  BY <1>8, NumbersFollow
<1>10. g \in [Nat -> Nat]
  <2>1. \A n \in Nat : g[n] \in Nat
    BY <1>9 DEF Good
  <2>2. g = [n \in Nat |-> g[n]]
    BY <1>6
  <2> QED
    BY <2>1, <2>2
<1> QED
  BY <1>10 DEF g

LEMMA BackoffIs ==
  ASSUME NEW n \in Nat, NEW base \in Nat
  PROVE  Backoff(n, base) \in Nat
<1>1. CASE n = 0
  BY <1>1 DEF Backoff
<1>2. CASE n # 0
  <2> DEFINE k == IF n - 1 < 16 THEN n - 1 ELSE 16
  <2>1. k \in Nat
    BY <1>2
  <2>2. Doubled[k] \in Nat
    BY <2>1, DoubledIs
  <2>3. Backoff(n, base) = base * Doubled[k]
    BY <1>2 DEF Backoff
  <2> HIDE DEF k
  <2> QED
    BY <2>2, <2>3
<1> QED
  BY <1>1, <1>2

\* What the sums of a run are.
Sleep(base) == [n \in Nat |-> Backoff(n, base)]
Turn(base) == [n \in Nat |-> IF n = 0 THEN 0 ELSE Allowance + Backoff(n, base)]

LEMMA SleptAdds ==
  ASSUME NEW base \in Nat
  PROVE  Sleep(base) \in [Nat -> Nat] /\ Adds(Slept(base), Sleep(base))
<1> DEFINE d == Sleep(base)
<1>1. d \in [Nat -> Nat] /\ \A n \in Nat : d[n] = Backoff(n, base)
  BY BackoffIs DEF Sleep
<1> HIDE DEF d
<1>2. PICK f : Adds(f, d)
  BY <1>1, SumsExist
<1> DEFINE Unrolled(h) == [n \in Nat |-> IF n = 0 THEN 0 ELSE h[n - 1] + Backoff(n - 1, base)]
<1>3. f = Unrolled(f)
  <2>1. \A n \in Nat : n # 0 => n - 1 \in Nat /\ (n - 1) + 1 = n
    OBVIOUS
  <2>2. \A n \in Nat : f[n] = IF n = 0 THEN 0 ELSE f[n - 1] + Backoff(n - 1, base)
    BY <1>1, <1>2, <2>1 DEF Adds
  <2> QED
    BY <1>2, <2>2 DEF Adds
<1> DEFINE g == Slept(base)
<1>4. g = CHOOSE h : h = Unrolled(h)
  BY DEF Slept
<1>5. g = Unrolled(g)
  BY <1>3, <1>4
<1> HIDE DEF g
<1>6. g = [n \in Nat |-> IF n = 0 THEN 0 ELSE g[n - 1] + d[n - 1]]
  <2>1. g = [n \in Nat |-> IF n = 0 THEN 0 ELSE g[n - 1] + Backoff(n - 1, base)]
    BY <1>5
  <2>2. \A n \in Nat : n # 0 => n - 1 \in Nat
    OBVIOUS
  <2> QED
    BY <1>1, <2>1, <2>2
<1> QED
  BY <1>1, <1>6, UnrolledAdds DEF g, d

LEMMA CalledAdds ==
  ASSUME LeaseAssumption, NEW base \in Nat
  PROVE  Turn(base) \in [Nat -> Nat] /\ Adds(Called(base), Turn(base))
<1> DEFINE d == Turn(base)
<1>1. d \in [Nat -> Nat] /\ \A n \in Nat : d[n] = IF n = 0 THEN 0 ELSE Allowance + Backoff(n, base)
  BY BackoffIs DEF Turn, LeaseAssumption
<1> HIDE DEF d
<1>2. PICK f : Adds(f, d)
  BY <1>1, SumsExist
<1> DEFINE Unrolled(h) == [n \in Nat |-> IF n <= 1 THEN 0 ELSE h[n - 1] + (Allowance + Backoff(n - 1, base))]
<1>3. f = Unrolled(f)
  <2>1. \A n \in Nat : n # 0 => n - 1 \in Nat /\ (n - 1) + 1 = n
    OBVIOUS
  <2>2. f[0] = 0 /\ f[1] = 0
    <3>1. f[0 + 1] = f[0] + d[0] /\ d[0] = 0 /\ f[0] = 0
      BY <1>1, <1>2 DEF Adds
    <3> QED
      BY <3>1
  <2>3. \A n \in Nat : f[n] = IF n <= 1 THEN 0 ELSE f[n - 1] + (Allowance + Backoff(n - 1, base))
    <3> SUFFICES ASSUME NEW n \in Nat, ~(n <= 1) PROVE f[n] = f[n - 1] + (Allowance + Backoff(n - 1, base))
      BY <2>2
    <3>1. n - 1 \in Nat /\ n - 1 # 0 /\ (n - 1) + 1 = n
      OBVIOUS
    <3>2. f[n] = f[n - 1] + d[n - 1] /\ d[n - 1] = Allowance + Backoff(n - 1, base) /\ f[n - 1] \in Nat
      BY <1>1, <1>2, <3>1 DEF Adds
    <3>3. Backoff(n - 1, base) \in Nat /\ Allowance \in Nat
      BY <3>1, BackoffIs DEF LeaseAssumption
    <3> QED
      BY <3>2, <3>3
  <2> QED
    BY <1>2, <2>3 DEF Adds
<1> DEFINE g == Called(base)
<1>4. g = CHOOSE h : h = Unrolled(h)
  BY DEF Called
<1>5. g = Unrolled(g)
  BY <1>3, <1>4
<1> HIDE DEF g
<1>6. g = [n \in Nat |-> IF n <= 1 THEN 0 ELSE g[n - 1] + (Allowance + Backoff(n - 1, base))]
  BY <1>5
<1>7. g = [n \in Nat |-> IF n = 0 THEN 0 ELSE g[n - 1] + d[n - 1]]
  <2>1. g[0] = 0 /\ g[1] = 0
    BY <1>6
  <2>2. \A n \in Nat : g[n] = IF n = 0 THEN 0 ELSE g[n - 1] + d[n - 1]
    <3> SUFFICES ASSUME NEW n \in Nat, n # 0 PROVE g[n] = g[n - 1] + d[n - 1]
      BY <2>1
    <3>1. CASE n = 1
      <4>1. n - 1 = 0 /\ d[0] = 0
        BY <1>1, <3>1
      <4> QED
        BY <2>1, <3>1, <4>1
    <3>2. CASE n # 1
      <4>1. n - 1 \in Nat /\ n - 1 # 0 /\ ~(n <= 1)
        BY <3>2
      <4>2. g[n] = g[n - 1] + (Allowance + Backoff(n - 1, base))
        BY <1>6, <4>1
      <4>3. d[n - 1] = Allowance + Backoff(n - 1, base) /\ Backoff(n - 1, base) \in Nat /\ Allowance \in Nat
        BY <1>1, <4>1, BackoffIs DEF LeaseAssumption
      <4> QED
        BY <4>2, <4>3
    <3> QED
      BY <3>1, <3>2
  <2> QED
    BY <1>6, <2>2
<1> QED
  BY <1>1, <1>7, UnrolledAdds DEF g, d

\* When the n-th call begins: n - 1 calls and the sleeps between n have passed.
LEMMA CalledIs ==
  ASSUME LeaseAssumption, NEW base \in Nat, NEW n \in Nat
  PROVE  Called(base)[n + 1] = Slept(base)[n + 1] + n * Allowance
<1> DEFINE called == Called(base)
           slept == Slept(base)
           Same == {k \in Nat : called[k + 1] = slept[k + 1] + k * Allowance}
<1>0. Allowance \in Nat
  BY DEF LeaseAssumption
<1>1. /\ called \in [Nat -> Nat] /\ called[0] = 0
      /\ \A k \in Nat : called[k + 1] = called[k] + IF k = 0 THEN 0 ELSE Allowance + Backoff(k, base)
  BY CalledAdds DEF Adds, Turn
<1>2. slept \in [Nat -> Nat] /\ slept[0] = 0 /\ \A k \in Nat : slept[k + 1] = slept[k] + Backoff(k, base)
  BY SleptAdds DEF Adds, Sleep
<1> HIDE DEF called, slept
<1>3. 0 \in Same
  <2>1. Backoff(0, base) = 0
    BY DEF Backoff
  <2>2. called[0 + 1] = 0 /\ slept[0 + 1] = 0
    BY <1>1, <1>2, <2>1
  <2> QED
    BY <1>0, <2>2
<1>4. \A k \in Nat : k \in Same => k + 1 \in Same
  <2> SUFFICES ASSUME NEW k \in Nat, called[k + 1] = slept[k + 1] + k * Allowance
               PROVE  called[(k + 1) + 1] = slept[(k + 1) + 1] + (k + 1) * Allowance
    OBVIOUS
  <2>1. k + 1 \in Nat /\ k + 1 # 0 /\ (k + 1) + 1 \in Nat
    OBVIOUS
  <2>2. Backoff(k + 1, base) \in Nat
    BY <2>1, BackoffIs
  <2>3. called[(k + 1) + 1] = called[k + 1] + (Allowance + Backoff(k + 1, base))
    BY <1>1, <2>1
  <2>4. slept[(k + 1) + 1] = slept[k + 1] + Backoff(k + 1, base)
    BY <1>2, <2>1
  <2>5. (k + 1) * Allowance = k * Allowance + Allowance /\ k * Allowance \in Nat
    BY <1>0
  <2>6. slept[k + 1] \in Nat
    BY <1>2, <2>1
  <2> HIDE DEF Same
  <2> QED
    BY <1>0, <2>2, <2>3, <2>4, <2>5, <2>6
<1> HIDE DEF Same
<1>5. n \in Same
  BY <1>3, <1>4, NumbersFollow
<1> QED
  BY <1>5 DEF Same, called, slept

\* The lease for some settings outlasts a run with them.
LEMMA LeaseIsEnough ==
  ASSUME LeaseAssumption, NEW s \in Settings \cup {Defaults}
  PROVE  /\ Lease(s) \in Nat
         /\ Called(s.base)[s.attempts] + Allowance < Lease(s)
         /\ \A n \in 0..s.attempts - 1 : Silence(s, n) < Lease(s)
<1> DEFINE slept == Slept(s.base)
           talks == s.attempts * Allowance
<1>1. /\ s.base \in Nat /\ s.attempts \in Nat \ {0} /\ s.lease \in Nat
      /\ Allowance \in Nat /\ Margin \in Nat /\ Heartbeat \in Nat /\ Heartbeat < Margin
  BY DEF LeaseAssumption
<1>2. /\ slept \in [Nat -> Nat] /\ \A k \in Nat : slept[k + 1] = slept[k] + Backoff(k, s.base)
      /\ Sleep(s.base) \in [Nat -> Nat] /\ Adds(slept, Sleep(s.base))
  BY <1>1, SleptAdds DEF Adds, Sleep
<1>3. talks \in Nat
  BY <1>1
<1>4. Called(s.base)[s.attempts] + Allowance = slept[s.attempts] + talks
  <2> DEFINE n == s.attempts - 1
  <2>1. n \in Nat /\ n + 1 = s.attempts /\ talks = n * Allowance + Allowance /\ n * Allowance \in Nat
    BY <1>1
  <2>2. Called(s.base)[n + 1] = slept[n + 1] + n * Allowance
    BY <1>1, <2>1, CalledIs
  <2>3. slept[s.attempts] \in Nat
    BY <1>1, <1>2
  <2> HIDE DEF n, slept, talks
  <2> QED
    BY <1>1, <2>1, <2>2, <2>3
<1> DEFINE worst == WorstCase(s) + Margin
<1>5. worst = slept[s.attempts] + talks + Margin /\ slept[s.attempts] \in Nat /\ worst \in Nat
  BY <1>1, <1>2, <1>3 DEF WorstCase
<1>6. Lease(s) \in Nat /\ Lease(s) >= worst
  <2>1. Lease(s) = CHOOSE x \in {s.lease, worst} : \A y \in {s.lease, worst} : x >= y
    BY DEF Lease, Max
  <2> HIDE DEF worst
  <2>2. \E x \in {s.lease, worst} : \A y \in {s.lease, worst} : x >= y
    BY <1>1, <1>5
  <2> QED
    BY <1>1, <1>5, <2>1, <2>2
<1>7. ASSUME NEW n \in 0..s.attempts - 1 PROVE Silence(s, n) < Lease(s)
  <2>1. n \in Nat /\ n + 1 \in Nat /\ n + 1 <= s.attempts /\ s.attempts \in Nat
    BY <1>1
  <2>2. slept[n + 1] <= slept[s.attempts]
    BY <1>2, <2>1, SumsGrow
  <2>3. slept[n + 1] = slept[n] + Backoff(n, s.base) /\ slept[n] \in Nat /\ Backoff(n, s.base) \in Nat
    BY <1>1, <1>2, <2>1, BackoffIs
  <2> HIDE DEF slept, worst, talks
  <2>4. Silence(s, n) = Heartbeat + Backoff(n, s.base)
    BY DEF Silence
  <2> QED
    BY <1>1, <1>3, <1>5, <1>6, <2>2, <2>3, <2>4
<1> HIDE DEF slept, worst, talks
<1> QED
  BY <1>1, <1>3, <1>4, <1>5, <1>6, <1>7

\* The policy has a lease at least as long as the settings of each workspace it was made of.
LEMMA MergedIsLongest ==
  ASSUME LeaseAssumption, NEW read \in Seq(Settings \cup {Defaults}), NEW i \in DOMAIN read
  PROVE  MergePolicy(read).lease \in Nat /\ Lease(read[i]) <= MergePolicy(read).lease
<1> DEFINE leases == {Lease(read[k]) : k \in DOMAIN read}
           n == Len(read) - 1
           f == [k \in 1..n + 1 |-> Lease(read[k])]
<1>1. Len(read) \in Nat /\ DOMAIN read = 1..Len(read) /\ n \in Nat /\ n + 1 = Len(read)
  OBVIOUS
<1>2. \A k \in DOMAIN read : Lease(read[k]) \in Nat
  <2>1. \A k \in DOMAIN read : read[k] \in Settings \cup {Defaults}
    OBVIOUS
  <2> QED
    BY <2>1, LeaseIsEnough
<1>3. f \in [1..n + 1 -> Int] /\ 1..n + 1 = DOMAIN read
  BY <1>1, <1>2
<1>4. PICK top \in 1..n + 1 : \A k \in 1..n + 1 : f[top] >= f[k]
  <2> HIDE DEF n, f
  <2> QED
    BY <1>1, <1>3, MostOfMany
<1>5. Lease(read[top]) \in leases /\ \A x \in leases : Lease(read[top]) >= x
  BY <1>3, <1>4
<1>6. read # <<>>
  OBVIOUS
<1>7. MergePolicy(read).lease = CHOOSE x \in leases : \A y \in leases : x >= y
  BY <1>6 DEF MergePolicy, Max
<1>8. leases \subseteq Nat /\ Lease(read[i]) \in leases
  BY <1>2
<1> HIDE DEF leases
<1>9. MergePolicy(read).lease \in leases /\ \A y \in leases : MergePolicy(read).lease >= y
  BY <1>5, <1>7
<1> QED
  BY <1>8, <1>9

LEMMA LeaseOutlasts ==
  ASSUME LeaseAssumption, LoopTypes, BatchInv, LeaseInv
  PROVE  LeaseOutlastsRun
<1> SUFFICES ASSUME NEW run \in loop.runs, NEW i \in DOMAIN loop.read, loop.read[i] = run.with
             PROVE  /\ Called(run.with.base)[run.with.attempts] + Allowance < loop.policy.lease
                    /\ \A n \in 0..run.with.attempts - 1 : Silence(run.with, n) < loop.policy.lease
  BY DEF LeaseOutlastsRun
<1> DEFINE s == run.with
<1>1. loop.pc = "run" /\ s \in Settings \cup {Defaults}
  BY DEF BatchInv, LeaseInv
<1>2. loop.read \in Seq(Settings \cup {Defaults}) /\ loop.read # <<>>
  BY DEF LoopTypes
<1>3. loop.policy = MergePolicy(loop.read)
  BY <1>1, <1>2 DEF LeaseInv
<1>4. loop.policy.lease \in Nat /\ Lease(s) <= loop.policy.lease
  BY <1>2, <1>3, MergedIsLongest
<1>5. /\ Lease(s) \in Nat /\ Called(s.base)[s.attempts] + Allowance < Lease(s)
      /\ \A n \in 0..s.attempts - 1 : Silence(s, n) < Lease(s)
  BY <1>1, LeaseIsEnough
<1>6. s.base \in Nat /\ s.attempts \in Nat \ {0} /\ Allowance \in Nat /\ Heartbeat \in Nat
  BY <1>1 DEF LeaseAssumption
<1>7. Called(s.base)[s.attempts] \in Nat
  BY <1>6, CalledAdds DEF Adds
<1>8. \A n \in 0..s.attempts - 1 : Silence(s, n) \in Nat
  <2> SUFFICES ASSUME NEW n \in 0..s.attempts - 1 PROVE Silence(s, n) \in Nat
    OBVIOUS
  <2>1. n \in Nat
    BY <1>6
  <2> HIDE DEF s
  <2>2. Backoff(n, s.base) \in Nat
    BY <1>6, <2>1, BackoffIs
  <2> QED
    BY <1>6, <2>2 DEF Silence
<1> HIDE DEF s
<1> QED
  BY <1>4, <1>5, <1>6, <1>7, <1>8 DEF s

LEMMA LeaseNext ==
  ASSUME TickAssumption, TickInv, LeaseInv, [Next]_vars
  PROVE  LeaseInv'
<1> DEFINE Merged == loop.read = <<>> \/ loop.policy = MergePolicy(loop.read)
<1>1. /\ settings \in [Workspace -> Settings]
      /\ loop = [pc |-> loop.pc, read |-> loop.read, policy |-> loop.policy, queue |-> loop.queue, runs |-> loop.runs]
      /\ loop.pc # "run" => loop.queue = <<>> /\ loop.runs = {}
      /\ loop.read \in Seq(Settings \cup {Defaults}) /\ loop.queue \in Seq(Post)
  BY DEF TickInv, LoopTypes, BatchInv
\* A round that begins has read nothing.
<1>2. ASSUME NEW pc, loop' = [NoLoop EXCEPT !.pc = pc]
      PROVE  LeaseInv'
  <2>1. loop'.read = <<>> /\ loop'.runs = {}
    BY <1>2 DEF NoLoop
  <2> QED
    BY <2>1 DEF LeaseInv
\* Between the reads and the end of the batch the policy stays.
<1>3. ASSUME loop.pc \in {"reap", "claim", "drain", "run"}, UNCHANGED <<loop.read, loop.policy>>,
             \A run \in loop'.runs : run.with \in Settings
      PROVE  LeaseInv'
  BY <1>3 DEF LeaseInv
<1>4. ASSUME loop' = loop PROVE LeaseInv'
  BY <1>4 DEF LeaseInv
<1>5. ASSUME NEW s, Reads(s), loop.pc = "read" PROVE LeaseInv'
  <2> DEFINE read == Append(loop.read, s)
  <2>1. loop.runs = {}
    BY <1>1, <1>5
  <2>2. loop' = IF Len(read) < Len(Spaces) THEN [loop EXCEPT !.read = read]
                ELSE [loop EXCEPT !.read = read, !.pc = "reap", !.policy = MergePolicy(read)]
    BY <1>5 DEF Reads
  <2> HIDE DEF read
  <2>3. CASE loop' = [loop EXCEPT !.read = read]
    <3>1. loop'.pc = "read" /\ loop'.runs = {}
      BY <1>1, <1>5, <2>1, <2>3
    <3> QED
      BY <3>1 DEF LeaseInv
  <2>4. CASE loop' = [loop EXCEPT !.read = read, !.pc = "reap", !.policy = MergePolicy(read)]
    <3> DEFINE policy == MergePolicy(read)
    <3>1. loop' = [loop EXCEPT !.read = read, !.pc = "reap", !.policy = policy]
      BY <2>4
    <3> HIDE DEF policy
    <3>2. loop'.read = read /\ loop'.policy = policy /\ loop'.runs = {}
      BY <1>1, <2>1, <3>1
    <3> QED
      BY <3>2 DEF LeaseInv, policy
  <2> QED
    BY <2>2, <2>3, <2>4
<1>6. CASE PutSettings \/ TimePasses \/ PublishNow \/ UNCHANGED vars
  <2>1. loop' = loop
    BY <1>6 DEF PutSettings, TimePasses, PublishNow, vars
  <2> QED
    BY <1>4, <2>1
<1>7. CASE ReadBegins \/ ListFails
  BY <1>2, <1>7 DEF ReadBegins, ListFails
<1>8. CASE ReadSettings \/ ReadFails
  BY <1>5, <1>8 DEF ReadSettings, ReadFails
<1>9. CASE Reap \/ Claim \/ BatchEnds
  <2>1. PICK pc \in {"claim", "drain", "list"} : loop' = [loop EXCEPT !.pc = pc]
    BY <1>9 DEF Reap, Claim, BatchEnds
  <2>2. loop.pc \in {"reap", "claim", "drain", "run"}
    BY <1>9 DEF Reap, Claim, BatchEnds
  <2>3. UNCHANGED <<loop.read, loop.policy>> /\ loop'.runs = loop.runs
    BY <1>1, <2>1
  <2> QED
    BY <1>3, <2>2, <2>3 DEF LeaseInv
<1>10. CASE Drain
  <2>1. PICK batch : loop' = [loop EXCEPT !.pc = "run", !.queue = batch]
    BY <1>10 DEF Drain
  <2>2. UNCHANGED <<loop.read, loop.policy>> /\ loop'.runs = loop.runs
    BY <1>1, <2>1
  <2> QED
    BY <1>3, <1>10, <2>2 DEF LeaseInv, Drain
<1>11. CASE Spawn
  <2> DEFINE p == Head(loop.queue)
             fresh == [post |-> p, with |-> settings[SpaceOf[p]]]
  <2>1. /\ loop.pc = "run" /\ loop.queue # <<>>
        /\ \/ loop' = [loop EXCEPT !.queue = Tail(@), !.runs = @ \cup {fresh}]
           \/ loop' = [loop EXCEPT !.queue = Tail(@)]
    BY <1>11 DEF Spawn
  <2>2. p \in Post
    BY <1>1, <2>1, HeadTailProperties
  <2>3. SpaceOf[p] \in Workspace
    BY <2>2 DEF TickAssumption, Post
  <2>4. fresh.with \in Settings
    BY <1>1, <2>3
  <2> HIDE DEF fresh
  <2>5. UNCHANGED <<loop.read, loop.policy>> /\ loop'.runs \subseteq loop.runs \cup {fresh}
    BY <1>1, <2>1
  <2> QED
    BY <1>3, <2>1, <2>4, <2>5 DEF LeaseInv
<1>12. CASE RunEnds
  <2>1. PICK run \in loop.runs : loop' = [loop EXCEPT !.runs = @ \ {run}]
    BY <1>12 DEF RunEnds
  <2>2. UNCHANGED <<loop.read, loop.policy>> /\ loop'.runs \subseteq loop.runs
    BY <1>1, <2>1
  <2>3. loop.pc = "run"
    BY <1>1, <2>1
  <2> QED
    BY <1>3, <2>2, <2>3 DEF LeaseInv
<1> QED
  BY <1>6, <1>7, <1>8, <1>9, <1>10, <1>11, <1>12 DEF Next, LoopStep

\* TickPolicy: for all workspaces and settings, the lease of the policy outlasts every run that
\* was begun with settings it was made of: with every renewal lost when each call keeps its
\* allowance, and with none lost however long a call takes (effective_lease_ms, merge_policy).
THEOREM RunsKeepTheirLease ==
  ASSUME TickAssumption, LeaseAssumption
  PROVE  Spec => []LeaseOutlastsRun
<1>1. Init => TickInv /\ LeaseInv
  BY TickInit DEF Init, NoLoop, LeaseInv
<1>2. TickInv /\ LeaseInv /\ [Next]_vars => (TickInv /\ LeaseInv)'
  BY TickNext, LeaseNext
<1>3. TickInv /\ LeaseInv => LeaseOutlastsRun
  BY LeaseOutlasts DEF TickInv
<1> QED
  BY <1>1, <1>2, <1>3, PTL DEF Spec

-----------------------------------------------------------------------------
(* Timing.                                                                  *)

\* Quotients and remainders.
LEMMA Divided ==
  ASSUME NEW a \in Int, NEW n \in Nat \ {0}
  PROVE  a = n * (a \div n) + (a % n) /\ a \div n \in Int /\ a % n \in 0..(n - 1)
OBVIOUS

LEMMA Quotient ==
  ASSUME NEW q \in Int, NEW n \in Nat \ {0}, NEW r \in 0..(n - 1)
  PROVE  (q * n + r) \div n = q /\ (q * n + r) % n = r
OBVIOUS

LEMMA Sooner ==
  ASSUME NEW p \in Int, NEW q \in Int, NEW n \in Nat \ {0}, p <= q
  PROVE  p * n <= q * n
OBVIOUS

LEMMA LeastIs ==
  ASSUME NEW S \in SUBSET Int, NEW m \in S, \A k \in S : m <= k
  PROVE  Times!Min(S) = m
<1>1. \A k \in S : (\A l \in S : k <= l) => k = m
  OBVIOUS
<1> QED
  BY <1>1 DEF Times!Min

LEMMA TheSameCounts ==
  ASSUME NEW S
  PROVE  (Times!IsFiniteSet(S) <=> IsFiniteSet(S)) /\ Times!Cardinality(S) = Cardinality(S)
<1>1. Times!IsFiniteSet(S) <=> IsFiniteSet(S)
  BY DEF IsFiniteSet, Times!IsFiniteSet
<1>2. Times!Cardinality(S) = Cardinality(S)
  BY DEF Cardinality, Times!Cardinality
<1> QED
  BY <1>1, <1>2

LEMMA LastOfShifts ==
  ASSUME NEW z, Times!ZoneOk(z), NEW P \in SUBSET z.shifts, P # {}
  PROVE  \E s \in P : \A r \in P : r.at <= s.at
<1> DEFINE Sizes == {n \in Nat : \A Q \in SUBSET z.shifts :
                       IsFiniteSet(Q) /\ Cardinality(Q) = n /\ Q # {} => \E s \in Q : \A r \in Q : r.at <= s.at}
<1>1. 0 \in Sizes
  BY FS_EmptySet
<1>2. ASSUME NEW n \in Nat, n \in Sizes PROVE n + 1 \in Sizes
  <2> SUFFICES ASSUME NEW Q \in SUBSET z.shifts, IsFiniteSet(Q), Cardinality(Q) = n + 1
               PROVE  \E s \in Q : \A r \in Q : r.at <= s.at
    OBVIOUS
  <2>1. PICK q \in Q : TRUE
    BY FS_EmptySet
  <2>2. IsFiniteSet(Q \ {q}) /\ Cardinality(Q \ {q}) = n
    BY <2>1, FS_RemoveElement
  <2>3. CASE Q \ {q} = {}
    BY <2>1, <2>3 DEF Times!ZoneOk
  <2>4. CASE Q \ {q} # {}
    <3>1. PICK s \in Q \ {q} : \A r \in Q \ {q} : r.at <= s.at
      BY <1>2, <2>2, <2>4
    <3>2. \A r \in Q : r.at \in Int
      BY DEF Times!ZoneOk
    <3> QED
      BY <2>1, <3>1, <3>2
  <2> QED
    BY <2>3, <2>4
<1>3. IsFiniteSet(P) /\ Cardinality(P) \in Nat
  <2>1. IsFiniteSet(z.shifts)
    BY TheSameCounts DEF Times!ZoneOk
  <2> QED
    BY <2>1, FS_Subset, FS_CardinalityType
<1>4. Nat \subseteq Sizes
  <2> HIDE DEF Sizes
  <2> QED
    BY <1>1, <1>2, NumbersFollow
<1> QED
  BY <1>3, <1>4

\* The zone a workspace is in.
InZone == Times!TimingAssumption /\ zone \in Zone

LEMMA OffsetIs ==
  ASSUME InZone, NEW t \in Int
  PROVE  /\ Times!Offset(t) \in {zone.first} \cup {s.to : s \in zone.shifts}
         /\ Times!Offset(t) \in Int /\ Times!Local(t) \in Int /\ Times!Local(t) = t + Times!Offset(t)
<1> DEFINE past == {s \in zone.shifts : s.at <= t}
<1>1. Times!ZoneOk(zone)
  BY DEF InZone, Times!TimingAssumption
<1>2. Times!Offset(t) = IF past = {} THEN zone.first ELSE (CHOOSE s \in past : \A r \in past : r.at <= s.at).to
  BY DEF Times!Offset, Times!OffsetIn
<1>3. past # {} => \E s \in past : \A r \in past : r.at <= s.at
  BY <1>1, LastOfShifts
<1>4. past # {} => (CHOOSE s \in past : \A r \in past : r.at <= s.at) \in past
  BY <1>3
<1>5. Times!Offset(t) \in {zone.first} \cup {s.to : s \in zone.shifts}
  BY <1>2, <1>4
<1>6. Times!Offset(t) \in Int
  BY <1>1, <1>5 DEF Times!ZoneOk
<1> QED
  BY <1>5, <1>6 DEF Times!Local

\* The clocks move on by an hour, by none where they are set back, by two where they are
\* set forward.
LEMMA ClocksMoveOn ==
  ASSUME InZone, NEW t \in Int
  PROVE  /\ Times!Local(t) - Times!Local(t - 1) \in 0..2
         /\ Times!Offset(t) # Times!Offset(t - 1) => \E s \in zone.shifts : s.at = t /\ Times!Offset(t) = s.to
<1>1. Times!ZoneOk(zone)
  BY DEF InZone, Times!TimingAssumption
<1>2. Times!Local(t) = t + Times!Offset(t) /\ Times!Local(t - 1) = t - 1 + Times!Offset(t - 1)
      /\ Times!Offset(t) \in Int /\ Times!Offset(t - 1) \in Int
  BY OffsetIs
<1>3. CASE \E s \in zone.shifts : s.at = t
  <2>1. PICK s \in zone.shifts : s.at = t
    BY <1>3
  <2> DEFINE past == {r \in zone.shifts : r.at <= t}
             last == CHOOSE u \in past : \A r \in past : r.at <= u.at
  <2>2. s \in past /\ \A r \in past : r.at <= s.at /\ r.at \in Int
    BY <1>1, <2>1 DEF Times!ZoneOk
  <2>3. last \in past /\ \A r \in past : r.at <= last.at
    BY <2>2
  <2>4. last.at = s.at
    BY <2>2, <2>3
  <2>5. last = s
    BY <1>1, <2>3, <2>4 DEF Times!ZoneOk
  <2>6. Times!Offset(t) = s.to
    BY <2>2, <2>5 DEF Times!Offset, Times!OffsetIn
  <2>7. s.to - Times!OffsetIn(zone, s.at - 1) \in -1..1
    BY <1>1 DEF Times!ZoneOk
  <2>8. Times!Offset(t) - Times!Offset(t - 1) \in -1..1
    BY <2>1, <2>6, <2>7 DEF Times!Offset
  <2> QED
    BY <1>2, <2>1, <2>6, <2>8
<1>4. CASE ~\E s \in zone.shifts : s.at = t
  <2>1. {s \in zone.shifts : s.at <= t} = {s \in zone.shifts : s.at <= t - 1}
    <3>1. \A s \in zone.shifts : s.at \in Int /\ s.at # t
      BY <1>1, <1>4 DEF Times!ZoneOk
    <3>2. \A s \in zone.shifts : (s.at <= t) <=> (s.at <= t - 1)
      BY <3>1
    <3> QED
      BY <3>2
  <2>2. Times!Offset(t) = Times!Offset(t - 1)
    <3> DEFINE Newest(P) == IF P = {} THEN zone.first ELSE (CHOOSE s \in P : \A r \in P : r.at <= s.at).to
    <3>1. /\ Times!Offset(t) = Newest({s \in zone.shifts : s.at <= t})
          /\ Times!Offset(t - 1) = Newest({s \in zone.shifts : s.at <= t - 1})
      BY DEF Times!Offset, Times!OffsetIn
    <3> HIDE DEF Newest
    <3> QED
      BY <2>1, <3>1
  <2> QED
    BY <1>2, <2>2
<1> QED
  BY <1>3, <1>4

LEMMA ClocksKeepOn ==
  ASSUME InZone, NEW t \in Int, NEW u \in Int, t <= u
  PROVE  Times!Local(t) <= Times!Local(u)
<1> DEFINE S == {n \in Nat : Times!Local(t) <= Times!Local(t + n)}
<1>1. 0 \in S
  BY OffsetIs
<1>2. ASSUME NEW n \in Nat, n \in S PROVE n + 1 \in S
  <2> DEFINE v == t + (n + 1)
  <2>1. v \in Int /\ v - 1 = t + n
    OBVIOUS
  <2> HIDE DEF v
  <2>2. Times!Local(v) - Times!Local(v - 1) \in 0..2
    BY <2>1, ClocksMoveOn
  <2>3. Times!Local(t + (n + 1)) - Times!Local(t + n) \in 0..2
    BY <2>1, <2>2 DEF v
  <2>4. Times!Local(t) \in Int /\ Times!Local(t + n) \in Int /\ Times!Local(t + (n + 1)) \in Int
    BY OffsetIs
  <2> QED
    BY <1>2, <2>3, <2>4
<1>3. Nat \subseteq S
  <2> HIDE DEF S
  <2> QED
    BY <1>1, <1>2, NumbersFollow
<1>4. u - t \in S /\ t + (u - t) = u
  BY <1>3
<1> QED
  BY <1>4

\* The first instant at which the clocks have come to w.
Comes(r, w) == r \in Int /\ Times!Local(r) >= w /\ Times!Local(r - 1) < w

LEMMA ItComes ==
  ASSUME InZone, NEW w \in Int
  PROVE  \E r \in Int : Comes(r, w)
<1>1. Times!ZoneOk(zone) /\ DayLen \in Nat
  BY DEF InZone, Times!TimingAssumption
<1> DEFINE from == w - Times!Offset(0) - DayLen - 1
           T == {k \in Nat : Times!Local(from + k) >= w}
<1>2. from \in Int /\ Times!Offset(0) \in Int
  BY <1>1, OffsetIs
<1>3. \A t \in Int : Times!Offset(t) - Times!Offset(0) <= DayLen /\ Times!Offset(0) - Times!Offset(t) <= DayLen
  BY <1>1, OffsetIs DEF Times!ZoneOk
<1>4. 2 * DayLen + 1 \in T
  <2>1. from + (2 * DayLen + 1) = w - Times!Offset(0) + DayLen /\ w - Times!Offset(0) + DayLen \in Int
    BY <1>1, <1>2
  <2>2. /\ Times!Local(w - Times!Offset(0) + DayLen) = w - Times!Offset(0) + DayLen + Times!Offset(w - Times!Offset(0) + DayLen)
        /\ Times!Offset(w - Times!Offset(0) + DayLen) \in Int
    BY <2>1, OffsetIs
  <2>3. Times!Offset(0) - Times!Offset(w - Times!Offset(0) + DayLen) <= DayLen
    BY <1>3, <2>1
  <2>4. Times!Local(w - Times!Offset(0) + DayLen) >= w
    BY <1>1, <1>2, <2>2, <2>3
  <2> QED
    BY <1>1, <2>1, <2>4
<1>5. PICK k \in T : \A m \in T : k <= m
  BY <1>4, Least
<1>6. k # 0
  <2>1. Times!Local(from) = from + Times!Offset(from) /\ Times!Offset(from) \in Int
        /\ Times!Offset(from) - Times!Offset(0) <= DayLen
    BY <1>2, <1>3, OffsetIs
  <2>2. Times!Local(from) < w
    BY <1>1, <1>2, <2>1
  <2>3. from + 0 = from /\ Times!Local(from) \in Int
    BY <1>2, OffsetIs
  <2> QED
    BY <2>2, <2>3
<1>7. k - 1 \in Nat /\ from + (k - 1) = (from + k) - 1 /\ from + k \in Int /\ (from + k) - 1 \in Int
  BY <1>2, <1>6
<1>8. ~(Times!Local((from + k) - 1) >= w)
  BY <1>5, <1>7
<1>9. Times!Local((from + k) - 1) < w
  <2>1. Times!Local((from + k) - 1) \in Int
    BY <1>7, OffsetIs
  <2> QED
    BY <1>8, <2>1
<1>10. Comes(from + k, w)
  <2>1. Times!Local(from + k) >= w
    BY <1>5
  <2> DEFINE r == from + k
  <2> HIDE DEF from, T
  <2>2. r \in Int /\ Times!Local(r) >= w /\ Times!Local(r - 1) < w
    <3>1. r \in Int
      BY <1>7
    <3>2. Times!Local(r) >= w
      BY <2>1
    <3>3. r - 1 = (from + k) - 1
      OBVIOUS
    <3> QED
      BY <1>9, <3>1, <3>2, <3>3
  <2> HIDE DEF r
  <2>3. Comes(r, w)
    BY <2>2 DEF Comes
  <2> QED
    BY <2>3 DEF r
<1> QED
  BY <1>7, <1>10

LEMMA SinceItComes ==
  ASSUME InZone, NEW w \in Int, NEW r, Comes(r, w), NEW t \in Int
  PROVE  (Times!Local(t) >= w) <=> (t >= r)
<1>1. /\ r \in Int /\ r - 1 \in Int /\ Times!Local(r) \in Int /\ Times!Local(r - 1) \in Int /\ Times!Local(t) \in Int
      /\ Times!Local(r) >= w /\ Times!Local(r - 1) < w
  BY OffsetIs DEF Comes
<1>2. CASE t >= r
  BY <1>1, <1>2, ClocksKeepOn
<1>3. CASE ~(t >= r)
  <2>1. t <= r - 1
    BY <1>1, <1>3
  <2>2. Times!Local(t) <= Times!Local(r - 1)
    BY <1>1, <2>1, ClocksKeepOn
  <2> QED
    BY <1>1, <1>3, <2>2
<1> QED
  BY <1>2, <1>3

LEMMA ShowsIs ==
  ASSUME InZone, NEW date \in Int, NEW hr \in Int
  PROVE  Times!Shows(date, hr) = {t \in Int : Times!Local(t) = date * DayLen + hr}
<1>1. Times!ZoneOk(zone) /\ date * DayLen + hr \in Int
  BY DEF InZone, Times!TimingAssumption
<1> DEFINE offsets == {zone.first} \cup {s.to : s \in zone.shifts}
<1>2. \A o \in offsets : (date * DayLen + hr) - o \in Int
  BY <1>1 DEF Times!ZoneOk
<1>3. ASSUME NEW t \in Int, Times!Local(t) = date * DayLen + hr
      PROVE  \E o \in offsets : t = (date * DayLen + hr) - o
  <2>1. Times!Offset(t) \in offsets /\ Times!Offset(t) \in Int /\ date * DayLen + hr = t + Times!Offset(t)
    BY <1>3, OffsetIs
  <2>2. t = (date * DayLen + hr) - Times!Offset(t)
    BY <1>1, <2>1
  <2> QED
    BY <2>1, <2>2
<1> QED
  BY <1>1, <1>2, <1>3 DEF Times!Shows

\* The instant of a date and hour is that at which the clocks come to it.
LEMMA InstantIs ==
  ASSUME InZone, Times!KeepsLastHours, NEW date \in Int, NEW hr \in 0..(DayLen - 1),
         NEW r, Comes(r, date * DayLen + hr)
  PROVE  Times!LocalInstant(date, hr) = r
<1> DEFINE w == date * DayLen + hr
<1>1. DayLen \in Nat \ {0} /\ hr \in Int /\ hr + 1 \in Int /\ w \in Int /\ w + 1 \in Int
      /\ date * DayLen \in Int /\ date * DayLen + (hr + 1) = w + 1
  BY DEF InZone, Times!TimingAssumption
<1>2. /\ r \in Int /\ r - 1 \in Int /\ Times!Local(r) \in Int /\ Times!Local(r - 1) \in Int
      /\ Times!Local(r) >= w /\ Times!Local(r - 1) < w
  BY OffsetIs DEF Comes
<1>3. Times!Local(r) - Times!Local(r - 1) \in 0..2
  BY <1>2, ClocksMoveOn
<1>4. \A t \in Int : Times!Local(t) \in Int /\ (Times!Local(t) >= w <=> t >= r)
  BY <1>1, OffsetIs, SinceItComes
<1>5. Times!Shows(date, hr) = {t \in Int : Times!Local(t) = w}
  BY <1>1, ShowsIs
<1>6. CASE Times!Local(r) = w
  <2>1. r \in Times!Shows(date, hr) /\ Times!Shows(date, hr) \subseteq Int
    BY <1>2, <1>5, <1>6
  <2>2. \A t \in Times!Shows(date, hr) : r <= t
    BY <1>1, <1>2, <1>4, <1>5
  <2>3. Times!Min(Times!Shows(date, hr)) = r
    BY <2>1, <2>2, LeastIs
  <2> QED
    BY <2>1, <2>3 DEF Times!LocalInstant
<1>7. CASE Times!Local(r) # w
  <2>1. Times!Local(r) = w + 1 /\ Times!Local(r - 1) = w - 1
    BY <1>1, <1>2, <1>3, <1>7
  <2>2. Times!Shows(date, hr) = {}
    <3> SUFFICES ASSUME NEW t \in Int, Times!Local(t) = w PROVE FALSE
      BY <1>5
    <3>1. t >= r
      BY <1>1, <1>4
    <3>2. Times!Local(r) <= Times!Local(t)
      BY <1>2, <3>1, ClocksKeepOn
    <3> QED
      BY <1>1, <2>1, <3>2
  <2>3. hr + 1 < DayLen
    <3> SUFFICES ASSUME hr + 1 = DayLen PROVE FALSE
      BY <1>1
    <3>1. Times!Offset(r) \in Int /\ Times!Offset(r - 1) \in Int /\ Times!Local(r) = r + Times!Offset(r)
          /\ Times!Local(r - 1) = r - 1 + Times!Offset(r - 1)
      BY <1>2, OffsetIs
    <3>2. Times!Offset(r) > Times!Offset(r - 1)
      BY <1>1, <1>2, <2>1, <3>1
    <3>3. PICK s \in zone.shifts : s.at = r
      BY <1>2, <3>1, <3>2, ClocksMoveOn
    <3>4. Times!Hour(r) # 0
      BY <3>2, <3>3 DEF Times!KeepsLastHours
    <3>5. Times!Local(r) = (date + 1) * DayLen + 0
      BY <1>1, <2>1
    <3>6. ((date + 1) * DayLen + 0) % DayLen = 0
      BY <1>1, Quotient
    <3> QED
      BY <3>4, <3>5, <3>6 DEF Times!Hour
  <2>4. Times!Shows(date, hr + 1) = {t \in Int : Times!Local(t) = w + 1}
    BY <1>1, ShowsIs
  <2>5. r \in Times!Shows(date, hr + 1) /\ Times!Shows(date, hr + 1) \subseteq Int
    BY <1>2, <2>1, <2>4
  <2>6. \A t \in Times!Shows(date, hr + 1) : r <= t
    BY <1>1, <1>2, <1>4, <2>4
  <2>7. Times!Min(Times!Shows(date, hr + 1)) = r
    BY <2>5, <2>6, LeastIs
  <2> QED
    BY <2>2, <2>3, <2>5, <2>7 DEF Times!LocalInstant
<1> QED
  BY <1>6, <1>7

\* Some date of the week after today has the weekday.
LEMMA SomeDateHas ==
  ASSUME InZone, NEW day \in {AnyDay} \cup 0..(WeekLen - 1), NEW today \in Int
  PROVE  \E d \in today + 1..today + WeekLen : day = AnyDay \/ Times!Weekday(d) = day
<1>1. WeekLen \in Nat \ {0}
  BY DEF InZone, Times!TimingAssumption
<1>2. CASE day = AnyDay
  <2>1. today + 1 \in today + 1..today + WeekLen
    BY <1>1
  <2> QED
    BY <1>2, <2>1
<1>3. CASE day \in 0..(WeekLen - 1)
  <2> DEFINE off == day - (today + 1)
             q == off \div WeekLen
             m == off % WeekLen
  <2>1. off \in Int /\ today + 1 + off = day
    BY <1>3, <1>1
  <2>2. off = WeekLen * q + m /\ q \in Int /\ m \in 0..(WeekLen - 1)
    BY <1>1, <2>1, Divided
  <2> HIDE DEF q, m
  <2>3. today + 1 + m \in today + 1..today + WeekLen
    BY <1>1, <2>2
  <2>4. today + 1 + m = (0 - q) * WeekLen + day /\ 0 - q \in Int
    BY <1>1, <1>3, <2>1, <2>2
  <2>5. ((0 - q) * WeekLen + day) % WeekLen = day
    BY <1>1, <1>3, <2>4, Quotient
  <2>6. Times!Weekday(today + 1 + m) = day
    BY <2>4, <2>5 DEF Times!Weekday
  <2> QED
    BY <2>3, <2>6
<1> QED
  BY <1>2, <1>3

\* Where the clocks are in their day.
LEMMA TodayIs ==
  ASSUME InZone, NEW t \in Int
  PROVE  /\ Times!Date(t) \in Int
         /\ Times!Date(t) * DayLen <= Times!Local(t) /\ Times!Local(t) < (Times!Date(t) + 1) * DayLen
<1>1. DayLen \in Nat \ {0} /\ Times!Local(t) \in Int
  BY OffsetIs DEF InZone, Times!TimingAssumption
<1> DEFINE l == Times!Local(t)
           q == l \div DayLen
           m == l % DayLen
<1>2. l = DayLen * q + m /\ q \in Int /\ m \in 0..(DayLen - 1)
  BY <1>1, Divided
<1> HIDE DEF q, m, l
<1>3. q * DayLen <= l /\ l < (q + 1) * DayLen
  BY <1>1, <1>2
<1> QED
  BY <1>2, <1>3 DEF l, q, Times!Date

LEMMA ReachedIs ==
  ASSUME InZone, now \in 0..MaxNow, NEW date \in Times!Date(now) - WeekLen..Times!Date(now) + 2 * WeekLen,
         NEW hr \in 0..(DayLen - 1), NEW r, Comes(r, date * DayLen + hr)
  PROVE  /\ Times!Reached(date, hr) > now <=> r > now
         /\ r > now => Times!Reached(date, hr) = r
<1> DEFINE w == date * DayLen + hr
           top == MaxNow + (2 * WeekLen + 3) * DayLen
           today == Times!Date(now)
           T == {t \in Times!Instants : Times!Local(t) >= w}
<1>1. DayLen \in Nat \ {0} /\ WeekLen \in Nat \ {0} /\ MaxNow \in Nat /\ hr \in Int
  BY DEF InZone, Times!TimingAssumption
<1>2. /\ today \in Int /\ now \in Int
      /\ today * DayLen <= Times!Local(now) /\ Times!Local(now) < (today + 1) * DayLen
  BY TodayIs
<1> HIDE DEF today
<1>3. date \in Int /\ date <= today + 2 * WeekLen
  BY <1>1, <1>2 DEF today
<1>4. date * DayLen <= (today + 2 * WeekLen) * DayLen
  BY <1>1, <1>2, <1>3, Sooner
<1>5. w \in Int /\ top \in Int
  BY <1>1, <1>3
<1>6. w <= top + Times!Offset(top)
  <2>1. /\ Times!Offset(now) \in Int /\ Times!Local(now) = now + Times!Offset(now)
        /\ Times!Offset(top) \in Int
    BY <1>2, <1>5, OffsetIs
  <2>2. Times!Offset(now) - Times!Offset(top) <= DayLen
    BY <1>2, <1>5, OffsetIs DEF InZone, Times!TimingAssumption, Times!ZoneOk
  <2> DEFINE d == today * DayLen
             e == WeekLen * DayLen
  <2>3. d \in Int /\ e \in Int
    BY <1>1, <1>2
  <2>4. (today + 2 * WeekLen) * DayLen = d + 2 * e /\ top = MaxNow + 2 * e + 3 * DayLen
    BY <1>1, <1>2
  <2>5. w <= d + 2 * e + DayLen
    BY <1>1, <1>2, <1>3, <1>4, <2>3, <2>4
  <2> HIDE DEF d, e, top, w
  <2>6. d <= now + Times!Offset(now)
    BY <1>2, <2>1 DEF d
  <2> QED
    BY <1>1, <1>2, <1>5, <2>1, <2>2, <2>3, <2>4, <2>5, <2>6
<1>7. r <= top /\ r \in Int
  <2>1. Times!Local(top) >= w /\ Times!Local(top) \in Int
    BY <1>5, <1>6, OffsetIs
  <2> QED
    BY <1>5, <2>1, SinceItComes DEF Comes
<1>8. \A t \in Int : Times!Local(t) >= w <=> t >= r
  BY <1>5, SinceItComes
<1>9. Times!Instants = 0..top
  BY DEF Times!Instants
<1>10. T = {t \in 0..top : t >= r} /\ T \subseteq Int
  <2> HIDE DEF w, top
  <2> QED
    BY <1>5, <1>8, <1>9
<1>11. Times!Reached(date, hr) = Times!Min(T)
  BY DEF Times!Reached
<1> HIDE DEF T, w, top
<1>12. CASE r >= 0
  <2>1. r \in T /\ \A t \in T : r <= t
    BY <1>5, <1>7, <1>10, <1>12
  <2>2. Times!Reached(date, hr) = r
    BY <1>10, <1>11, <2>1, LeastIs
  <2> QED
    BY <2>2
<1>13. CASE r < 0
  <2>1. 0 <= top
    BY <1>1 DEF top
  <2>2. 0 \in T /\ \A t \in T : 0 <= t
    BY <1>5, <1>7, <1>10, <1>13, <2>1
  <2>3. Times!Reached(date, hr) = 0
    BY <1>10, <1>11, <2>2, LeastIs
  <2> QED
    BY <1>2, <1>7, <1>13, <2>3
<1> QED
  BY <1>7, <1>12, <1>13

\* When the clocks come to a date and hour, of which there is one instant.
Coming(date, hr) == CHOOSE r \in Int : Comes(r, date * DayLen + hr)

LEMMA ComingIs ==
  ASSUME InZone, NEW date \in Int, NEW hr \in 0..(DayLen - 1)
  PROVE  Comes(Coming(date, hr), date * DayLen + hr) /\ Coming(date, hr) \in Int
<1>1. date * DayLen + hr \in Int
  BY DEF InZone, Times!TimingAssumption
<1> DEFINE w == date * DayLen + hr
<1> HIDE DEF w
<1>2. \E r \in Int : Comes(r, w)
  BY <1>1, ItComes DEF w
<1> QED
  BY <1>2 DEF Coming, w

LEMMA LaterDates ==
  ASSUME InZone, NEW c \in Int, NEW d \in Int, c <= d, NEW hr \in 0..(DayLen - 1)
  PROVE  Coming(c, hr) <= Coming(d, hr)
<1>1. DayLen \in Nat \ {0} /\ hr \in Int
  BY DEF InZone, Times!TimingAssumption
<1>2. c * DayLen <= d * DayLen
  BY <1>1, Sooner
<1> DEFINE v == c * DayLen + hr
           w == d * DayLen + hr
<1>3. v \in Int /\ w \in Int /\ v <= w
  BY <1>1, <1>2
<1>4. Comes(Coming(c, hr), v) /\ Comes(Coming(d, hr), w) /\ Coming(c, hr) \in Int /\ Coming(d, hr) \in Int
  BY ComingIs
<1> HIDE DEF v, w
<1>5. Times!Local(Coming(d, hr)) >= w /\ Times!Local(Coming(d, hr)) \in Int
  BY <1>4, OffsetIs DEF Comes
<1>6. Times!Local(Coming(d, hr)) >= v
  BY <1>3, <1>5
<1>7. Coming(d, hr) >= Coming(c, hr)
  BY <1>3, <1>4, <1>6, SinceItComes
<1> QED
  BY <1>4, <1>7

\* The dates before today are past, those after it are not.
LEMMA WhatHasCome ==
  ASSUME InZone, now \in 0..MaxNow, NEW date \in Int, NEW hr \in 0..(DayLen - 1)
  PROVE  /\ date < Times!Date(now) => Coming(date, hr) <= now
         /\ date > Times!Date(now) => Coming(date, hr) > now
<1> DEFINE w == date * DayLen + hr
           today == Times!Date(now)
<1>1. DayLen \in Nat \ {0} /\ hr \in Int /\ hr < DayLen /\ 0 <= hr /\ now \in Int /\ Times!Local(now) \in Int /\ w \in Int
  BY OffsetIs DEF InZone, Times!TimingAssumption
<1>2. today \in Int /\ today * DayLen <= Times!Local(now) /\ Times!Local(now) < (today + 1) * DayLen
  BY <1>1, TodayIs
<1>3. Comes(Coming(date, hr), w) /\ Coming(date, hr) \in Int
  BY ComingIs
<1>4. Times!Local(now) >= w <=> now >= Coming(date, hr)
  BY <1>1, <1>3, SinceItComes
<1> HIDE DEF today
<1>5. CASE date < today
  <2>1. (date + 1) * DayLen <= today * DayLen
    BY <1>1, <1>2, <1>5, Sooner
  <2>2. (date + 1) * DayLen = date * DayLen + DayLen
    BY <1>1
  <2>3. w <= Times!Local(now)
    BY <1>1, <1>2, <2>1, <2>2
  <2> QED
    BY <1>1, <1>2, <1>3, <1>4, <1>5, <2>3 DEF today
<1>6. CASE date > today
  <2>1. (today + 1) * DayLen <= date * DayLen
    BY <1>1, <1>2, <1>6, Sooner
  <2>2. ~(Times!Local(now) >= w)
    BY <1>1, <1>2, <2>1
  <2> QED
    BY <1>1, <1>2, <1>3, <1>4, <1>6, <2>2 DEF today
<1>7. CASE date = today
  BY <1>2, <1>7 DEF today
<1> QED
  BY <1>2, <1>5, <1>6, <1>7 DEF today

LEMMA NextIsTheFirst ==
  ASSUME InZone, now \in 0..MaxNow
  PROVE  Times!NextIsFirst
<1> SUFFICES ASSUME Times!KeepsLastHours, NEW day \in {AnyDay} \cup 0..(WeekLen - 1), NEW hr \in 0..(DayLen - 1)
             PROVE  Times!NextOccurrence(day, hr) =
                      Times!Min({t \in {Times!Reached(date, hr) : date \in Times!Dates(day)} : t > now})
  BY DEF Times!NextIsFirst
<1> DEFINE today == Times!Date(now)
           Has(d) == day = AnyDay \/ Times!Weekday(d) = day
           found == {date \in today..(today + 2 * WeekLen) : Has(date) /\ Times!LocalInstant(date, hr) > now}
           T == {t \in {Times!Reached(date, hr) : date \in Times!Dates(day)} : t > now}
<1>1. today \in Int /\ now \in Int /\ WeekLen \in Nat \ {0}
  BY TodayIs DEF InZone, Times!TimingAssumption
<1>2. \A date \in Int : Coming(date, hr) \in Int /\ Times!LocalInstant(date, hr) = Coming(date, hr)
  BY ComingIs, InstantIs
<1>3. \A date \in today - WeekLen..today + 2 * WeekLen :
        /\ Times!Reached(date, hr) > now <=> Coming(date, hr) > now
        /\ Coming(date, hr) > now => Times!Reached(date, hr) = Coming(date, hr)
  <2> SUFFICES ASSUME NEW date \in today - WeekLen..today + 2 * WeekLen
               PROVE  /\ Times!Reached(date, hr) > now <=> Coming(date, hr) > now
                      /\ Coming(date, hr) > now => Times!Reached(date, hr) = Coming(date, hr)
    OBVIOUS
  <2>1. date \in Int
    BY <1>1
  <2> QED
    BY <2>1, ComingIs, ReachedIs
<1>4. Times!Dates(day) = {d \in today - WeekLen..today + 2 * WeekLen : Has(d)}
  BY DEF Times!Dates
<1>5. PICK d \in today + 1..today + WeekLen : Has(d)
  BY <1>1, SomeDateHas
<1> HIDE DEF Has
<1>6. d \in found
  <2>1. d \in Int /\ d > today /\ d \in today..today + 2 * WeekLen
    BY <1>1
  <2>2. Coming(d, hr) > now
    BY <2>1, WhatHasCome
  <2> QED
    BY <1>2, <1>5, <2>1, <2>2
<1>7. PICK first \in found : \A c \in found : first <= c
  <2> DEFINE N == {k \in Nat : today + k \in found}
  <2>1. d - today \in N
    <3>1. d - today \in Nat /\ today + (d - today) = d
      BY <1>1
    <3> QED
      BY <1>6, <3>1
  <2>2. PICK k \in N : \A m \in N : k <= m
    BY <2>1, Least
  <2>3. \A c \in found : c - today \in N
    <3>1. \A c \in found : c - today \in Nat /\ today + (c - today) = c
      BY <1>1
    <3> QED
      BY <3>1
  <2>4. \A c \in found : c \in Int
    BY <1>1
  <2> HIDE DEF found
  <2>5. \A c \in found : today + k <= c
    BY <1>1, <2>2, <2>3, <2>4
  <2> QED
    BY <2>2, <2>5
<1>8. first \in Int /\ found \subseteq Int
  BY <1>1
<1>9. Times!NextOccurrence(day, hr) = Coming(first, hr)
  <2>1. Times!Min(found) = first
    BY <1>7, <1>8, LeastIs
  <2>2. Times!NextOccurrence(day, hr) = IF found = {} THEN now ELSE Times!LocalInstant(Times!Min(found), hr)
    BY DEF Times!NextOccurrence, Has
  <2> HIDE DEF found
  <2> QED
    BY <1>2, <1>7, <1>8, <2>1, <2>2
<1>10. Coming(first, hr) \in T
  <2>1. first \in today..today + 2 * WeekLen /\ Has(first) /\ Coming(first, hr) > now
    BY <1>2, <1>7, <1>8
  <2>2. first \in today - WeekLen..today + 2 * WeekLen
    BY <1>1, <2>1
  <2>3. first \in Times!Dates(day) /\ Times!Reached(first, hr) = Coming(first, hr)
    BY <1>3, <1>4, <2>1, <2>2
  <2> QED
    BY <2>1, <2>3
<1>11. ASSUME NEW t \in T PROVE t \in Int /\ Coming(first, hr) <= t
  <2>1. PICK c \in Times!Dates(day) : t = Times!Reached(c, hr) /\ t > now
    BY <1>11
  <2>2. c \in today - WeekLen..today + 2 * WeekLen /\ Has(c)
    BY <1>4, <2>1
  <2>3. Coming(c, hr) > now /\ t = Coming(c, hr) /\ c \in Int
    BY <1>1, <1>3, <2>1, <2>2
  <2>4. ~(c < today)
    <3> SUFFICES ASSUME c < today PROVE FALSE
      OBVIOUS
    <3>1. Coming(c, hr) <= now
      BY <2>3, WhatHasCome
    <3> QED
      BY <1>1, <1>2, <2>3, <3>1
  <2>5. c \in found
    BY <1>1, <1>2, <2>2, <2>3, <2>4
  <2>6. first <= c
    BY <1>7, <2>5
  <2>7. Coming(first, hr) <= Coming(c, hr)
    BY <1>8, <2>3, <2>6, LaterDates
  <2> QED
    BY <1>2, <2>3, <2>7
<1>12. Times!Min(T) = Coming(first, hr)
  <2> HIDE DEF T
  <2>1. T \subseteq Int
    BY <1>11
  <2> QED
    BY <1>10, <1>11, <2>1, LeastIs
<1> QED
  BY <1>9, <1>12

\* What is posted, for any workspace.
Posted == InZone /\ now \in 0..MaxNow /\ published \in Seq([at : 0..MaxNow, score : Score, platform : Platform])

LEMMA NodePosts ==
  ASSUME Times!TimingAssumption
  PROVE  NodeSpec => []Posted
<1> DEFINE APost == [at : 0..MaxNow, score : Score, platform : Platform]
<1>1. NodeInit => Posted
  BY DEF NodeInit, Times!Init, Times!TimingAssumption, Posted, InZone
<1>2. Posted /\ [NodeNext]_PartVars => Posted'
  <2> SUFFICES ASSUME Posted, [NodeNext]_PartVars PROVE Posted'
    OBVIOUS
  <2>1. MaxNow \in Nat
    BY DEF Times!TimingAssumption
  <2>2. CASE Times!Tick
    BY <2>1, <2>2 DEF Times!Tick, Posted, InZone
  <2>3. ASSUME NEW score \in Score, NEW platform \in Platform, Times!Publish(score, platform) PROVE Posted'
    <3>1. [at |-> now, score |-> score, platform |-> platform] \in APost /\ published \in Seq(APost)
      BY DEF Posted
    <3> HIDE DEF APost
    <3>2. Append(published, [at |-> now, score |-> score, platform |-> platform]) \in Seq(APost)
      BY <3>1
    <3> QED
      BY <2>3, <3>2 DEF Times!Publish, Posted, InZone, APost
  <2>4. CASE UNCHANGED TimingVars
    BY <2>4 DEF TimingVars, Posted, InZone
  <2> QED
    BY <2>2, <2>3, <2>4 DEF NodeNext, PartVars, Times!Next
<1> QED
  BY <1>1, <1>2, PTL DEF NodeSpec

\* The next instant of a slot is the first after now at which its clocks come to its weekday
\* and hour, for every zone that changes by an hour at a time and never skips the last of a
\* day (next_occurrence, local_instant).
THEOREM SlotsComeNext ==
  ASSUME Times!TimingAssumption
  PROVE  NodeSpec => []NextIsFirst
<1>1. NodeSpec => []Posted
  BY NodePosts
<1>2. Posted => NextIsFirst
  BY NextIsTheFirst DEF NextIsFirst, Posted
<1> QED
  BY <1>1, <1>2, PTL

-----------------------------------------------------------------------------
(* The slots of an answer.                                                  *)

\* The pairs of an order of T; the ways to list T in it.
Orders(R, T) ==
  /\ \A x \in T : <<x, x>> \notin R
  /\ \A x, y \in T : x # y => <<x, y>> \in R \/ <<y, x>> \in R
  /\ \A x, y, z \in T : <<x, y>> \in R /\ <<y, z>> \in R => <<x, z>> \in R

Lists(r, n, R, T) ==
  /\ r \in [1..n -> T]
  /\ \A i, j \in 1..n : i # j => r[i] # r[j]
  /\ \A i, j \in 1..n : <<r[i], r[j]>> \in R => i < j

OneList(n, R, T) == \E r : Lists(r, n, R, T) /\ \A q : Lists(q, n, R, T) => q = r

LEMMA ListsAll ==
  ASSUME NEW T, IsFiniteSet(T), NEW n \in Nat, Cardinality(T) = n, NEW r \in [1..n -> T],
         \A i, j \in 1..n : i # j => r[i] # r[j]
  PROVE  \A x \in T : \E i \in 1..n : r[i] = x
<1>1. r \in Injection(1..n, T)
  BY DEF Injection, IsInjective
<1>2. IsFiniteSet(1..n) /\ Cardinality(1..n) = n
  BY FS_Interval
<1>3. r \in Surjection(1..n, T)
  BY <1>1, <1>2, FS_Injection
<1> QED
  BY <1>3 DEF Surjection

LEMMA LastListed ==
  ASSUME NEW T, NEW R, Orders(R, T), NEW n \in Nat, IsFiniteSet(T), Cardinality(T) = n + 1,
         \A t \in T : OneList(n, R, T \ {t})
  PROVE  \E m \in T : \A x \in T \ {m} : <<x, m>> \in R
<1>1. PICK t \in T : TRUE
  BY FS_EmptySet
<1>2. IsFiniteSet(T \ {t}) /\ Cardinality(T \ {t}) = n
  BY FS_RemoveElement
<1>3. PICK q : Lists(q, n, R, T \ {t})
  BY DEF OneList
<1>4. \A x \in T \ {t} : \E i \in 1..n : q[i] = x
  BY <1>2, <1>3, ListsAll DEF Lists
<1>5. CASE n = 0
  <2>1. T \ {t} = {}
    BY <1>2, <1>5, FS_EmptySet
  <2> QED
    BY <2>1
<1>6. CASE n # 0
  <2>1. n \in 1..n /\ q[n] \in T \ {t}
    BY <1>3, <1>6 DEF Lists
  <2>2. \A x \in T \ {t} : x # q[n] => <<x, q[n]>> \in R
    <3> SUFFICES ASSUME NEW x \in T \ {t}, x # q[n], <<x, q[n]>> \notin R PROVE FALSE
      OBVIOUS
    <3>1. PICK i \in 1..n : q[i] = x
      BY <1>4
    <3>2. <<q[n], q[i]>> \in R
      BY <2>1, <3>1 DEF Orders
    <3>3. n < i
      BY <1>3, <2>1, <3>2 DEF Lists
    <3> QED
      BY <3>3
  <2>3. CASE <<t, q[n]>> \in R
    BY <2>1, <2>2, <2>3
  <2>4. CASE <<t, q[n]>> \notin R
    <3>1. <<q[n], t>> \in R
      BY <2>1, <2>4 DEF Orders
    <3>2. \A x \in T \ {t} : <<x, t>> \in R
      BY <2>1, <2>2, <3>1 DEF Orders
    <3> QED
      BY <3>2
  <2> QED
    BY <2>3, <2>4
<1> QED
  BY <1>5, <1>6

LEMMA OneMoreListed ==
  ASSUME NEW T, NEW R, Orders(R, T), NEW n \in Nat, IsFiniteSet(T), Cardinality(T) = n + 1,
         NEW m \in T, \A x \in T \ {m} : <<x, m>> \in R, OneList(n, R, T \ {m})
  PROVE  OneList(n + 1, R, T)
<1>1. PICK q : Lists(q, n, R, T \ {m}) /\ \A p : Lists(p, n, R, T \ {m}) => p = q
  BY DEF OneList
<1> DEFINE r == [i \in 1..(n + 1) |-> IF i = n + 1 THEN m ELSE q[i]]
<1>2. \A i \in 1..(n + 1) : i = n + 1 \/ i \in 1..n
  OBVIOUS
<1>3. r[n + 1] = m /\ \A i \in 1..n : r[i] = q[i] /\ q[i] \in T \ {m}
  BY <1>1 DEF Lists
<1>4. r \in [1..(n + 1) -> T]
  BY <1>2, <1>3
<1> HIDE DEF r
<1>5. \A i, j \in 1..(n + 1) : i # j => r[i] # r[j]
  BY <1>1, <1>2, <1>3 DEF Lists
<1>6. \A x \in T \ {m} : <<m, x>> \notin R
  BY DEF Orders
<1>7. ASSUME NEW i \in 1..(n + 1), NEW j \in 1..(n + 1), <<r[i], r[j]>> \in R
      PROVE  i < j
  <2>1. CASE i \in 1..n /\ j \in 1..n
    <3>1. <<q[i], q[j]>> \in R
      BY <1>3, <1>7, <2>1
    <3> QED
      BY <1>1, <2>1, <3>1 DEF Lists
  <2>2. CASE i = n + 1
    BY <1>2, <1>3, <1>6, <1>7, <2>2 DEF Orders
  <2>3. CASE i \in 1..n /\ j = n + 1
    BY <2>3
  <2> QED
    BY <1>2, <2>1, <2>2, <2>3
<1>8. Lists(r, n + 1, R, T)
  BY <1>4, <1>5, <1>7 DEF Lists
<1>9. ASSUME NEW p, Lists(p, n + 1, R, T) PROVE p = r
  <2>1. /\ p \in [1..(n + 1) -> T]
        /\ \A i, j \in 1..(n + 1) : i # j => p[i] # p[j]
        /\ \A i, j \in 1..(n + 1) : <<p[i], p[j]>> \in R => i < j
    BY <1>9 DEF Lists
  <2>2. PICK k \in 1..(n + 1) : p[k] = m
    BY <2>1, ListsAll
  <2>3. n + 1 \in 1..(n + 1) /\ 1..n \subseteq 1..(n + 1)
    OBVIOUS
  <2>4. k = n + 1
    <3> SUFFICES ASSUME k # n + 1 PROVE FALSE
      OBVIOUS
    <3>1. p[n + 1] \in T \ {m}
      BY <2>1, <2>2, <2>3
    <3>2. n + 1 < k
      BY <2>1, <2>2, <2>3, <3>1
    <3> QED
      BY <3>2
  <2> DEFINE s == [i \in 1..n |-> p[i]]
  <2>5. \A i \in 1..n : s[i] = p[i] /\ p[i] \in T \ {m}
    BY <2>1, <2>2, <2>3, <2>4
  <2>6. s \in [1..n -> T \ {m}]
    BY <2>5
  <2> HIDE DEF s
  <2>7. Lists(s, n, R, T \ {m})
    BY <2>1, <2>3, <2>5, <2>6 DEF Lists
  <2>8. s = q
    BY <1>1, <2>7
  <2>9. \A i \in 1..(n + 1) : p[i] = r[i]
    BY <1>2, <1>3, <2>2, <2>4, <2>5, <2>8
  <2> QED
    BY <1>4, <2>1, <2>9
<1> QED
  BY <1>8, <1>9 DEF OneList

\* A finite set is listed in an order in one way.
LEMMA OneListing ==
  ASSUME NEW E, IsFiniteSet(E), NEW R, Orders(R, E)
  PROVE  OneList(Cardinality(E), R, E)
<1> DEFINE S == {n \in Nat : \A T \in SUBSET E : Cardinality(T) = n => OneList(n, R, T)}
<1>1. \A T \in SUBSET E : IsFiniteSet(T) /\ Cardinality(T) \in Nat /\ Orders(R, T)
  BY FS_Subset, FS_CardinalityType DEF Orders
<1>2. 0 \in S
  <2> SUFFICES ASSUME NEW T \in SUBSET E, Cardinality(T) = 0 PROVE OneList(0, R, T)
    OBVIOUS
  <2>1. T = {} /\ 1..0 = {}
    BY <1>1, FS_EmptySet
  <2>2. Lists([i \in 1..0 |-> i], 0, R, T)
    BY <2>1 DEF Lists
  <2>3. \A q : Lists(q, 0, R, T) => q = [i \in 1..0 |-> i]
    BY <2>1 DEF Lists
  <2> QED
    BY <2>2, <2>3 DEF OneList
<1>3. ASSUME NEW n \in Nat, n \in S PROVE n + 1 \in S
  <2> SUFFICES ASSUME NEW T \in SUBSET E, Cardinality(T) = n + 1 PROVE OneList(n + 1, R, T)
    OBVIOUS
  <2>1. \A t \in T : OneList(n, R, T \ {t})
    <3> SUFFICES ASSUME NEW t \in T PROVE OneList(n, R, T \ {t})
      OBVIOUS
    <3>1. T \ {t} \in SUBSET E /\ Cardinality(T \ {t}) = n
      <4>1. IsFiniteSet(T)
        BY <1>1
      <4>2. Cardinality(T \ {t}) = Cardinality(T) - 1
        BY <4>1, FS_RemoveElement
      <4> QED
        BY <4>2
    <3> QED
      BY <1>3, <3>1
  <2>2. PICK m \in T : \A x \in T \ {m} : <<x, m>> \in R
    BY <1>1, <2>1, LastListed
  <2> QED
    BY <1>1, <2>1, <2>2, OneMoreListed
<1>4. Nat \subseteq S
  <2> HIDE DEF S
  <2> QED
    BY <1>2, <1>3, NumbersFollow
<1> QED
  BY <1>1, <1>4

LEMMA SlotTypes ==
  ASSUME Posted, NEW i \in DOMAIN published
  PROVE  Times!Day(i) \in 0..(WeekLen - 1) /\ Times!HourOf(i) \in 0..(DayLen - 1) /\ published[i].score \in Nat
<1>1. published[i].at \in Int /\ published[i].score \in Nat
  <2> DEFINE APost == [at : 0..MaxNow, score : Score, platform : Platform]
  <2>1. published \in Seq(APost) /\ i \in 1..Len(published)
    BY DEF Posted
  <2> HIDE DEF APost
  <2>2. published[i] \in APost
    BY <2>1, ElementOfSeq
  <2>3. published[i].at \in 0..MaxNow /\ published[i].score \in Score
    BY <2>2 DEF APost
  <2>4. Score \subseteq Nat /\ MaxNow \in Nat
    BY DEF Posted, InZone, Times!TimingAssumption
  <2>5. \A t \in 0..MaxNow : t \in Int
    BY <2>4
  <2> QED
    BY <2>3, <2>4, <2>5
<1>2. DayLen \in Nat \ {0} /\ WeekLen \in Nat \ {0}
  BY DEF Posted, InZone, Times!TimingAssumption
<1>3. Times!Local(published[i].at) \in Int /\ Times!Date(published[i].at) \in Int
  BY <1>1, OffsetIs, TodayIs DEF Posted
<1>4. Times!Hour(published[i].at) \in 0..(DayLen - 1)
  BY <1>2, <1>3, Divided DEF Times!Hour
<1>5. Times!Weekday(Times!Date(published[i].at)) \in 0..(WeekLen - 1)
  BY <1>2, <1>3, Divided DEF Times!Weekday
<1> QED
  BY <1>1, <1>4, <1>5 DEF Times!Day, Times!HourOf

LEMMA TotalIs ==
  ASSUME Posted, NEW is \in SUBSET DOMAIN published
  PROVE  /\ IsFiniteSet(is) /\ Times!Cardinality(is) \in Nat
         /\ Times!Cardinality(is) = 0 <=> is = {}
         /\ Times!Total(is) \in Nat
<1> DEFINE of == [i \in is |-> {i} \X (1..published[i].score)]
           all == {{i} \X (1..published[i].score) : i \in is}
<1>1. IsFiniteSet(is)
  <2>1. DOMAIN published = 1..Len(published) /\ Len(published) \in Int
    BY DEF Posted
  <2> QED
    BY <2>1, FS_Interval, FS_Subset
<1>2. \A i \in is : IsFiniteSet({i} \X (1..published[i].score))
  <2> SUFFICES ASSUME NEW i \in is PROVE IsFiniteSet({i} \X (1..published[i].score))
    OBVIOUS
  <2>1. published[i].score \in Int
    BY SlotTypes
  <2> DEFINE top == published[i].score
  <2>2. IsFiniteSet(1..published[i].score)
    <3>1. 1 \in Int /\ top \in Int
      BY <2>1
    <3> HIDE DEF top
    <3>2. IsFiniteSet(1..top)
      BY <3>1, FS_Interval
    <3> QED
      BY <3>2 DEF top
  <2>3. IsFiniteSet({i})
    BY FS_Singleton
  <2> QED
    BY <2>2, <2>3, FS_Product
<1>3. of \in Surjection(is, all)
  BY DEF Surjection
<1>4. IsFiniteSet(all)
  BY <1>1, <1>3, FS_Surjection
<1>5. IsFiniteSet(UNION all)
  <2>1. \A a \in all : IsFiniteSet(a)
    BY <1>2
  <2> HIDE DEF all
  <2> QED
    BY <1>4, <2>1, FS_UNION
<1>6. Times!Total(is) = Times!Cardinality(UNION all)
  BY DEF Times!Total
<1> QED
  BY <1>1, <1>5, <1>6, TheSameCounts, FS_CardinalityType, FS_EmptySet

Bases == {"weekday_hour", "hour_of_day"}

\* The bucket of a post.
Mine(basis, samples, i) == Times!Bucket(basis, samples, Times!SlotOf(basis, i))

IsOf(a, basis, samples, i) ==
  /\ a.slot = Times!SlotOf(basis, i)
  /\ a.size \in Nat \ {0} /\ a.total \in Nat
  /\ a.size = Times!Count(samples, a.slot) /\ a.total = Times!Total(Times!Posts(samples, a.slot))
  /\ a.slot[1] = (IF basis = "weekday_hour" THEN Times!Day(i) ELSE AnyDay)
  /\ a.slot[2] = Times!HourOf(i) /\ a.slot = <<a.slot[1], a.slot[2]>>

LEMMA BucketIs ==
  ASSUME Posted, NEW basis \in Bases, NEW samples \in SUBSET DOMAIN published, NEW i \in samples
  PROVE  IsOf(Mine(basis, samples, i), basis, samples, i)
<1> DEFINE slot == Times!SlotOf(basis, i)
           behind == Times!Behind(basis, samples, slot)
<1>1. slot = <<IF basis = "weekday_hour" THEN Times!Day(i) ELSE AnyDay, Times!HourOf(i)>>
  BY DEF Times!SlotOf
<1>2. \A j \in samples : Times!Day(j) # AnyDay
  BY SlotTypes DEF Posted, InZone, Times!TimingAssumption
<1>3. Times!Posts(samples, slot) = behind
  <2>1. CASE basis = "weekday_hour"
    BY <1>2, <2>1 DEF Times!Posts, Times!Behind, Times!SlotOf
  <2>2. CASE basis = "hour_of_day"
    BY <2>2 DEF Times!Posts, Times!Behind, Times!SlotOf
  <2> QED
    BY <2>1, <2>2 DEF Bases
<1>4. i \in behind /\ behind \in SUBSET DOMAIN published
  BY DEF Times!Behind
<1>5. Times!Cardinality(behind) \in Nat \ {0} /\ Times!Total(behind) \in Nat
  BY <1>4, TotalIs
<1>6. Mine(basis, samples, i) = [slot |-> slot, size |-> Times!Cardinality(behind), total |-> Times!Total(behind)]
  BY DEF Mine, Times!Bucket
<1> HIDE DEF slot, behind
<1>7. Times!Count(samples, slot) = Times!Cardinality(behind)
  BY <1>3 DEF Times!Count
<1> QED
  BY <1>1, <1>3, <1>5, <1>6, <1>7 DEF slot, IsOf

\* Means compared by their products.
MeanLaw(a, b, c, d, e, f) ==
  /\ a * d > c * b /\ ~(e * d > c * f) => a * f > e * b
  /\ ~(c * b > a * d) /\ c * f > e * d => a * f > e * b
  /\ ~(c * b > a * d) /\ ~(e * d > c * f) => ~(e * b > a * f)

LEMMA MeansCompare ==
  ASSUME NEW a \in Nat, NEW b \in Nat \ {0}, NEW c \in Nat, NEW d \in Nat \ {0}, NEW e \in Nat, NEW f \in Nat \ {0}
  PROVE  MeanLaw(a, b, c, d, e, f)
<1>1. \A x, y \in Int : (x > y <=> x * b > y * b) /\ (x > y <=> x * d > y * d) /\ (x > y <=> x * f > y * f)
  OBVIOUS
<1> DEFINE ad == a * d
           cb == c * b
           cf == c * f
           ed == e * d
           af == a * f
           eb == e * b
<1>2. ad \in Int /\ cb \in Int /\ cf \in Int /\ ed \in Int /\ af \in Int /\ eb \in Int
  OBVIOUS
<1>3. af * d = ad * f /\ eb * d = ed * b /\ cb * f = cf * b
  OBVIOUS
<1> HIDE DEF ad, cb, cf, ed, af, eb
<1>4. /\ (ad > cb) <=> (ad * f > cb * f)
      /\ (cb > ad) <=> (cb * f > ad * f)
      /\ (cf > ed) <=> (cf * b > ed * b)
      /\ (ed > cf) <=> (ed * b > cf * b)
      /\ (af > eb) <=> (af * d > eb * d)
      /\ (eb > af) <=> (eb * d > af * d)
  BY <1>1, <1>2
<1>5. /\ ad * f \in Int /\ cb * f \in Int /\ ed * b \in Int
  BY <1>2
<1>6. /\ ad > cb /\ ~(ed > cf) => af > eb
      /\ ~(cb > ad) /\ cf > ed => af > eb
      /\ ~(cb > ad) /\ ~(ed > cf) => ~(eb > af)
  BY <1>3, <1>4, <1>5
<1> QED
  BY <1>6 DEF MeanLaw, ad, cb, cf, ed, af, eb

Prior(E) == {p \in E \X E : Times!GoesFirst(p[1], p[2])}

LEMMA BucketsInOrder ==
  ASSUME Posted, NEW basis \in Bases, NEW samples \in SUBSET DOMAIN published,
         NEW E \in SUBSET Times!Buckets(basis, samples)
  PROVE  Orders(Prior(E), E)
<1>1. \A a \in E : \E i \in samples : a = Mine(basis, samples, i)
  BY DEF Times!Buckets, Mine
<1>2. \A a \in E : /\ a.size \in Nat \ {0} /\ a.total \in Nat /\ a.slot = <<a.slot[1], a.slot[2]>>
                   /\ a.slot[2] \in Int /\ (IF basis = "weekday_hour" THEN a.slot[1] \in Int ELSE a.slot[1] = AnyDay)
  <2> SUFFICES ASSUME NEW a \in E
               PROVE  /\ a.size \in Nat \ {0} /\ a.total \in Nat /\ a.slot = <<a.slot[1], a.slot[2]>>
                      /\ a.slot[2] \in Int /\ (IF basis = "weekday_hour" THEN a.slot[1] \in Int ELSE a.slot[1] = AnyDay)
    OBVIOUS
  <2>1. PICK i \in samples : a = Mine(basis, samples, i)
    BY <1>1
  <2>2. Times!Day(i) \in Int /\ Times!HourOf(i) \in Int
    BY SlotTypes
  <2> QED
    BY <2>1, <2>2, BucketIs DEF IsOf
<1>3. \A a, b \in E : a.slot = b.slot => a = b
  <2> SUFFICES ASSUME NEW a \in E, NEW b \in E, a.slot = b.slot PROVE a = b
    OBVIOUS
  <2>1. PICK i \in samples, j \in samples : a = Mine(basis, samples, i) /\ b = Mine(basis, samples, j)
    BY <1>1
  <2>2. Times!SlotOf(basis, i) = Times!SlotOf(basis, j)
    BY <2>1, BucketIs DEF IsOf
  <2> QED
    BY <2>1, <2>2 DEF Mine
<1>4. \A a, b, c \in E :
        /\ Times!Better(a, b) /\ ~Times!Better(c, b) => Times!Better(a, c)
        /\ ~Times!Better(b, a) /\ Times!Better(b, c) => Times!Better(a, c)
        /\ ~Times!Better(b, a) /\ ~Times!Better(c, b) => ~Times!Better(c, a)
  <2> SUFFICES ASSUME NEW a \in E, NEW b \in E, NEW c \in E
               PROVE  /\ Times!Better(a, b) /\ ~Times!Better(c, b) => Times!Better(a, c)
                      /\ ~Times!Better(b, a) /\ Times!Better(b, c) => Times!Better(a, c)
                      /\ ~Times!Better(b, a) /\ ~Times!Better(c, b) => ~Times!Better(c, a)
    OBVIOUS
  <2>1. /\ a.total \in Nat /\ b.total \in Nat /\ c.total \in Nat
        /\ a.size \in Nat \ {0} /\ b.size \in Nat \ {0} /\ c.size \in Nat \ {0}
    BY <1>2
  <2> DEFINE at == a.total
             as == a.size
             bt == b.total
             bs == b.size
             ct == c.total
             cs == c.size
  <2>2. /\ Times!Better(a, b) <=> at * bs > bt * as
        /\ Times!Better(c, b) <=> ct * bs > bt * cs
        /\ Times!Better(b, a) <=> bt * as > at * bs
        /\ Times!Better(b, c) <=> bt * cs > ct * bs
        /\ Times!Better(a, c) <=> at * cs > ct * as
        /\ Times!Better(c, a) <=> ct * as > at * cs
    BY DEF Times!Better
  <2> HIDE DEF at, as, bt, bs, ct, cs
  <2>3. at \in Nat /\ bt \in Nat /\ ct \in Nat /\ as \in Nat \ {0} /\ bs \in Nat \ {0} /\ cs \in Nat \ {0}
    BY <2>1 DEF at, as, bt, bs, ct, cs
  <2>4. /\ at * bs > bt * as /\ ~(ct * bs > bt * cs) => at * cs > ct * as
        /\ ~(bt * as > at * bs) /\ bt * cs > ct * bs => at * cs > ct * as
        /\ ~(bt * as > at * bs) /\ ~(ct * bs > bt * cs) => ~(ct * as > at * cs)
    <3>1. MeanLaw(at, as, bt, bs, ct, cs)
      BY <2>3, MeansCompare
    <3> QED
      BY <3>1 DEF MeanLaw
  <2> QED
    BY <2>2, <2>4
<1>5. \A a, b \in E : Times!Better(a, b) => ~Times!Better(b, a)
  <2> SUFFICES ASSUME NEW a \in E, NEW b \in E, Times!Better(a, b), Times!Better(b, a) PROVE FALSE
    OBVIOUS
  <2>1. a.total * b.size \in Int /\ b.total * a.size \in Int
    BY <1>2
  <2> QED
    BY <2>1 DEF Times!Better
<1>6. \A a, b, c \in E :
        /\ ~Times!Earlier(a.slot, a.slot)
        /\ a # b => Times!Earlier(a.slot, b.slot) \/ Times!Earlier(b.slot, a.slot)
        /\ Times!Earlier(a.slot, b.slot) /\ Times!Earlier(b.slot, c.slot) => Times!Earlier(a.slot, c.slot)
  <2> SUFFICES ASSUME NEW a \in E, NEW b \in E, NEW c \in E
               PROVE  /\ ~Times!Earlier(a.slot, a.slot)
                      /\ a # b => Times!Earlier(a.slot, b.slot) \/ Times!Earlier(b.slot, a.slot)
                      /\ Times!Earlier(a.slot, b.slot) /\ Times!Earlier(b.slot, c.slot) => Times!Earlier(a.slot, c.slot)
    OBVIOUS
  <2>1. a # b => a.slot[1] # b.slot[1] \/ a.slot[2] # b.slot[2]
    BY <1>2, <1>3
  <2>2. CASE basis = "weekday_hour"
    BY <1>2, <2>1, <2>2 DEF Times!Earlier
  <2>3. CASE basis # "weekday_hour"
    BY <1>2, <2>1, <2>3 DEF Times!Earlier
  <2> QED
    BY <2>2, <2>3
<1>7. \A a, b \in E : <<a, b>> \in Prior(E) <=> Times!GoesFirst(a, b)
  BY DEF Prior
<1>8. \A a \in E : ~Times!GoesFirst(a, a)
  BY <1>5, <1>6 DEF Times!GoesFirst
<1>9. \A a, b \in E : a # b => Times!GoesFirst(a, b) \/ Times!GoesFirst(b, a)
  BY <1>6 DEF Times!GoesFirst
<1>10. \A a, b, c \in E : Times!GoesFirst(a, b) /\ Times!GoesFirst(b, c) => Times!GoesFirst(a, c)
  BY <1>4, <1>5, <1>6 DEF Times!GoesFirst
<1> QED
  BY <1>7, <1>8, <1>9, <1>10 DEF Orders

LEMMA OneRanking ==
  ASSUME Posted, NEW basis \in Bases, NEW samples \in SUBSET DOMAIN published,
         NEW E \in SUBSET Times!Buckets(basis, samples)
  PROVE  /\ IsFiniteSet(E) /\ Cardinality(E) \in Nat
         /\ \E r : /\ Times!Rankings(E) = {r} /\ r \in [1..Cardinality(E) -> E]
                   /\ \A i, j \in 1..Cardinality(E) : i # j => r[i] # r[j]
                   /\ \A i, j \in 1..Cardinality(E) : Times!GoesFirst(r[i], r[j]) => i < j
                   /\ \A a \in E : \E i \in 1..Cardinality(E) : r[i] = a
<1> DEFINE of == [i \in samples |-> Times!Bucket(basis, samples, Times!SlotOf(basis, i))]
<1>1. of \in Surjection(samples, Times!Buckets(basis, samples))
  BY DEF Surjection, Times!Buckets
<1>2. IsFiniteSet(E) /\ Cardinality(E) \in Nat
  <2>1. IsFiniteSet(samples)
    BY TotalIs
  <2>2. IsFiniteSet(Times!Buckets(basis, samples))
    BY <1>1, <2>1, FS_Surjection
  <2> QED
    BY <2>2, FS_Subset, FS_CardinalityType
<1> DEFINE n == Cardinality(E)
<1>3. PICK r : Lists(r, n, Prior(E), E) /\ \A q : Lists(q, n, Prior(E), E) => q = r
  BY <1>2, BucketsInOrder, OneListing DEF OneList
<1>4. \A q : Lists(q, n, Prior(E), E) <=> q \in Times!Rankings(E)
  <2> SUFFICES ASSUME NEW q PROVE Lists(q, n, Prior(E), E) <=> q \in Times!Rankings(E)
    OBVIOUS
  <2>1. Times!Cardinality(E) = n
    BY TheSameCounts
  <2>2. q \in Times!SetToSeqs(E) <=> q \in [1..n -> E] /\ \A i, j \in 1..n : i # j => q[i] # q[j]
    BY <2>1 DEF Times!SetToSeqs
  <2>3. ASSUME q \in [1..n -> E]
        PROVE  /\ DOMAIN q = 1..n
               /\ \A i, j \in 1..n : <<q[i], q[j]>> \in Prior(E) <=> Times!GoesFirst(q[i], q[j])
    BY <2>3 DEF Prior
  <2>4. q \in Times!Rankings(E) <=> q \in Times!SetToSeqs(E) /\ \A i, j \in DOMAIN q : Times!GoesFirst(q[i], q[j]) => i < j
    BY DEF Times!Rankings
  <2> HIDE DEF n
  <2> QED
    BY <2>2, <2>3, <2>4 DEF Lists
<1>5. Times!Rankings(E) = {r}
  BY <1>3, <1>4
<1>6. /\ r \in [1..n -> E]
      /\ \A i, j \in 1..n : i # j => r[i] # r[j]
      /\ \A i, j \in 1..n : Times!GoesFirst(r[i], r[j]) => i < j
  BY <1>3 DEF Lists, Prior
<1>7. \A a \in E : \E i \in 1..n : r[i] = a
  BY <1>2, <1>6, ListsAll
<1> QED
  BY <1>2, <1>5, <1>6, <1>7

\* The clocks are set forward over w.
SkippedAt(r, w) ==
  /\ Times!Local(r) = w + 1
  /\ \E s \in zone.shifts : s.at = r /\ s.to > Times!OffsetIn(zone, r - 1)

LEMMA SkipsAre ==
  ASSUME InZone, NEW date \in Int, NEW hr \in 0..(DayLen - 1), NEW r, Comes(r, date * DayLen + hr),
         Times!LocalInstant(date, hr) # r
  PROVE  SkippedAt(r, date * DayLen + hr)
<1> DEFINE w == date * DayLen + hr
<1>1. DayLen \in Nat \ {0} /\ hr \in Int /\ w \in Int /\ w + 1 \in Int
  BY DEF InZone, Times!TimingAssumption
<1>2. /\ r \in Int /\ r - 1 \in Int /\ Times!Local(r) \in Int /\ Times!Local(r - 1) \in Int
      /\ Times!Local(r) >= w /\ Times!Local(r - 1) < w
  BY OffsetIs DEF Comes
<1>3. Times!Local(r) - Times!Local(r - 1) \in 0..2
  BY <1>2, ClocksMoveOn
<1>4. \A t \in Int : Times!Local(t) \in Int /\ (Times!Local(t) >= w <=> t >= r)
  BY <1>1, OffsetIs, SinceItComes
<1>5. Times!Shows(date, hr) = {t \in Int : Times!Local(t) = w}
  BY <1>1, ShowsIs
<1>6. Times!Local(r) # w
  <2> SUFFICES ASSUME Times!Local(r) = w PROVE FALSE
    OBVIOUS
  <2>1. r \in Times!Shows(date, hr) /\ Times!Shows(date, hr) \subseteq Int
    BY <1>2, <1>5
  <2>2. \A t \in Times!Shows(date, hr) : r <= t
    BY <1>1, <1>2, <1>4, <1>5
  <2>3. Times!Min(Times!Shows(date, hr)) = r
    BY <2>1, <2>2, LeastIs
  <2> QED
    BY <2>1, <2>3 DEF Times!LocalInstant
<1>7. Times!Local(r) = w + 1 /\ Times!Local(r - 1) = w - 1
  BY <1>1, <1>2, <1>3, <1>6
<1>8. Times!Offset(r) \in Int /\ Times!Offset(r - 1) \in Int /\ Times!Local(r) = r + Times!Offset(r)
      /\ Times!Local(r - 1) = (r - 1) + Times!Offset(r - 1)
  BY <1>2, OffsetIs
<1>9. Times!Offset(r) > Times!Offset(r - 1)
  BY <1>1, <1>2, <1>7, <1>8
<1>10. PICK s \in zone.shifts : s.at = r /\ Times!Offset(r) = s.to
  BY <1>2, <1>8, <1>9, ClocksMoveOn
<1> QED
  BY <1>7, <1>9, <1>10 DEF SkippedAt, Times!Offset

LEMMA NextIsAfterNow ==
  ASSUME InZone, now \in 0..MaxNow, NEW day \in {AnyDay} \cup 0..(WeekLen - 1), NEW hr \in 0..(DayLen - 1)
  PROVE  Times!NextOccurrence(day, hr) > now
<1> DEFINE today == Times!Date(now)
           Has(d) == day = AnyDay \/ Times!Weekday(d) = day
           found == {date \in today..(today + 2 * WeekLen) : Has(date) /\ Times!LocalInstant(date, hr) > now}
           Skips(d) == Times!LocalInstant(d, hr) # Coming(d, hr)
<1>1. today \in Int /\ now \in Int /\ WeekLen \in Nat \ {0} /\ DayLen \in Nat \ {0} /\ hr \in Int
  BY TodayIs DEF InZone, Times!TimingAssumption
<1>2. PICK d \in today + 1..today + WeekLen : Has(d)
  BY <1>1, SomeDateHas
<1>3. d \in Int /\ d + WeekLen \in Int /\ d > today /\ d + WeekLen > today
      /\ d \in today..(today + 2 * WeekLen) /\ d + WeekLen \in today..(today + 2 * WeekLen)
  BY <1>1
<1>4. Has(d + WeekLen)
  <2>1. d = WeekLen * (d \div WeekLen) + (d % WeekLen) /\ d \div WeekLen \in Int /\ d % WeekLen \in 0..(WeekLen - 1)
    BY <1>1, <1>3, Divided
  <2> DEFINE q == d \div WeekLen
             m == d % WeekLen
  <2>2. (q + 1) * WeekLen + m = d + WeekLen /\ q + 1 \in Int /\ m \in 0..(WeekLen - 1)
    <3> HIDE DEF q, m
    <3> QED
      BY <1>1, <1>3, <2>1 DEF q, m
  <2> HIDE DEF q
  <2>3. ((q + 1) * WeekLen + m) % WeekLen = m
    BY <1>1, <2>2, Quotient
  <2>4. Times!Weekday(d + WeekLen) = Times!Weekday(d)
    BY <2>2, <2>3 DEF Times!Weekday
  <2> QED
    BY <1>2, <2>4
<1>5. Coming(d, hr) > now /\ Coming(d + WeekLen, hr) > now
  BY <1>3, WhatHasCome
<1>6. ~(Skips(d) /\ Skips(d + WeekLen))
  <2> SUFFICES ASSUME Skips(d), Skips(d + WeekLen) PROVE FALSE
    OBVIOUS
  <2> DEFINE r == Coming(d, hr)
             s == Coming(d + WeekLen, hr)
             w == d * DayLen + hr
             e == WeekLen * DayLen
  <2>1. w \in Int /\ e \in Int /\ (d + WeekLen) * DayLen + hr = w + e /\ e >= 1
    BY <1>1, <1>3
  <2>2. Comes(r, w) /\ Comes(s, (d + WeekLen) * DayLen + hr) /\ r \in Int /\ s \in Int
    BY <1>3, ComingIs
  <2> HIDE DEF r, s, w, e, Skips
  <2>3. Comes(s, w + e)
    BY <2>1, <2>2
  <2>4. SkippedAt(r, w) /\ SkippedAt(s, w + e)
    BY <1>1, <1>3, <2>1, <2>2, <2>3, SkipsAre DEF Skips, r, s, w, e
  <2>5. /\ Times!Local(r) = w + 1 /\ Times!Local(s) = w + e + 1
        /\ Times!Offset(r) \in Int /\ Times!Offset(s) \in Int
        /\ Times!Local(r) = r + Times!Offset(r) /\ Times!Local(s) = s + Times!Offset(s)
    BY <2>1, <2>2, <2>4, OffsetIs DEF SkippedAt
  <2>6. Times!Offset(r) - Times!Offset(s) <= DayLen /\ Times!Offset(s) - Times!Offset(r) <= DayLen
    BY <2>2, OffsetIs DEF InZone, Times!TimingAssumption, Times!ZoneOk
  <2>7. s > r
    <3> SUFFICES ASSUME s <= r PROVE FALSE
      BY <2>2
    <3>1. Times!Local(s) <= Times!Local(r)
      BY <2>2, ClocksKeepOn
    <3> QED
      BY <2>1, <2>5, <3>1
  <2>8. s - r <= e + DayLen
    BY <1>1, <2>1, <2>2, <2>5, <2>6
  <2>9. s - r > (WeekLen + 1) * DayLen
    <3>1. PICK a \in zone.shifts : a.at = r /\ a.to > Times!OffsetIn(zone, r - 1)
      BY <2>4 DEF SkippedAt
    <3>2. PICK b \in zone.shifts : b.at = s /\ b.to > Times!OffsetIn(zone, s - 1)
      BY <2>4 DEF SkippedAt
    <3>3. a.at < b.at /\ a.to > Times!OffsetIn(zone, a.at - 1) /\ b.to > Times!OffsetIn(zone, b.at - 1)
      BY <2>2, <2>7, <3>1, <3>2
    <3>4. b.at - a.at > (WeekLen + 1) * DayLen
      BY <3>3 DEF InZone, Times!TimingAssumption, Times!ZoneOk
    <3> QED
      BY <3>1, <3>2, <3>4
  <2>10. (WeekLen + 1) * DayLen = e + DayLen
    BY <1>1 DEF e
  <2> QED
    BY <1>1, <2>1, <2>2, <2>8, <2>9, <2>10
<1>7. found # {}
  <2>1. CASE ~Skips(d)
    <3>1. d \in found
      BY <1>2, <1>3, <1>5, <2>1
    <3> QED
      BY <3>1
  <2>2. CASE ~Skips(d + WeekLen)
    <3>1. d + WeekLen \in found
      BY <1>3, <1>4, <1>5, <2>2
    <3> QED
      BY <3>1
  <2> QED
    BY <1>6, <2>1, <2>2
<1>8. \A c \in found : c \in Int /\ today <= c
  BY <1>1
<1>9. PICK first \in found : \A c \in found : first <= c
  <2> DEFINE N == {k \in Nat : today + k \in found}
  <2> HIDE DEF found
  <2>1. \A c \in found : c - today \in N
    <3>1. \A c \in found : c - today \in Nat /\ today + (c - today) = c
      BY <1>1, <1>8
    <3> QED
      BY <3>1
  <2>2. N # {}
    BY <1>7, <2>1
  <2>3. PICK k \in N : \A m \in N : k <= m
    BY <2>2, Least
  <2>4. \A c \in found : today + k <= c
    BY <1>1, <1>8, <2>1, <2>3
  <2> QED
    BY <2>3, <2>4
<1>10. Times!Min(found) = first
  <2> HIDE DEF found
  <2>1. found \subseteq Int
    BY <1>8
  <2> QED
    BY <1>9, <2>1, LeastIs
<1>11. Times!NextOccurrence(day, hr) = IF found = {} THEN now ELSE Times!LocalInstant(Times!Min(found), hr)
  BY DEF Times!NextOccurrence
<1>12. Times!LocalInstant(first, hr) > now
  BY <1>9
<1> QED
  <2> HIDE DEF found
  <2> QED
    BY <1>7, <1>10, <1>11, <1>12

LEMMA NumberOfClaims ==
  ASSUME NEW k \in Nat, NEW f, DOMAIN f = 1..k, \A i, j \in 1..k : i # j => f[i] # f[j]
  PROVE  Times!Cardinality({f[i] : i \in 1..k}) = k
<1> DEFINE C == {f[i] : i \in 1..k}
           g == [i \in 1..k |-> f[i]]
<1>1. g \in Surjection(1..k, C) /\ g \in Injection(1..k, C)
  BY DEF Surjection, Injection, IsInjective
<1>2. IsFiniteSet(1..k) /\ Cardinality(1..k) = k
  BY FS_Interval
<1>3. Cardinality(C) = k
  <2> HIDE DEF C, g
  <2> QED
    BY <1>1, <1>2, FS_Surjection
<1> QED
  BY <1>3, TheSameCounts

\* An answer of buckets.
LEMMA RankedIsEarned ==
  ASSUME Posted, NEW basis \in Bases, NEW samples \in SUBSET DOMAIN published,
         basis = "hour_of_day" => Times!Eligible("weekday_hour", samples) = {},
         NEW n \in Nat, NEW r \in [1..n -> Times!Eligible(basis, samples)],
         \A i, j \in 1..n : i # j => r[i] # r[j],
         \A i, j \in 1..n : Times!GoesFirst(r[i], r[j]) => i < j,
         \A a \in Times!Eligible(basis, samples) : \E i \in 1..n : r[i] = a
  PROVE  Times!Earned(samples, Times!Answer(samples, basis, r))
<1> DEFINE E == Times!Eligible(basis, samples)
           k == Times!Min({MaxSlots, n})
           slots == [i \in 1..k |-> Times!Slot(samples, r[i])]
           claimed == {slots[i].slot : i \in DOMAIN slots}
           mine(p) == Times!SlotOf("weekday_hour", p)
<1>1. MaxSlots \in Nat /\ MinFine \in Nat
  BY DEF Posted, InZone, Times!TimingAssumption
<1>2. k \in 0..n /\ (k = n \/ k = MaxSlots)
  <2>1. CASE MaxSlots <= n
    <3>1. {MaxSlots, n} \in SUBSET Int /\ MaxSlots \in {MaxSlots, n} /\ \A m \in {MaxSlots, n} : MaxSlots <= m
      BY <1>1, <2>1
    <3>2. Times!Min({MaxSlots, n}) = MaxSlots
      BY <3>1, LeastIs
    <3> QED
      BY <1>1, <2>1, <3>2
  <2>2. CASE ~(MaxSlots <= n)
    <3>1. {MaxSlots, n} \in SUBSET Int /\ n \in {MaxSlots, n} /\ \A m \in {MaxSlots, n} : n <= m
      BY <1>1, <2>2
    <3>2. Times!Min({MaxSlots, n}) = n
      BY <3>1, LeastIs
    <3> QED
      BY <3>2
  <2> QED
    BY <2>1, <2>2
<1> HIDE DEF k
<1>3. Len(r) = n
  OBVIOUS
<1>4. Times!Answer(samples, basis, r) = [basis |-> basis, slots |-> slots]
  BY <1>3 DEF Times!Answer, k
<1>5. k \in Nat /\ 1..k \subseteq 1..n /\ DOMAIN slots = 1..k /\ Len(slots) = k
  BY <1>2
<1>6. \A i \in 1..k : /\ slots[i].slot = r[i].slot /\ slots[i].size = r[i].size
                      /\ slots[i].lift => r[i].size >= MinFine
                      /\ slots[i].next = Times!NextOccurrence(r[i].slot[1], r[i].slot[2])
  BY DEF Times!Slot, Times!Lift
<1> HIDE DEF slots
<1>7. \A a \in E : \E p \in samples : a = Mine(basis, samples, p)
  BY DEF Times!Eligible, Times!Buckets, Mine
<1>8. \A a \in E : /\ a.size = Times!Count(samples, a.slot) /\ a.total = Times!Total(Times!Posts(samples, a.slot))
                   /\ a.slot[1] \in {AnyDay} \cup 0..(WeekLen - 1) /\ a.slot[2] \in 0..(DayLen - 1)
                   /\ basis = "weekday_hour" => a.size >= MinFine
  <2> SUFFICES ASSUME NEW a \in E
               PROVE  /\ a.size = Times!Count(samples, a.slot) /\ a.total = Times!Total(Times!Posts(samples, a.slot))
                      /\ a.slot[1] \in {AnyDay} \cup 0..(WeekLen - 1) /\ a.slot[2] \in 0..(DayLen - 1)
                      /\ basis = "weekday_hour" => a.size >= MinFine
    OBVIOUS
  <2>1. PICK p \in samples : a = Mine(basis, samples, p)
    BY <1>7
  <2>2. Times!Day(p) \in 0..(WeekLen - 1) /\ Times!HourOf(p) \in 0..(DayLen - 1)
    BY SlotTypes
  <2>3. basis = "weekday_hour" => a.size >= MinFine
    BY DEF Times!Eligible
  <2> QED
    <3>1. IsOf(a, basis, samples, p)
      BY <2>1, BucketIs
    <3> QED
      BY <2>2, <2>3, <3>1 DEF IsOf
<1>9. \A a, b \in E : a.slot = b.slot => a = b
  <2> SUFFICES ASSUME NEW a \in E, NEW b \in E, a.slot = b.slot PROVE a = b
    OBVIOUS
  <2>1. PICK p \in samples, q \in samples : a = Mine(basis, samples, p) /\ b = Mine(basis, samples, q)
    BY <1>7
  <2>2. Times!SlotOf(basis, p) = Times!SlotOf(basis, q)
    <3>1. IsOf(a, basis, samples, p) /\ IsOf(b, basis, samples, q)
      BY <2>1, BucketIs
    <3> QED
      BY <3>1 DEF IsOf
  <2> QED
    BY <2>1, <2>2 DEF Mine
<1>10. claimed = {r[i].slot : i \in 1..k}
  BY <1>5, <1>6
<1>11. Times!Cardinality(claimed) = k
  <2> DEFINE f == [i \in 1..k |-> r[i].slot]
  <2>1. \A i, j \in 1..k : i # j => f[i] # f[j]
    BY <1>5, <1>9
  <2>2. claimed = {f[i] : i \in 1..k} /\ DOMAIN f = 1..k
    BY <1>10
  <2> HIDE DEF f, claimed
  <2> QED
    BY <1>5, <2>1, <2>2, NumberOfClaims
<1> HIDE DEF E, claimed
<1>12. \A i \in 1..k : r[i] \in E
  BY <1>5 DEF E
<1>13. ASSUME NEW i \in 1..k
       PROVE  /\ slots[i].next > now
              /\ slots[i].lift => Times!Count(samples, slots[i].slot) >= MinFine
              /\ slots[i].size = Times!Count(samples, slots[i].slot)
  <2>1. Times!NextOccurrence(r[i].slot[1], r[i].slot[2]) > now
    BY <1>8, <1>12, NextIsAfterNow DEF Posted
  <2> QED
    BY <1>6, <1>8, <1>12, <2>1
<1>14. ASSUME basis = "weekday_hour", NEW p \in samples, mine(p) \notin claimed, Times!Count(samples, mine(p)) >= MinFine
       PROVE  Times!Cardinality(claimed) = MaxSlots /\ \A a \in claimed : ~Times!Beats(samples, mine(p), a)
  <2> DEFINE b == Mine(basis, samples, p)
  <2>1. /\ b.slot = mine(p) /\ b.size = Times!Count(samples, mine(p))
        /\ b.total = Times!Total(Times!Posts(samples, mine(p)))
    <3>1. IsOf(Mine(basis, samples, p), basis, samples, p)
      BY BucketIs
    <3> QED
      BY <1>14, <3>1 DEF IsOf
  <2>2. b \in E
    BY <1>14, <2>1 DEF E, Times!Eligible, Times!Buckets, Mine
  <2> HIDE DEF b
  <2>3. PICK j \in 1..n : r[j] = b
    BY <2>2 DEF E
  <2>4. j \notin 1..k
    BY <1>10, <1>14, <2>1, <2>3
  <2>5. k < j /\ k # n
    BY <1>2, <2>4
  <2>6. ASSUME NEW i \in 1..k PROVE ~Times!Beats(samples, mine(p), r[i].slot)
    <3>1. ~Times!GoesFirst(r[j], r[i])
      BY <1>5, <2>5
    <3>2. ~Times!Better(b, r[i])
      BY <2>3, <3>1 DEF Times!GoesFirst
    <3> QED
      BY <1>8, <1>12, <2>1, <3>2 DEF Times!Better, Times!Beats
  <2> QED
    BY <1>2, <1>10, <1>11, <2>5, <2>6
<1>15. basis = "weekday_hour" => \A a \in claimed : Times!Count(samples, a) >= MinFine
  BY <1>8, <1>10, <1>12
<1>16. ASSUME basis = "hour_of_day", NEW p \in samples PROVE Times!Count(samples, mine(p)) < MinFine
  <2> DEFINE b == Mine("weekday_hour", samples, p)
  <2>1. b.size = Times!Count(samples, mine(p)) /\ b.size \in Nat
    <3>1. "weekday_hour" \in Bases
      BY DEF Bases
    <3>2. IsOf(Mine("weekday_hour", samples, p), "weekday_hour", samples, p)
      BY <3>1, BucketIs
    <3> QED
      BY <3>2 DEF IsOf
  <2>2. b \in Times!Buckets("weekday_hour", samples) /\ b \notin Times!Eligible("weekday_hour", samples)
    BY <1>16 DEF Times!Buckets, Mine
  <2> HIDE DEF b
  <2>3. ~(b.size >= MinFine)
    BY <2>2 DEF Times!Eligible
  <2> QED
    BY <1>1, <2>1, <2>3
<1> DEFINE ans == Times!Answer(samples, basis, r)
<1>17. ans.basis = basis /\ ans.slots = slots
  BY <1>4
<1>18. {ans.slots[i].slot : i \in DOMAIN ans.slots} = claimed
  BY <1>17 DEF claimed
<1>19. \A b \in {mine(p) : p \in samples} \ claimed :
         basis = "weekday_hour" /\ Times!Count(samples, b) >= MinFine =>
           Times!Cardinality(claimed) = MaxSlots /\ \A a \in claimed : ~Times!Beats(samples, b, a)
  BY <1>14
<1>20. basis = "hour_of_day" => \A p \in samples : Times!Count(samples, mine(p)) < MinFine
  BY <1>16
<1>21. \A i \in DOMAIN ans.slots :
         /\ ans.slots[i].next > now
         /\ ans.slots[i].lift => Times!Count(samples, ans.slots[i].slot) >= MinFine
         /\ ans.slots[i].size = Times!Count(samples, ans.slots[i].slot)
  BY <1>5, <1>13, <1>17
<1>22. Times!Cardinality(claimed) = Len(ans.slots)
  BY <1>5, <1>11, <1>17
<1> HIDE DEF ans
<1>23. Times!Earned(samples, ans)
  BY <1>15, <1>17, <1>18, <1>19, <1>20, <1>21, <1>22 DEF Times!Earned
<1> QED
  BY <1>23 DEF ans

LEMMA DefaultsAreEarned ==
  ASSUME Posted, NEW samples
  PROVE  Times!Earned(samples, [basis |-> "defaults", slots |-> [i \in DOMAIN BuiltIn |-> Times!Default(BuiltIn[i])]])
<1> DEFINE slots == [i \in DOMAIN BuiltIn |-> Times!Default(BuiltIn[i])]
           claimed == {slots[i].slot : i \in DOMAIN slots}
           k == Len(BuiltIn)
           Slots == (0..(WeekLen - 1)) \X (0..(DayLen - 1))
<1>1. BuiltIn \in Seq(Slots) /\ \A i, j \in DOMAIN BuiltIn : BuiltIn[i] = BuiltIn[j] => i = j
  BY DEF Posted, InZone, Times!TimingAssumption
<1>2. k \in Nat /\ DOMAIN BuiltIn = 1..k /\ DOMAIN slots = 1..k
  BY <1>1
<1>3. Len(slots) = k
  BY <1>2
<1>4. \A i \in 1..k : /\ slots[i].slot = BuiltIn[i] /\ slots[i].lift = FALSE
                      /\ slots[i].next = Times!NextOccurrence(BuiltIn[i][1], BuiltIn[i][2])
  BY <1>2 DEF Times!Default
<1> HIDE DEF slots
<1>5. \A i \in 1..k : BuiltIn[i][1] \in {AnyDay} \cup 0..(WeekLen - 1) /\ BuiltIn[i][2] \in 0..(DayLen - 1)
  <2>1. \A i \in 1..k : BuiltIn[i] \in Slots
    BY <1>1, <1>2
  <2> QED
    BY <2>1
<1>6. \A i \in 1..k : slots[i].next > now
  BY <1>4, <1>5, NextIsAfterNow DEF Posted
<1>7. Times!Cardinality(claimed) = k
  <2>1. claimed = {BuiltIn[i] : i \in 1..k}
    BY <1>2, <1>4
  <2>2. \A i, j \in 1..k : i # j => BuiltIn[i] # BuiltIn[j]
    BY <1>1, <1>2
  <2> HIDE DEF claimed, k
  <2> QED
    BY <1>2, <2>1, <2>2, NumberOfClaims
<1> HIDE DEF claimed, k
<1> DEFINE ans == [basis |-> "defaults", slots |-> slots]
<1>8. ans.basis = "defaults" /\ ans.slots = slots
  OBVIOUS
<1>9. {ans.slots[i].slot : i \in DOMAIN ans.slots} = claimed
  BY <1>8 DEF claimed
<1> HIDE DEF ans
<1>10. Times!Earned(samples, ans)
  BY <1>2, <1>3, <1>4, <1>6, <1>7, <1>8, <1>9 DEF Times!Earned
<1> QED
  BY <1>10 DEF ans, slots

LEMMA RecommendedIsEarned ==
  ASSUME Posted, NEW samples \in SUBSET DOMAIN published
  PROVE  /\ Times!Cardinality(Times!Recommend(samples)) = 1
         /\ \A r \in Times!Recommend(samples) : Times!Earned(samples, r)
<1> SUFFICES \E r : Times!Recommend(samples) = {r} /\ Times!Earned(samples, r)
  BY TheSameCounts, FS_Singleton
<1>1. ASSUME NEW basis \in Bases, basis = "hour_of_day" => Times!Eligible("weekday_hour", samples) = {}
      PROVE  \E r : Times!Answers(basis, samples) = {r} /\ Times!Earned(samples, r)
  <2> DEFINE E == Times!Eligible(basis, samples)
             n == Cardinality(E)
  <2>1. E \in SUBSET Times!Buckets(basis, samples)
    BY DEF Times!Eligible
  <2>2. PICK q : /\ Times!Rankings(E) = {q} /\ q \in [1..n -> E]
                 /\ \A i, j \in 1..n : i # j => q[i] # q[j]
                 /\ \A i, j \in 1..n : Times!GoesFirst(q[i], q[j]) => i < j
                 /\ \A a \in E : \E i \in 1..n : q[i] = a
    BY <2>1, OneRanking
  <2>3. n \in Nat
    BY <2>1, OneRanking
  <2>4. Times!Answers(basis, samples) = {Times!Answer(samples, basis, q)}
    BY <2>2 DEF Times!Answers
  <2>5. Times!Earned(samples, Times!Answer(samples, basis, q))
    <3> HIDE DEF n
    <3> QED
      BY <1>1, <2>2, <2>3, RankedIsEarned
  <2> QED
    BY <2>4, <2>5
<1>2. CASE Times!Cardinality(samples) < MinPlatform
  BY <1>2, DefaultsAreEarned DEF Times!Recommend
<1>3. CASE ~(Times!Cardinality(samples) < MinPlatform) /\ Times!Eligible("weekday_hour", samples) # {}
  BY <1>1, <1>3 DEF Times!Recommend, Bases
<1>4. CASE ~(Times!Cardinality(samples) < MinPlatform) /\ Times!Eligible("weekday_hour", samples) = {}
  BY <1>1, <1>4 DEF Times!Recommend, Bases
<1> QED
  BY <1>2, <1>3, <1>4

\* Whatever was posted, wherever and when: the recommendation is one, in whichever order the
\* buckets come out of their map, and every slot of it has the posts behind it that it claims,
\* is not beaten by one left out, and is still to come (recommend_slots).
THEOREM RecommendationIsEarned ==
  ASSUME Times!TimingAssumption
  PROVE  NodeSpec => []SlotsAreEarned
<1>1. NodeSpec => []Posted
  BY NodePosts
<1>2. Posted => SlotsAreEarned
  <2> SUFFICES ASSUME Posted, NEW platforms
               PROVE  /\ Times!Cardinality(Times!Recommend(Times!Samples(platforms))) = 1
                      /\ \A r \in Times!Recommend(Times!Samples(platforms)) : Times!Earned(Times!Samples(platforms), r)
    BY DEF SlotsAreEarned, Times!SlotsAreEarned
  <2>1. Times!Samples(platforms) \in SUBSET DOMAIN published
    BY DEF Times!Samples
  <2> QED
    BY <2>1, RecommendedIsEarned
<1> QED
  BY <1>1, <1>2, PTL
=============================================================================
