---------------------------- MODULE MediaProofs ----------------------------
(***************************************************************************)
(* Proofs about MediaImport: ImportInv is inductive, so an import that     *)
(* finish passed is its client's file, the disk holds what the quota       *)
(* counts, and what the library names is there, for every number of        *)
(* sessions, workspaces and chunks.                                        *)
(*                                                                         *)
(* The quota is a sum over sessions.  Space is counted as the set of its   *)
(* units, so the sums are cardinalities of unions and the theorems about   *)
(* finite sets do for an induction.                                        *)
(***************************************************************************)
EXTENDS MediaImport, FiniteSetTheorems, SequenceTheorems, TLAPS

\* Space by the unit.
Units(f, S) == UNION {{s} \X f[s] : s \in S}

LEMMA UnitsAre ==
  ASSUME NEW f, NEW S
  PROVE  \A c : c \in Units(f, S) <=> c = <<c[1], c[2]>> /\ c[1] \in S /\ c[2] \in f[c[1]]
BY DEF Units

LEMMA UnitsFinite ==
  ASSUME NEW f, NEW S, IsFiniteSet(S), \A s \in S : IsFiniteSet(f[s])
  PROVE  IsFiniteSet(Units(f, S)) /\ Cardinality(Units(f, S)) \in Nat
<1> DEFINE Of == [s \in S |-> {s} \X f[s]]
           All == {{s} \X f[s] : s \in S}
<1>1. Of \in Surjection(S, All)
  BY DEF Surjection
<1>2. IsFiniteSet(All)
  BY <1>1, FS_Surjection
<1>3. ASSUME NEW T \in All PROVE IsFiniteSet(T)
  <2>1. PICK s \in S : T = {s} \X f[s]
    OBVIOUS
  <2>2. IsFiniteSet({s}) /\ IsFiniteSet(f[s])
    BY FS_Singleton
  <2> QED
    BY <2>1, <2>2, FS_Product
<1>4. IsFiniteSet(UNION All)
  <2> HIDE DEF All
  <2> QED
    BY <1>2, <1>3, FS_UNION
<1> QED
  BY <1>4, FS_CardinalityType DEF Units

\* More space, and space of others.
LEMMA UnitsWithin ==
  ASSUME NEW f, NEW S, NEW g, NEW T, S \subseteq T, \A s \in S : f[s] \subseteq g[s]
  PROVE  Units(f, S) \subseteq Units(g, T)
<1> SUFFICES ASSUME NEW c \in Units(f, S) PROVE c \in Units(g, T)
  OBVIOUS
<1>1. c = <<c[1], c[2]>> /\ c[1] \in S /\ c[2] \in f[c[1]]
  BY UnitsAre
<1> QED
  BY <1>1, UnitsAre

LEMMA UnitsApart ==
  ASSUME NEW f, NEW S, NEW g, NEW T, S \cap T = {}
  PROVE  Units(f, S) \cap Units(g, T) = {}
<1> SUFFICES ASSUME NEW c \in Units(f, S) \cap Units(g, T) PROVE FALSE
  OBVIOUS
<1> QED
  BY UnitsAre

\* What a session declared, what its directory holds, what of it is text, and what it claims.
SpaceOf(f) == (1..f.size) \cup (IF f.walked THEN -f.note .. -1 ELSE {})
Sizes   == [s \in Session |-> 1..import[s].size]
Lengths == [s \in Session |-> (1..Len(import[s].bytes)) \cup Text(s)]
Notes   == [s \in Session |-> Text(s)]
Space   == [s \in Session |-> SpaceOf(import[s])]

LEMMA SpaceIs ==
  ASSUME NEW S \in SUBSET Session
  PROVE  /\ Reserved(S) = Cardinality(Units(Sizes, S))
         /\ Bytes(S) = Cardinality(Units(Lengths, S))
         /\ Texts(S) = Cardinality(Units(Notes, S))
<1>1. UNION {Declared(s) : s \in S} = Units(Sizes, S)
  BY DEF Units, Sizes, Declared
<1>2. UNION {OnDisk(s) : s \in S} = Units(Lengths, S)
  BY DEF Units, Lengths, OnDisk
<1>3. UNION {{s} \X Text(s) : s \in S} = Units(Notes, S)
  BY DEF Units, Notes
<1> QED
  BY <1>1, <1>2, <1>3 DEF Reserved, Bytes, Texts

LEMMA SpaceFinite ==
  ASSUME NEW f \in Import
  PROVE  /\ IsFiniteSet(1..f.size) /\ IsFiniteSet(-f.note .. -1)
         /\ IsFiniteSet((1..Len(f.bytes)) \cup (-f.note .. -1))
         /\ IsFiniteSet(SpaceOf(f))
<1>1. /\ f.size \in Int /\ f.note \in Int /\ -f.note \in Int /\ -1 \in Int /\ 1 \in Int
      /\ Len(f.bytes) \in Int
  BY ImportAssumption DEF Import
<1>2. IsFiniteSet(1..f.size) /\ IsFiniteSet(-f.note .. -1) /\ IsFiniteSet(1..Len(f.bytes))
  BY <1>1, FS_Interval
<1>3. /\ IsFiniteSet((1..Len(f.bytes)) \cup (-f.note .. -1))
      /\ IsFiniteSet((1..f.size) \cup (-f.note .. -1))
  BY <1>2, FS_Union
<1>4. SpaceOf(f) = 1..f.size \/ SpaceOf(f) = (1..f.size) \cup (-f.note .. -1)
  BY DEF SpaceOf
<1> QED
  BY <1>2, <1>3, <1>4

\* The stages of a session that has not ended, and whether it claims space.
Active == {"new", "open", "placing", "placed", "described"}
Claims(f) ==
  \/ f.stage = "open" /\ ~f.idle
  \/ (f.stage = "placing" \/ f.where = "import") /\ ~f.torn /\ ~f.overtaken

LEMMA ClaimingIs == \A s \in Session : s \in Claiming <=> Claims(import[s])
BY DEF Claiming, Live, Open, Expired, Claims

LEMMA ClaimingNextIs == \A s \in Session : s \in Claiming' <=> Claims(import'[s])
BY DEF Claiming, Live, Open, Expired, Claims

\* What a step may make of a session, but for the removal of its file; only a start claims
\* more space.
Keeps(f, g) ==
  /\ g \in Import /\ Sound(g)
  /\ g.stage \in Active => f.stage \in Active
  /\ f.where = "import" => g.where = "import" \/ f.stage \in Active

SameSpace(f, g) == g.size = f.size /\ (g.walked <=> f.walked) /\ (f.walked => g.note = f.note)

GoesOn(f, g) ==
  /\ Keeps(f, g)
  /\ Claims(g) => Claims(f) /\ SameSpace(f, g)

LEMMA GoneIs ==
  /\ Gone \in Import /\ Sound(Gone)
  /\ Gone.stage = "ended" /\ Gone.where = "nowhere" /\ ~Claims(Gone)
<1>1. /\ <<>> \in Seq(0..MaxSize) /\ DOMAIN <<>> = {} /\ Len(<<>>) = 0 /\ 0 \in 0..MaxSize
      /\ 0 \in 0..MaxMetadata
  BY ImportAssumption
<1>2. /\ Gone.stage = "ended" /\ Gone.where = "nowhere" /\ Gone.torn = FALSE
      /\ Gone.hashed = <<>> /\ Gone.bytes = <<>> /\ Gone.size = 0 /\ Gone.walked = FALSE
  BY DEF Gone
<1>3. Gone \in Import
  BY <1>1 DEF Gone, Import, Stage
<1>4. Sound(Gone)
  BY <1>1, <1>2 DEF Sound
<1> QED
  BY <1>2, <1>3, <1>4 DEF Claims

LEMMA StaysOrGoes ==
  ASSUME NEW f \in Import, Sound(f)
  PROVE  /\ GoesOn(f, f)
         /\ f.stage \in Active => GoesOn(f, Gone)
BY GoneIs DEF GoesOn, Keeps, Active, SameSpace

\* The space of what is claimed, in this state and in the next.
LEMMA QuotaIs ==
  /\ QuotaInv <=> Cardinality(Units(Space, Claiming)) <= Quota
  /\ QuotaInv' <=> Cardinality(Units(Space', Claiming')) <= Quota
<1>1. Claiming \subseteq Session /\ Claiming' \subseteq Session
  BY DEF Claiming, Live, Open, Expired
<1>2. UNION {Claim(s) : s \in Claiming} = Units(Space, Claiming)
  BY <1>1 DEF Units, Space, SpaceOf, Claim, Text
<1>3. UNION {Claim(s)' : s \in Claiming'} = Units(Space', Claiming')
  BY <1>1 DEF Units, Space, SpaceOf, Claim, Text
<1> QED
  BY <1>2, <1>3 DEF QuotaInv

\* Claiming less, and no session an admission has not counted that it had not before.
LEMMA SpaceShrinks ==
  ASSUME ImportInv, ImportTypes',
         \A s \in Session :
           Claims(import'[s]) => Claims(import[s]) /\ SameSpace(import[s], import'[s])
  PROVE  QuotaInv' /\ SlotsInv'
<1>1. /\ Claiming \subseteq Session /\ Claiming' \subseteq Session
      /\ \A s \in Session : import[s] \in Import
  BY DEF Claiming, Live, Open, Expired, ImportInv, ImportTypes
<1>2. IsFiniteSet(Claiming)
  BY <1>1, FS_Subset, ImportAssumption
<1>3. \A s \in Session : Space[s] = SpaceOf(import[s]) /\ Space'[s] = SpaceOf(import'[s])
  BY DEF Space
<1>4. IsFiniteSet(Units(Space, Claiming)) /\ Cardinality(Units(Space, Claiming)) \in Nat
  BY <1>1, <1>2, <1>3, SpaceFinite, UnitsFinite
<1>5. Units(Space', Claiming') \subseteq Units(Space, Claiming)
  <2>1. \A s \in Claiming' : s \in Claiming /\ SameSpace(import[s], import'[s])
    BY <1>1, ClaimingIs, ClaimingNextIs
  <2>2. \A s \in Claiming' : Space'[s] \subseteq Space[s]
    BY <1>1, <1>3, <2>1 DEF SameSpace, SpaceOf
  <2> QED
    BY <2>1, <2>2, UnitsWithin
<1>6. /\ Cardinality(Units(Space', Claiming')) <= Cardinality(Units(Space, Claiming))
      /\ Cardinality(Units(Space', Claiming')) \in Nat
  BY <1>4, <1>5, FS_Subset, FS_CardinalityType
<1>7. Quota \in Nat /\ MaxOpen \in Nat
  BY ImportAssumption
<1>8. QuotaInv'
  BY <1>4, <1>6, <1>7, QuotaIs DEF ImportInv
<1>9. SlotsInv'
  <2> DEFINE A == {s \in Claiming : ~import[s].walked}
             B == {s \in Claiming' : ~import'[s].walked}
  <2>1. B \subseteq A
    BY <1>1, ClaimingIs, ClaimingNextIs DEF SameSpace
  <2>2. IsFiniteSet(A)
    BY <1>2, FS_Subset
  <2>3. Cardinality(B) <= Cardinality(A) /\ Cardinality(A) \in Nat /\ Cardinality(B) \in Nat
    BY <2>1, <2>2, FS_Subset, FS_CardinalityType
  <2>4. Cardinality(A) <= MaxOpen
    BY DEF ImportInv, SlotsInv
  <2> HIDE DEF A, B
  <2>5. Cardinality(B) <= MaxOpen
    BY <1>7, <2>3, <2>4
  <2> QED
    BY <2>5 DEF SlotsInv, B
<1> QED
  BY <1>8, <1>9

\* A step that the library has no part in.
LEMMA SessionsKeep ==
  ASSUME ImportInv, UNCHANGED <<rows, drafts, adding, removing, late>>,
         import' = [s \in Session |-> import'[s]],
         \A s \in Session : Keeps(import[s], import'[s])
  PROVE  /\ ImportTypes' /\ ReferencesInv'
         /\ \A s \in Session : Sound(import'[s])
<1> USE DEF ImportInv
<1>1. ImportTypes'
  BY DEF ImportTypes, Keeps
<1>2. \A s \in Session : Sound(import'[s])
  BY DEF Keeps
<1>3. ReferencesInv'
  <2>1. ASSUME NEW s \in Session, import'[s].stage \in Active
        PROVE  s \notin removing \cup ReferredTo(rows \cup drafts \cup adding)
    BY <2>1 DEF ReferencesInv, Keeps, Active
  <2>2. ASSUME NEW s \in ReferredTo(rows \cup drafts), s \notin late
        PROVE  import'[s].where = "import"
    <3>1. /\ s \in Session /\ import[s].where = "import"
          /\ s \in ReferredTo(rows \cup drafts \cup adding)
      BY <2>2 DEF ReferencesInv, ReferencedFileKept, Imported, ReferredTo
    <3>2. import[s].stage \notin Active
      BY <3>1 DEF ReferencesInv, Active
    <3> QED
      BY <3>1, <3>2 DEF Keeps
  <2> QED
    BY <2>1, <2>2 DEF ReferencesInv, ReferencedFileKept, Imported, ReferredTo, Active
<1> QED
  BY <1>1, <1>2, <1>3

LEMMA SessionsGoOn ==
  ASSUME ImportInv, UNCHANGED <<rows, drafts, adding, removing, late>>,
         import' = [s \in Session |-> import'[s]],
         \A s \in Session : GoesOn(import[s], import'[s])
  PROVE  ImportInv'
BY SessionsKeep, SpaceShrinks DEF GoesOn, ImportInv

\* A session whose idle time is over is gone, whatever comes.
LEMMA PrunedIs ==
  ASSUME NEW s \in Session
  PROVE  /\ Pruned[s] = import[s] \/ (Pruned[s] = Gone /\ import[s].stage = "open")
         /\ s \in Live => Pruned[s] = import[s] /\ import[s].stage = "open" /\ ~import[s].idle
BY DEF Pruned, Live, Expired, Open

\* A step of one session, after those whose time is over are gone.
LEMMA OneGoesOn ==
  ASSUME ImportInv, UNCHANGED <<rows, drafts, adding, removing, late>>,
         NEW s \in Session, NEW g, GoesOn(import[s], g),
         \/ import' = [Pruned EXCEPT ![s] = g]
         \/ import' = [import EXCEPT ![s] = g]
  PROVE  ImportInv'
<1>1. /\ import' = [t \in Session |-> import'[t]]
      /\ import'[s] = g
      /\ \A t \in Session : t # s => import'[t] \in {import[t], Pruned[t]}
  BY DEF Pruned, ImportInv, ImportTypes
<1>2. \A t \in Session : GoesOn(import[t], import'[t])
  BY <1>1, PrunedIs, StaysOrGoes DEF ImportInv, ImportTypes, Active
<1> QED
  BY <1>1, <1>2, SessionsGoOn

\* The chunk reaches the disk, and the hasher.
LEMMA AppendGoesOn ==
  ASSUME NEW f \in Import, Sound(f), f.stage = "open", ~f.idle,
         Len(f.hashed) < f.size, NEW offset \in 0..MaxSize, offset = Len(f.hashed)
  PROVE  /\ GoesOn(f, [f EXCEPT !.bytes = Append(f.bytes, offset), !.hashed = Append(f.hashed, offset)])
         /\ GoesOn(f, [f EXCEPT !.bytes = Append(f.bytes, offset), !.torn = TRUE])
<1> DEFINE bytes == Append(f.bytes, offset)
           hashed == Append(f.hashed, offset)
           g == [f EXCEPT !.bytes = bytes, !.hashed = hashed]
           h == [f EXCEPT !.bytes = bytes, !.torn = TRUE]
<1>1. /\ f.bytes \in Seq(0..MaxSize) /\ f.hashed \in Seq(0..MaxSize) /\ f.size \in Nat
      /\ Len(f.hashed) \in Nat
  BY ImportAssumption DEF Import
<1>2. /\ bytes \in Seq(0..MaxSize) /\ hashed \in Seq(0..MaxSize)
      /\ DOMAIN hashed = 1..Len(f.hashed) + 1 /\ Len(hashed) = Len(f.hashed) + 1
      /\ hashed[Len(f.hashed) + 1] = offset /\ \A i \in 1..Len(f.hashed) : hashed[i] = f.hashed[i]
      /\ DOMAIN f.hashed = 1..Len(f.hashed)
      /\ f.bytes = f.hashed => bytes = hashed
  BY <1>1, AppendProperties, LenProperties
<1> HIDE DEF bytes, hashed
<1>3. ASSUME NEW i \in DOMAIN hashed PROVE hashed[i] = i - 1
  <2>1. CASE i = Len(f.hashed) + 1
    BY <1>1, <1>2, <2>1
  <2>2. CASE i # Len(f.hashed) + 1
    <3>1. i \in 1..Len(f.hashed)
      BY <1>1, <1>2, <2>2
    <3> QED
      BY <1>2, <3>1 DEF Sound
  <2> QED
    BY <2>1, <2>2
<1>4. /\ g \in Import /\ g.stage = "open" /\ g.where = f.where /\ g.size = f.size /\ g.idle = f.idle
      /\ g.hashed = hashed /\ g.bytes = bytes /\ g.torn = f.torn /\ g.walked = f.walked
      /\ g.note = f.note /\ h.note = f.note
      /\ h \in Import /\ h.stage = "open" /\ h.where = f.where /\ h.size = f.size /\ h.idle = f.idle
      /\ h.hashed = f.hashed /\ h.bytes = bytes /\ h.torn = TRUE /\ h.walked = f.walked
  BY <1>2 DEF Import
<1>5. f.where # "import"
  BY DEF Sound
<1> HIDE DEF g, h
<1>6. Sound(g) /\ Sound(h)
  <2>1. Len(hashed) <= f.size
    BY <1>1, <1>2
  <2>2. Sound(g)
    BY <1>2, <1>3, <1>4, <1>5, <2>1 DEF Sound
  <2>3. Sound(h)
    BY <1>4, <1>5 DEF Sound
  <2> QED
    BY <2>2, <2>3
<1>7. GoesOn(f, g) /\ GoesOn(f, h)
  BY <1>4, <1>5, <1>6 DEF GoesOn, Keeps, Active, Claims, SameSpace
<1> QED
  BY <1>7 DEF g, h, bytes, hashed

\* What finish, a crash and time make of a session.
LEMMA StageGoesOn ==
  ASSUME NEW f \in Import, Sound(f)
  PROVE  /\ f.stage = "open" /\ ~f.idle /\ Len(f.hashed) = f.size => GoesOn(f, [f EXCEPT !.stage = "placing"])
         /\ f.stage = "placing" => GoesOn(f, [f EXCEPT !.stage = "placed", !.where = "import"])
         /\ f.stage = "placed" => \A n \in 0..MaxMetadata :
              GoesOn(f, [f EXCEPT !.stage = "described", !.note = n])
         /\ f.stage \in {"open", "placing", "placed", "described"} => GoesOn(f, [f EXCEPT !.stage = "lost"])
         /\ f.stage = "described" => GoesOn(f, [f EXCEPT !.stage = "ended"])
         /\ f.stage = "open" => GoesOn(f, [f EXCEPT !.idle = TRUE])
<1>1. ASSUME f.stage = "open", ~f.idle, Len(f.hashed) = f.size PROVE GoesOn(f, [f EXCEPT !.stage = "placing"])
  <2> DEFINE g == [f EXCEPT !.stage = "placing"]
  <2>1. /\ g \in Import /\ g.stage = "placing" /\ g.where = f.where
        /\ g.size = f.size /\ g.walked = f.walked /\ g.note = f.note /\ g.torn = f.torn
        /\ g.hashed = f.hashed /\ g.bytes = f.bytes /\ g.overtaken = f.overtaken
    BY DEF Import, Stage
  <2> HIDE DEF g
  <2>2. GoesOn(f, g)
    BY <1>1, <2>1 DEF GoesOn, Keeps, Active, Claims, Sound, SameSpace
  <2> QED
    BY <2>2 DEF g
<1>2. ASSUME f.stage = "placing" PROVE GoesOn(f, [f EXCEPT !.stage = "placed", !.where = "import"])
  <2> DEFINE g == [f EXCEPT !.stage = "placed", !.where = "import"]
  <2>1. /\ g \in Import /\ g.stage = "placed" /\ g.where = "import"
        /\ g.size = f.size /\ g.walked = f.walked /\ g.note = f.note /\ g.torn = f.torn
        /\ g.hashed = f.hashed /\ g.bytes = f.bytes /\ g.overtaken = f.overtaken
    BY DEF Import, Stage
  <2> HIDE DEF g
  <2>2. GoesOn(f, g)
    BY <1>2, <2>1 DEF GoesOn, Keeps, Active, Claims, Sound, SameSpace
  <2> QED
    BY <2>2 DEF g
<1>3. ASSUME f.stage = "placed", NEW n \in 0..MaxMetadata PROVE GoesOn(f, [f EXCEPT !.stage = "described", !.note = n])
  <2> DEFINE g == [f EXCEPT !.stage = "described", !.note = n]
  <2>1. /\ g \in Import /\ g.stage = "described" /\ g.where = f.where
        /\ g.size = f.size /\ g.walked = f.walked /\ g.torn = f.torn
        /\ g.hashed = f.hashed /\ g.bytes = f.bytes /\ g.overtaken = f.overtaken
    BY DEF Import, Stage
  <2> HIDE DEF g
  <2>2. GoesOn(f, g)
    BY <1>3, <2>1 DEF GoesOn, Keeps, Active, Claims, Sound, SameSpace
  <2> QED
    BY <2>2 DEF g
<1>4. ASSUME f.stage \in {"open", "placing", "placed", "described"} PROVE GoesOn(f, [f EXCEPT !.stage = "lost"])
  <2> DEFINE g == [f EXCEPT !.stage = "lost"]
  <2>1. /\ g \in Import /\ g.stage = "lost" /\ g.where = f.where
        /\ g.size = f.size /\ g.walked = f.walked /\ g.note = f.note /\ g.torn = f.torn
        /\ g.hashed = f.hashed /\ g.bytes = f.bytes /\ g.overtaken = f.overtaken
    BY DEF Import, Stage
  <2> HIDE DEF g
  <2>2. GoesOn(f, g)
    BY <1>4, <2>1 DEF GoesOn, Keeps, Active, Claims, Sound, SameSpace
  <2> QED
    BY <2>2 DEF g
<1>5. ASSUME f.stage = "described" PROVE GoesOn(f, [f EXCEPT !.stage = "ended"])
  <2> DEFINE g == [f EXCEPT !.stage = "ended"]
  <2>1. /\ g \in Import /\ g.stage = "ended" /\ g.where = f.where
        /\ g.size = f.size /\ g.walked = f.walked /\ g.note = f.note /\ g.torn = f.torn
        /\ g.hashed = f.hashed /\ g.bytes = f.bytes /\ g.overtaken = f.overtaken
    BY DEF Import, Stage
  <2> HIDE DEF g
  <2>2. GoesOn(f, g)
    BY <1>5, <2>1 DEF GoesOn, Keeps, Active, Claims, Sound, SameSpace
  <2> QED
    BY <2>2 DEF g
<1>6. ASSUME f.stage = "open" PROVE GoesOn(f, [f EXCEPT !.idle = TRUE])
  <2> DEFINE g == [f EXCEPT !.idle = TRUE]
  <2>1. /\ g \in Import /\ g.stage = "open" /\ g.where = f.where /\ g.idle = TRUE
        /\ g.size = f.size /\ g.walked = f.walked /\ g.note = f.note /\ g.torn = f.torn
        /\ g.hashed = f.hashed /\ g.bytes = f.bytes /\ g.overtaken = f.overtaken
    BY <1>6 DEF Import, Stage
  <2> HIDE DEF g
  <2>2. GoesOn(f, g)
    BY <1>6, <2>1 DEF GoesOn, Keeps, Active, Claims, Sound, SameSpace
  <2> QED
    BY <2>2 DEF g
<1> QED
  BY <1>1, <1>2, <1>3, <1>4, <1>5, <1>6

\* A new session claims what the quota has left, with what is open and what is imported, texts
\* and all; those that are just being placed are overtaken, so that only sessions that are open
\* have not been counted.
LEMMA StartKeeps ==
  ASSUME ImportInv, NEW s \in Session, NEW n \in Declares[s],
         Start(s, n)
  PROVE  ImportInv'
<1> USE DEF ImportInv
<1> DEFINE new == [import[s] EXCEPT !.stage = "open", !.size = n, !.where = "partial"]
<1>1. /\ import[s].stage = "new" /\ Bytes(Imported) + Reserved(Live) + n <= Quota
      /\ Cardinality(Live) < MaxOpen
      /\ import' = [t \in Session |->
           IF t = s THEN new
           ELSE IF import[t].stage \in {"placing", "placed"} THEN [import[t] EXCEPT !.overtaken = TRUE]
           ELSE IF t \in Imported THEN [import[t] EXCEPT !.walked = TRUE]
           ELSE Pruned[t]]
      /\ UNCHANGED <<rows, drafts, adding, removing, late>>
  BY DEF Start, Admits, library
<1>2. n \in 1..MaxSize /\ n \in Nat /\ n \in 0..MaxSize /\ Quota \in Nat /\ IsFiniteSet(Session)
  BY ImportAssumption
<1>3. /\ new \in Import /\ new.stage = "open" /\ new.size = n /\ new.where = "partial"
      /\ new.hashed = import[s].hashed /\ new.bytes = import[s].bytes /\ new.torn = import[s].torn
      /\ new.walked = import[s].walked
  BY <1>2 DEF ImportTypes, Import, Stage
<1> HIDE DEF new
<1>4. Keeps(import[s], new)
  <2>1. import[s].hashed = <<>> /\ import[s].where # "import" /\ ~import[s].walked
    BY <1>1 DEF Sound
  <2>2. Len(<<>>) <= n
    BY <1>2
  <2>3. Sound(new)
    BY <1>3, <2>1, <2>2 DEF Sound
  <2> QED
    BY <1>1, <1>3, <2>1, <2>3 DEF Keeps, Active
<1>5. ASSUME NEW t \in Session, t # s
      PROVE  /\ Keeps(import[t], import'[t])
             /\ Claims(import'[t]) =>
                  \/ t \in Live /\ import'[t] = import[t] /\ ~import[t].walked
                  \/ /\ t \in Imported /\ import'[t].walked
                     /\ import'[t].note = import[t].note /\ import'[t].size = Len(import[t].bytes)
  <2>1. import[t] \in Import /\ Sound(import[t])
    BY DEF ImportTypes
  <2>2. CASE import[t].stage \in {"placing", "placed"}
    <3> DEFINE g == [import[t] EXCEPT !.overtaken = TRUE]
    <3>1. /\ g \in Import /\ g.stage = import[t].stage /\ g.size = import[t].size /\ g.where = import[t].where
          /\ g.hashed = import[t].hashed /\ g.bytes = import[t].bytes /\ g.torn = import[t].torn
          /\ g.walked = import[t].walked /\ g.overtaken = TRUE
      BY <2>1, <2>2 DEF Import
    <3>2. import'[t] = g
      BY <1>1, <1>5, <2>2
    <3> HIDE DEF g
    <3> QED
      BY <2>1, <2>2, <3>1, <3>2 DEF Keeps, Active, Claims, Sound
  <2>3. CASE import[t].stage \notin {"placing", "placed"} /\ t \in Imported
    <3> DEFINE g == [import[t] EXCEPT !.walked = TRUE]
    <3>1. /\ g \in Import /\ g.stage = import[t].stage /\ g.size = import[t].size /\ g.where = import[t].where
          /\ g.hashed = import[t].hashed /\ g.bytes = import[t].bytes /\ g.torn = import[t].torn
          /\ g.note = import[t].note /\ g.overtaken = import[t].overtaken /\ g.walked = TRUE
      BY <2>1, <2>3 DEF Import
    <3>2. import'[t] = g /\ import[t].where = "import"
      BY <1>1, <1>5, <2>3 DEF Imported
    <3> HIDE DEF g
    <3>3. Sound(g) /\ Keeps(import[t], g)
      BY <2>1, <2>3, <3>1, <3>2 DEF Keeps, Active, Sound
    <3>4. ~import[t].torn => import[t].size = Len(import[t].bytes)
      BY <2>1, <3>2 DEF Sound
    <3>5. Claims(g) => ~import[t].torn
      BY <2>1, <2>3, <3>1, <3>2 DEF Claims, Sound
    <3> QED
      BY <2>3, <3>1, <3>2, <3>3, <3>4, <3>5
  <2>4. CASE import[t].stage \notin {"placing", "placed"} /\ t \notin Imported
    <3>1. import'[t] = Pruned[t]
      BY <1>1, <1>5, <2>4
    <3>2. CASE import'[t] = Gone /\ import[t].stage = "open"
      BY <2>1, <3>2, GoneIs, StaysOrGoes DEF GoesOn, Active
    <3>3. CASE import'[t] = import[t]
      <4>1. Keeps(import[t], import'[t])
        BY <2>1, <3>3, StaysOrGoes DEF GoesOn
      <4>2. ASSUME Claims(import[t])
            PROVE  t \in Live /\ ~import[t].walked
        BY <2>1, <2>4, <4>2 DEF Claims, Live, Open, Expired, Imported, Sound
      <4> QED
        BY <3>3, <4>1, <4>2
    <3> QED
      BY <3>1, <3>2, <3>3, PrunedIs
  <2> QED
    BY <2>2, <2>3, <2>4
<1>6. import' = [t \in Session |-> import'[t]] /\ import'[s] = new
  BY <1>1
<1>7. \A t \in Session : Keeps(import[t], import'[t])
  BY <1>4, <1>5, <1>6
<1>8. /\ ImportTypes' /\ ReferencesInv'
      /\ \A t \in Session : Sound(import'[t])
  BY <1>1, <1>6, <1>7, SessionsKeep
<1>9. QuotaInv'
  <2> DEFINE A == Units(Sizes, Live)
             B == Units(Lengths, Imported)
             C == {s} \X (1..n)
             D == Units(Space', Claiming')
  <2>1. Live \subseteq Session /\ Imported \subseteq Session
    BY DEF Live, Open, Imported
  <2>2. \A t \in Session :
          /\ Sizes[t] = 1..import[t].size
          /\ Lengths[t] = (1..Len(import[t].bytes)) \cup (-import[t].note .. -1)
          /\ Space'[t] = SpaceOf(import'[t])
          /\ import[t] \in Import
    BY DEF Sizes, Lengths, Space, Text, ImportTypes
  <2>3. IsFiniteSet(A) /\ Cardinality(A) \in Nat /\ IsFiniteSet(B) /\ Cardinality(B) \in Nat
    <3>1. \A t \in Session : IsFiniteSet(Sizes[t]) /\ IsFiniteSet(Lengths[t])
      BY <2>2, SpaceFinite
    <3>2. IsFiniteSet(Live) /\ IsFiniteSet(Imported)
      BY <1>2, <2>1, FS_Subset
    <3> QED
      BY <2>1, <3>1, <3>2, UnitsFinite
  <2>4. IsFiniteSet(C) /\ Cardinality(C) = n
    <3>1. IsFiniteSet(1..n) /\ Cardinality(1..n) = n
      BY <1>2, FS_Interval
    <3>2. IsFiniteSet({s}) /\ Cardinality({s}) = 1
      BY FS_Singleton
    <3>3. IsFiniteSet(C) /\ Cardinality(C) = Cardinality({s}) * Cardinality(1..n)
      BY <3>1, <3>2, FS_Product
    <3>4. 1 * n = n
      BY <1>2
    <3> QED
      BY <3>1, <3>2, <3>3, <3>4
  <2>5. D \subseteq (A \cup B) \cup C
    <3> SUFFICES ASSUME NEW c \in D PROVE c \in (A \cup B) \cup C
      OBVIOUS
    <3>1. c = <<c[1], c[2]>> /\ c[1] \in Claiming' /\ c[2] \in Space'[c[1]]
      BY UnitsAre
    <3>2. c[1] \in Session /\ Claims(import'[c[1]])
      BY <3>1, ClaimingNextIs DEF Claiming, Live, Open
    <3>3. CASE c[1] = s
      <4>1. c[2] \in 1..n
        BY <1>3, <1>4, <1>6, <2>2, <3>1, <3>3 DEF SpaceOf, Keeps, Sound
      <4> QED
        BY <3>1, <3>3, <4>1
    <3>4. CASE c[1] # s
      <4>1. \/ c[1] \in Live /\ c[2] \in Sizes[c[1]]
            \/ c[1] \in Imported /\ c[2] \in Lengths[c[1]]
        BY <1>5, <2>2, <3>1, <3>2, <3>4 DEF SpaceOf
      <4> QED
        BY <3>1, <4>1, UnitsAre
    <3> QED
      BY <3>3, <3>4
  <2> HIDE DEF A, B, C, D
  <2>6. IsFiniteSet(A \cup B) /\ Cardinality(A \cup B) <= Cardinality(A) + Cardinality(B)
        /\ Cardinality(A \cup B) \in Nat
    <3>1. IsFiniteSet(A \cap B) /\ Cardinality(A \cap B) \in Nat
      BY <2>3, FS_Intersection, FS_CardinalityType
    <3>2. /\ IsFiniteSet(A \cup B)
          /\ Cardinality(A \cup B) = Cardinality(A) + Cardinality(B) - Cardinality(A \cap B)
      BY <2>3, FS_Union
    <3>3. Cardinality(A \cup B) \in Nat
      BY <3>2, FS_CardinalityType
    <3> QED
      BY <2>3, <3>1, <3>2, <3>3
  <2>7. IsFiniteSet((A \cup B) \cup C) /\ Cardinality((A \cup B) \cup C) <= Cardinality(A \cup B) + n
        /\ Cardinality((A \cup B) \cup C) \in Nat
    <3>1. IsFiniteSet((A \cup B) \cap C) /\ Cardinality((A \cup B) \cap C) \in Nat
      BY <2>6, FS_Intersection, FS_CardinalityType
    <3>2. /\ IsFiniteSet((A \cup B) \cup C)
          /\ Cardinality((A \cup B) \cup C) = Cardinality(A \cup B) + Cardinality(C) - Cardinality((A \cup B) \cap C)
      BY <2>4, <2>6, FS_Union
    <3>3. Cardinality((A \cup B) \cup C) \in Nat
      BY <3>2, FS_CardinalityType
    <3> QED
      BY <1>2, <2>4, <2>6, <3>1, <3>2, <3>3
  <2>8. Cardinality(D) <= Cardinality((A \cup B) \cup C) /\ Cardinality(D) \in Nat
    BY <2>5, <2>7, FS_Subset, FS_CardinalityType
  <2>9. Cardinality(B) + Cardinality(A) + n <= Quota
    BY <1>1, <2>1, SpaceIs DEF A, B
  <2>10. Cardinality(D) <= Quota
    BY <1>2, <2>3, <2>6, <2>7, <2>8, <2>9
  <2> QED
    BY <2>10, QuotaIs DEF D
<1>10. SlotsInv'
  <2> DEFINE A == {t \in Claiming' : ~import'[t].walked}
  <2>1. A \subseteq Live \cup {s}
    <3> SUFFICES ASSUME NEW t \in A, t # s PROVE t \in Live
      OBVIOUS
    <3>1. t \in Session /\ Claims(import'[t]) /\ ~import'[t].walked
      BY ClaimingNextIs DEF Claiming, Live, Open
    <3> QED
      BY <1>5, <3>1
  <2>2. IsFiniteSet(Live) /\ Cardinality(Live) \in Nat
    BY <1>2, FS_Subset, FS_CardinalityType DEF Live, Open
  <2>3. /\ IsFiniteSet(Live \cup {s})
        /\ Cardinality(Live \cup {s}) \in {Cardinality(Live), Cardinality(Live) + 1}
    BY <2>2, FS_AddElement
  <2>4. Cardinality(A) <= Cardinality(Live \cup {s}) /\ Cardinality(A) \in Nat
    BY <2>1, <2>3, FS_Subset, FS_CardinalityType
  <2>5. MaxOpen \in Nat
    BY ImportAssumption
  <2> HIDE DEF A
  <2>6. Cardinality(A) <= MaxOpen
    BY <1>1, <2>2, <2>3, <2>4, <2>5
  <2> QED
    BY <2>6 DEF SlotsInv, A
<1> QED
  BY <1>8, <1>9, <1>10

\* A step of the library that leaves the sessions alone.
LEMMA LibraryKeeps ==
  ASSUME ImportInv, UNCHANGED import,
         rows' \subseteq References, drafts' \subseteq References,
         adding' \subseteq References, removing' \subseteq Session, ReferencesInv'
  PROVE  ImportInv'
<1>1. ImportTypes'
  BY DEF ImportInv, ImportTypes
<1>2. QuotaInv' /\ SlotsInv'
  BY <1>1, SpaceShrinks DEF SameSpace
<1> QED
  BY <1>1, <1>2 DEF ImportInv

\* References come and go: none to a session that has not ended, and none unmarked to what is
\* being removed, or is not there.
LEMMA ReferencesGoOn ==
  ASSUME ImportInv, UNCHANGED import, late \subseteq late',
         removing' \subseteq Session,
         \A s \in ReferredTo(rows' \cup drafts' \cup adding') \cup removing' :
           import[s].stage \notin Active,
         \A s \in removing' \cap ReferredTo(rows' \cup drafts') : s \in late',
         \A s \in ReferredTo(rows' \cup drafts') :
           s \in ReferredTo(rows \cup drafts) \/ import[s].where = "import" \/ s \in late'
  PROVE  ReferencesInv'
<1>1. \A s \in Session : import'[s].stage \in Active =>
        s \notin removing' \cup ReferredTo(rows' \cup drafts' \cup adding')
  OBVIOUS
<1>2. ASSUME NEW s \in ReferredTo(rows' \cup drafts') PROVE s \in Imported' \/ s \in late'
  <2>1. s \in Session
    BY DEF ReferredTo
  <2> QED
    BY <2>1 DEF ImportInv, ReferencesInv, ReferencedFileKept, Imported
<1> QED
  BY <1>1, <1>2 DEF ReferencesInv, ReferencedFileKept, ReferredTo, Active

LEMMA LibraryGoesOn ==
  ASSUME ImportInv, NEW w \in Workspace, NEW s \in Session, Library(w, s)
  PROVE  ImportInv'
<1> USE DEF ImportInv
<1>1. /\ rows \subseteq References /\ drafts \subseteq References
      /\ adding \subseteq References /\ removing \subseteq Session
      /\ <<w, s>> \in References
  BY DEF ImportTypes, References
<1>2. \A R : s \in ReferredTo(R) <=> \E v \in Workspace : <<v, s>> \in R
  BY DEF ReferredTo
<1>3. \A t \in Session : t \in removing \cup ReferredTo(rows \cup drafts \cup adding) =>
        import[t].stage \notin Active
  BY DEF ReferencesInv, Active
<1>4. CASE RegisterCheck(w, s)
  <2>1. /\ import[s].where = "import" /\ import[s].stage \notin {"placed", "described"} /\ adding' = adding \cup {<<w, s>>}
        /\ UNCHANGED <<import, rows, drafts, removing, late>>
    BY <1>4 DEF RegisterCheck, Imported
  <2>2. import[s].stage \notin Active
    BY <2>1 DEF Sound, Active
  <2>3. ReferencesInv'
    BY <1>1, <1>3, <2>1, <2>2, ReferencesGoOn DEF ReferredTo, ReferencesInv
  <2> QED
    BY <1>1, <2>1, <2>3, LibraryKeeps
<1>5. CASE RegisterRow(w, s)
  <2>1. /\ <<w, s>> \in adding /\ adding' \subseteq adding /\ rows' = rows \cup {<<w, s>>}
        /\ UNCHANGED <<import, drafts, removing>> /\ late \subseteq late'
        /\ s \in removing \/ import[s].where # "import" => s \in late'
    BY <1>5 DEF RegisterRow, Refer, Imported
  <2>2. ReferencesInv'
    BY <1>1, <1>3, <2>1, ReferencesGoOn DEF ReferredTo, ReferencesInv
  <2> QED
    BY <1>1, <2>1, <2>2, LibraryKeeps
<1>6. CASE Attach(w, s)
  <2>1. /\ <<w, s>> \in rows /\ drafts' = drafts \cup {<<w, s>>}
        /\ UNCHANGED <<import, rows, adding, removing>> /\ late \subseteq late'
    BY <1>6 DEF Attach, Refer
  <2>2. ReferencesInv'
    BY <1>1, <1>3, <2>1, ReferencesGoOn DEF ReferredTo, ReferencesInv
  <2> QED
    BY <1>1, <2>1, <2>2, LibraryKeeps
<1>7. CASE Detach(w, s)
  <2>1. drafts' \subseteq drafts /\ UNCHANGED <<import, rows, adding, removing, late>>
    BY <1>7 DEF Detach
  <2>2. ReferencesInv'
    BY <1>1, <1>3, <2>1, ReferencesGoOn DEF ReferredTo, ReferencesInv
  <2> QED
    BY <1>1, <2>1, <2>2, LibraryKeeps
<1>8. CASE DeleteMedia(w, s)
  <2>1. /\ <<w, s>> \in rows /\ rows' \subseteq rows /\ UNCHANGED <<import, drafts, adding, late>>
        /\ removing' = IF s \in ReferredTo(rows' \cup drafts) THEN removing ELSE removing \cup {s}
    BY <1>8 DEF DeleteMedia
  <2>2. ReferencesInv'
    BY <1>1, <1>3, <2>1, ReferencesGoOn DEF ReferredTo, ReferencesInv
  <2> QED
    BY <1>1, <2>1, <2>2, LibraryKeeps
<1> QED
  BY <1>4, <1>5, <1>6, <1>7, <1>8 DEF Library

LEMMA UploadGoesOn ==
  ASSUME ImportInv, NEW s \in Session, Upload(s)
  PROVE  ImportInv'
<1> USE DEF ImportInv, library
<1>1. import[s] \in Import /\ Sound(import[s]) /\ Len(import[s].hashed) \in Nat
  BY DEF ImportTypes, Import
<1>2. Live \subseteq Session
  BY DEF Live, Open
<1>3. ASSUME NEW n \in Declares[s], Start(s, n) PROVE ImportInv'
  BY <1>3, StartKeeps
<1>4. ASSUME NEW offset \in 0..(MaxSize - 1), AppendChunk(s, offset) PROVE ImportInv'
  <2> DEFINE g == [import[s] EXCEPT !.bytes = Append(import[s].bytes, offset),
                                    !.hashed = Append(import[s].hashed, offset)]
  <2>1. /\ s \in Live /\ Len(import[s].hashed) < import[s].size /\ offset = Len(import[s].hashed)
        /\ import' = [Write(s, offset) EXCEPT ![s].hashed = Append(@, offset)]
        /\ UNCHANGED <<rows, drafts, adding, removing, late>>
    BY <1>4 DEF AppendChunk, Received
  <2>2. offset \in 0..MaxSize
    BY ImportAssumption
  <2>3. GoesOn(import[s], g)
    BY <1>1, <2>1, <2>2, PrunedIs, AppendGoesOn
  <2>4. import' = [Pruned EXCEPT ![s] = g]
    <3>1. Pruned[s] = import[s] /\ Pruned = [t \in Session |-> Pruned[t]]
      BY <2>1, PrunedIs DEF Pruned
    <3> HIDE DEF g
    <3>2. import' = [[Pruned EXCEPT ![s].bytes = Append(@, offset)] EXCEPT ![s].hashed = Append(@, offset)]
      BY <2>1 DEF Write
    <3> QED
      BY <3>1, <3>2 DEF g
  <2> HIDE DEF g
  <2> QED
    BY <2>1, <2>3, <2>4, OneGoesOn
<1>5. CASE AppendTorn(s)
  <2> DEFINE offset == Len(import[s].hashed)
             g == [import[s] EXCEPT !.bytes = Append(import[s].bytes, offset), !.torn = TRUE]
  <2>1. /\ s \in Live /\ offset < import[s].size
        /\ import' = [Write(s, offset) EXCEPT ![s].torn = TRUE]
        /\ UNCHANGED <<rows, drafts, adding, removing, late>>
    BY <1>5 DEF AppendTorn, Received
  <2>2. offset \in 0..MaxSize
    <3>1. import[s].size \in 0..MaxSize /\ import[s].hashed \in Seq(0..MaxSize)
      BY <1>1 DEF Import
    <3>2. offset \in Nat
      BY <3>1, LenProperties
    <3> HIDE DEF offset
    <3> QED
      BY <2>1, <3>1, <3>2, ImportAssumption
  <2> HIDE DEF offset
  <2>3. GoesOn(import[s], g)
    BY <1>1, <2>1, <2>2, PrunedIs, AppendGoesOn DEF offset
  <2>4. import' = [Pruned EXCEPT ![s] = g]
    <3>1. Pruned[s] = import[s] /\ Pruned = [t \in Session |-> Pruned[t]]
      BY <2>1, PrunedIs DEF Pruned
    <3> HIDE DEF g
    <3>2. import' = [[Pruned EXCEPT ![s].bytes = Append(@, offset)] EXCEPT ![s].torn = TRUE]
      BY <2>1 DEF Write
    <3> QED
      BY <3>1, <3>2 DEF g
  <2> HIDE DEF g
  <2> QED
    BY <2>1, <2>3, <2>4, OneGoesOn
<1>6. CASE Abort(s)
  <2>1. /\ s \in Live /\ import' = [Pruned EXCEPT ![s] = Gone]
        /\ UNCHANGED <<rows, drafts, adding, removing, late>>
    BY <1>6 DEF Abort
  <2>2. GoesOn(import[s], Gone)
    BY <1>1, <2>1, PrunedIs, StaysOrGoes DEF Active
  <2> QED
    BY <2>1, <2>2, OneGoesOn
<1> QED
  BY <1>3, <1>4, <1>5, <1>6 DEF Upload

LEMMA FinishGoesOn ==
  ASSUME ImportInv, NEW s \in Session,
         Finish(s) \/ GoIdle(s) \/ FinishDropped(s)
  PROVE  ImportInv'
<1> USE DEF ImportInv, library
<1>1. import[s] \in Import /\ Sound(import[s])
  BY DEF ImportTypes
<1>2. CASE FinishTake(s)
  <2> DEFINE g == [import[s] EXCEPT !.stage = "placing"]
  <2>1. /\ s \in Live /\ Len(import[s].hashed) = import[s].size
        /\ import' = [Pruned EXCEPT ![s].stage = "placing"]
        /\ UNCHANGED <<rows, drafts, adding, removing, late>>
    BY <1>2 DEF FinishTake, Received
  <2>2. Pruned[s] = import[s] /\ import[s].stage = "open" /\ ~import[s].idle
    BY <2>1, PrunedIs
  <2>3. GoesOn(import[s], g) /\ import' = [Pruned EXCEPT ![s] = g]
    BY <1>1, <2>1, <2>2, StageGoesOn DEF Pruned
  <2> HIDE DEF g
  <2> QED
    BY <2>1, <2>3, OneGoesOn
<1>3. CASE FinishDiscard(s)
  <2>1. /\ import[s].stage \in {"placing", "placed"} /\ import' = [import EXCEPT ![s] = Gone]
        /\ UNCHANGED <<rows, drafts, adding, removing, late>>
    BY <1>3 DEF FinishDiscard
  <2>2. GoesOn(import[s], Gone)
    BY <1>1, <2>1, StaysOrGoes DEF Active
  <2> QED
    BY <2>1, <2>2, OneGoesOn
<1>4. CASE FinishPlace(s)
  <2> DEFINE g == [import[s] EXCEPT !.stage = "placed", !.where = "import"]
  <2>1. /\ import[s].stage = "placing" /\ import' = [import EXCEPT ![s] = g]
        /\ UNCHANGED <<rows, drafts, adding, removing, late>>
    BY <1>4 DEF FinishPlace
  <2>2. GoesOn(import[s], g)
    BY <1>1, <2>1, StageGoesOn
  <2> HIDE DEF g
  <2> QED
    BY <2>1, <2>2, OneGoesOn
<1>5. CASE FinishDropped(s)
  <2> DEFINE g == [import[s] EXCEPT !.stage = "lost"]
  <2>1. /\ import[s].stage \in {"placing", "placed", "described"} /\ import' = [import EXCEPT ![s] = g]
        /\ UNCHANGED <<rows, drafts, adding, removing, late>>
    BY <1>5 DEF FinishDropped
  <2>2. GoesOn(import[s], g)
    BY <1>1, <2>1, StageGoesOn
  <2> HIDE DEF g
  <2> QED
    BY <2>1, <2>2, OneGoesOn
<1>6. CASE GoIdle(s)
  <2> DEFINE g == [import[s] EXCEPT !.idle = TRUE]
  <2>1. /\ import[s].stage = "open" /\ import' = [import EXCEPT ![s] = g]
        /\ UNCHANGED <<rows, drafts, adding, removing, late>>
    BY <1>6, PrunedIs DEF GoIdle
  <2>2. GoesOn(import[s], g)
    BY <1>1, <2>1, StageGoesOn
  <2> HIDE DEF g
  <2> QED
    BY <2>1, <2>2, OneGoesOn
\* The row of a file that is in its place, which nothing has referred to yet.
<1>7. CASE FinishRow(s)
  <2> DEFINE g == [import[s] EXCEPT !.stage = "ended"]
  <2>1. /\ import[s].stage = "described" /\ import' = [import EXCEPT ![s] = g]
        /\ rows' = rows \cup {<<HomeOf[s], s>>} /\ UNCHANGED <<drafts, adding, removing, late>>
    BY <1>7 DEF FinishRow
  <2>2. GoesOn(import[s], g) /\ g.stage = "ended" /\ g.where = "import"
    BY <1>1, <2>1, StageGoesOn DEF Sound, Import
  <2> HIDE DEF g
  <2>3. /\ import' = [t \in Session |-> import'[t]] /\ import'[s] = g
        /\ \A t \in Session : t # s => import'[t] = import[t]
    BY <2>1 DEF ImportTypes
  <2>4. \A t \in Session : GoesOn(import[t], import'[t])
    BY <2>2, <2>3, StaysOrGoes DEF ImportTypes
  <2>5. ImportTypes'
    <3>1. import' \in [Session -> Import]
      BY <2>3, <2>4 DEF GoesOn, Keeps
    <3>2. <<HomeOf[s], s>> \in References
      BY ImportAssumption DEF References
    <3> QED
      BY <2>1, <3>1, <3>2 DEF ImportTypes
  <2>6. s \notin removing
    BY <2>1 DEF ReferencesInv
  <2>7. ReferencesInv'
    <3>1. ASSUME NEW t \in Session, t # s
          PROVE  \A R : t \in ReferredTo(rows' \cup R) <=> t \in ReferredTo(rows \cup R)
      BY <2>1, <3>1 DEF ReferredTo
    <3>2. ASSUME NEW t \in Session, import'[t].stage \in Active
          PROVE  t \notin removing \cup ReferredTo(rows' \cup drafts \cup adding)
      <4>1. t # s /\ import'[t] = import[t]
        BY <2>2, <2>3, <3>2 DEF Active
      <4> QED
        BY <2>1, <3>2, <4>1 DEF ReferencesInv, ReferredTo, Active
    <3>3. \A t \in removing \cap ReferredTo(rows' \cup drafts) : t \in late
      <4> TAKE t \in removing \cap ReferredTo(rows' \cup drafts)
      <4>1. t \in Session /\ t # s
        BY <2>6 DEF ReferredTo
      <4>2. t \in ReferredTo(rows \cup drafts)
        BY <3>1, <4>1
      <4> QED
        BY <4>2 DEF ReferencesInv
    <3>4. \A t \in ReferredTo(rows' \cup drafts) : import'[t].where = "import" \/ t \in late
      <4> SUFFICES ASSUME NEW t \in ReferredTo(rows' \cup drafts), t # s
                   PROVE  import'[t].where = "import" \/ t \in late
        BY <2>2, <2>3
      <4>1. t \in Session
        BY DEF ReferredTo
      <4> QED
        BY <2>3, <3>1, <4>1 DEF ReferencesInv, ReferencedFileKept, Imported
    <3> QED
      BY <2>1, <3>2, <3>3, <3>4
         DEF ReferencesInv, ReferencedFileKept, Imported, ReferredTo, Active
  <2>8. QuotaInv' /\ SlotsInv'
    BY <2>4, <2>5, SpaceShrinks DEF GoesOn
  <2> QED
    BY <2>4, <2>5, <2>7, <2>8 DEF GoesOn, Keeps
<1>8. ASSUME NEW n \in Describes[s], FinishDescribe(s, n) PROVE ImportInv'
  <2> DEFINE g == [import[s] EXCEPT !.stage = "described", !.note = n]
  <2>1. /\ import[s].stage = "placed" /\ import' = [import EXCEPT ![s] = g]
        /\ UNCHANGED <<rows, drafts, adding, removing, late>>
    BY <1>8 DEF FinishDescribe
  <2>2. n \in 0..MaxMetadata
    BY ImportAssumption
  <2>3. GoesOn(import[s], g)
    BY <1>1, <2>1, <2>2, StageGoesOn
  <2> HIDE DEF g
  <2> QED
    BY <2>1, <2>3, OneGoesOn
<1> QED
  BY <1>2, <1>3, <1>4, <1>5, <1>6, <1>7, <1>8 DEF Finish

\* The file goes that nothing referred to, or what has referred to it since is marked.
LEMMA RemoveKeeps ==
  ASSUME ImportInv, NEW s \in Session, RemoveFile(s)
  PROVE  ImportInv'
<1> USE DEF ImportInv
<1>1. /\ s \in removing /\ removing' \subseteq removing
      /\ import' = [import EXCEPT ![s] = Gone] /\ UNCHANGED <<rows, drafts, adding, late>>
  BY DEF RemoveFile
<1>2. /\ import' = [t \in Session |-> import'[t]] /\ import'[s] = Gone
      /\ \A t \in Session : t # s => import'[t] = import[t]
  BY <1>1 DEF ImportTypes
<1>3. ImportTypes' /\ \A t \in Session : Sound(import'[t])
  BY <1>1, <1>2, GoneIs DEF ImportTypes
<1>4. QuotaInv' /\ SlotsInv'
  BY <1>2, <1>3, SpaceShrinks, GoneIs DEF SameSpace
<1>5. ReferencesInv'
  <2>1. ASSUME NEW t \in Session, import'[t].stage \in Active
        PROVE  t \notin removing' \cup ReferredTo(rows \cup drafts \cup adding)
    <3>1. import'[t] = import[t]
      BY <1>2, <2>1, GoneIs DEF Active
    <3> QED
      BY <1>1, <2>1, <3>1 DEF ReferencesInv, Active
  <2>2. \A t \in ReferredTo(rows \cup drafts) : import'[t].where = "import" \/ t \in late
    <3> SUFFICES ASSUME NEW t \in ReferredTo(rows \cup drafts)
                 PROVE  import'[t].where = "import" \/ t \in late
      OBVIOUS
    <3>1. t \in Session
      BY DEF ReferredTo
    <3> QED
      BY <1>1, <1>2, <3>1 DEF ReferencesInv, ReferencedFileKept, Imported
  <2> QED
    BY <1>1, <2>1, <2>2
       DEF ReferencesInv, ReferencedFileKept, Imported, ReferredTo, Active
<1> QED
  BY <1>3, <1>4, <1>5

LEMMA ImportNext ==
  ASSUME ImportInv, [Next]_vars
  PROVE  ImportInv'
<1> USE DEF ImportInv
<1>1. ASSUME NEW s \in Session,
             Upload(s) \/ Finish(s) \/ RemoveFile(s) \/ GoIdle(s) \/ FinishDropped(s)
      PROVE  ImportInv'
  BY <1>1, UploadGoesOn, FinishGoesOn, RemoveKeeps
<1>2. ASSUME NEW w \in Workspace, NEW s \in Session, Library(w, s) PROVE ImportInv'
  BY <1>2, LibraryGoesOn
<1>3. ASSUME NEW w \in Workspace, DeleteWorkspace(w) PROVE ImportInv'
  <2>1. rows' \subseteq rows /\ drafts' \subseteq drafts /\ UNCHANGED <<import, adding, removing, late>>
    BY <1>3 DEF DeleteWorkspace
  <2>2. \A t \in Session : t \in removing \cup ReferredTo(rows \cup drafts \cup adding) =>
          import[t].stage \notin Active
    BY DEF ReferencesInv, Active
  <2>3. removing \subseteq Session
    BY DEF ImportTypes
  <2>4. ReferencesInv'
    BY <2>1, <2>2, <2>3, ReferencesGoOn DEF ReferredTo, ReferencesInv
  <2> QED
    BY <2>1, <2>3, <2>4, LibraryKeeps DEF ImportTypes
<1>4. CASE PruneIdle
  <2>1. import' = Pruned /\ UNCHANGED <<rows, drafts, adding, removing, late>>
    BY <1>4 DEF PruneIdle, library
  <2>2. import' = [s \in Session |-> import'[s]]
    BY <2>1 DEF Pruned
  <2>3. \A s \in Session : GoesOn(import[s], import'[s])
    BY <2>1, PrunedIs, StaysOrGoes DEF ImportTypes, Active
  <2> QED
    BY <2>1, <2>2, <2>3, SessionsGoOn
<1>5. CASE Crash
  <2>1. /\ import' = [s \in Session |->
             IF import[s].stage \in {"open", "placing", "placed", "described"}
             THEN [import[s] EXCEPT !.stage = "lost"] ELSE import[s]]
        /\ adding' = {} /\ removing' = {} /\ UNCHANGED <<rows, drafts, late>>
    BY <1>5 DEF Crash
  <2>2. import' = [s \in Session |-> import'[s]]
    BY <2>1
  <2>3. \A s \in Session : GoesOn(import[s], import'[s])
    BY <2>1, StaysOrGoes, StageGoesOn DEF ImportTypes
  <2>4. ImportTypes' /\ \A s \in Session : Sound(import'[s])
    BY <2>1, <2>2, <2>3 DEF ImportTypes, GoesOn, Keeps
  <2>5. QuotaInv' /\ SlotsInv'
    BY <2>3, <2>4, SpaceShrinks DEF GoesOn
  <2>6. ReferencesInv'
    <3>1. ASSUME NEW t \in Session, import'[t].stage \in Active
          PROVE  t \notin ReferredTo(rows \cup drafts)
      BY <2>3, <3>1 DEF ReferencesInv, ReferredTo, GoesOn, Keeps, Active
    <3>2. \A t \in ReferredTo(rows \cup drafts) : import'[t].where = "import" \/ t \in late
      <4> SUFFICES ASSUME NEW t \in ReferredTo(rows \cup drafts), t \notin late
                   PROVE  import'[t].where = "import"
        OBVIOUS
      <4>1. t \in Session /\ t \in ReferredTo(rows \cup drafts \cup adding)
        BY DEF ReferredTo
      <4>2. import[t].where = "import" /\ import[t].stage \notin Active
        BY <4>1 DEF ReferencesInv, ReferencedFileKept, Imported, Active
      <4> QED
        BY <2>3, <4>1, <4>2 DEF GoesOn, Keeps
    <3> QED
      BY <2>1, <3>1, <3>2
         DEF ReferencesInv, ReferencedFileKept, Imported, ReferredTo, Active
  <2> QED
    BY <2>4, <2>5, <2>6
<1>6. CASE UNCHANGED vars
  <2>1. UNCHANGED <<import, rows, drafts, adding, removing, late>>
    BY <1>6 DEF vars, library
  <2>2. /\ import' = [s \in Session |-> import'[s]]
        /\ \A s \in Session : GoesOn(import[s], import'[s])
    BY <2>1, StaysOrGoes DEF ImportTypes
  <2> QED
    BY <2>1, <2>2, SessionsGoOn
<1> QED
  BY <1>1, <1>2, <1>3, <1>4, <1>5, <1>6 DEF Next

LEMMA ImportInit ==
  ASSUME Init
  PROVE  ImportInv
<1> DEFINE new == [Gone EXCEPT !.stage = "new"]
<1>1. /\ import = [s \in Session |-> new]
      /\ rows = {} /\ drafts = {} /\ adding = {} /\ removing = {} /\ late = {}
  BY DEF Init
<1>2. /\ new \in Import /\ new.stage = "new" /\ new.where = "nowhere" /\ new.hashed = <<>>
      /\ new.bytes = <<>> /\ new.size = 0 /\ new.walked = FALSE
  BY GoneIs DEF Gone, Import, Stage
<1> HIDE DEF new
<1>3. Sound(new) /\ ~Claims(new)
  <2>1. DOMAIN <<>> = {} /\ Len(<<>>) = 0 /\ Len(<<>>) <= 0
    OBVIOUS
  <2> QED
    BY <1>2, <2>1 DEF Sound, Claims
<1>4. ImportTypes /\ \A s \in Session : Sound(import[s])
  BY <1>1, <1>2, <1>3 DEF ImportTypes
<1>5. ReferencesInv
  BY <1>1 DEF ReferencesInv, ReferencedFileKept, ReferredTo
<1>6. QuotaInv /\ SlotsInv
  <2>1. Claiming = {}
    BY <1>1, <1>3, ClaimingIs DEF Claiming, Live, Open
  <2>2. Units(Space, {}) = {}
    BY DEF Units
  <2>3. Cardinality({}) = 0 /\ Quota \in Nat /\ MaxOpen \in Nat
    BY FS_EmptySet, ImportAssumption
  <2>4. QuotaInv
    BY <2>1, <2>2, <2>3, QuotaIs
  <2>5. SlotsInv
    <3> DEFINE S == {s \in Claiming : ~import[s].walked}
    <3>1. S = {}
      BY <2>1
    <3>2. Cardinality(S) <= MaxOpen
      <4> HIDE DEF S
      <4> QED
        BY <2>3, <3>1
    <3> QED
      BY <3>2 DEF SlotsInv
  <2> QED
    BY <2>4, <2>5
<1> QED
  BY <1>4, <1>5, <1>6 DEF ImportInv

\* What the quota counts is part of what is claimed, but for the texts that no admission has
\* counted; and what is open is of other sessions.
LEMMA CountedFits ==
  ASSUME ImportInv
  PROVE  QuotaUnlessOvertaken
<1> USE DEF ImportInv
<1> DEFINE A == Units(Lengths, Counted)
           B == Units(Sizes, Live)
           C == Units(Space, Claiming)
           N == Units(Notes, Fresh)
<1>1. /\ Counted \subseteq Session /\ Live \subseteq Session /\ Claiming \subseteq Session
      /\ Fresh \subseteq Session
  BY DEF Counted, Fresh, Imported, Live, Open, Claiming
<1>2. \A t \in Session :
        /\ Sizes[t] = 1..import[t].size
        /\ Lengths[t] = (1..Len(import[t].bytes)) \cup (-import[t].note .. -1)
        /\ Notes[t] = -import[t].note .. -1
        /\ Space[t] = SpaceOf(import[t])
        /\ import[t] \in Import /\ Sound(import[t])
  BY DEF Sizes, Lengths, Notes, Space, Text, ImportTypes
<1>3. ASSUME NEW t \in Counted
      PROVE  /\ t \in Claiming /\ 1..Len(import[t].bytes) \subseteq Space[t]
             /\ t \in Fresh \/ Lengths[t] \subseteq Space[t]
  <2>1. /\ import[t].where = "import" /\ ~import[t].torn /\ ~import[t].overtaken
        /\ Len(import[t].bytes) = import[t].size
    BY <1>1, <1>2 DEF Counted, Imported, Sound
  <2> QED
    BY <1>1, <1>2, <2>1 DEF Claiming, Fresh, SpaceOf
<1>4. Live \subseteq Claiming /\ Counted \cap Live = {}
  BY <1>1, <1>2 DEF Claiming, Counted, Imported, Live, Open, Sound
<1>5. A \subseteq (A \cap C) \cup N
  <2> SUFFICES ASSUME NEW c \in A, c \notin C PROVE c \in N
    OBVIOUS
  <2>1. c = <<c[1], c[2]>> /\ c[1] \in Counted /\ c[2] \in Lengths[c[1]]
    BY UnitsAre
  <2>2. c[1] \in Claiming /\ c[2] \notin Space[c[1]]
    BY <1>3, <2>1, UnitsAre
  <2>3. c[1] \in Fresh /\ c[2] \in Notes[c[1]]
    BY <1>1, <1>2, <1>3, <2>1, <2>2
  <2> QED
    BY <2>1, <2>3, UnitsAre
<1>6. B \subseteq C
  <2>1. \A t \in Live : Sizes[t] \subseteq Space[t]
    BY <1>1, <1>2 DEF SpaceOf
  <2> QED
    BY <1>4, <2>1, UnitsWithin
<1>7. A \cap B = {}
  BY <1>4, UnitsApart
<1>8. /\ IsFiniteSet(A) /\ Cardinality(A) \in Nat /\ IsFiniteSet(B) /\ Cardinality(B) \in Nat
      /\ IsFiniteSet(C) /\ Cardinality(C) \in Nat /\ IsFiniteSet(N) /\ Cardinality(N) \in Nat
  <2>1. \A t \in Session : /\ IsFiniteSet(Sizes[t]) /\ IsFiniteSet(Lengths[t])
                           /\ IsFiniteSet(Notes[t]) /\ IsFiniteSet(Space[t])
    BY <1>2, SpaceFinite
  <2>2. IsFiniteSet(Counted) /\ IsFiniteSet(Live) /\ IsFiniteSet(Claiming) /\ IsFiniteSet(Fresh)
    BY <1>1, FS_Subset, ImportAssumption
  <2> QED
    BY <1>1, <2>1, <2>2, UnitsFinite
<1>9. /\ Bytes(Counted) = Cardinality(A) /\ Reserved(Live) = Cardinality(B)
      /\ Texts(Fresh) = Cardinality(N)
  BY <1>1, SpaceIs
<1>10. Cardinality(C) <= Quota /\ Quota \in Nat
  BY QuotaIs, ImportAssumption
<1> HIDE DEF A, B, C, N
<1> DEFINE E == A \cap C
<1>11. /\ IsFiniteSet(E) /\ Cardinality(E) \in Nat
       /\ E \cap B = {} /\ E \cup B \subseteq C /\ A \subseteq E \cup N
  BY <1>5, <1>6, <1>7, <1>8, FS_Subset, FS_CardinalityType
<1> HIDE DEF E
<1>12. Cardinality(E \cup B) = Cardinality(E) + Cardinality(B)
  <2>1. Cardinality(E \cup B) = Cardinality(E) + Cardinality(B) - Cardinality({})
    BY <1>8, <1>11, FS_Union
  <2> QED
    BY <1>8, <1>11, <2>1, FS_EmptySet
<1>13. Cardinality(E \cup B) <= Cardinality(C)
  BY <1>8, <1>11, FS_Subset
<1>14. Cardinality(A) <= Cardinality(E) + Cardinality(N)
  <2>1. IsFiniteSet(E \cap N) /\ Cardinality(E \cap N) \in Nat
    BY <1>8, <1>11, FS_Intersection, FS_CardinalityType
  <2>2. /\ IsFiniteSet(E \cup N)
        /\ Cardinality(E \cup N) = Cardinality(E) + Cardinality(N) - Cardinality(E \cap N)
    BY <1>8, <1>11, FS_Union
  <2>3. Cardinality(A) <= Cardinality(E \cup N)
    BY <1>11, <2>2, FS_Subset
  <2> QED
    BY <1>8, <1>11, <2>1, <2>2, <2>3
<1>15. Bytes(Counted) + Reserved(Live) <= Quota + Texts(Fresh)
  BY <1>8, <1>9, <1>10, <1>11, <1>12, <1>13, <1>14
<1>16. Cardinality(Fresh \cup Live) <= MaxOpen
  <2> DEFINE S == {t \in Claiming : ~import[t].walked}
  <2>1. Fresh \cup Live \subseteq S
    <3>1. \A t \in Live : ~import[t].walked
      BY <1>1, <1>2 DEF Live, Open, Sound
    <3> QED
      BY <1>3, <1>4, <3>1 DEF Fresh
  <2>2. IsFiniteSet(S)
    BY <1>1, FS_Subset, ImportAssumption
  <2>3. /\ Cardinality(Fresh \cup Live) <= Cardinality(S)
        /\ Cardinality(Fresh \cup Live) \in Nat /\ Cardinality(S) \in Nat
    BY <2>1, <2>2, FS_Subset, FS_CardinalityType
  <2>4. Cardinality(S) <= MaxOpen /\ MaxOpen \in Nat
    BY ImportAssumption DEF SlotsInv
  <2> HIDE DEF S
  <2> QED
    BY <2>3, <2>4
<1> QED
  BY <1>15, <1>16 DEF QuotaUnlessOvertaken

\* What was hashed is all of the file, and so is what is there.
LEMMA SoundIsWhole ==
  ASSUME ImportInv
  PROVE  ImportedWhole
<1> SUFFICES ASSUME NEW s \in Imported
             PROVE  /\ import[s].hashed = Whole(s)
                    /\ import[s].bytes = Whole(s) \/ import[s].torn
  BY DEF ImportedWhole, HashedInOrder, WholeUnlessTorn
<1>1. /\ s \in Session /\ import[s].where = "import" /\ import[s] \in Import /\ Sound(import[s])
  BY DEF Imported, ImportInv, ImportTypes
<1>2. import[s].hashed \in Seq(0..MaxSize) /\ Len(import[s].hashed) = import[s].size
  BY <1>1 DEF Import, Sound
<1>3. /\ import[s].hashed = [i \in 1..import[s].size |-> import[s].hashed[i]]
      /\ DOMAIN import[s].hashed = 1..import[s].size
  BY <1>2
<1>4. import[s].hashed = Whole(s)
  BY <1>1, <1>3 DEF Whole, Sound
<1> QED
  BY <1>1, <1>4 DEF Sound

LEMMA ImportInvariant ==
  Spec => []ImportInv
<1>1. Init => ImportInv
  BY ImportInit
<1>2. ImportInv /\ [Next]_vars => ImportInv'
  BY ImportNext
<1> QED
  BY <1>1, <1>2, PTL DEF Spec

\* Whatever a client repeats, skips, reorders or abandons, an import that finish passed is the
\* file its client declared, unless a chunk of it reached the disk and was not acknowledged.
THEOREM ImportsAreWhole ==
  Spec => []ImportedWhole
<1>1. ImportInv => ImportedWhole
  BY SoundIsWhole
<1> QED
  BY <1>1, ImportInvariant, PTL

\* No partial file outlives its session; finished imports, with their metadata texts, and open
\* sessions fit the quota together, but for the texts that came since the last admission, of
\* which there are at most as many as sessions may be open, and for an import that was being
\* placed when another was admitted.
THEOREM DiskIsAccounted ==
  Spec => []DiskAccounted
<1>1. ImportInv => DiskAccounted
  BY CountedFits DEF ImportInv, DiskAccounted, PartialsAccountedFor, Sound
<1> QED
  BY <1>1, ImportInvariant, PTL

\* A row or a draft names a file that is there, unless it was written after a delete had found
\* no reference.
THEOREM ReferencedFilesAreKept ==
  Spec => []ReferencedFileKept
<1>1. ImportInv => ReferencedFileKept
  BY DEF ImportInv, ReferencesInv
<1> QED
  BY <1>1, ImportInvariant, PTL
=============================================================================
