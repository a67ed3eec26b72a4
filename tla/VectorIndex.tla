---------------------------- MODULE VectorIndex ----------------------------
(***************************************************************************)
(* The in-memory index of sealed embeddings (vector_index.rs): partitions  *)
(* of vectors, of several indexes, under one budget.  Every operation runs *)
(* under the budget's lock and is a step; a vector is its number of        *)
(* dimensions and, for the ranking, its score against the query.           *)
(***************************************************************************)
EXTENDS Integers, Sequences, FiniteSets

CONSTANTS
  Index,     \* indexes that share the budget
  Part,      \* names of partitions
  Id,        \* ids of vectors
  Dims,      \* numbers of dimensions
  Limit,     \* the budget
  K,         \* how many results a query wants
  Score,     \* scores of vectors against the query
  MaxTotal,  \* bounds the totals, and the vectors of a hydration: none is added above it
  MaxOffers  \* bounds the vectors a query streams

IndexAssumption ==
  /\ Dims \subseteq Nat /\ Score \subseteq Int
  /\ Limit \in Nat /\ K \in Nat /\ MaxTotal \in Nat

Key == Index \X Part
Overhead == 1

VARIABLES
  mem,      \* the partitions in memory
  order,    \* pairs of their keys, the one that was used less recently first
  used,     \* bytes in use, as counted
  total,    \* per key the number of vectors known to exist, where one is known
  evicted,  \* keys that are reported as not in memory
  known,    \* keys that were asked into memory and not dropped since
  kept,     \* the collector of a streamed query: which of its offers it keeps
  offered   \* the scores it was offered

vars == <<mem, order, used, total, evicted, known, kept, offered>>

Meta == <<total, evicted, known>>
Memory == <<mem, order, used>>
Stream == <<kept, offered>>

Vector == [id : Id, dims : Dims]
Bytes(v) == v.dims + Overhead
Empty == [vectors |-> <<>>, position |-> <<>>, bytes |-> 0]

IsPartition(p) ==
  /\ p = [vectors |-> p.vectors, position |-> [id \in DOMAIN p.position |-> p.position[id]], bytes |-> p.bytes]
  /\ p.vectors \in Seq(Vector) /\ DOMAIN p.position \subseteq Id /\ p.bytes \in Nat

TypeOK ==
  /\ DOMAIN mem \subseteq Key /\ IsFiniteSet(DOMAIN mem) /\ \A k \in DOMAIN mem : IsPartition(mem[k])
  /\ used \in Nat /\ DOMAIN mem \subseteq known /\ order \subseteq (DOMAIN mem) \X (DOMAIN mem)
  /\ DOMAIN total \subseteq Key /\ IsFiniteSet(DOMAIN total) /\ \A k \in DOMAIN total : total[k] \in Nat
  /\ offered \in Seq(Score) /\ kept \subseteq DOMAIN offered

Init ==
  /\ mem = <<>> /\ order = {} /\ used = 0
  /\ total = <<>> /\ evicted = {} /\ known = {}
  /\ kept = {} /\ offered = <<>>

-----------------------------------------------------------------------------
(* A partition: a vector in place of one of the same id, or at the end; a    *)
(* removed one leaves its place to the last.                                 *)

With(f, x, y) == [z \in DOMAIN f \cup {x} |-> IF z = x THEN y ELSE f[z]]
Without(f, xs) == [z \in DOMAIN f \ xs |-> f[z]]

Put(p, v) ==
  IF v.id \in DOMAIN p.position
  THEN [p EXCEPT !.vectors[p.position[v.id]] = v,
                 !.bytes = @ + Bytes(v) - Bytes(p.vectors[p.position[v.id]])]
  ELSE [vectors |-> Append(p.vectors, v),
        position |-> With(p.position, v.id, Len(p.vectors) + 1),
        bytes |-> p.bytes + Bytes(v)]

\* The vectors without the one at n.
SwapRemoved(vectors, n) ==
  [i \in 1..Len(vectors) - 1 |-> IF i = n THEN vectors[Len(vectors)] ELSE vectors[i]]
TakeStale(p, id) ==
  LET n == p.position[id]
  IN [vectors |-> SwapRemoved(p.vectors, n),
      position |-> Without(p.position, {id}),
      bytes |-> p.bytes - Bytes(p.vectors[n])]
Take(p, id) ==
  LET n == p.position[id]
      moved == p.vectors[Len(p.vectors)].id
  IN [vectors |-> SwapRemoved(p.vectors, n),
      position |-> Without([p.position EXCEPT ![moved] = n], {id}),
      bytes |-> p.bytes - Bytes(p.vectors[n])]

Built(vectors) ==
  LET built[n \in 0..Len(vectors)] == IF n = 0 THEN Empty ELSE Put(built[n - 1], vectors[n])
  IN built[Len(vectors)]

-----------------------------------------------------------------------------
(* The budget.                                                               *)

\* What f adds up to, counted one by one.
Amount(f) == Cardinality(UNION {{x} \X (1..f[x]) : x \in DOMAIN f})

Freed(m, keys) == Amount([k \in keys |-> m[k].bytes])

\* A partition is a victim, unless it is "keep", if "extra" does not fit yet when all that
\* were used less recently are gone.
Victims(m, ord, inUse, extra, keep) ==
  LET others == DOMAIN m \ {keep}
  IN {k \in others : inUse + extra - Freed(m, {q \in others : <<q, k>> \in ord}) > Limit}

Among(ord, keys) == ord \cap (keys \X keys)

\* A search, or a change of a partition, makes it the most recently used one.
Touched(k) == Among(order, DOMAIN mem \ {k}) \cup ((DOMAIN mem \ {k}) \X {k})

\* A hydration takes its time before it waits for the lock: others may be later.
PlacedSince(ord, keys, k) ==
  {ord \cup (early \X {k}) \cup ({k} \X (keys \ early)) :
     early \in {s \in SUBSET keys : \A p \in ord : p[2] \in s => p[1] \in s}}

Larger(n, a) == IF a > n THEN a ELSE n
Known(k) == IF k \in DOMAIN total THEN total[k] ELSE 0

-----------------------------------------------------------------------------
(* Operations.                                                               *)

\* Replace a partition by the vectors that opened; one larger than the whole budget
\* leaves memory and is reported.
Hydrate(k, vectors) ==
  LET p == Built(vectors)
      rest == Without(mem, {k})
      left == used - (IF k \in DOMAIN mem THEN mem[k].bytes ELSE 0)
      out == Victims(rest, order, left, p.bytes, k)
      stay == DOMAIN rest \ out
  IN /\ total' = With(total, k, Larger(Known(k), Len(p.vectors)))
     /\ known' = known \cup {k}
     /\ \/ /\ p.bytes > Limit
           /\ mem' = rest /\ order' = Among(order, DOMAIN rest) /\ used' = left
           /\ evicted' = evicted \cup {k}
        \/ /\ p.bytes <= Limit
           /\ mem' = With(Without(rest, out), k, p)
           /\ order' \in PlacedSince(Among(order, stay), stay, k)
           /\ used' = left - Freed(rest, out) + p.bytes
           /\ evicted' = (evicted \cup out) \ {k}
     /\ UNCHANGED Stream

SetTotal(k, n) ==
  /\ total' = With(total, k, n)
  /\ UNCHANGED <<Memory, evicted, known, Stream>>

\* Insert or replace one vector of a partition in memory; then others make room.
Upsert(k, v) ==
  LET p == Put(mem[k], v)
      grown == [mem EXCEPT ![k] = p]
      inUse == used + p.bytes - mem[k].bytes
      out == IF inUse > Limit THEN Victims(grown, Touched(k), inUse, 0, k) ELSE {}
  IN /\ k \in DOMAIN mem /\ (v.id \in DOMAIN mem[k].position \/ Known(k) < MaxTotal)
     /\ mem' = Without(grown, out)
     /\ order' = Among(Touched(k), DOMAIN mem \ out)
     /\ used' = inUse - Freed(grown, out)
     /\ evicted' = evicted \cup out
     /\ total' = IF v.id \in DOMAIN mem[k].position THEN total ELSE With(total, k, Known(k) + 1)
     /\ UNCHANGED <<known, Stream>>

\* From memory and from the total; a partition that is not in memory keeps both.
RemoveVector(k, id) ==
  /\ k \in DOMAIN mem /\ id \in DOMAIN mem[k].position
  /\ mem' = [mem EXCEPT ![k] = Take(@, id)]
  /\ used' = used - (mem[k].bytes - mem'[k].bytes)
  /\ total' = IF k \in DOMAIN total /\ total[k] > 0 THEN [total EXCEPT ![k] = @ - 1] ELSE total
  /\ UNCHANGED <<order, evicted, known, Stream>>

DropPartition(k) ==
  /\ mem' = Without(mem, {k}) /\ order' = Among(order, DOMAIN mem \ {k})
  /\ used' = used - (IF k \in DOMAIN mem THEN mem[k].bytes ELSE 0)
  /\ total' = Without(total, {k}) /\ evicted' = evicted \ {k} /\ known' = known \ {k}
  /\ UNCHANGED Stream

\* None for a partition that is not in memory: the caller uses its term index.
Search(k) ==
  /\ k \in DOMAIN mem
  /\ order' = Touched(k)
  /\ UNCHANGED <<mem, used, Meta, Stream>>

\* What an index reports of itself.
Coverage(i) ==
  LET hydrated == Amount([k \in {q \in DOMAIN mem : q[1] = i} |-> Len(mem[k].vectors)])
      counted == Amount([k \in {q \in DOMAIN total : q[1] = i} |-> total[k]])
  IN [hydrated |-> hydrated, total |-> Larger(counted, hydrated),
      evicted |-> Cardinality({k \in evicted : k[1] = i})]

-----------------------------------------------------------------------------
(* The collector of a query that streams its candidates.                     *)

\* The top of the heap: one of them, where several are the lowest.
Lowest == {n \in kept : \A m \in kept : offered[n] <= offered[m]}

AcceptsAny(score) == K > 0
Accepts(score) == K > 0 /\ (Cardinality(kept) < K \/ \A n \in Lowest : score > offered[n])

Offer(score) ==
  /\ Len(offered) < MaxOffers
  /\ offered' = Append(offered, score)
  /\ \/ ~Accepts(score) /\ kept' = kept
     \/ /\ Accepts(score) /\ Cardinality(kept) # K
        /\ kept' = kept \cup {Len(offered) + 1}
     \/ /\ Accepts(score) /\ Cardinality(kept) = K
        /\ \E n \in Lowest : kept' = (kept \ {n}) \cup {Len(offered) + 1}
  /\ UNCHANGED <<Memory, Meta>>

Hydrated == UNION {[1..n -> Vector] : n \in 0..MaxTotal}

CacheNext ==
  \/ \E k \in Key, s \in Hydrated : Hydrate(k, s)
  \/ \E k \in Key, n \in {0, MaxTotal} : SetTotal(k, n)
  \/ \E k \in Key, v \in Vector : Upsert(k, v)
  \/ \E k \in Key, id \in Id : RemoveVector(k, id)
  \/ \E k \in Key : DropPartition(k) \/ Search(k)
QueryNext == \E score \in Score : Offer(score)

Next == CacheNext \/ QueryNext

Spec == Init /\ [][Next]_vars

-----------------------------------------------------------------------------
\* The count is the bytes in memory, and each vector is where its partition says.
Sizes(vectors) == [n \in DOMAIN vectors |-> Bytes(vectors[n])]
Places(p) ==
  /\ \A n \in DOMAIN p.vectors :
       p.vectors[n].id \in DOMAIN p.position /\ p.position[p.vectors[n].id] = n
  /\ \A id \in DOMAIN p.position :
       p.position[id] \in DOMAIN p.vectors /\ p.vectors[p.position[id]].id = id
Accounted ==
  /\ used = Freed(mem, DOMAIN mem)
  /\ \A k \in DOMAIN mem : mem[k].bytes = Amount(Sizes(mem[k].vectors)) /\ Places(mem[k])

\* Of two partitions one was used less recently.
Ordered ==
  /\ \A a, b \in DOMAIN mem : <<a, b>> \in order <=> a # b /\ <<b, a>> \notin order
  /\ \A a, b, c \in DOMAIN mem : <<a, b>> \in order /\ <<b, c>> \in order => <<a, c>> \in order

\* Over the budget is only a partition that is alone in memory (it grew one vector at a
\* time: a hydration of it would be refused).
WithinLimit == used <= Limit \/ Cardinality(DOMAIN mem) = 1

\* What was asked into memory and is not there is reported, and nothing else is.
Reported == /\ known \ DOMAIN mem = evicted
            /\ \A i \in Index : Coverage(i).hydrated <= Coverage(i).total

\* Whatever is hydrated, changed, removed, dropped and searched, in any order and over
\* several indexes: the budget holds, and what it pushed out is never silent
\* (vector_index.rs 9-14).
CacheIsHonest == Accounted /\ WithinLimit /\ Reported

\* The collector holds the K best of what it was offered, in bounded memory.
BestKept ==
  /\ Cardinality(kept) = (IF Len(offered) < K THEN Len(offered) ELSE K)
  /\ \A n \in kept, m \in DOMAIN offered \ kept : offered[n] >= offered[m]

\* What the operations preserve.
CacheInv == TypeOK /\ Ordered /\ CacheIsHonest /\ BestKept

\* Both ways of searching: in memory, and streamed when memory does not suffice.
IndexKept == CacheIsHonest /\ BestKept
=============================================================================
