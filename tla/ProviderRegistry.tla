-------------------------- MODULE ProviderRegistry --------------------------
(***************************************************************************)
(* Which provider serves an account (providers/registry.rs): the candidates *)
(* are asked in order whether they can do the operation, through a cache    *)
(* whose entries live for a fixed time.  A lookup that misses asks the      *)
(* provider with no lock held, so lookups overlap and an answer may reach   *)
(* the cache long after it was asked for.                                   *)
(***************************************************************************)
EXTENDS Naturals, Sequences, FiniteSets, SequencesExt

CONSTANTS
  Provider,    \* Pinned, Direct, "treg", "composio", ...: those that may exist
  Treg,        \* the one that cannot carry media
  Fallback,    \* the provider that can do nothing
  Orders,      \* candidate lists an account may have
  Reader,      \* lookups that may run at once
  TTL,         \* CAPABILITY_TTL_MS, in ticks
  MaxTime      \* bound on the clock

VARIABLES
  clock,
  cache,    \* provider -> its cached answer; stamp and value, and when it was given
  call      \* each lookup

vars == <<clock, cache, call>>

Nothing == [value |-> FALSE, stamp |-> 0, given |-> 0]

\* A lookup that is not running: `chosen` is what the one before chose, `stale`
\* notes that it went by an answer that was too old when it began.
Quiet(p) == [pc |-> "idle", left |-> <<>>, mode |-> "text", began |-> 0,
             asked |-> 0, answer |-> Nothing, stale |-> FALSE, chosen |-> p]

Init ==
  /\ clock = 0
  /\ cache = [p \in {} |-> Nothing]
  /\ call = [r \in Reader |-> Quiet(Fallback)]

Tick == /\ clock < MaxTime /\ clock' = clock + 1
        /\ UNCHANGED <<cache, call>>

-----------------------------------------------------------------------------
(* One lookup: provider_for_operation, which stops at the first candidate that *)
(* can, or merged_capabilities, which asks them all.                           *)

\* Treg is passed over for a request that carries media.
Skips(c) == c.mode = "media" /\ Head(c.left) = Treg

Start(r) ==
  /\ call[r].pc = "idle"
  /\ \E order \in Orders, mode \in {"text", "media", "all"} :
       call' = [call EXCEPT ![r] = [Quiet(Fallback) EXCEPT
                  !.pc = "look", !.left = order, !.mode = mode, !.began = clock]]
  /\ UNCHANGED <<clock, cache>>

\* A faulty form: an entry never ages.
FreshForever(p, now) == p \in DOMAIN cache

Fresh(p, now) == p \in DOMAIN cache /\ now - cache[p].stamp < TTL

\* What the lookup does with the answer of the candidate at the head.
Judged(c, given) ==
  LET p == Head(c.left)
      old == c.stale \/ given.given + TTL <= c.began
  IN  IF given.value /\ c.mode # "all"
      THEN [Quiet(p) EXCEPT !.stale = old]
      ELSE [c EXCEPT !.pc = "look", !.left = Tail(@), !.stale = old,
                     !.asked = 0, !.answer = Nothing]

\* The cache is read under its lock, which is dropped before anything else.
Look(r) ==
  LET c == call[r]
      p == Head(c.left) IN
  /\ c.pc = "look"
  /\ call' = [call EXCEPT ![r] =
       CASE c.left = <<>> -> [Quiet(Fallback) EXCEPT !.stale = c.stale]
         [] c.left # <<>> /\ Skips(c) -> [c EXCEPT !.left = Tail(@)]
         [] c.left # <<>> /\ ~Skips(c) /\ Fresh(p, clock) -> Judged(c, cache[p])
         [] OTHER -> [c EXCEPT !.pc = "ask", !.asked = clock]]
  /\ UNCHANGED <<clock, cache>>

\* What a provider may say of the operation: its tool list changes as scopes are
\* granted, and one that cannot be read reads as a list without tools.
Answers == BOOLEAN

\* The provider answers, from its catalog and the user's pins.
Ask(r) ==
  /\ call[r].pc = "ask"
  /\ \E v \in Answers :
       call' = [call EXCEPT ![r].pc = "store",
                            ![r].answer = [value |-> v, stamp |-> 0, given |-> clock]]
  /\ UNCHANGED <<clock, cache>>

\* A faulty form: stamped when it is stored, however old it has become.
StampLate(c) == clock

\* The entry is stamped with the time before the provider was asked.
Stamp(c) == c.asked

Store(r) ==
  LET c == call[r]
      entry == [c.answer EXCEPT !.stamp = Stamp(c)] IN
  /\ c.pc = "store"
  /\ cache' = [p \in DOMAIN cache \cup {Head(c.left)} |->
                 IF p = Head(c.left) THEN entry ELSE cache[p]]
  /\ call' = [call EXCEPT ![r] = Judged(c, entry)]
  /\ UNCHANGED clock

Next == Tick \/ \E r \in Reader : Start(r) \/ Look(r) \/ Ask(r) \/ Store(r)

Spec == Init /\ [][Next]_vars

-----------------------------------------------------------------------------
\* No answer a lookup goes by was older than the cache's time to live when the
\* lookup began, however long answers took to be stored and in whatever order
\* overlapping lookups stored them (capabilities_via).
AnswersAreRecent == \A r \in Reader : ~call[r].stale

-----------------------------------------------------------------------------
(* Why that holds (ProviderProofs).                                        *)

RegistryAssumption == Orders \in SUBSET Seq(Provider) /\ TTL \in Nat \ {0}

Lookup == [pc : {"idle", "look", "ask", "store"}, left : Seq(Provider), mode : {"text", "media", "all"},
           began : Nat, asked : Nat, answer : [value : BOOLEAN, stamp : Nat, given : Nat],
           stale : BOOLEAN, chosen : Provider \cup {Fallback}]

\* An entry is stamped no later than its answer was given, and an answer is given after its
\* lookup began; so no lookup has gone by one that was too old.
Sound(entry) ==
  entry \in [value : BOOLEAN, stamp : Nat, given : Nat] /\ entry.stamp <= entry.given

Timely(c, now) ==
  /\ c \in Lookup /\ ~c.stale /\ c.began <= now
  /\ c.pc \in {"ask", "store"} => c.left # <<>> /\ c.asked \in c.began..now
  /\ c.pc = "store" => c.asked <= c.answer.given

RecencyInv ==
  /\ clock \in Nat /\ call \in [Reader -> Lookup]
  /\ \A p \in DOMAIN cache : Sound(cache[p])
  /\ \A r \in Reader : Timely(call[r], clock)
=============================================================================
