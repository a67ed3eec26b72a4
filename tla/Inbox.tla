------------------------------- MODULE Inbox -------------------------------
(***************************************************************************)
(* Inbound engagement of one workspace (inbox/mod.rs, api/inbox_routes.rs, *)
(* the inbox rows of store.rs): passes that read the platforms, store what *)
(* is new and announce it, and replies that are sent and then marked.      *)
(*                                                                         *)
(* A pass is the poller's or a handler's.  Every await of it, a provider   *)
(* call, one insert or one event, is a step: other passes, replies, a      *)
(* deletion of the workspace or a crash fall between.  A handler's pass    *)
(* ends at any await when its client hangs up; the poller's does not.      *)
(*                                                                         *)
(* An item is the pair of its account and the platform's id for it, the    *)
(* key of the unique index; author, text, time and the read flag are left  *)
(* out.                                                                    *)
(***************************************************************************)
EXTENDS Naturals, FiniteSets

CONSTANTS
  Account,    \* the workspace's accounts
  Comment,    \* the ids a platform gives its comments, replies and messages
  Pass,       \* passes that may run at once
  Poller,     \* the pass of spawn_poller
  Replier,    \* reply handlers
  MaxFaults   \* bound on crashes, failing inserts and marks, dropped handlers

ASSUME InboxAssumption ==
  /\ Poller \in Pass /\ IsFiniteSet(Pass)
  /\ MaxFaults \in Nat

Item == Account \X Comment

VARIABLES
  workspace,  \* "live" or "deleted"
  account,    \* per account: its row
  inbox,      \* per item: its row
  pass,       \* per pass: what it still has to do, what it must announce
  calling,    \* per handler: the row whose reply is with the provider
  marking,    \* per handler: the row whose reply the provider took
  answered,   \* rows whose reply a provider confirmed
  unmarked,   \* rows whose handler was cut off after that and before the mark
  inserted,   \* per item: how often its row was new
  events,     \* per item: inbox.received events
  cutOff,     \* per item: announcements a crash or a hang-up took
  failed,     \* per item: announcements a failing insert took
  faults

\* A row's id: an item that is stored again after a deletion has another.
Row(i) == <<i, inserted[i]>>

replies == <<calling, marking, answered, unmarked>>
tally == <<inserted, events, cutOff, failed>>
vars == <<workspace, account, inbox, pass, replies, tally, faults>>

Idle == [step |-> "idle", todo |-> {}, items |-> {}, batch |-> {}, fresh |-> {}]

TypeOK ==
  /\ workspace \in {"live", "deleted"}
  /\ account \in [Account -> {"connected", "disconnected", "removed"}]
  /\ inbox \in [Item -> {"absent", "unreplied", "replied"}]
  /\ pass \in [Pass -> [step : {"idle", "reading", "storing"}, todo : SUBSET Account,
                        items : SUBSET Item, batch : SUBSET Item, fresh : SUBSET Item]]
  /\ \A p \in Pass : /\ pass[p].step = "idle" => pass[p] = Idle
                     /\ pass[p].step = "storing" <=> pass[p].items # {}
  /\ {calling, marking} \subseteq SUBSET (Replier \X (Item \X Nat))
  /\ {answered, unmarked} \subseteq SUBSET (Item \X Nat)
  /\ {inserted, events, cutOff, failed} \subseteq [Item -> Nat]
  /\ faults \in 0..MaxFaults

Init ==
  /\ workspace = "live"
  /\ account \in [Account -> {"connected", "disconnected"}]
  /\ inbox = [i \in Item |-> "absent"]
  /\ pass = [p \in Pass |-> Idle]
  /\ calling = {} /\ marking = {} /\ answered = {} /\ unmarked = {}
  /\ inserted = [i \in Item |-> 0] /\ events = inserted
  /\ cutOff = inserted /\ failed = inserted
  /\ faults = 0

\* Add one to the count of every item of a set.
Counted(count, items) == [i \in Item |-> count[i] + (IF i \in items THEN 1 ELSE 0)]

Fault == faults < MaxFaults /\ faults' = faults + 1

\* What a pass still has to announce.
Owes(p) == pass[p].batch \union pass[p].fresh

Connected == {a \in Account : account[a] = "connected"}

-----------------------------------------------------------------------------
(* refresh: the accounts are listed once, each is read by a call of its    *)
(* own, what it returns is stored item by item, and the events go out when *)
(* every account is done.                                                  *)

\* Faulty form: the accounts are not asked whether they are connected, or there.
AnyScope(p) == {Account}

\* The poller and a plain request take every connected account, a request for one
\* account is refused unless it is connected.
Scope(p) == {Connected} \union (IF p = Poller THEN {} ELSE {{a} : a \in Connected})

\* A pass begins with its list of accounts.
Listed(p) ==
  /\ pass[p].step = "idle"
  /\ \E accounts \in Scope(p) \ {{}} :
       pass' = [pass EXCEPT ![p] = [Idle EXCEPT !.step = "reading", !.todo = accounts]]
  /\ UNCHANGED <<workspace, account, inbox, replies, tally, faults>>

\* The call returns some of the account's items; none when the platform cannot be
\* read, when the call fails and when there are none.  The account is the one that
\* was listed, whatever its row says by now.
Read(p) ==
  /\ pass[p].step = "reading"
  /\ \E a \in pass[p].todo, seen \in SUBSET Comment :
       pass' = [pass EXCEPT ![p].todo = @ \ {a},
                            ![p].items = {a} \X seen,
                            ![p].step = IF seen = {} THEN "reading" ELSE "storing"]
  /\ UNCHANGED <<workspace, account, inbox, replies, tally, faults>>

\* What the pass knows once one of its items is stored, and the row was new or not.
After(p, i, new) ==
  LET left == pass[p].items \ {i}
      batch == pass[p].batch \union new
  IN [pass[p] EXCEPT
       !.items = left,
       !.step  = IF left = {} THEN "reading" ELSE "storing",
       !.batch = IF left = {} THEN {} ELSE batch,
       !.fresh = IF left = {} THEN @ \union batch ELSE @]

\* Faulty form: INSERT OR REPLACE; the row is written anew and counts as new only
\* when it was not there.
StoredAnew(p) ==
  /\ pass[p].step = "storing"
  /\ \E i \in pass[p].items :
       LET new == {j \in {i} : inbox[j] = "absent"} IN
       /\ inbox' = [inbox EXCEPT ![i] = "unreplied"]
       /\ inserted' = Counted(inserted, new)
       /\ pass' = [pass EXCEPT ![p] = After(p, i, new)]
  /\ UNCHANGED <<workspace, account, replies, events, cutOff, failed, faults>>

\* Faulty form: every fetched item is announced.
StoredAndAnnounced(p) ==
  /\ pass[p].step = "storing"
  /\ \E i \in pass[p].items :
       LET new == {j \in {i} : inbox[j] = "absent"} IN
       /\ inbox' = [j \in Item |-> IF j \in new THEN "unreplied" ELSE inbox[j]]
       /\ inserted' = Counted(inserted, new)
       /\ pass' = [pass EXCEPT ![p] = After(p, i, {i})]
  /\ UNCHANGED <<workspace, account, replies, events, cutOff, failed, faults>>

\* INSERT OR IGNORE: a row that is there keeps its flags and is not new.
Stored(p) ==
  /\ pass[p].step = "storing"
  /\ \E i \in pass[p].items :
       LET new == {j \in {i} : inbox[j] = "absent"} IN
       /\ inbox' = [j \in Item |-> IF j \in new THEN "unreplied" ELSE inbox[j]]
       /\ inserted' = Counted(inserted, new)
       /\ pass' = [pass EXCEPT ![p] = After(p, i, new)]
  /\ UNCHANGED <<workspace, account, replies, events, cutOff, failed, faults>>

\* An insert fails: ingest_items returns the error, and with it goes the list of the
\* rows it had inserted; the pass goes on with the next account.
StoreFails(p) ==
  /\ pass[p].step = "storing" /\ Fault
  /\ pass' = [pass EXCEPT ![p].items = {}, ![p].batch = {}, ![p].step = "reading"]
  /\ failed' = Counted(failed, pass[p].batch)
  /\ UNCHANGED <<workspace, account, inbox, replies, inserted, events, cutOff>>

\* Faulty form: the items of an account that is gone keep their place in the list.
AnnouncedWhileConnected(p) ==
  /\ pass[p].step = "reading" /\ pass[p].todo = {}
  /\ \E i \in pass[p].fresh :
       /\ i[1] \in Connected
       /\ events' = Counted(events, {i})
       /\ pass' = [pass EXCEPT ![p].fresh = @ \ {i}]
  /\ UNCHANGED <<workspace, account, inbox, replies, inserted, cutOff, failed, faults>>

\* One inbox.received event per new row, whatever became of it since.
Announced(p) ==
  /\ pass[p].step = "reading" /\ pass[p].todo = {}
  /\ \E i \in pass[p].fresh :
       /\ events' = Counted(events, {i})
       /\ pass' = [pass EXCEPT ![p].fresh = @ \ {i}]
  /\ UNCHANGED <<workspace, account, inbox, replies, inserted, cutOff, failed, faults>>

\* The pass answers with its summary.
Finished(p) ==
  /\ pass[p].step = "reading" /\ pass[p].todo = {} /\ pass[p].fresh = {}
  /\ pass' = [pass EXCEPT ![p] = Idle]
  /\ UNCHANGED <<workspace, account, inbox, replies, tally, faults>>

\* The client of a handler's pass goes away.
HungUp(p) ==
  /\ p # Poller /\ pass[p].step # "idle" /\ Fault
  /\ pass' = [pass EXCEPT ![p] = Idle]
  /\ cutOff' = Counted(cutOff, Owes(p))
  /\ UNCHANGED <<workspace, account, inbox, replies, inserted, events, failed>>

-----------------------------------------------------------------------------
(* reply: the item is read, its reply sent, and the row marked.            *)

Busy == {c[1] : c \in calling \union marking}

\* The row is read and its reply goes to the provider, replied before or not.
Replied(c) ==
  /\ c[1] \notin Busy
  /\ calling' = calling \union {c}
  /\ UNCHANGED <<workspace, account, inbox, pass, marking, answered, unmarked, tally, faults>>

\* The provider confirms it.
Sent(c) ==
  /\ c \in calling
  /\ calling' = calling \ {c} /\ marking' = marking \union {c}
  /\ answered' = answered \union {c[2]}
  /\ UNCHANGED <<workspace, account, inbox, pass, unmarked, tally, faults>>

\* Faulty form: the row is marked whatever the provider answered.
RefusedAndMarked(c) ==
  /\ c \in calling
  /\ calling' = calling \ {c} /\ marking' = marking \union {c}
  /\ UNCHANGED <<workspace, account, inbox, pass, answered, unmarked, tally, faults>>

\* The provider's error, or the client hangs up during the call.  Whether the
\* platform took the reply all the same is not known, and the row stays as it is.
Refused(c) ==
  /\ c \in calling
  /\ calling' = calling \ {c}
  /\ UNCHANGED <<workspace, account, inbox, pass, marking, answered, unmarked, tally, faults>>

\* mark_inbox_replied; the row may have gone with its workspace.
Marked(c) ==
  /\ c \in marking
  /\ marking' = marking \ {c}
  /\ inbox' = [i \in Item |->
       IF c[2] = Row(i) /\ inbox[i] # "absent" THEN "replied" ELSE inbox[i]]
  /\ UNCHANGED <<workspace, account, pass, calling, answered, unmarked, tally, faults>>

\* The mark fails, or the client hangs up before it.
ReplyCutOff(c) ==
  /\ c \in marking /\ Fault
  /\ marking' = marking \ {c}
  /\ unmarked' = unmarked \union {c[2]}
  /\ UNCHANGED <<workspace, account, inbox, pass, calling, answered, tally>>

-----------------------------------------------------------------------------
(* What goes on around them.                                               *)

\* A connect or disconnect handshake records its outcome.
Connection(a) ==
  /\ account[a] # "removed"
  /\ account' \in {[account EXCEPT ![a] = c] : c \in {"connected", "disconnected"}}
  /\ UNCHANGED <<workspace, inbox, pass, replies, tally, faults>>

\* delete_account keeps the account's inbox rows.
DeleteAccount(a) ==
  /\ account[a] # "removed"
  /\ account' = [account EXCEPT ![a] = "removed"]
  /\ UNCHANGED <<workspace, inbox, pass, replies, tally, faults>>

\* The cascade of delete_workspace, in one transaction.
DeleteWorkspace ==
  /\ workspace = "live"
  /\ workspace' = "deleted"
  /\ account' = [a \in Account |-> "removed"]
  /\ inbox' = [i \in Item |-> "absent"]
  /\ UNCHANGED <<pass, replies, tally, faults>>

\* The process dies; passes, replies and announcements are in memory.
Crash ==
  /\ Fault
  /\ pass' = [p \in Pass |-> Idle]
  /\ cutOff' = [i \in Item |-> cutOff[i] + Cardinality({p \in Pass : i \in Owes(p)})]
  /\ unmarked' = unmarked \union {c[2] : c \in marking}
  /\ calling' = {} /\ marking' = {}
  /\ UNCHANGED <<workspace, account, inbox, answered, inserted, events, failed>>

-----------------------------------------------------------------------------

Refresh(p) == Read(p) \/ Stored(p) \/ StoreFails(p) \/ Announced(p) \/ Finished(p)

Reply(c) == Sent(c) \/ Refused(c) \/ Marked(c) \/ ReplyCutOff(c)

Next ==
  \/ \E p \in Pass : Listed(p) \/ Refresh(p) \/ HungUp(p)
  \/ \E i \in Item, r \in Replier : inbox[i] # "absent" /\ Replied(<<r, Row(i)>>)
  \/ \E c \in calling \union marking : Reply(c)
  \/ \E a \in Account : Connection(a) \/ DeleteAccount(a)
  \/ DeleteWorkspace
  \/ Crash

Spec == Init /\ [][Next]_vars

\* A pass that has begun is polled to its end, and every provider call it makes ends
\* within the client's timeout. Nobody owes a new pass.
FairSpec == Spec /\ \A p \in Pass : WF_vars(Refresh(p))

-----------------------------------------------------------------------------
(* Properties.                                                             *)

Owing(i) == {p \in Pass : i \in Owes(p)}

\* However many passes read the same item, a row is announced once for each time it
\* was new: the event went out, one pass still owes it, or a crash, a hang-up or a
\* failing insert took it. None is announced twice and none is mislaid.
EachNewRowOnce ==
  \A i \in Item :
    inserted[i] = events[i] + Cardinality(Owing(i)) + cutOff[i] + failed[i]

\* The replied flag is a promise about the platform: a provider confirmed the reply
\* of every row that carries it.
RepliedMeansSent ==
  \A i \in Item : inbox[i] = "replied" => Row(i) \in answered

\* And the other way: a row whose reply was confirmed says so as soon as its handler
\* is done, and whatever passes read the item again, unless the handler was cut off.
SentIsMarked ==
  \A i \in Item :
    inbox[i] = "unreplied" /\ Row(i) \in answered =>
      Row(i) \in unmarked \union {c[2] : c \in marking}

\* The flag, whatever passes read an item while its reply is under way (mark_replied).
ReplyIsMarkedTruly == RepliedMeansSent /\ SentIsMarked

\* Once the passes that were running when an account or its workspace went away are
\* done, an account left without rows stays without: nothing brings its items back.
QuietAfterRemoval ==
  \A a \in Account :
    LET empty == \A c \in Comment : inbox[<<a, c>>] = "absent" IN
    [](account[a] = "removed" /\ empty /\ (\A p \in Pass : pass[p] = Idle) => []empty)

\* A new row is announced, or its announcement is lost, before long: a pass does not
\* keep it to itself, whatever happens meanwhile to the account or the workspace.
NewRowIsSettled ==
  \A i \in Item : (Owing(i) # {}) ~> (Owing(i) = {})

\* A pass ends, and with the last pass the account's rows (refresh, delete_account).
PassesSettle == QuietAfterRemoval /\ NewRowIsSettled
=============================================================================
