------------------------- MODULE PublishQueueProofs -------------------------
(***************************************************************************)
(* Proofs about PublishQueue: IInv is inductive, and the safety invariants *)
(* and action properties of the queue follow from it, for every number of  *)
(* posts, legs, accounts, attempts, concurrent runs and faults.            *)
(*                                                                         *)
(* ClaimStep, SettledStep, VerdictStep, HistoryStep and WorldStep are the  *)
(* preservation of the four parts of IInv, one step per action;            *)
(* StepRefines maps each action to one of the contract.                    *)
(***************************************************************************)
EXTENDS PublishQueueInv, TLAPS

USE LegAssumption, QueueAssumption

-----------------------------------------------------------------------------
(***************************************************************************)
(* The initial state.                                                      *)
(***************************************************************************)

\* The empty database and the idle process satisfy the inductive invariant.
LEMMA InitInv == Init => IInv
<1> SUFFICES ASSUME Init PROVE IInv
  OBVIOUS
<1> USE DEF Init, TablesInit, TablesOK, PostStatus, TargetStatus, Terminal, Verdict, LeaseState,
     Decision, RunState, InLeg, SchedState, Event, LegsOf,
     tables, postVars, targetVars, historyVars, schedVars, runVars, world
<1>1. TypeOK
  BY DEF TypeOK
<1>2. ClaimInv
  BY DEF ClaimInv, LeaseExactlyWhileInFlight, InFlightOnlyWhilePublishing,
         RunsInsideTheirTick, NoPostNoLegs, RunHoldsItsPost, RunStaysInItsPost,
         RunOwnsItsLeg, BootIsQuiet
<1>3. VerdictInv
  BY DEF VerdictInv, VerdictMatchesLegs, VerdictIsCurrent, StrandedIsCurrent
<1>4. HistoryInv
  BY DEF HistoryInv, HistoryMatchesLegs, RunKnowsItsHistory, RecordedMeansSent
<1>5. WorldInv
  BY DEF WorldInv, DuplicatesOnlyFromUncertainty, CopyIsAccounted,
         EventTellsTheTruth, AnnouncementIsCurrent
<1> QED
  BY <1>1, <1>2, <1>3, <1>4, <1>5 DEF IInv

-----------------------------------------------------------------------------
(***************************************************************************)
(* Statuses and claims.                                                    *)
(***************************************************************************)

AfterErrorTypes ==
  /\ tries' \in [Post -> 0..MaxAttempts]
  /\ pc' \in [Post -> RunState]
  /\ outcome' \in [Post -> {"none", "published", "failed"}]

\* A failed call starts another within max_attempts, or gives the leg up.
LEMMA AfterErrorOK ==
  ASSUME TypeOK, NEW p \in Post, NEW retryable \in BOOLEAN, AfterError(p, retryable)
  PROVE  AfterErrorTypes
<1> USE DEF TypeOK, RunState, InLeg, AfterErrorTypes
<1>1. CASE retryable /\ tries[p] < MaxAttempts
  BY <1>1 DEF AfterError
<1>2. CASE ~ (retryable /\ tries[p] < MaxAttempts)
  BY <1>2 DEF AfterError, Goto
<1> QED
  BY <1>1, <1>2

\* Every step keeps the types, given that a runner is in its own post.
LEMMA TypeStep == TypeOK /\ RunStaysInItsPost /\ [Next]_vars => TypeOK'
<1> SUFFICES ASSUME TypeOK, RunStaysInItsPost, [Next]_vars PROVE TypeOK'
  OBVIOUS
<1> USE DEF TypeOK, RunStaysInItsPost, TablesOK, PostStatus, TargetStatus, Terminal, Verdict, LeaseState,
      Decision, RunState, InLeg, SchedState, Event, LegsOf,
      tables, postVars, targetVars, historyVars, schedVars, runVars, world
<1>1. ASSUME NEW p \in Post, CreateResolve(p) PROVE TypeOK'
  BY <1>1, SMTT(30) DEF CreateResolve, HandlerFrame
<1>2. ASSUME NEW p \in Post, CreateInsert(p) PROVE TypeOK'
  BY <1>2, SMTT(30) DEF CreateInsert, InsertPost, HandlerFrame
<1>3. ASSUME NEW p \in Post, PublishNow(p) PROVE TypeOK'
  BY <1>3, SMTT(30) DEF PublishNow, MarkDueNow, HandlerFrame
<1>4. ASSUME NEW p \in Post, PatchPost(p) PROVE TypeOK'
  BY <1>4, SMTT(30) DEF PatchPost, Reschedule, HandlerFrame
<1>5. ASSUME NEW p \in Post, Cancel(p) PROVE TypeOK'
  BY <1>5, SMTT(30) DEF Cancel, CancelPost, Sweep, HandlerFrame
<1>6. ASSUME NEW p \in Post, Retry(p) PROVE TypeOK'
  BY <1>6, SMTT(30) DEF Retry, RetryPost, Sweep, HandlerFrame
<1>7. ASSUME NEW p \in Post, Delete(p) PROVE TypeOK'
  BY <1>7, SMTT(30) DEF Delete, DeletePost, Sweep, Rows, HandlerFrame
<1>8. ASSUME NEW a \in Account, RemoveAccount(a) PROVE TypeOK'
  BY <1>8, SMTT(30) DEF RemoveAccount, DeleteAccount, Sweep, HandlerFrame
<1>9. ASSUME BootReap PROVE TypeOK'
  BY <1>9, SMTT(30) DEF BootReap, ReapTargets, Sweep, SchedFrame
<1>10. ASSUME BootReapPosts PROVE TypeOK'
  BY <1>10, SMTT(30) DEF BootReapPosts, ReapPosts, NoLegPublishing, SchedFrame
<1>11. ASSUME BootList PROVE TypeOK'
  BY <1>11, SMTT(30) DEF BootList, SchedFrame, Aggregate
<1>12. ASSUME NEW p \in Post, BootRepair(p) PROVE TypeOK'
  <2>1. CASE stranded[p] = "requeue"
    <3>1. post' \in [Post -> PostStatus \cup {"none", "gone"}]
      BY <1>12, <2>1 DEF BootRepair, RequeuePost
    <3>2. stranded' \in [Post -> Decision]
      BY <1>12 DEF BootRepair
    <3> QED
      BY <1>12, <2>1, <3>1, <3>2, SMTT(30) DEF BootRepair, RequeuePost, SchedFrame
  <2>2. CASE stranded[p] # "requeue"
    BY <1>12, <2>2, SMTT(30) DEF BootRepair, SettlePost, SchedFrame
  <2> QED
    BY <2>1, <2>2
<1>13. ASSUME BootDone PROVE TypeOK'
  BY <1>13, SMTT(30) DEF BootDone, SchedFrame
<1>14. ASSUME TickReap PROVE TypeOK'
  BY <1>14, SMTT(30) DEF TickReap, ReapTargets, Sweep, SchedFrame
<1>15. ASSUME TickReapPosts PROVE TypeOK'
  BY <1>15, SMTT(30) DEF TickReapPosts, ReapPosts, NoLegPublishing, SchedFrame
<1>16. ASSUME TickSweep PROVE TypeOK'
  BY <1>16, SMTT(30) DEF TickSweep, ClaimDue, Batch, SchedFrame
<1>17. ASSUME TickDrain PROVE TypeOK'
  BY <1>17, SMTT(30) DEF TickDrain, Batch
<1>18. ASSUME BatchJoined PROVE TypeOK'
  BY <1>18, SMTT(30) DEF BatchJoined, AllIdle, SchedFrame
<1>19. ASSUME NEW p \in Post, RunClaim(p) PROVE TypeOK'
  <2>1. post' \in [Post -> PostStatus \cup {"none", "gone"}]
    BY <1>19, SMTT(30) DEF RunClaim, ClaimPost
  <2>2. pc' \in [Post -> RunState]
    BY <1>19, SMTT(30) DEF RunClaim, Goto
  <2> QED
    BY <1>19, <2>1, <2>2, SMTT(30) DEF RunClaim, ClaimPost, RunFrame, Goto
<1>20. ASSUME NEW p \in Post, RunLoad(p) PROVE TypeOK'
  BY <1>20, SMTT(30) DEF RunLoad, RunFrame, Goto, Rows
<1>21. ASSUME NEW p \in Post, NEW l \in Leg, RunLeg(p, l) PROVE TypeOK'
  <2>1. CASE target[l] = "pending"
    <3>1. target' = [target EXCEPT ![l] = "publishing"] /\ lease' = [lease EXCEPT ![l] = "fresh"]
      BY <1>21, <2>1 DEF RunLeg, ClaimTarget
    <3>2. target' \in [Leg -> TargetStatus \cup {"absent"}] /\ lease' \in [Leg -> LeaseState]
      BY <3>1
    <3>3. todo' \in [Post -> SUBSET Leg] /\ leg' \in [Post -> Leg \cup {NoLeg}]
      BY <1>21, <2>1, SMTT(30) DEF RunLeg, ClaimTarget, RunFrame, Goto
    <3>4. pc' \in [Post -> RunState]
      BY <1>21, <2>1, SMTT(30) DEF RunLeg, ClaimTarget, RunFrame, Goto
    <3> QED
      BY <1>21, <2>1, <3>2, <3>3, <3>4, SMTT(30) DEF RunLeg, ClaimTarget, RunFrame, Goto
  <2>2. CASE target[l] # "pending"
    BY <1>21, <2>2 DEF RunLeg, ClaimTarget, RunFrame, Goto
  <2> QED
    BY <2>1, <2>2
<1>22. ASSUME NEW p \in Post, RunAlreadyLive(p) PROVE TypeOK'
  BY <1>22, SMTT(30) DEF RunAlreadyLive, RunFrame, Goto
<1>23. ASSUME NEW p \in Post, RunFailLocally(p) PROVE TypeOK'
  BY <1>23, SMTT(30) DEF RunFailLocally, RunFrame, Goto
<1>24. ASSUME NEW p \in Post, RunFirstCall(p) PROVE TypeOK'
  BY <1>24, SMTT(30) DEF RunFirstCall, RunFrame, Goto
<1>25. ASSUME NEW p \in Post, RunPublished(p) PROVE TypeOK'
  BY <1>25, SMTT(30) DEF RunPublished, Lands, RunFrame, Goto
<1>26. ASSUME NEW p \in Post, RunRefused(p) PROVE TypeOK'
  <2>1. PICK retryable \in BOOLEAN : AfterError(p, retryable)
    BY <1>26 DEF RunRefused
  <2>2. AfterErrorTypes
    BY <2>1, AfterErrorOK
  <2> QED
    BY <1>26, <2>2, SMTT(30) DEF RunRefused, RunFrame, AfterErrorTypes
<1>27. ASSUME NEW p \in Post, RunTimedOut(p) PROVE TypeOK'
  <2>1. remote' \in [Leg -> 0..2]
    BY <1>27, SMTT(30) DEF RunTimedOut, Lands
  <2>2. unsure' \in SUBSET Leg
    BY <1>27 DEF RunTimedOut
  <2>3. AfterError(p, leg[p] \notin NoBlindRetry)
    BY <1>27 DEF RunTimedOut
  <2>4. AfterErrorTypes
    BY <2>3, AfterErrorOK
  <2> QED
    BY <1>27, <2>1, <2>2, <2>4, SMTT(30) DEF RunTimedOut, RunFrame, AfterErrorTypes
<1>28. ASSUME NEW p \in Post, Heartbeat(p) PROVE TypeOK'
  BY <1>28, SMTT(30) DEF Heartbeat, RenewClaim, RunFrame
<1>29. ASSUME NEW p \in Post, RunRecord(p) PROVE TypeOK'
  BY <1>29, SMTT(30) DEF RunRecord, InsertHistory, RunFrame, Goto
<1>30. ASSUME NEW p \in Post, RunSettleLeg(p) PROVE TypeOK'
  <2>1. leg[p] \in Leg
    BY <1>30 DEF RunSettleLeg
  <2>2. outcome[p] \in {"published", "failed"}
    BY <1>30 DEF RunSettleLeg
  <2>3. target' \in [Leg -> TargetStatus \cup {"absent"}]
    BY <1>30, <2>1, <2>2, SMTT(30) DEF RunSettleLeg, SettleTarget
  <2>4. lease' \in [Leg -> LeaseState]
    BY <1>30, <2>1, SMTT(30) DEF RunSettleLeg, SettleTarget
  <2>5. attempts' \in [Leg -> Nat]
    BY <1>30, <2>1, SMTT(30) DEF RunSettleLeg, SettleTarget
  <2> QED
    BY <1>30, <2>3, <2>4, <2>5, SMTT(30) DEF RunSettleLeg, SettleTarget, RunFrame, Goto
<1>31. ASSUME NEW p \in Post, RunReadLegs(p) PROVE TypeOK'
  <2>1. Aggregate(p) \in Verdict
    BY DEF Aggregate
  <2>2. verdict' \in [Post -> Verdict \cup {"none"}]
    BY <1>31, <2>1 DEF RunReadLegs
  <2>3. pc' = [pc EXCEPT ![p] = "verdict"] \/ pc' = [pc EXCEPT ![p] = "idle"]
    BY <1>31 DEF RunReadLegs, Goto
  <2>4. pc' \in [Post -> RunState]
    BY <2>3
  <2> QED
    BY <1>31, <2>2, <2>4, SMTT(30) DEF RunReadLegs, RunFrame
<1>32. ASSUME NEW p \in Post, RunSettlePost(p) PROVE TypeOK'
  BY <1>32, SMTT(30) DEF RunSettlePost, SettlePost, RunFrame, Goto
<1>33. ASSUME NEW p \in Post, RunEmit(p) PROVE TypeOK'
  BY <1>33, SMTT(30) DEF RunEmit, EndRun, Goto
<1>34. ASSUME NEW p \in Post, RunFails(p) PROVE TypeOK'
  BY <1>34, SMTT(30) DEF RunFails, EndRun, Goto, Unrecorded
<1>35. ASSUME SchedFails PROVE TypeOK'
  BY <1>35, SMTT(30) DEF SchedFails
<1>36. ASSUME Crash PROVE TypeOK'
  BY <1>36, SMTT(30) DEF Crash, Unrecorded
<1>37. ASSUME Restart PROVE TypeOK'
  BY <1>37, SMTT(30) DEF Restart
<1>38. ASSUME NEW p \in Post, Arrive(p) PROVE TypeOK'
  BY <1>38, SMTT(30) DEF Arrive, ScheduleArrives, ClockFrame
<1>39. ASSUME NEW l \in Leg, Expire(l) PROVE TypeOK'
  BY <1>39, SMTT(30) DEF Expire, LeaseExpires, ClockFrame
<1>40. CASE UNCHANGED vars
  BY <1>40 DEF vars
<1> QED
  BY <1>1, <1>2, <1>3, <1>4, <1>5, <1>6, <1>7, <1>8, <1>9, <1>10,
     <1>11, <1>12, <1>13, <1>14, <1>15, <1>16, <1>17, <1>18,
     <1>19, <1>20, <1>21, <1>22, <1>23, <1>24, <1>25, <1>26,
     <1>27, <1>28, <1>29, <1>30, <1>31, <1>32, <1>33, <1>34,
     <1>35, <1>36, <1>37, <1>38, <1>39, <1>40
  DEF Next, Handler, Boot, Tick, Run, RunLegStep, Fault

\* Every step keeps the leases, the claims and the quiet of boot recovery.
LEMMA ClaimStep == IInv /\ [Next]_vars => ClaimInv'
<1> SUFFICES ASSUME TypeOK, ClaimInv, VerdictInv, [Next]_vars PROVE ClaimInv'
  BY DEF IInv
<1> USE DEF TypeOK, ClaimInv, LeaseExactlyWhileInFlight, InFlightOnlyWhilePublishing,
      RunsInsideTheirTick, NoPostNoLegs, RunHoldsItsPost, RunStaysInItsPost,
      RunOwnsItsLeg, BootIsQuiet,
      TablesOK, PostStatus, TargetStatus, Terminal, Verdict, LeaseState,
      Decision, RunState, InLeg, SchedState, Event, LegsOf,
      tables, postVars, targetVars, historyVars, schedVars, runVars, world
<1>1. ASSUME NEW p \in Post, CreateResolve(p) PROVE ClaimInv'
  BY <1>1, SMTT(30) DEF CreateResolve, HandlerFrame
<1>2. ASSUME NEW p \in Post, CreateInsert(p) PROVE ClaimInv'
  BY <1>2, SMTT(30) DEF CreateInsert, InsertPost, HandlerFrame
<1>3. ASSUME NEW p \in Post, PublishNow(p) PROVE ClaimInv'
  BY <1>3, SMTT(30) DEF PublishNow, MarkDueNow, HandlerFrame
<1>4. ASSUME NEW p \in Post, PatchPost(p) PROVE ClaimInv'
  BY <1>4, SMTT(30) DEF PatchPost, Reschedule, HandlerFrame
<1>5. ASSUME NEW p \in Post, Cancel(p) PROVE ClaimInv'
  BY <1>5, SMTT(30) DEF Cancel, CancelPost, Sweep, HandlerFrame
<1>6. ASSUME NEW p \in Post, Retry(p) PROVE ClaimInv'
  BY <1>6, SMTT(30) DEF Retry, RetryPost, Sweep, HandlerFrame
<1>7. ASSUME NEW p \in Post, Delete(p) PROVE ClaimInv'
  BY <1>7, SMTT(30) DEF Delete, DeletePost, Sweep, Rows, HandlerFrame
<1>8. ASSUME NEW a \in Account, RemoveAccount(a) PROVE ClaimInv'
  BY <1>8, SMTT(30) DEF RemoveAccount, DeleteAccount, Sweep, HandlerFrame
<1>9. ASSUME BootReap PROVE ClaimInv'
  BY <1>9, SMTT(30) DEF BootReap, ReapTargets, Sweep, SchedFrame
<1>10. ASSUME BootReapPosts PROVE ClaimInv'
  BY <1>10, SMTT(30) DEF BootReapPosts, ReapPosts, NoLegPublishing, SchedFrame
<1>11. ASSUME BootList PROVE ClaimInv'
  BY <1>11, SMTT(30) DEF BootList, SchedFrame
<1>12. ASSUME NEW p \in Post, BootRepair(p) PROVE ClaimInv'
  <2>1. CASE stranded[p] = "requeue"
    BY <1>12, <2>1, SMTT(30) DEF BootRepair, RequeuePost, NoLegPublishing, SchedFrame
  <2>2. CASE stranded[p] # "requeue"
    BY <1>12, <2>2, SMTT(30) DEF BootRepair, SettlePost, SchedFrame
  <2> QED
    BY <2>1, <2>2
<1>13. ASSUME BootDone PROVE ClaimInv'
  BY <1>13, SMTT(30) DEF BootDone, SchedFrame
<1>14. ASSUME TickReap PROVE ClaimInv'
  BY <1>14, SMTT(30) DEF TickReap, ReapTargets, Sweep, SchedFrame
<1>15. ASSUME TickReapPosts PROVE ClaimInv'
  BY <1>15, SMTT(30) DEF TickReapPosts, ReapPosts, NoLegPublishing, SchedFrame
<1>16. ASSUME TickSweep PROVE ClaimInv'
  BY <1>16, SMTT(30) DEF TickSweep, ClaimDue, Batch, SchedFrame
<1>17. ASSUME TickDrain PROVE ClaimInv'
  BY <1>17, SMTT(30) DEF TickDrain, Batch
<1>18. ASSUME BatchJoined PROVE ClaimInv'
  BY <1>18, SMTT(30) DEF BatchJoined, AllIdle, SchedFrame
<1>19. ASSUME NEW p \in Post, RunClaim(p) PROVE ClaimInv'
  <2>1. LeaseExactlyWhileInFlight' /\ InFlightOnlyWhilePublishing' /\ RunOwnsItsLeg'
    BY <1>19, SMTT(30) DEF RunClaim, ClaimPost, RunFrame, Goto
  <2>2. RunsInsideTheirTick' /\ NoPostNoLegs' /\ RunHoldsItsPost'
    BY <1>19, SMTT(30) DEF RunClaim, ClaimPost, RunFrame, Goto
  <2>3. RunStaysInItsPost' /\ BootIsQuiet'
    BY <1>19, SMTT(30) DEF RunClaim, ClaimPost, RunFrame, Goto
  <2> QED
    BY <2>1, <2>2, <2>3
<1>20. ASSUME NEW p \in Post, RunLoad(p) PROVE ClaimInv'
  BY <1>20, SMTT(30) DEF RunLoad, RunFrame, Goto, Rows
<1>21. ASSUME NEW p \in Post, NEW l \in Leg, RunLeg(p, l) PROVE ClaimInv'
  <2>1. LeaseExactlyWhileInFlight'
    <3>1. CASE target[l] = "pending"
      <4>1. target' = [target EXCEPT ![l] = "publishing"] /\ lease' = [lease EXCEPT ![l] = "fresh"]
        BY <1>21, <3>1 DEF RunLeg, ClaimTarget
      <4> QED
        BY <4>1
    <3>2. CASE target[l] # "pending"
      BY <1>21, <3>2 DEF RunLeg
    <3> QED
      BY <3>1, <3>2
  <2>2. InFlightOnlyWhilePublishing'
    BY <1>21, SMTT(30) DEF RunLeg, ClaimTarget, RunFrame, Goto
  <2>3. RunOwnsItsLeg'
    BY <1>21, SMTT(30) DEF RunLeg, ClaimTarget, RunFrame, Goto
  <2>4. RunsInsideTheirTick' /\ NoPostNoLegs' /\ RunHoldsItsPost'
    BY <1>21, SMTT(30) DEF RunLeg, ClaimTarget, RunFrame, Goto
  <2>5. RunStaysInItsPost' /\ BootIsQuiet'
    BY <1>21, SMTT(30) DEF RunLeg, ClaimTarget, RunFrame, Goto
  <2> QED
    BY <2>1, <2>2, <2>3, <2>4, <2>5
<1>22. ASSUME NEW p \in Post, RunAlreadyLive(p) PROVE ClaimInv'
  BY <1>22, SMTT(30) DEF RunAlreadyLive, RunFrame, Goto
<1>23. ASSUME NEW p \in Post, RunFailLocally(p) PROVE ClaimInv'
  BY <1>23, SMTT(30) DEF RunFailLocally, RunFrame, Goto
<1>24. ASSUME NEW p \in Post, RunFirstCall(p) PROVE ClaimInv'
  BY <1>24, SMTT(30) DEF RunFirstCall, RunFrame, Goto
<1>25. ASSUME NEW p \in Post, RunPublished(p) PROVE ClaimInv'
  BY <1>25, SMTT(30) DEF RunPublished, Lands, RunFrame, Goto
<1>26. ASSUME NEW p \in Post, RunRefused(p) PROVE ClaimInv'
  <2>1. LeaseExactlyWhileInFlight' /\ InFlightOnlyWhilePublishing' /\ RunOwnsItsLeg'
    BY <1>26, SMTT(30) DEF RunRefused, AfterError, RunFrame, Goto
  <2>2. RunsInsideTheirTick' /\ NoPostNoLegs' /\ RunHoldsItsPost'
    BY <1>26, SMTT(30) DEF RunRefused, AfterError, RunFrame, Goto
  <2>3. RunStaysInItsPost' /\ BootIsQuiet'
    BY <1>26, SMTT(30) DEF RunRefused, AfterError, RunFrame, Goto
  <2> QED
    BY <2>1, <2>2, <2>3
<1>27. ASSUME NEW p \in Post, RunTimedOut(p) PROVE ClaimInv'
  BY <1>27, SMTT(30) DEF RunTimedOut, AfterError, Lands, RunFrame, Goto
<1>28. ASSUME NEW p \in Post, Heartbeat(p) PROVE ClaimInv'
  BY <1>28, SMTT(30) DEF Heartbeat, RenewClaim, RunFrame
<1>29. ASSUME NEW p \in Post, RunRecord(p) PROVE ClaimInv'
  BY <1>29, SMTT(30) DEF RunRecord, InsertHistory, RunFrame, Goto
<1>30. ASSUME NEW p \in Post, RunSettleLeg(p) PROVE ClaimInv'
  <2>1. LeaseExactlyWhileInFlight'
    <3>1. CASE target[leg[p]] = "absent"
      BY <1>30, <3>1 DEF RunSettleLeg, SettleTarget
    <3>2. CASE target[leg[p]] # "absent"
      BY <1>30, <3>2, SMTT(30) DEF RunSettleLeg, SettleTarget
    <3> QED
      BY <3>1, <3>2
  <2>2. InFlightOnlyWhilePublishing'
    BY <1>30, SMTT(30) DEF RunSettleLeg, SettleTarget, RunFrame, Goto
  <2>3. RunOwnsItsLeg'
    BY <1>30, SMTT(30) DEF RunSettleLeg, SettleTarget, RunFrame, Goto
  <2>4. RunsInsideTheirTick' /\ NoPostNoLegs' /\ RunHoldsItsPost'
    BY <1>30, SMTT(30) DEF RunSettleLeg, SettleTarget, RunFrame, Goto
  <2>5. RunStaysInItsPost' /\ BootIsQuiet'
    BY <1>30, SMTT(30) DEF RunSettleLeg, SettleTarget, RunFrame, Goto
  <2> QED
    BY <2>1, <2>2, <2>3, <2>4, <2>5
<1>31. ASSUME NEW p \in Post, RunReadLegs(p) PROVE ClaimInv'
  <2>1. LeaseExactlyWhileInFlight' /\ InFlightOnlyWhilePublishing' /\ RunOwnsItsLeg'
    BY <1>31, SMTT(30) DEF RunReadLegs, RunFrame, Goto, Aggregate
  <2>2. RunsInsideTheirTick' /\ NoPostNoLegs' /\ RunHoldsItsPost'
    BY <1>31, SMTT(30) DEF RunReadLegs, RunFrame, Goto, Aggregate
  <2>3. RunStaysInItsPost' /\ BootIsQuiet'
    BY <1>31, SMTT(30) DEF RunReadLegs, RunFrame, Goto, Aggregate
  <2> QED
    BY <2>1, <2>2, <2>3
<1>32. ASSUME NEW p \in Post, RunSettlePost(p) PROVE ClaimInv'
  <2>1. LeaseExactlyWhileInFlight' /\ InFlightOnlyWhilePublishing' /\ RunOwnsItsLeg'
    BY <1>32, SMTT(30) DEF RunSettlePost, SettlePost, RunFrame, Goto, VerdictInv, VerdictIsCurrent, AllTerminal, Rows
  <2>2. RunsInsideTheirTick' /\ NoPostNoLegs' /\ RunHoldsItsPost'
    BY <1>32, SMTT(30) DEF RunSettlePost, SettlePost, RunFrame, Goto
  <2>3. RunStaysInItsPost' /\ BootIsQuiet'
    BY <1>32, SMTT(30) DEF RunSettlePost, SettlePost, RunFrame, Goto
  <2> QED
    BY <2>1, <2>2, <2>3
<1>33. ASSUME NEW p \in Post, RunEmit(p) PROVE ClaimInv'
  BY <1>33, SMTT(30) DEF RunEmit, EndRun, Goto
<1>34. ASSUME NEW p \in Post, RunFails(p) PROVE ClaimInv'
  BY <1>34, SMTT(30) DEF RunFails, EndRun, Goto, Unrecorded
<1>35. ASSUME SchedFails PROVE ClaimInv'
  BY <1>35, SMTT(30) DEF SchedFails
<1>36. ASSUME Crash PROVE ClaimInv'
  BY <1>36, SMTT(30) DEF Crash, Unrecorded
<1>37. ASSUME Restart PROVE ClaimInv'
  BY <1>37, SMTT(30) DEF Restart
<1>38. ASSUME NEW p \in Post, Arrive(p) PROVE ClaimInv'
  BY <1>38, SMTT(30) DEF Arrive, ScheduleArrives, ClockFrame
<1>39. ASSUME NEW l \in Leg, Expire(l) PROVE ClaimInv'
  BY <1>39, SMTT(30) DEF Expire, LeaseExpires, ClockFrame
<1>40. CASE UNCHANGED vars
  BY <1>40 DEF vars
<1> QED
  BY <1>1, <1>2, <1>3, <1>4, <1>5, <1>6, <1>7, <1>8, <1>9, <1>10,
     <1>11, <1>12, <1>13, <1>14, <1>15, <1>16, <1>17, <1>18,
     <1>19, <1>20, <1>21, <1>22, <1>23, <1>24, <1>25, <1>26,
     <1>27, <1>28, <1>29, <1>30, <1>31, <1>32, <1>33, <1>34,
     <1>35, <1>36, <1>37, <1>38, <1>39, <1>40
  DEF Next, Handler, Boot, Tick, Run, RunLegStep, Fault

-----------------------------------------------------------------------------
(***************************************************************************)
(* Verdicts.  The aggregate of a post depends on its legs only, and the    *)
(* legs of a post that are all decided stay as they are until the post     *)
(* itself moves.                                                           *)
(***************************************************************************)

\* AllTerminal and Aggregate read the legs of the post and nothing else.
LEMMA SameLegs ==
  ASSUME NEW p \in Post, \A l \in LegsOf(p) : target'[l] = target[l]
  PROVE  /\ AllTerminal(p)' <=> AllTerminal(p)
         /\ Aggregate(p)' = Aggregate(p)
<1>1. LegsOf(p)' = LegsOf(p)
  BY DEF LegsOf
<1>2. Rows(p)' = Rows(p) /\ Rows(p) \subseteq LegsOf(p)
  BY <1>1 DEF Rows
<1>3. {l \in Rows(p) : target[l] = "published"}' = {l \in Rows(p) : target[l] = "published"}
  BY <1>2
<1>4. AllTerminal(p)' <=> AllTerminal(p)
  BY <1>2 DEF AllTerminal
<1>5. Aggregate(p)' = Aggregate(p)
  BY <1>2, <1>3, Zenon DEF Aggregate
<1> QED
  BY <1>4, <1>5

\* No step moves a leg of a post whose legs are all decided, unless it moves
\* the post: out of a settled status, or out of the database.
SettledLegsStay ==
  \A p \in Post :
    /\ AllTerminal(p)
    /\ post'[p] = post[p] \/ (post[p] = "publishing" /\ post'[p] # "gone")
    => \A l \in LegsOf(p) : target'[l] = target[l]

\* A post settles as the aggregate of its legs, and is cancelled with them.
PostsSettleByTheRead ==
  \A p \in Post : post'[p] # post[p] =>
    /\ post'[p] \in Verdict =>
         post[p] = "publishing" /\ AllTerminal(p) /\ Aggregate(p) = post'[p]
    /\ post'[p] = "cancelled" =>
         \A l \in LegsOf(p) : target'[l] \in Terminal \cup {"absent"}

\* A task that is about to settle a post has read its legs when they were all
\* decided, and keeps what it read.
ReadsAreCurrent ==
  \A p \in Post :
    /\ post'[p] = "publishing" =>
         post[p] = "publishing" \/ (post[p] = "due" /\ pc'[p] = "load")
    /\ pc'[p] = "verdict" =>
         IF pc[p] = "verdict" THEN verdict'[p] = verdict[p]
         ELSE post'[p] = post[p] /\ AllTerminal(p) /\ verdict'[p] = Aggregate(p)
    /\ sched' = "boot-repair" /\ stranded'[p] \in Verdict /\ post[p] = "publishing" =>
         IF sched = "boot-repair" THEN stranded'[p] = stranded[p]
         ELSE post'[p] = post[p] /\ AllTerminal(p) /\ stranded'[p] = Aggregate(p)

SettledStep == SettledLegsStay /\ PostsSettleByTheRead /\ ReadsAreCurrent

\* What every step does, or does not do, to decided legs and settled posts.
LEMMA StepSettles == IInv /\ [Next]_vars => SettledStep
<1> SUFFICES ASSUME TypeOK, ClaimInv, VerdictInv, [Next]_vars PROVE SettledStep
  BY DEF IInv
<1> USE DEF TypeOK, ClaimInv, LeaseExactlyWhileInFlight, InFlightOnlyWhilePublishing,
      RunsInsideTheirTick, NoPostNoLegs, RunHoldsItsPost, RunStaysInItsPost,
      RunOwnsItsLeg, BootIsQuiet,
      VerdictInv, VerdictMatchesLegs, VerdictIsCurrent, StrandedIsCurrent,
      TablesOK, PostStatus, TargetStatus, Terminal, Verdict, LeaseState,
      Decision, RunState, InLeg, SchedState, Event, LegsOf,
      tables, postVars, targetVars, historyVars, schedVars, runVars, world
<1>1. ASSUME NEW p \in Post, CreateResolve(p) PROVE SettledStep
  BY <1>1, SMTT(30) DEF SettledStep, SettledLegsStay, PostsSettleByTheRead, ReadsAreCurrent,
     CreateResolve, HandlerFrame
<1>2. ASSUME NEW p \in Post, CreateInsert(p) PROVE SettledStep
  BY <1>2, SMTT(30) DEF SettledStep, SettledLegsStay, PostsSettleByTheRead, ReadsAreCurrent,
     CreateInsert, InsertPost, HandlerFrame, AllTerminal, Rows
<1>3. ASSUME NEW p \in Post, PublishNow(p) PROVE SettledStep
  BY <1>3, SMTT(30) DEF SettledStep, SettledLegsStay, PostsSettleByTheRead, ReadsAreCurrent,
     PublishNow, MarkDueNow, HandlerFrame
<1>4. ASSUME NEW p \in Post, PatchPost(p) PROVE SettledStep
  BY <1>4, SMTT(30) DEF SettledStep, SettledLegsStay, PostsSettleByTheRead, ReadsAreCurrent,
     PatchPost, Reschedule, HandlerFrame
<1>5. ASSUME NEW p \in Post, Cancel(p) PROVE SettledStep
  BY <1>5, SMTT(30) DEF SettledStep, SettledLegsStay, PostsSettleByTheRead, ReadsAreCurrent,
     Cancel, CancelPost, Sweep, HandlerFrame, AllTerminal, Rows
<1>6. ASSUME NEW p \in Post, Retry(p) PROVE SettledStep
  BY <1>6, SMTT(30) DEF SettledStep, SettledLegsStay, PostsSettleByTheRead, ReadsAreCurrent,
     Retry, RetryPost, Sweep, HandlerFrame, AllTerminal, Rows
<1>7. ASSUME NEW p \in Post, Delete(p) PROVE SettledStep
  BY <1>7, SMTT(30) DEF SettledStep, SettledLegsStay, PostsSettleByTheRead, ReadsAreCurrent,
     Delete, DeletePost, Sweep, Rows, HandlerFrame, AllTerminal, Rows
<1>8. ASSUME NEW a \in Account, RemoveAccount(a) PROVE SettledStep
  <2>1. \A l \in Leg : target'[l] # target[l] => target[l] = "pending"
    BY <1>8 DEF RemoveAccount, DeleteAccount, Sweep, HandlerFrame
  <2>2. SettledLegsStay
    BY <2>1 DEF SettledLegsStay, AllTerminal, Rows
  <2>3. PostsSettleByTheRead
    BY <1>8 DEF PostsSettleByTheRead, RemoveAccount, DeleteAccount, Sweep, HandlerFrame
  <2>4. ReadsAreCurrent
    BY <1>8, SMTT(30) DEF ReadsAreCurrent, RemoveAccount, DeleteAccount, Sweep, HandlerFrame
  <2> QED
    BY <2>2, <2>3, <2>4 DEF SettledStep
<1>9. ASSUME BootReap PROVE SettledStep
  <2>1. \A l \in Leg : target'[l] # target[l] => target[l] = "publishing"
    BY <1>9 DEF BootReap, ReapTargets, Sweep, SchedFrame
  <2>2. SettledLegsStay
    BY <2>1 DEF SettledLegsStay, AllTerminal, Rows
  <2>3. PostsSettleByTheRead
    BY <1>9 DEF PostsSettleByTheRead, BootReap, ReapTargets, Sweep, SchedFrame
  <2>4. ReadsAreCurrent
    BY <1>9, SMTT(30) DEF ReadsAreCurrent, BootReap, ReapTargets, Sweep, SchedFrame
  <2> QED
    BY <2>2, <2>3, <2>4 DEF SettledStep
<1>10. ASSUME BootReapPosts PROVE SettledStep
  BY <1>10, SMTT(30) DEF SettledStep, SettledLegsStay, PostsSettleByTheRead, ReadsAreCurrent,
     BootReapPosts, ReapPosts, NoLegPublishing, SchedFrame
<1>11. ASSUME BootList PROVE SettledStep
  BY <1>11, SMTT(30) DEF SettledStep, SettledLegsStay, PostsSettleByTheRead, ReadsAreCurrent,
     BootList, SchedFrame, AllTerminal, Rows
<1>12. ASSUME NEW p \in Post, BootRepair(p) PROVE SettledStep
  BY <1>12, SMTT(30) DEF SettledStep, SettledLegsStay, PostsSettleByTheRead, ReadsAreCurrent,
     BootRepair, RequeuePost, SettlePost, NoLegPublishing, SchedFrame
<1>13. ASSUME BootDone PROVE SettledStep
  BY <1>13, SMTT(30) DEF SettledStep, SettledLegsStay, PostsSettleByTheRead, ReadsAreCurrent,
     BootDone, SchedFrame
<1>14. ASSUME TickReap PROVE SettledStep
  <2>1. \A l \in Leg : target'[l] # target[l] => target[l] = "publishing"
    BY <1>14 DEF TickReap, ReapTargets, Sweep, SchedFrame
  <2>2. SettledLegsStay
    BY <2>1 DEF SettledLegsStay, AllTerminal, Rows
  <2>3. PostsSettleByTheRead
    BY <1>14 DEF PostsSettleByTheRead, TickReap, ReapTargets, Sweep, SchedFrame
  <2>4. ReadsAreCurrent
    BY <1>14, SMTT(30) DEF ReadsAreCurrent, TickReap, ReapTargets, Sweep, SchedFrame
  <2> QED
    BY <2>2, <2>3, <2>4 DEF SettledStep
<1>15. ASSUME TickReapPosts PROVE SettledStep
  BY <1>15, SMTT(30) DEF SettledStep, SettledLegsStay, PostsSettleByTheRead, ReadsAreCurrent,
     TickReapPosts, ReapPosts, NoLegPublishing, SchedFrame
<1>16. ASSUME TickSweep PROVE SettledStep
  BY <1>16, SMTT(30) DEF SettledStep, SettledLegsStay, PostsSettleByTheRead, ReadsAreCurrent,
     TickSweep, ClaimDue, Batch, SchedFrame
<1>17. ASSUME TickDrain PROVE SettledStep
  BY <1>17, SMTT(30) DEF SettledStep, SettledLegsStay, PostsSettleByTheRead, ReadsAreCurrent,
     TickDrain, Batch
<1>18. ASSUME BatchJoined PROVE SettledStep
  BY <1>18, SMTT(30) DEF SettledStep, SettledLegsStay, PostsSettleByTheRead, ReadsAreCurrent,
     BatchJoined, AllIdle, SchedFrame
<1>19. ASSUME NEW p \in Post, RunClaim(p) PROVE SettledStep
  BY <1>19, SMTT(30) DEF SettledStep, SettledLegsStay, PostsSettleByTheRead, ReadsAreCurrent,
     RunClaim, ClaimPost, RunFrame, Goto
<1>20. ASSUME NEW p \in Post, RunLoad(p) PROVE SettledStep
  BY <1>20, SMTT(30) DEF SettledStep, SettledLegsStay, PostsSettleByTheRead, ReadsAreCurrent,
     RunLoad, RunFrame, Goto
<1>21. ASSUME NEW p \in Post, NEW l \in Leg, RunLeg(p, l) PROVE SettledStep
  <2>1. CASE target[l] = "pending"
    <3>1. target' = [target EXCEPT ![l] = "publishing"]
      BY <1>21, <2>1 DEF RunLeg, ClaimTarget
    <3>2. ~ AllTerminal(p) /\ l \in LegsOf(p)
      BY <1>21, <2>1 DEF RunLeg, AllTerminal, Rows
    <3>3. SettledLegsStay
      BY <3>1, <3>2 DEF SettledLegsStay
    <3>4. PostsSettleByTheRead /\ ReadsAreCurrent
      BY <1>21, <2>1, SMTT(30) DEF PostsSettleByTheRead, ReadsAreCurrent, RunLeg, ClaimTarget, RunFrame, Goto
    <3> QED
      BY <3>3, <3>4 DEF SettledStep
  <2>2. CASE target[l] # "pending"
    BY <1>21, <2>2, SMTT(30) DEF SettledLegsStay, PostsSettleByTheRead, ReadsAreCurrent, SettledStep, RunLeg, ClaimTarget, RunFrame, Goto
  <2> QED
    BY <2>1, <2>2
<1>22. ASSUME NEW p \in Post, RunAlreadyLive(p) PROVE SettledStep
  BY <1>22, SMTT(30) DEF SettledStep, SettledLegsStay, PostsSettleByTheRead, ReadsAreCurrent,
     RunAlreadyLive, RunFrame, Goto
<1>23. ASSUME NEW p \in Post, RunFailLocally(p) PROVE SettledStep
  BY <1>23, SMTT(30) DEF SettledStep, SettledLegsStay, PostsSettleByTheRead, ReadsAreCurrent,
     RunFailLocally, RunFrame, Goto
<1>24. ASSUME NEW p \in Post, RunFirstCall(p) PROVE SettledStep
  BY <1>24, SMTT(30) DEF SettledStep, SettledLegsStay, PostsSettleByTheRead, ReadsAreCurrent,
     RunFirstCall, RunFrame, Goto
<1>25. ASSUME NEW p \in Post, RunPublished(p) PROVE SettledStep
  BY <1>25, SMTT(30) DEF SettledStep, SettledLegsStay, PostsSettleByTheRead, ReadsAreCurrent,
     RunPublished, Lands, RunFrame, Goto
<1>26. ASSUME NEW p \in Post, RunRefused(p) PROVE SettledStep
  BY <1>26, SMTT(30) DEF SettledStep, SettledLegsStay, PostsSettleByTheRead, ReadsAreCurrent,
     RunRefused, AfterError, RunFrame, Goto
<1>27. ASSUME NEW p \in Post, RunTimedOut(p) PROVE SettledStep
  BY <1>27, SMTT(30) DEF SettledStep, SettledLegsStay, PostsSettleByTheRead, ReadsAreCurrent,
     RunTimedOut, AfterError, Lands, RunFrame, Goto
<1>28. ASSUME NEW p \in Post, Heartbeat(p) PROVE SettledStep
  BY <1>28, SMTT(30) DEF SettledStep, SettledLegsStay, PostsSettleByTheRead, ReadsAreCurrent,
     Heartbeat, RenewClaim, RunFrame
<1>29. ASSUME NEW p \in Post, RunRecord(p) PROVE SettledStep
  BY <1>29, SMTT(30) DEF SettledStep, SettledLegsStay, PostsSettleByTheRead, ReadsAreCurrent,
     RunRecord, InsertHistory, RunFrame, Goto
<1>30. ASSUME NEW p \in Post, RunSettleLeg(p) PROVE SettledStep
  BY <1>30, SMTT(30) DEF SettledStep, SettledLegsStay, PostsSettleByTheRead, ReadsAreCurrent,
     RunSettleLeg, SettleTarget, RunFrame, Goto, AllTerminal, Rows
<1>31. ASSUME NEW p \in Post, RunReadLegs(p) PROVE SettledStep
  BY <1>31, SMTT(30) DEF SettledStep, SettledLegsStay, PostsSettleByTheRead, ReadsAreCurrent,
     RunReadLegs, RunFrame, Goto, AllTerminal, Rows
<1>32. ASSUME NEW p \in Post, RunSettlePost(p) PROVE SettledStep
  BY <1>32, SMTT(30) DEF SettledStep, SettledLegsStay, PostsSettleByTheRead, ReadsAreCurrent,
     RunSettlePost, SettlePost, RunFrame, Goto
<1>33. ASSUME NEW p \in Post, RunEmit(p) PROVE SettledStep
  BY <1>33, SMTT(30) DEF SettledStep, SettledLegsStay, PostsSettleByTheRead, ReadsAreCurrent,
     RunEmit, EndRun, Goto
<1>34. ASSUME NEW p \in Post, RunFails(p) PROVE SettledStep
  BY <1>34, SMTT(30) DEF SettledStep, SettledLegsStay, PostsSettleByTheRead, ReadsAreCurrent,
     RunFails, EndRun, Goto, Unrecorded
<1>35. ASSUME SchedFails PROVE SettledStep
  BY <1>35, SMTT(30) DEF SettledStep, SettledLegsStay, PostsSettleByTheRead, ReadsAreCurrent,
     SchedFails
<1>36. ASSUME Crash PROVE SettledStep
  BY <1>36, SMTT(30) DEF SettledStep, SettledLegsStay, PostsSettleByTheRead, ReadsAreCurrent,
     Crash, Unrecorded
<1>37. ASSUME Restart PROVE SettledStep
  BY <1>37, SMTT(30) DEF SettledStep, SettledLegsStay, PostsSettleByTheRead, ReadsAreCurrent,
     Restart
<1>38. ASSUME NEW p \in Post, Arrive(p) PROVE SettledStep
  BY <1>38, SMTT(30) DEF SettledStep, SettledLegsStay, PostsSettleByTheRead, ReadsAreCurrent,
     Arrive, ScheduleArrives, ClockFrame
<1>39. ASSUME NEW l \in Leg, Expire(l) PROVE SettledStep
  BY <1>39, SMTT(30) DEF SettledStep, SettledLegsStay, PostsSettleByTheRead, ReadsAreCurrent,
     Expire, LeaseExpires, ClockFrame
<1>40. CASE UNCHANGED vars
  BY <1>40, SMTT(30) DEF SettledStep, SettledLegsStay, PostsSettleByTheRead, ReadsAreCurrent, vars
<1> QED
  BY <1>1, <1>2, <1>3, <1>4, <1>5, <1>6, <1>7, <1>8, <1>9, <1>10,
     <1>11, <1>12, <1>13, <1>14, <1>15, <1>16, <1>17, <1>18,
     <1>19, <1>20, <1>21, <1>22, <1>23, <1>24, <1>25, <1>26,
     <1>27, <1>28, <1>29, <1>30, <1>31, <1>32, <1>33, <1>34,
     <1>35, <1>36, <1>37, <1>38, <1>39, <1>40
  DEF Next, Handler, Boot, Tick, Run, RunLegStep, Fault

\* Every step keeps the settled posts, and the reads they settle by, current.
LEMMA VerdictStep == IInv /\ [Next]_vars => VerdictInv'
<1> SUFFICES ASSUME IInv, [Next]_vars, NEW p \in Post
             PROVE  /\ post'[p] \in Verdict => AllTerminal(p)' /\ Aggregate(p)' = post'[p]
                    /\ post'[p] = "cancelled" => AllTerminal(p)'
                    /\ pc'[p] = "verdict" /\ post'[p] = "publishing" =>
                         AllTerminal(p)' /\ Aggregate(p)' = verdict'[p]
                    /\ sched' = "boot-repair" /\ stranded'[p] \in Verdict /\ post'[p] = "publishing" =>
                         AllTerminal(p)' /\ Aggregate(p)' = stranded'[p]
  BY DEF VerdictInv, VerdictMatchesLegs, VerdictIsCurrent, StrandedIsCurrent
<1>1. SettledLegsStay /\ PostsSettleByTheRead /\ ReadsAreCurrent
  BY StepSettles DEF SettledStep
<1>2. ASSUME AllTerminal(p), post'[p] = post[p] \/ (post[p] = "publishing" /\ post'[p] # "gone")
      PROVE  AllTerminal(p)' /\ Aggregate(p)' = Aggregate(p)
  BY <1>1, <1>2, SameLegs DEF SettledLegsStay
<1>3. /\ post[p] \in Verdict => AllTerminal(p) /\ Aggregate(p) = post[p]
      /\ post[p] = "cancelled" => AllTerminal(p)
      /\ pc[p] = "verdict" /\ post[p] = "publishing" => AllTerminal(p) /\ Aggregate(p) = verdict[p]
      /\ sched = "boot-repair" /\ stranded[p] \in Verdict /\ post[p] = "publishing" =>
           AllTerminal(p) /\ Aggregate(p) = stranded[p]
  BY DEF IInv, VerdictInv, VerdictMatchesLegs, VerdictIsCurrent, StrandedIsCurrent
<1>4. post'[p] \in Verdict => AllTerminal(p)' /\ Aggregate(p)' = post'[p]
  <2>1. CASE post'[p] = post[p]
    BY <1>2, <1>3, <2>1
  <2>2. CASE post'[p] # post[p]
    BY <1>1, <1>2, <2>2 DEF PostsSettleByTheRead, Verdict
  <2> QED
    BY <2>1, <2>2
<1>5. post'[p] = "cancelled" => AllTerminal(p)'
  <2>1. CASE post'[p] = post[p]
    BY <1>2, <1>3, <2>1
  <2>2. CASE post'[p] # post[p]
    BY <1>1, <2>2 DEF PostsSettleByTheRead, AllTerminal, Rows, LegsOf
  <2> QED
    BY <2>1, <2>2
<1>6. pc'[p] = "verdict" /\ post'[p] = "publishing" =>
        AllTerminal(p)' /\ Aggregate(p)' = verdict'[p]
  BY <1>1, <1>2, <1>3 DEF ReadsAreCurrent
<1>7. sched' = "boot-repair" /\ stranded'[p] \in Verdict /\ post'[p] = "publishing" =>
        AllTerminal(p)' /\ Aggregate(p)' = stranded'[p]
  <2>1. ~ (post[p] = "due" /\ pc'[p] = "load" /\ sched' = "boot-repair")
    BY ClaimStep DEF ClaimInv, RunsInsideTheirTick
  <2> QED
    BY <1>1, <1>2, <1>3, <2>1 DEF ReadsAreCurrent
<1> QED
  BY <1>4, <1>5, <1>6, <1>7

-----------------------------------------------------------------------------
(***************************************************************************)
(* History, copies and events.                                             *)
(***************************************************************************)

\* Every step keeps the history true to the legs and to the platforms.
LEMMA HistoryStep == IInv /\ [Next]_vars => HistoryInv'
<1> SUFFICES ASSUME TypeOK, ClaimInv, HistoryInv, [Next]_vars PROVE HistoryInv'
  BY DEF IInv
<1> USE DEF HistoryInv, HistoryMatchesLegs, RunKnowsItsHistory, RecordedMeansSent,
      TypeOK, ClaimInv, LeaseExactlyWhileInFlight, InFlightOnlyWhilePublishing,
      RunsInsideTheirTick, NoPostNoLegs, RunHoldsItsPost, RunStaysInItsPost,
      RunOwnsItsLeg, BootIsQuiet,
      TablesOK, PostStatus, TargetStatus, Terminal, Verdict, LeaseState,
      Decision, RunState, InLeg, SchedState, Event, LegsOf,
      tables, postVars, targetVars, historyVars, schedVars, runVars, world
<1>1. ASSUME NEW p \in Post, CreateResolve(p) PROVE HistoryInv'
  BY <1>1, SMTT(30) DEF CreateResolve, HandlerFrame
<1>2. ASSUME NEW p \in Post, CreateInsert(p) PROVE HistoryInv'
  BY <1>2, SMTT(30) DEF CreateInsert, InsertPost, HandlerFrame
<1>3. ASSUME NEW p \in Post, PublishNow(p) PROVE HistoryInv'
  BY <1>3, SMTT(30) DEF PublishNow, MarkDueNow, HandlerFrame
<1>4. ASSUME NEW p \in Post, PatchPost(p) PROVE HistoryInv'
  BY <1>4, SMTT(30) DEF PatchPost, Reschedule, HandlerFrame
<1>5. ASSUME NEW p \in Post, Cancel(p) PROVE HistoryInv'
  BY <1>5, SMTT(30) DEF Cancel, CancelPost, Sweep, HandlerFrame
<1>6. ASSUME NEW p \in Post, Retry(p) PROVE HistoryInv'
  BY <1>6, SMTT(30) DEF Retry, RetryPost, Sweep, HandlerFrame
<1>7. ASSUME NEW p \in Post, Delete(p) PROVE HistoryInv'
  BY <1>7, SMTT(30) DEF Delete, DeletePost, Sweep, Rows, HandlerFrame
<1>8. ASSUME NEW a \in Account, RemoveAccount(a) PROVE HistoryInv'
  BY <1>8, SMTT(30) DEF RemoveAccount, DeleteAccount, Sweep, HandlerFrame
<1>9. ASSUME BootReap PROVE HistoryInv'
  BY <1>9, SMTT(30) DEF BootReap, ReapTargets, Sweep, SchedFrame
<1>10. ASSUME BootReapPosts PROVE HistoryInv'
  BY <1>10, SMTT(30) DEF BootReapPosts, ReapPosts, NoLegPublishing, SchedFrame
<1>11. ASSUME BootList PROVE HistoryInv'
  BY <1>11, SMTT(30) DEF BootList, SchedFrame
<1>12. ASSUME NEW p \in Post, BootRepair(p) PROVE HistoryInv'
  BY <1>12, SMTT(30) DEF BootRepair, RequeuePost, SettlePost, NoLegPublishing, SchedFrame
<1>13. ASSUME BootDone PROVE HistoryInv'
  BY <1>13, SMTT(30) DEF BootDone, SchedFrame
<1>14. ASSUME TickReap PROVE HistoryInv'
  BY <1>14, SMTT(30) DEF TickReap, ReapTargets, Sweep, SchedFrame
<1>15. ASSUME TickReapPosts PROVE HistoryInv'
  BY <1>15, SMTT(30) DEF TickReapPosts, ReapPosts, NoLegPublishing, SchedFrame
<1>16. ASSUME TickSweep PROVE HistoryInv'
  BY <1>16, SMTT(30) DEF TickSweep, ClaimDue, Batch, SchedFrame
<1>17. ASSUME TickDrain PROVE HistoryInv'
  BY <1>17, SMTT(30) DEF TickDrain, Batch
<1>18. ASSUME BatchJoined PROVE HistoryInv'
  BY <1>18, SMTT(30) DEF BatchJoined, AllIdle, SchedFrame
<1>19. ASSUME NEW p \in Post, RunClaim(p) PROVE HistoryInv'
  BY <1>19, SMTT(30) DEF RunClaim, ClaimPost, RunFrame, Goto
<1>20. ASSUME NEW p \in Post, RunLoad(p) PROVE HistoryInv'
  BY <1>20, SMTT(30) DEF RunLoad, RunFrame, Goto
<1>21. ASSUME NEW p \in Post, NEW l \in Leg, RunLeg(p, l) PROVE HistoryInv'
  BY <1>21, SMTT(30) DEF RunLeg, ClaimTarget, RunFrame, Goto
<1>22. ASSUME NEW p \in Post, RunAlreadyLive(p) PROVE HistoryInv'
  BY <1>22, SMTT(30) DEF RunAlreadyLive, RunFrame, Goto
<1>23. ASSUME NEW p \in Post, RunFailLocally(p) PROVE HistoryInv'
  BY <1>23, SMTT(30) DEF RunFailLocally, RunFrame, Goto
<1>24. ASSUME NEW p \in Post, RunFirstCall(p) PROVE HistoryInv'
  BY <1>24, SMTT(30) DEF RunFirstCall, RunFrame, Goto
<1>25. ASSUME NEW p \in Post, RunPublished(p) PROVE HistoryInv'
  BY <1>25, SMTT(30) DEF RunPublished, Lands, RunFrame, Goto
<1>26. ASSUME NEW p \in Post, RunRefused(p) PROVE HistoryInv'
  BY <1>26, SMTT(30) DEF RunRefused, AfterError, RunFrame, Goto
<1>27. ASSUME NEW p \in Post, RunTimedOut(p) PROVE HistoryInv'
  BY <1>27, SMTT(30) DEF RunTimedOut, AfterError, Lands, RunFrame, Goto
<1>28. ASSUME NEW p \in Post, Heartbeat(p) PROVE HistoryInv'
  BY <1>28, SMTT(30) DEF Heartbeat, RenewClaim, RunFrame
<1>29. ASSUME NEW p \in Post, RunRecord(p) PROVE HistoryInv'
  <2>1. leg[p] \in LegsOf(p)
    BY <1>29 DEF RunRecord
  <2>2. CASE outcome[p] = "published"
    <3>1. HistoryMatchesLegs'
      BY <1>29, <2>1, <2>2, SMTT(30) DEF RunRecord, InsertHistory, RunFrame, Goto
    <3>2. RunKnowsItsHistory'
      BY <1>29, <2>1, <2>2, SMTT(30) DEF RunRecord, InsertHistory, RunFrame, Goto
    <3>3. RecordedMeansSent'
      <4>1. remote[leg[p]] > 0
        BY <1>29, <2>2 DEF RunRecord
      <4>2. pubRows' = [pubRows EXCEPT ![leg[p]] = @ + 1] /\ remote' = remote
        BY <1>29, <2>2 DEF RunRecord, InsertHistory, RunFrame, Goto
      <4> QED
        BY <4>1, <4>2 DEF RecordedMeansSent
    <3> QED
      BY <3>1, <3>2, <3>3
  <2>3. CASE outcome[p] = "failed"
    BY <1>29, <2>1, <2>3, SMTT(30) DEF RunRecord, InsertHistory, RunFrame, Goto
  <2> QED
    BY <1>29, <2>2, <2>3 DEF RunRecord
<1>30. ASSUME NEW p \in Post, RunSettleLeg(p) PROVE HistoryInv'
  BY <1>30, SMTT(30) DEF RunSettleLeg, SettleTarget, RunFrame, Goto
<1>31. ASSUME NEW p \in Post, RunReadLegs(p) PROVE HistoryInv'
  BY <1>31, SMTT(30) DEF RunReadLegs, RunFrame, Goto
<1>32. ASSUME NEW p \in Post, RunSettlePost(p) PROVE HistoryInv'
  BY <1>32, SMTT(30) DEF RunSettlePost, SettlePost, RunFrame, Goto
<1>33. ASSUME NEW p \in Post, RunEmit(p) PROVE HistoryInv'
  BY <1>33, SMTT(30) DEF RunEmit, EndRun, Goto
<1>34. ASSUME NEW p \in Post, RunFails(p) PROVE HistoryInv'
  BY <1>34, SMTT(30) DEF RunFails, EndRun, Goto, Unrecorded
<1>35. ASSUME SchedFails PROVE HistoryInv'
  BY <1>35, SMTT(30) DEF SchedFails
<1>36. ASSUME Crash PROVE HistoryInv'
  BY <1>36, SMTT(30) DEF Crash, Unrecorded
<1>37. ASSUME Restart PROVE HistoryInv'
  BY <1>37, SMTT(30) DEF Restart
<1>38. ASSUME NEW p \in Post, Arrive(p) PROVE HistoryInv'
  BY <1>38, SMTT(30) DEF Arrive, ScheduleArrives, ClockFrame
<1>39. ASSUME NEW l \in Leg, Expire(l) PROVE HistoryInv'
  BY <1>39, SMTT(30) DEF Expire, LeaseExpires, ClockFrame
<1>40. CASE UNCHANGED vars
  BY <1>40 DEF vars
<1> QED
  BY <1>1, <1>2, <1>3, <1>4, <1>5, <1>6, <1>7, <1>8, <1>9, <1>10,
     <1>11, <1>12, <1>13, <1>14, <1>15, <1>16, <1>17, <1>18,
     <1>19, <1>20, <1>21, <1>22, <1>23, <1>24, <1>25, <1>26,
     <1>27, <1>28, <1>29, <1>30, <1>31, <1>32, <1>33, <1>34,
     <1>35, <1>36, <1>37, <1>38, <1>39, <1>40
  DEF Next, Handler, Boot, Tick, Run, RunLegStep, Fault

\* Every step keeps every copy accounted for and every event true.
LEMMA WorldStep == IInv /\ [Next]_vars => WorldInv'
<1> SUFFICES ASSUME TypeOK, ClaimInv, HistoryInv, WorldInv, [Next]_vars PROVE WorldInv'
  BY DEF IInv
<1> USE DEF WorldInv, DuplicatesOnlyFromUncertainty, CopyIsAccounted, EventTellsTheTruth,
      AnnouncementIsCurrent, RunKnowsItsHistory, HistoryInv,
      TypeOK, ClaimInv, LeaseExactlyWhileInFlight, InFlightOnlyWhilePublishing,
      RunsInsideTheirTick, NoPostNoLegs, RunHoldsItsPost, RunStaysInItsPost,
      RunOwnsItsLeg, BootIsQuiet,
      TablesOK, PostStatus, TargetStatus, Terminal, Verdict, LeaseState,
      Decision, RunState, InLeg, SchedState, Event, LegsOf,
      tables, postVars, targetVars, historyVars, schedVars, runVars, world
<1>1. ASSUME NEW p \in Post, CreateResolve(p) PROVE WorldInv'
  BY <1>1, SMTT(30) DEF CreateResolve, HandlerFrame
<1>2. ASSUME NEW p \in Post, CreateInsert(p) PROVE WorldInv'
  BY <1>2, SMTT(30) DEF CreateInsert, InsertPost, HandlerFrame
<1>3. ASSUME NEW p \in Post, PublishNow(p) PROVE WorldInv'
  BY <1>3, SMTT(30) DEF PublishNow, MarkDueNow, HandlerFrame
<1>4. ASSUME NEW p \in Post, PatchPost(p) PROVE WorldInv'
  BY <1>4, SMTT(30) DEF PatchPost, Reschedule, HandlerFrame
<1>5. ASSUME NEW p \in Post, Cancel(p) PROVE WorldInv'
  BY <1>5, SMTT(30) DEF Cancel, CancelPost, Sweep, HandlerFrame
<1>6. ASSUME NEW p \in Post, Retry(p) PROVE WorldInv'
  BY <1>6, SMTT(30) DEF Retry, RetryPost, Sweep, HandlerFrame
<1>7. ASSUME NEW p \in Post, Delete(p) PROVE WorldInv'
  BY <1>7, SMTT(30) DEF Delete, DeletePost, Sweep, Rows, HandlerFrame
<1>8. ASSUME NEW a \in Account, RemoveAccount(a) PROVE WorldInv'
  BY <1>8, SMTT(30) DEF RemoveAccount, DeleteAccount, Sweep, HandlerFrame
<1>9. ASSUME BootReap PROVE WorldInv'
  BY <1>9, SMTT(30) DEF BootReap, ReapTargets, Sweep, SchedFrame
<1>10. ASSUME BootReapPosts PROVE WorldInv'
  BY <1>10, SMTT(30) DEF BootReapPosts, ReapPosts, NoLegPublishing, SchedFrame
<1>11. ASSUME BootList PROVE WorldInv'
  BY <1>11, SMTT(30) DEF BootList, SchedFrame
<1>12. ASSUME NEW p \in Post, BootRepair(p) PROVE WorldInv'
  BY <1>12, SMTT(30) DEF BootRepair, RequeuePost, SettlePost, NoLegPublishing, SchedFrame
<1>13. ASSUME BootDone PROVE WorldInv'
  BY <1>13, SMTT(30) DEF BootDone, SchedFrame
<1>14. ASSUME TickReap PROVE WorldInv'
  BY <1>14, SMTT(30) DEF TickReap, ReapTargets, Sweep, SchedFrame
<1>15. ASSUME TickReapPosts PROVE WorldInv'
  BY <1>15, SMTT(30) DEF TickReapPosts, ReapPosts, NoLegPublishing, SchedFrame
<1>16. ASSUME TickSweep PROVE WorldInv'
  BY <1>16, SMTT(30) DEF TickSweep, ClaimDue, Batch, SchedFrame
<1>17. ASSUME TickDrain PROVE WorldInv'
  BY <1>17, SMTT(30) DEF TickDrain, Batch
<1>18. ASSUME BatchJoined PROVE WorldInv'
  BY <1>18, SMTT(30) DEF BatchJoined, AllIdle, SchedFrame
<1>19. ASSUME NEW p \in Post, RunClaim(p) PROVE WorldInv'
  <2>1. CASE post[p] = "due"
    <3>1. DuplicatesOnlyFromUncertainty' /\ CopyIsAccounted'
      BY <1>19, <2>1, SMTT(30) DEF RunClaim, ClaimPost, RunFrame, Goto
    <3>2. post' = [post EXCEPT ![p] = "publishing"] /\ pc' = [pc EXCEPT ![p] = "load"]
      BY <1>19, <2>1 DEF RunClaim, ClaimPost, Goto
    <3>3. emitted' = emitted /\ verdict' = verdict
      BY <1>19, <2>1 DEF RunClaim, RunFrame
    <3>4. EventTellsTheTruth'
      BY <2>1, <3>2, <3>3
    <3>5. AnnouncementIsCurrent'
      BY <2>1, <3>2, <3>3
    <3> QED
      BY <3>1, <3>4, <3>5
  <2>2. CASE post[p] # "due"
    BY <1>19, <2>2, SMTT(30) DEF RunClaim, ClaimPost, RunFrame, Goto
  <2> QED
    BY <2>1, <2>2
<1>20. ASSUME NEW p \in Post, RunLoad(p) PROVE WorldInv'
  BY <1>20, SMTT(30) DEF RunLoad, RunFrame, Goto
<1>21. ASSUME NEW p \in Post, NEW l \in Leg, RunLeg(p, l) PROVE WorldInv'
  BY <1>21, SMTT(30) DEF RunLeg, ClaimTarget, RunFrame, Goto
<1>22. ASSUME NEW p \in Post, RunAlreadyLive(p) PROVE WorldInv'
  BY <1>22, SMTT(30) DEF RunAlreadyLive, RunFrame, Goto
<1>23. ASSUME NEW p \in Post, RunFailLocally(p) PROVE WorldInv'
  BY <1>23, SMTT(30) DEF RunFailLocally, RunFrame, Goto
<1>24. ASSUME NEW p \in Post, RunFirstCall(p) PROVE WorldInv'
  BY <1>24, SMTT(30) DEF RunFirstCall, RunFrame, Goto
<1>25. ASSUME NEW p \in Post, RunPublished(p) PROVE WorldInv'
  BY <1>25, SMTT(30) DEF RunPublished, Lands, RunFrame, Goto
<1>26. ASSUME NEW p \in Post, RunRefused(p) PROVE WorldInv'
  BY <1>26, SMTT(30) DEF RunRefused, AfterError, RunFrame, Goto
<1>27. ASSUME NEW p \in Post, RunTimedOut(p) PROVE WorldInv'
  BY <1>27, SMTT(30) DEF RunTimedOut, AfterError, Lands, RunFrame, Goto
<1>28. ASSUME NEW p \in Post, Heartbeat(p) PROVE WorldInv'
  BY <1>28, SMTT(30) DEF Heartbeat, RenewClaim, RunFrame
<1>29. ASSUME NEW p \in Post, RunRecord(p) PROVE WorldInv'
  <2>1. DuplicatesOnlyFromUncertainty' /\ EventTellsTheTruth' /\ AnnouncementIsCurrent'
    BY <1>29, SMTT(30) DEF RunRecord, InsertHistory, RunFrame, Goto
  <2>2. CopyIsAccounted'
    <3>1. leg[p] \in LegsOf(p) /\ outcome[p] \in {"published", "failed"}
      BY <1>29 DEF RunRecord
    <3>2. CASE outcome[p] = "published"
      BY <1>29, <3>1, <3>2, SMTT(30) DEF RunRecord, InsertHistory, RunFrame, Goto
    <3>3. CASE outcome[p] = "failed"
      BY <1>29, <3>1, <3>3, SMTT(30) DEF RunRecord, InsertHistory, RunFrame, Goto
    <3> QED
      BY <3>1, <3>2, <3>3
  <2> QED
    BY <2>1, <2>2
<1>30. ASSUME NEW p \in Post, RunSettleLeg(p) PROVE WorldInv'
  BY <1>30, SMTT(30) DEF RunSettleLeg, SettleTarget, RunFrame, Goto
<1>31. ASSUME NEW p \in Post, RunReadLegs(p) PROVE WorldInv'
  BY <1>31, SMTT(30) DEF RunReadLegs, RunFrame, Goto
<1>32. ASSUME NEW p \in Post, RunSettlePost(p) PROVE WorldInv'
  BY <1>32, SMTT(30) DEF RunSettlePost, SettlePost, RunFrame, Goto
<1>33. ASSUME NEW p \in Post, RunEmit(p) PROVE WorldInv'
  BY <1>33, SMTT(30) DEF RunEmit, EndRun, Goto
<1>34. ASSUME NEW p \in Post, RunFails(p) PROVE WorldInv'
  BY <1>34, SMTT(30) DEF RunFails, EndRun, Goto, Unrecorded
<1>35. ASSUME SchedFails PROVE WorldInv'
  BY <1>35, SMTT(30) DEF SchedFails
<1>36. ASSUME Crash PROVE WorldInv'
  BY <1>36, SMTT(30) DEF Crash, Unrecorded
<1>37. ASSUME Restart PROVE WorldInv'
  BY <1>37, SMTT(30) DEF Restart
<1>38. ASSUME NEW p \in Post, Arrive(p) PROVE WorldInv'
  BY <1>38, SMTT(30) DEF Arrive, ScheduleArrives, ClockFrame
<1>39. ASSUME NEW l \in Leg, Expire(l) PROVE WorldInv'
  BY <1>39, SMTT(30) DEF Expire, LeaseExpires, ClockFrame
<1>40. CASE UNCHANGED vars
  BY <1>40 DEF vars
<1> QED
  BY <1>1, <1>2, <1>3, <1>4, <1>5, <1>6, <1>7, <1>8, <1>9, <1>10,
     <1>11, <1>12, <1>13, <1>14, <1>15, <1>16, <1>17, <1>18,
     <1>19, <1>20, <1>21, <1>22, <1>23, <1>24, <1>25, <1>26,
     <1>27, <1>28, <1>29, <1>30, <1>31, <1>32, <1>33, <1>34,
     <1>35, <1>36, <1>37, <1>38, <1>39, <1>40
  DEF Next, Handler, Boot, Tick, Run, RunLegStep, Fault

-----------------------------------------------------------------------------
(***************************************************************************)
(* The theorems.                                                           *)
(***************************************************************************)

\* The inductive invariant: what every task relies on between two awaits holds
\* in every state, whatever the other tasks, the users and the faults do.
THEOREM Inductive == Spec => []IInv
<1>1. Init => IInv
  BY InitInv
<1>2. IInv /\ [Next]_vars => IInv'
  <2> SUFFICES ASSUME IInv, [Next]_vars PROVE IInv'
    OBVIOUS
  <2>1. TypeOK'
    BY TypeStep DEF IInv, ClaimInv
  <2> QED
    BY <2>1, ClaimStep, VerdictStep, HistoryStep, WorldStep DEF IInv
<1> QED
  BY <1>1, <1>2, PTL DEF Spec

\* Every variable keeps its type, the attempt counter within max_attempts.
THEOREM TypeCorrect == Spec => []TypeOK
<1>1. IInv => TypeOK
  BY DEF IInv
<1> QED
  BY <1>1, Inductive, PTL

\* A leg is in flight only under a publishing post: cancel, retry, the reaper
\* and boot recovery never overlap a send.
THEOREM InFlight == Spec => []InFlightOnlyWhilePublishing
<1>1. IInv => InFlightOnlyWhilePublishing
  BY DEF IInv, ClaimInv
<1> QED
  BY <1>1, Inductive, PTL

\* No leg in flight escapes the reaper, and no lease outlives its send.
THEOREM Leases == Spec => []LeaseExactlyWhileInFlight
<1>1. IInv => LeaseExactlyWhileInFlight
  BY DEF IInv, ClaimInv
<1> QED
  BY <1>1, Inductive, PTL

\* A runner never loses the leg in hand, except to the deletion of its post.
THEOREM Ownership == Spec => []RunOwnsItsLeg
<1>1. IInv => RunOwnsItsLeg
  BY DEF IInv, ClaimInv
<1> QED
  BY <1>1, Inductive, PTL

\* A settled post and its legs agree, whoever settled it.
THEOREM Verdicts == Spec => []VerdictMatchesLegs
<1>1. IInv => VerdictMatchesLegs
  BY DEF IInv, VerdictInv
<1> QED
  BY <1>1, Inductive, PTL

\* The history and the legs agree: one published row for a published leg.
THEOREM History == Spec => []HistoryMatchesLegs
<1>1. IInv => HistoryMatchesLegs
  BY DEF IInv, HistoryInv
<1> QED
  BY <1>1, Inductive, PTL

\* So posts, legs, leases and history agree between any two steps.
THEOREM Consistent == Spec => []QueueConsistent
<1>1. InFlightOnlyWhilePublishing /\ LeaseExactlyWhileInFlight /\ VerdictMatchesLegs
        /\ RunOwnsItsLeg /\ HistoryMatchesLegs => QueueConsistent
  BY DEF QueueConsistent
<1> QED
  BY <1>1, InFlight, Leases, Verdicts, Ownership, History, PTL

\* A second copy comes only from an answer that was never recorded, or from
\* the deletion of the post under its run.
THEOREM Duplicates == Spec => []DuplicatesOnlyFromUncertainty
<1>1. IInv => DuplicatesOnlyFromUncertainty
  BY DEF IInv, WorldInv
<1> QED
  BY <1>1, Inductive, PTL

\* A post announced as published stays published until it is deleted.
THEOREM Events == Spec => []EventTellsTheTruth
<1>1. IInv => EventTellsTheTruth
  BY DEF IInv, WorldInv
<1> QED
  BY <1>1, Inductive, PTL

\* What a step may do to the platforms and to the posts, one step per action.
LEMMA StepIsAllowed ==
  IInv /\ [Next]_vars =>
    /\ \A l \in Leg : remote'[l] # remote[l] =>
         pubRows[l] = 0 /\ target[l] \in {"publishing", "absent"}
    /\ \A p \in Post : post'[p] # post[p] =>
         \/ CanTransition(post[p], post'[p])
         \/ post[p] = "none" /\ post'[p] = "scheduled"
         \/ post'[p] = "gone"
<1> DEFINE Sends ==
      \A l \in Leg : remote'[l] # remote[l] =>
        pubRows[l] = 0 /\ target[l] \in {"publishing", "absent"}
<1> DEFINE Moves ==
      \A p \in Post : post'[p] # post[p] =>
        \/ CanTransition(post[p], post'[p])
        \/ post[p] = "none" /\ post'[p] = "scheduled"
        \/ post'[p] = "gone"
<1> SUFFICES ASSUME TypeOK, ClaimInv, HistoryInv, [Next]_vars PROVE Sends /\ Moves
  BY DEF IInv
<1> USE DEF HistoryInv, RunKnowsItsHistory, CanTransition,
      TypeOK, ClaimInv, LeaseExactlyWhileInFlight, InFlightOnlyWhilePublishing,
      RunsInsideTheirTick, NoPostNoLegs, RunHoldsItsPost, RunStaysInItsPost,
      RunOwnsItsLeg, BootIsQuiet,
      TablesOK, PostStatus, TargetStatus, Terminal, Verdict, LeaseState,
      Decision, RunState, InLeg, SchedState, Event, LegsOf,
      tables, postVars, targetVars, historyVars, schedVars, runVars, world
<1>1. ASSUME NEW p \in Post, CreateResolve(p) PROVE Sends /\ Moves
  BY <1>1, SMTT(30) DEF CreateResolve, HandlerFrame
<1>2. ASSUME NEW p \in Post, CreateInsert(p) PROVE Sends /\ Moves
  BY <1>2, SMTT(30) DEF CreateInsert, InsertPost, HandlerFrame
<1>3. ASSUME NEW p \in Post, PublishNow(p) PROVE Sends /\ Moves
  BY <1>3, SMTT(30) DEF PublishNow, MarkDueNow, HandlerFrame
<1>4. ASSUME NEW p \in Post, PatchPost(p) PROVE Sends /\ Moves
  BY <1>4, SMTT(30) DEF PatchPost, Reschedule, HandlerFrame
<1>5. ASSUME NEW p \in Post, Cancel(p) PROVE Sends /\ Moves
  BY <1>5, SMTT(30) DEF Cancel, CancelPost, Sweep, HandlerFrame
<1>6. ASSUME NEW p \in Post, Retry(p) PROVE Sends /\ Moves
  BY <1>6, SMTT(30) DEF Retry, RetryPost, Sweep, HandlerFrame
<1>7. ASSUME NEW p \in Post, Delete(p) PROVE Sends /\ Moves
  BY <1>7, SMTT(30) DEF Delete, DeletePost, Sweep, Rows, HandlerFrame
<1>8. ASSUME NEW a \in Account, RemoveAccount(a) PROVE Sends /\ Moves
  BY <1>8, SMTT(30) DEF RemoveAccount, DeleteAccount, Sweep, HandlerFrame
<1>9. ASSUME BootReap PROVE Sends /\ Moves
  BY <1>9, SMTT(30) DEF BootReap, ReapTargets, Sweep, SchedFrame
<1>10. ASSUME BootReapPosts PROVE Sends /\ Moves
  BY <1>10, SMTT(30) DEF BootReapPosts, ReapPosts, NoLegPublishing, SchedFrame
<1>11. ASSUME BootList PROVE Sends /\ Moves
  BY <1>11, SMTT(30) DEF BootList, SchedFrame
<1>12. ASSUME NEW p \in Post, BootRepair(p) PROVE Sends /\ Moves
  BY <1>12, SMTT(30) DEF BootRepair, RequeuePost, SettlePost, NoLegPublishing, SchedFrame
<1>13. ASSUME BootDone PROVE Sends /\ Moves
  BY <1>13, SMTT(30) DEF BootDone, SchedFrame
<1>14. ASSUME TickReap PROVE Sends /\ Moves
  BY <1>14, SMTT(30) DEF TickReap, ReapTargets, Sweep, SchedFrame
<1>15. ASSUME TickReapPosts PROVE Sends /\ Moves
  BY <1>15, SMTT(30) DEF TickReapPosts, ReapPosts, NoLegPublishing, SchedFrame
<1>16. ASSUME TickSweep PROVE Sends /\ Moves
  BY <1>16, SMTT(30) DEF TickSweep, ClaimDue, Batch, SchedFrame
<1>17. ASSUME TickDrain PROVE Sends /\ Moves
  BY <1>17, SMTT(30) DEF TickDrain, Batch
<1>18. ASSUME BatchJoined PROVE Sends /\ Moves
  BY <1>18, SMTT(30) DEF BatchJoined, AllIdle, SchedFrame
<1>19. ASSUME NEW p \in Post, RunClaim(p) PROVE Sends /\ Moves
  BY <1>19, SMTT(30) DEF RunClaim, ClaimPost, RunFrame, Goto
<1>20. ASSUME NEW p \in Post, RunLoad(p) PROVE Sends /\ Moves
  BY <1>20, SMTT(30) DEF RunLoad, RunFrame, Goto
<1>21. ASSUME NEW p \in Post, NEW l \in Leg, RunLeg(p, l) PROVE Sends /\ Moves
  BY <1>21, SMTT(30) DEF RunLeg, ClaimTarget, RunFrame, Goto
<1>22. ASSUME NEW p \in Post, RunAlreadyLive(p) PROVE Sends /\ Moves
  BY <1>22, SMTT(30) DEF RunAlreadyLive, RunFrame, Goto
<1>23. ASSUME NEW p \in Post, RunFailLocally(p) PROVE Sends /\ Moves
  BY <1>23, SMTT(30) DEF RunFailLocally, RunFrame, Goto
<1>24. ASSUME NEW p \in Post, RunFirstCall(p) PROVE Sends /\ Moves
  BY <1>24, SMTT(30) DEF RunFirstCall, RunFrame, Goto
<1>25. ASSUME NEW p \in Post, RunPublished(p) PROVE Sends /\ Moves
  BY <1>25, SMTT(30) DEF RunPublished, Lands, RunFrame, Goto
<1>26. ASSUME NEW p \in Post, RunRefused(p) PROVE Sends /\ Moves
  BY <1>26, SMTT(30) DEF RunRefused, AfterError, RunFrame, Goto
<1>27. ASSUME NEW p \in Post, RunTimedOut(p) PROVE Sends /\ Moves
  BY <1>27, SMTT(30) DEF RunTimedOut, AfterError, Lands, RunFrame, Goto
<1>28. ASSUME NEW p \in Post, Heartbeat(p) PROVE Sends /\ Moves
  BY <1>28, SMTT(30) DEF Heartbeat, RenewClaim, RunFrame
<1>29. ASSUME NEW p \in Post, RunRecord(p) PROVE Sends /\ Moves
  BY <1>29, SMTT(30) DEF RunRecord, InsertHistory, RunFrame, Goto
<1>30. ASSUME NEW p \in Post, RunSettleLeg(p) PROVE Sends /\ Moves
  BY <1>30, SMTT(30) DEF RunSettleLeg, SettleTarget, RunFrame, Goto
<1>31. ASSUME NEW p \in Post, RunReadLegs(p) PROVE Sends /\ Moves
  BY <1>31, SMTT(30) DEF RunReadLegs, RunFrame, Goto
<1>32. ASSUME NEW p \in Post, RunSettlePost(p) PROVE Sends /\ Moves
  BY <1>32, SMTT(30) DEF RunSettlePost, SettlePost, RunFrame, Goto
<1>33. ASSUME NEW p \in Post, RunEmit(p) PROVE Sends /\ Moves
  BY <1>33, SMTT(30) DEF RunEmit, EndRun, Goto
<1>34. ASSUME NEW p \in Post, RunFails(p) PROVE Sends /\ Moves
  BY <1>34, SMTT(30) DEF RunFails, EndRun, Goto, Unrecorded
<1>35. ASSUME SchedFails PROVE Sends /\ Moves
  BY <1>35, SMTT(30) DEF SchedFails
<1>36. ASSUME Crash PROVE Sends /\ Moves
  BY <1>36, SMTT(30) DEF Crash, Unrecorded
<1>37. ASSUME Restart PROVE Sends /\ Moves
  BY <1>37, SMTT(30) DEF Restart
<1>38. ASSUME NEW p \in Post, Arrive(p) PROVE Sends /\ Moves
  BY <1>38, SMTT(30) DEF Arrive, ScheduleArrives, ClockFrame
<1>39. ASSUME NEW l \in Leg, Expire(l) PROVE Sends /\ Moves
  BY <1>39, SMTT(30) DEF Expire, LeaseExpires, ClockFrame
<1>40. CASE UNCHANGED vars
  BY <1>40 DEF vars
<1> HIDE DEF Sends, Moves
<1> QED
  BY <1>1, <1>2, <1>3, <1>4, <1>5, <1>6, <1>7, <1>8, <1>9, <1>10,
     <1>11, <1>12, <1>13, <1>14, <1>15, <1>16, <1>17, <1>18,
     <1>19, <1>20, <1>21, <1>22, <1>23, <1>24, <1>25, <1>26,
     <1>27, <1>28, <1>29, <1>30, <1>31, <1>32, <1>33, <1>34,
     <1>35, <1>36, <1>37, <1>38, <1>39, <1>40
  DEF Next, Handler, Boot, Tick, Run, RunLegStep, Fault

\* No provider is handed a leg that is on record as published, settled or
\* withdrawn.
THEOREM NotResent == Spec => NeverResent
<1>1. IInv /\ [Next]_vars =>
        [\A l \in Leg : remote'[l] # remote[l] =>
           pubRows[l] = 0 /\ target[l] \in {"publishing", "absent"}]_vars
  BY StepIsAllowed
<1> QED
  BY <1>1, Inductive, PTL DEF Spec, NeverResent

\* Every status change of a post is one that can_transition_to allows.
THEOREM FollowsTable == Spec => PostFollowsTable
<1>1. IInv /\ [Next]_vars =>
        [\A p \in Post : post'[p] # post[p] =>
           \/ CanTransition(post[p], post'[p])
           \/ post[p] = "none" /\ post'[p] = "scheduled"
           \/ post'[p] = "gone"]_vars
  BY StepIsAllowed
<1> QED
  BY <1>1, Inductive, PTL DEF Spec, PostFollowsTable
-----------------------------------------------------------------------------
(***************************************************************************)
(* The queue implements the delivery contract: under the mapping FateOf, a *)
(* step of the queue is one step of the contract or none.                  *)
(***************************************************************************)

ContractStep == Contract!ContractNext \/ UNCHANGED Contract!contract

\* A step that keeps every fate and every copy is a stutter of the contract.
LEMMA Stutters ==
  ASSUME (\A k \in Leg : FateOf(k)' = FateOf(k)) /\ remote' = remote
  PROVE  UNCHANGED Contract!contract
BY DEF Contract!contract

\* A step that moves the fates of a set of legs is a decision of the contract.
LEMMA Decides ==
  ASSUME NEW S \in SUBSET Leg, NEW From, NEW to,
         \A k \in S : FateOf(k) \in From,
         \A k \in Leg : FateOf(k)' = IF k \in S THEN to ELSE FateOf(k),
         remote' = remote
  PROVE  Contract!Decide(S, From, to)
BY DEF Contract!Decide

\* A step that adds a copy of a leg still owed, or forgotten, is a Send.
LEMMA Sends ==
  ASSUME NEW l \in Leg, FateOf(l) \in {"owed", "forgotten"},
         \A k \in Leg : FateOf(k)' = FateOf(k),
         remote[l] < 2, remote' = [remote EXCEPT ![l] = @ + 1]
  PROVE  Contract!Send
BY DEF Contract!Send

\* The platform keeps what it has, or has one copy more.
LEMMA LandsOnce ==
  ASSUME TypeOK, NEW l \in Leg, Lands(l)
  PROVE  remote' = remote \/ (remote[l] < 2 /\ remote' = [remote EXCEPT ![l] = @ + 1])
<1>1. remote \in [Leg -> 0..2]
  BY DEF TypeOK
<1>2. CASE remote[l] = 2 \/ (l \in Idempotent /\ remote[l] = 1)
  BY <1>1, <1>2 DEF Lands
<1>3. CASE remote[l] = 0
  BY <1>1, <1>3 DEF Lands
<1>4. CASE l \notin Idempotent /\ remote[l] = 1
  BY <1>1, <1>4 DEF Lands
<1> QED
  BY <1>1, <1>2, <1>3, <1>4

\* Every step of the queue is one of the contract: handlers schedule, withdraw,
\* reopen and forget, a provider call sends, a settled leg is confirmed or
\* given up, and everything else is invisible.
LEMMA StepRefines == IInv /\ [Next]_vars => ContractStep
<1> SUFFICES ASSUME TypeOK, ClaimInv, HistoryInv, [Next]_vars PROVE ContractStep
  BY DEF IInv
<1> USE DEF HistoryInv, RunKnowsItsHistory, RecordedMeansSent,
      TypeOK, ClaimInv, LeaseExactlyWhileInFlight, InFlightOnlyWhilePublishing,
      RunsInsideTheirTick, NoPostNoLegs, RunHoldsItsPost, RunStaysInItsPost,
      RunOwnsItsLeg, BootIsQuiet,
      TablesOK, PostStatus, TargetStatus, Terminal, Verdict, LeaseState,
      Decision, RunState, InLeg, SchedState, Event, LegsOf,
      tables, postVars, targetVars, historyVars, schedVars, runVars, world
<1>1. ASSUME NEW p \in Post, CreateResolve(p) PROVE ContractStep
  <2>1. (\A k \in Leg : FateOf(k)' = FateOf(k)) /\ remote' = remote
    BY <1>1, SMTT(30) DEF CreateResolve, HandlerFrame, FateOf, FateOfStatus
  <2> QED
    BY <2>1, Stutters DEF ContractStep
<1>2. ASSUME NEW p \in Post, CreateInsert(p) PROVE ContractStep
  <2> DEFINE S == resolved[p]
  <2>1. \A k \in S : FateOf(k) \in {"unscheduled"}
    BY <1>2, SMTT(30) DEF CreateInsert, InsertPost, HandlerFrame, FateOf, FateOfStatus
  <2>2. \A k \in Leg : FateOf(k)' = IF k \in S THEN "owed" ELSE FateOf(k)
    BY <1>2, SMTT(30) DEF CreateInsert, InsertPost, HandlerFrame, FateOf, FateOfStatus
  <2>3. remote' = remote /\ S \in SUBSET Leg
    BY <1>2 DEF CreateInsert, InsertPost, HandlerFrame
  <2> HIDE DEF S
  <2>4. Contract!Decide(S, {"unscheduled"}, "owed")
    BY <2>1, <2>2, <2>3, Decides
  <2>5. Contract!Schedule
    BY <2>3, <2>4 DEF Contract!Schedule
  <2> QED
    BY <2>5 DEF Contract!ContractNext, ContractStep
<1>3. ASSUME NEW p \in Post, PublishNow(p) PROVE ContractStep
  <2>1. (\A k \in Leg : FateOf(k)' = FateOf(k)) /\ remote' = remote
    BY <1>3, SMTT(30) DEF PublishNow, MarkDueNow, HandlerFrame, FateOf, FateOfStatus
  <2> QED
    BY <2>1, Stutters DEF ContractStep
<1>4. ASSUME NEW p \in Post, PatchPost(p) PROVE ContractStep
  <2>1. (\A k \in Leg : FateOf(k)' = FateOf(k)) /\ remote' = remote
    BY <1>4, SMTT(30) DEF PatchPost, Reschedule, HandlerFrame, FateOf, FateOfStatus
  <2> QED
    BY <2>1, Stutters DEF ContractStep
<1>5. ASSUME NEW p \in Post, Cancel(p) PROVE ContractStep
  <2> DEFINE S == {k \in LegsOf(p) : target[k] = "pending"}
  <2>1. \A k \in S : FateOf(k) \in {"owed"}
    BY <1>5, SMTT(30) DEF Cancel, CancelPost, Sweep, HandlerFrame, FateOf, FateOfStatus
  <2>2. \A k \in Leg : FateOf(k)' = IF k \in S THEN "withdrawn" ELSE FateOf(k)
    BY <1>5, SMTT(30) DEF Cancel, CancelPost, Sweep, HandlerFrame, FateOf, FateOfStatus
  <2>3. remote' = remote /\ S \in SUBSET Leg
    BY <1>5 DEF Cancel, CancelPost, Sweep, HandlerFrame
  <2> HIDE DEF S
  <2>4. Contract!Decide(S, {"owed"}, "withdrawn")
    BY <2>1, <2>2, <2>3, Decides
  <2>5. Contract!Withdraw
    BY <2>3, <2>4 DEF Contract!Withdraw
  <2> QED
    BY <2>5 DEF Contract!ContractNext, ContractStep
<1>6. ASSUME NEW p \in Post, Retry(p) PROVE ContractStep
  <2> DEFINE S == {k \in LegsOf(p) : target[k] = "failed"}
  <2>1. \A k \in S : FateOf(k) \in {"failed"}
    BY <1>6, SMTT(30) DEF Retry, RetryPost, Sweep, HandlerFrame, FateOf, FateOfStatus
  <2>2. \A k \in Leg : FateOf(k)' = IF k \in S THEN "owed" ELSE FateOf(k)
    BY <1>6, SMTT(30) DEF Retry, RetryPost, Sweep, HandlerFrame, FateOf, FateOfStatus
  <2>3. remote' = remote /\ S \in SUBSET Leg
    BY <1>6 DEF Retry, RetryPost, Sweep, HandlerFrame
  <2> HIDE DEF S
  <2>4. Contract!Decide(S, {"failed"}, "owed")
    BY <2>1, <2>2, <2>3, Decides
  <2>5. Contract!Reopen
    BY <2>3, <2>4 DEF Contract!Reopen
  <2> QED
    BY <2>5 DEF Contract!ContractNext, ContractStep
<1>7. ASSUME NEW p \in Post, Delete(p) PROVE ContractStep
  <2> DEFINE S == LegsOf(p)
  <2>1. \A k \in S : FateOf(k) \in Contract!Fate
    BY <1>7, SMTT(30) DEF Contract!Fate, FateOf, FateOfStatus
  <2>2. \A k \in Leg : FateOf(k)' = IF k \in S THEN "forgotten" ELSE FateOf(k)
    BY <1>7, SMTT(30) DEF Delete, DeletePost, Sweep, Rows, HandlerFrame, FateOf, FateOfStatus
  <2>3. remote' = remote /\ S \in SUBSET Leg
    BY <1>7 DEF Delete, DeletePost, Sweep, Rows, HandlerFrame
  <2> HIDE DEF S
  <2>4. Contract!Decide(S, Contract!Fate, "forgotten")
    BY <2>1, <2>2, <2>3, Decides
  <2>5. Contract!Forget
    BY <2>3, <2>4 DEF Contract!Forget
  <2> QED
    BY <2>5 DEF Contract!ContractNext, ContractStep
<1>8. ASSUME NEW a \in Account, RemoveAccount(a) PROVE ContractStep
  <2> DEFINE S == {k \in Leg : AccountOf[k] = a /\ target[k] = "pending"}
  <2>1. \A k \in S : FateOf(k) \in {"owed"}
    BY <1>8, SMTT(30) DEF RemoveAccount, DeleteAccount, Sweep, HandlerFrame, FateOf, FateOfStatus
  <2>2. \A k \in Leg : FateOf(k)' = IF k \in S THEN "withdrawn" ELSE FateOf(k)
    BY <1>8, SMTT(30) DEF RemoveAccount, DeleteAccount, Sweep, HandlerFrame, FateOf, FateOfStatus
  <2>3. remote' = remote /\ S \in SUBSET Leg
    BY <1>8 DEF RemoveAccount, DeleteAccount, Sweep, HandlerFrame
  <2> HIDE DEF S
  <2>4. Contract!Decide(S, {"owed"}, "withdrawn")
    BY <2>1, <2>2, <2>3, Decides
  <2>5. Contract!Withdraw
    BY <2>3, <2>4 DEF Contract!Withdraw
  <2> QED
    BY <2>5 DEF Contract!ContractNext, ContractStep
<1>9. ASSUME BootReap PROVE ContractStep
  <2>1. (\A k \in Leg : FateOf(k)' = FateOf(k)) /\ remote' = remote
    BY <1>9, SMTT(30) DEF BootReap, ReapTargets, Sweep, SchedFrame, FateOf, FateOfStatus
  <2> QED
    BY <2>1, Stutters DEF ContractStep
<1>10. ASSUME BootReapPosts PROVE ContractStep
  <2>1. target' = target /\ remote' = remote
    BY <1>10 DEF BootReapPosts, ReapPosts, NoLegPublishing, SchedFrame
  <2>2. \A q \in Post : post'[q] = "gone" <=> post[q] = "gone"
    BY <1>10, SMTT(30) DEF BootReapPosts, ReapPosts, NoLegPublishing, SchedFrame
  <2>3. \A k \in Leg : FateOf(k)' = FateOf(k)
    BY <2>1, <2>2 DEF FateOf
  <2> QED
    BY <2>1, <2>3, Stutters DEF ContractStep
<1>11. ASSUME BootList PROVE ContractStep
  <2>1. (\A k \in Leg : FateOf(k)' = FateOf(k)) /\ remote' = remote
    BY <1>11, SMTT(30) DEF BootList, SchedFrame, FateOf, FateOfStatus
  <2> QED
    BY <2>1, Stutters DEF ContractStep
<1>12. ASSUME NEW p \in Post, BootRepair(p) PROVE ContractStep
  <2>1. target' = target /\ remote' = remote
    BY <1>12 DEF BootRepair, RequeuePost, SettlePost, NoLegPublishing, SchedFrame
  <2>2. \A q \in Post : post'[q] = "gone" <=> post[q] = "gone"
    <3>1. CASE stranded[p] = "requeue"
      <4>1. RequeuePost(p)
        BY <1>12, <3>1 DEF BootRepair
      <4> QED
        BY <4>1, SMTT(30) DEF RequeuePost
    <3>2. CASE stranded[p] # "requeue"
      <4>1. SettlePost(p, stranded[p]) /\ stranded[p] \in Verdict
        BY <1>12, <3>2 DEF BootRepair
      <4> QED
        BY <4>1, SMTT(30) DEF SettlePost
    <3> QED
      BY <3>1, <3>2
  <2>3. \A k \in Leg : FateOf(k)' = FateOf(k)
    BY <2>1, <2>2 DEF FateOf
  <2> QED
    BY <2>1, <2>3, Stutters DEF ContractStep
<1>13. ASSUME BootDone PROVE ContractStep
  <2>1. (\A k \in Leg : FateOf(k)' = FateOf(k)) /\ remote' = remote
    BY <1>13, SMTT(30) DEF BootDone, SchedFrame, FateOf, FateOfStatus
  <2> QED
    BY <2>1, Stutters DEF ContractStep
<1>14. ASSUME TickReap PROVE ContractStep
  <2>1. (\A k \in Leg : FateOf(k)' = FateOf(k)) /\ remote' = remote
    BY <1>14, SMTT(30) DEF TickReap, ReapTargets, Sweep, SchedFrame, FateOf, FateOfStatus
  <2> QED
    BY <2>1, Stutters DEF ContractStep
<1>15. ASSUME TickReapPosts PROVE ContractStep
  <2>1. target' = target /\ remote' = remote
    BY <1>15 DEF TickReapPosts, ReapPosts, NoLegPublishing, SchedFrame
  <2>2. \A q \in Post : post'[q] = "gone" <=> post[q] = "gone"
    BY <1>15, SMTT(30) DEF TickReapPosts, ReapPosts, NoLegPublishing, SchedFrame
  <2>3. \A k \in Leg : FateOf(k)' = FateOf(k)
    BY <2>1, <2>2 DEF FateOf
  <2> QED
    BY <2>1, <2>3, Stutters DEF ContractStep
<1>16. ASSUME TickSweep PROVE ContractStep
  <2>1. target' = target /\ remote' = remote
    BY <1>16 DEF TickSweep, ClaimDue, Batch, SchedFrame
  <2>2. \A q \in Post : post'[q] = "gone" <=> post[q] = "gone"
    BY <1>16, SMTT(30) DEF TickSweep, ClaimDue, Batch, SchedFrame
  <2>3. \A k \in Leg : FateOf(k)' = FateOf(k)
    BY <2>1, <2>2 DEF FateOf
  <2> QED
    BY <2>1, <2>3, Stutters DEF ContractStep
<1>17. ASSUME TickDrain PROVE ContractStep
  <2>1. (\A k \in Leg : FateOf(k)' = FateOf(k)) /\ remote' = remote
    BY <1>17, SMTT(30) DEF TickDrain, Batch, FateOf, FateOfStatus
  <2> QED
    BY <2>1, Stutters DEF ContractStep
<1>18. ASSUME BatchJoined PROVE ContractStep
  <2>1. (\A k \in Leg : FateOf(k)' = FateOf(k)) /\ remote' = remote
    BY <1>18, SMTT(30) DEF BatchJoined, AllIdle, SchedFrame, FateOf, FateOfStatus
  <2> QED
    BY <2>1, Stutters DEF ContractStep
<1>19. ASSUME NEW p \in Post, RunClaim(p) PROVE ContractStep
  <2>1. target' = target /\ remote' = remote
    BY <1>19 DEF RunClaim, ClaimPost, RunFrame, Goto
  <2>2. \A q \in Post : post'[q] = "gone" <=> post[q] = "gone"
    BY <1>19, SMTT(30) DEF RunClaim, ClaimPost, RunFrame, Goto
  <2>3. \A k \in Leg : FateOf(k)' = FateOf(k)
    BY <2>1, <2>2 DEF FateOf
  <2> QED
    BY <2>1, <2>3, Stutters DEF ContractStep
<1>20. ASSUME NEW p \in Post, RunLoad(p) PROVE ContractStep
  <2>1. (\A k \in Leg : FateOf(k)' = FateOf(k)) /\ remote' = remote
    BY <1>20, SMTT(30) DEF RunLoad, RunFrame, Goto, FateOf, FateOfStatus
  <2> QED
    BY <2>1, Stutters DEF ContractStep
<1>21. ASSUME NEW p \in Post, NEW l \in Leg, RunLeg(p, l) PROVE ContractStep
  <2>1. (\A k \in Leg : FateOf(k)' = FateOf(k)) /\ remote' = remote
    BY <1>21, SMTT(30) DEF RunLeg, ClaimTarget, RunFrame, Goto, FateOf, FateOfStatus
  <2> QED
    BY <2>1, Stutters DEF ContractStep
<1>22. ASSUME NEW p \in Post, RunAlreadyLive(p) PROVE ContractStep
  <2>1. (\A k \in Leg : FateOf(k)' = FateOf(k)) /\ remote' = remote
    BY <1>22, SMTT(30) DEF RunAlreadyLive, RunFrame, Goto, FateOf, FateOfStatus
  <2> QED
    BY <2>1, Stutters DEF ContractStep
<1>23. ASSUME NEW p \in Post, RunFailLocally(p) PROVE ContractStep
  <2>1. (\A k \in Leg : FateOf(k)' = FateOf(k)) /\ remote' = remote
    BY <1>23, SMTT(30) DEF RunFailLocally, RunFrame, Goto, FateOf, FateOfStatus
  <2> QED
    BY <2>1, Stutters DEF ContractStep
<1>24. ASSUME NEW p \in Post, RunFirstCall(p) PROVE ContractStep
  <2>1. (\A k \in Leg : FateOf(k)' = FateOf(k)) /\ remote' = remote
    BY <1>24, SMTT(30) DEF RunFirstCall, RunFrame, Goto, FateOf, FateOfStatus
  <2> QED
    BY <2>1, Stutters DEF ContractStep
<1>25. ASSUME NEW p \in Post, RunPublished(p) PROVE ContractStep
  <2>1. leg[p] \in Leg /\ FateOf(leg[p]) \in {"owed", "forgotten"}
    BY <1>25, SMTT(30) DEF RunPublished, FateOf, FateOfStatus
  <2>2. \A k \in Leg : FateOf(k)' = FateOf(k)
    BY <1>25, SMTT(30) DEF RunPublished, RunFrame, FateOf, FateOfStatus
  <2>3. \/ remote' = remote
        \/ remote[leg[p]] < 2 /\ remote' = [remote EXCEPT ![leg[p]] = @ + 1]
    <3>1. Lands(leg[p])
      BY <1>25 DEF RunPublished
    <3> QED
      BY <2>1, <3>1, LandsOnce
  <2> QED
    BY <2>1, <2>2, <2>3, Stutters, Sends DEF Contract!ContractNext, ContractStep
<1>26. ASSUME NEW p \in Post, RunRefused(p) PROVE ContractStep
  <2>1. (\A k \in Leg : FateOf(k)' = FateOf(k)) /\ remote' = remote
    BY <1>26, SMTT(30) DEF RunRefused, AfterError, RunFrame, Goto, FateOf, FateOfStatus
  <2> QED
    BY <2>1, Stutters DEF ContractStep
<1>27. ASSUME NEW p \in Post, RunTimedOut(p) PROVE ContractStep
  <2>1. leg[p] \in Leg /\ FateOf(leg[p]) \in {"owed", "forgotten"}
    BY <1>27, SMTT(30) DEF RunTimedOut, FateOf, FateOfStatus
  <2>2. \A k \in Leg : FateOf(k)' = FateOf(k)
    BY <1>27, SMTT(30) DEF RunTimedOut, RunFrame, FateOf, FateOfStatus
  <2>3. \/ remote' = remote
        \/ remote[leg[p]] < 2 /\ remote' = [remote EXCEPT ![leg[p]] = @ + 1]
    <3>1. Lands(leg[p])
      BY <1>27 DEF RunTimedOut
    <3> QED
      BY <2>1, <3>1, LandsOnce
  <2> QED
    BY <2>1, <2>2, <2>3, Stutters, Sends DEF Contract!ContractNext, ContractStep
<1>28. ASSUME NEW p \in Post, Heartbeat(p) PROVE ContractStep
  <2>1. (\A k \in Leg : FateOf(k)' = FateOf(k)) /\ remote' = remote
    BY <1>28, SMTT(30) DEF Heartbeat, RenewClaim, RunFrame, FateOf, FateOfStatus
  <2> QED
    BY <2>1, Stutters DEF ContractStep
<1>29. ASSUME NEW p \in Post, RunRecord(p) PROVE ContractStep
  <2>1. (\A k \in Leg : FateOf(k)' = FateOf(k)) /\ remote' = remote
    BY <1>29, SMTT(30) DEF RunRecord, InsertHistory, RunFrame, Goto, FateOf, FateOfStatus
  <2> QED
    BY <2>1, Stutters DEF ContractStep
<1>30. ASSUME NEW p \in Post, RunSettleLeg(p) PROVE ContractStep
  <2>1. leg[p] \in Leg /\ (target[leg[p]] = "publishing" \/ target[leg[p]] = "absent")
    BY <1>30 DEF RunSettleLeg
  <2>2. CASE target[leg[p]] = "absent"
    <3>1. (\A k \in Leg : FateOf(k)' = FateOf(k)) /\ remote' = remote
      BY <1>30, <2>2, SMTT(30) DEF RunSettleLeg, SettleTarget, RunFrame, Goto, FateOf, FateOfStatus
    <3> QED
      BY <3>1, Stutters DEF ContractStep
  <2>3. CASE target[leg[p]] = "publishing"
    <3> DEFINE fate(k) == IF k \in {leg[p]} THEN FateOfStatus[outcome[p]] ELSE FateOf(k)
    <3>0. FateOfStatus["published"] = "live" /\ FateOfStatus["failed"] = "failed"
      BY DEF FateOfStatus
    <3>1. \A k \in {leg[p]} : FateOf(k) \in {"owed"}
      BY <1>30, <2>3, SMTT(30) DEF FateOf, FateOfStatus
    <3>2. \A k \in Leg : FateOf(k)' = fate(k)
      <4>1. target' = [target EXCEPT ![leg[p]] = outcome[p]] /\ post' = post
        BY <1>30, <2>3 DEF RunSettleLeg, SettleTarget
      <4>2. outcome[p] \in {"published", "failed"}
        BY <1>30 DEF RunSettleLeg
      <4> QED
        BY <2>1, <4>1, <4>2 DEF FateOf
    <3>3. remote' = remote /\ {leg[p]} \in SUBSET Leg
      BY <1>30, <2>1 DEF RunSettleLeg
    <3>4. Contract!Decide({leg[p]}, {"owed"}, FateOfStatus[outcome[p]])
      BY <3>1, <3>2, <3>3, Decides
    <3>5. CASE outcome[p] = "published"
      <4>1. remote[leg[p]] > 0
        BY <1>30, <2>1, <2>3, <3>5, SMTT(30) DEF RunSettleLeg
      <4>2. Contract!Decide({leg[p]}, {"owed"}, "live")
        BY <3>0, <3>4, <3>5
      <4>3. Contract!Confirm
        BY <2>1, <4>1, <4>2, Zenon DEF Contract!Confirm
      <4> QED
        BY <4>3 DEF Contract!ContractNext, ContractStep
    <3>6. CASE outcome[p] = "failed"
      <4>1. Contract!Decide({leg[p]}, {"owed"}, "failed")
        BY <3>0, <3>4, <3>6
      <4>2. Contract!GiveUp
        BY <2>1, <4>1, Zenon DEF Contract!GiveUp
      <4> QED
        BY <4>2 DEF Contract!ContractNext, ContractStep
    <3> QED
      BY <1>30, <3>5, <3>6 DEF RunSettleLeg
  <2> QED
    BY <2>1, <2>2, <2>3
<1>31. ASSUME NEW p \in Post, RunReadLegs(p) PROVE ContractStep
  <2>1. (\A k \in Leg : FateOf(k)' = FateOf(k)) /\ remote' = remote
    BY <1>31, SMTT(30) DEF RunReadLegs, RunFrame, Goto, FateOf, FateOfStatus
  <2> QED
    BY <2>1, Stutters DEF ContractStep
<1>32. ASSUME NEW p \in Post, RunSettlePost(p) PROVE ContractStep
  <2>1. target' = target /\ remote' = remote
    BY <1>32 DEF RunSettlePost, SettlePost, RunFrame, Goto
  <2>2. \A q \in Post : post'[q] = "gone" <=> post[q] = "gone"
    <3>1. verdict[p] \in Verdict
      BY <1>32 DEF RunSettlePost
    <3>2. SettlePost(p, verdict[p])
      BY <1>32 DEF RunSettlePost
    <3> QED
      BY <3>1, <3>2, SMTT(30) DEF SettlePost
  <2>3. \A k \in Leg : FateOf(k)' = FateOf(k)
    BY <2>1, <2>2 DEF FateOf
  <2> QED
    BY <2>1, <2>3, Stutters DEF ContractStep
<1>33. ASSUME NEW p \in Post, RunEmit(p) PROVE ContractStep
  <2>1. (\A k \in Leg : FateOf(k)' = FateOf(k)) /\ remote' = remote
    BY <1>33, SMTT(30) DEF RunEmit, EndRun, Goto, FateOf, FateOfStatus
  <2> QED
    BY <2>1, Stutters DEF ContractStep
<1>34. ASSUME NEW p \in Post, RunFails(p) PROVE ContractStep
  <2>1. (\A k \in Leg : FateOf(k)' = FateOf(k)) /\ remote' = remote
    BY <1>34, SMTT(30) DEF RunFails, EndRun, Goto, Unrecorded, FateOf, FateOfStatus
  <2> QED
    BY <2>1, Stutters DEF ContractStep
<1>35. ASSUME SchedFails PROVE ContractStep
  <2>1. (\A k \in Leg : FateOf(k)' = FateOf(k)) /\ remote' = remote
    BY <1>35, SMTT(30) DEF SchedFails, FateOf, FateOfStatus
  <2> QED
    BY <2>1, Stutters DEF ContractStep
<1>36. ASSUME Crash PROVE ContractStep
  <2>1. (\A k \in Leg : FateOf(k)' = FateOf(k)) /\ remote' = remote
    BY <1>36, SMTT(30) DEF Crash, Unrecorded, FateOf, FateOfStatus
  <2> QED
    BY <2>1, Stutters DEF ContractStep
<1>37. ASSUME Restart PROVE ContractStep
  <2>1. (\A k \in Leg : FateOf(k)' = FateOf(k)) /\ remote' = remote
    BY <1>37, SMTT(30) DEF Restart, FateOf, FateOfStatus
  <2> QED
    BY <2>1, Stutters DEF ContractStep
<1>38. ASSUME NEW p \in Post, Arrive(p) PROVE ContractStep
  <2>1. (\A k \in Leg : FateOf(k)' = FateOf(k)) /\ remote' = remote
    BY <1>38, SMTT(30) DEF Arrive, ScheduleArrives, ClockFrame, FateOf, FateOfStatus
  <2> QED
    BY <2>1, Stutters DEF ContractStep
<1>39. ASSUME NEW l \in Leg, Expire(l) PROVE ContractStep
  <2>1. (\A k \in Leg : FateOf(k)' = FateOf(k)) /\ remote' = remote
    BY <1>39, SMTT(30) DEF Expire, LeaseExpires, ClockFrame, FateOf, FateOfStatus
  <2> QED
    BY <2>1, Stutters DEF ContractStep
<1>40. CASE UNCHANGED vars
  <2>1. (\A k \in Leg : FateOf(k)' = FateOf(k)) /\ remote' = remote
    BY <1>40 DEF vars, FateOf
  <2> QED
    BY <2>1, Stutters DEF ContractStep
<1> QED
  BY <1>1, <1>2, <1>3, <1>4, <1>5, <1>6, <1>7, <1>8, <1>9, <1>10,
     <1>11, <1>12, <1>13, <1>14, <1>15, <1>16, <1>17, <1>18,
     <1>19, <1>20, <1>21, <1>22, <1>23, <1>24, <1>25, <1>26,
     <1>27, <1>28, <1>29, <1>30, <1>31, <1>32, <1>33, <1>34,
     <1>35, <1>36, <1>37, <1>38, <1>39, <1>40
  DEF Next, Handler, Boot, Tick, Run, RunLegStep, Fault

\* The queue implements the contract.
THEOREM QueueImplementsContract == Spec => ImplementsContract
<1>1. Init => Contract!ContractInit
  <2> SUFFICES ASSUME Init PROVE Contract!ContractInit
    OBVIOUS
  <2>1. \A l \in Leg : FateOf(l) = "unscheduled"
    BY DEF Init, TablesInit, FateOf
  <2>2. remote = [l \in Leg |-> 0]
    BY DEF Init
  <2> QED
    BY <2>1, <2>2 DEF Contract!ContractInit
<1>2. IInv /\ [Next]_vars => [Contract!ContractNext]_(Contract!contract)
  BY StepRefines DEF ContractStep
<1> QED
  BY <1>1, <1>2, Inductive, PTL DEF Spec, ImplementsContract, Contract!ContractSpec
=============================================================================
