------------------------- MODULE DispatchLoopProofs -------------------------
(***************************************************************************)
(* Proofs about the caller-driven loop of DispatchLoop.  Whatever the      *)
(* plan, the order of its document, the cap, the policy, the handlers and  *)
(* the faults are, it keeps the loop's state in order and reports the      *)
(* worst outcome.  Under ProducersFirst, the condition under which one     *)
(* walk of startReadySteps misses no step, it also leaves no work behind   *)
(* and implements Dataflow, as the event loop does for every document.     *)
(***************************************************************************)
EXTENDS DispatchLoop, LoopStateProofs

ControlTypeOK ==
    /\ pc \in {"caller", "starting", "collecting", "returned"}
    /\ at \in 1..(Len(Order) + 1)
    /\ batch \in BOOLEAN /\ spent \in BOOLEAN

\* What holds whatever the order of the document is.
DispatchInOrder ==
    /\ ControlTypeOK
    /\ (pc = "returned") <=> (outcome # "none")
    /\ StateInOrder
    /\ FailuresRecorded
    /\ FailureOutranks

\* What one call of Pending has seen to when it walks the steps once.
NothingMissed ==
    /\ pc = "starting" => \A k \in 1..(at - 1) : ~Startable(Order[k])
    /\ pc = "collecting" /\ ~stopped => \A s \in Steps : ~Startable(s)
    /\ pc = "collecting" /\ ~batch =>
          \A k \in 1..(at - 1), i \in Slots : ~Pending(<<Order[k], i>>)
    /\ NilMeansNoMoreWork
    /\ ResultIsComplete
    /\ IndependentBranchesFinish

-----------------------------------------------------------------------------
(* The state stays in order, for every document.                           *)

LEMMA InitDispatch == ASSUME Init PROVE DispatchInOrder
<1>1. StateInOrder /\ pc = "caller" /\ outcome = "none"
  BY InitInOrder DEF Init, LoopInit
<1>2. ControlTypeOK
  <2>1. 1 \in 1..(Len(Order) + 1)
    BY OrderCovers
  <2> QED
    BY <2>1 DEF ControlTypeOK, Init
<1>3. FailuresRecorded
  BY DEF FailuresRecorded, Init, LoopInit
<1> QED
  BY <1>1, <1>2, <1>3, NoVerdict DEF DispatchInOrder

LEMMA StillOpen == ASSUME DispatchInOrder, pc # "returned" PROVE outcome = "none"
BY DEF DispatchInOrder

\* A step of a loop that goes on: what is left to show when its state is in
\* order.
LEMMA GoesOn ==
    ASSUME StateInOrder', FailuresRecorded', outcome' = "none",
           ControlTypeOK', pc' # "returned"
    PROVE  DispatchInOrder'
BY DEF DispatchInOrder, FailureOutranks, Success, Suspended, TemporaryFail

LEMMA ControlInOrder ==
    ASSUME DispatchInOrder, UNCHANGED sharedVars
    PROVE  StateInOrder' /\ FailuresRecorded' /\ FailureOutranks' /\ outcome' = outcome
<1>1. StateInOrder'
  BY OtherStepsInOrder DEF DispatchInOrder, StateInOrder, LoopTypeOK, sharedVars, workVars
<1>2. FailuresRecorded'
  BY DEF DispatchInOrder, FailuresRecorded, sharedVars, stateVars, loopVars
<1>3. FailureOutranks'
  BY SameVerdict DEF DispatchInOrder, sharedVars
<1> QED
  BY <1>1, <1>2, <1>3 DEF sharedVars

\* The moves of Pending's walk that record nothing.
LEMMA WalkInOrder ==
    ASSUME DispatchInOrder, CallPending \/ EndStarting \/ NextStep \/ ReturnBatch
    PROVE  DispatchInOrder'
<1>1. UNCHANGED sharedVars /\ pc # "returned" /\ pc' # "returned"
  BY DEF CallPending, EndStarting, NextStep, ReturnBatch
<1>2. ControlTypeOK /\ Len(Order) \in Nat /\ 1 \in 1..(Len(Order) + 1)
  BY OrderCovers DEF DispatchInOrder
<1>3. ControlTypeOK'
  <2>1. CASE CallPending
    BY <1>2, <2>1 DEF CallPending, ControlTypeOK
  <2>2. CASE EndStarting
    BY <1>2, <2>2 DEF EndStarting, ControlTypeOK
  <2>3. CASE NextStep
    BY <1>2, <2>3 DEF NextStep, ControlTypeOK
  <2>4. CASE ReturnBatch
    BY <1>2, <2>4 DEF ReturnBatch, ControlTypeOK
  <2> QED
    BY <2>1, <2>2, <2>3, <2>4
<1> QED
  BY <1>1, <1>3, ControlInOrder, StillOpen, GoesOn

LEMMA StartReadyStepInOrder ==
    ASSUME DispatchInOrder, StartReadyStep
    PROVE  DispatchInOrder'
<1>1. PICK k \in at..Len(Order) : Startable(Order[k]) /\ StartStep(Order[k]) /\ at' = k + 1
  BY DEF StartReadyStep
<1>2. pc = "starting" /\ pc' = pc /\ batch' = batch /\ spent' = spent
  BY DEF StartReadyStep
<1>3. k \in 1..Len(Order) /\ Order[k] \in Steps /\ Len(Order) \in Nat
  BY OrderCovers DEF DispatchInOrder, ControlTypeOK
<1>4. outcome = "none" /\ outcome' = outcome
  BY <1>1, <1>2, StillOpen DEF StartStep
<1>5. StateInOrder'
  BY <1>1, <1>3, <1>4, StartStepInOrder DEF DispatchInOrder
<1>6. FailuresRecorded'
  BY <1>1, <1>3, StartStepRecordsFailures DEF DispatchInOrder
<1>7. ControlTypeOK'
  BY <1>1, <1>2, <1>3 DEF DispatchInOrder, ControlTypeOK
<1> QED
  BY <1>2, <1>4, <1>5, <1>6, <1>7, GoesOn

\* What one move of collectStep does, with the invocation it is about.
LEMMA Collected ==
    ASSUME DispatchInOrder, Collect
    PROVE  /\ pc = "collecting" /\ at <= Len(Order) /\ HasCapacity /\ outcome = "none"
           /\ UNCHANGED <<pc, at, spent, outcome>>
           /\ \E x \in Invocations :
                 /\ x[1] = Order[at] /\ Pending(x)
                 /\ \/ HandOver(x) /\ batch' = TRUE
                    \/ Record(x, CallError) /\ UNCHANGED <<batch, dispatched, running, workVars>>
<1>1. /\ pc = "collecting" /\ at <= Len(Order) /\ HasCapacity
      /\ UNCHANGED <<pc, at, spent>>
  BY DEF Collect
<1>2. PICK i \in Slots : /\ Pending(<<Order[at], i>>)
                         /\ \/ HandOver(<<Order[at], i>>) /\ batch' = TRUE
                            \/ BuildFails(<<Order[at], i>>)
  BY DEF Collect
<1>3. outcome = "none" /\ outcome' = outcome
  BY <1>1, <1>2, StillOpen DEF HandOver, BuildFails
<1>4. Order[at] \in Steps
  BY <1>1, OrderCovers DEF DispatchInOrder, ControlTypeOK
<1>5. <<Order[at], i>> \in Invocations
  BY <1>4, InvocationParts
<1> QED
  BY <1>1, <1>2, <1>3, <1>5 DEF BuildFails

LEMMA CollectInOrder == ASSUME DispatchInOrder, Collect PROVE DispatchInOrder'
<1>1. PICK x \in Invocations :
         /\ Pending(x)
         /\ \/ HandOver(x) /\ batch' = TRUE
            \/ Record(x, CallError) /\ UNCHANGED <<batch, dispatched, running, workVars>>
  BY Collected
<1>2. HasCapacity /\ outcome = "none" /\ pc = "collecting" /\ UNCHANGED <<pc, at, spent, outcome>>
  BY Collected
<1>3. ControlTypeOK'
  BY <1>1, <1>2 DEF DispatchInOrder, ControlTypeOK
<1>4. CASE HandOver(x)
  <2>1. StateInOrder'
    BY <1>1, <1>2, <1>4, HandOverInOrder DEF DispatchInOrder
  <2>2. FailuresRecorded'
    BY <1>4 DEF DispatchInOrder, FailuresRecorded, HandOver, stateVars
  <2> QED
    BY <1>2, <1>3, <2>1, <2>2, GoesOn
<1>5. CASE Record(x, CallError) /\ UNCHANGED <<batch, dispatched, running, workVars>>
  <2>1. StateInOrder'
    BY <1>1, <1>2, <1>5, UnbuiltInOrder DEF DispatchInOrder
  <2>2. FailuresRecorded'
    BY <1>5, RecordRecordsFailures DEF DispatchInOrder
  <2> QED
    BY <1>2, <1>3, <2>1, <2>2, GoesOn
<1> QED
  BY <1>1, <1>4, <1>5

LEMMA CompleteInOrder ==
    ASSUME DispatchInOrder, NEW x \in Invocations, Complete(x)
    PROVE  DispatchInOrder'
<1>1. /\ Settle(x) /\ x \in inflight /\ pc = "caller" /\ outcome' = outcome
      /\ pc' = pc /\ at' = at /\ batch' = batch /\ spent' = FALSE
  BY DEF Complete, Settle
<1>2. outcome = "none"
  BY <1>1, StillOpen
<1>3. StateInOrder'
  BY <1>1, <1>2, SettleInOrder DEF DispatchInOrder
<1>4. FailuresRecorded'
  BY <1>1, RecordRecordsFailures DEF Settle, DispatchInOrder
<1>5. ControlTypeOK'
  BY <1>1 DEF DispatchInOrder, ControlTypeOK
<1> QED
  BY <1>1, <1>2, <1>3, <1>4, <1>5, GoesOn

\* The loop stands still: a StepInvocation's Run returns to the caller, or
\* nothing happens.
LEMMA StandingStill ==
    ASSUME DispatchInOrder, StateInOrder',
           UNCHANGED <<stateVars, loopVars, outcome, pc, at, batch, spent>>
    PROVE  DispatchInOrder'
<1>1. FailuresRecorded'
  BY DEF DispatchInOrder, FailuresRecorded, stateVars, loopVars
<1>2. FailureOutranks'
  BY SameVerdict DEF DispatchInOrder
<1>3. ControlTypeOK'
  BY DEF DispatchInOrder, ControlTypeOK
<1> QED
  BY <1>1, <1>2, <1>3 DEF DispatchInOrder

LEMMA HandlerReplyInOrder ==
    ASSUME DispatchInOrder, NEW x \in Invocations, HandlerReply(x)
    PROVE  DispatchInOrder'
<1>1. StateInOrder'
  BY AnswerInOrder DEF HandlerReply, DispatchInOrder
<1> QED
  BY <1>1, StandingStill DEF HandlerReply, HandlerReturns

LEMMA StutterInOrder == ASSUME DispatchInOrder, UNCHANGED vars PROVE DispatchInOrder'
<1>1. StateInOrder'
  BY ControlInOrder DEF vars
<1> QED
  BY <1>1, StandingStill DEF vars, sharedVars

LEMMA OutcomeGiven == RunOutcomes \union {"cancelled"} \subseteq Outcomes \ {"none"}
BY DEF RunOutcomes, Outcomes, PermanentFail, TemporaryFail, Suspended, Success

LEMMA ReturnInOrder == ASSUME DispatchInOrder, Finish \/ Abandon PROVE DispatchInOrder'
<1>1. /\ pc' = "returned" /\ outcome' \in RunOutcomes \union {"cancelled"}
      /\ UNCHANGED <<stateVars, loopVars, workVars, at, batch, spent>>
  BY DEF Finish, Abandon
<1>2. StateInOrder'
  BY <1>1, OutcomeGiven, OtherStepsInOrder DEF workVars, DispatchInOrder, StateInOrder, LoopTypeOK
<1>3. FailuresRecorded'
  BY <1>1 DEF DispatchInOrder, FailuresRecorded, stateVars, loopVars
<1>4. FailureOutranks'
  <2>1. CASE Finish
    BY <1>1, <2>1, VerdictOutranks DEF Finish, DispatchInOrder, StateInOrder
  <2>2. CASE Abandon
    BY <2>2 DEF Abandon, FailureOutranks, Success, Suspended, TemporaryFail
  <2> QED
    BY <2>1, <2>2
<1>5. ControlTypeOK'
  BY <1>1 DEF DispatchInOrder, ControlTypeOK
<1> QED
  BY <1>1, <1>2, <1>3, <1>4, <1>5, OutcomeGiven DEF DispatchInOrder

LEMMA NextInOrder == ASSUME DispatchInOrder, [Next]_vars PROVE DispatchInOrder'
BY WalkInOrder, StartReadyStepInOrder, CollectInOrder, CompleteInOrder, HandlerReplyInOrder,
   ReturnInOrder, StutterInOrder DEF Next, Terminated

\* Every reachable state of the caller-driven loop is in order, whatever the
\* plan, its document, the cap, the policy, the handlers and the faults are.
THEOREM DispatchInvariantHolds == Spec => []DispatchInOrder
<1>1. Init => DispatchInOrder
  BY InitDispatch
<1>2. DispatchInOrder /\ [Next]_vars => DispatchInOrder'
  BY NextInOrder
<1> QED
  BY <1>1, <1>2, PTL DEF Spec

\* Pending and Complete: what the event loop guarantees at every moment, the
\* caller-driven loop does too: the handlers are counted and capped, no
\* handler runs before its step is fed, a step and its invocations agree, and
\* the worst outcome is the run's.
THEOREM DispatchSafety ==
    Spec => [](/\ RunningCountsHandlers /\ CapRespected /\ InputsProduced
               /\ StepMatchesItsJobs /\ FailureOutranks)
<1>1. DispatchInOrder => /\ RunningCountsHandlers /\ CapRespected /\ InputsProduced
                         /\ StepMatchesItsJobs /\ FailureOutranks
  BY RunningFed DEF DispatchInOrder, StateInOrder, HandlersCounted
<1> QED
  BY <1>1, DispatchInvariantHolds, PTL

-----------------------------------------------------------------------------
(* Outcomes are final.                                                     *)

LEMMA NextKeepsOutcomes ==
    ASSUME DispatchInOrder, [Next]_vars
    PROVE  KeepsOutcomes \/ UNCHANGED sharedVars
<1> USE DEF DispatchInOrder
<1>1. CASE StartReadyStep
  <2>1. PICK k \in at..Len(Order) : Startable(Order[k]) /\ StartStep(Order[k])
    BY <1>1 DEF StartReadyStep
  <2>2. Order[k] \in Steps
    BY OrderCovers DEF ControlTypeOK
  <2> QED
    BY <2>1, <2>2, StartKeepsOutcomes
<1>2. CASE Collect
  <2>1. PICK x \in Invocations : Pending(x) /\ (HandOver(x) \/ Record(x, CallError))
    BY <1>2, Collected
  <2>2. CASE HandOver(x)
    BY <2>2 DEF HandOver, stateVars, KeepsOutcomes
  <2>3. CASE Record(x, CallError)
    BY <2>1, <2>3, RecordKeepsOutcomes DEF Pending, StateInOrder
  <2> QED
    BY <2>1, <2>2, <2>3
<1>3. ASSUME NEW x \in Invocations, Complete(x)
      PROVE  KeepsOutcomes
  <2>1. Settle(x) /\ x \in inflight /\ outcome = "none"
    BY <1>3, StillOpen DEF Complete, Settle
  <2>2. job[x] = Unset /\ status[x[1]] = Unset
    BY <2>1, InflightUnrecorded
  <2> QED
    BY <2>1, <2>2, RecordKeepsOutcomes DEF Settle, StateInOrder
<1>4. CASE \/ CallPending \/ EndStarting \/ NextStep \/ ReturnBatch \/ Finish \/ Abandon
           \/ Terminated \/ UNCHANGED vars
  BY <1>4 DEF CallPending, EndStarting, NextStep, ReturnBatch, Finish, Abandon, Terminated, vars,
     KeepsOutcomes, stateVars
<1>5. ASSUME NEW x \in Invocations, HandlerReply(x)
      PROVE  KeepsOutcomes
  BY <1>5 DEF HandlerReply, HandlerReturns, stateVars, KeepsOutcomes
<1> QED
  BY <1>1, <1>2, <1>3, <1>4, <1>5 DEF Next

\* Complete: a finished step and a terminal invocation are never written
\* again by a caller that completes each invocation once.
THEOREM DispatchOutcomesStay == Spec => OutcomesAreFinal
<1>1. DispatchInOrder /\ [Next]_vars => [KeepsOutcomes]_sharedVars
  BY NextKeepsOutcomes
<1>2. KeepsOutcomes =>
        /\ \A s \in Steps : status[s] # Unset => status'[s] = status[s]
        /\ \A x \in Invocations :
              x[2] <= width[x[1]] /\ Terminal(job[x]) => job'[x] = job[x]
  BY DEF KeepsOutcomes
<1> QED
  BY <1>1, <1>2, DispatchInvariantHolds, PTL DEF Spec, OutcomesAreFinal

-----------------------------------------------------------------------------
(* Nothing is missed, when the document lists producers first.             *)

\* startStep: a step that can neither be a scatter over nothing nor be turned
\* away has produced nothing when it has only just started.
LEMMA FreshStepUnproduced ==
    ASSUME LoopTypeOK, NEW s \in Steps, ~MayFinishAtOnce(s), StartStep(s)
    PROVE  status'[s] \notin {Success, Skipped}
<1> USE DEF SetStepStatus, LoopTypeOK
<1>1. CASE StartFails(s) \/ GateFails(s)
  BY <1>1 DEF StartFails, GateFails, PermanentFail, Success, Skipped
<1>2. CASE StartAdmits(s)
  <2>1. GateChoices(s, 1) = {{}} /\ Widths(s) = {1}
    BY DEF MayFinishAtOnce, GateChoices, Widths
  <2>2. SetStepStatus(s, CompletedStatus(s, 1, Adopted(s, {})))
    BY <1>2, <2>1 DEF StartAdmits
  <2>3. Adopted(s, {})[<<s, 1>>] = Unset
    BY InvocationParts DEF Adopted
  <2>4. CompletedStatus(s, 1, Adopted(s, {})) = Unset
    BY <2>3 DEF CompletedStatus, AllTerminal, Terminal
  <2> QED
    BY <2>2, <2>4 DEF Unset, Success, Skipped
<1> QED
  BY <1>1, <1>2 DEF StartStep

\* Starting a step makes no other step startable, but one that reads from it
\* when it is done at once.
LEMMA StartWakes ==
    ASSUME StateInOrder, NEW s \in Steps, Startable(s), StartStep(s),
           NEW t \in Steps, ~Startable(t), Startable(t)'
    PROVE  s \in Deps[t] /\ MayFinishAtOnce(s)
<1>1. /\ started' = [started EXCEPT ![s] = TRUE]
      /\ \A u \in Steps \ {s} : status'[u] = status[u]
  BY StartStepEffect DEF StateInOrder
<1>2. t # s /\ started'[t] = started[t] /\ status'[t] = status[t]
  BY <1>1 DEF Startable, StateInOrder, LoopTypeOK
<1>3. PICK d \in Deps[t] : ~Produced(d) /\ status'[d] \in {Success, Skipped}
  BY <1>2 DEF Startable, Ready, Produced
<1>4. d = s
  BY <1>1, <1>3, PlanAssumption DEF Produced
<1> QED
  BY <1>3, <1>4, FreshStepUnproduced DEF StateInOrder

\* newCall's error is a failure: it feeds no step, and leaves less to launch.
LEMMA ErrorWakesNothing ==
    ASSUME StateInOrder, NEW x \in Invocations, Pending(x), Record(x, CallError),
           dispatched' = dispatched
    PROVE  /\ \A s \in Steps : Startable(s)' => Startable(s)
           /\ \A y \in Invocations : Pending(y)' => Pending(y)
           /\ stopped => stopped'
<1>1. Outcome(CallError).status = PermanentFail
  BY DEF Outcome, CallError, Failures, Unset, PermanentFail, TemporaryFail
<1>2. x[1] \in Steps /\ x = <<x[1], x[2]>> /\ x[2] \in 1..width[x[1]] /\ LoopTypeOK
  BY InvocationParts DEF StateInOrder, LoopTypeOK, Pending
<1>3. started[x[1]] /\ status[x[1]] = Unset /\ PermanentFail # Unset
  BY DEF Pending, PermanentFail, Unset
<1> DEFINE j == [job EXCEPT ![x] = PermanentFail]
           st == CompletedStatus(x[1], width[x[1]], j)
<1>4. /\ job' = j /\ started' = started /\ width' = width /\ expanded' = expanded
      /\ status' = [status EXCEPT ![x[1]] = st]
      /\ stopped => stopped'
  BY <1>1 DEF Record, SetStepStatus
<1>5. st \in {Unset, PermanentFail}
  <2>1. j[<<x[1], x[2]>>] = PermanentFail
    BY <1>2 DEF LoopTypeOK
  <2>2. PermanentFail \in {j[<<x[1], i>>] : i \in 1..width[x[1]]}
    BY <1>2, <2>1
  <2>3. JobsOutcome(x[1], width[x[1]], j) = PermanentFail
    BY <2>2 DEF JobsOutcome
  <2> QED
    BY <2>3 DEF CompletedStatus
<1> HIDE DEF st
<1>6. ASSUME NEW y \in Invocations, Pending(y)'
      PROVE  Pending(y)
  <2>1. job'[y] = Unset /\ y # x
    BY <1>2, <1>3, <1>4, <1>6 DEF Pending, LoopTypeOK
  <2>2. job[y] = Unset /\ status[y[1]] = Unset
    BY <1>2, <1>3, <1>4, <1>6, <2>1, InvocationParts DEF Pending, LoopTypeOK
  <2> QED
    BY <1>4, <1>6, <2>2 DEF Pending
<1>7. ASSUME NEW s \in Steps, Startable(s)'
      PROVE  Startable(s)
  <2>1. \A d \in Steps : Produced(d)' => Produced(d)
    BY <1>2, <1>4, <1>5 DEF Produced, LoopTypeOK, PermanentFail, Unset, Success, Skipped
  <2>2. s # x[1] /\ status'[s] = status[s]
    BY <1>2, <1>3, <1>4, <1>7 DEF Startable, LoopTypeOK
  <2> QED
    BY <1>4, <1>7, <2>1, <2>2, PlanAssumption DEF Startable, Ready
<1> QED
  BY <1>4, <1>6, <1>7

\* Where the walk of startReadySteps has been, no step is startable; where
\* collectStep's has been with nothing to show, none is pending.
LEMMA InitMisses == ASSUME Init PROVE NothingMissed
<1>1. outcome = "none"
  BY DEF Init, LoopInit
<1> QED
  BY <1>1, NoVerdict DEF Init, NothingMissed, NilMeansNoMoreWork

\* A step of a loop that goes on: what is left to show.
LEMMA GoesOnMissing ==
    ASSUME outcome' = "none",
           pc' = "starting" => (\A k \in 1..(at - 1) : ~Startable(Order[k]))',
           pc' = "collecting" /\ ~stopped' => (\A s \in Steps : ~Startable(s))',
           pc' = "collecting" /\ ~batch' =>
              (\A k \in 1..(at - 1), i \in Slots : ~Pending(<<Order[k], i>>))',
           NilMeansNoMoreWork'
    PROVE  NothingMissed'
BY DEF NothingMissed, ResultIsComplete, IndependentBranchesFinish, Failures,
       Success, Suspended, PermanentFail, TemporaryFail

LEMMA StartReadyStepMisses ==
    ASSUME ProducersFirst, DispatchInOrder, NothingMissed, StartReadyStep
    PROVE  NothingMissed'
<1>1. PICK k \in at..Len(Order) : /\ Startable(Order[k]) /\ StartStep(Order[k]) /\ at' = k + 1
                                  /\ \A m \in at..(k - 1) : ~Startable(Order[m])
  BY DEF StartReadyStep
<1>2. pc = "starting" /\ pc' = pc /\ outcome = "none" /\ outcome' = outcome
  BY <1>1, StillOpen DEF StartReadyStep, StartStep
<1>3. at \in Nat /\ at >= 1 /\ k \in 1..Len(Order) /\ Order[k] \in Steps /\ Len(Order) \in Nat
  BY OrderCovers DEF DispatchInOrder, ControlTypeOK
<1>4. ASSUME NEW m \in 1..k
      PROVE  ~Startable(Order[m])'
  <2>1. m \in 1..Len(Order) /\ Order[m] \in Steps
    BY <1>3, OrderCovers
  <2>2. CASE m = k
    <3>1. started' = [started EXCEPT ![Order[k]] = TRUE] /\ started \in [Steps -> BOOLEAN]
      BY <1>1 DEF StartStep, DispatchInOrder, StateInOrder, LoopTypeOK
    <3> QED
      BY <1>3, <2>2, <3>1 DEF Startable
  <2>3. CASE m < k
    <3>1. ~Startable(Order[m])
      BY <1>1, <1>2, <1>3, <2>3 DEF NothingMissed
    <3>2. ~(Order[k] \in Deps[Order[m]] /\ MayFinishAtOnce(Order[k]))
      BY <1>3, <2>1, <2>3 DEF ProducersFirst
    <3> QED
      BY <1>1, <1>3, <2>1, <3>1, <3>2, StartWakes DEF DispatchInOrder
  <2> QED
    BY <1>3, <2>2, <2>3
<1>5. (\A m \in 1..(at - 1) : ~Startable(Order[m]))'
  <2>1. at' - 1 = k
    BY <1>1, <1>3
  <2> QED
    BY <1>4, <2>1
<1>6. NilMeansNoMoreWork'
  BY <1>2 DEF NilMeansNoMoreWork
<1> QED
  BY <1>2, <1>5, <1>6, GoesOnMissing

LEMMA CallPendingMisses ==
    ASSUME DispatchInOrder, CallPending
    PROVE  NothingMissed'
<1>1. /\ pc = "caller" /\ outcome = "none" /\ outcome' = outcome /\ stopped' = stopped
      /\ pc' = (IF stopped THEN "collecting" ELSE "starting") /\ at' = 1
  BY StillOpen DEF CallPending, sharedVars, loopVars
<1>2. 1..(at' - 1) = {}
  BY <1>1
<1>3. NilMeansNoMoreWork'
  BY <1>1 DEF NilMeansNoMoreWork
<1> QED
  BY <1>1, <1>2, <1>3, GoesOnMissing

\* What the walk has passed and what it sees at its end are all the steps.
LEMMA EndStartingMisses ==
    ASSUME DispatchInOrder, NothingMissed, EndStarting
    PROVE  NothingMissed'
<1>1. /\ pc = "starting" /\ outcome = "none" /\ UNCHANGED sharedVars
      /\ pc' = "collecting" /\ at' = 1
      /\ \A k \in at..Len(Order) : ~Startable(Order[k])
  BY StillOpen DEF EndStarting
<1>2. 1..(at' - 1) = {} /\ at \in Nat /\ Len(Order) \in Nat
  BY <1>1, OrderCovers DEF DispatchInOrder, ControlTypeOK
<1>3. \A k \in 1..Len(Order) : ~Startable(Order[k])
  BY <1>1, <1>2 DEF NothingMissed
<1>4. \A s \in Steps : ~Startable(s)
  BY <1>3, OrderCovers
<1>5. (\A s \in Steps : ~Startable(s))'
  BY <1>1, <1>4 DEF Startable, Ready, Produced, sharedVars, stateVars
<1>6. NilMeansNoMoreWork' /\ outcome' = outcome
  BY <1>1 DEF NilMeansNoMoreWork, sharedVars
<1> QED
  BY <1>1, <1>2, <1>5, <1>6, GoesOnMissing

LEMMA CollectMisses ==
    ASSUME DispatchInOrder, NothingMissed, Collect
    PROVE  NothingMissed'
<1>1. PICK x \in Invocations :
         /\ Pending(x)
         /\ \/ HandOver(x) /\ batch' = TRUE
            \/ Record(x, CallError) /\ UNCHANGED <<batch, dispatched, running, workVars>>
  BY Collected
<1>2. pc = "collecting" /\ outcome = "none" /\ UNCHANGED <<pc, at, spent, outcome>>
  BY Collected
<1>3. NilMeansNoMoreWork'
  BY <1>2 DEF NilMeansNoMoreWork
<1>4. CASE HandOver(x) /\ batch' = TRUE
  <2>1. ~stopped' => (\A s \in Steps : ~Startable(s))'
    BY <1>2, <1>4 DEF NothingMissed, HandOver, stateVars, Startable, Ready, Produced
  <2> QED
    BY <1>2, <1>3, <1>4, <2>1, GoesOnMissing
<1>5. CASE Record(x, CallError) /\ UNCHANGED <<batch, dispatched, running, workVars>>
  <2>1. /\ \A s \in Steps : Startable(s)' => Startable(s)
        /\ \A y \in Invocations : Pending(y)' => Pending(y)
        /\ stopped => stopped'
    BY <1>1, <1>5, ErrorWakesNothing DEF DispatchInOrder
  <2>2. ~stopped' => (\A s \in Steps : ~Startable(s))'
    BY <1>2, <2>1 DEF NothingMissed
  <2>3. ASSUME ~batch', NEW k \in 1..(at - 1), NEW i \in Slots
        PROVE  ~Pending(<<Order[k], i>>)'
    <3>1. ~Pending(<<Order[k], i>>)
      BY <1>2, <1>5, <2>3 DEF NothingMissed
    <3>2. k \in 1..Len(Order)
      BY OrderCovers DEF DispatchInOrder, ControlTypeOK
    <3>3. <<Order[k], i>> \in Invocations
      BY <3>2, OrderCovers, InvocationParts
    <3> QED
      BY <2>1, <3>1, <3>3
  <2> QED
    BY <1>2, <1>3, <2>2, <2>3, GoesOnMissing
<1> QED
  BY <1>1, <1>4, <1>5

LEMMA NextStepMisses ==
    ASSUME DispatchInOrder, NothingMissed, NextStep
    PROVE  NothingMissed'
<1>1. /\ pc = "collecting" /\ outcome = "none" /\ UNCHANGED <<sharedVars, pc, batch, spent>>
      /\ at' = at + 1 /\ at \in Nat /\ at >= 1
      /\ \A i \in Slots : ~Pending(<<Order[at], i>>)
  BY StillOpen DEF NextStep, DispatchInOrder, ControlTypeOK
<1>2. ~stopped' => (\A s \in Steps : ~Startable(s))'
  BY <1>1 DEF NothingMissed, Startable, Ready, Produced, sharedVars, stateVars, loopVars
<1>3. ~batch => \A k \in 1..at, i \in Slots : ~Pending(<<Order[k], i>>)
  BY <1>1 DEF NothingMissed
<1>4. at' - 1 = at
  BY <1>1
<1>5. ~batch' => (\A k \in 1..(at - 1), i \in Slots : ~Pending(<<Order[k], i>>))'
  BY <1>1, <1>3, <1>4 DEF Pending, sharedVars, stateVars, loopVars
<1>6. NilMeansNoMoreWork' /\ outcome' = outcome
  BY <1>1 DEF NilMeansNoMoreWork, sharedVars
<1> QED
  BY <1>1, <1>2, <1>5, <1>6, GoesOnMissing

\* Pending's nil: with nothing in flight it was not for want of capacity.
LEMMA ReturnBatchMisses ==
    ASSUME DispatchInOrder, NothingMissed, ReturnBatch
    PROVE  NothingMissed'
<1>1. /\ pc = "collecting" /\ outcome = "none" /\ UNCHANGED <<sharedVars, batch>>
      /\ pc' = "caller" /\ spent' = ~batch
      /\ at > Len(Order) \/ ~HasCapacity
  BY StillOpen DEF ReturnBatch
<1>2. NilMeansNoMoreWork'
  <2> SUFFICES ASSUME ~batch, running = 0, ~stopped
               PROVE  /\ (\A s \in Steps : ~Startable(s))'
                      /\ (\A x \in Invocations : ~Pending(x))'
    BY <1>1 DEF NilMeansNoMoreWork, sharedVars, loopVars
  <2>1. \A s \in Steps : ~Startable(s)
    BY <1>1 DEF NothingMissed
  <2>2. at = Len(Order) + 1
    BY <1>1, OrderCovers, ConfigAssumption DEF HasCapacity, DispatchInOrder, ControlTypeOK
  <2>3. at - 1 = Len(Order)
    BY <2>2, OrderCovers
  <2>4. \A k \in 1..Len(Order), i \in Slots : ~Pending(<<Order[k], i>>)
    BY <1>1, <2>3 DEF NothingMissed
  <2>5. ASSUME NEW x \in Invocations PROVE ~Pending(x)
    <3>1. PICK k \in 1..Len(Order) : Order[k] = x[1]
      BY OrderCovers, InvocationParts
    <3>2. x[2] \in Slots /\ x = <<Order[k], x[2]>>
      BY <3>1, InvocationParts
    <3> QED
      BY <2>4, <3>2
  <2> QED
    BY <1>1, <2>1, <2>5 DEF Startable, Ready, Produced, Pending, sharedVars, stateVars, loopVars
<1>3. outcome' = outcome
  BY <1>1 DEF sharedVars
<1> QED
  BY <1>1, <1>2, <1>3, GoesOnMissing

\* A result taken back: the caller has to ask again.
LEMMA CompleteMisses ==
    ASSUME DispatchInOrder, NEW x \in Invocations, Complete(x)
    PROVE  NothingMissed'
<1>1. pc = "caller" /\ pc' = pc /\ spent' = FALSE /\ outcome = "none" /\ outcome' = outcome
  BY StillOpen DEF Complete, Settle
<1>2. NilMeansNoMoreWork'
  BY <1>1 DEF NilMeansNoMoreWork
<1> QED
  BY <1>1, <1>2, GoesOnMissing

LEMMA StandingStillMisses ==
    ASSUME NothingMissed, UNCHANGED <<stateVars, loopVars, outcome, pc, at, batch, spent>>
    PROVE  NothingMissed'
<1> USE DEF stateVars, loopVars
<1>1. \A s : Startable(s)' <=> Startable(s)
  BY DEF Startable, Ready, Produced
<1>2. \A x : Pending(x)' <=> Pending(x)
  BY DEF Pending
<1>3. ResultIsComplete' /\ IndependentBranchesFinish'
  BY SameVerdict DEF NothingMissed
<1>4. NilMeansNoMoreWork'
  BY <1>1, <1>2 DEF NothingMissed, NilMeansNoMoreWork
<1> QED
  BY <1>1, <1>2, <1>3, <1>4 DEF NothingMissed

\* A caller that was told there is no more work, and has every result back,
\* holds a loop with no handler out and, unless it was stopped, nothing to
\* start or launch.
LEMMA FinishedQuiet ==
    ASSUME DispatchInOrder, NothingMissed, Finish
    PROVE  /\ outcome = "none" /\ inflight = {}
           /\ ~stopped => /\ \A s \in Steps : ~Startable(s)
                          /\ \A x \in Invocations : ~Pending(x)
<1>1. pc = "caller" /\ spent /\ running = 0 /\ outcome = "none"
  BY StillOpen DEF Finish
<1>2. inflight = {}
  BY <1>1, FS_EmptySet DEF DispatchInOrder, StateInOrder, HandlersCounted, RunningCountsHandlers
<1> QED
  BY <1>1, <1>2 DEF NothingMissed, NilMeansNoMoreWork

LEMMA FinishMisses ==
    ASSUME DispatchInOrder, NothingMissed, Finish
    PROVE  NothingMissed'
<1>1. outcome' \in RunOutcomes /\ UNCHANGED <<stateVars, loopVars>> /\ pc' = "returned"
  BY DEF Finish
<1>2. StateInOrder /\ (ContinueOnError => ~stopped)
  BY DEF DispatchInOrder, FailuresRecorded
<1>3. ResultIsComplete' /\ IndependentBranchesFinish'
  BY <1>1, <1>2, FinishedQuiet, VerdictComplete, BranchesFinish
<1> QED
  BY <1>1, <1>3 DEF NothingMissed, NilMeansNoMoreWork

LEMMA AbandonMisses ==
    ASSUME Abandon
    PROVE  NothingMissed'
<1>1. outcome' = "cancelled" /\ pc' = "returned"
  BY DEF Abandon
<1> QED
  BY <1>1 DEF NothingMissed, NilMeansNoMoreWork, ResultIsComplete, IndependentBranchesFinish,
     Failures, Success, Suspended, PermanentFail, TemporaryFail

LEMMA NextMisses ==
    ASSUME ProducersFirst, DispatchInOrder, NothingMissed, [Next]_vars
    PROVE  NothingMissed'
<1>1. CASE CallPending \/ StartReadyStep \/ EndStarting
  BY <1>1, CallPendingMisses, StartReadyStepMisses, EndStartingMisses
<1>2. CASE Collect \/ NextStep \/ ReturnBatch
  BY <1>2, CollectMisses, NextStepMisses, ReturnBatchMisses
<1>3. CASE Finish \/ Abandon
  BY <1>3, FinishMisses, AbandonMisses
<1>4. CASE \E x \in Invocations : Complete(x)
  BY <1>4, CompleteMisses
<1>5. CASE (\E x \in Invocations : HandlerReply(x)) \/ Terminated \/ UNCHANGED vars
  <2>1. UNCHANGED <<stateVars, loopVars, outcome, pc, at, batch, spent>>
    BY <1>5 DEF HandlerReply, HandlerReturns, Terminated, vars, sharedVars
  <2> QED
    BY <2>1, StandingStillMisses
<1> QED
  BY <1>1, <1>2, <1>3, <1>4, <1>5 DEF Next

\* Pending: over a document that lists first whatever may finish at once, no
\* walk misses a step, and no verdict leaves one behind.
THEOREM NothingIsMissed ==
    ASSUME ProducersFirst
    PROVE  Spec => []NothingMissed
<1>1. Init => NothingMissed
  BY InitMisses
<1>2. DispatchInOrder /\ NothingMissed /\ [Next]_vars => NothingMissed'
  BY NextMisses
<1> QED
  BY <1>1, <1>2, DispatchInvariantHolds, PTL DEF Spec

\* Config.ExecuteFunc: over such a document, nil with nothing in flight means
\* no more work, as the documentation promises of every document.
THEOREM NilIsTheEnd ==
    ASSUME ProducersFirst
    PROVE  Spec => []NilMeansNoMoreWork
<1>1. NothingMissed => NilMeansNoMoreWork
  BY DEF NothingMissed
<1> QED
  BY <1>1, NothingIsMissed, PTL

\* OnErrorContinue and failure, for a run its caller drives.
THEOREM DispatchReportsFailures ==
    ASSUME ProducersFirst
    PROVE  Spec => []FailuresAccountedFor
<1>1. DispatchInOrder /\ NothingMissed => FailuresAccountedFor
  BY DEF DispatchInOrder, NothingMissed, FailuresAccountedFor
<1> QED
  BY <1>1, DispatchInvariantHolds, NothingIsMissed, PTL

\* result: an honest verdict, for a run its caller drives.
THEOREM DispatchHonestResult ==
    ASSUME ProducersFirst
    PROVE  Spec => []ResultIsComplete
<1>1. NothingMissed => ResultIsComplete
  BY DEF NothingMissed
<1> QED
  BY <1>1, NothingIsMissed, PTL

-----------------------------------------------------------------------------
(* The caller-driven loop implements Dataflow.                             *)

LEMMA CollectImplements ==
    ASSUME DispatchInOrder, DispatchInOrder', Collect
    PROVE  [Promise!Next]_(Promise!vars)
<1>1. PICK x \in Invocations :
         /\ Pending(x)
         /\ \/ HandOver(x)
            \/ Record(x, CallError) /\ UNCHANGED workVars
  BY Collected
<1>2. /\ x[1] \in Steps /\ HasCapacity /\ outcome = "none" /\ outcome' = outcome
      /\ StateInOrder /\ StateInOrder'
  BY Collected, InvocationParts DEF DispatchInOrder
<1>3. CASE HandOver(x)
  BY <1>1, <1>2, <1>3, HandOverImplements DEF Promise!Next
<1>4. CASE Record(x, CallError) /\ UNCHANGED workVars
  BY <1>1, <1>2, <1>4, UnbuiltImplements DEF Promise!Next, workVars
<1> QED
  BY <1>1, <1>3, <1>4

LEMMA EndingImplements ==
    ASSUME DispatchInOrder, NothingMissed, DispatchInOrder', NothingMissed', Finish \/ Abandon
    PROVE  Promise!Return
<1>1. /\ UNCHANGED <<started, status, inflight>> /\ LoopTypeOK
      /\ outcome = "none" /\ outcome' # "none"
  BY StillOpen DEF Finish, Abandon, stateVars, workVars, DispatchInOrder, StateInOrder
<1>2. CASE Finish
  BY <1>1, <1>2, FinishedQuiet, ReturnImplements DEF Finish, NothingMissed
<1>3. CASE Abandon
  BY <1>1, <1>3, ReturnImplements DEF Abandon, Success, Suspended
<1> QED
  BY <1>2, <1>3

LEMMA NextImplements ==
    ASSUME DispatchInOrder, NothingMissed, DispatchInOrder', NothingMissed', [Next]_vars
    PROVE  [Promise!Next]_(Promise!vars)
<1>1. CASE StartReadyStep
  <2>1. PICK k \in at..Len(Order) : Startable(Order[k]) /\ StartStep(Order[k])
    BY <1>1 DEF StartReadyStep
  <2>2. Order[k] \in Steps /\ outcome = "none" /\ StateInOrder
    BY <1>1, OrderCovers, StillOpen DEF StartReadyStep, DispatchInOrder, ControlTypeOK
  <2> QED
    BY <2>1, <2>2, StartImplements DEF Promise!Next
<1>2. CASE Collect
  BY <1>2, CollectImplements
<1>3. ASSUME NEW x \in Invocations, Complete(x)
      PROVE  Promise!Next
  <2>1. Settle(x) /\ x \in inflight /\ outcome = "none" /\ StateInOrder /\ StateInOrder'
    BY <1>3, StillOpen DEF Complete, Settle, DispatchInOrder
  <2> QED
    BY <2>1, SettleImplements DEF Promise!Next
<1>4. CASE Finish \/ Abandon
  BY <1>4, EndingImplements DEF Promise!Next
<1>5. CASE \/ CallPending \/ EndStarting \/ NextStep \/ ReturnBatch \/ Terminated
           \/ UNCHANGED vars \/ \E x \in Invocations : HandlerReply(x)
  <2>1. UNCHANGED <<started, status, inflight, outcome>>
    BY <1>5 DEF CallPending, EndStarting, NextStep, ReturnBatch, Terminated, vars,
       HandlerReply, HandlerReturns, sharedVars, stateVars, workVars
  <2> QED
    BY <2>1, SameView
<1> QED
  BY <1>1, <1>2, <1>3, <1>4, <1>5 DEF Next

\* The caller-driven loop keeps every promise of the abstract run too: order
\* of steps, cap, single conclusion, and an honest verdict.
THEOREM DispatchImplements ==
    ASSUME ProducersFirst
    PROVE  Spec => ImplementsDataflow
<1>1. Init => Promise!Init
  BY InitImplements DEF Init
<1>2. DispatchInOrder /\ NothingMissed /\ DispatchInOrder' /\ NothingMissed' /\ [Next]_vars
         => [Promise!Next]_(Promise!vars)
  BY NextImplements
<1> QED
  BY <1>1, <1>2, DispatchInvariantHolds, NothingIsMissed, PTL
     DEF Spec, ImplementsDataflow, Promise!Spec
=============================================================================
