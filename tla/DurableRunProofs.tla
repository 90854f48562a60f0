-------------------------- MODULE DurableRunProofs --------------------------
(***************************************************************************)
(* The event loop and the runs that are resumed with it, for every plan,   *)
(* cap, failure policy, handler and fault.                                 *)
(*                                                                         *)
(* The first part is about RunLoop: LoopInvariant is inductive and implies *)
(* the driver's safety properties; what is recorded stays recorded; a      *)
(* stopped loop launches nothing; and every step is one that Dataflow      *)
(* allows or changes nothing Dataflow can see.  What a step does to the    *)
(* state both drivers share is proved in LoopStateProofs; here it remains  *)
(* to show where the loop's own control lets that step be taken.           *)
(*                                                                         *)
(* In the second part every loop Resume builds satisfies the invariant of  *)
(* the loop Run builds, whatever was persisted, injected, refused,         *)
(* cancelled or lost before.  The steps of a loop are those of RunLoop,    *)
(* whose proof is reused; what is new is that a RunState stays resumable   *)
(* through inject and rehydrateSteps, and that a loop built from one       *)
(* starts out in order.                                                    *)
(*                                                                         *)
(* The third part is about a run's whole life: what a caller persisted     *)
(* stays true of the run, as each step of DurableRun records something     *)
(* more or goes back to exactly what was persisted.                        *)
(***************************************************************************)
EXTENDS DurableRun, LoopStateProofs

(***************************************************************************)
(* The event loop.                                                         *)
(***************************************************************************)

LEMMA InitInvariant == ASSUME Init PROVE LoopInvariant
<1>1. StateInOrder /\ outcome = "none" /\ pc = "pass"
  BY InitInOrder DEF Init, LoopInit
<1>2. RunLoopTypeOK
  <2>1. 1 \in 1..(Len(Order) + 1) /\ 1 \in 1..(MaxWidth + 1)
    BY ConfigAssumption, OrderCovers
  <2> QED
    BY <1>1, <2>1 DEF RunLoopTypeOK, StateInOrder, Init
<1>3. PassComplete
  BY <1>1 DEF PassComplete, WaitsAtFixpoint
<1> QED
  BY <1>1, <1>2, <1>3, NoVerdict DEF LoopInvariant

\* A step of a loop that goes on: what is left to show when its state is in
\* order.
LEMMA GoesOn ==
    ASSUME LoopInvariant, StateInOrder', outcome' = "none",
           pc' \in {"pass", "starting", "launching", "waiting"},
           at' \in 1..(Len(Order) + 1), slot' \in 1..(MaxWidth + 1),
           progress' \in BOOLEAN, cancelled' = cancelled,
           pc' \in {"starting", "launching"} /\ ~progress' => at' = 1 /\ slot' = 1,
           pc' = "launching" /\ ~progress' => (\A s \in Steps : ~Startable(s))',
           WaitsAtFixpoint'
    PROVE  LoopInvariant'
<1>1. RunLoopTypeOK'
  BY DEF LoopInvariant, RunLoopTypeOK, StateInOrder
<1>2. PassComplete'
  BY DEF PassComplete
<1>3. ResultIsComplete'
  BY DEF ResultIsComplete, Success, Suspended
<1> QED
  BY <1>1, <1>2, <1>3 DEF LoopInvariant

LEMMA StillOpen == ASSUME LoopInvariant, pc # "returned" PROVE outcome = "none"
BY DEF LoopInvariant, PassComplete

LEMMA FirstPositions == 1 \in 1..(Len(Order) + 1) /\ 1 \in 1..(MaxWidth + 1)
BY OrderCovers, ConfigAssumption

-----------------------------------------------------------------------------
(* The dispatch passes.                                                    *)

LEMMA StartReadyStepPreserves ==
    ASSUME LoopInvariant, StartReadyStep
    PROVE  LoopInvariant'
<1>1. PICK k \in at..Len(Order) :
         Startable(Order[k]) /\ StartStep(Order[k]) /\ at' = k + 1
  BY DEF StartReadyStep
<1>2. /\ pc = "starting" /\ pc' = "starting" /\ progress' = TRUE
      /\ slot' = slot /\ cancelled' = cancelled /\ outcome' = outcome
  BY <1>1 DEF StartReadyStep, StartStep
<1>3. /\ Order[k] \in Steps
      /\ at' \in 1..(Len(Order) + 1) /\ slot' \in 1..(MaxWidth + 1)
  BY <1>1, <1>2, OrderCovers DEF LoopInvariant, RunLoopTypeOK
<1>4. outcome = "none"
  BY <1>2, StillOpen
<1>5. StateInOrder'
  BY <1>1, <1>3, <1>4, StartStepInOrder DEF LoopInvariant
<1>6. WaitsAtFixpoint'
  BY <1>2 DEF WaitsAtFixpoint
<1> QED
  BY <1>2, <1>3, <1>4, <1>5, <1>6, GoesOn

LEMMA LaunchPendingPreserves ==
    ASSUME LoopInvariant, LaunchPending
    PROVE  LoopInvariant'
<1>1. PICK k \in 1..Len(Order), i \in Slots :
         /\ NextPending(k, i)
         /\ HandOver(<<Order[k], i>>) \/ CallFails(<<Order[k], i>>)
         /\ at' = k /\ slot' = i + 1
  BY DEF LaunchPending
<1> DEFINE x == <<Order[k], i>>
<1>2. /\ x \in Invocations
      /\ at' \in 1..(Len(Order) + 1) /\ slot' \in 1..(MaxWidth + 1)
  BY <1>1, OrderCovers, InvocationParts
<1>3. /\ Pending(x) /\ HasCapacity
      /\ pc = "launching" /\ pc' = "launching"
      /\ progress' = TRUE /\ cancelled' = cancelled
  BY <1>1 DEF LaunchPending, NextPending
<1> HIDE DEF x
<1>4. outcome = "none" /\ outcome' = outcome
  BY <1>1, <1>3, StillOpen DEF HandOver, CallFails
<1>5. StateInOrder'
  <2>1. CASE HandOver(x)
    BY <1>2, <1>3, <1>4, <2>1, HandOverInOrder DEF LoopInvariant
  <2>2. CASE CallFails(x)
    BY <1>2, <1>3, <1>4, <2>2, UnbuiltInOrder DEF LoopInvariant, CallFails
  <2> QED
    BY <1>1, <2>1, <2>2 DEF x
<1>6. WaitsAtFixpoint'
  BY <1>3 DEF WaitsAtFixpoint
<1> QED
  BY <1>2, <1>3, <1>4, <1>5, <1>6, GoesOn

LEMMA ControlInOrder ==
    ASSUME LoopInvariant, UNCHANGED sharedVars
    PROVE  StateInOrder'
BY OtherStepsInOrder DEF LoopInvariant, StateInOrder, LoopTypeOK, sharedVars, workVars

LEMMA BeginPassPreserves == ASSUME LoopInvariant, BeginPass PROVE LoopInvariant'
<1>1. /\ UNCHANGED <<sharedVars, cancelled>>
      /\ pc = "pass" /\ at' = 1 /\ slot' = 1 /\ progress' = FALSE
      /\ pc' = (IF stopped THEN "waiting" ELSE "starting")
  BY DEF BeginPass
<1>2. StateInOrder' /\ outcome = "none" /\ outcome' = outcome /\ stopped' = stopped
  BY <1>1, ControlInOrder, StillOpen DEF sharedVars, loopVars
<1>3. WaitsAtFixpoint'
  BY <1>1, <1>2 DEF WaitsAtFixpoint
<1> QED
  BY <1>1, <1>2, <1>3, FirstPositions, GoesOn

\* A walk that started nothing has seen every step unstartable.
LEMMA EndStartingPreserves == ASSUME LoopInvariant, EndStarting PROVE LoopInvariant'
<1>1. /\ UNCHANGED <<sharedVars, progress, cancelled>>
      /\ pc = "starting" /\ pc' \in {"pass", "launching"} /\ at' = 1 /\ slot' = 1
      /\ \A k \in at..Len(Order) : ~Startable(Order[k])
  BY DEF EndStarting
<1>2. StateInOrder' /\ outcome = "none" /\ outcome' = outcome
  BY <1>1, ControlInOrder, StillOpen DEF sharedVars
<1>3. ~progress => \A s \in Steps : ~Startable(s)
  BY <1>1, OrderCovers DEF LoopInvariant, PassComplete
<1>4. ~progress => (\A s \in Steps : ~Startable(s))'
  BY <1>1, <1>3 DEF Startable, Ready, Produced, sharedVars, stateVars
<1>5. WaitsAtFixpoint' /\ progress' \in BOOLEAN
  BY <1>1 DEF WaitsAtFixpoint, LoopInvariant, RunLoopTypeOK
<1> QED
  BY <1>1, <1>2, <1>4, <1>5, FirstPositions, GoesOn

\* A walk that launched nothing either saw every invocation or had no capacity.
LEMMA EndLaunchingPreserves == ASSUME LoopInvariant, EndLaunching PROVE LoopInvariant'
<1>1. /\ UNCHANGED <<sharedVars, progress, cancelled>>
      /\ pc = "launching" /\ at' = 1 /\ slot' = 1
      /\ pc' = (IF progress THEN "pass" ELSE "waiting")
  BY DEF EndLaunching
<1>2. StateInOrder' /\ outcome = "none" /\ outcome' = outcome
  BY <1>1, ControlInOrder, StillOpen DEF sharedVars
<1>3. ASSUME ~progress
      PROVE  /\ \A s \in Steps : ~Startable(s)
             /\ HasCapacity => \A x \in Invocations : ~Pending(x)
  <2>1. at = 1 /\ slot = 1 /\ \A s \in Steps : ~Startable(s)
    BY <1>1, <1>3 DEF LoopInvariant, PassComplete
  <2>2. ~StepFinishedUnderWalk
    BY <2>1 DEF StepFinishedUnderWalk
  <2>3. ASSUME HasCapacity, NEW x \in Invocations
        PROVE  ~Pending(x)
    <3>1. PICK k \in 1..Len(Order) : Order[k] = x[1]
      BY OrderCovers, InvocationParts
    <3>2. x[2] \in Slots /\ x = <<Order[k], x[2]>>
      BY <3>1, InvocationParts
    <3>3. Ahead(k, x[2])
      BY <2>1, <3>1, <3>2, OrderCovers, InvocationParts DEF Ahead
    <3> QED
      BY <2>2, <2>3, <3>2, <3>3 DEF EndLaunching
  <2> QED
    BY <2>1, <2>3
<1>4. WaitsAtFixpoint'
  <2> SUFFICES ASSUME pc' = "waiting"
               PROVE  /\ (\A s \in Steps : ~Startable(s))'
                      /\ HasCapacity' => (\A x \in Invocations : ~Pending(x))'
    BY DEF WaitsAtFixpoint
  <2> QED
    BY <1>1, <1>3 DEF Startable, Ready, Produced, Pending, HasCapacity,
       sharedVars, stateVars, loopVars
<1>5. progress' \in BOOLEAN
  BY <1>1 DEF LoopInvariant, RunLoopTypeOK
<1> QED
  BY <1>1, <1>2, <1>4, <1>5, FirstPositions, GoesOn

-----------------------------------------------------------------------------
(* execute, the handlers and the caller.                                   *)

LEMMA ReceivePreserves == ASSUME LoopInvariant, Receive PROVE LoopInvariant'
<1>1. PICK x \in inflight : Settle(x)
  BY DEF Receive
<1>2. /\ pc = "waiting" /\ pc' = "pass" /\ outcome' = outcome
      /\ at' = at /\ slot' = slot /\ progress' = progress /\ cancelled' = cancelled
  BY <1>1 DEF Receive, Settle
<1>3. outcome = "none"
  BY <1>2, StillOpen
<1>4. StateInOrder'
  BY <1>1, <1>3, SettleInOrder DEF LoopInvariant
<1>5. WaitsAtFixpoint'
  BY <1>2 DEF WaitsAtFixpoint
<1> QED
  BY <1>2, <1>3, <1>4, <1>5, GoesOn DEF LoopInvariant, RunLoopTypeOK

\* A handler returning, the context being cancelled: the loop stays put.
LEMMA StandingStill ==
    ASSUME LoopInvariant, StateInOrder', cancelled' \in BOOLEAN,
           UNCHANGED <<stateVars, loopVars, outcome, controlVars>>
    PROVE  LoopInvariant'
<1>1. RunLoopTypeOK'
  BY DEF LoopInvariant, RunLoopTypeOK, StateInOrder, controlVars
<1>2. PassComplete'
  BY DEF LoopInvariant, PassComplete, WaitsAtFixpoint, Startable, Ready, Produced, Pending,
     HasCapacity, stateVars, loopVars, controlVars
<1>3. ResultIsComplete'
  BY SameVerdict DEF LoopInvariant
<1> QED
  BY <1>1, <1>2, <1>3 DEF LoopInvariant

LEMMA HandlerReplyPreserves ==
    ASSUME LoopInvariant, NEW x \in Invocations, HandlerReply(x)
    PROVE  LoopInvariant'
<1>1. StateInOrder'
  BY AnswerInOrder DEF HandlerReply, LoopInvariant
<1> QED
  BY <1>1, StandingStill DEF HandlerReply, HandlerReturns, LoopInvariant, RunLoopTypeOK

LEMMA CancelPreserves == ASSUME LoopInvariant, Cancel PROVE LoopInvariant'
<1>1. StateInOrder'
  BY ControlInOrder DEF Cancel
<1> QED
  BY <1>1, StandingStill DEF Cancel, sharedVars

LEMMA StutterPreserves == ASSUME LoopInvariant, UNCHANGED vars PROVE LoopInvariant'
<1>1. StateInOrder'
  BY ControlInOrder DEF vars
<1> QED
  BY <1>1, StandingStill DEF vars, sharedVars, LoopInvariant, RunLoopTypeOK

LEMMA DropResultPreserves ==
    ASSUME LoopInvariant, NEW x \in Invocations, DropResult(x)
    PROVE  LoopInvariant'
<1>1. /\ UNCHANGED <<stateVars, loopVars, outcome, controlVars, cancelled>>
      /\ x \in inflight /\ inflight' = inflight \ {x}
      /\ answer' = [answer EXCEPT ![x] = NoAnswer] /\ outcome # "none"
  BY DEF DropResult, LoopInvariant, PassComplete
<1>2. StateInOrder'
  BY <1>1, DropInOrder DEF LoopInvariant
<1> QED
  BY <1>1, <1>2, StandingStill DEF LoopInvariant, RunLoopTypeOK

\* A loop about to return has no handler out, and unless it was stopped
\* nothing it could start or launch.
LEMMA FinishedQuiet ==
    ASSUME LoopInvariant, Finish
    PROVE  /\ outcome = "none" /\ inflight = {}
           /\ ~stopped => /\ \A s \in Steps : ~Startable(s)
                          /\ \A x \in Invocations : ~Pending(x)
<1>1. pc = "waiting" /\ running = 0 /\ outcome = "none"
  BY StillOpen DEF Finish
<1>2. inflight = {}
  BY <1>1, FS_EmptySet DEF LoopInvariant, StateInOrder, HandlersCounted, RunningCountsHandlers
<1>3. HasCapacity
  BY <1>1, ConfigAssumption DEF HasCapacity
<1> QED
  BY <1>1, <1>2, <1>3 DEF LoopInvariant, PassComplete, WaitsAtFixpoint

LEMMA OutcomeGiven == RunOutcomes \subseteq Outcomes \ {"none"}
BY DEF RunOutcomes, Outcomes, PermanentFail, TemporaryFail, Suspended, Success

LEMMA ReturningPreserves ==
    ASSUME LoopInvariant, pc' = "returned", outcome' \in Outcomes \ {"none"},
           UNCHANGED <<stateVars, loopVars, workVars, at, slot, progress, cancelled>>,
           ResultIsComplete'
    PROVE  LoopInvariant'
<1>1. StateInOrder'
  BY OtherStepsInOrder DEF workVars, LoopInvariant, StateInOrder, LoopTypeOK
<1>2. RunLoopTypeOK'
  BY <1>1 DEF LoopInvariant, RunLoopTypeOK, StateInOrder
<1>3. PassComplete'
  BY DEF PassComplete, WaitsAtFixpoint
<1> QED
  BY <1>1, <1>2, <1>3 DEF LoopInvariant

LEMMA FinishPreserves == ASSUME LoopInvariant, Finish PROVE LoopInvariant'
<1>1. outcome' \in RunOutcomes /\ UNCHANGED stateVars
  BY DEF Finish
<1>2. ResultIsComplete'
  BY <1>1, FinishedQuiet, VerdictComplete DEF LoopInvariant
<1> QED
  BY <1>1, <1>2, OutcomeGiven, ReturningPreserves DEF Finish

LEMMA AbandonPreserves == ASSUME LoopInvariant, Abandon PROVE LoopInvariant'
<1>1. outcome' = "cancelled" /\ "cancelled" \in Outcomes \ {"none"}
  BY DEF Abandon, Outcomes
<1>2. ResultIsComplete'
  BY <1>1 DEF ResultIsComplete, Success, Suspended
<1> QED
  BY <1>1, <1>2, ReturningPreserves DEF Abandon

LEMMA NextPreserves == ASSUME LoopInvariant, [Next]_vars PROVE LoopInvariant'
<1>1. CASE Loop
  BY <1>1, BeginPassPreserves, StartReadyStepPreserves, EndStartingPreserves,
     LaunchPendingPreserves, EndLaunchingPreserves, ReceivePreserves, AbandonPreserves,
     FinishPreserves DEF Loop
<1>2. CASE \E x \in Invocations : HandlerReply(x) \/ DropResult(x)
  BY <1>2, HandlerReplyPreserves, DropResultPreserves
<1>3. CASE Cancel
  BY <1>3, CancelPreserves
<1>4. CASE Terminated \/ UNCHANGED vars
  BY <1>4, StutterPreserves DEF Terminated
<1> QED
  BY <1>1, <1>2, <1>3, <1>4 DEF Next

-----------------------------------------------------------------------------
(* The theorems.                                                           *)

\* Every reachable state of the event loop satisfies the invariant, whatever
\* the plan, the cap, the failure policy, the handlers' returns and the
\* faults are.
THEOREM InvariantHolds == Spec => []LoopInvariant
<1>1. Init => LoopInvariant
  BY InitInvariant
<1>2. LoopInvariant /\ [Next]_vars => LoopInvariant'
  BY NextPreserves
<1> QED
  BY <1>1, <1>2, PTL DEF Spec

\* Type correctness of the event loop's state.
THEOREM TypeCorrect == Spec => []RunLoopTypeOK
<1>1. LoopInvariant => RunLoopTypeOK
  BY DEF LoopInvariant
<1> QED
  BY <1>1, InvariantHolds, PTL

\* launch and execute: running is the number of handlers out, and never more
\* than MaxParallel of them are.
THEOREM HandlersBounded == Spec => [](RunningCountsHandlers /\ CapRespected)
<1>1. LoopInvariant => RunningCountsHandlers /\ CapRespected
  BY DEF LoopInvariant, StateInOrder, HandlersCounted
<1> QED
  BY <1>1, InvariantHolds, PTL

\* ready: no handler runs before every step it reads from has produced.
THEOREM DataflowOrder == Spec => []InputsProduced
<1>1. LoopInvariant => InputsProduced
  BY RunningFed DEF LoopInvariant
<1> QED
  BY <1>1, InvariantHolds, PTL

\* finishIfComplete: a step and its invocations never disagree.
THEOREM StepsAgree == Spec => []StepMatchesItsJobs
<1>1. LoopInvariant => StepMatchesItsJobs
  BY DEF LoopInvariant, StateInOrder
<1> QED
  BY <1>1, InvariantHolds, PTL

\* dispatch: the loop waits only when it has started and launched all it can.
THEOREM WaitsOnlyAtFixpoint == Spec => []WaitsAtFixpoint
<1>1. LoopInvariant => WaitsAtFixpoint
  BY DEF LoopInvariant, PassComplete
<1> QED
  BY <1>1, InvariantHolds, PTL

\* result: success leaves no step behind, suspension none without a reason,
\* and no run ends for want of an output.
THEOREM HonestResult == Spec => []ResultIsComplete
<1>1. LoopInvariant => ResultIsComplete
  BY DEF LoopInvariant
<1> QED
  BY <1>1, InvariantHolds, PTL

-----------------------------------------------------------------------------
(* No failure stops what does not need it, or goes unreported.             *)

FailureInvariant == FailuresRecorded /\ FailuresAccountedFor

LEMMA GoingOnAccounts ==
    ASSUME FailuresRecorded', outcome' \in {"none", "cancelled"}
    PROVE  FailureInvariant'
BY DEF FailureInvariant, FailuresAccountedFor, IndependentBranchesFinish, FailureOutranks,
       Failures, Success, Suspended, PermanentFail, TemporaryFail

LEMMA SameFailures ==
    ASSUME FailureInvariant, UNCHANGED <<stateVars, stopped, outcome>>
    PROVE  FailureInvariant'
<1>1. FailuresRecorded'
  BY DEF FailureInvariant, FailuresRecorded, stateVars
<1> QED
  BY <1>1, SameVerdict DEF FailureInvariant, FailuresAccountedFor

LEMMA FinishAccounts ==
    ASSUME LoopInvariant, FailureInvariant, Finish
    PROVE  FailureInvariant'
<1>1. outcome' \in RunOutcomes /\ UNCHANGED <<stateVars, loopVars>>
  BY DEF Finish
<1>2. FailuresRecorded'
  BY <1>1 DEF FailureInvariant, FailuresRecorded, stateVars, loopVars
<1>3. FailureOutranks'
  BY <1>1, VerdictOutranks DEF FailureInvariant, LoopInvariant, StateInOrder
<1>4. ContinueOnError => ~stopped
  BY DEF FailureInvariant, FailuresRecorded
<1>5. IndependentBranchesFinish'
  BY <1>1, <1>4, FinishedQuiet, BranchesFinish DEF LoopInvariant
<1> QED
  BY <1>2, <1>3, <1>5 DEF FailureInvariant, FailuresAccountedFor

LEMMA NextAccounts ==
    ASSUME LoopInvariant, FailureInvariant, [Next]_vars
    PROVE  FailureInvariant'
<1> USE DEF FailureInvariant
<1>1. CASE StartReadyStep
  <2>1. PICK k \in at..Len(Order) : Startable(Order[k]) /\ StartStep(Order[k])
    BY <1>1 DEF StartReadyStep
  <2>2. Order[k] \in Steps /\ outcome = "none"
    BY <1>1, OrderCovers, StillOpen DEF StartReadyStep, LoopInvariant, RunLoopTypeOK
  <2>3. FailuresRecorded'
    BY <2>1, <2>2, StartStepRecordsFailures DEF LoopInvariant
  <2> QED
    BY <2>1, <2>2, <2>3, GoingOnAccounts DEF StartStep
<1>2. CASE LaunchPending
  <2>1. PICK k \in 1..Len(Order), i \in Slots :
           HandOver(<<Order[k], i>>) \/ CallFails(<<Order[k], i>>)
    BY <1>2 DEF LaunchPending
  <2>2. CASE HandOver(<<Order[k], i>>)
    BY <2>2, SameFailures DEF HandOver
  <2>3. CASE CallFails(<<Order[k], i>>)
    <3>1. <<Order[k], i>> \in Invocations /\ outcome = "none"
      BY <1>2, OrderCovers, InvocationParts, StillOpen DEF LaunchPending
    <3>2. FailuresRecorded'
      BY <2>3, <3>1, RecordRecordsFailures DEF CallFails, LoopInvariant
    <3> QED
      BY <2>3, <3>1, <3>2, GoingOnAccounts DEF CallFails
  <2> QED
    BY <2>1, <2>2, <2>3
<1>3. CASE Receive
  <2>1. PICK x \in inflight : Settle(x)
    BY <1>3 DEF Receive
  <2>2. x \in Invocations /\ outcome = "none"
    BY <1>3, StillOpen DEF Receive, LoopInvariant, RunLoopTypeOK, LoopTypeOK
  <2>3. FailuresRecorded'
    BY <2>1, <2>2, RecordRecordsFailures DEF Settle, LoopInvariant
  <2> QED
    BY <2>1, <2>2, <2>3, GoingOnAccounts DEF Settle
<1>4. CASE Abandon
  <2>1. outcome' = "cancelled" /\ UNCHANGED <<stateVars, loopVars>>
    BY <1>4 DEF Abandon
  <2>2. FailuresRecorded'
    BY <2>1 DEF FailuresRecorded, stateVars, loopVars
  <2> QED
    BY <2>1, <2>2, GoingOnAccounts
<1>5. CASE Finish
  BY <1>5, FinishAccounts
<1>6. CASE \/ BeginPass \/ EndStarting \/ EndLaunching \/ Cancel \/ Terminated \/ UNCHANGED vars
           \/ \E x \in Invocations : HandlerReply(x) \/ DropResult(x)
  <2>1. UNCHANGED <<stateVars, stopped, outcome>>
    BY <1>6 DEF BeginPass, EndStarting, EndLaunching, Cancel, Terminated, vars,
       HandlerReply, HandlerReturns, DropResult, sharedVars, loopVars
  <2> QED
    BY <2>1, SameFailures
<1> QED
  BY <1>1, <1>2, <1>3, <1>4, <1>5, <1>6 DEF Next, Loop

\* OnErrorContinue and failure: what a failed run leaves unfinished needed a
\* step that failed or waits, and the run's verdict is its worst outcome.
THEOREM FailuresReported == Spec => []FailuresAccountedFor
<1>1. Init => FailureInvariant
  BY NoVerdict DEF Init, LoopInit, FailureInvariant, FailuresRecorded, FailuresAccountedFor
<1>2. LoopInvariant /\ FailureInvariant /\ [Next]_vars => FailureInvariant'
  BY NextAccounts
<1>3. FailureInvariant => FailuresAccountedFor
  BY DEF FailureInvariant
<1> QED
  BY <1>1, <1>2, <1>3, InvariantHolds, PTL DEF Spec

-----------------------------------------------------------------------------
(* Outcomes are final.                                                     *)

LEMMA NextKeepsOutcomes ==
    ASSUME LoopInvariant, [Next]_vars
    PROVE  KeepsOutcomes \/ UNCHANGED sharedVars
<1>1. CASE StartReadyStep
  <2>1. PICK k \in at..Len(Order) : Startable(Order[k]) /\ StartStep(Order[k])
    BY <1>1 DEF StartReadyStep
  <2>2. Order[k] \in Steps
    BY OrderCovers DEF LoopInvariant, RunLoopTypeOK
  <2> QED
    BY <2>1, <2>2, StartKeepsOutcomes DEF LoopInvariant
<1>2. CASE LaunchPending
  <2>1. PICK k \in 1..Len(Order), i \in Slots :
           NextPending(k, i) /\ (HandOver(<<Order[k], i>>) \/ CallFails(<<Order[k], i>>))
    BY <1>2 DEF LaunchPending
  <2>2. <<Order[k], i>> \in Invocations
    BY <2>1, OrderCovers, InvocationParts
  <2>3. CASE HandOver(<<Order[k], i>>)
    BY <2>3 DEF HandOver, stateVars, KeepsOutcomes
  <2>4. CASE CallFails(<<Order[k], i>>)
    <3>1. job[<<Order[k], i>>] = Unset /\ status[Order[k]] = Unset
      BY <2>1 DEF NextPending, Pending
    <3> QED
      BY <2>2, <2>4, <3>1, RecordKeepsOutcomes DEF CallFails, LoopInvariant, RunLoopTypeOK
  <2> QED
    BY <2>1, <2>3, <2>4
<1>3. CASE Receive
  <2>1. PICK x \in inflight : Settle(x)
    BY <1>3 DEF Receive
  <2>2. x \in Invocations /\ job[x] = Unset /\ status[x[1]] = Unset
    BY <1>3, StillOpen, InflightUnrecorded DEF Receive, LoopInvariant
  <2> QED
    BY <2>1, <2>2, RecordKeepsOutcomes DEF Settle, LoopInvariant, RunLoopTypeOK
<1>4. CASE BeginPass \/ EndStarting \/ EndLaunching \/ Abandon \/ Finish
  BY <1>4 DEF BeginPass, EndStarting, EndLaunching, Abandon, Finish, KeepsOutcomes, sharedVars, stateVars
<1>5. CASE \E x \in Invocations : HandlerReply(x) \/ DropResult(x)
  BY <1>5 DEF HandlerReply, HandlerReturns, DropResult, KeepsOutcomes, stateVars
<1>6. CASE Cancel \/ Terminated \/ UNCHANGED vars
  BY <1>6 DEF Cancel, Terminated, vars
<1> QED
  BY <1>1, <1>2, <1>3, <1>4, <1>5, <1>6 DEF Next, Loop

(* record and finishIfComplete: a finished step and a terminal invocation  *)
(* are never written again, whatever the plan and the handlers.            *)
THEOREM OutcomesStay == Spec => OutcomesAreFinal
<1>1. LoopInvariant /\ [Next]_vars => [KeepsOutcomes]_sharedVars
  BY NextKeepsOutcomes
<1>2. KeepsOutcomes =>
        /\ \A s \in Steps : status[s] # Unset => status'[s] = status[s]
        /\ \A x \in Invocations :
              x[2] <= width[x[1]] /\ Terminal(job[x]) => job'[x] = job[x]
  BY DEF KeepsOutcomes
<1> QED
  BY <1>1, <1>2, InvariantHolds, PTL DEF Spec, OutcomesAreFinal

-----------------------------------------------------------------------------
(* A stopped loop.                                                         *)

\* While no invocation can fail to be built, stopped is never set during the
\* launch walk, which begins only when it is not.
LaunchesUnstopped == "call" \notin Faults /\ pc = "launching" => ~stopped

LEMMA NextLaunchesUnstopped ==
    ASSUME LaunchesUnstopped, [Next]_vars
    PROVE  LaunchesUnstopped'
<1> USE DEF LaunchesUnstopped
<1>1. CASE LaunchPending
  BY <1>1 DEF LaunchPending, HandOver, CallFails
<1>2. CASE BeginPass \/ EndStarting \/ EndLaunching \/ Abandon \/ Finish \/ Receive \/ StartReadyStep
  BY <1>2 DEF BeginPass, EndStarting, EndLaunching, Abandon, Finish, Receive, StartReadyStep, sharedVars, loopVars
<1>3. CASE \E x \in Invocations : HandlerReply(x) \/ DropResult(x)
  BY <1>3 DEF HandlerReply, HandlerReturns, DropResult, loopVars, controlVars
<1>4. CASE Cancel \/ Terminated \/ UNCHANGED vars
  BY <1>4 DEF Cancel, Terminated, vars, sharedVars, loopVars, controlVars
<1> QED
  BY <1>1, <1>2, <1>3, <1>4 DEF Next, Loop

LEMMA StoppedLaunchesNothing ==
    ASSUME "call" \notin Faults, LaunchesUnstopped, [Next]_vars, stopped
    PROVE  inflight' \subseteq inflight
<1>1. CASE LaunchPending
  BY <1>1 DEF LaunchPending, LaunchesUnstopped
<1>2. CASE BeginPass \/ EndStarting \/ EndLaunching \/ Abandon \/ Finish
  BY <1>2 DEF BeginPass, EndStarting, EndLaunching, Abandon, Finish, sharedVars, workVars
<1>3. CASE StartReadyStep \/ Receive
  BY <1>3 DEF StartReadyStep, StartStep, Receive, Settle, workVars
<1>4. CASE \E x \in Invocations : HandlerReply(x) \/ DropResult(x)
  BY <1>4 DEF HandlerReply, HandlerReturns, DropResult
<1>5. CASE Cancel \/ Terminated \/ UNCHANGED vars
  BY <1>5 DEF Cancel, Terminated, vars, sharedVars, workVars
<1> QED
  BY <1>1, <1>2, <1>3, <1>4, <1>5 DEF Next, Loop

(* OnErrorStop: after the first failed step no invocation is handed to a   *)
(* handler, when every invocation can be built (launch, newCall).          *)
THEOREM StopHolds ==
    ASSUME "call" \notin Faults
    PROVE  Spec => StopLaunchesNothing
<1>1. Init => LaunchesUnstopped
  BY DEF Init, LaunchesUnstopped
<1>2. LaunchesUnstopped /\ [Next]_vars => LaunchesUnstopped'
  BY NextLaunchesUnstopped
<1>3. LaunchesUnstopped /\ [Next]_vars => [stopped => inflight' \subseteq inflight]_sharedVars
  BY StoppedLaunchesNothing
<1> QED
  BY <1>1, <1>2, <1>3, PTL DEF Spec, StopLaunchesNothing

-----------------------------------------------------------------------------
(* The loop implements Dataflow.                                           *)

LEMMA LaunchImplements ==
    ASSUME LoopInvariant, LoopInvariant', LaunchPending
    PROVE  [Promise!Next]_(Promise!vars)
<1>1. PICK k \in 1..Len(Order), i \in Slots :
         NextPending(k, i) /\ (HandOver(<<Order[k], i>>) \/ CallFails(<<Order[k], i>>))
  BY DEF LaunchPending
<1> DEFINE x == <<Order[k], i>>
<1>2. x \in Invocations /\ x[1] \in Steps /\ Pending(x)
  BY <1>1, OrderCovers, InvocationParts DEF NextPending
<1> HIDE DEF x
<1>3. HasCapacity /\ outcome = "none" /\ StateInOrder /\ StateInOrder'
  BY StillOpen DEF LaunchPending, LoopInvariant
<1>4. CASE HandOver(x)
  BY <1>2, <1>3, <1>4, HandOverImplements DEF Promise!Next
<1>5. CASE CallFails(x)
  <2>1. Record(x, CallError) /\ UNCHANGED <<inflight, outcome>>
    BY <1>5 DEF CallFails, workVars
  <2> QED
    BY <1>2, <1>3, <2>1, UnbuiltImplements DEF Promise!Next
<1> QED
  BY <1>1, <1>4, <1>5 DEF x

LEMMA EndingImplements ==
    ASSUME LoopInvariant, LoopInvariant', Finish \/ Abandon
    PROVE  Promise!Return
<1>1. /\ UNCHANGED <<started, status, inflight>> /\ LoopTypeOK
      /\ outcome = "none" /\ outcome' # "none"
  BY StillOpen DEF Finish, Abandon, stateVars, workVars, LoopInvariant, StateInOrder, PassComplete
<1>2. CASE Finish
  BY <1>1, <1>2, FinishedQuiet, ReturnImplements DEF Finish, LoopInvariant
<1>3. CASE Abandon
  BY <1>1, <1>3, ReturnImplements DEF Abandon, Success, Suspended
<1> QED
  BY <1>2, <1>3

\* The goroutine of a handler whose loop is gone ends: End, of no step's phase.
LEMMA DropImplements ==
    ASSUME NEW x \in Invocations, DropResult(x)
    PROVE  Promise!End(x)
<1>1. x \in inflight /\ inflight' = inflight \ {x} /\ phases' = phases /\ verdictOf' = verdictOf
  BY SamePhases DEF DropResult, stateVars, verdictOf
<1> QED
  BY <1>1 DEF Promise!End, phases

LEMMA NextImplements ==
    ASSUME LoopInvariant, LoopInvariant', [Next]_vars
    PROVE  [Promise!Next]_(Promise!vars)
<1> USE DEF LoopInvariant
<1>1. CASE StartReadyStep
  <2>1. PICK k \in at..Len(Order) : Startable(Order[k]) /\ StartStep(Order[k])
    BY <1>1 DEF StartReadyStep
  <2>2. Order[k] \in Steps /\ outcome = "none"
    BY <1>1, OrderCovers, StillOpen DEF StartReadyStep, RunLoopTypeOK
  <2> QED
    BY <2>1, <2>2, StartImplements DEF Promise!Next
<1>2. CASE LaunchPending
  BY <1>2, LaunchImplements
<1>3. CASE Receive
  <2>1. PICK x \in inflight : Settle(x)
    BY <1>3 DEF Receive
  <2>2. outcome = "none" /\ x \in Invocations
    BY <1>3, StillOpen, InflightUnrecorded DEF Receive
  <2> QED
    BY <2>1, <2>2, SettleImplements DEF Promise!Next
<1>4. CASE Finish \/ Abandon
  BY <1>4, EndingImplements DEF Promise!Next
<1>5. CASE \E x \in Invocations : DropResult(x)
  BY <1>5, DropImplements DEF Promise!Next
<1>6. CASE \/ BeginPass \/ EndStarting \/ EndLaunching \/ Cancel \/ Terminated \/ UNCHANGED vars
           \/ \E x \in Invocations : HandlerReply(x)
  <2>1. UNCHANGED <<started, status, inflight, outcome>>
    BY <1>6 DEF BeginPass, EndStarting, EndLaunching, Cancel, Terminated, vars,
       HandlerReply, HandlerReturns, sharedVars, stateVars, workVars
  <2> QED
    BY <2>1, SameView
<1> QED
  BY <1>1, <1>2, <1>3, <1>4, <1>5, <1>6 DEF Next, Loop

(* The event loop implements the abstract run: steps become active in      *)
(* dataflow order and conclude once, with no invocation of them executing; *)
(* the cap holds; the verdict agrees with the steps.  For every plan, cap, *)
(* policy, handler and fault.                                              *)
THEOREM Implementation == Spec => ImplementsDataflow
<1>1. Init => Promise!Init
  BY InitImplements DEF Init
<1>2. LoopInvariant /\ LoopInvariant' /\ [Next]_vars => [Promise!Next]_(Promise!vars)
  BY NextImplements
<1> QED
  BY <1>1, <1>2, InvariantHolds, PTL DEF Spec, ImplementsDataflow, Promise!Spec

(***************************************************************************)
(* Resumed runs.                                                           *)
(***************************************************************************)

\* clone: a loop in order leaves a state that can be resumed.
LEMMA SnapshotResumable == ASSUME StateInOrder PROVE ResumableState(Snapshot)
<1> USE DEF StateInOrder
<1>1. Snapshot \in RunStates
  BY DEF Snapshot, RunStates, LoopTypeOK
<1>2. ASSUME NEW s \in Steps
      PROVE  /\ ~started[s] => status[s] = Unset /\ width[s] = 0
             /\ started[s] => \A d \in Deps[s] : status[d] \in {Success, Skipped}
             /\ status[s] \in {Success, Skipped} =>
                   \A i \in 1..width[s] : job[<<s, i>>] \in {Success, Skipped}
  BY DEF StepsInOrder, StepMatchesItsJobs, Ready, Produced, Success, Skipped, Unset
<1>3. ASSUME NEW x \in Invocations
      PROVE  /\ job[x] = Suspended <=> x \in suspensions
             /\ x \in suspensions => started[x[1]] /\ x[2] <= width[x[1]]
  BY DEF SuspensionsKept
<1> QED
  BY <1>1, <1>2, <1>3 DEF ResumableState, Snapshot

\* injectOne: an answer replaces a suspension and nothing else.
LEMMA InjectedResumable ==
    ASSUME NEW r, ResumableState(r),
           NEW A \in SUBSET Answerable(r), NEW answers \in [A -> AnswerStatuses]
    PROVE  /\ ResumableState(Injected(r, answers))
           /\ Interrupted(Injected(r, answers)) = Interrupted(r)
<1> DEFINE q == Injected(r, answers)
<1>1. /\ q.started = r.started /\ q.status = r.status /\ q.width = r.width
      /\ q.job = [x \in Invocations |-> IF x \in A THEN answers[x] ELSE r.job[x]]
      /\ q.suspensions = r.suspensions \ A
  BY DEF Injected, ResumableState, RunStates
<1>2. \A x \in A : answers[x] \in {Success, Skipped, PermanentFail, TemporaryFail}
  BY DurableAssumption
<1>3. \A x \in A : x \in Invocations /\ r.job[x] = Suspended /\ x[2] <= r.width[x[1]]
  BY DEF Answerable
<1>4. q.job \in [Invocations -> JobStatus]
  <2>1. \A x \in A : answers[x] \in JobStatus
    BY <1>2 DEF JobStatus, Statuses, Failures
  <2>2. r.job \in [Invocations -> JobStatus]
    BY DEF ResumableState, RunStates
  <2> QED
    BY <1>1, <2>1, <2>2
<1>5. q \in RunStates
  BY <1>1, <1>4 DEF Injected, ResumableState, RunStates
<1>6. ASSUME NEW s \in Steps, q.status[s] \in {Success, Skipped}, NEW i \in 1..q.width[s]
      PROVE  q.job[<<s, i>>] \in {Success, Skipped}
  <2>1. r.job[<<s, i>>] \in {Success, Skipped}
    BY <1>1, <1>6 DEF ResumableState
  <2>2. <<s, i>> \in Invocations
    <3>1. q.width[s] \in 0..MaxWidth
      BY <1>5 DEF RunStates
    <3> QED
      BY <3>1, InvocationParts
  <2>3. <<s, i>> \notin A
    BY <2>1, <1>3 DEF Success, Skipped, Suspended
  <2> QED
    BY <1>1, <2>1, <2>2, <2>3
<1>7. ASSUME NEW x \in Invocations
      PROVE  /\ q.job[x] = Suspended <=> x \in q.suspensions
             /\ x \in q.suspensions => q.started[x[1]] /\ x[2] <= q.width[x[1]]
  BY <1>1, <1>2 DEF ResumableState, Success, Skipped, PermanentFail, TemporaryFail, Suspended
<1>8. ASSUME NEW s \in Steps
      PROVE  /\ ~q.started[s] => q.status[s] = Unset /\ q.width[s] = 0
             /\ q.started[s] => \A d \in Deps[s] : q.status[d] \in {Success, Skipped}
  BY <1>1 DEF ResumableState
<1>9. ResumableState(q)
  BY <1>5, <1>6, <1>7, <1>8 DEF ResumableState
<1> QED
  BY <1>1, <1>9 DEF Interrupted

\* gateJobs: a skip is the outcome of an invocation that had none.
LEMMA RegatedResumable ==
    ASSUME NEW r, ResumableState(r), NEW S \in SUBSET Interrupted(r),
           NEW skip \in SUBSET Regatable(r, S)
    PROVE  /\ ResumableState(Regated(r, skip))
           /\ Interrupted(Regated(r, skip)) = Interrupted(r)
           /\ \A x \in Invocations : ~Terminal(Regated(r, skip).job[x]) => ~Terminal(r.job[x])
<1> DEFINE q == Regated(r, skip)
<1>1. /\ q.started = r.started /\ q.status = r.status /\ q.width = r.width
      /\ q.job = [x \in Invocations |-> IF x \in skip THEN Skipped ELSE r.job[x]]
      /\ q.suspensions = r.suspensions
  BY DEF Regated, ResumableState, RunStates
<1>2. \A x \in skip : x \in Invocations /\ r.job[x] = Unset
  BY DEF Regatable
<1>3. q.job \in [Invocations -> JobStatus]
  BY <1>1 DEF ResumableState, RunStates, JobStatus, Statuses
<1>4. q \in RunStates
  BY <1>1, <1>3 DEF Regated, ResumableState, RunStates
<1>5. ASSUME NEW s \in Steps, q.status[s] \in {Success, Skipped}, NEW i \in 1..q.width[s]
      PROVE  q.job[<<s, i>>] \in {Success, Skipped}
  <2>1. r.job[<<s, i>>] \in {Success, Skipped}
    BY <1>1, <1>5 DEF ResumableState
  <2>2. <<s, i>> \in Invocations
    <3>1. q.width[s] \in 0..MaxWidth
      BY <1>4 DEF RunStates
    <3> QED
      BY <3>1, InvocationParts
  <2> QED
    BY <1>1, <2>1, <2>2
<1>6. ASSUME NEW x \in Invocations
      PROVE  /\ q.job[x] = Suspended <=> x \in q.suspensions
             /\ x \in q.suspensions => q.started[x[1]] /\ x[2] <= q.width[x[1]]
  <2>1. /\ r.job[x] = Suspended <=> x \in r.suspensions
        /\ x \in r.suspensions => r.started[x[1]] /\ x[2] <= r.width[x[1]]
    BY DEF ResumableState
  <2>2. q.job[x] = (IF x \in skip THEN Skipped ELSE r.job[x])
    BY <1>1
  <2>3. q.job[x] = Suspended <=> r.job[x] = Suspended
    BY <2>2, <1>2 DEF Skipped, Unset, Suspended
  <2> QED
    BY <1>1, <2>1, <2>3
<1>7. ASSUME NEW s \in Steps
      PROVE  /\ ~q.started[s] => q.status[s] = Unset /\ q.width[s] = 0
             /\ q.started[s] => \A d \in Deps[s] : q.status[d] \in {Success, Skipped}
  BY <1>1 DEF ResumableState
<1>8. ResumableState(q)
  BY <1>4, <1>5, <1>6, <1>7 DEF ResumableState
<1>9. \A x \in Invocations : ~Terminal(q.job[x]) => ~Terminal(r.job[x])
  BY <1>1, <1>2 DEF Terminal, Skipped, Unset, Suspended
<1> QED
  BY <1>1, <1>8, <1>9 DEF Interrupted

\* finishIfComplete: a step gets a status when, and only when, its last
\* invocation has an outcome.
LEMMA FinishedResumable ==
    ASSUME NEW r, ResumableState(r), NEW S \in SUBSET Interrupted(r)
    PROVE  /\ ResumableState(Finished(r, S))
           /\ \A s \in S : Finished(r, S).status[s] = Unset
                              <=> \E i \in 1..r.width[s] : ~Terminal(r.job[<<s, i>>])
<1> DEFINE q == Finished(r, S)
<1>1. /\ q.started = r.started /\ q.width = r.width
      /\ q.job = r.job /\ q.suspensions = r.suspensions
      /\ q.status = [s \in Steps |->
            IF s \in S THEN CompletedStatus(s, r.width[s], r.job) ELSE r.status[s]]
  BY DEF Finished, ResumableState, RunStates
<1>2. S \subseteq Steps /\ \A s \in S : r.started[s] /\ r.status[s] = Unset
  BY DEF Interrupted
<1>3. ASSUME NEW s \in S
      PROVE  /\ q.status[s] \in StepStatus
             /\ (q.status[s] = Unset) <=> ~AllTerminal(s, r.width[s], r.job)
             /\ q.status[s] \in {Success, Skipped} =>
                   \A i \in 1..r.width[s] : r.job[<<s, i>>] \in {Success, Skipped}
  <2>1. s \in Steps /\ r.width[s] \in 0..MaxWidth /\ r.job \in [Invocations -> JobStatus]
    BY <1>2 DEF ResumableState, RunStates
  <2>2. q.status[s] = CompletedStatus(s, r.width[s], r.job)
    BY <1>1, <2>1
  <2> QED
    BY <2>1, <2>2, CompletedStatusFacts
<1>4. \A s \in Steps \ S : q.status[s] = r.status[s]
  BY <1>1
<1>5. q.status \in [Steps -> StepStatus]
  <2>1. \A s \in Steps : q.status[s] \in StepStatus
    BY <1>3, <1>4 DEF ResumableState, RunStates
  <2> QED
    BY <1>1, <2>1
<1>6. q \in RunStates
  BY <1>1, <1>5 DEF Finished, ResumableState, RunStates
<1>7. ASSUME NEW s \in Steps
      PROVE  /\ ~q.started[s] => q.status[s] = Unset /\ q.width[s] = 0
             /\ q.status[s] \in {Success, Skipped} =>
                   \A i \in 1..q.width[s] : q.job[<<s, i>>] \in {Success, Skipped}
  <2>1. CASE s \in S
    BY <1>1, <1>2, <1>3, <2>1
  <2>2. CASE s \notin S
    <3>1. q.status[s] = r.status[s]
      BY <1>4, <2>2
    <3> QED
      BY <1>1, <3>1 DEF ResumableState
  <2> QED
    BY <2>1, <2>2
<1>8. ASSUME NEW s \in Steps, q.started[s], NEW d \in Deps[s]
      PROVE  q.status[d] \in {Success, Skipped}
  <2>1. d \in Steps /\ r.status[d] \in {Success, Skipped}
    BY <1>1, <1>8, PlanAssumption DEF ResumableState
  <2>2. d \notin S
    BY <2>1, <1>2 DEF Success, Skipped, Unset
  <2> QED
    BY <2>1, <2>2, <1>4
<1>9. ResumableState(q)
  BY <1>1, <1>6, <1>7, <1>8 DEF ResumableState
<1> QED
  BY <1>3, <1>9 DEF AllTerminal

-----------------------------------------------------------------------------
(* The steps of DurableNext.                                               *)

\* The sets of answers Resume and its refusals range over.
LEMMA AnswersAddressSuspensions ==
    ASSUME NEW answers \in Answers
    PROVE  \E A \in SUBSET Answerable(saved) : answers \in [A -> AnswerStatuses]
BY DEF Answers

\* Installed state and Snapshot are the same thing.
LEMMA InstalledSnapshot ==
    ASSUME NEW r, r \in RunStates, Install(r)
    PROVE  Snapshot' = r
BY DEF Install, Snapshot, RunStates

\* Resume: the new loop is in order.
LEMMA ResumePreserves ==
    ASSUME DurableInvariant, NEW answers \in Answers, Resume(answers)
    PROVE  DurableInvariant'
<1>1. PICK A \in SUBSET Answerable(saved) : answers \in [A -> AnswerStatuses]
  BY AnswersAddressSuspensions
<1> DEFINE r == Injected(saved, answers)
<1>2. PICK skip \in SUBSET Regatable(r, Unfinished(r)) :
        /\ Install(Finished(Regated(r, skip), Interrupted(r)))
        /\ stopped' = (~ContinueOnError
              /\ \E s \in Interrupted(r) :
                    Finished(Regated(r, skip), Interrupted(r)).status[s] \in Failures)
  BY DEF Resume
<1> DEFINE g == Regated(r, skip)
           f == Finished(g, Interrupted(r))
<1>3. /\ expanded' = Unfinished(r)
      /\ dispatched' = {} /\ running' = 0 /\ inflight' = {}
      /\ answer' = [x \in Invocations |-> NoAnswer]
      /\ outcome' = "none" /\ cancelled' = FALSE
      /\ pc' = "pass" /\ at' = 1 /\ slot' = 1 /\ progress' = FALSE
      /\ saved' = saved
  BY DEF Resume
<1>4. ResumableState(r)
  BY <1>1, InjectedResumable DEF DurableInvariant
<1>5. /\ ResumableState(g) /\ Interrupted(g) = Interrupted(r)
      /\ \A x \in Invocations : ~Terminal(g.job[x]) => ~Terminal(r.job[x])
  <2>1. Unfinished(r) \in SUBSET Interrupted(r)
    BY DEF Unfinished
  <2> QED
    BY <1>4, <2>1, RegatedResumable
<1>6. /\ ResumableState(f)
      /\ \A s \in Interrupted(g) :
            f.status[s] = Unset <=> \E i \in 1..g.width[s] : ~Terminal(g.job[<<s, i>>])
  BY <1>5, FinishedResumable
<1>7. /\ f.started = r.started /\ f.width = r.width
      /\ f.width = g.width /\ f.job = g.job /\ g.status = r.status
      /\ \A s \in Steps \ Interrupted(r) : f.status[s] = r.status[s]
  BY <1>4, <1>5 DEF Finished, Regated, ResumableState, RunStates
<1>8. /\ started' = f.started /\ status' = f.status /\ width' = f.width
      /\ job' = f.job /\ suspensions' = f.suspensions
  BY <1>2 DEF Install
<1> HIDE DEF f, g, r
<1>9. RunLoopTypeOK'
  <2>1. expanded' \subseteq Steps
    BY <1>3 DEF Unfinished, Interrupted
  <2>2. stopped' \in BOOLEAN
    BY <1>2
  <2>3. MaxWidth \in Nat /\ Len(Order) \in Nat
    BY ConfigAssumption, PlanAssumption
  <2>4. answer' \in [Invocations -> Returns \union {NoAnswer}]
    BY <1>3
  <2>5. /\ started' \in [Steps -> BOOLEAN] /\ status' \in [Steps -> StepStatus]
        /\ width' \in [Steps -> 0..MaxWidth] /\ job' \in [Invocations -> JobStatus]
        /\ suspensions' \subseteq Invocations
    BY <1>6, <1>8 DEF ResumableState, RunStates
  <2>6. LoopTypeOK'
    BY <1>3, <2>1, <2>2, <2>4, <2>5 DEF LoopTypeOK, Outcomes
  <2>7. 1 \in 1..(Len(Order) + 1) /\ 1 \in 1..(MaxWidth + 1)
    BY <2>3
  <2> QED
    BY <1>3, <2>6, <2>7 DEF RunLoopTypeOK
<1>10. HandlersCounted' /\ HandlersAwaited'
  <2>1. IsFiniteSet({}) /\ Cardinality({}) = 0
    BY FS_EmptySet
  <2>2. MaxParallel \in Nat
    BY ConfigAssumption
  <2>3. HandlersCounted'
    BY <1>3, <2>1, <2>2 DEF HandlersCounted, RunningCountsHandlers, CapRespected
  <2> QED
    BY <1>3, <2>3 DEF HandlersAwaited
<1>11. ASSUME NEW s \in Steps, started'[s], status'[s] = Unset
       PROVE  /\ s \in expanded'
              /\ \E i \in 1..width'[s] : ~Terminal(job'[<<s, i>>])
  <2>1. s \in Interrupted(r)
    BY <1>7, <1>8, <1>11 DEF Interrupted
  <2>2. PICK i \in 1..g.width[s] : ~Terminal(g.job[<<s, i>>])
    BY <1>5, <1>6, <1>8, <1>11, <2>1
  <2>3. <<s, i>> \in Invocations
    <3>1. g.width[s] \in 0..MaxWidth
      BY <1>5 DEF ResumableState, RunStates
    <3> QED
      BY <3>1, InvocationParts
  <2>4. ~Terminal(r.job[<<s, i>>])
    BY <1>5, <2>2, <2>3
  <2> QED
    BY <1>3, <1>7, <1>8, <2>1, <2>2, <2>4 DEF Unfinished
<1>12. StepsInOrder'
  BY <1>3, <1>6, <1>8, <1>11 DEF StepsInOrder, ResumableState, Ready, Produced
<1>13. StepMatchesItsJobs'
  BY <1>6, <1>8, <1>11 DEF StepMatchesItsJobs, ResumableState, Produced, Unset, Success, Skipped
<1>14. SuspensionsKept'
  BY <1>6, <1>8 DEF SuspensionsKept, ResumableState
<1>15. StoppedByFailure'
  BY <1>2, <1>8 DEF StoppedByFailure, Interrupted, f, g
<1>16. PassComplete' /\ ResultIsComplete'
  BY <1>3 DEF PassComplete, WaitsAtFixpoint, ResultIsComplete, Success, Suspended
<1>17. LoopInvariant'
  BY <1>9, <1>10, <1>12, <1>13, <1>14, <1>15, <1>16 DEF LoopInvariant, StateInOrder, RunLoopTypeOK
<1>18. ResumableState(Snapshot)'
  <2>1. Snapshot' = f
    BY <1>6, <1>8 DEF Snapshot, ResumableState, RunStates
  <2>2. ResumableState(Snapshot')
    BY <2>1, <1>6
  <2> QED
    BY <2>2 DEF ResumableState, RunStates
<1> QED
  BY <1>3, <1>17, <1>18 DEF DurableInvariant, ResumableState, RunStates

\* A Resume that is refused hands back a state that can be resumed.
LEMMA RefusedPreserves ==
    ASSUME DurableInvariant, NEW r, ResumableState(r), Refused(r)
    PROVE  DurableInvariant'
<1>1. Install(r) /\ outcome' = "refused" /\ pc' = "returned" /\ saved' = saved
  BY DEF Refused, CallerReady, controlVars
<1>2. Snapshot' = r
  BY <1>1, InstalledSnapshot DEF ResumableState
<1>3. ResumableState(Snapshot')
  BY <1>2
<1> QED
  BY <1>1, <1>3 DEF DurableInvariant, ResumableState, RunStates

LEMMA InjectRefusesPreserves ==
    ASSUME DurableInvariant, NEW answers \in Answers, InjectRefuses(answers)
    PROVE  DurableInvariant'
<1>1. PICK A \in SUBSET Answerable(saved) : answers \in [A -> AnswerStatuses]
  BY AnswersAddressSuspensions
<1>2. ResumableState(Injected(saved, answers))
  BY <1>1, InjectedResumable DEF DurableInvariant
<1> QED
  BY <1>2, RefusedPreserves DEF InjectRefuses

\* The steps restarted before the one that fails may have finished.
LEMMA RestartRefusesPreserves ==
    ASSUME DurableInvariant, NEW answers \in Answers, NEW s \in Steps,
           RestartRefuses(answers, s)
    PROVE  DurableInvariant'
<1>1. PICK A \in SUBSET Answerable(saved) : answers \in [A -> AnswerStatuses]
  BY AnswersAddressSuspensions
<1> DEFINE r == Injected(saved, answers)
           earlier == Interrupted(r) \intersect Before(s)
           regated == (Unfinished(r) \intersect Before(s)) \union {s}
<1>2. ResumableState(r)
  BY <1>1, InjectedResumable DEF DurableInvariant
<1>3. s \in Unfinished(r)
  BY DEF RestartRefuses
<1>4. PICK skip \in SUBSET Regatable(r, regated) : Refused(Finished(Regated(r, skip), earlier))
  BY DEF RestartRefuses
<1>5. regated \in SUBSET Interrupted(r)
  BY <1>3 DEF Unfinished
<1>6. ResumableState(Regated(r, skip)) /\ Interrupted(Regated(r, skip)) = Interrupted(r)
  BY <1>2, <1>5, RegatedResumable
<1>7. ResumableState(Finished(Regated(r, skip), earlier))
  BY <1>6, FinishedResumable
<1> QED
  BY <1>4, <1>7, RefusedPreserves

\* What the caller stores is what it was handed.
LEMMA PersistPreserves == ASSUME DurableInvariant, Persist PROVE DurableInvariant'
<1>1. saved' = Snapshot /\ UNCHANGED vars
  BY DEF Persist
<1>2. Snapshot' = Snapshot
  BY <1>1 DEF Snapshot, vars, sharedVars, stateVars
<1>3. ResumableState(saved') /\ ResumableState(Snapshot')
  BY <1>1, <1>2 DEF DurableInvariant
<1>4. outcome' = outcome /\ pc' = pc
  BY <1>1 DEF vars, sharedVars, controlVars
<1>5. ASSUME outcome' \notin {"lost", "refused"} PROVE LoopInvariant'
  BY <1>1, <1>4, <1>5, StutterPreserves DEF DurableInvariant
<1> QED
  BY <1>3, <1>4, <1>5 DEF DurableInvariant, ResumableState, RunStates

\* A crash leaves the caller with what it had stored.
LEMMA CrashPreserves == ASSUME DurableInvariant, Crash PROVE DurableInvariant'
<1>1. Install(saved) /\ outcome' = "lost" /\ pc' = "returned" /\ saved' = saved
  BY DEF Crash
<1>2. Snapshot' = saved
  BY <1>1, InstalledSnapshot DEF DurableInvariant, ResumableState
<1>3. ResumableState(Snapshot')
  BY <1>2 DEF DurableInvariant
<1> QED
  BY <1>1, <1>3 DEF DurableInvariant, ResumableState, RunStates

\* The loop that runs takes the steps RunLoop takes; when none runs, only
\* handlers no one listens to are left.
LEMMA SegmentPreserves ==
    ASSUME DurableInvariant, saved' = saved, [Next]_vars,
           Loop \/ (\E x \in Invocations : HandlerReply(x) \/ DropResult(x)) \/ Cancel
    PROVE  DurableInvariant'
<1>1. CASE outcome \notin {"lost", "refused"}
  <2>1. LoopInvariant'
    BY <1>1, NextPreserves DEF DurableInvariant
  <2>2. ResumableState(Snapshot)'
    <3>1. StateInOrder'
      BY <2>1 DEF LoopInvariant
    <3> QED
      BY <3>1, SnapshotResumable, PTL
  <2>3. outcome' \notin {"lost", "refused"}
    BY <1>1, <2>1
       DEF Loop, BeginPass, StartReadyStep, StartStep, EndStarting, LaunchPending, HandOver,
           CallFails, EndLaunching, Receive, Settle, Abandon, Finish, RunOutcomes,
           HandlerReply, HandlerReturns, DropResult, Cancel, sharedVars,
           PermanentFail, TemporaryFail, Suspended, Success
  <2> QED
    BY <2>1, <2>2, <2>3 DEF DurableInvariant, ResumableState, RunStates
<1>2. CASE outcome \in {"lost", "refused"}
  <2>1. pc = "returned"
    BY <1>2 DEF DurableInvariant
  <2>2. \E x \in Invocations : HandlerReply(x) \/ DropResult(x)
    BY <2>1 DEF Loop, BeginPass, StartReadyStep, EndStarting, LaunchPending, EndLaunching,
       Receive, Abandon, Finish, Cancel
  <2>3. UNCHANGED <<stateVars, outcome, pc>>
    BY <2>2 DEF HandlerReply, HandlerReturns, DropResult, controlVars
  <2>4. Snapshot' = Snapshot
    BY <2>3 DEF Snapshot, stateVars
  <2>5. ResumableState(Snapshot')
    BY <2>4 DEF DurableInvariant
  <2> QED
    BY <1>2, <2>3, <2>5 DEF DurableInvariant, ResumableState, RunStates
<1> QED
  BY <1>1, <1>2

LEMMA UnchangedKeepsDurable ==
    ASSUME DurableInvariant, UNCHANGED vars, saved' = saved
    PROVE  DurableInvariant'
<1>1. Snapshot' = Snapshot /\ outcome' = outcome /\ pc' = pc
  BY DEF Snapshot, vars, sharedVars, stateVars, controlVars
<1>2. ResumableState(saved') /\ ResumableState(Snapshot')
  BY <1>1 DEF DurableInvariant
<1>3. ASSUME outcome' \notin {"lost", "refused"} PROVE LoopInvariant'
  BY <1>1, <1>3, StutterPreserves DEF DurableInvariant
<1> QED
  BY <1>1, <1>2, <1>3 DEF DurableInvariant, ResumableState, RunStates

LEMMA InitDurable == ASSUME DurableInit PROVE DurableInvariant
<1>1. LoopInvariant /\ saved = Snapshot
  BY InitInvariant DEF DurableInit
<1>2. outcome = "none"
  BY DEF DurableInit, Init, LoopInit
<1>3. ResumableState(Snapshot)
  BY <1>1, SnapshotResumable DEF LoopInvariant
<1> QED
  BY <1>1, <1>2, <1>3 DEF DurableInvariant

-----------------------------------------------------------------------------
(* The theorem.                                                            *)

\* Resume: every loop of a run satisfies RunLoop's invariant and every state
\* a caller can hold can be resumed, whatever was answered, refused,
\* cancelled or lost before.
THEOREM DurableInvariantHolds == DurableSpec => []DurableInvariant
<1>1. DurableInit => DurableInvariant
  BY InitDurable
<1>2. DurableInvariant /\ [DurableNext]_durableVars => DurableInvariant'
  <2> SUFFICES ASSUME DurableInvariant, [DurableNext]_durableVars PROVE DurableInvariant'
    OBVIOUS
  <2>1. CASE Segment
    BY <2>1, SegmentPreserves DEF Segment, Next
  <2>2. CASE CancelRun
    BY <2>2, SegmentPreserves DEF CancelRun, Next
  <2>3. CASE Persist
    BY <2>3, PersistPreserves
  <2>4. CASE Crash
    BY <2>4, CrashPreserves
  <2>5. ASSUME NEW answers \in Answers, Resume(answers) PROVE DurableInvariant'
    BY <2>5, ResumePreserves
  <2>6. ASSUME NEW answers \in Answers, InjectRefuses(answers) PROVE DurableInvariant'
    BY <2>6, InjectRefusesPreserves
  <2>7. ASSUME NEW answers \in Answers, NEW s \in Steps, RestartRefuses(answers, s)
        PROVE  DurableInvariant'
    BY <2>7, RestartRefusesPreserves
  <2>8. CASE UNCHANGED durableVars
    BY <2>8, UnchangedKeepsDurable DEF durableVars
  <2> QED
    BY <2>1, <2>2, <2>3, <2>4, <2>5, <2>6, <2>7, <2>8 DEF DurableNext
<1> QED
  BY <1>1, <1>2, PTL DEF DurableSpec

-----------------------------------------------------------------------------
(* What was persisted stays true.                                          *)

\* q records all that r records, and perhaps more.
Extends(r, q) ==
    /\ \A s \in Steps :
          /\ r.started[s] => q.started[s] /\ q.width[s] = r.width[s]
          /\ r.status[s] # Unset => q.status[s] = r.status[s]
    /\ \A x \in Invocations :
          /\ Terminal(r.job[x]) => q.job[x] = r.job[x]
          /\ r.job[x] = Suspended => q.job[x] # Unset

\* Something is recorded only of the jobs of a started step: starting one,
\* which clears its jobs, loses nothing.
JobsPlaced(r) ==
    \A x \in Invocations : r.job[x] # Unset => r.started[x[1]] /\ x[2] <= r.width[x[1]]

HistoryInvariant ==
    /\ DurableInvariant
    /\ JobsPlaced(saved)
    /\ JobsPlaced(Snapshot)
    /\ SnapshotExtended

LEMMA ExtendsItself == ASSUME NEW r PROVE Extends(r, r)
BY DEF Extends, Suspended, Unset

LEMMA ExtendsFurther ==
    ASSUME NEW p, NEW q, NEW r, Extends(p, q), Extends(q, r)
    PROVE  Extends(p, r)
<1>1. ASSUME NEW s \in Steps
      PROVE  /\ p.started[s] => r.started[s] /\ r.width[s] = p.width[s]
             /\ p.status[s] # Unset => r.status[s] = p.status[s]
  BY DEF Extends
<1>2. ASSUME NEW x \in Invocations, Terminal(p.job[x])
      PROVE  r.job[x] = p.job[x]
  BY <1>2 DEF Extends
<1>3. ASSUME NEW x \in Invocations, p.job[x] = Suspended
      PROVE  r.job[x] # Unset
  <2>1. q.job[x] # Unset
    BY <1>3 DEF Extends
  <2>2. CASE q.job[x] = Suspended
    BY <2>2 DEF Extends
  <2>3. CASE Terminal(q.job[x])
    BY <2>1, <2>3 DEF Extends
  <2> QED
    BY <2>1, <2>2, <2>3 DEF Terminal
<1> QED
  BY <1>1, <1>2, <1>3 DEF Extends

LEMMA SnapshotFields ==
    /\ Snapshot.started = started /\ Snapshot.status = status /\ Snapshot.width = width
    /\ Snapshot.job = job /\ Snapshot.suspensions = suspensions
    /\ (Snapshot').started = started' /\ (Snapshot').status = status' /\ (Snapshot').width = width'
    /\ (Snapshot').job = job'
BY DEF Snapshot

-----------------------------------------------------------------------------
(* The loop records more, and what it records has its place.               *)

LEMMA StartRecordsMore ==
    ASSUME LoopInvariant, JobsPlaced(Snapshot), NEW s \in Steps, Startable(s), StartStep(s)
    PROVE  Extends(Snapshot, Snapshot') /\ JobsPlaced(Snapshot')
<1> USE SnapshotFields
<1>1. ~started[s] /\ status[s] = Unset /\ width[s] = 0
  BY DEF Startable, LoopInvariant, StateInOrder, StepsInOrder
<1>2. \A x \in Invocations : x[1] = s => job[x] = Unset
  BY <1>1 DEF JobsPlaced
<1>3. /\ started' = [started EXCEPT ![s] = TRUE]
      /\ \A t \in Steps \ {s} : status'[t] = status[t] /\ width'[t] = width[t]
      /\ \A x \in Invocations : x[1] # s => job'[x] = job[x]
  BY StartStepEffect DEF LoopInvariant, StateInOrder
<1>4. started'[s] /\ \A t \in Steps \ {s} : started'[t] = started[t]
  BY <1>3 DEF LoopInvariant, RunLoopTypeOK, LoopTypeOK
<1>5. Extends(Snapshot, Snapshot')
  <2>1. ASSUME NEW t \in Steps
        PROVE  /\ started[t] => started'[t] /\ width'[t] = width[t]
               /\ status[t] # Unset => status'[t] = status[t]
    BY <1>1, <1>3, <1>4
  <2>2. ASSUME NEW x \in Invocations, job[x] # Unset
        PROVE  job'[x] = job[x]
    BY <1>2, <1>3, <2>2
  <2> QED
    BY <2>1, <2>2 DEF Extends, Terminal, Suspended, Unset
<1>6. ASSUME NEW x \in Invocations, x[1] = s, job'[x] # Unset
      PROVE  x[2] <= width'[s]
  <2>1. x[2] \in Nat /\ width \in [Steps -> 0..MaxWidth] /\ MaxWidth \in Nat
    BY InvocationParts, ConfigAssumption DEF LoopInvariant, RunLoopTypeOK, LoopTypeOK, Slots
  <2>2. CASE StartFails(s)
    BY <1>2, <1>6, <2>2 DEF StartFails
  <2>3. CASE GateFails(s)
    <3>1. PICK w \in Widths(s) : \E bad \in 1..w : \E skip \in GateChoices(s, bad - 1) :
             width' = [width EXCEPT ![s] = w] /\ job' = Adopted(s, skip)
      BY <2>3 DEF GateFails
    <3>2. PICK bad \in 1..w : \E skip \in GateChoices(s, bad - 1) :
             width' = [width EXCEPT ![s] = w] /\ job' = Adopted(s, skip)
      BY <3>1
    <3>3. PICK skip \in GateChoices(s, bad - 1) :
             width' = [width EXCEPT ![s] = w] /\ job' = Adopted(s, skip)
      BY <3>2
    <3>4. w \in Nat /\ skip \subseteq 1..(bad - 1)
      BY <2>1 DEF Widths, GateChoices
    <3>5. x[2] \in skip
      BY <1>6, <3>3 DEF Adopted
    <3> QED
      BY <2>1, <3>3, <3>4, <3>5
  <2>4. CASE StartAdmits(s)
    <3>1. PICK w \in Widths(s) : \E skip \in GateChoices(s, w) :
             width' = [width EXCEPT ![s] = w] /\ job' = Adopted(s, skip)
      BY <2>4 DEF StartAdmits
    <3>2. PICK skip \in GateChoices(s, w) :
             width' = [width EXCEPT ![s] = w] /\ job' = Adopted(s, skip)
      BY <3>1
    <3>3. w \in Nat /\ skip \subseteq 1..w
      BY <2>1 DEF Widths, GateChoices
    <3>4. x[2] \in skip
      BY <1>6, <3>2 DEF Adopted
    <3> QED
      BY <2>1, <3>2, <3>3, <3>4
  <2> QED
    BY <2>2, <2>3, <2>4 DEF StartStep
<1>7. ASSUME NEW x \in Invocations, job'[x] # Unset
      PROVE  started'[x[1]] /\ x[2] <= width'[x[1]]
  <2>1. CASE x[1] = s
    BY <1>4, <1>6, <1>7, <2>1
  <2>2. CASE x[1] # s
    <3>1. job[x] # Unset /\ x[1] \in Steps
      BY <1>3, <1>7, <2>2, InvocationParts
    <3> QED
      BY <1>3, <1>4, <2>2, <3>1 DEF JobsPlaced
  <2> QED
    BY <2>1, <2>2
<1> QED
  BY <1>5, <1>7 DEF JobsPlaced

LEMMA RecordRecordsMore ==
    ASSUME LoopInvariant, JobsPlaced(Snapshot), NEW x \in Invocations, NEW r, Record(x, r),
           job[x] = Unset, status[x[1]] = Unset, started[x[1]], x[2] <= width[x[1]]
    PROVE  Extends(Snapshot, Snapshot') /\ JobsPlaced(Snapshot')
<1> USE SnapshotFields
<1>1. /\ job' = [job EXCEPT ![x] = Outcome(r).status]
      /\ \E st : status' = [status EXCEPT ![x[1]] = st]
      /\ started' = started /\ width' = width
  BY DEF Record, SetStepStatus
<1>2. \A y \in Invocations : y # x => job'[y] = job[y]
  BY <1>1 DEF LoopInvariant, RunLoopTypeOK, LoopTypeOK
<1>3. \A t \in Steps : t # x[1] => status'[t] = status[t]
  BY <1>1 DEF LoopInvariant, RunLoopTypeOK, LoopTypeOK
<1>4. Extends(Snapshot, Snapshot')
  <2>1. \A t \in Steps : status[t] # Unset => status'[t] = status[t]
    BY <1>1, <1>3
  <2>2. ASSUME NEW y \in Invocations, job[y] # Unset
        PROVE  job'[y] = job[y]
    BY <1>2, <2>2
  <2> QED
    BY <1>1, <2>1, <2>2 DEF Extends, Terminal, Suspended, Unset
<1>5. JobsPlaced(Snapshot')
  BY <1>1, <1>2 DEF JobsPlaced
<1> QED
  BY <1>4, <1>5

LEMMA SameSnapshot ==
    ASSUME UNCHANGED stateVars
    PROVE  Snapshot' = Snapshot
BY DEF Snapshot, stateVars

LEMMA LoopRecordsMore ==
    ASSUME LoopInvariant, JobsPlaced(Snapshot), [Next]_vars
    PROVE  Extends(Snapshot, Snapshot') /\ JobsPlaced(Snapshot')
<1>1. CASE StartReadyStep
  <2>1. PICK k \in at..Len(Order) : Startable(Order[k]) /\ StartStep(Order[k])
    BY <1>1 DEF StartReadyStep
  <2>2. Order[k] \in Steps
    BY OrderCovers DEF LoopInvariant, RunLoopTypeOK
  <2> QED
    BY <2>1, <2>2, StartRecordsMore
<1>2. CASE LaunchPending
  <2>1. PICK k \in 1..Len(Order), i \in Slots :
           NextPending(k, i) /\ (HandOver(<<Order[k], i>>) \/ CallFails(<<Order[k], i>>))
    BY <1>2 DEF LaunchPending
  <2>2. <<Order[k], i>> \in Invocations
    BY <2>1, OrderCovers, InvocationParts
  <2>3. CASE HandOver(<<Order[k], i>>)
    BY <2>3, SameSnapshot, ExtendsItself DEF HandOver
  <2>4. CASE CallFails(<<Order[k], i>>)
    <3>1. /\ job[<<Order[k], i>>] = Unset /\ status[Order[k]] = Unset
          /\ started[Order[k]] /\ i <= width[Order[k]]
      BY <2>1 DEF NextPending, Pending
    <3> QED
      BY <2>2, <2>4, <3>1, RecordRecordsMore DEF CallFails
  <2> QED
    BY <2>1, <2>3, <2>4
<1>3. CASE Receive
  <2>1. PICK x \in inflight : Settle(x)
    BY <1>3 DEF Receive
  <2>2. x \in Invocations /\ job[x] = Unset /\ status[x[1]] = Unset /\ x[2] <= width[x[1]]
    BY <1>3, StillOpen, InflightUnrecorded DEF Receive, LoopInvariant
  <2>3. started[x[1]]
    BY <1>3, StillOpen, InflightUnrecorded DEF Receive, LoopInvariant
  <2> QED
    BY <2>1, <2>2, <2>3, RecordRecordsMore DEF Settle
<1>4. CASE \/ BeginPass \/ EndStarting \/ EndLaunching \/ Abandon \/ Finish \/ Cancel \/ Terminated
           \/ UNCHANGED vars \/ \E x \in Invocations : HandlerReply(x) \/ DropResult(x)
  <2>1. UNCHANGED stateVars
    BY <1>4 DEF BeginPass, EndStarting, EndLaunching, Abandon, Finish, Cancel, Terminated, vars,
       HandlerReply, HandlerReturns, DropResult, sharedVars
  <2> QED
    BY <2>1, SameSnapshot, ExtendsItself
<1> QED
  BY <1>1, <1>2, <1>3, <1>4 DEF Next, Loop

-----------------------------------------------------------------------------
(* Resume, as far as it gets, records more than what was persisted.        *)

LEMMA InjectedRecordsMore ==
    ASSUME NEW r, ResumableState(r), JobsPlaced(r),
           NEW A \in SUBSET Answerable(r), NEW answers \in [A -> AnswerStatuses]
    PROVE  Extends(r, Injected(r, answers)) /\ JobsPlaced(Injected(r, answers))
<1> DEFINE q == Injected(r, answers)
<1>1. /\ q.started = r.started /\ q.status = r.status /\ q.width = r.width
      /\ q.job = [x \in Invocations |-> IF x \in A THEN answers[x] ELSE r.job[x]]
  BY DEF Injected, ResumableState, RunStates
<1>2. \A x \in A : answers[x] \in {Success, Skipped, PermanentFail, TemporaryFail}
  BY DurableAssumption
<1>3. \A x \in A : r.job[x] = Suspended
  BY DEF Answerable
<1> HIDE DEF q
<1>4. \A x \in Invocations \ A : q.job[x] = r.job[x]
  BY <1>1
<1>5. \A x \in A : x \in Invocations /\ q.job[x] # Unset
  BY <1>1, <1>2 DEF Answerable, Success, Skipped, PermanentFail, TemporaryFail, Unset
<1>6. Extends(r, q)
  BY <1>1, <1>3, <1>4, <1>5 DEF Extends, Terminal, Suspended, Unset
<1>7. JobsPlaced(q)
  BY <1>1, <1>3, <1>4 DEF JobsPlaced, Suspended, Unset
<1> QED
  BY <1>6, <1>7 DEF q

LEMMA RegatedRecordsMore ==
    ASSUME NEW r, ResumableState(r), JobsPlaced(r), NEW S \in SUBSET Interrupted(r),
           NEW skip \in SUBSET Regatable(r, S)
    PROVE  Extends(r, Regated(r, skip)) /\ JobsPlaced(Regated(r, skip))
<1> DEFINE q == Regated(r, skip)
<1>1. /\ q.started = r.started /\ q.status = r.status /\ q.width = r.width
      /\ q.job = [x \in Invocations |-> IF x \in skip THEN Skipped ELSE r.job[x]]
  BY DEF Regated, ResumableState, RunStates
<1> HIDE DEF q
<1>2. \A x \in skip : r.job[x] = Unset /\ r.started[x[1]] /\ x[2] <= r.width[x[1]]
  BY DEF Regatable, Interrupted
<1>3. \A x \in Invocations \ skip : q.job[x] = r.job[x]
  BY <1>1
<1>4. Extends(r, q)
  BY <1>1, <1>2, <1>3 DEF Extends, Terminal, Suspended, Unset
<1>5. JobsPlaced(q)
  BY <1>1, <1>2, <1>3 DEF JobsPlaced
<1> QED
  BY <1>4, <1>5 DEF q

LEMMA FinishedRecordsMore ==
    ASSUME NEW r, ResumableState(r), JobsPlaced(r), NEW S \in SUBSET Interrupted(r)
    PROVE  Extends(r, Finished(r, S)) /\ JobsPlaced(Finished(r, S))
<1> DEFINE q == Finished(r, S)
<1>1. /\ q.started = r.started /\ q.width = r.width /\ q.job = r.job
      /\ \A s \in Steps \ S : q.status[s] = r.status[s]
  BY DEF Finished, ResumableState, RunStates
<1>2. \A s \in S : r.status[s] = Unset
  BY DEF Interrupted
<1> HIDE DEF q
<1> QED
  BY <1>1, <1>2 DEF Extends, JobsPlaced, Suspended, Unset, q

\* What a resume over restarted and finished steps makes of the persisted state.
LEMMA RebuiltRecordsMore ==
    ASSUME DurableInvariant, JobsPlaced(saved), NEW answers \in Answers,
           NEW S \in SUBSET Interrupted(Injected(saved, answers)),
           NEW skip \in SUBSET Regatable(Injected(saved, answers), S),
           NEW T \in SUBSET Interrupted(Injected(saved, answers))
    PROVE  LET f == Finished(Regated(Injected(saved, answers), skip), T) IN
           f \in RunStates /\ Extends(saved, f) /\ JobsPlaced(f)
<1> DEFINE r == Injected(saved, answers)
           g == Regated(r, skip)
           f == Finished(g, T)
<1>1. PICK A \in SUBSET Answerable(saved) : answers \in [A -> AnswerStatuses]
  BY AnswersAddressSuspensions
<1>2. ResumableState(r) /\ Extends(saved, r) /\ JobsPlaced(r)
  BY <1>1, InjectedResumable, InjectedRecordsMore DEF DurableInvariant
<1>3. ResumableState(g) /\ Interrupted(g) = Interrupted(r) /\ Extends(r, g) /\ JobsPlaced(g)
  BY <1>2, RegatedResumable, RegatedRecordsMore
<1>4. ResumableState(f) /\ Extends(g, f) /\ JobsPlaced(f)
  BY <1>3, FinishedResumable, FinishedRecordsMore
<1>5. Extends(saved, f)
  BY <1>2, <1>3, <1>4, ExtendsFurther
<1> QED
  BY <1>4, <1>5 DEF ResumableState

-----------------------------------------------------------------------------
(* The invariant.                                                          *)

LEMMA ExtendedSnapshot == SnapshotExtended <=> Extends(saved, Snapshot)
BY SnapshotFields DEF SnapshotExtended, Extends

LEMMA ExtendedSnapshotNext ==
    ASSUME Extends(saved', Snapshot'), JobsPlaced(saved'), JobsPlaced(Snapshot'), DurableInvariant'
    PROVE  HistoryInvariant'
<1>1. SnapshotExtended'
  BY SnapshotFields DEF SnapshotExtended, Extends
<1>2. JobsPlaced(saved)' /\ JobsPlaced(Snapshot)'
  BY DEF JobsPlaced
<1> QED
  BY <1>1, <1>2 DEF HistoryInvariant

LEMMA SegmentKeepsHistory ==
    ASSUME HistoryInvariant, DurableInvariant', saved' = saved, [Next]_vars,
           Loop \/ (\E x \in Invocations : HandlerReply(x) \/ DropResult(x)) \/ Cancel
    PROVE  HistoryInvariant'
<1>1. Extends(saved, Snapshot) /\ JobsPlaced(saved) /\ JobsPlaced(Snapshot)
  BY ExtendedSnapshot DEF HistoryInvariant
<1>2. CASE outcome \notin {"lost", "refused"}
  <2>1. Extends(Snapshot, Snapshot') /\ JobsPlaced(Snapshot')
    BY <1>1, <1>2, LoopRecordsMore DEF HistoryInvariant, DurableInvariant
  <2>2. Extends(saved, Snapshot')
    BY <1>1, <2>1, ExtendsFurther
  <2> QED
    BY <1>1, <2>1, <2>2, ExtendedSnapshotNext
<1>3. CASE outcome \in {"lost", "refused"}
  <2>1. pc = "returned"
    BY <1>3 DEF HistoryInvariant, DurableInvariant
  <2>2. \E x \in Invocations : HandlerReply(x) \/ DropResult(x)
    BY <2>1 DEF Loop, BeginPass, StartReadyStep, EndStarting, LaunchPending, EndLaunching,
       Receive, Abandon, Finish, Cancel
  <2>3. Snapshot' = Snapshot
    BY <2>2, SameSnapshot DEF HandlerReply, HandlerReturns, DropResult
  <2> QED
    BY <1>1, <2>3, ExtendedSnapshotNext
<1> QED
  BY <1>2, <1>3

\* Whatever Resume or its refusal installs.
LEMMA InstallKeepsHistory ==
    ASSUME HistoryInvariant, DurableInvariant', saved' = saved,
           NEW f \in RunStates, Extends(saved, f), JobsPlaced(f), Install(f)
    PROVE  HistoryInvariant'
<1>1. Snapshot' = f
  BY InstalledSnapshot
<1> QED
  BY <1>1, ExtendedSnapshotNext DEF HistoryInvariant

LEMMA ResumeKeepsHistory ==
    ASSUME HistoryInvariant, NEW answers \in Answers, Resume(answers)
    PROVE  HistoryInvariant'
<1> DEFINE r == Injected(saved, answers)
<1>1. PICK skip \in SUBSET Regatable(r, Unfinished(r)) :
         Install(Finished(Regated(r, skip), Interrupted(r)))
  BY DEF Resume
<1>2. Unfinished(r) \in SUBSET Interrupted(r)
  BY DEF Unfinished
<1>3. saved' = saved /\ DurableInvariant'
  BY ResumePreserves DEF HistoryInvariant, Resume
<1> QED
  BY <1>1, <1>2, <1>3, RebuiltRecordsMore, InstallKeepsHistory DEF HistoryInvariant

LEMMA InjectRefusesKeepsHistory ==
    ASSUME HistoryInvariant, NEW answers \in Answers, InjectRefuses(answers)
    PROVE  HistoryInvariant'
<1>1. PICK A \in SUBSET Answerable(saved) : answers \in [A -> AnswerStatuses]
  BY AnswersAddressSuspensions
<1> DEFINE r == Injected(saved, answers)
<1>2. r \in RunStates /\ Extends(saved, r) /\ JobsPlaced(r)
  BY <1>1, InjectedResumable, InjectedRecordsMore DEF HistoryInvariant, DurableInvariant, ResumableState
<1>3. Install(r) /\ saved' = saved
  BY DEF InjectRefuses, Refused
<1>4. DurableInvariant'
  BY InjectRefusesPreserves DEF HistoryInvariant
<1> QED
  BY <1>2, <1>3, <1>4, InstallKeepsHistory

LEMMA RestartRefusesKeepsHistory ==
    ASSUME HistoryInvariant, NEW answers \in Answers, NEW s \in Steps, RestartRefuses(answers, s)
    PROVE  HistoryInvariant'
<1> DEFINE r == Injected(saved, answers)
           earlier == Interrupted(r) \intersect Before(s)
           regated == (Unfinished(r) \intersect Before(s)) \union {s}
<1>1. s \in Unfinished(r)
  BY DEF RestartRefuses
<1>2. PICK skip \in SUBSET Regatable(r, regated) : Refused(Finished(Regated(r, skip), earlier))
  BY DEF RestartRefuses
<1>3. regated \in SUBSET Interrupted(r) /\ earlier \in SUBSET Interrupted(r)
  BY <1>1 DEF Unfinished
<1>4. Install(Finished(Regated(r, skip), earlier)) /\ saved' = saved
  BY <1>2 DEF Refused
<1>5. DurableInvariant'
  BY RestartRefusesPreserves DEF HistoryInvariant
<1> QED
  BY <1>2, <1>3, <1>4, <1>5, RebuiltRecordsMore, InstallKeepsHistory DEF HistoryInvariant

LEMMA NextKeepsHistory ==
    ASSUME HistoryInvariant, [DurableNext]_durableVars
    PROVE  HistoryInvariant'
<1>1. ASSUME Segment \/ CancelRun
      PROVE  HistoryInvariant'
  <2>1. /\ saved' = saved /\ Next
        /\ Loop \/ (\E x \in Invocations : HandlerReply(x) \/ DropResult(x)) \/ Cancel
    BY <1>1 DEF Segment, CancelRun, Next
  <2>2. DurableInvariant'
    BY <2>1, SegmentPreserves DEF HistoryInvariant
  <2> QED
    BY <2>1, <2>2, SegmentKeepsHistory
<1>2. CASE Persist
  <2>1. saved' = Snapshot /\ Snapshot' = Snapshot
    BY <1>2, SameSnapshot DEF Persist, vars, sharedVars
  <2>2. DurableInvariant'
    BY <1>2, PersistPreserves DEF HistoryInvariant
  <2> QED
    BY <2>1, <2>2, ExtendsItself, ExtendedSnapshotNext DEF HistoryInvariant
<1>3. CASE Crash
  <2>1. Install(saved) /\ saved' = saved /\ saved \in RunStates
    BY <1>3 DEF Crash, HistoryInvariant, DurableInvariant, ResumableState
  <2>2. DurableInvariant'
    BY <1>3, CrashPreserves DEF HistoryInvariant
  <2> QED
    BY <2>1, <2>2, ExtendsItself, InstallKeepsHistory DEF HistoryInvariant
<1>4. ASSUME NEW answers \in Answers,
             Resume(answers) \/ InjectRefuses(answers) \/ \E s \in Steps : RestartRefuses(answers, s)
      PROVE  HistoryInvariant'
  BY <1>4, ResumeKeepsHistory, InjectRefusesKeepsHistory, RestartRefusesKeepsHistory
<1>5. CASE UNCHANGED durableVars
  <2>1. saved' = saved /\ UNCHANGED vars /\ Snapshot' = Snapshot
    BY <1>5, SameSnapshot DEF durableVars, vars, sharedVars
  <2>2. DurableInvariant'
    BY <2>1, UnchangedKeepsDurable DEF HistoryInvariant
  <2>3. Extends(saved', Snapshot')
    BY <2>1, ExtendedSnapshot DEF HistoryInvariant
  <2> QED
    BY <2>1, <2>2, <2>3, ExtendedSnapshotNext DEF HistoryInvariant
<1> QED
  BY <1>1, <1>2, <1>3, <1>4, <1>5 DEF DurableNext

LEMMA InitHistory == ASSUME DurableInit PROVE HistoryInvariant
<1>1. DurableInvariant
  BY InitDurable
<1>2. saved = Snapshot /\ \A x \in Invocations : job[x] = Unset
  BY DEF DurableInit, Init, LoopInit
<1>3. JobsPlaced(Snapshot)
  BY <1>2, SnapshotFields DEF JobsPlaced
<1> QED
  BY <1>1, <1>2, <1>3, ExtendsItself, ExtendedSnapshot DEF HistoryInvariant

(* Resume: what is persisted and what is live stay resumable, in place and *)
(* one an extension of the other.                                          *)
THEOREM HistoryHolds == DurableSpec => []HistoryInvariant
<1>1. DurableInit => HistoryInvariant
  BY InitHistory
<1>2. HistoryInvariant /\ [DurableNext]_durableVars => HistoryInvariant'
  BY NextKeepsHistory
<1> QED
  BY <1>1, <1>2, PTL DEF DurableSpec

(* Run and Resume (scheduler.go): nothing a caller has persisted is lost,  *)
(* changed or un-started again by the loops, crashes, cancellations and    *)
(* refused resumes that follow.                                            *)
THEOREM PersistedStaysTrue == DurableSpec => []SnapshotExtended
<1>1. HistoryInvariant => SnapshotExtended
  BY DEF HistoryInvariant
<1> QED
  BY <1>1, HistoryHolds, PTL

(* launchStep in a loop Resume built: no handler runs for an invocation    *)
(* the persisted state has an outcome or a suspension of.                  *)
THEOREM NothingRedone == DurableSpec => []RecordedWorkNotRedone
<1>1. HistoryInvariant => RecordedWorkNotRedone
  <2> SUFFICES ASSUME HistoryInvariant, outcome = "none", NEW x \in inflight
               PROVE  saved.job[x] = Unset
    BY DEF RecordedWorkNotRedone
  <2>1. x \in Invocations /\ job[x] = Unset
    BY DEF HistoryInvariant, DurableInvariant, LoopInvariant, StateInOrder, HandlersAwaited, LoopTypeOK
  <2>2. ~Terminal(saved.job[x]) /\ saved.job[x] # Suspended
    BY <2>1 DEF HistoryInvariant, SnapshotExtended, Terminal
  <2> QED
    BY <2>2 DEF Terminal
<1> QED
  BY <1>1, HistoryHolds, PTL

-----------------------------------------------------------------------------
(* No failure is lost on the way from one loop to the next.                *)

\* The status of a finished step is no better than any of its invocations',
\* and no answer can still make one of them worse.
FailuresKept(r) ==
    \A s \in Steps : r.status[s] # Unset =>
        \A i \in 1..r.width[s] :
            /\ r.job[<<s, i>>] = PermanentFail => r.status[s] = PermanentFail
            /\ r.job[<<s, i>>] = TemporaryFail => r.status[s] \in Failures
            /\ r.status[s] = TemporaryFail => Terminal(r.job[<<s, i>>])

AccountInvariant ==
    /\ HistoryInvariant
    /\ FailureInvariant
    /\ FailuresKept(saved)
    /\ FailuresKept(Snapshot)

\* The two failures and the absence of an outcome are told apart.
LEMMA FailureNames ==
    TemporaryFail # Unset /\ TemporaryFail # PermanentFail
BY DEF TemporaryFail, PermanentFail, Unset

\* finishIfComplete: only a step without open invocations takes an outcome
\* of theirs.
LEMMA CompletedSettles ==
    ASSUME NEW s, NEW w, NEW j, CompletedStatus(s, w, j) # Unset
    PROVE  \A i \in 1..w : Terminal(j[<<s, i>>])
BY DEF CompletedStatus, AllTerminal

LEMMA StartSettles ==
    ASSUME StateInOrder, NEW s \in Steps, StartStep(s),
           NEW t \in Steps, status[t] = Unset, status'[t] = TemporaryFail
    PROVE  \A i \in 1..width'[t] : Terminal(job'[<<t, i>>])
<1>1. CASE StartFails(s) \/ GateFails(s)
  BY <1>1, FailureNames DEF StartFails, GateFails, SetStepStatus, StateInOrder, LoopTypeOK
<1>2. CASE StartAdmits(s)
  <2>1. PICK w, skip :
           /\ w \in Widths(s)
           /\ width' = [width EXCEPT ![s] = w]
           /\ job' = Adopted(s, skip)
           /\ SetStepStatus(s, CompletedStatus(s, w, Adopted(s, skip)))
    BY <1>2 DEF StartAdmits
  <2>2. t = s /\ status'[s] = CompletedStatus(s, w, job') /\ width'[s] = w
    BY <2>1, FailureNames DEF SetStepStatus, StateInOrder, LoopTypeOK
  <2> QED
    BY <2>2, CompletedSettles, FailureNames
<1> QED
  BY <1>1, <1>2 DEF StartStep

LEMMA RecordSettles ==
    ASSUME StateInOrder, NEW x \in Invocations, NEW r, Record(x, r),
           NEW t \in Steps, status[t] = Unset, status'[t] = TemporaryFail
    PROVE  \A i \in 1..width'[t] : Terminal(job'[<<t, i>>])
<1>1. /\ width' = width
      /\ SetStepStatus(x[1], CompletedStatus(x[1], width[x[1]], job'))
  BY DEF Record
<1>2. x[1] \in Steps
  BY InvocationParts
<1>3. t = x[1] /\ status'[t] = CompletedStatus(t, width'[t], job')
  BY <1>1, <1>2, FailureNames DEF SetStepStatus, StateInOrder, LoopTypeOK
<1> QED
  BY <1>3, CompletedSettles, FailureNames

LEMMA LoopSettles ==
    ASSUME LoopInvariant, [Next]_vars,
           NEW t \in Steps, status[t] = Unset, status'[t] = TemporaryFail
    PROVE  \A i \in 1..width'[t] : Terminal(job'[<<t, i>>])
<1>1. StateInOrder
  BY DEF LoopInvariant
<1>2. CASE StartReadyStep
  <2>1. PICK k \in at..Len(Order) : StartStep(Order[k])
    BY <1>2 DEF StartReadyStep
  <2>2. Order[k] \in Steps
    BY OrderCovers DEF LoopInvariant, RunLoopTypeOK
  <2> QED
    BY <1>1, <2>1, <2>2, StartSettles
<1>3. CASE LaunchPending
  <2>1. PICK k \in 1..Len(Order), i \in Slots :
           HandOver(<<Order[k], i>>) \/ CallFails(<<Order[k], i>>)
    BY <1>3 DEF LaunchPending
  <2>2. <<Order[k], i>> \in Invocations
    BY OrderCovers, InvocationParts
  <2>3. CallFails(<<Order[k], i>>)
    BY <2>1, FailureNames DEF HandOver, stateVars
  <2> QED
    BY <1>1, <2>2, <2>3, RecordSettles DEF CallFails
<1>4. CASE Receive
  <2>1. PICK x \in inflight : Settle(x)
    BY <1>4 DEF Receive
  <2>2. x \in Invocations
    BY <1>1 DEF StateInOrder, LoopTypeOK
  <2> QED
    BY <1>1, <2>1, <2>2, RecordSettles DEF Settle
<1>5. CASE \/ BeginPass \/ EndStarting \/ EndLaunching \/ Abandon \/ Finish \/ Cancel \/ Terminated
           \/ UNCHANGED vars \/ \E x \in Invocations : HandlerReply(x) \/ DropResult(x)
  <2>1. UNCHANGED stateVars
    BY <1>5 DEF BeginPass, EndStarting, EndLaunching, Abandon, Finish, Cancel, Terminated, vars,
       HandlerReply, HandlerReturns, DropResult, sharedVars
  <2> QED
    BY <2>1, FailureNames DEF stateVars
<1> QED
  BY <1>2, <1>3, <1>4, <1>5 DEF Next, Loop

\* The loop's own steps, seen from the state they leave to be resumed.
LEMMA LoopKeepsFailures ==
    ASSUME LoopInvariant, JobsPlaced(Snapshot), FailureInvariant, FailuresKept(Snapshot),
           [Next]_vars
    PROVE  FailureInvariant' /\ FailuresKept(Snapshot')
<1>1. FailureInvariant'
  BY NextAccounts
<1>2. Extends(Snapshot, Snapshot')
  BY LoopRecordsMore
<1>3. ASSUME NEW s \in Steps, status'[s] = TemporaryFail, NEW i \in 1..width'[s]
      PROVE  Terminal(job'[<<s, i>>])
  <2>1. CASE status[s] = Unset
    BY <1>3, <2>1, LoopSettles
  <2>2. CASE status[s] # Unset
    <3>1. started[s] /\ width[s] \in 0..MaxWidth
      BY <2>2 DEF LoopInvariant, StateInOrder, StepsInOrder, LoopTypeOK
    <3>2. status'[s] = status[s] /\ width'[s] = width[s]
      BY <1>2, <2>2, <3>1, SnapshotFields DEF Extends
    <3>3. Terminal(job[<<s, i>>])
      BY <1>3, <2>2, <3>2, SnapshotFields DEF FailuresKept
    <3>4. <<s, i>> \in Invocations
      BY <3>1, <3>2, InvocationParts
    <3> QED
      BY <1>2, <3>3, <3>4, SnapshotFields DEF Extends
  <2> QED
    BY <2>1, <2>2
<1>4. FailuresKept(Snapshot')
  BY <1>1, <1>3, SnapshotFields DEF FailureInvariant, FailuresRecorded, FailuresKept
<1> QED
  BY <1>1, <1>4

\* injectOne: an answer that reports a failure reaches a step without an
\* outcome, or one that failed for good while the invocation was suspended.
LEMMA InjectedKeepsFailures ==
    ASSUME NEW r, ResumableState(r), FailuresKept(r),
           NEW A \in SUBSET Answerable(r), NEW answers \in [A -> AnswerStatuses]
    PROVE  FailuresKept(Injected(r, answers))
<1> DEFINE q == Injected(r, answers)
<1>1. /\ q.status = r.status /\ q.width = r.width
      /\ q.job = [x \in Invocations |-> IF x \in A THEN answers[x] ELSE r.job[x]]
  BY DEF Injected, ResumableState, RunStates
<1> HIDE DEF q
<1> SUFFICES ASSUME NEW s \in Steps, r.status[s] # Unset, NEW i \in 1..r.width[s]
             PROVE  /\ q.job[<<s, i>>] = PermanentFail => r.status[s] = PermanentFail
                    /\ q.job[<<s, i>>] = TemporaryFail => r.status[s] \in Failures
                    /\ r.status[s] = TemporaryFail => Terminal(q.job[<<s, i>>])
  BY <1>1 DEF FailuresKept, q
<1>2. <<s, i>> \in Invocations
  <2>1. r.width[s] \in 0..MaxWidth
    BY DEF ResumableState, RunStates
  <2> QED
    BY <2>1, InvocationParts
<1>3. CASE <<s, i>> \in A
  <2>1. r.job[<<s, i>>] = Suspended
    BY <1>3 DEF Answerable
  <2>2. r.status[s] \notin {Success, Skipped}
    BY <2>1 DEF ResumableState, Suspended, Success, Skipped
  <2>3. r.status[s] # TemporaryFail
    BY <2>1 DEF FailuresKept, Terminal
  <2>4. r.status[s] = PermanentFail
    <3>1. r.status[s] \in StepStatus
      BY DEF ResumableState, RunStates
    <3> QED
      BY <2>2, <2>3, <3>1 DEF StepStatus, Failures
  <2> QED
    BY <2>4, FailureNames DEF Failures
<1>4. CASE <<s, i>> \notin A
  BY <1>1, <1>2, <1>4 DEF FailuresKept
<1> QED
  BY <1>3, <1>4

LEMMA RegatedKeepsFailures ==
    ASSUME NEW r, ResumableState(r), FailuresKept(r), NEW S \in SUBSET Interrupted(r),
           NEW skip \in SUBSET Regatable(r, S)
    PROVE  FailuresKept(Regated(r, skip))
<1> DEFINE q == Regated(r, skip)
<1>1. /\ q.status = r.status /\ q.width = r.width
      /\ q.job = [x \in Invocations |-> IF x \in skip THEN Skipped ELSE r.job[x]]
  BY DEF Regated, ResumableState, RunStates
<1> HIDE DEF q
<1>2. ASSUME NEW s \in Steps, r.status[s] # Unset, NEW i \in 1..r.width[s]
      PROVE  q.job[<<s, i>>] = r.job[<<s, i>>]
  <2>1. <<s, i>> \in Invocations
    <3>1. r.width[s] \in 0..MaxWidth
      BY DEF ResumableState, RunStates
    <3> QED
      BY <3>1, InvocationParts
  <2>2. <<s, i>> \notin skip
    BY <1>2 DEF Regatable, Interrupted
  <2> QED
    BY <1>1, <2>1, <2>2
<1> QED
  BY <1>1, <1>2 DEF FailuresKept, q

\* finishIfComplete: a step finished by a resume takes its worst outcome.
LEMMA FinishedKeepsFailures ==
    ASSUME NEW r, ResumableState(r), FailuresKept(r), NEW S \in SUBSET Steps
    PROVE  FailuresKept(Finished(r, S))
<1> DEFINE q == Finished(r, S)
<1>1. /\ q.width = r.width /\ q.job = r.job
      /\ \A s \in Steps \ S : q.status[s] = r.status[s]
      /\ \A s \in S : q.status[s] = CompletedStatus(s, r.width[s], r.job)
  BY DEF Finished, ResumableState, RunStates
<1> HIDE DEF q
<1>2. ASSUME NEW s \in S, q.status[s] # Unset, NEW i \in 1..r.width[s]
      PROVE  /\ r.job[<<s, i>>] = PermanentFail => q.status[s] = PermanentFail
             /\ r.job[<<s, i>>] = TemporaryFail => q.status[s] \in Failures
             /\ Terminal(r.job[<<s, i>>])
  BY <1>1, <1>2, CompletedStatusWorst, CompletedSettles
<1> QED
  BY <1>1, <1>2 DEF FailuresKept, q

LEMMA RebuiltKeepsFailures ==
    ASSUME DurableInvariant, FailuresKept(saved), NEW answers \in Answers,
           NEW S \in SUBSET Interrupted(Injected(saved, answers)),
           NEW skip \in SUBSET Regatable(Injected(saved, answers), S),
           NEW T \in SUBSET Steps
    PROVE  FailuresKept(Finished(Regated(Injected(saved, answers), skip), T))
<1> DEFINE r == Injected(saved, answers)
<1>1. PICK A \in SUBSET Answerable(saved) : answers \in [A -> AnswerStatuses]
  BY AnswersAddressSuspensions
<1>2. ResumableState(r) /\ FailuresKept(r)
  BY <1>1, InjectedResumable, InjectedKeepsFailures DEF DurableInvariant
<1>3. ResumableState(Regated(r, skip)) /\ FailuresKept(Regated(r, skip))
  BY <1>2, RegatedResumable, RegatedKeepsFailures
<1> QED
  BY <1>3, FinishedKeepsFailures

\* A loop that Resume just built, a refusal and a lost process report nothing.
LEMMA NothingReported ==
    ASSUME outcome' \in {"none", "refused", "lost"}
    PROVE  FailuresAccountedFor'
BY DEF FailuresAccountedFor, IndependentBranchesFinish, FailureOutranks,
       Failures, Success, Suspended, PermanentFail, TemporaryFail

\* Whatever Resume, its refusal or a crash installs.
LEMMA InstallKeepsFailures ==
    ASSUME AccountInvariant, HistoryInvariant', saved' = saved,
           NEW f \in RunStates, FailuresKept(f), Install(f),
           outcome' \in {"none", "refused", "lost"}, ContinueOnError => ~stopped'
    PROVE  AccountInvariant'
<1>1. Snapshot' = f
  BY InstalledSnapshot
<1>2. FailuresKept(saved)' /\ FailuresKept(Snapshot)'
  BY <1>1 DEF AccountInvariant, FailuresKept
<1>3. FailuresRecorded'
  BY <1>1, SnapshotFields DEF FailuresRecorded, FailuresKept
<1> QED
  BY <1>2, <1>3, NothingReported DEF AccountInvariant, FailureInvariant

LEMMA ResumeKeepsFailures ==
    ASSUME AccountInvariant, NEW answers \in Answers, Resume(answers)
    PROVE  AccountInvariant'
<1> DEFINE r == Injected(saved, answers)
<1>1. PICK skip \in SUBSET Regatable(r, Unfinished(r)) :
         Install(Finished(Regated(r, skip), Interrupted(r)))
  BY DEF Resume
<1>2. Unfinished(r) \in SUBSET Interrupted(r) /\ Interrupted(r) \in SUBSET Steps
  BY DEF Unfinished, Interrupted
<1>3. /\ saved' = saved /\ outcome' = "none" /\ HistoryInvariant'
      /\ ContinueOnError => ~stopped'
  BY ResumeKeepsHistory DEF AccountInvariant, Resume
<1>4. /\ Finished(Regated(r, skip), Interrupted(r)) \in RunStates
      /\ FailuresKept(Finished(Regated(r, skip), Interrupted(r)))
  BY <1>2, RebuiltRecordsMore, RebuiltKeepsFailures DEF AccountInvariant, HistoryInvariant
<1> QED
  BY <1>1, <1>3, <1>4, InstallKeepsFailures

LEMMA InjectRefusesKeepsFailures ==
    ASSUME AccountInvariant, NEW answers \in Answers, InjectRefuses(answers)
    PROVE  AccountInvariant'
<1>1. PICK A \in SUBSET Answerable(saved) : answers \in [A -> AnswerStatuses]
  BY AnswersAddressSuspensions
<1> DEFINE r == Injected(saved, answers)
<1>2. r \in RunStates /\ FailuresKept(r)
  BY <1>1, InjectedResumable, InjectedKeepsFailures
     DEF AccountInvariant, HistoryInvariant, DurableInvariant, ResumableState
<1>3. Install(r) /\ saved' = saved /\ outcome' = "refused" /\ stopped' = stopped
  BY DEF InjectRefuses, Refused, loopVars
<1>4. HistoryInvariant' /\ (ContinueOnError => ~stopped)
  BY InjectRefusesKeepsHistory DEF AccountInvariant, FailureInvariant, FailuresRecorded
<1> QED
  BY <1>2, <1>3, <1>4, InstallKeepsFailures

LEMMA RestartRefusesKeepsFailures ==
    ASSUME AccountInvariant, NEW answers \in Answers, NEW s \in Steps, RestartRefuses(answers, s)
    PROVE  AccountInvariant'
<1> DEFINE r == Injected(saved, answers)
           earlier == Interrupted(r) \intersect Before(s)
           regated == (Unfinished(r) \intersect Before(s)) \union {s}
<1>1. s \in Unfinished(r)
  BY DEF RestartRefuses
<1>2. PICK skip \in SUBSET Regatable(r, regated) : Refused(Finished(Regated(r, skip), earlier))
  BY DEF RestartRefuses
<1>3. /\ regated \in SUBSET Interrupted(r) /\ earlier \in SUBSET Interrupted(r)
      /\ earlier \in SUBSET Steps
  BY <1>1 DEF Unfinished, Interrupted
<1>4. /\ Finished(Regated(r, skip), earlier) \in RunStates
      /\ FailuresKept(Finished(Regated(r, skip), earlier))
  BY <1>3, RebuiltRecordsMore, RebuiltKeepsFailures DEF AccountInvariant, HistoryInvariant
<1>5. /\ Install(Finished(Regated(r, skip), earlier))
      /\ saved' = saved /\ outcome' = "refused" /\ stopped' = stopped
  BY <1>2 DEF Refused, loopVars
<1>6. HistoryInvariant' /\ (ContinueOnError => ~stopped)
  BY RestartRefusesKeepsHistory DEF AccountInvariant, FailureInvariant, FailuresRecorded
<1> QED
  BY <1>4, <1>5, <1>6, InstallKeepsFailures

\* A loop that runs takes RunLoop's steps; without one nothing is recorded.
LEMMA SegmentKeepsFailures ==
    ASSUME AccountInvariant, HistoryInvariant', saved' = saved, [Next]_vars,
           Loop \/ (\E x \in Invocations : HandlerReply(x) \/ DropResult(x)) \/ Cancel
    PROVE  AccountInvariant'
<1>1. FailuresKept(saved)'
  BY DEF AccountInvariant, FailuresKept
<1>2. CASE outcome \notin {"lost", "refused"}
  <2>1. FailureInvariant' /\ FailuresKept(Snapshot')
    BY <1>2, LoopKeepsFailures DEF AccountInvariant, HistoryInvariant, DurableInvariant
  <2> QED
    BY <1>1, <2>1 DEF AccountInvariant, FailuresKept
<1>3. CASE outcome \in {"lost", "refused"}
  <2>1. pc = "returned"
    BY <1>3 DEF AccountInvariant, HistoryInvariant, DurableInvariant
  <2>2. \E x \in Invocations : HandlerReply(x) \/ DropResult(x)
    BY <2>1 DEF Loop, BeginPass, StartReadyStep, EndStarting, LaunchPending, EndLaunching,
       Receive, Abandon, Finish, Cancel
  <2>3. UNCHANGED <<stateVars, stopped, outcome>>
    BY <2>2 DEF HandlerReply, HandlerReturns, DropResult, loopVars
  <2>4. FailureInvariant' /\ Snapshot' = Snapshot
    BY <2>3, SameFailures, SameSnapshot DEF AccountInvariant
  <2> QED
    BY <1>1, <2>4 DEF AccountInvariant, FailuresKept
<1> QED
  BY <1>2, <1>3

LEMMA NextKeepsFailures ==
    ASSUME AccountInvariant, [DurableNext]_durableVars
    PROVE  AccountInvariant'
<1>1. HistoryInvariant'
  BY NextKeepsHistory DEF AccountInvariant
<1>2. CASE Segment \/ CancelRun
  <2>1. /\ saved' = saved /\ Next
        /\ Loop \/ (\E x \in Invocations : HandlerReply(x) \/ DropResult(x)) \/ Cancel
    BY <1>2 DEF Segment, CancelRun, Next
  <2> QED
    BY <1>1, <2>1, SegmentKeepsFailures
<1>3. CASE Persist \/ UNCHANGED durableVars
  <2>1. UNCHANGED <<stateVars, stopped, outcome>>
    BY <1>3 DEF Persist, durableVars, vars, sharedVars, loopVars
  <2>2. FailureInvariant' /\ Snapshot' = Snapshot
    BY <2>1, SameFailures, SameSnapshot DEF AccountInvariant
  <2>3. saved' \in {saved, Snapshot}
    BY <1>3 DEF Persist, durableVars
  <2> QED
    BY <1>1, <2>2, <2>3 DEF AccountInvariant, FailuresKept
<1>4. CASE Crash
  <2>1. /\ Install(saved) /\ saved' = saved /\ outcome' = "lost" /\ stopped' = stopped
        /\ saved \in RunStates
    BY <1>4 DEF Crash, loopVars, AccountInvariant, HistoryInvariant, DurableInvariant, ResumableState
  <2>2. FailuresKept(saved) /\ (ContinueOnError => ~stopped)
    BY DEF AccountInvariant, FailureInvariant, FailuresRecorded
  <2> QED
    BY <1>1, <2>1, <2>2, InstallKeepsFailures
<1>5. ASSUME NEW answers \in Answers,
             Resume(answers) \/ InjectRefuses(answers) \/ \E s \in Steps : RestartRefuses(answers, s)
      PROVE  AccountInvariant'
  BY <1>5, ResumeKeepsFailures, InjectRefusesKeepsFailures, RestartRefusesKeepsFailures
<1> QED
  BY <1>2, <1>3, <1>4, <1>5 DEF DurableNext

(* OnErrorContinue and failure over a run's whole life: whatever was       *)
(* answered, refused, cancelled or lost on the way, the verdict of the     *)
(* loop that ends the run is no better than the worst outcome any loop     *)
(* recorded, and what it leaves unfinished needed a step that failed or    *)
(* waits for a suspension.                                                 *)
THEOREM FailuresSurvive == DurableSpec => []FailuresAccountedFor
<1>1. DurableInit => AccountInvariant
  <2> SUFFICES ASSUME DurableInit PROVE AccountInvariant
    OBVIOUS
  <2>1. /\ saved = Snapshot /\ outcome = "none" /\ ~stopped
        /\ \A s \in Steps : status[s] = Unset
    BY DEF DurableInit, Init, LoopInit
  <2>2. FailureInvariant
    BY <2>1, NoVerdict DEF FailureInvariant, FailuresRecorded, FailuresAccountedFor
  <2>3. FailuresKept(Snapshot)
    BY <2>1, SnapshotFields DEF FailuresKept
  <2> QED
    BY <2>1, <2>2, <2>3, InitHistory DEF AccountInvariant
<1>2. AccountInvariant /\ [DurableNext]_durableVars => AccountInvariant'
  BY NextKeepsFailures
<1>3. AccountInvariant => FailuresAccountedFor
  BY DEF AccountInvariant, FailureInvariant
<1> QED
  BY <1>1, <1>2, <1>3, PTL DEF DurableSpec

(* result: a run that ends well, in whichever loop, left no step behind,   *)
(* those recorded before an interruption included, and a suspended one     *)
(* hands out everything its unfinished steps wait for.                     *)
THEOREM ResumedHonestly == DurableSpec => []ResultIsComplete
<1>1. DurableInvariant => ResultIsComplete
  BY DEF DurableInvariant, LoopInvariant, ResultIsComplete, Success, Suspended
<1> QED
  BY <1>1, DurableInvariantHolds, PTL

-----------------------------------------------------------------------------
(* Handlers run on what was produced, also once their loop is gone.        *)

\* What a handler no loop awaits reads is in the persisted state, which no
\* refused resume takes back.
FedInvariant ==
    /\ HistoryInvariant
    /\ inflight \subseteq Invocations
    /\ outcome \in {"lost", "refused"} =>
          \A x \in inflight : \A d \in Deps[x[1]] : saved.status[d] \in {Success, Skipped}

LEMMA SourcesAreSteps ==
    ASSUME NEW x \in Invocations, NEW d \in Deps[x[1]]
    PROVE  d \in Steps
BY InvocationParts, PlanAssumption

LEMMA FedProduced == ASSUME FedInvariant PROVE InputsProduced
<1>1. CASE outcome \notin {"lost", "refused"}
  BY <1>1, RunningFed DEF FedInvariant, HistoryInvariant, DurableInvariant, LoopInvariant
<1>2. CASE outcome \in {"lost", "refused"}
  <2>1. ASSUME NEW x \in inflight, NEW d \in Deps[x[1]]
        PROVE  Produced(d)
    <3>1. d \in Steps /\ saved.status[d] \in {Success, Skipped}
      BY <1>2, SourcesAreSteps DEF FedInvariant
    <3>2. saved.status[d] # Unset
      BY <3>1 DEF Success, Skipped, Unset
    <3> QED
      BY <3>1, <3>2 DEF FedInvariant, HistoryInvariant, SnapshotExtended, Produced
  <2> QED
    BY <2>1 DEF InputsProduced
<1> QED
  BY <1>1, <1>2

\* When the caller may resume, what it persisted feeds every handler left.
LEMMA PersistedFeeds ==
    ASSUME FedInvariant, CallerReady, NEW x \in inflight, NEW d \in Deps[x[1]]
    PROVE  saved.status[d] \in {Success, Skipped}
<1>1. CASE outcome \in {"lost", "refused"}
  BY <1>1 DEF FedInvariant
<1>2. CASE saved = Snapshot
  BY <1>2, FedProduced, SnapshotFields DEF InputsProduced, Produced
<1> QED
  BY <1>1, <1>2 DEF CallerReady

LEMMA SegmentKeepsFed ==
    ASSUME FedInvariant, HistoryInvariant', saved' = saved, [Next]_vars,
           Loop \/ (\E x \in Invocations : HandlerReply(x) \/ DropResult(x)) \/ Cancel
    PROVE  FedInvariant'
<1>1. CASE outcome \notin {"lost", "refused"}
  <2>1. outcome' \notin {"lost", "refused"}
    BY <1>1
       DEF Loop, BeginPass, StartReadyStep, StartStep, EndStarting, LaunchPending, HandOver,
           CallFails, EndLaunching, Receive, Settle, Abandon, Finish, RunOutcomes,
           HandlerReply, HandlerReturns, DropResult, Cancel, sharedVars,
           PermanentFail, TemporaryFail, Suspended, Success
  <2>2. inflight' \subseteq Invocations
    BY <2>1 DEF HistoryInvariant, DurableInvariant, LoopInvariant, StateInOrder, LoopTypeOK
  <2> QED
    BY <2>1, <2>2 DEF FedInvariant
<1>2. CASE outcome \in {"lost", "refused"}
  <2>1. pc = "returned"
    BY <1>2 DEF FedInvariant, HistoryInvariant, DurableInvariant
  <2>2. \E x \in Invocations : HandlerReply(x) \/ DropResult(x)
    BY <2>1 DEF Loop, BeginPass, StartReadyStep, EndStarting, LaunchPending, EndLaunching,
       Receive, Abandon, Finish, Cancel
  <2>3. inflight' \subseteq inflight /\ outcome' = outcome
    BY <2>2 DEF HandlerReply, HandlerReturns, DropResult
  <2> QED
    BY <2>3 DEF FedInvariant
<1> QED
  BY <1>1, <1>2

LEMMA NextKeepsFed ==
    ASSUME FedInvariant, [DurableNext]_durableVars
    PROVE  FedInvariant'
<1>1. HistoryInvariant'
  BY NextKeepsHistory DEF FedInvariant
<1>2. CASE Segment \/ CancelRun
  <2>1. /\ saved' = saved /\ Next
        /\ Loop \/ (\E x \in Invocations : HandlerReply(x) \/ DropResult(x)) \/ Cancel
    BY <1>2 DEF Segment, CancelRun, Next
  <2> QED
    BY <1>1, <2>1, SegmentKeepsFed
<1>3. CASE Persist
  <2>1. saved' = Snapshot /\ UNCHANGED <<inflight, outcome>>
    BY <1>3 DEF Persist, vars, sharedVars, workVars
  <2>2. \A x \in inflight : \A d \in Deps[x[1]] : saved'.status[d] \in {Success, Skipped}
    BY <2>1, FedProduced, SnapshotFields DEF InputsProduced, Produced
  <2> QED
    BY <1>1, <2>1, <2>2 DEF FedInvariant
<1>4. CASE Crash \/ \E answers \in Answers : Resume(answers)
  BY <1>1, <1>4 DEF Crash, Resume, FedInvariant
<1>5. ASSUME NEW r, Refused(r)
      PROVE  FedInvariant'
  <2>1. CallerReady /\ saved' = saved /\ inflight' = inflight
    BY <1>5 DEF Refused, workVars
  <2> QED
    BY <1>1, <2>1, PersistedFeeds DEF FedInvariant
<1>6. ASSUME NEW answers \in Answers, InjectRefuses(answers)
      PROVE  FedInvariant'
  BY <1>5, <1>6 DEF InjectRefuses
<1>7. ASSUME NEW answers \in Answers, NEW s \in Steps, RestartRefuses(answers, s)
      PROVE  FedInvariant'
  BY <1>5, <1>7 DEF RestartRefuses
<1>8. CASE UNCHANGED durableVars
  BY <1>1, <1>8 DEF durableVars, vars, sharedVars, workVars, FedInvariant
<1> QED
  BY <1>2, <1>3, <1>4, <1>6, <1>7, <1>8 DEF DurableNext

(* ready / sourceValue: a handler only ever runs on the outputs of steps   *)
(* that have produced them, in a loop that was resumed and after a resume  *)
(* that was refused while handlers of a cancelled loop were still out.     *)
THEOREM ResumedInOrder == DurableSpec => []InputsProduced
<1>1. DurableInit => FedInvariant
  BY InitHistory DEF DurableInit, Init, LoopInit, FedInvariant
<1>2. FedInvariant /\ [DurableNext]_durableVars => FedInvariant'
  BY NextKeepsFed
<1>3. FedInvariant => InputsProduced
  BY FedProduced
<1> QED
  BY <1>1, <1>2, <1>3, PTL DEF DurableSpec
=============================================================================
