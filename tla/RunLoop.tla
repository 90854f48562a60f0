------------------------------ MODULE RunLoop ------------------------------
(***************************************************************************)
(* runLoop.execute (pkg/cwlexec/loop.go): one goroutine repeats dispatch   *)
(* passes over the steps and then waits for a handler goroutine to report, *)
(* or for the context to be cancelled.                                     *)
(*                                                                         *)
(* A dispatch pass is startReadySteps followed by launchPending.  Both     *)
(* walk the steps in document order, so the loop's position in that walk   *)
(* is part of the state: whatever a pass does early is seen late in it.    *)
(***************************************************************************)
EXTENDS LoopState

VARIABLES
    pc,         \* where the loop's goroutine is
    at,         \* position in Order of the walk in progress
    slot,       \* next job index launchStep looks at
    progress,   \* started || launched, for the current pass
    cancelled   \* ctx.Done() is closed

controlVars == <<pc, at, slot, progress>>
vars == <<sharedVars, controlVars, cancelled>>

RunLoopTypeOK ==
    /\ LoopTypeOK
    /\ pc \in {"pass", "starting", "launching", "waiting", "returned"}
    /\ at \in 1..(Len(Order) + 1)
    /\ slot \in 1..(MaxWidth + 1)
    /\ progress \in BOOLEAN
    /\ cancelled \in BOOLEAN

Init ==
    /\ LoopInit
    /\ pc = "pass" /\ at = 1 /\ slot = 1 /\ progress = FALSE
    /\ cancelled = FALSE

-----------------------------------------------------------------------------
(* dispatch: passes until one makes no progress.                           *)

\* A stopped loop neither starts nor launches: the pass makes no progress.
BeginPass ==
    /\ pc = "pass"
    /\ pc' = IF stopped THEN "waiting" ELSE "starting"
    /\ at' = 1 /\ slot' = 1 /\ progress' = FALSE
    /\ UNCHANGED <<sharedVars, cancelled>>

\* startReadySteps reaches the next step it can start.  stopped was looked
\* at before the walk began and is not looked at again.
StartReadyStep ==
    /\ pc = "starting"
    /\ \E k \in at..Len(Order) :
          /\ Startable(Order[k])
          /\ \A m \in at..(k - 1) : ~Startable(Order[m])
          /\ StartStep(Order[k])
          /\ at' = k + 1
    /\ progress' = TRUE
    /\ UNCHANGED <<pc, slot, cancelled>>

\* Mutant: launchPending does not look at stopped.
EndStartingRegardless ==
    /\ pc = "starting"
    /\ \A k \in at..Len(Order) : ~Startable(Order[k])
    /\ pc' = "launching"
    /\ at' = 1 /\ slot' = 1
    /\ UNCHANGED <<sharedVars, progress, cancelled>>

\* startReadySteps walked past the last step; launchPending looks at stopped
\* once and begins its own walk.
EndStarting ==
    /\ pc = "starting"
    /\ \A k \in at..Len(Order) : ~Startable(Order[k])
    /\ pc' = IF stopped THEN "pass" ELSE "launching"
    /\ at' = 1 /\ slot' = 1
    /\ UNCHANGED <<sharedVars, progress, cancelled>>

\* Positions at or after the cursor of launchPending's walk.
Ahead(k, i) == k > at \/ (k = at /\ i >= slot)

\* launchStep gives the pass up when its step finished under it.
StepFinishedUnderWalk ==
    /\ at <= Len(Order) /\ slot > 1
    /\ slot <= width[Order[at]]
    /\ status[Order[at]] # Unset

\* The walk's next pending invocation.
NextPending(k, i) ==
    /\ Ahead(k, i) /\ Pending(<<Order[k], i>>)
    /\ \A m \in 1..Len(Order), h \in Slots :
          Ahead(m, h) /\ (m < k \/ (m = k /\ h < i)) => ~Pending(<<Order[m], h>>)

LaunchPending ==
    /\ pc = "launching"
    /\ HasCapacity /\ ~StepFinishedUnderWalk
    /\ \E k \in 1..Len(Order), i \in Slots :
          /\ NextPending(k, i)
          /\ HandOver(<<Order[k], i>>) \/ CallFails(<<Order[k], i>>)
          /\ at' = k /\ slot' = i + 1
    /\ progress' = TRUE
    /\ UNCHANGED <<pc, cancelled>>

\* Mutant: one pass is all dispatch makes.
EndLaunchingOnce ==
    /\ pc = "launching"
    /\ \/ ~HasCapacity
       \/ StepFinishedUnderWalk
       \/ \A k \in 1..Len(Order), i \in Slots :
             Ahead(k, i) => ~Pending(<<Order[k], i>>)
    /\ pc' = "waiting"
    /\ at' = 1 /\ slot' = 1
    /\ UNCHANGED <<sharedVars, progress, cancelled>>

\* launchPending returns: no capacity, its step finished under it, or no
\* pending invocation is left.  dispatch goes round again after progress.
EndLaunching ==
    /\ pc = "launching"
    /\ \/ ~HasCapacity
       \/ StepFinishedUnderWalk
       \/ \A k \in 1..Len(Order), i \in Slots :
             Ahead(k, i) => ~Pending(<<Order[k], i>>)
    /\ pc' = IF progress THEN "pass" ELSE "waiting"
    /\ at' = 1 /\ slot' = 1
    /\ UNCHANGED <<sharedVars, progress, cancelled>>

-----------------------------------------------------------------------------
(* execute: the select, and leaving the loop.                              *)

\* case finished := <-l.done
Receive ==
    /\ pc = "waiting" /\ running > 0
    /\ \E x \in inflight : Settle(x)
    /\ pc' = "pass"
    /\ UNCHANGED <<at, slot, progress, cancelled>>

\* case <-ctx.Done(): the run fails with whatever is recorded so far.
Abandon ==
    /\ pc = "waiting" /\ running > 0 /\ cancelled
    /\ pc' = "returned" /\ outcome' = "cancelled"
    /\ UNCHANGED <<stateVars, loopVars, workVars, at, slot, progress, cancelled>>

\* running == 0: execute returns and run renders the result.
Finish ==
    /\ pc = "waiting" /\ running = 0
    /\ pc' = "returned"
    /\ outcome' \in RunOutcomes
    /\ UNCHANGED <<stateVars, loopVars, workVars, at, slot, progress, cancelled>>

-----------------------------------------------------------------------------
(* The other goroutines and the caller.                                    *)

HandlerReply(x) ==
    /\ HandlerReturns(x)
    /\ UNCHANGED <<controlVars, cancelled>>

\* Mutant: nothing but a receive takes a result.
DropResultNever(x) == pc = "returned" /\ x \in inflight /\ FALSE /\ UNCHANGED vars

\* case <-l.finished: the loop is gone, the handler's goroutine drops its
\* result and exits.
DropResult(x) ==
    /\ pc = "returned"
    /\ x \in inflight /\ answer[x] # NoAnswer
    /\ inflight' = inflight \ {x}
    /\ answer' = [answer EXCEPT ![x] = NoAnswer]
    /\ UNCHANGED <<stateVars, loopVars, outcome, controlVars, cancelled>>

Cancel ==
    /\ "cancel" \in Faults /\ ~cancelled /\ pc # "returned"
    /\ cancelled' = TRUE
    /\ UNCHANGED <<sharedVars, controlVars>>

Terminated == pc = "returned" /\ UNCHANGED vars

Loop ==
    \/ BeginPass \/ StartReadyStep \/ EndStarting \/ LaunchPending \/ EndLaunching
    \/ Receive \/ Abandon \/ Finish

Next ==
    \/ Loop
    \/ \E x \in Invocations : HandlerReply(x) \/ DropResult(x)
    \/ Cancel
    \/ Terminated

Spec == Init /\ [][Next]_vars

\* The loop's goroutine is scheduled, and a handler comes back: StepHandler
\* forbids Execute to block on external events.
FairSpec ==
    /\ Spec
    /\ WF_vars(Loop)
    /\ \A x \in Invocations : WF_vars(HandlerReply(x)) /\ WF_vars(DropResult(x))

-----------------------------------------------------------------------------
(* Properties of this driver.                                              *)

\* dispatch stops only when a whole pass changed nothing: a loop that waits
\* has started every step it could, whatever the document order is, and has
\* launched every invocation the cap lets it launch.
WaitsAtFixpoint ==
    pc = "waiting" /\ ~stopped =>
        /\ \A s \in Steps : ~Startable(s)
        /\ HasCapacity => \A x \in Invocations : ~Pending(x)

\* Run returns.
RunReturns == <>(pc = "returned")

\* No handler goroutine outlives the run for good: after a cancellation its
\* result has no receiver, and finished lets it go.
NoGoroutineLeaks == <>[](inflight = {})

\* A run ends: Run returns to its caller, and no goroutine it started is
\* left behind when it does.
LoopEnds == RunReturns /\ NoGoroutineLeaks
=============================================================================
