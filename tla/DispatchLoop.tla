---------------------------- MODULE DispatchLoop ----------------------------
(***************************************************************************)
(* The caller-driven execution loop (pkg/cwlexec/dispatch.go).             *)
(* Config.ExecuteFunc replaces runLoop.execute: it asks Pending for ready  *)
(* invocations, runs each one however it likes, feeds every result back    *)
(* through Complete, and returns once Pending gave nothing and InFlight is *)
(* zero.  One call of Pending is startReadySteps and then one walk of      *)
(* collectStep over the steps; unlike dispatch it is not repeated.         *)
(***************************************************************************)
EXTENDS LoopState

VARIABLES
    pc,     \* "caller" outside Pending, else where Pending's walk is
    at,     \* position in Order of that walk
    batch,  \* Pending's current or last call found something to return
    spent   \* the caller saw Pending return nothing, and did nothing since

vars == <<sharedVars, pc, at, batch, spent>>

Init ==
    /\ LoopInit
    /\ pc = "caller" /\ at = 1 /\ batch = FALSE /\ spent = FALSE

-----------------------------------------------------------------------------
(* Pending.                                                                *)

\* The caller asks for work; startReadySteps looks at stopped once.  A
\* caller that was told there is none asks again only after a Complete.
CallPending ==
    /\ pc = "caller" /\ ~spent
    /\ pc' = IF stopped THEN "collecting" ELSE "starting"
    /\ at' = 1 /\ batch' = FALSE
    /\ UNCHANGED <<sharedVars, spent>>

StartReadyStep ==
    /\ pc = "starting"
    /\ \E k \in at..Len(Order) :
          /\ Startable(Order[k])
          /\ \A m \in at..(k - 1) : ~Startable(Order[m])
          /\ StartStep(Order[k])
          /\ at' = k + 1
    /\ UNCHANGED <<pc, batch, spent>>

EndStarting ==
    /\ pc = "starting"
    /\ \A k \in at..Len(Order) : ~Startable(Order[k])
    /\ pc' = "collecting" /\ at' = 1
    /\ UNCHANGED <<sharedVars, batch, spent>>

\* buildInvocation when newCall fails: nothing is dispatched, the error is
\* recorded.
BuildFails(x) ==
    /\ "call" \in Faults
    /\ Record(x, CallError)
    /\ UNCHANGED <<dispatched, running, workVars, outcome, batch>>

\* collectStep takes the first pending invocation of the step the walk is
\* at; it leaves the step once that is finished or has none.
Collect ==
    /\ pc = "collecting" /\ at <= Len(Order) /\ HasCapacity
    /\ \E i \in Slots :
          LET x == <<Order[at], i>> IN
          /\ Pending(x)
          /\ \A h \in 1..(i - 1) : ~Pending(<<Order[at], h>>)
          /\ (HandOver(x) /\ batch' = TRUE) \/ BuildFails(x)
    /\ UNCHANGED <<pc, at, spent>>

\* Mutant: a step with nothing pending ends the walk.
NextStepBreaks ==
    /\ pc = "collecting" /\ at <= Len(Order) /\ HasCapacity
    /\ \A i \in Slots : ~Pending(<<Order[at], i>>)
    /\ at' = Len(Order) + 1
    /\ UNCHANGED <<sharedVars, pc, batch, spent>>

NextStep ==
    /\ pc = "collecting" /\ at <= Len(Order) /\ HasCapacity
    /\ \A i \in Slots : ~Pending(<<Order[at], i>>)
    /\ at' = at + 1
    /\ UNCHANGED <<sharedVars, pc, batch, spent>>

\* Pending returns its batch.
ReturnBatch ==
    /\ pc = "collecting"
    /\ at > Len(Order) \/ ~HasCapacity
    /\ pc' = "caller" /\ at' = 1
    /\ spent' = ~batch
    /\ UNCHANGED <<sharedVars, batch>>

-----------------------------------------------------------------------------
(* The caller.                                                             *)

\* Complete(id, result, err), from the goroutine that calls Pending.
Complete(x) ==
    /\ pc = "caller"
    /\ Settle(x)
    /\ spent' = FALSE
    /\ UNCHANGED <<pc, at, batch>>

\* A StepInvocation's Run returns to the caller.
HandlerReply(x) ==
    /\ HandlerReturns(x)
    /\ UNCHANGED <<pc, at, batch, spent>>

\* ExecuteFunc returns nil as its documentation asks, and run renders the
\* result.
Finish ==
    /\ pc = "caller" /\ spent /\ running = 0
    /\ pc' = "returned"
    /\ outcome' \in RunOutcomes
    /\ UNCHANGED <<stateVars, loopVars, workVars, at, batch, spent>>

\* ExecuteFunc returns an error of its own.
Abandon ==
    /\ "cancel" \in Faults
    /\ pc = "caller"
    /\ pc' = "returned" /\ outcome' = "cancelled"
    /\ UNCHANGED <<stateVars, loopVars, workVars, at, batch, spent>>

Terminated == pc = "returned" /\ UNCHANGED vars

Next ==
    \/ CallPending \/ StartReadyStep \/ EndStarting
    \/ Collect \/ NextStep \/ ReturnBatch
    \/ \E x \in Invocations : Complete(x) \/ HandlerReply(x)
    \/ Finish \/ Abandon
    \/ Terminated

Spec == Init /\ [][Next]_vars

FairSpec ==
    /\ Spec
    /\ WF_vars(CallPending \/ StartReadyStep \/ EndStarting
                \/ Collect \/ NextStep \/ ReturnBatch \/ Finish)
    /\ \A x \in Invocations : WF_vars(HandlerReply(x)) /\ WF_vars(Complete(x))

-----------------------------------------------------------------------------
(* Properties of this driver.                                              *)

\* startStep may finish a step at once: a scatter over nothing, or a `when`
\* that turns every invocation away.
MayFinishAtOnce(s) == s \in Scattered \union Conditional

\* The document lists such a step before the steps that read from it, so the
\* one walk startReadySteps makes of it misses none of them.
ProducersFirst ==
    \A j, k \in 1..Len(Order) :
        Order[j] \in Deps[Order[k]] /\ MayFinishAtOnce(Order[j]) => j < k

\* Config.ExecuteFunc: once Pending returns nil with nothing in flight there
\* is no more work, so no step is ready to start and none is launchable.
NilMeansNoMoreWork ==
    pc = "caller" /\ spent /\ running = 0 /\ ~stopped =>
        /\ \A s \in Steps : ~Startable(s)
        /\ \A x \in Invocations : ~Pending(x)

\* A caller that keeps the protocol gets out of its loop.
CallerReturns == <>(pc = "returned")
=============================================================================
