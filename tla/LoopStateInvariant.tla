------------------------- MODULE LoopStateInvariant -------------------------
(***************************************************************************)
(* What both drivers of a runLoop keep true of its state, whichever of     *)
(* them moves it: the part of their inductive invariants that does not     *)
(* speak of the driver's own control.                                      *)
(***************************************************************************)
EXTENDS LoopState

\* A handler is only ever running for an invocation that was dispatched, and
\* running counts them while the loop is there to count.
HandlersCounted ==
    /\ IsFiniteSet(inflight)
    /\ inflight \subseteq dispatched
    /\ RunningCountsHandlers
    /\ CapRespected

\* The loop is owed exactly one result by each handler: its invocation has
\* no outcome yet, and so its step cannot have finished.
HandlersAwaited ==
    outcome = "none" =>
        /\ \A x \in inflight :
              /\ job[x] = Unset /\ status[x[1]] = Unset
              /\ x[2] <= width[x[1]]
        /\ \A x \in dispatched : job[x] = Unset => x \in inflight

\* A step is untouched until it is started, and started only when fed.
StepsInOrder ==
    /\ \A s \in Steps :
          /\ ~started[s] => status[s] = Unset /\ width[s] = 0
          /\ started[s] => Ready(s)
          /\ started[s] /\ status[s] = Unset => s \in expanded
    /\ \A x \in dispatched : started[x[1]]

\* Every suspended invocation keeps the handle the caller needs, within the
\* jobs of a started step.
SuspensionsKept ==
    \A x \in Invocations :
        /\ job[x] = Suspended <=> x \in suspensions
        /\ x \in suspensions => started[x[1]] /\ x[2] <= width[x[1]]

\* Only a failure stops the loop.
StoppedByFailure == stopped => \E s \in Steps : status[s] \in Failures

StateInOrder ==
    /\ LoopTypeOK
    /\ HandlersCounted
    /\ HandlersAwaited
    /\ StepsInOrder
    /\ StepMatchesItsJobs
    /\ SuspensionsKept
    /\ StoppedByFailure

\* The status of a finished step is no better than any of its invocations',
\* and a policy that goes on after a failure never stops.
FailuresRecorded ==
    /\ \A s \in Steps : status[s] # Unset =>
          \A i \in 1..width[s] :
             /\ job[<<s, i>>] = PermanentFail => status[s] = PermanentFail
             /\ job[<<s, i>>] = TemporaryFail => status[s] \in Failures
    /\ ContinueOnError => ~stopped
=============================================================================
