--------------------------- MODULE LoopStateProofs ---------------------------
(***************************************************************************)
(* Facts about the state of a runLoop and the transitions both of its      *)
(* drivers make: each keeps the state in order, writes no outcome twice,   *)
(* and is a step the abstract run allows.  RunLoop and DispatchLoop differ *)
(* in when they make them, which their own proofs are about.               *)
(***************************************************************************)
EXTENDS LoopStateInvariant, FiniteSetTheorems, TLAPS

-----------------------------------------------------------------------------
(* Facts about the operators of LoopState.                                 *)

\* An invocation is a step of the plan and a slot.
LEMMA InvocationParts ==
    /\ \A x \in Invocations : x[1] \in Steps /\ x[2] \in Slots /\ x = <<x[1], x[2]>>
    /\ \A s \in Steps, i \in Slots : <<s, i>> \in Invocations
    /\ Slots = 1..MaxWidth /\ MaxWidth \in Nat \ {0}
BY ConfigAssumption DEF Invocations, Slots

\* Outcome: whatever a handler returns, the loop records a status of the
\* vocabulary, and a suspension exactly when it says suspended.
LEMMA OutcomeIsValid ==
    ASSUME NEW r, r.err \in BOOLEAN, r.suspension \in BOOLEAN, r.outputs \in BOOLEAN
    PROVE  /\ Outcome(r).status \in Statuses
           /\ Outcome(r).suspension <=> (Outcome(r).status = Suspended)
BY DEF Outcome, ValidResult, Statuses, Failures, Success, PermanentFail, TemporaryFail,
       Skipped, Suspended

\* finishIfComplete: a step finishes exactly when all its invocations have
\* terminal outcomes, and with success only if none of them failed.
LEMMA CompletedStatusFacts ==
    ASSUME NEW s \in Steps, NEW w \in 0..MaxWidth, NEW j \in [Invocations -> JobStatus]
    PROVE  /\ CompletedStatus(s, w, j) \in StepStatus
           /\ (CompletedStatus(s, w, j) = Unset) <=> ~AllTerminal(s, w, j)
           /\ CompletedStatus(s, w, j) \in {Success, Skipped} =>
                 \A i \in 1..w : j[<<s, i>>] \in {Success, Skipped}
<1> DEFINE found == {j[<<s, i>>] : i \in 1..w}
<1>1. \A i \in 1..w : j[<<s, i>>] \in JobStatus
  BY InvocationParts, SMT
<1>2. JobsOutcome(s, w, j) \in {PermanentFail, TemporaryFail, Skipped, Success}
  BY DEF JobsOutcome
<1>3. JobsOutcome(s, w, j) \in {Success, Skipped} => found \intersect Failures = {}
  BY DEF JobsOutcome, Failures, Success, Skipped, PermanentFail, TemporaryFail
<1>4. AllTerminal(s, w, j) /\ found \intersect Failures = {} =>
         \A i \in 1..w : j[<<s, i>>] \in {Success, Skipped}
  <2> SUFFICES ASSUME AllTerminal(s, w, j), found \intersect Failures = {}, NEW i \in 1..w
               PROVE  j[<<s, i>>] \in {Success, Skipped}
    OBVIOUS
  <2>1. j[<<s, i>>] \in found
    OBVIOUS
  <2> QED
    BY <2>1, <1>1 DEF AllTerminal, Terminal, JobStatus, Statuses
<1> QED
  BY <1>2, <1>3, <1>4 DEF CompletedStatus, StepStatus, Failures, Unset, Success, Skipped,
     PermanentFail, TemporaryFail

\* The positions of the document order cover the plan's steps.
LEMMA OrderCovers ==
    /\ Len(Order) \in Nat
    /\ \A k \in 1..Len(Order) : Order[k] \in Steps
    /\ \A s \in Steps : \E k \in 1..Len(Order) : Order[k] = s
BY PlanAssumption

\* CallError and every answer of a handler have the fields Outcome reads.
LEMMA ReturnsHaveFields ==
    \A r \in Returns \union {CallError} :
        r.err \in BOOLEAN /\ r.suspension \in BOOLEAN /\ r.outputs \in BOOLEAN
<1>1. ASSUME NEW r \in Returns
      PROVE  r.err \in BOOLEAN /\ r.suspension \in BOOLEAN /\ r.outputs \in BOOLEAN
  <2>1. r \in ResultPairs
    BY ConfigAssumption
  <2> QED
    BY <2>1 DEF ResultPairs
<1>2. /\ CallError.err \in BOOLEAN
      /\ CallError.suspension \in BOOLEAN
      /\ CallError.outputs \in BOOLEAN
  BY DEF CallError
<1> QED
  BY <1>1, <1>2

-----------------------------------------------------------------------------
(* What starting a step and recording a result change.                     *)

\* What an action leaves of step s once it is through with it: recorded in
\* the types of the state, and in agreement with its invocations.
LEMMA AdoptedJobs ==
    ASSUME LoopTypeOK, NEW s \in Steps, NEW skip
    PROVE  /\ Adopted(s, skip) \in [Invocations -> JobStatus]
           /\ \A x \in Invocations :
                 /\ x[1] # s => Adopted(s, skip)[x] = job[x]
                 /\ x[1] = s => Adopted(s, skip)[x] \in {Unset, Skipped}
BY DEF Adopted, LoopTypeOK, JobStatus, Statuses, Unset, Skipped

\* startStep changes the record of its own step and no other, leaves no
\* suspension in it, and leaves it finished exactly when nothing is pending.
LEMMA StartStepEffect ==
    ASSUME LoopTypeOK, StepsInOrder, SuspensionsKept,
           NEW s \in Steps, Startable(s), StartStep(s)
    PROVE  /\ started' = [started EXCEPT ![s] = TRUE]
           /\ status' \in [Steps -> StepStatus]
           /\ width' \in [Steps -> 0..MaxWidth]
           /\ job' \in [Invocations -> JobStatus]
           /\ expanded' \subseteq Steps /\ stopped' \in BOOLEAN
           /\ \A t \in Steps \ {s} : status'[t] = status[t] /\ width'[t] = width[t]
           /\ \A x \in Invocations :
                 /\ x[1] # s => job'[x] = job[x]
                 /\ x[1] = s => job'[x] # Suspended
           /\ expanded \subseteq expanded'
           /\ status'[s] = Unset => s \in expanded'
           /\ IF status'[s] = Unset
                THEN \E i \in 1..width'[s] : ~Terminal(job'[<<s, i>>])
                ELSE status'[s] \in {Success, Skipped} =>
                        \A i \in 1..width'[s] : job'[<<s, i>>] \in {Success, Skipped}
           /\ stopped' => stopped \/ status'[s] \in Failures
<1> USE DEF LoopTypeOK, SetStepStatus
<1>1. started' = [started EXCEPT ![s] = TRUE]
  BY DEF StartStep
<1>2. PermanentFail \in StepStatus /\ PermanentFail \in Failures
      /\ PermanentFail # Unset /\ PermanentFail \notin {Success, Skipped}
  BY DEF StepStatus, Failures, PermanentFail, Unset, Success, Skipped
<1>3. Widths(s) \subseteq 0..MaxWidth
  BY ConfigAssumption DEF Widths
<1>4. Unset # Suspended /\ Skipped # Suspended
  BY DEF Unset, Skipped, Suspended
<1>5. CASE StartFails(s)
  <2>1. \A x \in Invocations : x[1] = s => job[x] # Suspended
    BY DEF SuspensionsKept, Startable
  <2> QED
    BY <1>1, <1>2, <1>5, <2>1 DEF StartFails
<1>6. CASE GateFails(s)
  <2>1. PICK w, skip : /\ w \in Widths(s)
                       /\ width' = [width EXCEPT ![s] = w] /\ job' = Adopted(s, skip)
    BY <1>6 DEF GateFails
  <2> QED
    BY <1>1, <1>2, <1>3, <1>4, <1>6, <2>1, AdoptedJobs DEF GateFails
<1>7. CASE StartAdmits(s)
  <2>1. PICK w, skip :
           /\ w \in Widths(s)
           /\ width' = [width EXCEPT ![s] = w]
           /\ job' = Adopted(s, skip)
           /\ expanded' = expanded \union {s}
           /\ SetStepStatus(s, CompletedStatus(s, w, Adopted(s, skip)))
    BY <1>7 DEF StartAdmits
  <2> DEFINE j == Adopted(s, skip)
  <2> HIDE DEF j
  <2>2. /\ j \in [Invocations -> JobStatus]
        /\ \A x \in Invocations :
              /\ x[1] # s => j[x] = job[x]
              /\ x[1] = s => j[x] \in {Unset, Skipped}
    BY AdoptedJobs DEF j
  <2>3. /\ job' = j /\ width'[s] = w /\ w \in 0..MaxWidth
        /\ SetStepStatus(s, CompletedStatus(s, w, j))
    BY <1>3, <2>1 DEF j
  <2>4. /\ CompletedStatus(s, w, j) \in StepStatus
        /\ (CompletedStatus(s, w, j) = Unset) <=> ~AllTerminal(s, w, j)
        /\ CompletedStatus(s, w, j) \in {Success, Skipped} =>
              \A i \in 1..w : j[<<s, i>>] \in {Success, Skipped}
    BY <2>2, <2>3, CompletedStatusFacts
  <2>5. status'[s] = CompletedStatus(s, w, j) /\ status' \in [Steps -> StepStatus]
    BY <2>3, <2>4
  <2>6. IF status'[s] = Unset
          THEN \E i \in 1..width'[s] : ~Terminal(job'[<<s, i>>])
          ELSE status'[s] \in {Success, Skipped} =>
                  \A i \in 1..width'[s] : job'[<<s, i>>] \in {Success, Skipped}
    BY <2>3, <2>4, <2>5 DEF AllTerminal
  <2> QED
    BY <1>1, <1>4, <2>1, <2>2, <2>3, <2>4, <2>5, <2>6
<1> QED
  BY <1>5, <1>6, <1>7 DEF StartStep

\* record changes the record of one invocation and of its step, and leaves
\* the step unfinished as long as another invocation of it is.
LEMMA RecordEffect ==
    ASSUME LoopTypeOK, NEW x \in Invocations, NEW r \in Returns \union {CallError},
           x[2] <= width[x[1]], Record(x, r)
    PROVE  /\ job' = [job EXCEPT ![x] = Outcome(r).status]
           /\ Outcome(r).status \in Statuses
           /\ status' \in [Steps -> StepStatus] /\ stopped' \in BOOLEAN
           /\ \A t \in Steps \ {x[1]} : status'[t] = status[t]
           /\ suspensions' \subseteq Invocations
           /\ \A y \in Invocations \ {x} : y \in suspensions' <=> y \in suspensions
           /\ x \in suspensions' <=> Outcome(r).status = Suspended
           /\ \A y \in Invocations \ {x} :
                 y[1] = x[1] /\ y[2] <= width[y[1]] /\ job[y] = Unset =>
                    status'[x[1]] = Unset
           /\ IF status'[x[1]] = Unset
                THEN \E i \in 1..width[x[1]] : ~Terminal(job'[<<x[1], i>>])
                ELSE status'[x[1]] \in {Success, Skipped} =>
                        \A i \in 1..width[x[1]] : job'[<<x[1], i>>] \in {Success, Skipped}
           /\ stopped' => stopped \/ status'[x[1]] \in Failures
           /\ started' = started /\ width' = width /\ expanded' = expanded
<1> DEFINE s == x[1]
           st == Outcome(r).status
           j == [job EXCEPT ![x] = st]
<1>1. s \in Steps /\ x[2] \in Slots /\ x = <<s, x[2]>>
  BY InvocationParts
<1>2. st \in Statuses /\ (Outcome(r).suspension <=> (st = Suspended))
  <2>1. r.err \in BOOLEAN /\ r.suspension \in BOOLEAN /\ r.outputs \in BOOLEAN
    BY ReturnsHaveFields
  <2> QED
    BY <2>1, OutcomeIsValid
<1>3. /\ job' = j
      /\ suspensions' = IF Outcome(r).suspension THEN suspensions \union {x}
                                                 ELSE suspensions \ {x}
      /\ status' = [status EXCEPT ![s] = CompletedStatus(s, width[s], j)]
      /\ stopped' = (stopped \/ (CompletedStatus(s, width[s], j) \in Failures /\ ~ContinueOnError))
      /\ started' = started /\ width' = width /\ expanded' = expanded
  BY DEF Record, SetStepStatus
<1>4. j \in [Invocations -> JobStatus] /\ width[s] \in 0..MaxWidth
  BY <1>1, <1>2 DEF LoopTypeOK, JobStatus
<1> HIDE DEF j, st
<1>5. /\ CompletedStatus(s, width[s], j) \in StepStatus
      /\ (CompletedStatus(s, width[s], j) = Unset) <=> ~AllTerminal(s, width[s], j)
      /\ CompletedStatus(s, width[s], j) \in {Success, Skipped} =>
            \A i \in 1..width[s] : j[<<s, i>>] \in {Success, Skipped}
  BY <1>1, <1>4, CompletedStatusFacts
<1>6. status'[s] = CompletedStatus(s, width[s], j) /\ status' \in [Steps -> StepStatus]
      /\ \A t \in Steps \ {s} : status'[t] = status[t]
  BY <1>1, <1>3, <1>5 DEF LoopTypeOK
<1>7. ASSUME NEW y \in Invocations \ {x}, y[1] = s, y[2] <= width[y[1]], job[y] = Unset
      PROVE  status'[s] = Unset
  <2>1. y[2] \in 1..width[s] /\ y = <<s, y[2]>>
    BY <1>4, <1>7, InvocationParts
  <2>2. j[<<s, y[2]>>] = Unset
    BY <1>7, <2>1 DEF j, LoopTypeOK
  <2> QED
    BY <1>5, <1>6, <2>1, <2>2 DEF AllTerminal, Terminal
<1>8. suspensions' \subseteq Invocations
      /\ (\A y \in Invocations \ {x} : y \in suspensions' <=> y \in suspensions)
      /\ (x \in suspensions' <=> st = Suspended)
  BY <1>2, <1>3 DEF LoopTypeOK, st
<1>9. IF status'[s] = Unset
        THEN \E i \in 1..width[s] : ~Terminal(job'[<<s, i>>])
        ELSE status'[s] \in {Success, Skipped} =>
                \A i \in 1..width[s] : job'[<<s, i>>] \in {Success, Skipped}
  BY <1>3, <1>5, <1>6 DEF AllTerminal
<1>10. stopped' \in BOOLEAN /\ (stopped' => stopped \/ status'[s] \in Failures)
  BY <1>3, <1>6 DEF LoopTypeOK
<1> QED
  BY <1>2, <1>3, <1>6, <1>7, <1>8, <1>9, <1>10 DEF j, st

-----------------------------------------------------------------------------
(* Every transition keeps the state in order.                              *)

\* An empty snapshot and an idle loop are in order.
LEMMA InitInOrder == ASSUME LoopInit PROVE StateInOrder
<1> USE DEF LoopInit
<1>1. LoopTypeOK
  <2>1. status \in [Steps -> StepStatus] /\ job \in [Invocations -> JobStatus]
    BY DEF StepStatus, JobStatus
  <2>2. width \in [Steps -> 0..MaxWidth]
    BY ConfigAssumption
  <2>3. answer \in [Invocations -> Returns \union {NoAnswer}] /\ outcome \in Outcomes
    BY DEF Outcomes
  <2> QED
    BY <2>1, <2>2, <2>3 DEF LoopTypeOK
<1>2. HandlersCounted
  BY FS_EmptySet, ConfigAssumption DEF HandlersCounted, RunningCountsHandlers, CapRespected
<1>3. HandlersAwaited /\ StepsInOrder /\ StepMatchesItsJobs /\ StoppedByFailure
  BY DEF HandlersAwaited, StepsInOrder, StepMatchesItsJobs, StoppedByFailure
<1>4. SuspensionsKept
  BY DEF SuspensionsKept, Unset, Suspended
<1> QED
  BY <1>1, <1>2, <1>3, <1>4 DEF StateInOrder

\* startReadySteps: the step it starts is fed, new to the loop, and left in
\* agreement with its invocations.
LEMMA StartStepInOrder ==
    ASSUME StateInOrder, outcome = "none", NEW s \in Steps, Startable(s), StartStep(s)
    PROVE  StateInOrder'
<1> USE DEF StateInOrder
<1>2. s \in Steps
  OBVIOUS
<1>3. /\ outcome' = "none"
      /\ suspensions' = suspensions /\ dispatched' = dispatched
      /\ running' = running /\ inflight' = inflight /\ answer' = answer
  BY DEF StartStep, workVars
<1>4. Startable(s) /\ StartStep(s)
  OBVIOUS
<1>5. /\ started' = [started EXCEPT ![s] = TRUE]
      /\ status' \in [Steps -> StepStatus]
      /\ width' \in [Steps -> 0..MaxWidth]
      /\ job' \in [Invocations -> JobStatus]
      /\ expanded' \subseteq Steps /\ stopped' \in BOOLEAN
      /\ \A t \in Steps \ {s} : status'[t] = status[t] /\ width'[t] = width[t]
      /\ \A x \in Invocations :
            /\ x[1] # s => job'[x] = job[x]
            /\ x[1] = s => job'[x] # Suspended
      /\ expanded \subseteq expanded'
      /\ status'[s] = Unset => s \in expanded'
      /\ IF status'[s] = Unset
           THEN \E i \in 1..width'[s] : ~Terminal(job'[<<s, i>>])
           ELSE status'[s] \in {Success, Skipped} =>
                   \A i \in 1..width'[s] : job'[<<s, i>>] \in {Success, Skipped}
      /\ stopped' => stopped \/ status'[s] \in Failures
  BY <1>2, <1>4, StartStepEffect DEF LoopTypeOK
<1>6. ~started[s] /\ status[s] = Unset /\ Ready(s)
  BY <1>4 DEF Startable
<1>7. LoopTypeOK'
  BY <1>3, <1>5 DEF LoopTypeOK
<1>8. HandlersCounted'
  BY <1>3 DEF HandlersCounted, RunningCountsHandlers, CapRespected
<1>9. \A x \in dispatched : x \in Invocations /\ x[1] \in Steps /\ x[1] # s
  BY <1>6, InvocationParts DEF StepsInOrder, LoopTypeOK
<1>10. HandlersAwaited'
  BY <1>3, <1>5, <1>9 DEF HandlersAwaited, HandlersCounted
<1>11. \A d \in Steps : Produced(d) => d # s /\ Produced(d)'
  BY <1>5, <1>6 DEF Produced, Unset, Success, Skipped
<1>12. \A t \in Steps : Ready(t) => Ready(t)'
  BY <1>11, PlanAssumption DEF Ready
<1>13. StepsInOrder'
  <2>1. ASSUME NEW t \in Steps
        PROVE  /\ ~started'[t] => status'[t] = Unset /\ width'[t] = 0
               /\ started'[t] => Ready(t)'
               /\ started'[t] /\ status'[t] = Unset => t \in expanded'
    <3>1. CASE t = s
      BY <3>1, <1>2, <1>5, <1>6, <1>12 DEF LoopTypeOK
    <3>2. CASE t # s
      BY <3>2, <1>2, <1>5, <1>12 DEF StepsInOrder, LoopTypeOK
    <3> QED
      BY <3>1, <3>2
  <2>2. \A x \in dispatched' : started'[x[1]]
    BY <1>3, <1>5, <1>9 DEF StepsInOrder, LoopTypeOK
  <2> QED
    BY <2>1, <2>2 DEF StepsInOrder
<1>14. StepMatchesItsJobs'
  <2> SUFFICES ASSUME NEW t \in Steps, started'[t]
               PROVE  IF status'[t] = Unset
                        THEN \E i \in 1..width'[t] : ~Terminal(job'[<<t, i>>])
                        ELSE Produced(t)' =>
                               \A i \in 1..width'[t] : job'[<<t, i>>] \in {Success, Skipped}
    BY DEF StepMatchesItsJobs
  <2>1. CASE t = s
    BY <2>1, <1>5 DEF Produced
  <2>2. CASE t # s
    <3>1. started[t] /\ status'[t] = status[t] /\ width'[t] = width[t]
      BY <2>2, <1>5 DEF LoopTypeOK
    <3>2. \A i \in 1..width[t] : job'[<<t, i>>] = job[<<t, i>>]
      BY <2>2, <1>5, InvocationParts DEF LoopTypeOK
    <3> QED
      BY <3>1, <3>2 DEF StepMatchesItsJobs, Produced
  <2> QED
    BY <2>1, <2>2
<1>15. SuspensionsKept'
  <2> SUFFICES ASSUME NEW x \in Invocations
               PROVE  /\ job'[x] = Suspended <=> x \in suspensions'
                      /\ x \in suspensions' => started'[x[1]] /\ x[2] <= width'[x[1]]
    BY DEF SuspensionsKept
  <2>1. CASE x[1] = s
    BY <2>1, <1>3, <1>5, <1>6 DEF SuspensionsKept
  <2>2. CASE x[1] # s
    BY <2>2, <1>3, <1>5, InvocationParts DEF SuspensionsKept, LoopTypeOK
  <2> QED
    BY <2>1, <2>2
<1>16. StoppedByFailure'
  <2>1. \A t \in Steps : status[t] \in Failures => status'[t] = status[t]
    BY <1>5, <1>6 DEF Failures, Unset, PermanentFail, TemporaryFail
  <2> QED
    BY <1>2, <1>5, <2>1 DEF StoppedByFailure
<1> QED
  BY <1>7, <1>8, <1>10, <1>13, <1>14, <1>15, <1>16 DEF StateInOrder

\* launch: the counter, the goroutine and the dispatched mark move together.
LEMMA HandOverInOrder ==
    ASSUME StateInOrder, outcome = "none", NEW x \in Invocations, Pending(x), HasCapacity, HandOver(x)
    PROVE  StateInOrder'
<1> USE DEF StateInOrder
<1>1. /\ outcome' = "none"
      /\ started' = started /\ status' = status /\ width' = width /\ job' = job
      /\ suspensions' = suspensions /\ expanded' = expanded
      /\ stopped' = stopped /\ answer' = answer
      /\ dispatched' = dispatched \union {x}
      /\ running' = running + 1
      /\ inflight' = inflight \union {x}
  BY DEF HandOver, stateVars
<1>2. LoopTypeOK'
  BY <1>1 DEF LoopTypeOK
<1>3. HandlersCounted'
  <2>1. x \notin inflight /\ IsFiniteSet(inflight)
    BY DEF Pending, HandlersCounted
  <2>2. /\ IsFiniteSet(inflight \union {x})
        /\ Cardinality(inflight \union {x}) = Cardinality(inflight) + 1
    BY <2>1, FS_AddElement
  <2>3. running = Cardinality(inflight) /\ running \in Nat /\ MaxParallel \in Nat
    BY <1>1, ConfigAssumption DEF HandlersCounted, RunningCountsHandlers, LoopTypeOK
  <2> QED
    BY <1>1, <2>2, <2>3 DEF HandlersCounted, RunningCountsHandlers, CapRespected, HasCapacity
<1>4. HandlersAwaited'
  BY <1>1 DEF HandlersAwaited, Pending
<1>5. StepsInOrder'
  BY <1>1 DEF StepsInOrder, Pending, Ready, Produced
<1>6. StepMatchesItsJobs' /\ SuspensionsKept' /\ StoppedByFailure'
  BY <1>1 DEF StepMatchesItsJobs, SuspensionsKept, StoppedByFailure, Produced
<1> QED
  BY <1>2, <1>3, <1>4, <1>5, <1>6 DEF StateInOrder

\* record, for the result of an invocation the loop waits for: what it
\* preserves of the part of the invariant that speaks of steps.
LEMMA RecordInOrder ==
    ASSUME StateInOrder, outcome = "none", outcome' = "none",
           NEW x \in Invocations, NEW r \in Returns \union {CallError},
           Record(x, r),
           started[x[1]], status[x[1]] = Unset, job[x] = Unset, x[2] <= width[x[1]],
           dispatched' \in {dispatched, dispatched \union {x}},
           inflight' = inflight \ {x}
    PROVE  /\ StepsInOrder' /\ StepMatchesItsJobs' /\ SuspensionsKept'
           /\ StoppedByFailure' /\ HandlersAwaited'
           /\ started' \in [Steps -> BOOLEAN] /\ status' \in [Steps -> StepStatus]
           /\ width' \in [Steps -> 0..MaxWidth] /\ job' \in [Invocations -> JobStatus]
           /\ suspensions' \subseteq Invocations /\ expanded' \subseteq Steps
           /\ stopped' \in BOOLEAN
           /\ dispatched' \subseteq Invocations /\ inflight' \subseteq Invocations
<1> DEFINE s == x[1]
           st == Outcome(r).status
<1> USE DEF StateInOrder
<1>1. s \in Steps /\ x = <<s, x[2]>>
  BY InvocationParts
<1>2. /\ job' = [job EXCEPT ![x] = st]
      /\ st \in Statuses
      /\ status' \in [Steps -> StepStatus] /\ stopped' \in BOOLEAN
      /\ \A t \in Steps \ {s} : status'[t] = status[t]
      /\ suspensions' \subseteq Invocations
      /\ \A y \in Invocations \ {x} : y \in suspensions' <=> y \in suspensions
      /\ x \in suspensions' <=> st = Suspended
      /\ \A y \in Invocations \ {x} :
            y[1] = s /\ y[2] <= width[y[1]] /\ job[y] = Unset => status'[s] = Unset
      /\ IF status'[s] = Unset
           THEN \E i \in 1..width[s] : ~Terminal(job'[<<s, i>>])
           ELSE status'[s] \in {Success, Skipped} =>
                   \A i \in 1..width[s] : job'[<<s, i>>] \in {Success, Skipped}
      /\ stopped' => stopped \/ status'[s] \in Failures
      /\ started' = started /\ width' = width /\ expanded' = expanded
  BY RecordEffect DEF LoopTypeOK
<1> HIDE DEF s, st
<1>3. s = x[1] /\ started[s] /\ status[s] = Unset
  BY DEF s
<1>4. /\ job \in [Invocations -> JobStatus] /\ status \in [Steps -> StepStatus]
      /\ dispatched \subseteq Invocations /\ inflight \subseteq Invocations
      /\ inflight \subseteq dispatched
  BY DEF LoopTypeOK, HandlersCounted
<1>5. st # Unset /\ st \in JobStatus
  BY <1>2 DEF Statuses, Failures, Unset, Success, Skipped, Suspended, PermanentFail,
     TemporaryFail, JobStatus
<1>6. \A d \in Steps : Produced(d) => Produced(d)'
  BY <1>1, <1>2, <1>3 DEF Produced, Unset, Success, Skipped
<1>7. StepsInOrder'
  <2>1. \A t \in Steps : Ready(t) => Ready(t)'
    BY <1>6, PlanAssumption DEF Ready
  <2>2. \A y \in dispatched' : started'[y[1]]
    BY <1>2, <1>3 DEF StepsInOrder
  <2>3. \A t \in Steps : /\ ~started'[t] => status'[t] = Unset /\ width'[t] = 0
                         /\ started'[t] /\ status'[t] = Unset => t \in expanded'
    BY <1>2, <1>3 DEF StepsInOrder
  <2>4. \A t \in Steps : started'[t] => Ready(t)'
    BY <1>2, <2>1 DEF StepsInOrder
  <2> QED
    BY <2>2, <2>3, <2>4 DEF StepsInOrder
<1>8. StepMatchesItsJobs'
  <2> SUFFICES ASSUME NEW t \in Steps, started'[t]
               PROVE  IF status'[t] = Unset
                        THEN \E i \in 1..width'[t] : ~Terminal(job'[<<t, i>>])
                        ELSE Produced(t)' =>
                               \A i \in 1..width'[t] : job'[<<t, i>>] \in {Success, Skipped}
    BY DEF StepMatchesItsJobs
  <2>1. CASE t = s
    BY <2>1, <1>2 DEF Produced
  <2>2. CASE t # s
    <3>1. started[t] /\ status'[t] = status[t] /\ width'[t] = width[t]
      BY <2>2, <1>2
    <3>2. \A i \in 1..width[t] : job'[<<t, i>>] = job[<<t, i>>]
      <4>1. \A i \in 1..width[t] : <<t, i>> \in Invocations /\ <<t, i>> # x
        BY <2>2, <1>1, InvocationParts DEF LoopTypeOK
      <4> QED
        BY <4>1, <1>2, <1>4
    <3> QED
      BY <3>1, <3>2 DEF StepMatchesItsJobs, Produced
  <2> QED
    BY <2>1, <2>2
<1>9. SuspensionsKept'
  <2> SUFFICES ASSUME NEW y \in Invocations
               PROVE  /\ job'[y] = Suspended <=> y \in suspensions'
                      /\ y \in suspensions' => started'[y[1]] /\ y[2] <= width'[y[1]]
    BY DEF SuspensionsKept
  <2>1. CASE y = x
    BY <2>1, <1>2, <1>3, <1>4
  <2>2. CASE y # x
    BY <2>2, <1>2, <1>4 DEF SuspensionsKept
  <2> QED
    BY <2>1, <2>2
<1>10. StoppedByFailure'
  <2>1. \A t \in Steps : status[t] \in Failures => status'[t] = status[t]
    BY <1>2, <1>3 DEF Failures, Unset, PermanentFail, TemporaryFail
  <2> QED
    BY <1>1, <1>2, <2>1 DEF StoppedByFailure
<1>11. HandlersAwaited'
  <2>1. ASSUME NEW y \in inflight'
        PROVE  job'[y] = Unset /\ status'[y[1]] = Unset /\ y[2] <= width'[y[1]]
    <3>1. y \in inflight /\ y # x /\ y \in Invocations /\ y[1] \in Steps
      BY <2>1, <1>4, InvocationParts
    <3>2. job[y] = Unset /\ status[y[1]] = Unset /\ y[2] <= width[y[1]]
      BY <3>1 DEF HandlersAwaited
    <3>3. job'[y] = Unset /\ y[2] <= width'[y[1]]
      BY <3>1, <3>2, <1>2, <1>4
    <3>4. status'[y[1]] = Unset
      BY <3>1, <3>2, <1>2
    <3> QED
      BY <3>3, <3>4
  <2>2. ASSUME NEW y \in dispatched', job'[y] = Unset
        PROVE  y \in inflight'
    <3>1. y # x /\ y \in dispatched
      BY <2>2, <1>2, <1>4, <1>5
    <3>2. job[y] = Unset
      BY <3>1, <2>2, <1>2, <1>4
    <3> QED
      BY <3>1, <3>2 DEF HandlersAwaited
  <2> QED
    BY <2>1, <2>2 DEF HandlersAwaited
<1>12. job' \in [Invocations -> JobStatus]
  BY <1>2, <1>4, <1>5
<1> QED
  BY <1>2, <1>4, <1>7, <1>8, <1>9, <1>10, <1>11, <1>12 DEF LoopTypeOK

\* launch and buildInvocation when the call cannot be built: no handler, the
\* error is recorded.
LEMMA UnbuiltInOrder ==
    ASSUME StateInOrder, outcome = "none", outcome' = "none",
           NEW x \in Invocations, Pending(x), Record(x, CallError),
           dispatched' \in {dispatched, dispatched \union {x}},
           UNCHANGED <<running, workVars>>
    PROVE  StateInOrder'
<1> USE DEF StateInOrder
<1>1. running' = running /\ inflight' = inflight /\ answer' = answer
  BY DEF workVars
<1>2. /\ started[x[1]] /\ status[x[1]] = Unset /\ job[x] = Unset /\ x[2] <= width[x[1]]
      /\ x \notin inflight
  BY DEF Pending, HandlersCounted
<1>3. inflight' = inflight \ {x}
  BY <1>1, <1>2
<1>4. /\ StepsInOrder' /\ StepMatchesItsJobs' /\ SuspensionsKept'
      /\ StoppedByFailure' /\ HandlersAwaited'
      /\ started' \in [Steps -> BOOLEAN] /\ status' \in [Steps -> StepStatus]
      /\ width' \in [Steps -> 0..MaxWidth] /\ job' \in [Invocations -> JobStatus]
      /\ suspensions' \subseteq Invocations /\ expanded' \subseteq Steps
      /\ stopped' \in BOOLEAN
      /\ dispatched' \subseteq Invocations /\ inflight' \subseteq Invocations
  BY <1>2, <1>3, RecordInOrder
<1>5. LoopTypeOK'
  BY <1>1, <1>4 DEF LoopTypeOK
<1>6. HandlersCounted'
  BY <1>1 DEF HandlersCounted, RunningCountsHandlers, CapRespected
<1> QED
  BY <1>4, <1>5, <1>6 DEF StateInOrder

\* A loop that has not returned and takes a result: the invocation is one it
\* waits for.
LEMMA InflightUnrecorded ==
    ASSUME StateInOrder, outcome = "none", NEW x \in inflight
    PROVE  /\ x \in Invocations /\ x \in dispatched /\ started[x[1]]
           /\ job[x] = Unset /\ status[x[1]] = Unset /\ x[2] <= width[x[1]]
BY DEF StateInOrder, HandlersCounted, HandlersAwaited, StepsInOrder, LoopTypeOK

\* execute and Complete: one result is taken and recorded.
LEMMA SettleInOrder ==
    ASSUME StateInOrder, outcome = "none", NEW x \in inflight, Settle(x)
    PROVE  StateInOrder'
<1> USE DEF StateInOrder
<1>2. /\ outcome' = "none"
      /\ running' = running - 1
      /\ Record(x, answer[x])
      /\ inflight' = inflight \ {x}
      /\ answer' = [answer EXCEPT ![x] = NoAnswer]
      /\ dispatched' = dispatched
  BY DEF Settle
<1>3. /\ x \in Invocations /\ x \in dispatched
      /\ answer[x] \in Returns \union {CallError}
  BY DEF Settle, LoopTypeOK, HandlersCounted
<1>4. started[x[1]] /\ status[x[1]] = Unset /\ job[x] = Unset /\ x[2] <= width[x[1]]
  BY InflightUnrecorded
<1>5. /\ StepsInOrder' /\ StepMatchesItsJobs' /\ SuspensionsKept'
      /\ StoppedByFailure' /\ HandlersAwaited'
      /\ started' \in [Steps -> BOOLEAN] /\ status' \in [Steps -> StepStatus]
      /\ width' \in [Steps -> 0..MaxWidth] /\ job' \in [Invocations -> JobStatus]
      /\ suspensions' \subseteq Invocations /\ expanded' \subseteq Steps
      /\ stopped' \in BOOLEAN
      /\ dispatched' \subseteq Invocations /\ inflight' \subseteq Invocations
  BY <1>2, <1>3, <1>4, RecordInOrder
<1>6. LoopTypeOK'
  <2>1. running' \in Nat
    <3>1. Cardinality(inflight) \in Nat /\ Cardinality(inflight) # 0
      BY FS_CardinalityType, FS_EmptySet DEF HandlersCounted
    <3> QED
      BY <1>2, <3>1 DEF LoopTypeOK, HandlersCounted, RunningCountsHandlers
  <2>2. answer' \in [Invocations -> Returns \union {NoAnswer}]
    BY <1>2 DEF LoopTypeOK
  <2> QED
    BY <1>2, <1>5, <2>1, <2>2 DEF LoopTypeOK
<1>7. HandlersCounted'
  <2>1. /\ IsFiniteSet(inflight \ {x})
        /\ Cardinality(inflight \ {x}) = Cardinality(inflight) - 1
    BY FS_RemoveElement DEF HandlersCounted
  <2>2. running = Cardinality(inflight) /\ running \in Nat /\ MaxParallel \in Nat
    BY <1>2, ConfigAssumption DEF HandlersCounted, RunningCountsHandlers, LoopTypeOK
  <2> QED
    BY <1>2, <1>3, <2>1, <2>2 DEF HandlersCounted, RunningCountsHandlers, CapRespected
<1> QED
  BY <1>5, <1>6, <1>7 DEF StateInOrder

\* A handler's return, and every step that moves only a driver's control or
\* ends the run.
LEMMA OtherStepsInOrder ==
    ASSUME StateInOrder, UNCHANGED <<stateVars, loopVars, inflight>>,
           answer' \in [Invocations -> Returns \union {NoAnswer}],
           outcome' \in Outcomes, outcome' = "none" => outcome = "none"
    PROVE  StateInOrder'
<1> USE DEF StateInOrder, stateVars, loopVars
<1>1. LoopTypeOK'
  BY DEF LoopTypeOK
<1>2. HandlersCounted' /\ HandlersAwaited'
  BY DEF HandlersCounted, RunningCountsHandlers, CapRespected, HandlersAwaited
<1>3. StepsInOrder'
  BY DEF StepsInOrder, Ready, Produced
<1>4. StepMatchesItsJobs' /\ SuspensionsKept' /\ StoppedByFailure'
  BY DEF StepMatchesItsJobs, SuspensionsKept, StoppedByFailure, Produced
<1> QED
  BY <1>1, <1>2, <1>3, <1>4 DEF StateInOrder

LEMMA AnswerInOrder ==
    ASSUME StateInOrder, NEW x \in Invocations, HandlerReturns(x)
    PROVE  StateInOrder'
<1>1. answer' \in [Invocations -> Returns \union {NoAnswer}]
  BY DEF HandlerReturns, StateInOrder, LoopTypeOK
<1> QED
  BY <1>1, OtherStepsInOrder DEF HandlerReturns, StateInOrder, LoopTypeOK

\* The goroutine of a handler whose loop is gone ends.
LEMMA DropInOrder ==
    ASSUME StateInOrder, outcome # "none", UNCHANGED <<stateVars, loopVars, outcome>>,
           NEW x \in inflight, inflight' = inflight \ {x},
           answer' = [answer EXCEPT ![x] = NoAnswer]
    PROVE  StateInOrder'
<1> USE DEF StateInOrder, stateVars, loopVars
<1>1. LoopTypeOK'
  <2>1. answer' \in [Invocations -> Returns \union {NoAnswer}]
    BY DEF LoopTypeOK
  <2> QED
    BY <2>1 DEF LoopTypeOK
<1>2. HandlersCounted'
  <2>1. /\ IsFiniteSet(inflight \ {x})
        /\ Cardinality(inflight \ {x}) = Cardinality(inflight) - 1
        /\ Cardinality(inflight) \in Nat
    BY FS_RemoveElement, FS_CardinalityType DEF HandlersCounted
  <2> QED
    BY <2>1, ConfigAssumption DEF HandlersCounted, RunningCountsHandlers, CapRespected
<1>3. HandlersAwaited'
  BY DEF HandlersAwaited
<1>4. StepsInOrder'
  BY DEF StepsInOrder, Ready, Produced
<1>5. StepMatchesItsJobs' /\ SuspensionsKept' /\ StoppedByFailure'
  BY DEF StepMatchesItsJobs, SuspensionsKept, StoppedByFailure, Produced
<1> QED
  BY <1>1, <1>2, <1>3, <1>4, <1>5 DEF StateInOrder

\* ready: a handler runs for a started step, and that was fed.
LEMMA RunningFed == ASSUME StateInOrder PROVE InputsProduced
<1>1. ASSUME NEW x \in inflight
      PROVE  Ready(x[1])
  <2>1. x \in dispatched /\ x[1] \in Steps
    BY InvocationParts DEF StateInOrder, HandlersCounted, LoopTypeOK
  <2> QED
    BY <2>1 DEF StateInOrder, StepsInOrder
<1> QED
  BY <1>1 DEF InputsProduced, Ready

-----------------------------------------------------------------------------
(* No failure is lost.                                                     *)

\* jobsOutcome: a step that finishes is no better than its worst invocation.
LEMMA CompletedStatusWorst ==
    ASSUME NEW s, NEW w, NEW j, CompletedStatus(s, w, j) # Unset, NEW i \in 1..w
    PROVE  /\ j[<<s, i>>] = PermanentFail => CompletedStatus(s, w, j) = PermanentFail
           /\ j[<<s, i>>] = TemporaryFail => CompletedStatus(s, w, j) \in Failures
<1>1. CompletedStatus(s, w, j) = JobsOutcome(s, w, j)
  BY DEF CompletedStatus
<1>2. j[<<s, i>>] \in {j[<<s, h>>] : h \in 1..w}
  OBVIOUS
<1> QED
  BY <1>1, <1>2 DEF JobsOutcome, Failures

\* What FailuresRecorded says of one step.
StepRecordsFailures(s) ==
    status[s] # Unset =>
        \A i \in 1..width[s] :
            /\ job[<<s, i>>] = PermanentFail => status[s] = PermanentFail
            /\ job[<<s, i>>] = TemporaryFail => status[s] \in Failures

\* A step whose record does not change goes on recording its failures.
LEMMA SameStepRecordsFailures ==
    ASSUME LoopTypeOK, NEW s \in Steps, StepRecordsFailures(s),
           status'[s] = status[s], width'[s] = width[s],
           \A i \in Slots : job'[<<s, i>>] = job[<<s, i>>]
    PROVE  StepRecordsFailures(s)'
<1>1. width[s] \in 0..MaxWidth
  BY DEF LoopTypeOK
<1>2. \A i \in 1..width[s] : job'[<<s, i>>] = job[<<s, i>>]
  BY <1>1, InvocationParts
<1> QED
  BY <1>2 DEF StepRecordsFailures

LEMMA StartStepRecordsFailures ==
    ASSUME StateInOrder, FailuresRecorded, NEW s \in Steps, Startable(s), StartStep(s)
    PROVE  FailuresRecorded'
<1>1. /\ \A t \in Steps \ {s} : status'[t] = status[t] /\ width'[t] = width[t]
      /\ \A x \in Invocations : x[1] # s => job'[x] = job[x]
  BY StartStepEffect DEF StateInOrder
<1>2. PermanentFail \in Failures
  BY DEF Failures
<1>3. StepRecordsFailures(s)' /\ (ContinueOnError => ~stopped')
  <2>1. CASE StartFails(s) \/ GateFails(s)
    <3>1. SetStepStatus(s, PermanentFail)
      BY <2>1 DEF StartFails, GateFails
    <3>2. status'[s] = PermanentFail /\ (ContinueOnError => ~stopped')
      BY <3>1 DEF SetStepStatus, StateInOrder, LoopTypeOK, FailuresRecorded
    <3> QED
      BY <1>2, <3>2 DEF StepRecordsFailures
  <2>2. CASE StartAdmits(s)
    <3>1. PICK w, skip :
             /\ w \in Widths(s)
             /\ width' = [width EXCEPT ![s] = w]
             /\ job' = Adopted(s, skip)
             /\ SetStepStatus(s, CompletedStatus(s, w, Adopted(s, skip)))
      BY <2>2 DEF StartAdmits
    <3>2. /\ status'[s] = CompletedStatus(s, w, job') /\ width'[s] = w
          /\ ContinueOnError => ~stopped'
      BY <3>1 DEF SetStepStatus, StateInOrder, LoopTypeOK, FailuresRecorded
    <3> QED
      BY <3>2, CompletedStatusWorst DEF StepRecordsFailures
  <2> QED
    BY <2>1, <2>2 DEF StartStep
<1>4. ASSUME NEW t \in Steps, t # s
      PROVE  StepRecordsFailures(t)'
  <2>1. \A i \in Slots : job'[<<t, i>>] = job[<<t, i>>]
    BY <1>1, <1>4, InvocationParts
  <2>2. StepRecordsFailures(t)
    BY DEF FailuresRecorded, StepRecordsFailures
  <2> QED
    BY <1>1, <1>4, <2>1, <2>2, SameStepRecordsFailures DEF StateInOrder
<1> QED
  BY <1>3, <1>4 DEF FailuresRecorded, StepRecordsFailures

LEMMA RecordRecordsFailures ==
    ASSUME StateInOrder, FailuresRecorded, NEW x \in Invocations, NEW r, Record(x, r)
    PROVE  FailuresRecorded'
<1>1. x[1] \in Steps /\ x = <<x[1], x[2]>>
  BY InvocationParts
<1>2. /\ job' = [job EXCEPT ![x] = Outcome(r).status] /\ width' = width
      /\ SetStepStatus(x[1], CompletedStatus(x[1], width[x[1]], job'))
  BY DEF Record
<1>3. /\ status'[x[1]] = CompletedStatus(x[1], width'[x[1]], job')
      /\ \A t \in Steps \ {x[1]} : status'[t] = status[t]
      /\ ContinueOnError => ~stopped'
  BY <1>1, <1>2 DEF SetStepStatus, StateInOrder, LoopTypeOK, FailuresRecorded
<1>4. StepRecordsFailures(x[1])'
  BY <1>3, CompletedStatusWorst DEF StepRecordsFailures
<1>5. ASSUME NEW t \in Steps, t # x[1]
      PROVE  StepRecordsFailures(t)'
  <2>1. \A i \in Slots : <<t, i>> \in Invocations /\ <<t, i>> # x
    BY <1>1, <1>5, InvocationParts
  <2>2. \A i \in Slots : job'[<<t, i>>] = job[<<t, i>>]
    BY <1>2, <2>1 DEF StateInOrder, LoopTypeOK
  <2>3. StepRecordsFailures(t)
    BY DEF FailuresRecorded, StepRecordsFailures
  <2> QED
    BY <1>2, <1>3, <1>5, <2>2, <2>3, SameStepRecordsFailures DEF StateInOrder
<1> QED
  BY <1>3, <1>4, <1>5 DEF FailuresRecorded, StepRecordsFailures

\* result: the verdict of a run that returns is its worst failure.
LEMMA VerdictOutranks ==
    ASSUME LoopTypeOK, FailuresRecorded, outcome' \in RunOutcomes, UNCHANGED stateVars
    PROVE  FailureOutranks'
<1> USE DEF stateVars
<1>1. ASSUME NEW x \in Invocations, x[2] <= width[x[1]], status[x[1]] # Unset
      PROVE  /\ job[x] = PermanentFail => status[x[1]] = PermanentFail
             /\ job[x] = TemporaryFail => status[x[1]] \in Failures
  <2>1. x[1] \in Steps /\ x = <<x[1], x[2]>> /\ x[2] \in 1..width[x[1]]
    BY <1>1, InvocationParts DEF LoopTypeOK
  <2> QED
    BY <1>1, <2>1 DEF FailuresRecorded
<1>2. \A x \in Invocations : x[1] \in Steps
  BY InvocationParts
<1>3. outcome' = TemporaryFail => \A s \in Steps : status[s] # PermanentFail
  BY DEF RunOutcomes, TemporaryFail, PermanentFail, Suspended, Success
<1>4. outcome' \in {Success, Suspended} => \A s \in Steps : status[s] \notin Failures
  BY DEF RunOutcomes, TemporaryFail, PermanentFail, Suspended, Success, Failures
<1> DEFINE settled == {job[x] : x \in {y \in Invocations :
                                          y[2] <= width[y[1]] /\ status[y[1]] # Unset}}
<1>5. outcome' = TemporaryFail => PermanentFail \notin settled
  BY <1>1, <1>2, <1>3
<1>6. outcome' \in {Success, Suspended} => settled \intersect Failures = {}
  BY <1>1, <1>2, <1>4 DEF Failures
<1> QED
  BY <1>5, <1>6 DEF FailureOutranks

\* A run that has not returned, or was given up, has said nothing yet.
LEMMA NoVerdict ==
    ASSUME outcome \in {"none", "cancelled"}
    PROVE  ResultIsComplete /\ FailureOutranks /\ IndependentBranchesFinish
BY DEF ResultIsComplete, FailureOutranks, IndependentBranchesFinish, Failures,
       Success, Suspended, PermanentFail, TemporaryFail

\* What was recorded and reported does not change after a run returned.
LEMMA SameVerdict ==
    ASSUME UNCHANGED <<stateVars, outcome>>
    PROVE  /\ ResultIsComplete => ResultIsComplete'
           /\ FailureOutranks => FailureOutranks'
           /\ IndependentBranchesFinish => IndependentBranchesFinish'
<1> USE DEF stateVars, Produced, Blocked, Waiting
<1>1. ResultIsComplete => ResultIsComplete'
  BY DEF ResultIsComplete
<1>2. FailureOutranks => FailureOutranks'
  BY DEF FailureOutranks
<1>3. IndependentBranchesFinish => IndependentBranchesFinish'
  BY DEF IndependentBranchesFinish
<1> QED
  BY <1>1, <1>2, <1>3

-----------------------------------------------------------------------------
(* A loop with nothing left to start or launch, and no handler out.        *)

\* Every unfinished step waits for a suspension, its own or one its inputs
\* come from, or reads from a step that failed.
LEMMA NothingLeft ==
    ASSUME StateInOrder, outcome = "none", inflight = {},
           \A s \in Steps : ~Startable(s), \A x \in Invocations : ~Pending(x)
    PROVE  /\ \A s \in Steps : started[s] /\ status[s] = Unset =>
                  \E i \in 1..width[s] : <<s, i>> \in Waiting
           /\ \A s \in Steps : status[s] = Unset =>
                  Blocked(s) \/ \E d \in Deps[s] : status[d] \in Failures
<1> USE DEF StateInOrder
<1>1. ASSUME NEW s \in Steps, started[s], status[s] = Unset
      PROVE  \E i \in 1..width[s] : <<s, i>> \in Waiting
  <2>1. PICK i \in 1..width[s] : ~Terminal(job[<<s, i>>])
    BY <1>1 DEF StepMatchesItsJobs
  <2>2. <<s, i>> \in Invocations /\ i <= width[s]
    BY InvocationParts DEF LoopTypeOK
  <2>3. job[<<s, i>>] # Unset
    BY <1>1, <2>2 DEF Pending, StepsInOrder, HandlersAwaited
  <2>4. job[<<s, i>>] = Suspended
    BY <2>1, <2>3 DEF Terminal
  <2> QED
    BY <2>2, <2>4 DEF SuspensionsKept, Waiting
<1>2. ASSUME NEW s \in Steps, status[s] = Unset, ~started[s]
      PROVE  Blocked(s) \/ \E d \in Deps[s] : status[d] \in Failures
  <2>1. PICK d \in Deps[s] : ~Produced(d)
    BY <1>2 DEF Startable, Ready
  <2>2. d \in Steps
    BY PlanAssumption
  <2>3. status[d] = Unset \/ status[d] \in Failures
    BY <2>1, <2>2 DEF LoopTypeOK, StepStatus, Produced
  <2> QED
    BY <2>1, <2>3 DEF Blocked
<1> QED
  BY <1>1, <1>2 DEF Blocked

\* Without a failure that is a suspension, and without one no step is left.
LEMMA QuietLoop ==
    ASSUME StateInOrder, outcome = "none", inflight = {},
           \A s \in Steps : ~Startable(s), \A x \in Invocations : ~Pending(x),
           \A s \in Steps : status[s] \notin Failures
    PROVE  /\ \A s \in Steps : Produced(s) \/ (status[s] = Unset /\ Blocked(s))
           /\ Waiting = {} => \A s \in Steps : Produced(s)
<1>1. \A s \in Steps : Produced(s) \/ status[s] = Unset
  BY DEF StateInOrder, LoopTypeOK, StepStatus, Failures, Produced
<1>2. ASSUME NEW s \in Steps, status[s] = Unset
      PROVE  Blocked(s)
  <2>1. \A d \in Deps[s] : status[d] \notin Failures
    BY PlanAssumption
  <2> QED
    BY <1>2, <2>1, NothingLeft
<1>3. ASSUME Waiting = {}, NEW t \in Steps, ~Produced(t)
      PROVE  FALSE
  <2> DEFINE left == {s \in Steps : ~Produced(s)}
  <2>1. PICK s \in left : Deps[s] \intersect left = {}
    BY <1>3, AcyclicAssumption
  <2>2. Ready(s) /\ s \in Steps
    BY <2>1, PlanAssumption DEF Ready
  <2>3. status[s] = Unset
    BY <1>1, <2>1
  <2>4. ~started[s]
    BY <1>3, <2>2, <2>3, NothingLeft
  <2> QED
    BY <2>2, <2>3, <2>4 DEF Startable
<1> QED
  BY <1>1, <1>2, <1>3

\* OnErrorContinue: of such a loop no branch is unfinished for want of trying.
LEMMA BranchesFinish ==
    ASSUME StateInOrder, ContinueOnError => ~stopped, outcome = "none", inflight = {},
           ~stopped => /\ \A s \in Steps : ~Startable(s)
                       /\ \A x \in Invocations : ~Pending(x),
           UNCHANGED stateVars
    PROVE  IndependentBranchesFinish'
<1> SUFFICES ASSUME ContinueOnError, NEW s \in Steps, status[s] = Unset
             PROVE  Blocked(s) \/ \E d \in Deps[s] : status[d] \in Failures
  BY DEF IndependentBranchesFinish, Blocked, Waiting, stateVars
<1> QED
  BY NothingLeft

\* result: what is reported of such a loop is what happened.
LEMMA VerdictComplete ==
    ASSUME StateInOrder, outcome = "none", inflight = {},
           ~stopped => /\ \A s \in Steps : ~Startable(s)
                       /\ \A x \in Invocations : ~Pending(x),
           outcome' \in RunOutcomes, UNCHANGED stateVars
    PROVE  ResultIsComplete'
<1> USE DEF stateVars
<1>1. CASE \E s \in Steps : status[s] \in Failures
  <2>1. outcome' \in Failures
    BY <1>1 DEF RunOutcomes, Failures
  <2> QED
    BY <2>1 DEF ResultIsComplete, Failures, PermanentFail, TemporaryFail, Success, Suspended
<1>2. CASE \A s \in Steps : status[s] \notin Failures
  <2>1. ~stopped
    BY <1>2 DEF StateInOrder, StoppedByFailure
  <2>2. /\ \A s \in Steps : Produced(s) \/ (status[s] = Unset /\ Blocked(s))
        /\ Waiting = {} => \A s \in Steps : Produced(s)
    BY <1>2, <2>1, QuietLoop
  <2>3. CASE Waiting # {}
    <3>1. outcome' = Suspended
      BY <1>2, <2>3 DEF RunOutcomes, Failures
    <3> QED
      BY <2>2, <3>1 DEF ResultIsComplete, Produced, Blocked, Waiting, Success, Suspended
  <2>4. CASE Waiting = {}
    <3>1. outcome' \in {Success, "badOutputs"}
      BY <1>2, <2>2, <2>4, PlanAssumption DEF RunOutcomes, Failures
    <3> QED
      BY <2>2, <2>4, <3>1 DEF ResultIsComplete, Produced, Success, Suspended
  <2> QED
    BY <2>3, <2>4
<1> QED
  BY <1>1, <1>2

-----------------------------------------------------------------------------
(* Outcomes are final.                                                     *)

\* What OutcomesAreFinal asks of one step.
KeepsOutcomes ==
    /\ \A s \in Steps : status[s] # Unset => status'[s] = status[s]
    /\ \A x \in Invocations :
          x[2] <= width[x[1]] /\ Terminal(job[x]) => job'[x] = job[x]

\* startStep writes to a step that has nothing recorded yet.
LEMMA StartKeepsOutcomes ==
    ASSUME StateInOrder, NEW s \in Steps, Startable(s), StartStep(s)
    PROVE  KeepsOutcomes
<1>1. /\ \A t \in Steps \ {s} : status'[t] = status[t]
      /\ \A x \in Invocations : x[1] # s => job'[x] = job[x]
  BY StartStepEffect DEF StateInOrder
<1>2. status[s] = Unset /\ width[s] = 0
  BY DEF StateInOrder, StepsInOrder, Startable
<1>3. \A x \in Invocations : x[1] = s => ~(x[2] <= width[x[1]])
  BY <1>2, InvocationParts
<1> QED
  BY <1>1, <1>2, <1>3 DEF KeepsOutcomes

\* record writes to an invocation without an outcome, of a step without one.
LEMMA RecordKeepsOutcomes ==
    ASSUME LoopTypeOK, NEW x \in Invocations, NEW r, Record(x, r),
           job[x] = Unset, status[x[1]] = Unset
    PROVE  KeepsOutcomes
<1>1. /\ job' = [job EXCEPT ![x] = Outcome(r).status]
      /\ status' = [status EXCEPT ![x[1]] =
                       CompletedStatus(x[1], width[x[1]], [job EXCEPT ![x] = Outcome(r).status])]
  BY DEF Record, SetStepStatus
<1> QED
  BY <1>1 DEF KeepsOutcomes, Terminal, LoopTypeOK

-----------------------------------------------------------------------------
(* The transitions are steps of Dataflow.                                  *)

phases == [s \in Steps |-> phaseOf(s)]

\* What an abstract phase says of the recorded status.
LEMMA PhaseFacts ==
    ASSUME LoopTypeOK, NEW s \in Steps
    PROVE  /\ (phaseOf(s) = "waiting") <=> (status[s] = Unset /\ ~started[s])
           /\ (phaseOf(s) = "active") <=> (status[s] = Unset /\ started[s])
           /\ (phaseOf(s) = "done") <=> Produced(s)
           /\ (phaseOf(s) = "failed") <=> (status[s] \in Failures)
BY DEF phaseOf, Produced, LoopTypeOK, StepStatus, Failures, Unset, Success, Skipped,
   PermanentFail, TemporaryFail

LEMMA VerdictFacts ==
    /\ (verdictOf = "open") <=> (outcome = "none")
    /\ (verdictOf = "success") <=> (outcome = Success)
    /\ (verdictOf = "suspended") <=> (outcome = Suspended)
    /\ outcome \notin {"none", Success, Suspended} => verdictOf = "failure"
BY DEF verdictOf, Success, Suspended

\* A transition that records nothing leaves every phase as it is.
LEMMA SamePhases ==
    ASSUME UNCHANGED <<started, status>>
    PROVE  phases' = phases
BY DEF phases, phaseOf, Produced

\* What Dataflow cannot see changes nothing of it.
LEMMA SameView ==
    ASSUME UNCHANGED <<started, status, inflight, outcome>>
    PROVE  UNCHANGED Promise!vars
<1>1. phases' = phases /\ verdictOf' = verdictOf
  BY SamePhases DEF verdictOf
<1> QED
  BY <1>1 DEF Promise!vars, phases

\* Recording at most changes the phase of one active step, to an end.
LEMMA RecordPhases ==
    ASSUME LoopTypeOK, NEW x \in Invocations, NEW r, Record(x, r), started[x[1]]
    PROVE  \/ phases' = phases
           \/ /\ status'[x[1]] # Unset
              /\ \E p \in {"done", "failed"} : phases' = [phases EXCEPT ![x[1]] = p]
           \/ status[x[1]] # Unset
<1> DEFINE s == x[1]
<1>1. s \in Steps /\ started' = started /\ \A t \in Steps \ {s} : status'[t] = status[t]
  BY InvocationParts DEF Record, SetStepStatus, LoopTypeOK
<1>2. \A t \in Steps \ {s} : phaseOf(t)' = phaseOf(t)
  BY <1>1 DEF phaseOf, Produced
<1>3. CASE status'[s] = status[s]
  <2>1. phaseOf(s)' = phaseOf(s)
    BY <1>1, <1>3 DEF phaseOf, Produced
  <2> QED
    BY <1>1, <1>2, <2>1 DEF phases
<1>4. CASE status'[s] # Unset
  <2>1. phaseOf(s)' \in {"done", "failed"}
    BY <1>1, <1>4 DEF phaseOf
  <2>2. phases' = [phases EXCEPT ![s] = phaseOf(s)']
    BY <1>1, <1>2 DEF phases
  <2> QED
    BY <1>4, <2>1, <2>2
<1> QED
  BY <1>3, <1>4

\* An idle loop is the abstract run before its first step.
LEMMA InitImplements == ASSUME LoopInit PROVE Promise!Init
<1>1. \A s \in Steps : started[s] = FALSE /\ status[s] = Unset
  BY DEF LoopInit
<1>2. ASSUME NEW s \in Steps
      PROVE  phaseOf(s) = "waiting"
  BY <1>1 DEF phaseOf, Produced, Unset, Success, Skipped
<1>3. inflight = {} /\ verdictOf = "open"
  BY VerdictFacts DEF LoopInit
<1> QED
  BY <1>2, <1>3 DEF Promise!Init

\* startReadySteps: Activate, whatever becomes of the step at once.
LEMMA StartImplements ==
    ASSUME StateInOrder, outcome = "none", NEW s \in Steps, Startable(s), StartStep(s)
    PROVE  Promise!Activate(s)
<1>1. LoopTypeOK
  BY DEF StateInOrder
<1>2. /\ started' = [started EXCEPT ![s] = TRUE]
      /\ \A t \in Steps \ {s} : status'[t] = status[t]
      /\ inflight' = inflight /\ outcome' = outcome
  BY StartStepEffect DEF StateInOrder, StartStep, workVars
<1>3. phaseOf(s) = "waiting" /\ \A d \in Deps[s] : phaseOf(d) = "done"
  BY <1>1, PhaseFacts, PlanAssumption DEF Startable, Ready
<1>4. started'[s] /\ \A t \in Steps \ {s} : started'[t] = started[t]
  BY <1>1, <1>2 DEF LoopTypeOK
<1>5. phaseOf(s)' \in {"active", "done", "failed"}
  BY <1>4 DEF phaseOf
<1>6. \A t \in Steps \ {s} : phaseOf(t)' = phaseOf(t)
  BY <1>2, <1>4 DEF phaseOf, Produced
<1>7. phases' = [phases EXCEPT ![s] = phaseOf(s)']
  BY <1>6 DEF phases
<1>8. verdictOf = "open" /\ verdictOf' = verdictOf
  BY <1>2, VerdictFacts DEF verdictOf
<1> QED
  BY <1>2, <1>3, <1>5, <1>7, <1>8, PlanAssumption DEF Promise!Activate, Promise!Fed, phases

\* launch and buildInvocation: Begin.
LEMMA HandOverImplements ==
    ASSUME StateInOrder, outcome = "none", NEW x \in Invocations, Pending(x), HasCapacity, HandOver(x)
    PROVE  Promise!Begin(x)
<1>1. x[1] \in Steps /\ phaseOf(x[1]) = "active" /\ verdictOf = "open"
  BY InvocationParts, PhaseFacts, VerdictFacts DEF Pending, StateInOrder
<1>2. phases' = phases /\ verdictOf' = verdictOf /\ inflight' = inflight \union {x}
  BY SamePhases DEF HandOver, stateVars, verdictOf
<1>3. MaxParallel = 0 \/ Cardinality(inflight) < MaxParallel
  BY DEF HasCapacity, StateInOrder, HandlersCounted, RunningCountsHandlers
<1>4. Promise!Cardinality(inflight) = Cardinality(inflight)
  BY DEF Promise!Cardinality, Cardinality
<1> QED
  BY <1>1, <1>2, <1>3, <1>4 DEF Promise!Begin, phases

\* A recorded result concludes its step only when no other invocation of it
\* is with a handler.
LEMMA ConcludedAlone ==
    ASSUME StateInOrder', outcome' = "none", NEW s \in Steps, status'[s] # Unset,
           NEW y \in inflight', y[1] = s
    PROVE  FALSE
BY DEF StateInOrder, HandlersAwaited

\* launch and buildInvocation when the call cannot be built: Conclude, when
\* that was the step's last invocation.
LEMMA UnbuiltImplements ==
    ASSUME StateInOrder, StateInOrder', outcome = "none",
           NEW x \in Invocations, Pending(x), Record(x, CallError),
           UNCHANGED <<inflight, outcome>>
    PROVE  Promise!Conclude(x[1]) \/ UNCHANGED Promise!vars
<1>1. /\ x[1] \in Steps /\ phaseOf(x[1]) = "active" /\ verdictOf = "open"
      /\ verdictOf' = verdictOf
      /\ started[x[1]] /\ status[x[1]] = Unset /\ LoopTypeOK
  BY InvocationParts, PhaseFacts, VerdictFacts DEF Pending, StateInOrder, verdictOf
<1>2. CASE phases' = phases
  BY <1>1, <1>2 DEF Promise!vars, phases
<1>3. CASE phases' # phases
  <2>1. /\ status'[x[1]] # Unset
        /\ \E p \in {"done", "failed"} : phases' = [phases EXCEPT ![x[1]] = p]
    BY <1>1, <1>3, RecordPhases
  <2>2. Promise!Executing(x[1]) = {}
    BY <1>1, <2>1, ConcludedAlone DEF Promise!Executing
  <2> QED
    BY <1>1, <2>1, <2>2 DEF Promise!Conclude, phases
<1> QED
  BY <1>2, <1>3

\* execute and Complete: End, with the conclusion of the step if it was its
\* last result.
LEMMA SettleImplements ==
    ASSUME StateInOrder, StateInOrder', outcome = "none", NEW x \in inflight, Settle(x)
    PROVE  Promise!End(x)
<1>1. x \in Invocations /\ started[x[1]] /\ status[x[1]] = Unset /\ LoopTypeOK
  BY InflightUnrecorded DEF StateInOrder
<1>2. Record(x, answer[x]) /\ inflight' = inflight \ {x} /\ outcome' = outcome
  BY DEF Settle
<1>3. /\ x[1] \in Steps /\ phaseOf(x[1]) = "active"
      /\ verdictOf = "open" /\ verdictOf' = verdictOf
  BY <1>1, <1>2, InvocationParts, PhaseFacts, VerdictFacts DEF verdictOf
<1>4. CASE phases' = phases
  BY <1>2, <1>3, <1>4 DEF Promise!End, phases
<1>5. CASE phases' # phases
  <2>1. /\ status'[x[1]] # Unset
        /\ \E p \in {"done", "failed"} : phases' = [phases EXCEPT ![x[1]] = p]
    BY <1>1, <1>2, <1>5, RecordPhases
  <2>2. Promise!Executing(x[1]) = {x}
    BY <1>2, <1>3, <2>1, ConcludedAlone DEF Promise!Executing
  <2> QED
    BY <1>2, <1>3, <2>1, <2>2 DEF Promise!End, phases
<1> QED
  BY <1>4, <1>5

\* The run returns: Return, with a verdict its steps bear out.
LEMMA ReturnImplements ==
    ASSUME LoopTypeOK, outcome = "none", outcome' # "none",
           UNCHANGED <<started, status, inflight>>,
           outcome' \in {Success, Suspended} =>
              inflight = {} /\ outcome' \in RunOutcomes /\ ResultIsComplete'
    PROVE  Promise!Return
<1>1. phases' = phases /\ verdictOf = "open"
  BY SamePhases, VerdictFacts
<1>2. CASE outcome' \notin {Success, Suspended}
  <2>1. verdictOf' = "failure"
    BY <1>2 DEF verdictOf
  <2> QED
    BY <1>1, <2>1 DEF Promise!Return, phases
<1>3. CASE outcome' = Success
  <2>1. \A s \in Steps : Produced(s)
    BY <1>3 DEF ResultIsComplete, Produced
  <2>2. \A s \in Steps : phaseOf(s) = "done"
    BY <2>1, PhaseFacts
  <2>3. verdictOf' = "success"
    BY <1>3 DEF verdictOf, Success, Suspended
  <2> QED
    BY <1>1, <1>3, <2>2, <2>3 DEF Promise!Return, phases
<1>4. CASE outcome' = Suspended
  <2>1. \A s \in Steps : status[s] \notin Failures
    BY <1>4 DEF RunOutcomes, Failures, Success, Suspended, PermanentFail, TemporaryFail
  <2>2. \A s \in Steps : phaseOf(s) # "failed"
    BY <2>1, PhaseFacts
  <2>3. verdictOf' = "suspended"
    BY <1>4 DEF verdictOf, Success, Suspended
  <2> QED
    BY <1>1, <1>4, <2>2, <2>3 DEF Promise!Return, phases
<1> QED
  BY <1>2, <1>3, <1>4

=============================================================================
