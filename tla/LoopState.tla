----------------------------- MODULE LoopState -----------------------------
(***************************************************************************)
(* The run state owned by one runLoop (pkg/cwlexec/loop.go) and the        *)
(* transitions both drivers of that loop share: starting a step, handing   *)
(* an invocation to its handler, recording an invocation's result.  The    *)
(* goroutine-based driver is RunLoop, the caller-driven one DispatchLoop.  *)
(*                                                                         *)
(* Port values are abstracted away.  What input resolution, scatter        *)
(* expansion and the `when` gate compute from them is a nondeterministic   *)
(* choice over their possible results.                                     *)
(***************************************************************************)
EXTENDS Integers, FiniteSets, Sequences

CONSTANTS
    Steps,            \* step identifiers of the plan
    Order,            \* plan.steps: the steps in document order
    Deps,             \* plannedStep.deps: the steps each step reads from
    Scattered,        \* steps with a non-empty scatter list
    Conditional,      \* steps with a `when` expression
    OutputSteps,      \* steps the workflow's own outputs read from
    MaxWidth,         \* bound on the number of sub-jobs of one scatter
    MaxParallel,      \* Config.MaxParallel, 0 meaning unbounded
    ContinueOnError,  \* Config.OnError = OnErrorContinue
    Returns,          \* the (Result, error) pairs a handler may return
    Faults            \* engine-side failures and external events enabled

Success       == "success"
PermanentFail == "permanentFail"
TemporaryFail == "temporaryFail"
Skipped       == "skipped"
Suspended     == "suspended"
Unset         == ""

Failures   == {PermanentFail, TemporaryFail}
Statuses   == {Success, Skipped, Suspended} \union Failures
StepStatus == {Unset, Success, Skipped} \union Failures
JobStatus  == {Unset} \union Statuses

Outcomes == {"none", PermanentFail, TemporaryFail, Suspended, Success,
             "incomplete", "badOutputs", "cancelled",
             "refused", "lost"}   \* the last two by DurableRun only

FaultKinds == {"inputs", "gate", "call", "outputs", "cancel",
               "refuse", "restart", "crash"}

Slots       == 1..MaxWidth
Invocations == Steps \X Slots

\* What a StepHandler may return: a Result and whether an error came with it.
ResultPairs ==
    [status : JobStatus \union {"bogus"}, suspension : BOOLEAN,
     outputs : BOOLEAN, err : BOOLEAN]

ASSUME PlanAssumption ==
    /\ IsFiniteSet(Steps)
    /\ Order \in Seq(Steps)
    /\ \A s \in Steps : \E k \in 1..Len(Order) : Order[k] = s
    /\ \A j, k \in 1..Len(Order) : Order[j] = Order[k] => j = k
    /\ Deps \in [Steps -> SUBSET Steps]
    /\ Scattered \subseteq Steps
    /\ Conditional \subseteq Steps
    /\ OutputSteps \subseteq Steps

\* checkAcyclic: whatever steps are left, one of them reads from none of them.
ASSUME AcyclicAssumption ==
    \A S \in SUBSET Steps : S # {} => \E s \in S : Deps[s] \intersect S = {}

ASSUME ConfigAssumption ==
    /\ MaxWidth \in Nat \ {0}
    /\ MaxParallel \in Nat
    /\ ContinueOnError \in BOOLEAN
    /\ Returns \subseteq ResultPairs
    /\ Faults \subseteq FaultKinds

VARIABLES
    started,      \* stepState.Started
    status,       \* stepState.Status
    width,        \* len(stepState.Jobs)
    job,          \* jobState.Status of every invocation
    suspensions,  \* invocations whose jobState.Suspension is set
    expanded,     \* steps with live runJobs in runLoop.jobs
    dispatched,   \* invocations whose runJob.dispatched is set
    running,      \* runLoop.running
    stopped,      \* runLoop.stopped
    inflight,     \* invocations a handler goroutine exists for
    answer,       \* what that handler returned, NoAnswer until then
    outcome       \* what run returned, "none" while it has not

stateVars == <<started, status, width, job, suspensions>>
loopVars  == <<expanded, dispatched, running, stopped>>
workVars  == <<inflight, answer>>

sharedVars == <<stateVars, loopVars, workVars, outcome>>

NoAnswer == [status |-> "none", suspension |-> FALSE, outputs |-> FALSE, err |-> FALSE]

LoopTypeOK ==
    /\ started \in [Steps -> BOOLEAN]
    /\ status \in [Steps -> StepStatus]
    /\ width \in [Steps -> 0..MaxWidth]
    /\ job \in [Invocations -> JobStatus]
    /\ suspensions \subseteq Invocations
    /\ expanded \subseteq Steps
    /\ dispatched \subseteq Invocations
    /\ running \in Nat
    /\ stopped \in BOOLEAN
    /\ inflight \subseteq Invocations
    /\ answer \in [Invocations -> Returns \union {NoAnswer}]
    /\ outcome \in Outcomes

\* newRunState and newLoop: an empty snapshot and an idle loop.
LoopInit ==
    /\ started = [s \in Steps |-> FALSE]
    /\ status = [s \in Steps |-> Unset]
    /\ width = [s \in Steps |-> 0]
    /\ job = [x \in Invocations |-> Unset]
    /\ suspensions = {}
    /\ expanded = {}
    /\ dispatched = {}
    /\ running = 0
    /\ stopped = FALSE
    /\ inflight = {}
    /\ answer = [x \in Invocations |-> NoAnswer]
    /\ outcome = "none"

-----------------------------------------------------------------------------
(* Handler results.                                                        *)

\* Result.validate: a suspension if and only if the status is "suspended".
ValidResult(r) ==
    \/ r.status \in Statuses \ {Suspended} /\ ~r.suspension
    \/ r.status = Suspended /\ r.suspension /\ ~r.outputs

\* Outcome: what the scheduler acts on, whatever a handler returned.
Outcome(r) ==
    IF r.err
      THEN [status |-> IF r.status \in Failures THEN r.status ELSE PermanentFail,
            suspension |-> FALSE]
      ELSE IF ValidResult(r)
             THEN [status |-> r.status, suspension |-> r.suspension]
             ELSE [status |-> PermanentFail, suspension |-> FALSE]

-----------------------------------------------------------------------------
(* Step completion.                                                        *)

\* produced
Produced(s) == status[s] \in {Success, Skipped}

\* Mutant: any dependency will do.
ReadyOnAny(s) == Deps[s] = {} \/ \E d \in Deps[s] : Produced(d)

\* ready
Ready(s) == \A d \in Deps[s] : Produced(d)

Startable(s) == ~started[s] /\ status[s] = Unset /\ Ready(s)

\* Mutant: a suspension counts as an outcome.
TerminalOrSuspended(st) == st # Unset

\* jobState.terminal
Terminal(st) == st \notin {Unset, Suspended}

\* Mutant: the first outcome completes the step.
AnyTerminal(s, w, j) == w = 0 \/ \E i \in 1..w : Terminal(j[<<s, i>>])

AllTerminal(s, w, j) == \A i \in 1..w : Terminal(j[<<s, i>>])

\* jobsOutcome: permanent failure outranks temporary, and only an
\* unscattered step as a whole can be skipped.
JobsOutcome(s, w, j) ==
    LET found == {j[<<s, i>>] : i \in 1..w} IN
    IF PermanentFail \in found THEN PermanentFail
    ELSE IF TemporaryFail \in found THEN TemporaryFail
    ELSE IF s \notin Scattered /\ j[<<s, 1>>] = Skipped THEN Skipped
    ELSE Success

\* finishIfComplete: the status the step takes once its jobs are as in j.
CompletedStatus(s, w, j) ==
    IF AllTerminal(s, w, j) THEN JobsOutcome(s, w, j) ELSE Unset

\* Mutant: OnErrorContinue is not looked at.
SetStepStatusStopping(s, st) ==
    /\ status' = [status EXCEPT ![s] = st]
    /\ stopped' = (stopped \/ st \in Failures)

\* failStepWith: a step failure stops the loop unless OnErrorContinue is set.
SetStepStatus(s, st) ==
    /\ status' = [status EXCEPT ![s] = st]
    /\ stopped' = (stopped \/ (st \in Failures /\ ~ContinueOnError))

-----------------------------------------------------------------------------
(* Transitions of the loop.                                                *)

\* An unscattered step expands to one invocation, a scattered one to as many
\* as its input arrays call for, none included.
Widths(s) == IF s \in Scattered THEN 0..MaxWidth ELSE {1}

\* gateJobs over the slots 1..last: which of them `when` may turn away.
GateChoices(s, last) == IF s \in Conditional THEN SUBSET (1..last) ELSE {{}}

\* adopt followed by gateJobs: the jobs of s once the slots in skip are
\* recorded as skipped.
Adopted(s, skip) ==
    [x \in Invocations |->
        IF x[1] = s THEN IF x[2] \in skip THEN Skipped ELSE Unset ELSE job[x]]

\* startStep when stepInputs or expandJobs fails.
StartFails(s) ==
    /\ "inputs" \in Faults
    /\ SetStepStatus(s, PermanentFail)
    /\ UNCHANGED <<width, job, expanded>>

\* startStep when valueFrom or `when` fails at some slot, after the slots
\* before it were gated.
GateFails(s) ==
    /\ "gate" \in Faults
    /\ \E w \in Widths(s) : \E bad \in 1..w : \E skip \in GateChoices(s, bad - 1) :
          /\ width' = [width EXCEPT ![s] = w]
          /\ job' = Adopted(s, skip)
    /\ expanded' = expanded \union {s}
    /\ SetStepStatus(s, PermanentFail)

\* startStep when every invocation is admitted or skipped; a step left with
\* nothing to run finishes at once.
StartAdmits(s) ==
    \E w \in Widths(s) : \E skip \in GateChoices(s, w) :
        /\ width' = [width EXCEPT ![s] = w]
        /\ job' = Adopted(s, skip)
        /\ expanded' = expanded \union {s}
        /\ SetStepStatus(s, CompletedStatus(s, w, Adopted(s, skip)))

StartStep(s) ==
    /\ started' = [started EXCEPT ![s] = TRUE]
    /\ StartFails(s) \/ GateFails(s) \/ StartAdmits(s)
    /\ UNCHANGED <<suspensions, dispatched, running, workVars, outcome>>

\* record: fold one (Result, error) pair into the run state and finish its
\* step if that was the last outcome it waited for.
Record(x, r) ==
    LET s == x[1]
        a == Outcome(r)
        j == [job EXCEPT ![x] = a.status]
    IN  /\ job' = j
        /\ suspensions' = IF a.suspension THEN suspensions \union {x}
                                          ELSE suspensions \ {x}
        /\ SetStepStatus(s, CompletedStatus(s, width[s], j))
        /\ UNCHANGED <<started, width, expanded>>

\* Mutant: a recorded outcome is not looked at.
PendingRecorded(x) ==
    /\ started[x[1]] /\ status[x[1]] = Unset
    /\ x[1] \in expanded
    /\ x[2] <= width[x[1]]
    /\ x \notin dispatched

\* An invocation launchStep and collectStep look for.
Pending(x) ==
    /\ started[x[1]] /\ status[x[1]] = Unset
    /\ x[1] \in expanded
    /\ x[2] <= width[x[1]]
    /\ x \notin dispatched
    /\ job[x] = Unset

\* launch when newCall fails: the error is recorded in place of a result.
CallError == [status |-> Unset, suspension |-> FALSE, outputs |-> FALSE, err |-> TRUE]

CallFails(x) ==
    /\ "call" \in Faults
    /\ dispatched' = dispatched \union {x}
    /\ Record(x, CallError)
    /\ UNCHANGED <<running, workVars, outcome>>

\* Mutant: one handler too many.
HasCapacityOffByOne == MaxParallel = 0 \/ running <= MaxParallel

\* hasCapacity
HasCapacity == MaxParallel = 0 \/ running < MaxParallel

\* launch when newCall succeeds: a goroutine now runs the handler.
HandOver(x) ==
    /\ dispatched' = dispatched \union {x}
    /\ running' = running + 1
    /\ inflight' = inflight \union {x}
    /\ UNCHANGED <<stateVars, expanded, stopped, answer, outcome>>

\* The handler of x returns.  Its goroutine still holds the result.
HandlerReturns(x) ==
    /\ x \in inflight /\ answer[x] = NoAnswer
    /\ \E r \in Returns : answer' = [answer EXCEPT ![x] = r]
    /\ UNCHANGED <<stateVars, loopVars, inflight, outcome>>

\* Mutant: running is not counted down.
SettleUncounted(x) ==
    /\ x \in inflight /\ answer[x] # NoAnswer
    /\ Record(x, answer[x])
    /\ inflight' = inflight \ {x}
    /\ answer' = [answer EXCEPT ![x] = NoAnswer]
    /\ UNCHANGED <<dispatched, running, outcome>>

\* The loop takes the result of x and records it.
Settle(x) ==
    /\ x \in inflight /\ answer[x] # NoAnswer
    /\ running' = running - 1
    /\ Record(x, answer[x])
    /\ inflight' = inflight \ {x}
    /\ answer' = [answer EXCEPT ![x] = NoAnswer]
    /\ UNCHANGED <<dispatched, outcome>>

-----------------------------------------------------------------------------
(* The run's result.                                                       *)

\* suspensions(): the waiting invocations a result reports.
Waiting == {x \in suspensions : x[2] <= width[x[1]] /\ job[x] = Suspended}

\* Mutant: a suspension is reported before a failure is.
RunOutcomesSuspendedFirst ==
    IF Waiting # {} THEN {Suspended}
    ELSE IF \E s \in Steps : status[s] \in Failures THEN {PermanentFail}
    ELSE IF \E s \in OutputSteps : ~Produced(s) THEN {"incomplete"}
    ELSE {Success}

\* result(): failure outranks suspension, which outranks success.  Reading
\* an output of a step that produced nothing is ErrIncomplete.
RunOutcomes ==
    IF \E s \in Steps : status[s] = PermanentFail THEN {PermanentFail}
    ELSE IF \E s \in Steps : status[s] = TemporaryFail THEN {TemporaryFail}
    ELSE IF Waiting # {} THEN {Suspended}
    ELSE IF \E s \in OutputSteps : ~Produced(s) THEN {"incomplete"}
    ELSE {Success} \union (IF "outputs" \in Faults THEN {"badOutputs"} ELSE {})

-----------------------------------------------------------------------------
(* Properties of every driver.                                             *)

\* running, the counter launch and execute maintain by hand, is the number
\* of handler goroutines not yet heard from.  A second launch of one
\* invocation, or a receive that forgets to count down, breaks it.
RunningCountsHandlers == outcome = "none" => running = Cardinality(inflight)

\* hasCapacity: never more than MaxParallel handlers at a time.
CapRespected == MaxParallel > 0 => Cardinality(inflight) <= MaxParallel

\* ready / sourceValue: a handler only ever runs on the outputs of steps
\* that have produced them, and goes on doing so while it runs.
InputsProduced == \A x \in inflight : \A d \in Deps[x[1]] : Produced(d)

\* finishIfComplete is called wherever an outcome may have been the last
\* one: between actions no unfinished step has only terminal invocations,
\* and no successful step an unfinished one.
StepMatchesItsJobs ==
    \A s \in Steps :
        started[s] =>
            IF status[s] = Unset
              THEN \E i \in 1..width[s] : ~Terminal(job[<<s, i>>])
              ELSE Produced(s) =>
                     \A i \in 1..width[s] : job[<<s, i>>] \in {Success, Skipped}

\* A step is excused from finishing by a suspended invocation of its own or
\* by a step it reads from that is itself unfinished.
Blocked(s) ==
    \/ \E i \in 1..width[s] : <<s, i>> \in Waiting
    \/ \E d \in Deps[s] : status[d] = Unset

\* result: what a run reports is what happened.  Success leaves no step
\* behind; a suspended run has no failure in it and every unfinished step
\* waits, directly or not, for a suspension the result hands to the caller.
ResultIsComplete ==
    /\ outcome = Success => \A s \in Steps : Produced(s)
    /\ outcome = Suspended =>
          \A s \in Steps : Produced(s) \/ (status[s] = Unset /\ Blocked(s))
    /\ outcome # "incomplete"

\* OnErrorContinue (scheduler.go) "runs independent branches despite
\* failures": what a failed run leaves unfinished waits for a suspension or
\* reads, directly or not, from a step that failed.
IndependentBranchesFinish ==
    ContinueOnError /\ outcome \in Failures =>
        \A s \in Steps : status[s] = Unset =>
            Blocked(s) \/ \E d \in Deps[s] : status[d] \in Failures

\* jobsOutcome and failure: the worst outcome of any finished step's
\* invocations is the run's, whichever of them reported first or last.
FailureOutranks ==
    LET settled == {job[x] : x \in {y \in Invocations :
                       y[2] <= width[y[1]] /\ status[y[1]] # Unset}}
    IN  /\ outcome = TemporaryFail => PermanentFail \notin settled
        /\ outcome \in {Success, Suspended} => settled \intersect Failures = {}

\* OnErrorContinue: a failure neither stops what does not need it nor goes
\* unreported, whenever it arrives.
FailuresAccountedFor == IndependentBranchesFinish /\ FailureOutranks

\* A finished step and a terminal invocation are never written again: a
\* late or second answer cannot overwrite outputs other steps have read.
OutcomesAreFinal ==
    [][ /\ \A s \in Steps : status[s] # Unset => status'[s] = status[s]
        /\ \A x \in Invocations :
              x[2] <= width[x[1]] /\ Terminal(job[x]) => job'[x] = job[x] ]_sharedVars

\* OnErrorStop (scheduler.go): after the first failed step nothing new is
\* handed to a handler.
StopLaunchesNothing == [][stopped => inflight' \subseteq inflight]_sharedVars

-----------------------------------------------------------------------------
(* The abstract run both drivers implement.                                *)

phaseOf(s) ==
    CASE status[s] = Unset -> IF started[s] THEN "active" ELSE "waiting"
      [] Produced(s)       -> "done"
      [] OTHER             -> "failed"

verdictOf ==
    CASE outcome = "none"    -> "open"
      [] outcome = Success   -> "success"
      [] outcome = Suspended -> "suspended"
      [] OTHER               -> "failure"

Promise == INSTANCE Dataflow WITH
    Cap     <- MaxParallel,
    phase   <- [s \in Steps |-> phaseOf(s)],
    busy    <- inflight,
    verdict <- verdictOf

\* Either driver keeps every promise of the abstract run: order of steps,
\* cap, single conclusion, and an honest verdict.
ImplementsDataflow == Promise!Spec
=============================================================================
