----------------------------- MODULE DurableRun -----------------------------
(***************************************************************************)
(* A run that outlives its loop (pkg/cwlexec/scheduler.go, result.go and   *)
(* runstate.go).  Whatever ends a loop - completion, suspension, failure,  *)
(* cancellation - its RunResult carries a RunState; the caller persists it *)
(* and Resume builds a new loop from it and from the outcomes the caller   *)
(* supplies for suspended invocations.  A process that dies takes the loop *)
(* and every RunState not yet persisted with it.                           *)
(*                                                                         *)
(* An empty RunState resumed with nothing is what Run starts from.         *)
(***************************************************************************)
EXTENDS RunLoopInvariant

CONSTANTS
    AnswerStatuses,   \* ResumedStep.Status of the outcomes a caller supplies
    MaxMishaps        \* bound on crashes, cancellations and refused resumes

ASSUME DurableAssumption ==
    /\ AnswerStatuses \subseteq {Success, Skipped, PermanentFail, TemporaryFail}
    /\ MaxMishaps \in Nat

VARIABLES
    saved,     \* the RunState the caller persisted last
    mishaps    \* how many of MaxMishaps have happened

durableVars == <<vars, saved, mishaps>>

RunStates ==
    [started : [Steps -> BOOLEAN], status : [Steps -> StepStatus],
     width : [Steps -> 0..MaxWidth], job : [Invocations -> JobStatus],
     suspensions : SUBSET Invocations]

\* clone: what result() and the error paths of run and Resume hand out.
Snapshot ==
    [started |-> started, status |-> status, width |-> width, job |-> job,
     suspensions |-> suspensions]

\* The loop's state becomes r.
Install(r) ==
    /\ started' = r.started
    /\ status' = r.status
    /\ width' = r.width
    /\ job' = r.job
    /\ suspensions' = r.suspensions

DurableInit == Init /\ saved = Snapshot /\ mishaps = 0

-----------------------------------------------------------------------------
(* Resume, up to the loop it starts.                                       *)

\* Mutant: any recorded invocation can be addressed.
AnswerableAny(r) == {x \in Invocations : x[2] <= r.width[x[1]] /\ r.started[x[1]]}

\* suspended: the invocations a ResumedStep may address.
Answerable(r) == {x \in Invocations : x[2] <= r.width[x[1]] /\ r.job[x] = Suspended}

\* Sets of outcomes a caller may supply.
Answers == UNION {[A -> AnswerStatuses] : A \in SUBSET Answerable(saved)}

\* Mutant: job.Suspension is not cleared.
InjectedKeepsHandle(r, answers) ==
    [r EXCEPT
        !.job = [x \in Invocations |->
                    IF x \in DOMAIN answers THEN answers[x] ELSE r.job[x]]]

\* injectOne, for every invocation in the domain of answers.
Injected(r, answers) ==
    [r EXCEPT
        !.job = [x \in Invocations |->
                    IF x \in DOMAIN answers THEN answers[x] ELSE r.job[x]],
        !.suspensions = r.suspensions \ DOMAIN answers]

\* The started steps without an outcome that rehydrateSteps goes through.
Interrupted(r) == {s \in Steps : r.started[s] /\ r.status[s] = Unset}

\* restart re-expands a step only if an invocation of it is still to finish.
Unfinished(r) ==
    {s \in Interrupted(r) : \E i \in 1..r.width[s] : ~Terminal(r.job[<<s, i>>])}

\* The invocations gateJobs looks at again.
Regatable(r, S) ==
    {x \in Invocations :
        x[1] \in S \intersect Conditional /\ x[2] <= r.width[x[1]] /\ r.job[x] = Unset}

Regated(r, skip) ==
    [r EXCEPT !.job = [x \in Invocations |-> IF x \in skip THEN Skipped ELSE r.job[x]]]

\* Mutant: a step whose last outcome was injected is not finished.
FinishedNot(r, S) == r

\* finishIfComplete, for every step of S.
Finished(r, S) ==
    [r EXCEPT !.status = [s \in Steps |->
        IF s \in S THEN CompletedStatus(s, r.width[s], r.job) ELSE r.status[s]]]

\* Steps that precede s in document order.
Before(s) == {t \in Steps : \E j, k \in 1..Len(Order) : j < k /\ Order[j] = t /\ Order[k] = s}

\* The caller has persisted what the last loop or Resume handed it, or has
\* nothing newer than saved to go by.
CallerReady == pc = "returned" /\ (saved = Snapshot \/ outcome \in {"lost", "refused"})

\* Resume succeeds: a new loop, its channels its own, over the recorded state.
\* Handlers of a cancelled loop may still run; their results reach nobody.
Resume(answers) ==
    /\ CallerReady
    /\ LET r == Injected(saved, answers) IN
       \E skip \in SUBSET Regatable(r, Unfinished(r)) :
          LET f == Finished(Regated(r, skip), Interrupted(r)) IN
          /\ Install(f)
          /\ expanded' = Unfinished(r)
          /\ stopped' = (~ContinueOnError
                           /\ \E s \in Interrupted(r) : f.status[s] \in Failures)
    /\ dispatched' = {} /\ running' = 0
    /\ inflight' = {} /\ answer' = [x \in Invocations |-> NoAnswer]
    /\ outcome' = "none" /\ cancelled' = FALSE
    /\ pc' = "pass" /\ at' = 1 /\ slot' = 1 /\ progress' = FALSE
    /\ UNCHANGED <<saved, mishaps>>

\* Resume returns an error and, with it, the state as far as it got.
Refused(r) ==
    /\ CallerReady /\ mishaps < MaxMishaps
    /\ Install(r)
    /\ outcome' = "refused"
    /\ mishaps' = mishaps + 1
    /\ UNCHANGED <<loopVars, workVars, controlVars, cancelled, saved>>

\* inject reaches a ResumedStep it cannot apply after applying those before
\* it.  A version mismatch is the case of none before it.
InjectRefuses(answers) ==
    /\ "refuse" \in Faults
    /\ Refused(Injected(saved, answers))

\* restart fails at step s: its inputs no longer resolve, it expands
\* differently, or its gate fails at an invocation after some were skipped.
RestartRefuses(answers, s) ==
    /\ "restart" \in Faults
    /\ LET r == Injected(saved, answers)
           earlier == Interrupted(r) \intersect Before(s) IN
       /\ s \in Unfinished(r)
       /\ \E skip \in SUBSET Regatable(r, (Unfinished(r) \intersect Before(s)) \union {s}) :
             /\ \A x \in skip : x[1] = s =>
                   \E i \in 1..r.width[s] : x[2] < i /\ r.job[<<s, i>>] = Unset /\ <<s, i>> \notin skip
             /\ Refused(Finished(Regated(r, skip), earlier))

-----------------------------------------------------------------------------
(* The caller and its process.                                             *)

\* The caller marshals and stores the RunState it was handed.
Persist ==
    /\ pc = "returned" /\ outcome # "lost" /\ saved # Snapshot
    /\ saved' = Snapshot
    /\ UNCHANGED <<vars, mishaps>>

\* The process dies: loop, handlers and unsaved states with it.
Crash ==
    /\ "crash" \in Faults /\ mishaps < MaxMishaps /\ outcome # "lost"
    /\ Install(saved)
    /\ inflight' = {} /\ answer' = [x \in Invocations |-> NoAnswer]
    /\ pc' = "returned" /\ outcome' = "lost"
    /\ mishaps' = mishaps + 1
    /\ UNCHANGED <<loopVars, at, slot, progress, cancelled, saved>>

CancelRun == Cancel /\ mishaps < MaxMishaps /\ mishaps' = mishaps + 1 /\ UNCHANGED saved

\* A step of the loop that is running, or of one of its handlers.
Segment ==
    /\ Loop \/ \E x \in Invocations : HandlerReply(x) \/ DropResult(x)
    /\ UNCHANGED <<saved, mishaps>>

DurableNext ==
    \/ Segment
    \/ CancelRun
    \/ Persist
    \/ Crash
    \/ \E answers \in Answers :
          \/ Resume(answers)
          \/ InjectRefuses(answers)
          \/ \E s \in Steps : RestartRefuses(answers, s)

DurableSpec == DurableInit /\ [][DurableNext]_durableVars

SomeAnswers == {answers \in Answers : DOMAIN answers # {}}

\* Loop and handlers as in FairSpec.  The caller persists what it is handed,
\* resumes what is not finished, and does not ignore a suspension for ever.
DurableFairSpec ==
    /\ DurableSpec
    /\ WF_durableVars(Loop /\ UNCHANGED <<saved, mishaps>>)
    /\ \A x \in Invocations :
          WF_durableVars((HandlerReply(x) \/ DropResult(x)) /\ UNCHANGED <<saved, mishaps>>)
    /\ WF_durableVars(Persist)
    /\ WF_durableVars(\E answers \in Answers : Resume(answers))
    /\ SF_durableVars(\E answers \in SomeAnswers : Resume(answers))

-----------------------------------------------------------------------------
(* Properties.                                                             *)

\* Resume (scheduler.go) promises to continue a run: through crashes,
\* cancellations and refused resumes the live state extends the one that
\* was persisted last.  No recorded outcome of a step or an invocation is
\* lost or changed, none is computed anew, and a suspension is only ever
\* lifted by an answer to it.
SnapshotExtended ==
    /\ \A s \in Steps :
          /\ saved.started[s] => started[s] /\ width[s] = saved.width[s]
          /\ saved.status[s] # Unset => status[s] = saved.status[s]
    /\ \A x \in Invocations :
          /\ Terminal(saved.job[x]) => job[x] = saved.job[x]
          /\ saved.job[x] = Suspended => job[x] # Unset

\* launchStep and the empty dispatched set of a new loop: a handler never
\* runs again for an invocation the persisted state has an outcome or a
\* suspension of.  What it lacks may run twice, after a crash.
RecordedWorkNotRedone ==
    outcome = "none" => \A x \in inflight : saved.job[x] = Unset

\* A RunState that can be resumed: every started step has its dependencies
\* done and its invocations in line with its status, whatever cut the loop
\* or the Resume that produced it short.
ResumableState(r) ==
    /\ r \in RunStates
    /\ \A s \in Steps :
          /\ ~r.started[s] => r.status[s] = Unset /\ r.width[s] = 0
          /\ r.started[s] => \A d \in Deps[s] : r.status[d] \in {Success, Skipped}
          /\ r.status[s] \in {Success, Skipped} =>
                \A i \in 1..r.width[s] : r.job[<<s, i>>] \in {Success, Skipped}
    /\ \A x \in Invocations :
          /\ r.job[x] = Suspended <=> x \in r.suspensions
          /\ x \in r.suspensions => r.started[x[1]] /\ x[2] <= r.width[x[1]]

\* rehydrateSteps: every loop, the first and any a Resume builds, satisfies
\* LoopInvariant, whichever states it was built from; and what callers hold
\* can always be resumed.
DurableInvariant ==
    /\ outcome \notin {"lost", "refused"} => LoopInvariant
    /\ outcome \in {"lost", "refused"} => pc = "returned"
    /\ ResumableState(saved)
    /\ ResumableState(Snapshot)

\* A run whose suspensions are answered reaches an outcome of its own,
\* however often it was interrupted before.
RunConcludes == <>(outcome \in {Success, "badOutputs"} \union Failures)
=============================================================================
