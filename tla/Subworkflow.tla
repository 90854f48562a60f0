---------------------------- MODULE Subworkflow ----------------------------
(***************************************************************************)
(* Runs inside runs: a step whose process is a Workflow runs it with a     *)
(* loop of its own (handler_workflow.go), to any depth.  A run is a frame, *)
(* named by the path of steps that leads to it; the frames of one call     *)
(* share the context, and with it cancellation, but no state: an inner run *)
(* reaches the outer one only through the Result of a handler.  An inner   *)
(* suspension travels as the payload of the outer one, and the caller      *)
(* resumes the runs from the inside out, each with a Runner and a context  *)
(* of its own over the bare workflow: a resumed run knows neither the      *)
(* requirements nor the workflows that were around it.                     *)
(*                                                                         *)
(* The loop of a frame is RunLoop seen from outside: which step starts     *)
(* when, what a failure stops, when Run returns and what it says.  Leaves  *)
(* are the other built-in handlers.                                        *)
(***************************************************************************)
EXTENDS Naturals, Sequences, FiniteSets, SequencesExt

CONSTANTS
    Workflows,     \* name |-> [steps: step |-> [process, deps], feature, broken]
    Roots,         \* the workflows the caller may run
    MaxParallel,   \* Config.MaxParallel, 0 for no limit
    StopOnError,   \* OnErrorStop rather than OnErrorContinue
    MaxAnswers     \* bound on the answers the caller gives

Leaves   == {"tool", "expression", "operation"}
Names    == DOMAIN Workflows
Success  == "success"
Failures == {"permanentFail", "temporaryFail"}
Suspended == "suspended"
Terminal == {Success} \union Failures

\* The caller's documents are finitely many workflows, and no workflow is a leaf.
ASSUME WorkflowsAssumption ==
    /\ Roots \subseteq Names /\ MaxParallel \in Nat /\ StopOnError \in BOOLEAN
    /\ IsFiniteSet(Names) /\ Names \intersect Leaves = {}
    /\ \A w \in Names :
         /\ Workflows[w].feature \in BOOLEAN
         /\ \A s \in DOMAIN Workflows[w].steps :
               Workflows[w].steps[s].process \in Names \union Leaves

VARIABLES
    frames,     \* path |-> frame, for every run that has not been forgotten
    cancelled,  \* the caller's context
    answers     \* how many suspensions the caller has answered

vars == <<frames, cancelled, answers>>

Steps(w)   == Workflows[w].steps
Process(p, s) == Steps(frames[p].wf)[s].process
Below(p, s) == Append(p, s)
Inside(p)  == {q \in DOMAIN frames : IsPrefix(p, q)}
\* NewRunner and newLoop.  feature is SubworkflowFeatureRequirement in scope, byCaller
\* whether the caller called Run or Resume of it last, rather than runSubworkflow.
NewFrame(w, anc, feature, byCaller) ==
    [wf |-> w, ancestors |-> anc, feature |-> feature, byCaller |-> byCaller,
     phase |-> "running", stopped |-> FALSE,
     status |-> [s \in DOMAIN Steps(w) |-> "waiting"]]

\* NewRunner: a workflow that does not plan, or runs workflows of its own while
\* SubworkflowFeatureRequirement is not in scope (checkStepFeatures).
Refused(w, feature) ==
    \/ Workflows[w].broken
    \/ ~feature /\ \E s \in DOMAIN Steps(w) : Steps(w)[s].process \in Names

Init ==
    /\ \E w \in Roots : /\ ~Refused(w, Workflows[w].feature)
                       /\ frames = [p \in {<<>>} |-> NewFrame(w, {}, Workflows[w].feature, TRUE)]
    /\ cancelled = FALSE
    /\ answers = 0

-----------------------------------------------------------------------------
(* The loop of a frame.  Handlers still out below a run that was given up are
   not followed any further. *)

Out(f)     == {s \in DOMAIN f.status : f.status[s] = "out"}
Running(p) == p \in DOMAIN frames /\ frames[p].phase = "running"

\* Mutant: one cap for all the runs of a call.
HasCapacityShared(f) ==
    MaxParallel = 0 \/ Cardinality(UNION {{<<p, s>> : s \in Out(frames[p])} : p \in DOMAIN frames}) < MaxParallel

\* hasCapacity: each run counts its own handlers.
HasCapacity(f) == MaxParallel = 0 \/ Cardinality(Out(f)) < MaxParallel

Ready(f, s) == /\ f.status[s] = "waiting" /\ ~f.stopped
               /\ \A d \in Steps(f.wf)[s].deps : f.status[d] = Success

\* record with Outcome and failStepWith: what a handler said about a step.
Recorded(f, s, outcome) ==
    [f EXCEPT !.status[s] = outcome, !.stopped = @ \/ (StopOnError /\ outcome \in Failures)]

\* result: permanent before temporary failure before suspension before success.
RunStatus(f) ==
    CASE \E s \in DOMAIN f.status : f.status[s] = "permanentFail" -> "permanentFail"
      [] \E s \in DOMAIN f.status : f.status[s] = "temporaryFail" -> "temporaryFail"
      [] \E s \in DOMAIN f.status : f.status[s] = Suspended -> Suspended
      [] OTHER -> Success

\* launch: the handler's goroutine starts.  A run being cancelled may still launch.
Launch(p, s) ==
    /\ Running(p) /\ Ready(frames[p], s) /\ HasCapacity(frames[p])
    /\ frames' = [frames EXCEPT ![p].status[s] = "out"]
    /\ UNCHANGED <<cancelled, answers>>

\* execute returns: nothing is out and nothing is ready.
Conclude(p) ==
    /\ Running(p) /\ Out(frames[p]) = {}
    /\ ~\E s \in DOMAIN frames[p].status : Ready(frames[p], s)
    /\ frames' = [frames EXCEPT ![p].phase = RunStatus(frames[p])]
    /\ UNCHANGED <<cancelled, answers>>

\* execute returns: the context is done and handlers are out.
Abandon(p) ==
    /\ cancelled /\ Running(p) /\ Out(frames[p]) # {}
    /\ frames' = [frames EXCEPT ![p].phase = "permanentFail"]
    /\ UNCHANGED <<cancelled, answers>>

\* A handler's goroutine hands its result to its loop, or finds it finished; the run
\* it drove, if any, is kept only in the payload of a suspension.
Deliver(p, s, outcome, forgotten) ==
    frames' = [q \in DOMAIN frames \ forgotten |->
                 IF q = p /\ Running(p) THEN Recorded(frames[p], s, outcome)
                 ELSE IF q = p THEN [frames[p] EXCEPT !.status[s] = "dropped"]
                 ELSE frames[q]]

-----------------------------------------------------------------------------
(* The built-in handlers. *)

\* What the parts of an ExpressionTool's evaluation may come to.
Evaluation == [value  : {"error", "scalar", "object"}, undeclared : BOOLEAN,
               literal : {"none", "fits", "too large"}, written : BOOLEAN]

\* expressionToolHandler.Execute, bindExpressionOutputs, materializeExpressionOutputs.
ExpressionOutcome(e) ==
    IF \/ e.value # "object" \/ e.undeclared \/ e.literal = "too large"
       \/ e.literal = "fits" /\ (cancelled \/ ~e.written)
    THEN "permanentFail" ELSE Success

\* A tool reports anything, an expression what it evaluates to, an Operation fails.
LeafReturns(p, s) ==
    /\ p \in DOMAIN frames /\ frames[p].status[s] = "out"
    /\ Process(p, s) \in Leaves
    /\ \E outcome \in CASE Process(p, s) = "tool"       -> Terminal \union {Suspended}
                        [] Process(p, s) = "expression" -> {ExpressionOutcome(e) : e \in Evaluation}
                        [] Process(p, s) = "operation"  -> {"permanentFail"} :
         Deliver(p, s, outcome, {})
    /\ UNCHANGED <<cancelled, answers>>

\* inheritRequirements: what is in scope for a nested run is what is in scope for the
\* step that runs it, its own declarations included.
Inherited(f, w) == f.feature \/ Workflows[w].feature

\* Mutant: only the parent is looked at.
InvokesItselfDirectly(f, w) == f.wf = w /\ w \in f.ancestors

\* descend has put every enclosing workflow on the list, up to the last one the caller
\* runs itself, which nobody has.
InvokesItself(f, w) == w \in f.ancestors

\* runSubworkflow refuses, before there is a run.
RefuseNested(p, s) ==
    /\ p \in DOMAIN frames /\ frames[p].status[s] = "out" /\ Process(p, s) \in Names
    /\ Below(p, s) \notin DOMAIN frames
    /\ LET w == Process(p, s)
       IN \/ ~Inherited(frames[p], w) \/ InvokesItself(frames[p], w)
          \/ Refused(w, Inherited(frames[p], w))
    /\ Deliver(p, s, "permanentFail", {})
    /\ UNCHANGED <<cancelled, answers>>

\* runSubworkflow: a runner over the workflow with the requirements in scope, one
\* level further down.
RunNested(p, s) ==
    LET w == Process(p, s) IN
    /\ p \in DOMAIN frames /\ frames[p].status[s] = "out" /\ w \in Names
    /\ Below(p, s) \notin DOMAIN frames
    /\ Inherited(frames[p], w) /\ ~InvokesItself(frames[p], w)
    /\ ~Refused(w, Inherited(frames[p], w))
    /\ frames' = [q \in DOMAIN frames \union {Below(p, s)} |->
                    IF q = Below(p, s)
                    THEN NewFrame(w, frames[p].ancestors \union {w}, Inherited(frames[p], w), FALSE)
                    ELSE frames[q]]
    /\ UNCHANGED <<cancelled, answers>>

\* Mutant: the payload does not carry the state.
NestedReturnsStateless(p, s) ==
    /\ p \in DOMAIN frames /\ frames[p].status[s] = "out"
    /\ Below(p, s) \in DOMAIN frames /\ frames[Below(p, s)].phase # "running"
    /\ Deliver(p, s, frames[Below(p, s)].phase, Inside(Below(p, s)))
    /\ UNCHANGED <<cancelled, answers>>

\* subResult: the run below has returned, and the handler with it.  suspendNested
\* keeps the state of a suspended run in the payload; any other is forgotten.
NestedReturns(p, s) ==
    /\ p \in DOMAIN frames /\ frames[p].status[s] = "out"
    /\ Below(p, s) \in DOMAIN frames /\ frames[Below(p, s)].phase # "running"
    /\ LET outcome == frames[Below(p, s)].phase
       IN Deliver(p, s, outcome,
                  IF outcome = Suspended /\ Running(p) THEN {} ELSE Inside(Below(p, s)))
    /\ UNCHANGED <<cancelled, answers>>

-----------------------------------------------------------------------------
(* The caller. *)

Cancel ==
    /\ ~cancelled /\ frames[<<>>].phase = "running"
    /\ cancelled' = TRUE
    /\ UNCHANGED <<frames, answers>>

\* The state of p has come to the caller: it is in the payload of a suspension of the
\* run above, whose state has come to the caller.
Handed(p) == \A i \in 1..Len(p) : frames[SubSeq(p, 1, i - 1)].status[p[i]] = Suspended

\* NewRunner over the workflow as the document has it: without what it inherited it may
\* not plan, and then nobody can resume its run.
Resumable(p) == ~Refused(frames[p].wf, Workflows[frames[p].wf].feature)

\* NewRunner and Resume under WithSubworkflows, whose list of ancestors is empty.
Resumed(f, s, outcome) ==
    [Recorded(f, s, outcome) EXCEPT !.phase = "running", !.ancestors = {},
                                    !.feature = Workflows[f.wf].feature, !.byCaller = TRUE]

\* DecodeSubworkflowSuspension down to the run that asks, then Resume it with an answer.
Answer(p, s) ==
    /\ frames[<<>>].phase = Suspended /\ ~cancelled /\ answers < MaxAnswers
    /\ p \in DOMAIN frames /\ frames[p].phase = Suspended /\ Handed(p) /\ Resumable(p)
    /\ frames[p].status[s] = Suspended /\ Below(p, s) \notin DOMAIN frames
    /\ \E outcome \in {Success, "permanentFail"} :
         frames' = [frames EXCEPT ![p] = Resumed(@, s, outcome)]
    /\ answers' = answers + 1
    /\ UNCHANGED cancelled

\* The run below has ended under the caller: Resume the run above with what it said.
Forward(p, s) ==
    /\ p \in DOMAIN frames /\ frames[p].phase = Suspended /\ Resumable(p)
    /\ frames[p].status[s] = Suspended
    /\ Below(p, s) \in DOMAIN frames /\ frames[Below(p, s)].phase \in Terminal
    /\ LET outcome == frames[Below(p, s)].phase
       IN frames' = [q \in DOMAIN frames \ Inside(Below(p, s)) |->
                       IF q = p THEN Resumed(frames[p], s, outcome) ELSE frames[q]]
    /\ UNCHANGED <<cancelled, answers>>

FrameStep(p, s) ==
    \/ Launch(p, s) \/ LeafReturns(p, s) \/ RefuseNested(p, s) \/ RunNested(p, s)
    \/ NestedReturns(p, s) \/ Forward(p, s)

Next ==
    \/ \E p \in DOMAIN frames :
         \/ Conclude(p) \/ Abandon(p)
         \/ \E s \in DOMAIN frames[p].status : FrameStep(p, s) \/ Answer(p, s)
    \/ Cancel

\* Loops and goroutines are scheduled, handlers return, and a caller that has started to
\* resume goes through with it.  Cancellation and answers are the caller's choice.
Engine == \E p \in DOMAIN frames :
            \/ Conclude(p) \/ Abandon(p)
            \/ \E s \in DOMAIN frames[p].status : FrameStep(p, s)

Spec == Init /\ [][Next]_vars
FairSpec == Spec /\ WF_vars(Engine)

-----------------------------------------------------------------------------
(* Properties. *)

\* Every run on the way from p down to q was started by runSubworkflow and has not been
\* resumed by the caller since.
Unbroken(p, q) ==
    /\ IsPrefix(p, q)
    /\ \A r \in DOMAIN frames : IsPrefix(p, r) /\ IsPrefix(r, q) /\ r # p => ~frames[r].byCaller

\* A run does not descend into a workflow it is already inside of (ErrSubworkflowCycle),
\* as far up as the last run the caller drives itself: not into that one's own workflow,
\* which nobody has put on the list, and not past it, since Resume begins with an empty
\* list.  So `run` references that form a cycle make no run endless while nobody answers.
DescentEnds ==
    \A p, q \in DOMAIN frames :
        Unbroken(p, q) /\ p # q /\ frames[q].wf = frames[p].wf => frames[p].byCaller

\* A step that waits for a nested run has that run, suspended or on its way to an end,
\* and a run that is suspended has somebody below it to ask or something to forward: the
\* caller finds who asked (suspendNested).  Whether it can resume it, is Resumable.
AnswersReachable ==
    \A p \in DOMAIN frames : frames[p].phase = Suspended =>
        /\ \E s \in DOMAIN frames[p].status : frames[p].status[s] = Suspended
        /\ \A s \in DOMAIN frames[p].status :
             frames[p].status[s] = Suspended =>
                 (Process(p, s) \in Names <=> Below(p, s) \in DOMAIN frames)

\* A suspended run is forgotten only by a run above it that failed or was given up:
\* what it had done, and whom it asks, is not lost while the whole can still succeed.
WaitingKept ==
    [][\A p \in DOMAIN frames : frames[p].phase = Suspended /\ p \notin DOMAIN frames' =>
         \E q \in DOMAIN frames : IsPrefix(q, p) /\ q # p /\ frames[q].phase \in Failures]_vars

\* suspendNested and DecodeSubworkflowSuspension: who asks is found, and goes on existing
\* until answered.
SuspensionsKept == []AnswersReachable /\ WaitingKept

\* The caller's run ends or asks: no nesting, cap or failure keeps the loops waiting for
\* one another.
RunEnds == []<>(frames[<<>>].phase # "running")
=============================================================================
