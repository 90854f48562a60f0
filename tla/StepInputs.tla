----------------------------- MODULE StepInputs -----------------------------
(***************************************************************************)
(* How a workflow document becomes a plan (newPlan of plan.go, planStep of *)
(* plan_step.go) and how values then flow along its edges: the sinks of    *)
(* inputs.go (linkMerge, pickValue, defaults, loadContents), the required  *)
(* secondary files of inputs_secondary.go, valueFrom, `when` (when.go) and *)
(* the types of workflow outputs (outputtype.go).                          *)
(*                                                                         *)
(* The life is one run of one document, step after step; which step runs   *)
(* when is RunLoop's business.  A document is chosen in Init from Library. *)
(* Handlers and expressions are environment: a handler returns any object  *)
(* of HandlerValues, an expression is one of a few symbolic programs.      *)
(***************************************************************************)
EXTENDS Values, FiniteSets, SequencesExt

CONSTANTS
    Library,        \* the documents: see the record built by MCStepInputs
    Known,          \* the values documents, callers and handlers give, and their items
    RunInputs,      \* the values a run input may be given
    HandlerValues   \* the values a handler may return on a port

\* The walks down a value (see ValueWalks).
CONSTANTS
    HasType(_, _),      \* checkValueType
    PathsSet(_),        \* NormalizeValuePaths
    Accompanied(_, _),  \* checkStepSecondaryFiles
    LeavesOf(_)         \* what a value is made of

ASSUME ValuesAssumption ==
    /\ RunInputs \subseteq Known /\ HandlerValues \subseteq Known /\ Null \in Known
    /\ \A v \in Known : "kind" \in DOMAIN v /\ ~IsErr(v) /\ (IsArr(v) => v.items \in Seq(Known))

\* A default in a document may be one that cannot be read.
Declared == Known \union {Fails("default")}

\* What a document leaves out.
Unset == ""

\* The step a run input is read from: none (sourceRef.Step is empty).
NoStep == ""

OutIds(step) == {q.id : q \in ToSet(step.out)}

\* What a loaded document is: a step is named, its inputs and what it produces have
\* identifiers of their own (resolve.go refuses duplicates), and a process that is no
\* Workflow is one step that nothing is wired to.
IsDocument(d) ==
    /\ d.steps \in Seq(ToSet(d.steps)) /\ d.outputs \in Seq(ToSet(d.outputs))
    /\ \A n \in DOMAIN d.defaults : d.defaults[n] \in Known
    /\ \A step \in ToSet(d.steps) :
          /\ step.id # NoStep /\ OutIds(step) \intersect d.inputs = {}
          /\ step.in \in Seq(ToSet(step.in)) /\ step.out \in Seq(ToSet(step.out))
          /\ \A i, j \in DOMAIN step.in : step.in[i].id = step.in[j].id => i = j
          /\ \A in \in ToSet(step.in) : in.default \in Declared /\ in.source \in Seq(ToSet(in.source))
          /\ \A param \in ToSet(step.run.inputs) : param.default \in Declared
    /\ \A one, other \in ToSet(d.steps) :
          one.id # other.id => OutIds(one) \intersect OutIds(other) = {}
    /\ \A out \in ToSet(d.outputs) : out.source \in Seq(ToSet(out.source))
    /\ d.bare => Len(d.steps) = 1 /\ d.steps[1].in = <<>>

ASSUME DocumentsAssumption == \A d \in Library : IsDocument(d)

VARIABLES
    doc,      \* the document being run
    plan,     \* the plan as far as it is built
    pc,       \* plan, edges, cycles, start, run, over
    path,     \* the steps checkAcyclic has open, the innermost last
    shut,     \* the steps it has shut
    error,    \* why planning or the run ended, or NoError
    given,    \* the run's input object
    state     \* step id |-> [phase, inputs, outputs]

vars == <<doc, plan, pc, path, shut, error, given, state>>

NoError == "none"
-----------------------------------------------------------------------------
(***************************************************************************)
(* Planning.                                                               *)
(***************************************************************************)

EmptyPlan(d) == [steps |-> <<>>,
                 sources |-> [x \in d.inputs |-> [step |-> NoStep, port |-> x]],
                 deps |-> [s \in {} |-> {}]]

\* The declared input parameters of a process by short name.
InputDecls(run) == [n \in {run.inputs[i].id : i \in DOMAIN run.inputs} |->
                      run.inputs[CHOOSE i \in DOMAIN run.inputs : run.inputs[i].id = n]]

NonNull(f) == [n \in {m \in DOMAIN f : f[m] # Null} |-> f[n]]

\* The first of a sequence of loadListing wishes that is set.
FirstSet(wishes) ==
    IF \A i \in DOMAIN wishes : wishes[i] = Unset THEN Unset
    ELSE wishes[CHOOSE i \in DOMAIN wishes : wishes[i] # Unset /\ \A j \in 1..(i - 1) : wishes[j] = Unset]

\* pendingValues: which reads each input asks for, the step's wish before the
\* parameter's and the process's, and the companions each parameter requires.
PendingReads(run, ins) ==
    LET decls == InputDecls(run)
        own(n) == SelectSeq(ins, LAMBDA in : in.id = n)
        wish(n, field) == (IF own(n) = <<>> THEN <<>> ELSE <<own(n)[1][field]>>)
                          \o (IF n \in DOMAIN decls THEN <<decls[n][field]>> ELSE <<>>)
    IN [n \in DOMAIN decls \union {ins[i].id : i \in DOMAIN ins} |->
          [contents |-> TRUE \in ToSet(wish(n, "loadContents")),
           listing  |-> FirstSet(Append(wish(n, "listing"), run.listing))]]

\* planStep and bareProcessPlan: what a plan keeps of a step and the process it runs.
PlannedStep(step) ==
    LET decls == InputDecls(step.run)
    IN [id |-> step.id, in |-> step.in, out |-> step.out, when |-> step.when,
        handled |-> step.run.handled,
        declared |-> DOMAIN decls,
        defaults |-> NonNull([n \in DOMAIN decls |-> decls[n].default]),
        reads |-> PendingReads(step.run, step.in),
        secondary |-> [n \in DOMAIN decls |-> decls[n].secondary]]

\* Which feature a step uses without its requirement, in the order the code asks.
MissingFeature(step, scope) ==
    \/ step.scatter /\ "Scatter" \notin scope
    \/ step.run.class = "Workflow" /\ "Subworkflow" \notin scope
    \/ \E i \in DOMAIN step.in :
         \/ Len(step.in[i].source) > 1 /\ "MultipleInput" \notin scope
         \/ step.in[i].valueFrom # Unset /\ "StepInputExpression" \notin scope

PlanStepError(step, d, planned) ==
    IF ~step.resolved THEN "unresolved run"
    ELSE IF step.unknown THEN "unknown requirement"
    ELSE IF MissingFeature(step, d.scope) THEN "requirement not in scope"
    ELSE IF \E i \in DOMAIN planned : planned[i].id = step.id THEN "duplicate step"
    ELSE NoError

Stop(why) == pc' = "over" /\ error' = why

\* Where the out identifiers of a step are read.
PortsOf(step) == [o \in OutIds(step) |->
                    [step |-> step.id, port |-> (CHOOSE q \in ToSet(step.out) : q.id = o).port]]

\* One turn of addSteps: plan a step, refuse a clash, index its out ports.
AddStep ==
    /\ pc = "plan" /\ ~doc.bare /\ Len(plan.steps) < Len(doc.steps)
    /\ LET step == doc.steps[Len(plan.steps) + 1]
           why  == PlanStepError(step, doc, plan.steps)
       IN IF why # NoError
          THEN Stop(why) /\ UNCHANGED plan
          ELSE /\ plan' = [plan EXCEPT !.steps = Append(@, PlannedStep(step)),
                             !.sources = Over(PortsOf(step), @)]
               /\ UNCHANGED <<pc, error>>
    /\ UNCHANGED <<doc, path, shut, given, state>>

AddWorkflowOutputs ==
    /\ pc = "plan" /\ ~doc.bare /\ Len(plan.steps) = Len(doc.steps)
    /\ IF \E i \in DOMAIN doc.outputs :
            Len(doc.outputs[i].source) > 1 /\ "MultipleInput" \notin doc.scope
       THEN Stop("requirement not in scope")
       ELSE pc' = "edges" /\ UNCHANGED error
    /\ UNCHANGED <<doc, plan, path, shut, given, state>>

\* bareProcessPlan: a process that is no Workflow is one step, and each of its outputs
\* an output of the run.
BareProcessPlan ==
    /\ pc = "plan" /\ doc.bare
    /\ LET step == doc.steps[1]
       IN IF step.unknown THEN Stop("unknown requirement") /\ UNCHANGED plan
          ELSE /\ plan' = [plan EXCEPT !.steps = <<PlannedStep(step)>>,
                             !.sources = PortsOf(step),
                             !.deps = [s \in {step.id} |-> {}]]
               /\ pc' = "start" /\ UNCHANGED error
    /\ UNCHANGED <<doc, path, shut, given, state>>

StepSources(step) == UNION {ToSet(step.in[i].source) : i \in DOMAIN step.in}

\* Mutant: only the first source of an input makes an edge.
StepDepsFirst(p, step) ==
    {p.sources[step.in[i].source[1]].step : i \in {j \in DOMAIN step.in : step.in[j].source # <<>>}} \ {NoStep}

\* The steps a step reads from; plan.go keeps them without duplicates.
StepDeps(p, step) == {p.sources[src].step : src \in StepSources(step)} \ {NoStep}

\* resolveStepEdges of every step, then the outputs' sources.
ResolveEdges ==
    /\ pc = "edges"
    /\ LET own    == UNION {StepSources(doc.steps[i]) : i \in DOMAIN doc.steps}
           wanted == UNION {ToSet(doc.outputs[i].source) : i \in DOMAIN doc.outputs}
       IN IF own \union wanted \subseteq DOMAIN plan.sources
          THEN /\ plan' = [plan EXCEPT !.deps =
                    [s \in {plan.steps[i].id : i \in DOMAIN plan.steps} |->
                        UNION {StepDeps(plan, plan.steps[i]) :
                                 i \in {j \in DOMAIN plan.steps : plan.steps[j].id = s}}]]
               /\ pc' = "cycles" /\ UNCHANGED error
          ELSE Stop("unknown source") /\ UNCHANGED plan
    /\ UNCHANGED <<doc, path, shut, given, state>>

(***************************************************************************)
(* checkAcyclic, one call or return of visit at a time.  The edges of a    *)
(* step are taken in any order; the code takes them in the document's.     *)
(***************************************************************************)

VisitRoot ==
    /\ pc = "cycles" /\ path = <<>>
    /\ \E i \in DOMAIN plan.steps :
          /\ plan.steps[i].id \notin shut
          /\ \A j \in 1..(i - 1) : plan.steps[j].id \in shut
          /\ path' = <<plan.steps[i].id>>
    /\ UNCHANGED <<doc, plan, pc, shut, error, given, state>>

VisitDep ==
    /\ pc = "cycles" /\ path # <<>>
    /\ \E dep \in plan.deps[Last(path)] \ shut :
          IF dep \in ToSet(path)
          THEN Stop("cycle") /\ UNCHANGED path
          ELSE path' = Append(path, dep) /\ UNCHANGED <<pc, error>>
    /\ UNCHANGED <<doc, plan, shut, given, state>>

ShutStep ==
    /\ pc = "cycles" /\ path # <<>>
    /\ plan.deps[Last(path)] \subseteq shut
    /\ shut' = shut \union {Last(path)} /\ path' = Front(path)
    /\ UNCHANGED <<doc, plan, pc, error, given, state>>

NoCycle ==
    /\ pc = "cycles" /\ path = <<>>
    /\ \A i \in DOMAIN plan.steps : plan.steps[i].id \in shut
    /\ pc' = "start"
    /\ UNCHANGED <<doc, plan, path, shut, error, given, state>>

-----------------------------------------------------------------------------
(***************************************************************************)
(* Sinks.                                                                  *)
(***************************************************************************)

\* merge_flattened: arrays are spliced one level deep, anything else is appended.
FlattenSources(values) ==
    FlattenSeq([i \in DOMAIN values |->
                  IF IsArr(values[i]) THEN values[i].items ELSE <<values[i]>>])

NonNulls(items) ==
    FlattenSeq([i \in DOMAIN items |-> IF items[i] = Null THEN <<>> ELSE <<items[i]>>])

Merge(sink, values) ==
    IF sink.linkMerge = Unset /\ Len(values) = 1 THEN values[1]
    ELSE IF sink.linkMerge \in {Unset, "merge_nested"} THEN Arr(values)
    ELSE IF sink.linkMerge = "merge_flattened" THEN Arr(FlattenSources(values))
    ELSE Fails("unknown linkMerge")

SelectPicked(method, kept) ==
    CASE method = "all_non_null"                          -> Arr(kept)
      [] method = "first_non_null" /\ kept # <<>>         -> kept[1]
      [] method = "the_only_non_null" /\ Len(kept) = 1    -> kept[1]
      [] OTHER                                            -> Fails("pickValue")

Pick(sink, merged) ==
    IF sink.pickValue = Unset \/ IsErr(merged) THEN merged
    ELSE SelectPicked(sink.pickValue, NonNulls(IF IsArr(merged) THEN merged.items ELSE <<merged>>))

Produced(s) == state[s].phase \in {"success", "skipped"}

\* sourceValue of loop.go: what a source identifier reads, when it is there.
SourceValue(id) ==
    LET ref == plan.sources[id]
    IN IF ref.step = NoStep THEN Get(given, ref.port)
       ELSE IF Produced(ref.step) THEN Get(state[ref.step].outputs, ref.port)
       ELSE Fails("incomplete")

SinkValue(sink) ==
    LET values == Collected([i \in DOMAIN sink.source |-> SourceValue(sink.source[i])])
    IN IF IsErr(values) THEN values ELSE Pick(sink, Merge(sink, values.items))

-----------------------------------------------------------------------------
(***************************************************************************)
(* The input object of a step.                                             *)
(***************************************************************************)

\* loadFileContents and loadDirectoryListing: a copy, or an unreadable path's error.
LoadOne(reads, v) ==
    LET wanted == \/ v.kind = "file" /\ reads.contents
                  \/ v.kind = "dir" /\ reads.listing \notin {Unset, "no_listing"}
    IN IF ~wanted THEN v
       ELSE IF v.loaded \/ v.place # "path" THEN v
       ELSE IF ~v.readable THEN Fails("load")
       ELSE [v EXCEPT !.loaded = TRUE]

Load(reads, v) ==
    IF IsArr(v) THEN Collected([i \in DOMAIN v.items |-> LoadOne(reads, v.items[i])])
    ELSE LoadOne(reads, v)

\* resolveInput: sources, then the step's own default (whose error waits for its use), then reads.
ResolveInput(step, in) ==
    LET wired == IF in.source = <<>> THEN Null ELSE SinkValue(in)
        value == IF wired = Null THEN in.default ELSE wired
    IN IF IsErr(value) THEN value ELSE Load(step.reads[in.id], value)

\* fillProcessDefaults: a null or missing name takes the run process's default.
FillProcessDefaults(step, object) ==
    Over([n \in {m \in DOMAIN step.defaults : Get(object, m) = Null} |-> step.defaults[n]], object)

\* stepInputs of a bare process: the run's inputs, nulls filled with its defaults.
BareInputs(step) ==
    [kind |-> "object",
     object |-> FillProcessDefaults(step, given)]

\* resolveInputs.
ResolveInputs(step) ==
    IF doc.bare THEN BareInputs(step) ELSE
    LET named(n) == step.in[CHOOSE i \in DOMAIN step.in : step.in[i].id = n]
        names    == {step.in[i].id : i \in DOMAIN step.in}
        own      == [n \in names |-> ResolveInput(step, named(n))]
        resolved == Collected([i \in DOMAIN step.in |-> own[step.in[i].id]])
        filled   == FillProcessDefaults(step, own)
        object   == [n \in DOMAIN filled |-> PathsSet(filled[n])]
    IN IF IsErr(resolved) THEN resolved
       ELSE IF \E n \in DOMAIN filled : IsErr(filled[n]) THEN Fails("default")
       ELSE IF \E n \in DOMAIN step.secondary : ~Accompanied(Get(object, n), step.secondary[n])
       THEN Fails("secondary")
       ELSE [kind |-> "object", object |-> object]

\* A valueFrom or `when` program: self, another input, a constant, or a failure.
Eval(program, object, self) ==
    CASE program.op = "self"  -> self
      [] program.op = "input" -> Get(object, program.name)
      [] program.op = "const" -> program.value
      [] OTHER                -> Fails("expression")

\* Mutant: each expression sees what the ones before it wrote.
ApplyValueFromInTurn(step, object) ==
    FoldLeft(LAMBDA o, in : IF in.valueFrom = Unset THEN o
                            ELSE [o EXCEPT ![in.id] = Eval(doc.programs[in.valueFrom], o, @)],
             object, step.in)

\* applyValueFrom: every expression sees the object as it was before any of them.
ApplyValueFrom(step, object) ==
    IF doc.bare THEN object ELSE
    [n \in DOMAIN object |->
        IF \E i \in DOMAIN step.in : step.in[i].id = n /\ step.in[i].valueFrom # Unset
        THEN Eval(doc.programs[step.in[CHOOSE i \in DOMAIN step.in : step.in[i].id = n].valueFrom],
                  object, object[n])
        ELSE object[n]]

\* EvalWhen: TRUE, FALSE or an error, as a value.
EvalWhen(step, object) ==
    IF step.when = Unset THEN [kind |-> "boolean", truth |-> TRUE]
    ELSE LET v == Eval(doc.programs[step.when], object, Null)
         IN IF v.kind = "boolean" THEN v ELSE Fails("when")

ProjectDeclaredInputs(step, object) ==
    [n \in DOMAIN object \intersect step.declared |-> object[n]]

-----------------------------------------------------------------------------
(***************************************************************************)
(* The run.                                                                *)
(***************************************************************************)

Waiting == [phase |-> "waiting", inputs |-> <<>>, outputs |-> <<>>, why |-> NoError]

\* initialInputs: a run input that was not supplied takes its default.
InitialInputs(raw) == Over(raw, doc.defaults)

\* bindHandlers, then Run.
StartRun ==
    /\ pc = "start"
    /\ IF \E i \in DOMAIN plan.steps : ~plan.steps[i].handled
       THEN Stop("no handler") /\ UNCHANGED <<given, state>>
       ELSE /\ \E supplied \in SUBSET doc.inputs : \E raw \in [supplied -> RunInputs] :
                  given' = InitialInputs(raw)
            /\ state' = [s \in DOMAIN plan.deps |-> Waiting]
            /\ pc' = "run" /\ UNCHANGED error
    /\ UNCHANGED <<doc, plan, path, shut>>

Failed(why) == [Waiting EXCEPT !.phase = "failed", !.why = why]

\* startStep of a step without scatter: resolve, valueFrom, when, project.
StartStep(step) ==
    /\ pc = "run" /\ state[step.id].phase = "waiting"
    /\ \A d \in plan.deps[step.id] : Produced(d)
    /\ LET resolved == ResolveInputs(step)
           object   == ApplyValueFrom(step, resolved.object)
           admitted == EvalWhen(step, object)
           after == IF IsErr(resolved) THEN Failed(resolved.why)
                    ELSE IF \E n \in DOMAIN object : IsErr(object[n]) THEN Failed("valueFrom")
                    ELSE IF IsErr(admitted) THEN Failed("when")
                    ELSE IF ~admitted.truth
                    THEN [Waiting EXCEPT !.phase = "skipped",
                                         !.outputs = [q \in {p.port : p \in ToSet(step.out)} |-> Null]]
                    ELSE [Waiting EXCEPT !.phase = "called",
                                         !.inputs = ProjectDeclaredInputs(step, object)]
       IN state' = [state EXCEPT ![step.id] = after]
    /\ UNCHANGED <<doc, plan, pc, path, shut, error, given>>

HandlerReturns(step) ==
    /\ pc = "run" /\ state[step.id].phase = "called"
    /\ \/ \E object \in [{p.port : p \in ToSet(step.out)} -> HandlerValues] :
            state' = [state EXCEPT ![step.id].phase = "success", ![step.id].outputs = object]
       \/ state' = [state EXCEPT ![step.id] = Failed("handler")]
    /\ UNCHANGED <<doc, plan, pc, path, shut, error, given>>

\* runOutputs: unwired outputs are null, the others are resolved and checked in order.
Outputs == IF doc.bare
           THEN [i \in DOMAIN doc.steps[1].out |->
                   [source |-> <<doc.steps[1].out[i].id>>, linkMerge |-> Unset, pickValue |-> Unset,
                    type |-> [kind |-> "none"]]]
           ELSE doc.outputs

RunOutput(out) ==
    IF out.source = <<>> THEN Null
    ELSE LET v == SinkValue(out)
         IN IF IsErr(v) \/ HasType(v, out.type) THEN v ELSE Fails("output type")

FinishRun ==
    /\ pc = "run" /\ \A s \in DOMAIN state : Produced(s)
    /\ LET outs == Collected([i \in DOMAIN Outputs |-> RunOutput(Outputs[i])])
       IN Stop(IF IsErr(outs) THEN outs.why ELSE "success")
    /\ UNCHANGED <<doc, plan, path, shut, given, state>>

Init ==
    /\ doc \in Library
    /\ plan = EmptyPlan(doc)
    /\ pc = "plan" /\ path = <<>> /\ shut = {} /\ error = NoError
    /\ given = <<>> /\ state = <<>>

Steps == {plan.steps[i] : i \in DOMAIN plan.steps}

Next ==
    \/ AddStep \/ BareProcessPlan \/ AddWorkflowOutputs \/ ResolveEdges
    \/ VisitRoot \/ VisitDep \/ ShutStep \/ NoCycle \/ StartRun
    \/ \E step \in Steps : StartStep(step) \/ HandlerReturns(step)
    \/ FinishRun

Spec == Init /\ [][Next]_vars

-----------------------------------------------------------------------------
(***************************************************************************)
(* Properties.                                                             *)
(***************************************************************************)

\* A set of steps each of which reads from a step of the set: what a cycle needs.
Knot(S) == S # {} /\ \A s \in S : \E step \in ToSet(doc.steps) :
              step.id = s /\ \E src \in StepSources(step) :
                  \E other \in ToSet(doc.steps) : other.id \in S /\ src \in OutIds(other)

\* A plan is refused for a cycle exactly when its steps have one, and a plan that is
\* accepted is enough for its run: no sink is ever read before its source has produced
\* (ErrIncomplete), and while no step has failed there is one to start, one out, or
\* nothing left (newPlan, against sourceValue and startReadySteps).
PlanSufficient ==
    /\ error = "cycle" => \E S \in SUBSET {step.id : step \in ToSet(doc.steps)} : Knot(S)
    /\ pc = "run" => \A S \in SUBSET {step.id : step \in ToSet(doc.steps)} : ~Knot(S)
    /\ error # "incomplete" /\ \A s \in DOMAIN state : state[s].why # "incomplete"
    /\ pc = "run" =>
         \/ \A s \in DOMAIN state : Produced(s)
         \/ \E s \in DOMAIN state :
              \/ state[s].phase \in {"called", "failed"}
              \/ state[s].phase = "waiting" /\ \A d \in plan.deps[s] : Produced(d)

NameOf(leaf) == IF leaf.kind \in {"file", "dir"} THEN leaf.name ELSE leaf

\* What a handler was given is what the inputs of its step come to for as long as it is out,
\* whatever finished meanwhile, and every valueFrom is computed from the same object, whatever
\* the order of the inputs (startStep, resolveInputs, applyValueFrom).
GivenStays ==
    pc = "run" => \A step \in Steps : state[step.id].phase = "called" =>
        LET resolved == ResolveInputs(step)
            inputs   == state[step.id].inputs
        IN /\ ~IsErr(resolved)
           /\ inputs = ProjectDeclaredInputs(step, ApplyValueFrom(step, resolved.object))
           /\ \A i \in DOMAIN step.in :
                LET in == step.in[i]
                IN in.id \in step.declared /\ in.valueFrom # Unset =>
                     inputs[in.id] = Eval(doc.programs[in.valueFrom], resolved.object, resolved.object[in.id])

\* What reaches a handler is what its document wires, in the order it is wired: merging
\* loses, repeats and reorders nothing but the nulls; no port with a default is left null;
\* all_non_null leaves no null item behind (sink.value, resolveInput, fillProcessDefaults);
\* and it stays so.
DeliveredAsWired ==
    /\ GivenStays
    /\ pc = "run" => \A step \in Steps : state[step.id].phase = "called" =>
        \A i \in DOMAIN step.in :
            LET in    == step.in[i]
                wired == FlattenSeq([j \in DOMAIN in.source |-> LeavesOf(SourceValue(in.source[j]))])
                value == Get(state[step.id].inputs, in.id)
                names(seq) == [j \in DOMAIN seq |-> NameOf(seq[j])]
            IN in.id \in step.declared /\ in.valueFrom = Unset =>
               /\ wired # <<>> =>
                    IF in.pickValue \in {Unset, "all_non_null"}
                    THEN names(LeavesOf(value)) = names(wired)
                    ELSE IsPrefix(names(LeavesOf(value)), names(wired))
               /\ value = Null => in.default = Null /\ Get(step.defaults, in.id) = Null
               /\ in.pickValue = "all_non_null" =>
                    \A j \in DOMAIN value.items : value.items[j] # Null
=============================================================================
