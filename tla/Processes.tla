----------------------------- MODULE Processes -----------------------------
(***************************************************************************)
(* From documents to processes (pkg/cwlcore): the trees Documents loads    *)
(* are decoded into processes, every `run` of a step is linked to the      *)
(* process it names, in its document or in another, and a graph that runs  *)
(* itself is refused.  A run then goes down the linked graph, a level at a *)
(* time: each level is planned under the requirements in scope, and at a   *)
(* tool the resources of one invocation are chosen.                        *)
(*                                                                         *)
(* Processes are cells of a heap, a run is the index of one: two loads of  *)
(* one object are two processes.  Amounts are in halves of a unit.         *)
(***************************************************************************)
EXTENDS Schemas, Integers

CONSTANTS
    Loads,          \* what may be loaded, under which extensions and options:
                    \* [files, entry, exts, premerged, strict, foreign]
    Handlers,       \* the classes of process the registry has a handler for
    CoreClasses,    \* the requirement classes of CWL
    AllowRequirements, \* Config.AllowRequirements: those of extensions the caller knows
    WorkflowOnly,   \* those a CommandLineTool does not inherit
    V10Renames,     \* extension class |-> the class it became
    V10Defaults,    \* <<class, value>> of what v1.0 did without being asked
    Budgets         \* Config.Resources: [cores, ram, tmp], 0 for no ceiling

ASSUME ProcessesAssumption == WorkflowOnly \subseteq CoreClasses

VARIABLES
    stage,    \* "chosen", "linked", "planned", "granted", or "rejected"
    load,     \* the member of Loads
    trees,    \* what LoadNode makes of each of its documents
    why,      \* the error
    heap,     \* the processes
    root,     \* the one that was loaded
    level,    \* the process the run is at, and its requirements and hints as it sees them
    chain,    \* every frame from the root down to it, as declared
    scope,    \* the RequirementScope in effect
    granted   \* the resources chosen, and the request

vars == <<stage, load, trees, why, heap, root, level, chain, scope, granted>>

-----------------------------------------------------------------------------
(* Versions: what is written as v1.0 or v1.1 is rewritten to v1.2.         *)

\* shortName: the name of what belongs to CWL, the IRI of anything else.
NameOf(n) == LET p == n.v.path IN IF Len(p) = 2 /\ p[1] # Namespaces["cwl"] THEN p[1] \o p[2] ELSE p[Len(p)]

DeclaredVersion(d) == LET v == Get(load.files[d], "cwlVersion") IN IF v.k = "scalar" THEN v.v ELSE "v1.2"

\* mapSeqField.
Each(m, key, fn(_)) ==
    LET list == Get(m, key) IN IF list.k # "seq" THEN m ELSE With(m, key, [list EXCEPT !.items = [i \in DOMAIN @ |-> fn(@[i])]])
\* renameRequirements: extensions that v1.1 made part of CWL.
Renamed(entry) ==
    LET class == Get(entry, "class")
    IN IF class.k = "str" /\ NameOf(class) \in DOMAIN V10Renames
       THEN With(entry, "class", [class EXCEPT !.v = Rel(<<V10Renames[NameOf(class)]>>)]) ELSE entry
RenamedIn(m)        == Each(Each(m, "requirements", Renamed), "hints", Renamed)
RenameRequirements(m) == Each(RenamedIn(m), "steps", RenamedIn)

\* visitClass.
RECURSIVE Visited(_)
Visited(n) ==
    LET class == Get(n, "class")
        here  == IF class.k = "str" /\ NameOf(class) \in {"CommandLineTool", "Workflow"} THEN RenameRequirements(n) ELSE n
    IN CASE n.k = "map" -> [here EXCEPT !.fields = [i \in DOMAIN @ |-> <<@[i][1], Visited(@[i][2])>>]]
         [] n.k = "seq" -> [n EXCEPT !.items = [i \in DOMAIN @ |-> Visited(@[i])]]
         [] OTHER -> n

\* requirementRecord.
V10Hint(n, i) == [Mapping(<< <<"class", Str(Rel(<<V10Defaults[i][1]>>))>>, <<"value", V10Defaults[i][2]>> >>) EXCEPT !.at = n.at]

\* withV10Defaults: before the hints of every process at the top.
WithV10Defaults(n) ==
    LET own == Get(n, "hints")
    IN IF n.k # "map" THEN n
       ELSE With(n, "hints", List([i \in DOMAIN V10Defaults |-> V10Hint(n, i)] \o IF own.k = "seq" THEN own.items ELSE <<>>))

Upgrade(root_, version) ==
    LET renamed == Visited(root_)
    IN IF version # "v1.0" THEN root_
       ELSE IF root_.k = "seq" THEN [renamed EXCEPT !.items = [i \in DOMAIN @ |-> WithV10Defaults(@[i])]]
       ELSE WithV10Defaults(renamed)

-----------------------------------------------------------------------------
(* Decoding. *)

Declared(n, key) ==
    LET list == Get(n, key)
    IN IF list.k # "seq" THEN <<>>
       ELSE [i \in DOMAIN list.items |-> [class |-> NameOf(Get(list.items[i], "class")), value |-> Get(list.items[i], "value")]]

\* processID: the declared identifier, or a blank one that the position and the
\* text of the node determine.
IdOf(n) == IF Get(n, "id").k = "str" THEN Get(n, "id").v ELSE Ref("blank", <<"_:">> \o n.at, <<>>)
Features == [scatter |-> "ScatterFeatureRequirement", sources |-> "MultipleInputFeatureRequirement",
             valueFrom |-> "StepInputExpressionRequirement", nested |-> "SubworkflowFeatureRequirement"]
NoRun   == [to |-> 0, ref |-> NoName]

\* What a step uses that a requirement must allow (checkStepFeatures).
Uses(n) ==
    LET ins == Get(n, "in")
        in(P(_)) == ins.k = "seq" /\ \E i \in DOMAIN ins.items : P(ins.items[i])
    IN {f \in DOMAIN Features :
          \/ f = "scatter" /\ Get(n, "scatter").k # "null"
          \/ f = "sources" /\ in(LAMBDA x : Get(x, "source").k = "seq" /\ Len(Get(x, "source").items) > 1)
          \/ f = "valueFrom" /\ in(LAMBDA x : Get(x, "valueFrom").k # "null")}

\* extendsWorkflow: h.flows are the classes, as documents name them, that extend
\* Workflow in the schema the decoder was given.
FlowsOf(S, ctx) ==
    LET flows == {n \in DOMAIN S.types : S.types[n].kind = "record" /\ Extends(S, S.types[n], CWL("Workflow"))}
    IN {Ref("abs", n, <<>>) : n \in flows} \union {Rel(<<t>>) : t \in {u \in DOMAIN ctx.vocab : ctx.vocab[u] \in flows}}
IsFlow(h, n) == NameOf(Get(n, "class")) = "Workflow" \/ Get(n, "class").v \in h.flows

RECURSIVE Decode(_, _)
\* workflowStep: an inline process, a reference, or an error.
DecodeStep(h, at, n) ==
    LET run   == Get(n, "run")
        inner == Decode(h, run)
        step(r) == [id |-> IdOf(n), run |-> r, uses |-> Uses(n), reqs |-> Declared(n, "requirements"), hints |-> Declared(n, "hints")]
        put(g, r) == [g EXCEPT !.procs[at].steps = Append(@, step(r))]
    IN CASE run.k = "str" -> put(h, [NoRun EXCEPT !.ref = run.v])
         [] run.k = "map" -> put(inner.h, [NoRun EXCEPT !.to = inner.at])
         [] OTHER -> [h EXCEPT !.err = "decode"]
Decode(h, n) ==
    LET at    == Len(h.procs) + 1
        shell == [id |-> IdOf(n), class |-> NameOf(Get(n, "class")), flow |-> IsFlow(h, n), steps |-> <<>>,
                  reqs |-> Declared(n, "requirements"), hints |-> Declared(n, "hints")]
        steps == Get(n, "steps")
    IN IF n.k # "map" \/ Get(n, "class").k # "str" THEN [h |-> [h EXCEPT !.err = "decode"], at |-> 0]
       ELSE [h |-> FoldLeft(LAMBDA g, s : DecodeStep(g, at, s), [h EXCEPT !.procs = Append(@, shell)],
                            IF IsFlow(h, n) /\ steps.k = "seq" THEN steps.items ELSE <<>>),
             at |-> at]

-----------------------------------------------------------------------------
(* Linking. *)

NoTree(why_) == [err |-> why_, resolved |-> Null, root |-> Null]
\* schemaFor, each merged schema built once: one that is merged beforehand is that
\* of v1.2, whatever the document declares.
SchemaTable == [key \in {<<v, l.exts>> : v \in DOMAIN Declarations, l \in Loads} |-> Merged(key[1], key[2])]
SchemaVersion(d) == IF load.premerged THEN "v1.2" ELSE DeclaredVersion(d)
SchemaOf(d)      == SchemaTable[<<SchemaVersion(d), load.exts>>]
Validated(schema, tree) ==
    IF tree.err = "" /\ ~ValidDocument(schema, tree.root, load) THEN [tree EXCEPT !.err = "invalid"] ELSE tree
ResolveDocument(d) ==
    CASE SchemaVersion(d) \notin DOMAIN Declarations -> NoTree("version")
      [] SchemaOf(d).err # "" -> NoTree("schema")
      [] OTHER -> Validated(SchemaOf(d), LoadNode(load.files, d, ContextOf(load.exts)))
Tree(d) == IF d \in DOMAIN trees THEN trees[d] ELSE NoTree("fetch")

\* idFragment: the part after the '#', or all of it.
Fragment(id) == IF id.frag = <<>> THEN id.path ELSE id.frag
First(S)     == IF S = {} THEN 0 ELSE CHOOSE i \in S : \A j \in S : i <= j

\* processIndex.find: by identifier, else by fragment, the first of each.
Find(procs, from, ref) ==
    LET byID       == {i \in from .. Len(procs) : procs[i].id = ref}
        byFragment == {i \in from .. Len(procs) : Fragment(procs[i].id) = Fragment(ref)}
    IN IF byID # {} THEN First(byID) ELSE First(byFragment)

\* linkLocalRuns, over the processes one document has added to the heap.
LinkLocal(h, from) ==
    LET linked(run) == IF run.to # 0 THEN run ELSE [run EXCEPT !.to = Find(h.procs, from, run.ref)]
    IN [h EXCEPT !.procs = [i \in DOMAIN @ |-> IF i < from THEN @[i] ELSE
           [@[i] EXCEPT !.steps = [s \in DOMAIN @ |-> [@[s] EXCEPT !.run = linked(@)]]]]]

Runs(procs, p) == {procs[p].steps[s].run.to : s \in DOMAIN procs[p].steps} \ {0}
RECURSIVE Below(_, _)
Below(procs, S) == LET T == S \union UNION {Runs(procs, p) : p \in S} IN IF T = S THEN S ELSE Below(procs, T)
RunsItselfDirectly(procs, p) == p \in Runs(procs, p)
\* checkRunCycles: a workflow below which it runs again.
RunsItself(procs, p) == \E q \in Below(procs, {p}) : q \in Below(procs, Runs(procs, q))

\* graphNodes, selectMain, selectFragment: the node an address means.
Nodes(tree) == IF tree.k = "seq" THEN tree.items ELSE <<tree>>
Entry(tree, frag) ==
    IF tree.k # "seq" /\ frag = <<>> THEN 1
    ELSE First({i \in DOMAIN Nodes(tree) : Nodes(tree)[i].k = "map"
                  /\ Fragment(IdOf(Nodes(tree)[i])) = IF frag = <<>> THEN <<"main">> ELSE frag})

\* decodeLinked, of the node at the address.
DecodeTarget(h, tree, frag) ==
    LET entry == Entry(tree, frag)
        put(ats, d) == [h |-> d.h, at |-> Append(ats, d.at)]
        acyclic(linked, at) == IF RunsItself(linked.procs, at) THEN [h |-> [linked EXCEPT !.err = "cycle"], at |-> 0]
                               ELSE [h |-> linked, at |-> at]
        linked(all) == IF all.h.err # "" THEN [h |-> all.h, at |-> 0]
                       ELSE acyclic(LinkLocal(all.h, Len(h.procs) + 1), all.at[entry])
    IN IF entry = 0 THEN [h |-> [h EXCEPT !.err = "nothing"], at |-> 0]
       ELSE linked(FoldLeft(LAMBDA acc, n : put(acc.at, Decode(acc.h, n)), [h |-> h, at |-> <<>>], Nodes(tree)))

\* externalRuns: references to other documents are followed, each object loaded
\* once; base is the document the steps were written in.
RECURSIVE LinkExternal(_, _, _)
LoadTarget(h, key) ==
    LET tree == Tree(DocOf(key))
        linked(made) ==
            IF made.h.err # "" THEN made
            ELSE [h |-> LinkExternal([made.h EXCEPT !.cache = (key :> made.at) @@ @, !.flows = {}], made.at, DocOf(key)), at |-> made.at]
    IN IF tree.err # "" THEN [h |-> [h EXCEPT !.err = tree.err], at |-> 0]
       ELSE linked(DecodeTarget(h, Upgrade(tree.root, DeclaredVersion(DocOf(key))), key.frag))
\* load: each object once.
CachedTarget(h, key) == IF key \in DOMAIN h.cache THEN [h |-> h, at |-> h.cache[key]] ELSE LoadTarget(h, key)
RunLeadsTo(p, s, made) == IF made.h.err # "" THEN made.h ELSE [made.h EXCEPT !.procs[p].steps[s].run.to = made.at]
LinkStepByDocument(h, p, s, base) ==
    LET run  == h.procs[p].steps[s].run
        key  == DocURL(IF run.ref.path = <<>> THEN base ELSE DocOf(run.ref))
    IN CASE h.err # "" -> h
         [] run.to # 0 -> LinkExternal(h, run.to, base)
         [] OTHER -> RunLeadsTo(p, s, CachedTarget(h, key))

\* linkStep.
LinkStep(h, p, s, base) ==
    LET run  == h.procs[p].steps[s].run
        key  == Ref("abs", IF run.ref.path = <<>> THEN <<base>> ELSE run.ref.path, run.ref.frag)
    IN CASE h.err # "" -> h
         [] run.to # 0 -> LinkExternal(h, run.to, base)
         [] run.ref.frag # <<>> /\ DocOf(key) = base -> [h EXCEPT !.err = "undeclared"]
         [] OTHER -> RunLeadsTo(p, s, CachedTarget(h, key))

\* linkExternalRuns of one process.
LinkExternal(h, p, base) ==
    IF p \in h.linked THEN h
    ELSE FoldLeft(LAMBDA g, s : LinkStep(g, p, s, base), [h EXCEPT !.linked = @ \union {p}],
                  [s \in DOMAIN h.procs[p].steps |-> s])

\* LoadFile: only what is loaded first is decoded with the schema at hand.
Loaded(entry) ==
    LET flows == IF Tree(DocOf(entry)).err = "" THEN FlowsOf(SchemaOf(DocOf(entry)), ContextOf(load.exts)) ELSE {}
        none  == [procs |-> <<>>, cache |-> <<>>, linked |-> {}, flows |-> flows, err |-> ""]
        checked(all) == IF all.h.err = "" /\ RunsItself(all.h.procs, all.at) THEN [all EXCEPT !.h.err = "cycle"] ELSE all
    IN checked(LoadTarget(none, entry))

-----------------------------------------------------------------------------
(* Requirements: frames from the outside in. *)

FrameOf(p)      == [class |-> heap[p].class, reqs |-> heap[p].reqs, hints |-> heap[p].hints]
StepFrame(step) == [class |-> "", reqs |-> step.reqs, hints |-> step.hints]

\* filterFrames: what encloses a CommandLineTool is inherited in part.
KeepValid(entries) == SelectSeq(entries, LAMBDA e : e.class \notin WorkflowOnly)
Target(frames)     == CHOOSE i \in 0 .. Len(frames) : /\ i > 0 => frames[i].class # ""
                                                      /\ \A j \in i + 1 .. Len(frames) : frames[j].class = ""
View(frames) ==
    LET t == Target(frames)
    IN IF t = 0 \/ frames[t].class # "CommandLineTool" THEN frames
       ELSE [i \in DOMAIN frames |-> IF i >= t THEN frames[i]
                 ELSE [frames[i] EXCEPT !.reqs = KeepValid(@), !.hints = KeepValid(@)]]

AllReqs(frames)  == FlattenSeq([i \in DOMAIN frames |-> frames[i].reqs])
AllHints(frames) == FlattenSeq([i \in DOMAIN frames |-> frames[i].hints])
OfClass(entries, class) == SelectSeq(entries, LAMBDA e : e.class = class)

\* GetRequirement: the innermost requirement, else the innermost hint.
InEffect(frames, class) ==
    LET reqs  == OfClass(AllReqs(View(frames)), class)
        hints == OfClass(AllHints(View(frames)), class)
    IN IF reqs # <<>> THEN <<"requirements", Last(reqs).value>>
       ELSE IF hints # <<>> THEN <<"hints", Last(hints).value>> ELSE <<"none", Null>>
InScope(frames, class) == InEffect(frames, class)[1] # "none"

KeepFirst(entries) ==
    LET keep == {i \in DOMAIN entries : \A j \in 1 .. i - 1 : entries[j].class # entries[i].class}
    IN SelectSeq([i \in DOMAIN entries |-> [at |-> i, e |-> entries[i]]], LAMBDA x : x.at \in keep)
\* EffectiveRequirements: the last of each class.
KeepLast(entries) ==
    LET keep == {i \in DOMAIN entries : \A j \in i + 1 .. Len(entries) : entries[j].class # entries[i].class}
    IN SelectSeq([i \in DOMAIN entries |-> [at |-> i, e |-> entries[i]]], LAMBDA x : x.at \in keep)

EffectiveRequirements(frames) == [i \in DOMAIN KeepLast(AllReqs(View(frames))) |-> KeepLast(AllReqs(View(frames)))[i].e]

KnownAtEnd(frames) == \A i \in DOMAIN Last(frames).reqs : Last(frames).reqs[i].class \in CoreClasses \union AllowRequirements
\* CheckKnown: over the frames as declared, not lenient.
Known(frames) == \A i \in DOMAIN AllReqs(frames) : AllReqs(frames)[i].class \in CoreClasses \union AllowRequirements

-----------------------------------------------------------------------------
(* Resources. *)

Ceil(x)     == 2 * ((x + 1) \div 2)

Default     == [cores |-> 2, ram |-> 512, tmp |-> 2048]
Unset       == -1
Asked(declared, fallback) == IF declared = Unset THEN fallback ELSE declared
\* resourceRequest: a maximum that is not declared, or 0, is the minimum.
Request(value) ==
    [what \in DOMAIN Default |->
        LET whole(x) == IF what = "cores" THEN x ELSE Ceil(x)
            min == whole(Asked(IF value.k = "null" THEN Unset ELSE value.v[what].min, Default[what]))
            max == whole(Asked(IF value.k = "null" THEN Unset ELSE value.v[what].max, 0))
        IN [min |-> min, max |-> IF max = 0 THEN min ELSE max]]
\* clampInt and clampFloat; the maximum of a temporary directory is its minimum.
Larger(a, b)  == IF a < b THEN b ELSE a
Smaller(a, b) == IF a < b THEN a ELSE b
Ceiling(what, request, budget) ==
    LET max == IF what = "tmp" THEN request[what].min ELSE request[what].max
    IN IF budget[what] > 0 THEN Smaller(max, budget[what]) ELSE max
Select(request, budget) == [what \in DOMAIN Default |-> Larger(Ceiling(what, request, budget), request[what].min)]
Exceeds(request, budget) == \E what \in DOMAIN Default : budget[what] > 0 /\ request[what].min > budget[what]

-----------------------------------------------------------------------------
NoLevel == [p |-> 0, reqs |-> <<>>, hints |-> <<>>]
Nothing == [request |-> <<>>, budget |-> <<>>, given |-> <<>>]

Init ==
    /\ stage = "chosen" /\ load \in Loads /\ why = ""
    /\ trees = [d \in DOMAIN load.files |-> ResolveDocument(d)]
    /\ heap = <<>> /\ root = 0
    /\ level = NoLevel /\ chain = <<>> /\ scope = <<>> /\ granted = Nothing

Reject(reason) ==
    /\ stage' = "rejected" /\ why' = reason
    /\ UNCHANGED <<load, trees, heap, root, level, chain, scope, granted>>

\* LoadFile.
Link ==
    /\ stage = "chosen"
    /\ \E done \in {Loaded(load.entry)} :
         IF done.h.err # "" THEN Reject(done.h.err)
         ELSE /\ stage' = "linked" /\ heap' = done.h.procs /\ root' = done.at
              /\ level' = [p |-> done.at, reqs |-> done.h.procs[done.at].reqs, hints |-> done.h.procs[done.at].hints]
              /\ UNCHANGED <<load, trees, why, chain, scope, granted>>

IsWorkflow(p) == heap[p].flow
\* bindHandlers.
Handled(p)    == heap[p].class \in Handlers \/ (IsWorkflow(p) /\ "Workflow" \in Handlers)
Here          == [class |-> heap[level.p].class, reqs |-> level.reqs, hints |-> level.hints]
Steps         == heap[level.p].steps
\* planStep: the scope of a step, and then of what it runs.
StepScope(s)  == <<Here, StepFrame(Steps[s])>>
RunScope(s)   == Append(StepScope(s), FrameOf(Steps[s].run.to))
UsedBy(s)     == Steps[s].uses \union (IF IsWorkflow(Steps[s].run.to) THEN {"nested"} ELSE {})
Plannable(s)  == Known(RunScope(s)) /\ Handled(Steps[s].run.to) /\ \A f \in UsedBy(s) : InScope(StepScope(s), Features[f])

\* NewRunner, for the workflow the run is at.
Plan ==
    /\ stage = "linked" /\ IsWorkflow(level.p)
    /\ \A s \in DOMAIN Steps : Plannable(s)
    /\ stage' = "planned"
    /\ chain' = IF chain = <<>> THEN <<FrameOf(level.p)>> ELSE chain
    /\ UNCHANGED <<load, trees, why, heap, root, level, scope, granted>>
Unplannable ==
    /\ stage = "linked" /\ IsWorkflow(level.p)
    /\ \E s \in DOMAIN Steps : ~Plannable(s)
    /\ Reject("requirement")

\* runSubworkflow: the inner workflow is planned with the requirements in scope
\* put in the place of its own (inheritRequirements).
Descend(s) ==
    /\ stage = "planned" /\ s \in DOMAIN Steps
    /\ stage' = "linked"
    /\ scope' = RunScope(s)
    /\ chain' = chain \o <<StepFrame(Steps[s]), FrameOf(Steps[s].run.to)>>
    /\ level' = [p |-> Steps[s].run.to, reqs |-> EffectiveRequirements(RunScope(s)), hints |-> AllHints(View(RunScope(s)))]
    /\ UNCHANGED <<load, trees, why, heap, root, granted>>

\* bareProcessPlan, when the process loaded is no workflow.
Bare ==
    /\ stage = "linked" /\ ~IsWorkflow(level.p) /\ chain = <<>>
    /\ IF Known(<<FrameOf(level.p)>>) /\ Handled(level.p)
       THEN /\ chain' = <<FrameOf(level.p)>> /\ scope' = <<FrameOf(level.p)>>
            /\ UNCHANGED <<stage, load, trees, why, heap, root, level, granted>>
       ELSE Reject("requirement")

\* newCall: the resources of one invocation.
Grant ==
    /\ stage = "linked" /\ ~IsWorkflow(level.p) /\ chain # <<>>
    /\ \E budget \in Budgets :
         LET request == Request(InEffect(scope, "ResourceRequirement")[2])
         IN IF Exceeds(request, budget) THEN Reject("resources")
            ELSE /\ stage' = "granted"
                 /\ granted' = [request |-> InEffect(scope, "ResourceRequirement")[2], budget |-> budget,
                                given |-> Select(request, budget)]
                 /\ UNCHANGED <<load, trees, why, heap, root, level, chain, scope>>

Next == Link \/ Plan \/ Unplannable \/ (\E s \in 1 .. Len(heap) : Descend(s)) \/ Bare \/ Grant

Spec == Init /\ [][Next]_vars
-----------------------------------------------------------------------------
(* Properties.  What the documents say is read from the trees themselves.  *)

Names(n)   == LET all == AllStrings(n)
              IN {all[i].v : i \in {j \in DOMAIN all : all[j].field = "id" \/ TermOf(all[j].field).identity}}
Written(s) == TermOf(s.field).scoped /\ s.v.is = "rel" /\ ~HasTerm(ContextOf(load.exts), s.v)

(* A link written as a bare name leads to the innermost declaration of that *)
(* name outside the scopes its field skips, in every document that loads:  *)
(* what earlier and later objects, imports and mere mentions put in the    *)
(* index does not draw it elsewhere (resolve.go, searchScopes).            *)
InnermostLinks ==
    stage = "chosen" => \A d \in DOMAIN load.files : Tree(d).err = "" =>
        LET before == AllStrings(Tree(d).resolved)
            after  == AllStrings(Tree(d).root)
            names  == Names(Tree(d).root)
        IN \A i \in DOMAIN before : Written(before[i]) =>
             LET outer(n) == [before[i].base EXCEPT !.frag = SubSeq(@, 1, n) \o before[i].v.path]
                 most     == Larger(0, Len(before[i].base.frag) - TermOf(before[i].field).up)
             IN \E n \in 0 .. most : /\ after[i].v = outer(n) /\ outer(n) \in names
                                     /\ \A m \in n + 1 .. most : outer(m) \notin names

RECURSIVE Objects(_)
Objects(n) ==
    CASE n.k = "map" -> Append(FoldLeft(LAMBDA all, f : all \o Objects(f[2]), <<>>, n.fields), n)
      [] n.k = "seq" -> FoldLeft(LAMBDA all, item : all \o Objects(item), <<>>, n.items)
      [] OTHER -> <<>>

(* An extension narrows what it extends.  Wherever a document that loads   *)
(* has an object of a type that declares an inherited field again, with no *)
(* key the type does not know, the value is one the field took as          *)
(* inherited, so that the engine, which knows the field of the base, may   *)
(* read it (overrideNarrows, IsSubtype); only the class, by which a type   *)
(* is told from its base, may differ.                                      *)
OverridesNarrow ==
    stage = "chosen" => \A d \in DOMAIN load.files : Tree(d).err = "" =>
        \E S \in {SchemaOf(d)} : \E objects \in {Objects(Tree(d).root)} :
            \A o \in {x \in S.again : ~IsClass(S, x.now, x.was)} : \A i \in DOMAIN objects :
                (Has(objects[i], o.field) /\ Valid(S, TypeNamed(o.record), objects[i], [load EXCEPT !.strict = TRUE, !.foreign = TRUE]))
                => Valid(S, o.was, Get(objects[i], o.field), [load EXCEPT !.strict = FALSE, !.foreign = FALSE])

(* What the schema lets through, extended or not, can be decoded.          *)
ValidDecodes == why # "decode"

(* Extensions loosen neither what a field may hold nor what is decoded.    *)
ExtendedStaysValid == OverridesNarrow /\ ValidDecodes

RECURSIVE Imports(_), Closure(_, _), RunRefs(_)
Imports(n) ==
    CASE Has(n, "$import") -> {DocOf(Get(n, "$import").v)}
      [] n.k = "map" -> UNION {Imports(n.fields[i][2]) : i \in DOMAIN n.fields}
      [] n.k = "seq" -> UNION {Imports(n.items[i]) : i \in DOMAIN n.items}
      [] OTHER -> {}
Closure(S, next) == LET T == S \union UNION {next[x] : x \in S \cap DOMAIN next} IN IF T = S THEN S ELSE Closure(T, next)
Cyclic(x, next)  == \E y \in Closure({x}, next) \cap DOMAIN next : y \in Closure(next[y], next)
ImportsOf        == [d \in DOMAIN load.files |-> Imports(load.files[d])]

(* A document that imports itself, at any remove, does not load, and no    *)
(* other is refused as a cycle: neither two imports of one document nor an *)
(* import of another object of a document (loadDocument, cycleError).      *)
ImportCyclesRefused ==
    stage = "chosen" => \A d \in DOMAIN load.files :
        /\ Tree(d).err = "" => ~Cyclic(d, ImportsOf)
        /\ Tree(d).err = "cycle" => Cyclic(d, ImportsOf)

\* Addresses of processes, and the addresses each of them runs.
NodeAt(key) == Nodes(Tree(DocOf(key)).root)[Entry(Tree(DocOf(key)).root, key.frag)]
RunRefs(n) ==
    LET steps == Get(n, "steps")
    IN IF n.k # "map" \/ steps.k # "seq" THEN {}
       ELSE UNION {LET run == Get(steps.items[i], "run") IN IF run.k = "str" THEN {run.v} ELSE RunRefs(run) : i \in DOMAIN steps.items}
There(key)  == DocOf(key) \in DOMAIN load.files /\ Tree(DocOf(key)).err = "" /\ Entry(Tree(DocOf(key)).root, key.frag) # 0
Addresses   == {load.entry} \union {DocURL(d) : d \in DOMAIN load.files}
               \union UNION {UNION {RunRefs(Nodes(Tree(d).root)[i]) : i \in DOMAIN Nodes(Tree(d).root)} : d \in DOMAIN load.files}
\* An object is known by its identifier, however it is addressed.
RunsOf      == [id \in {IdOf(NodeAt(k)) : k \in {a \in Addresses : There(a)}} |->
                  LET key == CHOOSE k \in Addresses : There(k) /\ IdOf(NodeAt(k)) = id
                  IN {IdOf(NodeAt(r)) : r \in {q \in RunRefs(NodeAt(key)) : There(q)}}]

(* A process that loads can be unfolded to an end, and none is refused for *)
(* running itself that could: objects are told apart by what the documents *)
(* say, so that two loads of one object under two addresses, or through    *)
(* another document, hide no cycle (checkRunCycles, externalRuns).         *)
RunCyclesRefused ==
    LET runsItself == Cyclic(IdOf(NodeAt(load.entry)), RunsOf)
    IN (stage \in {"linked", "rejected"} /\ There(load.entry)) =>
         /\ stage = "linked" => ~runsItself
         /\ (why = "cycle" /\ \A d \in DOMAIN load.files : ~Cyclic(d, ImportsOf)) => runsItself

(* Documents that import one another and processes that run one another    *)
(* are refused exactly when there is a cycle.                              *)
CyclesRefused == ImportCyclesRefused /\ RunCyclesRefused

(* Every step runs the object its reference names.                         *)
RunsWhatItNames ==
    (stage = "linked" /\ chain = <<>>) => \A p \in DOMAIN heap : \A s \in DOMAIN heap[p].steps :
        LET run == heap[p].steps[s].run
        IN (run.ref # NoName /\ run.to # 0) => heap[run.to].id = IdOf(NodeAt(run.ref))

DocHere == LET id == heap[level.p].id IN IF id.is = "blank" THEN id.path[2] ELSE DocOf(id)

\* The declarations of a class in the chain that reach its end.
Reaching(lists, class) ==
    {i \in DOMAIN lists : /\ OfClass(lists[i], class) # <<>>
                          /\ class \in WorkflowOnly /\ Last(chain).class = "CommandLineTool" => i = Len(lists)}
Innermost(S) == CHOOSE i \in S : \A j \in S : j <= i

(* At a tool, the requirement in effect is the innermost one any enclosing *)
(* step or workflow declares, and a hint only when there is none: what the *)
(* levels of nested runs hand down replaces the chain without loss         *)
(* (inheritRequirements, GetRequirement), save what a CommandLineTool does *)
(* not inherit.                                                            *)
InnermostInEffect ==
    stage = "granted" => \A class \in CoreClasses :
        LET reqs  == [i \in DOMAIN chain |-> chain[i].reqs]
            hints == [i \in DOMAIN chain |-> chain[i].hints]
            from(lists, origin) == <<origin, Last(OfClass(lists[Innermost(Reaching(lists, class))], class)).value>>
        IN InEffect(scope, class) = IF Reaching(reqs, class) # {} THEN from(reqs, "requirements")
                                    ELSE IF Reaching(hints, class) # {} THEN from(hints, "hints") ELSE <<"none", Null>>

OwnHints(class) ==
    LET written == First({i \in DOMAIN Nodes(Tree(DocHere).root) : IdOf(Nodes(Tree(DocHere).root)[i]) = heap[level.p].id})
        names   == {class} \union {old \in DOMAIN V10Renames : V10Renames[old] = class}
    IN IF written = 0 THEN <<>>
       ELSE SelectSeq(Declared(Nodes(Tree(DocHere).root)[written], "hints"), LAMBDA e : e.class \in names)

(* A tool of a v1.0 document keeps the listings and the network v1.0 gave  *)
(* it unless something says otherwise: a requirement at any level, or a    *)
(* hint of its own, under the old name of the class or the new one         *)
(* (renameRequirements, withV10Defaults, GetRequirement).                  *)
OldDefaultsKept ==
    (stage = "granted" /\ DeclaredVersion(DocHere) = "v1.0") => \A i \in DOMAIN V10Defaults :
        LET class == V10Defaults[i][1]
            own   == OwnHints(class)
        IN /\ InScope(scope, class)
           /\ (OfClass(AllReqs(chain), class) = <<>> /\ own # <<>>) => InEffect(scope, class)[2] = Last(own).value

(* What a tool runs under is what its levels declare, or its version gave. *)
InheritedThroughLevels == InnermostInEffect /\ OldDefaultsKept

(* Nothing runs under a requirement neither CWL nor the caller knows, at    *)
(* whatever level it was declared; a hint never stops a run (CheckKnown).  *)
FailClosed ==
    stage = "granted" => \A i \in DOMAIN chain : \A j \in DOMAIN chain[i].reqs : chain[i].reqs[j].class \in CoreClasses \union AllowRequirements

(* An invocation is given at least what it asked for, whole mebibytes, and *)
(* no more than there is.                                                  *)
NeverLessThanAsked ==
    stage = "granted" => \A what \in DOMAIN Default :
        /\ granted.budget[what] > 0 => granted.given[what] <= granted.budget[what]
        /\ granted.request.k # "null" => granted.given[what] >= granted.request.v[what].min
        /\ granted.request.k = "null" => granted.given[what] >= Default[what]

(* An invocation that starts was understood and gets what it was promised. *)
GrantedInFull == FailClosed /\ NeverLessThanAsked
=============================================================================
