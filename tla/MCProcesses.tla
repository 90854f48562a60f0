---------------------------- MODULE MCProcesses ----------------------------
(* Documents for Processes: packed graphs, documents that run and import one *)
(* another, nested workflows with requirements at every level, and documents *)
(* of extended schemas.                                                      *)
EXTENDS Processes

Term(kind, up) == [PlainTerm EXCEPT !.kind = kind, !.scoped = up >= 0, !.up = IF up < 0 THEN 0 ELSE up]
Map(subject, predicate) == [PlainTerm EXCEPT !.subject = subject, !.predicate = predicate]
MCTerms ==
    ("class" :> Term("vocab", -1)) @@ ("inputs" :> Map("id", "type")) @@ ("outputs" :> Map("id", "type"))
    @@ ("steps" :> Map("id", "")) @@ ("in" :> Map("id", "source")) @@ ("source" :> Term("link", 2))
    @@ ("outputSource" :> Term("link", 1)) @@ ("scatter" :> Term("link", 0))
    @@ ("out" :> [Term("link", -1) EXCEPT !.identity = TRUE]) @@ ("run" :> [Term("link", -1) EXCEPT !.subscope = "run"])
    @@ ("format" :> [Term("link", -1) EXCEPT !.identity = TRUE])
    @@ ("type" :> [Term("vocab", 2) EXCEPT !.dsl = TRUE]) @@ ("items" :> [Term("vocab", 2) EXCEPT !.dsl = TRUE])
    @@ ("requirements" :> Map("class", "")) @@ ("hints" :> [Map("class", "") EXCEPT !.nocheck = TRUE])
    @@ ("default" :> [PlainTerm EXCEPT !.nocheck = TRUE])

CoreInOrder == <<"SubworkflowFeatureRequirement", "ScatterFeatureRequirement", "MultipleInputFeatureRequirement",
                 "StepInputExpressionRequirement", "ResourceRequirement", "DockerRequirement", "LoadListingRequirement", "NetworkAccess">>
MCWorkflowOnly == {CoreInOrder[i] : i \in 1 .. 4}
Core == ToSet(CoreInOrder)
MCVocabulary == {"Workflow", "CommandLineTool", "ExpressionTool", "string", "null", "array", "File"} \union Core
MCRenames == [x \in {"cwltool#NetworkAccess"} |-> "NetworkAccess"]
MCDefaults == << <<"LoadListingRequirement", Scalar("string", "deep_listing")>>,
                 <<"NetworkAccess", Scalar("boolean", TRUE)>> >>
MCNamespaces == "cwl" :> "cwl#"

-----------------------------------------------------------------------------
(* The schemas of CWL, with the fields these documents use. *)

F(name, type)  == [name |-> name, type |-> type]
Opt(type)      == UnionOf(<<Primitive("null"), type>>)
Plain2(a, b)   == UnionOf(<<Primitive(a), Primitive(b)>>)
Own(name)      == TypeNamed(CWL(name))
Define(kind, name, bases, fields) ==
    [kind |-> kind, name |-> name, extends |-> bases, fields |-> fields, symbols |-> <<>>, specialize |-> <<>>,
     abstract |-> FALSE, root |-> FALSE]
Record(name, bases, fields) == Define("record", name, bases, fields)
Enum(name, symbols)  == [Define("enum", name, <<>>, <<>>) EXCEPT !.symbols = symbols]
AbstractOf(def)      == [def EXCEPT !.abstract = TRUE]
RootOf(def)          == [def EXCEPT !.root = TRUE]
Specialized(def, to) == [def EXCEPT !.specialize = to]
To(a, b)             == CWL(a) :> CWL(b)

\* Before v1.2 a class was any string.
ClassOf(v, name) == F("class", IF v = "v1.2" THEN Inline(Enum(CWL(name \o "_class"), <<name>>)) ELSE Primitive("string"))
Texts    == UnionOf(<<Primitive("null"), Primitive("string"), ArrayOf(Primitive("string"))>>)
TypeIn   == LET one == <<Own("CWLType"), Own("ArraySchema"), Primitive("string")>> IN F("type", UnionOf(Append(one, ArrayOf(UnionOf(one)))))
Required == <<F("requirements", Opt(ArrayOf(Own("ProcessRequirement"))))>>
Parameter(name, base) == Record(CWL(name), <<CWL(base)>>, <<TypeIn>>)
Requirement(v, name)  == Record(CWL(name), <<CWL("ProcessRequirement")>>, <<ClassOf(v, name), F("value", Opt(Primitive("Any")))>>)
CWLSchema(v) ==
    <<Enum(CWL("PrimitiveType"), <<"null", "boolean", "int", "long", "float", "double", "string">>),
      [Enum(CWL("CWLType"), <<"File", "Directory">>) EXCEPT !.extends = <<CWL("PrimitiveType")>>],
      Enum(CWL("CWLVersion"), <<"v1.0", "v1.1", "v1.2">>),
      Enum(CWL("Expression"), <<"ExpressionPlaceholder">>),
      AbstractOf(Record(CWL("Identified"), <<>>, <<F("id", Opt(Primitive("string")))>>)),
      AbstractOf(Record(CWL("Documented"), <<>>, <<F("doc", Texts)>>)),
      Record(CWL("ArraySchema"), <<>>, <<F("type", Inline(Enum(CWL("Array_name"), <<"array">>))),
             F("items", UnionOf(<<Own("PrimitiveType"), Own("ArraySchema"), Primitive("string"),
                                  ArrayOf(UnionOf(<<Own("PrimitiveType"), Own("ArraySchema"), Primitive("string")>>))>>))>>),
      AbstractOf(Record(CWL("InputParameter"), <<CWL("Identified")>>, <<F("default", Opt(Primitive("Any")))>>)),
      AbstractOf(Record(CWL("OutputParameter"), <<CWL("Identified")>>, <<>>)),
      AbstractOf(Record(CWL("ProcessRequirement"), <<>>, <<>>)),
      AbstractOf(Record(CWL("Process"), <<CWL("Identified"), CWL("Documented")>>,
             <<F("inputs", ArrayOf(Own("InputParameter"))), F("outputs", ArrayOf(Own("OutputParameter")))>> \o Required \o
             <<F("hints", Opt(ArrayOf(IF v = "v1.2" THEN UnionOf(<<Own("ProcessRequirement"), Primitive("Any")>>) ELSE Primitive("Any")))),
               F("cwlVersion", Opt(Own("CWLVersion")))>>)),
      Parameter("CommandInputParameter", "InputParameter"), Parameter("CommandOutputParameter", "OutputParameter"),
      Parameter("WorkflowInputParameter", "InputParameter"), Parameter("ExpressionToolOutputParameter", "OutputParameter"),
      Record(CWL("WorkflowOutputParameter"), <<CWL("OutputParameter")>>, <<F("outputSource", Texts), TypeIn>>),
      Specialized(RootOf(Record(CWL("CommandLineTool"), <<CWL("Process")>>, <<ClassOf(v, "CommandLineTool"), F("baseCommand", Texts)>>)),
                  To("InputParameter", "CommandInputParameter") @@ To("OutputParameter", "CommandOutputParameter")),
      Specialized(RootOf(Record(CWL("ExpressionTool"), <<CWL("Process")>>, <<ClassOf(v, "ExpressionTool"), F("expression", Own("Expression"))>>)),
                  To("InputParameter", "WorkflowInputParameter") @@ To("OutputParameter", "ExpressionToolOutputParameter")),
      Record(CWL("WorkflowStepInput"), <<CWL("Identified")>>,
             <<F("source", Texts), F("default", Opt(Primitive("Any"))),
               F("valueFrom", UnionOf(<<Primitive("null"), Primitive("string"), Own("Expression")>>))>>),
      Record(CWL("WorkflowStepOutput"), <<CWL("Identified")>>, <<>>),
      Record(CWL("WorkflowStep"), <<CWL("Identified"), CWL("Documented")>>,
             <<F("in", ArrayOf(Own("WorkflowStepInput"))), F("out", ArrayOf(UnionOf(<<Primitive("string"), Own("WorkflowStepOutput")>>)))>>
             \o Required \o <<F("hints", Opt(ArrayOf(Primitive("Any")))), F("run", UnionOf(<<Primitive("string"), Own("Process")>>)),
                              F("scatter", Texts)>>),
      Specialized(RootOf(Record(CWL("Workflow"), <<CWL("Process")>>, <<ClassOf(v, "Workflow"), F("steps", ArrayOf(Own("WorkflowStep")))>>)),
                  To("InputParameter", "WorkflowInputParameter") @@ To("OutputParameter", "WorkflowOutputParameter"))>>
    \o [i \in DOMAIN CoreInOrder |-> Requirement(v, CoreInOrder[i])]
MCDeclarations == [v \in {"v1.0", "v1.1", "v1.2"} |-> CWLSchema(v)]
MCDirectives   == {"$namespaces", "$graph", "$base", "$import", "$include", "$schemas"}
MCForeign      == {"acme:note"}
MCHandlers     == {"CommandLineTool", "Workflow", "ExpressionTool", "Action"}

-----------------------------------------------------------------------------
\* Abbreviations.
N(name)       == Str(Rel(<<name>>))
P(a, b)       == Str(Rel(<<a, b>>))
Pre(p, name)  == Str(Ref("pre", <<p, name>>, <<>>))
Sharp(name)   == Str(Hash(<<name>>))
Doc(d, name)  == Str(Ref("rel", <<d>>, <<name>>))
Import(ref)   == Mapping(<< <<"$import", ref>> >>)
Dsl(name, array, optional) == Str([is |-> "dsl", name |-> Rel(<<name>>), array |-> array, optional |-> optional])
None          == Mapping(<<>>)
Req(class)    == <<class, Mapping(<<>>)>>
Amount(v)     == <<"ResourceRequirement", Mapping(<< <<"value", Scalar("record", v)>> >>)>>
Unknown       == Mapping(<< <<"class", Pre("acme", "Sandbox")>> >>)
Trusted       == Mapping(<< <<"class", Pre("acme", "Trusted")>> >>)
Need(min, max) == [cores |-> [min |-> 2, max |-> 4], ram |-> [min |-> min, max |-> max], tmp |-> [min |-> Unset, max |-> 9]]

Tool(id, more) ==
    Mapping(<< <<"class", N("CommandLineTool")>> >> \o (IF id = "" THEN <<>> ELSE << <<"id", N(id)>> >>) \o
            << <<"inputs", Mapping(<< <<"p", Dsl("string", FALSE, TRUE)>> >>)>>, <<"outputs", Mapping(<< <<"o", N("File")>> >>)>> >> \o more)
Step(run, source, more) ==
    Mapping(<< <<"run", run>>, <<"in", Mapping(<< <<"p", source>> >>)>>, <<"out", List(<<N("o")>>)>> >> \o more)
Flow(id, steps, more) ==
    Mapping(<< <<"class", N("Workflow")>> >> \o (IF id = "" THEN <<>> ELSE << <<"id", N(id)>> >>) \o
            << <<"inputs", Mapping(<< <<"x", N("string")>> >>)>>,
               <<"outputs", Mapping(<< <<"z", Mapping(<< <<"type", N("File")>>, <<"outputSource", P("s", "o")>> >>)>> >>)>>,
               <<"steps", Mapping(steps)>> >> \o more)
Packed(s) == Mapping(<< <<"$graph", List(s)>> >>)

Sub       == <<"requirements", Mapping(<<Req("SubworkflowFeatureRequirement")>>)>>
SubRes(v) == <<"requirements", Mapping(<<Amount(v), Req("SubworkflowFeatureRequirement")>>)>>
Res(v)    == <<"requirements", Mapping(<<Amount(v)>>)>>
Hint(v)   == <<"hints", Mapping(<<Amount(v)>>)>>
Features3 == <<"requirements", Mapping(<<Req("ScatterFeatureRequirement"), Req("MultipleInputFeatureRequirement"),
                                         Req("StepInputExpressionRequirement")>>)>>
SubFeatures == <<"requirements", Mapping(Features3[2].fields \o Sub[2].fields)>>
\* A workflow that scatters over two sources and computes an input.
Spread(more) ==
    Flow("", << <<"s", Mapping(<< <<"run", Tool("", <<>>)>>, <<"scatter", N("p")>>, <<"out", List(<<N("o")>>)>>,
                 <<"in", Mapping(<< <<"p", List(<<N("x"), N("x")>>)>>,
                                    <<"q", Mapping(<< <<"valueFrom", Scalar("string", "${}")>> >>)>> >>)>> >>)>> >>, more)
Acme      == <<"$namespaces", Mapping(<< <<"acme", Scalar("string", "acme#")>> >>)>>

At(d)     == DocURL(d)
AtName(d, name) == Ref("abs", <<d>>, <<name>>)
\* cwl-run loads strictly.
Case(files, entry) ==
    [files |-> files, entry |-> entry, exts |-> <<>>, premerged |-> FALSE, strict |-> TRUE, foreign |-> FALSE]
Loose(S) == {[l EXCEPT !.strict = FALSE] : l \in S}

\* The packed graph a.cwl, with what its first step runs and where its second
\* one is fed from, and the document b.cwl beside it.
Packing(run, source) ==
    Packed(<<Flow("main", << <<"s", Step(run, N("x"), <<>>)>>, <<"t", Step(Sharp("tool"), source, <<>>)>> >>, <<Sub>>),
             Flow("inner", << <<"s", Step(Sharp("tool"), N("x"), <<>>)>> >>, <<>>),
             Tool("tool", <<>>)>>)
Back(run) == Flow("entry", << <<"s", Step(run, N("x"), <<>>)>> >>, <<>>)
Others    == {Tool("", <<>>), Tool("entry", <<>>), Packed(<<Tool("main", <<>>), Tool("entry", <<>>)>>),
              Back(N("a.cwl")), Back(Doc("a.cwl", "main")), Back(Doc("a.cwl", "tool")),
              Packed(<<Back(Import(Doc("a.cwl", "tool")))>>)}
RunsHere  == {Sharp("tool"), Sharp("inner"), Sharp("main"), Sharp("nosuch"), N("none.cwl"),
              Flow("", << <<"s", Step(Sharp("tool"), N("x"), <<>>)>> >>, <<>>)}
RunsThere == {N("b.cwl"), Doc("b.cwl", "entry"), Import(N("b.cwl")), Import(Doc("b.cwl", "entry"))}
Entries   == {At("a.cwl"), AtName("a.cwl", "main")}
Linked ==
    {Case("a.cwl" :> Packing(run, source), At("a.cwl")) : run \in RunsHere, source \in {N("x"), P("s", "o"), N("p"), N("tool")}}
    \union {Case(("a.cwl" :> Packing(run, N("x"))) @@ ("b.cwl" :> other), entry) :
              run \in RunsThere, other \in Others, entry \in Entries}

\* The same graphs, with names in b.cwl that a.cwl declares too.
Clashing ==
    {Case(("a.cwl" :> Packing(Doc("b.cwl", name), source)) @@ ("b.cwl" :> Packed(<<Tool("main", <<>>), Tool("tool", <<>>)>>)), entry) :
       name \in {"main", "tool"}, source \in {N("x"), P("s", "o")}, entry \in Entries}

\* Imports that meet again, and imports that do not end.
Imported ==
    {Case(("a.cwl" :> Flow("main", << <<"s", Step(Import(N(one)), N("x"), <<>>)>>, <<"t", Step(Import(N(two)), P("s", "o"), <<>>)>> >>, <<>>))
          @@ ("b.cwl" :> Tool("b", << <<"note", Import(N(three))>> >>)) @@ ("c.cwl" :> Mapping(<< <<"note", Import(N(four))>> >>))
          @@ ("d.cwl" :> Tool("d", << <<"type", List(<<Dsl("string", TRUE, TRUE), Dsl("string", FALSE, TRUE)>>)>> >>)), At("a.cwl")) :
       one \in {"b.cwl", "d.cwl"}, two \in {"b.cwl", "d.cwl", "a.cwl"}, three \in {"c.cwl", "d.cwl"}, four \in {"b.cwl", "c.cwl", "d.cwl"}}

\* Tools and workflows of v1.0 and v1.2 that run one another.
Cwltool     == <<"$namespaces", Mapping(<< <<"cwltool", Scalar("string", "cwltool#")>> >>)>>
Old(doc, v) == [doc EXCEPT !.fields = << <<"cwlVersion", Scalar("string", v)>>, Cwltool >> \o @]
Net(class, on) == Mapping(<< <<"class", class>>, <<"value", Scalar("boolean", on)>> >>)
Networks    == {<<>>} \union {<< <<field, List(<<Net(class, FALSE)>>)>> >> :
                  field \in {"requirements", "hints"}, class \in {Pre("cwltool", "NetworkAccess"), N("NetworkAccess")}}
Versioned ==
    {Case(("a.cwl" :> Old(Flow("", << <<"s", Step(N("b.cwl"), N("x"), <<>>)>> >>, flow), v)) @@ ("b.cwl" :> Old(Tool("", tool), w)), At("a.cwl")) :
       flow \in Networks, tool \in Networks, v \in {"v1.0", "v1.2"}, w \in {"v1.0", "v1.1", "v1.2", "v0.9"}}
    \union {Case("a.cwl" :> Old(Packed(<<Flow("main", << <<"s", Step(Sharp("tool"), N("x"), flow)>> >>, <<>>), Tool("tool", tool)>>), "v1.0"), At("a.cwl")) :
              flow \in Networks, tool \in Networks}

\* A step named as an input is, two objects of one name, values no field takes.
Odd ==
    {Case("a.cwl" :> d, At("a.cwl")) : d \in
       {Flow("", << <<"x", Step(Tool("", <<>>), N("x"), <<>>)>>, <<"s", Step(Tool("", <<>>), P("x", "o"), <<>>)>> >>, <<>>),
        Packed(<<Tool("tool", <<>>), Flow("main", <<>>, <<>>), Tool("tool", <<>>)>>),
        Spread(<<>>), Spread(<<Features3>>),
        Packed(<<Flow("main", << <<"s", Step(Sharp("inner"), N("x"), <<>>)>> >>, <<SubFeatures>>),
                 Mapping(Append(Spread(<<>>).fields, <<"id", N("inner")>>))>>),
        Tool("", << <<"default", N("nowhere")>>, <<"doc", Mapping(<< <<"$include", N("a.cwl")>> >>)>> >>),
        Tool("", << <<"doc", Mapping(<< <<"$include", N("a.cwl")>>, <<"note", Scalar("int", 1)>> >>)>> >>),
        Tool("", << <<"requirements", List(<<Null>>)>> >>), Tool("", << <<"items", Mapping(<< <<"id", Scalar("int", 7)>> >>)>> >>),
        Flow("", << <<"s", Step(Import(N("none.cwl")), N("x"), <<>>)>> >>, <<>>)}}

\* Requirements at every level of a nested run; before v1.2 a schema takes a
\* requirement of any class.
Reqs == {<<>>, <<Res(Need(513, 700))>>, <<Hint(Need(600, Unset))>>}
Nest(step, inner, middle, own, outer, v) ==
    Case("a.cwl" :> Old(Packed(<<Flow("main", << <<"s", Step(Sharp("inner"), N("x"), step)>> >>, outer),
                                 Flow("inner", << <<"s", Step(Sharp("tool"), N("x"), inner)>> >>, middle),
                                 Tool("tool", own)>>), v), At("a.cwl"))
Outer  == {<<Sub>>, <<SubRes(Need(801, 900))>>, <<SubRes(Need(7, 8)), Hint(Need(9, 9))>>, <<>>}
Owns   == {<<>>, <<Hint(Need(5, 4))>>, << <<"hints", List(<<Unknown>>)>>, Acme>>}
Nested ==
    {Nest(step, inner, middle, own, outer, "v1.2") :
       step \in Reqs, inner \in Reqs \union {<<Res(Need(3, 0))>>}, middle \in Reqs, own \in Owns, outer \in Outer}
    \union {Nest(<<>>, << <<"requirements", List(<<Unknown>>)>>, Acme>>, middle, own, outer, v) :
              middle \in Reqs, own \in Owns, outer \in Outer, v \in {"v1.1", "v1.2"}}
    \union {Nest(<<>>, << <<"requirements", List(<<Trusted>>)>>, Acme>>, <<>>, own, <<Sub>>, "v1.1") : own \in Owns}

\* Extensions: processes of classes of their own, one that extends Workflow, a
\* requirement, fields declared again in ways that narrow and ways that do not.
A(name)       == <<"acme#", name>>
Ext(defs)     == [defs |-> defs, ns |-> "acme" :> "acme#"]
ClassIs(name) == F("class", Inline(Enum(NoDefinition, <<name>>)))
ActionType(more) == RootOf(Record(A("Action"), <<CWL("Process")>>, <<ClassIs("Action"), F("capability", Primitive("string"))>> \o more))
BatchType(class, more) == RootOf(Record(A("Batch"), <<CWL("Workflow")>>, <<ClassIs(class), F("size", Opt(Primitive("int")))>> \o more))
BatchSteps(run) == <<Record(A("BatchStep"), <<CWL("WorkflowStep")>>, <<F("run", run)>>),
                     BatchType("Batch", <<F("steps", ArrayOf(TypeNamed(Plain("BatchStep"))))>>)>>
\* An Action with a plan, and a plan that declares its amount and its options again.
Options(fields) == Inline(Record(NoDefinition, <<>>, fields))
Planned(amount, options, extra) ==
    <<Record(A("Plan"), <<>>, <<F("amount", Plain2("int", "long")), F("mode", Inline(Enum(A("Plan_mode"), <<"fast", "safe">>))),
                                F("options", Opt(Options(<<F("depth", Opt(Primitive("int")))>>)))>>),
      Record(A("SmallPlan"), <<A("Plan")>>, <<F("amount", amount), F("options", options)>>),
      [ActionType(<<F("plan", TypeNamed(A("SmallPlan"))), F("mode", Opt(TypeNamed(Plain("Plan_mode"))))>>) EXCEPT !.extends = extra]>>
Deep     == Options(<<F("depth", Primitive("int")), F("width", Primitive("double"))>>)
Renewed  == Ext(<<ActionType(<<F("priority", Opt(Primitive("long")))>>)>>)
Sandbox  == Ext(<<Record(A("Sandbox"), <<CWL("ProcessRequirement")>>, <<ClassIs("Sandbox")>>)>>)
One(defs) == <<Ext(defs)>>
Extensions ==
    {One(<<ActionType(<<>>)>>), <<Ext(<<ActionType(<<>>)>>), Renewed>>, <<Ext(<<BatchType("Batch", <<>>)>>), Sandbox>>,
     One(BatchSteps(Primitive("string"))), One(BatchSteps(Primitive("Any"))), One(<<BatchType("Action", <<>>)>>),
     One(Planned(Primitive("int"), Deep, <<CWL("Process")>>)), One(Planned(Primitive("double"), Deep, <<CWL("Process")>>)),
     One(Planned(Primitive("long"), Options(<<F("depth", Primitive("string"))>>), <<CWL("Process")>>)),
     One(Planned(Primitive("long"), Options(<<>>), <<CWL("Process"), CWL("Identified")>>)),
     One(Planned(Primitive("long"), Deep, <<A("Nowhere")>>)),
     One(<<ActionType(<<F("plan", TypeNamed(Plain("Nowhere")))>>)>>),
     One(<<Record(A("Plan"), <<A("SmallPlan")>>, <<>>), Record(A("SmallPlan"), <<A("Plan")>>, <<>>)>>)}
Ports      == << <<"inputs", Mapping(<<>>)>>, <<"outputs", Mapping(<<>>)>> >>
Number(v)  == Scalar(v, "1")
Text(t)    == Scalar("string", t)
Perform(class, capability, more) ==
    Mapping(<< <<"class", class>>, <<"capability", capability>> >> \o Ports \o more)
PlanOf(amount, depth) ==
    <<"plan", Mapping(<< <<"amount", amount>>, <<"mode", N("fast")>>,
                         <<"options", Mapping(<< <<"depth", depth>>, <<"width", Number("float")>> >>)>> >>)>>
Plans      == {PlanOf(Number("int"), Number("int")), PlanOf(Number("long"), Number("int")), PlanOf(Number("double"), Number("int")),
               PlanOf(Number("long"), Text("deep"))}
Batch(run) == [Flow("", << <<"s", Step(run, N("x"), <<>>)>> >>, << <<"size", Number("int")>> >>) EXCEPT !.fields[1] = <<"class", N("Batch")>>]
Inside     == Perform(N("Action"), Text("write"), <<>>)
Sandboxed  == Mapping(<< <<"class", Pre("acme", "Sandbox")>> >>)
Performed ==
    {Inside, Perform(Pre("acme", "Action"), Number("int"), <<>>), Perform(Pre("acme", "Action"), Text("write"), <<Acme>>),
     Perform(N("Action"), Text("write"), << <<"priority", Number("long")>> >>)}
    \union {Perform(N("Action"), Text("write"), <<plan, <<"mode", N("safe")>> >>) : plan \in Plans}
    \union {Back(Inside), Back(Batch(Tool("", <<>>))), Batch(Tool("", <<>>)), Batch(N("b.cwl")), Batch(N("c.cwl")), Batch(Number("int")), Back(N("b.cwl")),
            Tool("", << <<"requirements", List(<<Sandboxed>>)>> >>), Tool("", << <<"hints", List(<<Sandboxed>>)>> >>)}
Beside == ("b.cwl" :> [Batch(N("c.cwl")) EXCEPT !.fields = Append(@, <<"id", N("b")>>)]) @@ ("c.cwl" :> Tool("", <<>>))
Extending(exts, doc, v, premerged) ==
    [Case(("a.cwl" :> Old(doc, v)) @@ Beside, At("a.cwl")) EXCEPT !.exts = exts, !.premerged = premerged, !.strict = ~premerged]
Extended ==
    {Extending(exts, doc, v, v = "v1.0") : exts \in Extensions, doc \in Performed, v \in {"v1.0", "v1.2"}}
    \union {Extending(exts, doc, "v1.1", FALSE) : exts \in Extensions, doc \in {Inside, Back(Inside), Batch(N("c.cwl"))}}

\* What is not declared, and links that lead outside.
Noted  == {Tool("", << <<"note", Text("n")>> >>), Tool("", << <<"acme:note", Text("n")>> >>), Spread(<<Features3>>),
           Back(N("none.cwl")), Back(Tool("", << <<"note", Text("n")>> >>))}
Strict == {[Case("a.cwl" :> doc, At("a.cwl")) EXCEPT !.strict = strict, !.foreign = foreign] :
             doc \in Noted, strict \in BOOLEAN, foreign \in BOOLEAN}

Bare1   == Case("a.cwl" :> Tool("", <<Res(Need(11, 30))>>), At("a.cwl"))
AllLoads == Linked \union Loose(Imported \union Odd) \union Versioned \union Nested \union Extended \union Strict \union {Bare1}
MCBudgets == {[cores |-> 0, ram |-> 0, tmp |-> 0], [cores |-> 3, ram |-> 600, tmp |-> 0]}
=============================================================================
