---------------------------- MODULE MCStepInputs ----------------------------
(***************************************************************************)
(* Documents of StepInputs for TLC: every wiring of two steps, one flaw of *)
(* a document at a time, and every combination of linkMerge, pickValue,    *)
(* defaults, valueFrom, reads and secondary files on one step.             *)
(***************************************************************************)
EXTENDS StepInputs, ValueWalks

Text(t)    == [kind |-> "text", text |-> t]
Bool(b)    == [kind |-> "boolean", truth |-> b]
File(p, r, c) == [kind |-> "file", name |-> "f", place |-> p, readable |-> r,
                  loaded |-> FALSE, attached |-> c]
Dir        == [kind |-> "dir", name |-> "d", place |-> "path", readable |-> TRUE, loaded |-> FALSE]

MCRunInputs == {Null, Text("t"), Arr(<<Null, Text("u")>>), Arr(<<>>),
                File("path", TRUE, {"idx"}), Dir}
MCHandlerValues == {Null, Text("v"), Arr(<<Text("w")>>),
                    [kind |-> "record", fields |-> [f |-> Text("w")]]}

MCKnown == MCRunInputs \union MCHandlerValues
             \union {Text("u"), Text("w"), Text("d"), Text("r"),
                     File("uri", FALSE, {}), File("path", FALSE, {})}

AllFeatures == {"Scatter", "Subworkflow", "MultipleInput", "StepInputExpression"}
Programs == [self  |-> [op |-> "self"], q |-> [op |-> "input", name |-> "q"],
             p     |-> [op |-> "input", name |-> "p"],
             null  |-> [op |-> "const", value |-> Null],
             yes   |-> [op |-> "const", value |-> Bool(TRUE)],
             no    |-> [op |-> "const", value |-> Bool(FALSE)],
             fails |-> [op |-> "fails"]]

In(id, source) == [id |-> id, source |-> source, linkMerge |-> "", pickValue |-> "",
                   default |-> Null, valueFrom |-> "", loadContents |-> FALSE, listing |-> ""]

Param(id) == [id |-> id, default |-> Null, listing |-> "", loadContents |-> FALSE,
              secondary |-> [patterns |-> {}, fields |-> <<>>]]
Run(params) == [class |-> "CommandLineTool", handled |-> TRUE, inputs |-> params, listing |-> ""]

Step(id, ins) == [id |-> id, resolved |-> TRUE, unknown |-> FALSE, scatter |-> FALSE, in |-> ins,
                  out |-> <<[id |-> id \o "/out", port |-> "out"]>>, when |-> "",
                  run |-> Run(<<Param("p"), Param("q")>>)]

Output(source, type) == [source |-> source, linkMerge |-> "merge_flattened", pickValue |-> "", type |-> type]
NoType == [kind |-> "none"]
Primitive(n) == [kind |-> "primitive", name |-> n]
ResultType == [kind |-> "union", options |->
                 {Primitive("null"), [kind |-> "enum", symbols |-> {"v"}],
                  [kind |-> "array", items |-> Primitive("Any")],
                  [kind |-> "record", fields |-> [f |-> Primitive("text")]]}]

Document(steps, outputs) ==
    [bare |-> FALSE, inputs |-> {"x"}, defaults |-> <<>>, scope |-> AllFeatures,
     steps |-> steps, outputs |-> outputs, programs |-> Programs]

Sources == {<<>>, <<"x">>, <<"a/out">>, <<"b/out">>, <<"no/where">>,
            <<"x", "a/out">>, <<"b/out", "a/out">>}

Wirings ==
    {Document(<<Step("a", <<In("p", sa)>>), Step("b", <<In("p", sb)>>)>>, <<Output(so, ResultType)>>) :
        sa \in Sources, sb \in Sources, so \in {<<>>, <<"b/out">>, <<"x", "a/out">>, <<"no/where">>}}

\* A third step closes a longer cycle, or does not.
Chains ==
    {Document(<<Step("a", <<In("p", sa)>>), Step("b", <<In("p", <<"a/out">>)>>),
                Step("c", <<In("p", <<"b/out">>), In("q", sq)>>)>>, <<Output(<<"c/out">>, NoType)>>) :
        sa \in {<<"x">>, <<"c/out">>, <<"x", "c/out">>}, sq \in {<<>>, <<"a/out">>, <<"c/out">>}}

Good == Step("a", <<In("p", <<"x">>)>>)
Two  == Step("b", <<[In("p", <<"x", "a/out">>) EXCEPT !.valueFrom = "self"]>>)

Flawed ==
    LET alone(step) == Document(<<step>>, <<Output(<<"a/out">>, NoType)>>)
    IN {alone([Good EXCEPT !.resolved = FALSE]), alone([Good EXCEPT !.unknown = TRUE]),
        alone([Good EXCEPT !.run.handled = FALSE]), Document(<<Good, Good>>, <<>>)}
       \union {[Document(<<Good, s>>, <<Output(<<"x", "a/out">>, NoType)>>) EXCEPT !.scope = AllFeatures \ {f}] :
                 f \in AllFeatures,
                 s \in {Two, [Two EXCEPT !.scatter = TRUE], [Two EXCEPT !.run.class = "Workflow"]}}

\* One step over two run inputs.
Merges ==
    {[Document(<<Step("a", <<[In("p", src) EXCEPT !.linkMerge = l, !.pickValue = k, !.default = d]>>)>>,
               <<>>) EXCEPT !.inputs = {"x", "y"}] :
        src \in {<<"x">>, <<"x", "y">>}, l \in {"", "merge_nested", "merge_flattened", "bogus"},
        k \in {"", "all_non_null", "first_non_null", "the_only_non_null", "bogus"},
        d \in {Null, Text("d"), Fails("default")}}

\* Defaults of p and r, unreadable or impossible ones too, and the companion p requires.
Runs == {[Run(<<[Param("p") EXCEPT !.default = dp, !.loadContents = load, !.secondary.patterns = sec],
                Param("q"), [Param("r") EXCEPT !.default = Text("r")]>>)
          EXCEPT !.listing = "deep_listing"] :
            dp \in {Null, File("uri", FALSE, {}), Fails("default")}, load \in BOOLEAN,
            sec \in {{}, {[required |-> TRUE, names |-> {"idx"}]}}}

Reads ==
    {[Document(<<[Step("a", <<[In("p", <<"x">>) EXCEPT !.valueFrom = vp, !.listing = list],
                              [In("q", <<>>) EXCEPT !.valueFrom = vq, !.default = Text("d")]>>)
                  EXCEPT !.run = run, !.when = w]>>, <<>>)
      EXCEPT !.defaults = rundef] :
        vp \in {"", "q", "fails"}, vq \in {"", "p", "null"}, list \in {"", "no_listing"},
        run \in Runs, w \in {"", "no", "null"}, rundef \in {<<>>, [x |-> File("path", FALSE, {})]}}

\* Tools run on their own, with and without a requirement nobody knows.
Bare ==
    {[Document(<<[Step("a", <<>>) EXCEPT !.run = Run(<<Param("p"), [Param("r") EXCEPT !.default = Text("r")]>>),
                                         !.unknown = u]>>, <<>>)
      EXCEPT !.bare = TRUE, !.inputs = {"p", "r"}, !.defaults = [r |-> Text("r")]] : u \in BOOLEAN}

MCLibrary == Wirings \union Chains \union Flawed \union Merges \union Reads \union Bare
=============================================================================
