----------------------------- MODULE MCJobOrder -----------------------------
(* Processes and job orders for JobOrder and CommandLine. *)
EXTENDS CommandLine

\* The disk: a job directory, a document directory.
R(n)    == << <<n>> >>
F(n)    == <<n, "txt">>
JobDir  == R("job")
DocDir  == R("doc")
Disk == (JobDir :> Dir) @@ (DocDir :> Dir) @@ (Append(JobDir, F("a")) :> File("A"))
        @@ (Append(JobDir, F("a") \o <<"idx">>) :> File("AI")) @@ (Append(JobDir, F("b")) :> File("B"))
        @@ (Append(DocDir, F("a")) :> File("DA")) @@ (Append(JobDir, <<"big">>) :> File("huge"))
        @@ (Append(JobDir, <<"d">>) :> Dir) @@ (JobDir \o << <<"d">>, <<"e">> >> :> Dir)
        @@ (JobDir \o << <<"d">>, <<"e">>, <<"y">> >> :> File("Y"))

\* Nodes.
Node == [n |-> "null", v |-> "", items |-> <<>>, fields |-> <<>>, class |-> "", path |-> [is |-> "none"],
         location |-> [is |-> "none"], basename |-> NoName, literal |-> FALSE, contents |-> "", format |-> NoName,
         listed |-> FALSE, extra |-> FALSE]
S(n, v)     == [Node EXCEPT !.n = n, !.v = v]
Seqn(s)     == [Node EXCEPT !.n = "seq", !.items = s]
Mapn(f)     == [Node EXCEPT !.n = "map", !.fields = f]
Local(p)    == [is |-> "local", abs |-> FALSE, to |-> p]
FileN(n)    == [Node EXCEPT !.n = "map", !.class = "File", !.path = Local(<<n>>)]
DirN(n)     == [FileN(n) EXCEPT !.class = "Directory"]
LiteralN(b) == [Node EXCEPT !.n = "map", !.class = "File", !.literal = TRUE, !.contents = b, !.basename = <<"lit">>]
RemoteN     == [Node EXCEPT !.n = "map", !.class = "File", !.location = [is |-> "remote", to |-> R("s3")], !.format = <<"e", "txt">>]
Fmt(n)      == [FileN(n) EXCEPT !.format = <<"e", "txt">>]

\* Types.
T(k)        == [Untyped EXCEPT !.k = k]
Arr(t)      == [T("array") EXCEPT !.items = <<t>>]
Opt(t)      == [T("union") EXCEPT !.options = <<T("null"), t>>]
OneOf(s)    == [T("union") EXCEPT !.options = s]
Enum(s)     == [T("enum") EXCEPT !.symbols = s]
Field(n, t) == [name |-> n, typ |-> t, listing |-> "", contents |-> FALSE, formats |-> {}, secondary |-> <<>>, binding |-> NoBinding]
Record(fs)  == [T("record") EXCEPT !.fields = fs]
Bind(p, at) == [EmptyBinding EXCEPT !.prefix = p, !.at = at]

\* Patterns.
Pattern     == [is |-> "pattern", carets |-> 0, suffix |-> <<"idx">>, required |-> "unset", marker |-> FALSE, candidates |-> <<>>]
Caret       == [Pattern EXCEPT !.carets = 2, !.suffix = <<"bai">>, !.marker = TRUE]
Script(cs, r) == [Pattern EXCEPT !.is = "expression", !.candidates = cs, !.required = r]
NameB       == [is |-> "ref", path |-> Append(JobDir, F("b")), name |-> F("b")]
Missing     == [is |-> "ref", path |-> Append(JobDir, <<"no">>), name |-> <<"no">>]

Decl(n, t)  == [name |-> n, typ |-> t, default |-> Node, formats |-> {}, secondary |-> <<>>, listing |-> "",
                contents |-> FALSE, binding |-> Bind("-i", 1)]
Proc(ds)    == [inputs |-> ds, reqs |-> <<>>, hints |-> <<>>, dir |-> DocDir, prefixes |-> [e |-> "old"], ontology |-> FALSE,
                arguments |-> <<>>, base |-> <<"cmd">>]
Job(vs)     == [values |-> vs, reqs |-> <<>>, dir |-> JobDir, prefixes |-> [e |-> "edam"], ontology |-> FALSE]
Try(ds, vs) == [proc |-> Proc(ds), job |-> Job(vs), disk |-> Disk]

\* One input, of many types and values: what fits and what does not.
Rec2 == Record(<<[Field(2, T("File")) EXCEPT !.secondary = <<Pattern>>, !.formats = {<<"edam", "txt">>}, !.binding = Bind("-f", 2)],
                 [Field(1, Opt(T("int"))) EXCEPT !.binding = Bind("-n", 2)]>>)
Types == {T("int"), T("float"), T("str"), T("bool"), T("Any"), T("File"), T("Directory"), Opt(T("File")), Arr(T("str")), Arr(Arr(T("int"))),
          Enum({"x", "y"}), OneOf(<<Arr(T("File")), T("File"), T("int")>>), OneOf(<<T("int"), T("float"), T("str")>>),
          Rec2, Opt(Rec2), Arr(Rec2), [T("named") EXCEPT !.name = "rec"],
          [Arr(T("str")) EXCEPT !.binding = Bind("-e", 0)], [Rec2 EXCEPT !.binding = Bind("-r", 1)]}
Values == {Node, S("int", "1"), S("float", "1.5"), S("str", "x"), S("bool", "true"), S("bool", "false"), FileN(F("a")), Fmt(F("a")), FileN(<<"none">>),
           [FileN(F("a")) EXCEPT !.items = <<[FileN(F("a") \o <<"idx">>) EXCEPT !.basename = F("a") \o <<"idx">>]>>],
           DirN(<<"d">>), [DirN(<<"d">>) EXCEPT !.listed = TRUE, !.items = <<FileN(F("b")), LiteralN("L")>>], LiteralN("L"), LiteralN("huge"), RemoteN,
           [FileN(F("b")) EXCEPT !.extra = TRUE], [FileN(F("b")) EXCEPT !.path = [is |-> "bad"]],
           Seqn(<<S("str", "x"), S("str", "y")>>), Seqn(<<>>), Seqn(<<FileN(F("a")), FileN(F("b"))>>), Seqn(<<Seqn(<<S("int", "1"), S("int", "2")>>), Seqn(<<>>)>>),
           Mapn(1 :> S("int", "1") @@ 2 :> Fmt(F("a"))), Mapn(2 :> FileN(F("a"))), Mapn(2 :> Fmt(F("b"))), Mapn(3 :> Node), Seqn(<<Mapn(2 :> Fmt(F("a")))>>)}
Single == {Try(<<[Decl(1, t) EXCEPT !.secondary = s]>>, 1 :> v) : t \in Types, v \in Values, s \in {<<>>, <<Pattern, Caret>>}}

\* Defaults, formats, listings and requirements.
FileA     == Decl(1, T("File"))
SchemaDef == [class |-> "SchemaDef", types |-> [rec |-> Record(<<[Field(1, T("File")) EXCEPT !.secondary = <<Pattern>>], Field(2, Opt([T("named") EXCEPT !.name = "rec"]))>>)]]
Listing(m) == [class |-> "LoadListing", listing |-> m]
WithReqs(t, rs, js, hs) == [t EXCEPT !.proc.reqs = rs, !.job.reqs = js, !.proc.hints = hs]
Named == Decl(1, [T("named") EXCEPT !.name = "rec"])
NamedValue == Mapn(1 :> FileN(F("a")) @@ 2 :> Mapn(1 :> FileN(F("b"))))
Special ==
    {Try(<<[FileA EXCEPT !.default = FileN(F("a"))]>>, <<>>), Try(<<[FileA EXCEPT !.default = FileN(F("b"))]>>, <<>>),
     Try(<<[FileA EXCEPT !.default = S("int", "1")]>>, 1 :> Node), Try(<<FileA>>, 2 :> FileN(F("a"))),
     Try(<<[FileA EXCEPT !.formats = {<<"edam", "txt">>}]>>, 1 :> Fmt(F("a"))), Try(<<[FileA EXCEPT !.formats = {<<"edam", "txt">>}]>>, 1 :> FileN(F("a"))),
     [Try(<<[FileA EXCEPT !.formats = {<<"edam", "txt">>}]>>, 1 :> FileN(F("a"))) EXCEPT !.job.ontology = TRUE],
     Try(<<[FileA EXCEPT !.contents = TRUE]>>, 1 :> FileN(F("a"))), Try(<<[FileA EXCEPT !.contents = TRUE]>>, 1 :> FileN(<<"big">>)),
     WithReqs(Try(<<Named>>, 1 :> NamedValue), <<SchemaDef>>, <<>>, <<>>)}
    \union {WithReqs(Try(<<[Decl(1, T("Directory")) EXCEPT !.listing = l]>>, 1 :> DirN(<<"d">>)), <<Listing("shallow")>>, js, <<Listing("none")>>) :
              l \in {"", "deep", "none"}, js \in {<<>>, <<Listing("deep")>>}}
    \union {Try(<<[FileA EXCEPT !.secondary = <<Script(cs, r)>>]>>, 1 :> FileN(F("a"))) :
              cs \in {<<NameB>>, <<Missing>>, <<NameB, [is |-> "null"], NameB>>, <<[is |-> "bad"]>>},
              r \in {"unset", "true", "false", "expression true", "expression null", "expression error"}}

\* Several bindings: positions, ties, separators, expressions, arguments.
Bindings == {NoBinding, EmptyBinding, Bind("-p", 1), [Bind("-p", 1) EXCEPT !.joined = TRUE], [Bind("-p", 0) EXCEPT !.separate = "no"],
             [EmptyBinding EXCEPT !.separate = "no"], [Bind("-p", 0) EXCEPT !.valueFrom = "twice"], [Bind("-p", 2) EXCEPT !.position = "error"],
             [Bind("", 2) EXCEPT !.valueFrom = "null"], [Bind("-p", 2) EXCEPT !.valueFrom = "self", !.shell = FALSE]}
Pairs == {[Try(<<[Decl(2, t) EXCEPT !.binding = b], [Decl(3, Arr(T("int"))) EXCEPT !.binding = c]>>, 2 :> v @@ 3 :> Seqn(<<S("int", "7"), S("int", "8")>>))
             EXCEPT !.proc.arguments = as] :
            t \in {OneOf(<<Enum({"x"}), Arr([T("str") EXCEPT !.binding = NoBinding]), Rec2>>), [Arr(T("str")) EXCEPT !.binding = Bind("-e", 3)], [Rec2 EXCEPT !.binding = Bind("-r", 1)], Rec2},
            v \in {S("str", "x"), Seqn(<<S("str", "x"), S("str", "y")>>), Mapn(1 :> S("int", "1") @@ 2 :> Fmt(F("a")))},
            b \in Bindings, c \in {Bind("-q", 1), Bind("-q", 2)},
            as \in {<<>>, <<[Bind("-a", 1) EXCEPT !.valueFrom = "text"], [EmptyBinding EXCEPT !.valueFrom = "twice"]>>, <<EmptyBinding>>}}

JobLibrary == Single \union Special \union Pairs
=============================================================================
