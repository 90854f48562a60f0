------------------------------ MODULE MCFiles ------------------------------
(* Invocations for Staging and Outputs: what is read, staged, made and collected. *)
EXTENDS Outputs

\* Names and sources.
N(n)      == <<n>>
Txt(n)    == <<n, "txt">>
Idx(n)    == <<n, "txt", "idx">>
In        == Root("in")
Disk      == (In :> Dir) @@ (Append(In, Txt("a")) :> File("A")) @@ (Append(In, Idx("a")) :> File("AI"))
             @@ (Append(In, Txt("b")) :> File("B"))
             @@ (Append(In, N("d")) :> Dir) @@ (In \o <<N("d"), N("x")>> :> File("DX"))
             @@ (In \o <<N("d"), N("e")>> :> Dir) @@ (In \o <<N("d"), N("e"), N("y")>> :> File("DY"))
             @@ (Root("s3") :> Dir) @@ (Append(Root("s3"), N("r")) :> File("R"))

Blank == [class |-> "File", id |-> "", path |-> Nowhere, uri |-> Nowhere, remote |-> Nowhere,
          basename |-> NoName, contents |-> "", literal |-> FALSE, kids |-> <<>>, listed |-> FALSE,
          checksum |-> ""]
FileAt(id, p)    == [Blank EXCEPT !.id = id, !.path = p]
FileUri(id, p)   == [Blank EXCEPT !.id = id, !.uri = p]
Text(id, n, b)   == [Blank EXCEPT !.id = id, !.basename = n, !.literal = TRUE, !.contents = b]
DirAt(id, p)     == [Blank EXCEPT !.id = id, !.class = "Directory", !.path = p]
DirOf(id, n, ks) == [Blank EXCEPT !.id = id, !.class = "Directory", !.basename = n, !.listed = TRUE, !.kids = ks]

A    == FileAt("a", Append(In, Txt("a")))
AI   == [A EXCEPT !.kids = <<FileAt("ai", Append(In, Idx("a")))>>]
AURI == [FileUri("a", Append(In, Txt("a"))) EXCEPT !.kids = <<FileUri("ai", Append(In, Idx("a")))>>]
AREN == [AI EXCEPT !.basename = Txt("z")]
B    == FileAt("b", Append(In, Txt("b")))
SameName == [FileAt("b", Append(In, Txt("b"))) EXCEPT !.basename = Txt("a")]
D    == DirAt("d", Append(In, N("d")))
LIT  == Text("l", N("t"), "T")
TREE == DirOf("m", N("m"), <<Text("m1", N("p"), "P"), A, DirOf("m2", N("q"), <<B>>)>>)
REM  == [Blank EXCEPT !.id = "r", !.remote = Append(Root("s3"), N("r"))]

InputSets == {<<A>>, <<AI>>, <<AURI>>, <<AREN, B>>, <<AI, SameName>>, <<D, LIT>>, <<TREE>>, <<REM, D>>}

\* Listings.
Entry == [is |-> "null", name |-> Nowhere, abs |-> FALSE, writable |-> FALSE, text |-> "",
          objects |-> <<>>, static |-> FALSE]
Put(v, name, w) == [Entry EXCEPT !.is = "object", !.objects = <<v>>, !.name = name, !.writable = w]
Fresh(v) == [v EXCEPT !.id = ""]
Given(v) == [Put(v, Nowhere, FALSE) EXCEPT !.static = TRUE]
FreshAI == Fresh([A EXCEPT !.kids = <<Fresh(FileAt("ai", Append(In, Idx("a"))))>>])
Listings == {<<>>,
    <<Put(FreshAI, Nowhere, TRUE), Put(D, <<N("w")>>, TRUE), [Entry EXCEPT !.is = "text", !.name = <<N("w"), N("n")>>, !.text = "N"]>>,
    <<Put(D, Nowhere, TRUE), Put(Fresh(B), Nowhere, TRUE)>>,
    <<Put(Fresh(B), <<N("sub"), N("k")>>, FALSE), Put(D, Nowhere, FALSE)>>,
    <<[Entry EXCEPT !.is = "array", !.objects = <<B, DirOf("", N("v"), <<FreshAI>>)>>, !.static = TRUE], Entry>>,
    <<[Put(B, <<Root("X")[1], N("b")>>, FALSE) EXCEPT !.abs = TRUE],
      [Entry EXCEPT !.is = "text", !.abs = TRUE, !.name = <<Root("X")[1], N("c")>>, !.text = "C"]>>,
    <<[Entry EXCEPT !.is = "text", !.name = <<Up, N("c")>>, !.text = "C"]>>,
    <<[Entry EXCEPT !.is = "array", !.objects = <<B>>, !.name = <<N("c")>>]>>}

\* Tools and ports.
Op(op, name, b) == [op |-> op, name |-> name, bytes |-> b, to |-> Nowhere]
Makes == <<Op("write", <<Txt("o")>>, "O"), Op("write", <<Idx("o")>>, "OI"), Op("write", <<Txt("u")>>, "U"),
           Op("mkdir", <<N("g")>>, ""), Op("write", <<N("g"), N("h")>>, "H"),
           Op("mkdir", <<N("g"), N("k")>>, ""), Op("write", <<N("g"), N("k"), N("l")>>, "L")>>
\* A directory that holds a link to itself, and one to an input.
Loops == Makes \o <<[Op("link", <<N("g"), N("up")>>, "") EXCEPT !.to = Append(Outdir, N("g"))],
                    [Op("link", <<N("g"), N("in")>>, "") EXCEPT !.to = Append(In, Txt("b"))]>>

\* A directory that holds a link to nothing.
Lost == Makes \o <<[Op("link", <<N("g"), N("lost")>>, "") EXCEPT !.to = Append(Outdir, N("none"))]>>

Pattern(dir, names) == [dir |-> dir, names |-> names, any |-> FALSE, abs |-> FALSE]
Everything          == [dir |-> Nowhere, names |-> {}, any |-> TRUE, abs |-> FALSE]
NoEval  == [op |-> "none", name |-> NoName, index |-> 1]
Port    == [class |-> "File", arity |-> "one", bound |-> TRUE, field |-> FALSE, patterns |-> <<>>,
            contents |-> FALSE, listing |-> "none", eval |-> NoEval, secondary |-> <<>>,
            written |-> <<>>, object |-> FALSE]
IdxPattern == [carets |-> 0, suffix |-> <<"idx">>, required |-> TRUE]
Out(names)      == [Port EXCEPT !.patterns = <<Pattern(Nowhere, names)>>]
Renamed(p, n)   == [p EXCEPT !.eval = [op |-> "rename", name |-> n, index |-> 1]]
Directory(n)    == [Out({N(n)}) EXCEPT !.class = "Directory"]
Collected == <<[Out({Txt("o")}) EXCEPT !.secondary = <<IdxPattern>>, !.contents = TRUE], [Directory("g") EXCEPT !.listing = "deep"]>>
PortSets == {<<[Directory("g") EXCEPT !.listing = "shallow"], [Out({Txt("u")}) EXCEPT !.contents = TRUE]>>,
    <<Renamed([Directory("g") EXCEPT !.listing = "deep"], N("j")), Renamed(Out({Txt("o")}), Txt("i"))>>,
    <<Renamed(Out({Txt("o")}), Txt("u")), Out({Txt("u")})>>,
    <<[Port EXCEPT !.eval = [op |-> "input", name |-> Txt("y"), index |-> 1]],
      [Out({Txt("none")}) EXCEPT !.arity = "optional", !.field = TRUE]>>,
    <<[Port EXCEPT !.arity = "many", !.patterns = <<[Everything EXCEPT !.abs = TRUE, !.dir = Outdir]>>]>>,
    <<[Port EXCEPT !.bound = FALSE, !.field = TRUE]>>,
    \* taken from under an earlier output, and over one
    <<[Directory("g") EXCEPT !.listing = "deep"], Renamed([Out({}) EXCEPT !.patterns = <<Pattern(<<N("g")>>, {N("h")})>>], N("x"))>>,
    <<Out({Txt("u")}), Renamed(Out({Txt("o")}), Txt("u")), Out({Idx("o")})>>,
    \* an input under the name of another staged one, and a staged one under another name
    <<[Out({Txt("b")}) EXCEPT !.arity = "optional"],
      [Port EXCEPT !.eval = [op |-> "input", name |-> Txt("b"), index |-> 1]]>>,
    <<Renamed(Out({Txt("o")}), Txt("b")), [Port EXCEPT !.eval = [op |-> "input", name |-> Txt("b"), index |-> 1]]>>,
    <<Renamed([Out({}) EXCEPT !.patterns = <<Pattern(<<N("d")>>, {N("x")})>>], N("z")), Out({Txt("u")})>>}

\* The tool's own names for what it writes into cwl.output.json.
InOut(c, n) == Append(Workdir(c), n)
Json(c) == {<<[Port EXCEPT !.written = <<FileAt("", InOut(c, Txt("o")))>>],
              [Port EXCEPT !.written = <<[FileUri("", InOut(c, Txt("u"))) EXCEPT !.basename = Txt("s")], FileAt("", InOut(c, Idx("o")))>>,
                           !.object = TRUE], Port>>,
            <<[Port EXCEPT !.written = <<[DirAt("", InOut(c, N("g"))) EXCEPT !.basename = N("f")]>>]>>,
            <<[Port EXCEPT !.written = <<[FileAt("", InOut(c, Txt("o"))) EXCEPT !.basename = Txt("u")], FileAt("", InOut(c, Txt("u")))>>,
                           !.object = TRUE]>>,
            <<[Port EXCEPT !.written = <<FileAt("", Append(In, Txt("b")))>>]>>}

Case(inputs, listing, contained, bind, inplace) ==
    [inputs |-> inputs, listing |-> listing, contained |-> contained, bind |-> bind, inplace |-> inplace,
     absolute |-> contained /\ bind, disk |-> Disk, tool |-> <<>>, ports |-> <<>>, json |-> FALSE]

\* Everything that is staged, with a tool that makes nothing; and everything that is
\* collected, over a few stagings.
Hosts == {<<FALSE, TRUE>>, <<TRUE, TRUE>>, <<TRUE, FALSE>>}
Staged == {Case(i, l, h[1], h[2], p) : i \in InputSets, l \in Listings, h \in Hosts, p \in BOOLEAN}
Bases  == {Case(<<AI>>, l, h[1], h[2], FALSE) :
             l \in {<<>>, <<Given(Fresh(B)), Given(Fresh(D))>>}, h \in {<<FALSE, TRUE>>, <<TRUE, TRUE>>}}
Made   == UNION {{[c EXCEPT !.tool = Makes, !.ports = p] : p \in PortSets}
                 \union {[c EXCEPT !.tool = Makes, !.ports = p, !.json = TRUE] : p \in Json(c)}
                 \union {[c EXCEPT !.tool = t, !.ports = Collected] : t \in {Loops, Lost}}
                 \union {[c EXCEPT !.tool = Lost, !.json = TRUE,
                                   !.ports = <<[Port EXCEPT !.class = "Directory", !.written = <<DirAt("", InOut(c, N("g")))>>]>>]}
                 : c \in Bases}
FilesLibrary == Staged \union Made
=============================================================================
