------------------------------ MODULE JobOrder ------------------------------
(***************************************************************************)
(* From a job order to the inputs of a process: the object is read against *)
(* the declared types (joborder.go, joborder_value.go, joborder_file.go,   *)
(* joborder_format.go, joborder_requirements.go), then the secondary files *)
(* of each input are looked for (joborder_secondary.go).                   *)
(*                                                                         *)
(* Names are numbers, so that they have an order; what a scalar or a file  *)
(* holds is a token; an expression is what it evaluates to.                *)
(***************************************************************************)
EXTENDS FileTree

CONSTANTS
    Library,    \* the processes and job orders that are tried
    TooLarge    \* the contents over the limit of 64 KiB

VARIABLES
    case,       \* the process and the job order
    pc,         \* load, discover, build, ready or rejected
    inputs,     \* name |-> value
    next,       \* the declared input whose secondary files are looked for next
    argv        \* the command line (CommandLine)

vars == <<case, pc, inputs, next, argv>>

NoName  == <<>>
Nowhere == <<>>

\* Values.  A File or Directory holds its secondaryFiles or listing in items.
Nothing == [t |-> "null", v |-> "", items |-> <<>>, fields |-> <<>>, path |-> Nowhere, remote |-> Nowhere,
            basename |-> NoName, literal |-> FALSE, format |-> NoName, listed |-> FALSE]
Scalar(t, v)    == [Nothing EXCEPT !.t = t, !.v = v]
List(s)         == [Nothing EXCEPT !.t = "list", !.items = s]
Object(f)       == [Nothing EXCEPT !.t = "object", !.fields = f]
IsPlaced(v)     == v.t \in {"File", "Directory"}

Good(v) == [ok |-> TRUE, v |-> v]
Bad     == [ok |-> FALSE, v |-> Nothing]

\* The results of a sequence, or the failure of one of them.
Together(results) ==
    IF \A i \in DOMAIN results : results[i].ok
    THEN Good(List([i \in DOMAIN results |-> results[i].v])) ELSE Bad

First(S, P(_)) == CHOOSE i \in S : P(i) /\ \A j \in S : P(j) => i <= j

-----------------------------------------------------------------------------
(* Requirements and named types. *)

\* joMergeRequirements: those of the job order come after those of the process.
Requirements(c) == c.proc.reqs \o c.job.reqs

\* GetRequirement of a scope with one frame: the last of its class, a requirement first.
LastOfClass(s, class) ==
    LET is == {i \in DOMAIN s : s[i].class = class}
    IN IF is = {} THEN <<>> ELSE <<s[CHOOSE i \in is : \A j \in is : j <= i]>>
GetRequirement(c, class) ==
    LET required == LastOfClass(Requirements(c), class)
    IN IF required # <<>> THEN required ELSE LastOfClass(c.proc.hints, class)

\* loadListingDefault.
DefaultListing(c) ==
    LET r == GetRequirement(c, "LoadListing") IN IF r = <<>> THEN "" ELSE r[1].listing

\* schemaDefResolver: every name that a SchemaDefRequirement declares, but the one being
\* expanded.
RECURSIVE Substitute(_, _, _)
Substitute(types, active, t) ==
    CASE t.k = "named" ->
           IF t.name \in DOMAIN types /\ t.name \notin active
           THEN Substitute(types, active \union {t.name}, types[t.name]) ELSE t
      [] t.k = "union"  -> [t EXCEPT !.options = [i \in DOMAIN @ |-> Substitute(types, active, @[i])]]
      [] t.k = "array"  -> [t EXCEPT !.items = <<Substitute(types, active, @[1])>>]
      [] t.k = "record" -> [t EXCEPT !.fields =
                               [i \in DOMAIN @ |-> [@[i] EXCEPT !.typ = Substitute(types, active, @)]]]
      [] OTHER -> t
ResolveTypeRef(c, t) ==
    LET r == GetRequirement(c, "SchemaDef") IN IF r = <<>> THEN t ELSE Substitute(r[1].types, {}, t)

-----------------------------------------------------------------------------
(* Files and Directories. *)

\* joReadVocabulary and expandFormat: the job order's prefixes win.
Namespaces(c)      == c.job.prefixes @@ c.proc.prefixes
HasOntology(c)     == c.job.ontology \/ c.proc.ontology
ExpandFormat(c, f) ==
    IF Len(f) = 2 /\ f[1] \in DOMAIN Namespaces(c) THEN <<Namespaces(c)[f[1]], f[2]>> ELSE f

\* joResolveRef: path before location, relative ones below the base.
ResolveRef(n, base) ==
    LET ref == IF n.path.is # "none" THEN n.path ELSE n.location
    IN CASE ref.is = "none"   -> [ok |-> TRUE, path |-> Nowhere, remote |-> Nowhere]
         [] ref.is = "bad"    -> [ok |-> FALSE, path |-> Nowhere, remote |-> Nowhere]
         [] ref.is = "remote" -> [ok |-> TRUE, path |-> Nowhere, remote |-> ref.to]
         [] ref.is = "local"  -> [ok |-> TRUE, path |-> IF ref.abs THEN ref.to ELSE base \o ref.to,
                                  remote |-> Nowhere]
NameOf(n, r) ==
    IF n.basename # NoName THEN n.basename
    ELSE IF r.path # Nowhere THEN Last(r.path) ELSE IF r.remote # Nowhere THEN Last(r.remote) ELSE NoName

\* outCollectDirectory, as far as a listing goes (the model's directories hold no links).
RECURSIVE Listed(_, _, _)
Listed(tree, p, mode) ==
    LET found == Sequenced(Entries(tree, p))
        entry(q) ==
          IF IsFile(tree, q)
          THEN [Nothing EXCEPT !.t = "File", !.path = q, !.basename = Last(q), !.v = Bytes(tree, q)]
          ELSE [Nothing EXCEPT !.t = "Directory", !.path = q, !.basename = Last(q),
                               !.listed = mode = "deep", !.items = IF mode = "deep" THEN Listed(tree, q, mode) ELSE <<>>]
    IN [i \in DOMAIN found |-> entry(found[i])]

\* normalizeFile, normalizeDirectory and entries.  d says where and how: base, contents,
\* listing, formats; what is below a value is read with neither contents nor listing.
Plain(d) == [d EXCEPT !.contents = FALSE, !.listing = "", !.formats = {}]
RECURSIVE Placed(_, _, _)

\* entries and entry.
EntriesOf(c, n, d) ==
    Together([i \in DOMAIN n.items |->
        IF n.items[i].n = "map" /\ n.items[i].class \in {"File", "Directory"}
        THEN Placed(c, n.items[i], Plain(d)) ELSE Bad])

\* joCheckFileIdentity, joMeasure and joLoadContents: what a File holds, if it may.
Measured(c, n, r, d) ==
    LET bytes == IF r.path # Nowhere THEN Bytes(c.disk, r.path) ELSE n.contents
    IN IF \/ r.path = Nowhere /\ r.remote = Nowhere /\ ~n.literal
          \/ n.literal /\ n.contents \in TooLarge
          \/ r.path # Nowhere /\ ~IsFile(c.disk, r.path)
          \/ r.path # Nowhere /\ d.contents /\ bytes \in TooLarge
       THEN Bad ELSE Good([Nothing EXCEPT !.v = bytes])

\* normalizeFile and fileShell.
PlacedFile(c, n, r, d) ==
    LET measured == Measured(c, n, r, d)
        beside   == EntriesOf(c, n, d)
    IN IF ~measured.ok \/ ~beside.ok THEN Bad
       ELSE Good([Nothing EXCEPT !.t = "File", !.path = r.path, !.remote = r.remote, !.basename = NameOf(n, r),
                    !.v = measured.v.v, !.literal = n.literal \/ (r.path # Nowhere /\ d.contents),
                    !.format = ExpandFormat(c, n.format), !.items = beside.v.items])

\* normalizeDirectory, directoryListing, joStatDirectory and joReadListing.
PlacedDirectory(c, n, r, d) ==
    LET inside == EntriesOf(c, n, d)
        read   == r.path # Nowhere /\ ~n.listed /\ d.listing \in {"shallow", "deep"}
    IN IF \/ ~inside.ok
          \/ r.path = Nowhere /\ r.remote = Nowhere /\ ~n.listed
          \/ r.path # Nowhere /\ ~IsDir(c.disk, r.path)
       THEN Bad
       ELSE Good([Nothing EXCEPT !.t = "Directory", !.path = r.path, !.remote = r.remote, !.basename = NameOf(n, r),
                    !.listed = n.listed \/ read,
                    !.items = IF read THEN Listed(c.disk, r.path, d.listing) ELSE inside.v.items])

\* Either, once its keys and its reference are in order.
Placed(c, n, d) ==
    LET r == ResolveRef(n, d.base)
    IN IF n.extra \/ ~r.ok THEN Bad
       ELSE IF n.class = "File" THEN PlacedFile(c, n, r, d) ELSE PlacedDirectory(c, n, r, d)

\* Mutant: a format is never looked at.
FormatIgnored(c, v, d) == TRUE

\* checkFormat: not once an ontology is named.
FormatFits(c, v, d) == d.formats = {} \/ HasOntology(c) \/ v.format \in d.formats

-----------------------------------------------------------------------------
(* Reading a node against a type. *)

\* freeform: read as it is written, but for what has the class of a File or Directory.
RECURSIVE Freeform(_, _, _)
Freeform(c, n, d) ==
    CASE n.n = "map" /\ n.class \in {"File", "Directory"} -> Placed(c, n, d)
      [] n.n = "map" /\ n.class \notin {"File", "Directory"} ->
           LET fields == [k \in DOMAIN n.fields |-> Freeform(c, n.fields[k], Plain(d))]
           IN IF \A k \in DOMAIN fields : fields[k].ok
              THEN Good(Object([k \in DOMAIN fields |-> fields[k].v])) ELSE Bad
      [] n.n = "seq"  -> Together([i \in DOMAIN n.items |-> Freeform(c, n.items[i], d)])
      [] OTHER        -> Good(Scalar(IF n.n \in {"int", "float"} THEN "num" ELSE n.n, n.v))

\* union: the first option that takes it.
Union(results) ==
    LET fits == {i \in DOMAIN results : results[i].ok}
    IN IF fits = {} THEN Bad ELSE results[CHOOSE i \in fits : \A j \in fits : i <= j]

IsOptional(t) == t.k = "null" \/ (t.k = "union" /\ \E i \in DOMAIN t.options : t.options[i].k = "null")

\* joScalarValue, joIntValue, joFloatValue.
ScalarOf(n, t) ==
    CASE t.k = "int"   -> IF n.n = "int" THEN Good(Scalar("num", n.v)) ELSE Bad
      [] t.k = "float" -> IF n.n \in {"int", "float"} THEN Good(Scalar("num", n.v)) ELSE Bad
      [] OTHER         -> IF n.n = t.k THEN Good(Scalar(n.n, n.v)) ELSE Bad

\* joEnumValue.
EnumOf(n, t) == IF n.n = "str" /\ n.v \in t.symbols THEN Good(Scalar("str", n.v)) ELSE Bad

\* fileValue and directoryValue.
FilesystemValue(c, n, t, d) ==
    LET v == Placed(c, n, d)
    IN IF n.n = "map" /\ n.class = t.k /\ v.ok /\ (t.k = "File" => FormatFits(c, v.v, d)) THEN v ELSE Bad

RECURSIVE Typed(_, _, _, _)

\* array.
ArrayOf(c, n, t, d) ==
    IF n.n # "seq" THEN Bad ELSE Together([i \in DOMAIN n.items |-> Typed(c, n.items[i], t.items[1], d)])

\* field: with the format, listing and contents of its own.
FieldOf(c, n, f, d) ==
    LET below == [d EXCEPT !.contents = f.contents, !.formats = f.formats,
                           !.listing = IF f.listing # "" THEN f.listing ELSE DefaultListing(c)]
    IN IF f.name \in DOMAIN n.fields /\ n.fields[f.name].n # "null"
       THEN Typed(c, n.fields[f.name], f.typ, below)
       ELSE IF IsOptional(f.typ) THEN Good(Nothing) ELSE Bad

\* record.
RecordOf(c, n, t, d) ==
    LET names  == {t.fields[i].name : i \in DOMAIN t.fields}
        fields == [i \in DOMAIN t.fields |-> FieldOf(c, n, t.fields[i], d)]
    IN IF n.n # "map" \/ ~(DOMAIN n.fields \subseteq names) \/ \E i \in DOMAIN fields : ~fields[i].ok THEN Bad
       ELSE Good(Object([k \in names |-> fields[First(DOMAIN t.fields, LAMBDA j : t.fields[j].name = k)].v]))

\* value and primitive.
Typed(c, n, t, d) ==
    CASE t.k = "union"  -> Union([i \in DOMAIN t.options |-> Typed(c, n, t.options[i], d)])
      [] t.k = "array"  -> ArrayOf(c, n, t, d)
      [] t.k = "record" -> IF n.n = "map" THEN RecordOf(c, n, t, d) ELSE Bad
      [] t.k = "enum"   -> EnumOf(n, t)
      [] t.k = "null"   -> IF n.n = "null" THEN Good(Nothing) ELSE Bad
      [] t.k = "Any"    -> IF n.n = "null" THEN Bad ELSE Freeform(c, n, d)
      [] t.k \in {"File", "Directory"} -> FilesystemValue(c, n, t, d)
      [] t.k = "named"  -> Freeform(c, n, d)
      [] OTHER          -> ScalarOf(n, t)

\* input: the value supplied, or the default, or null if that is allowed.
Input(c, decl) ==
    LET d == [base |-> c.job.dir, contents |-> decl.contents, formats |-> decl.formats,
              listing |-> IF decl.listing # "" THEN decl.listing ELSE DefaultListing(c)]
        given == IF decl.name \in DOMAIN c.job.values THEN c.job.values[decl.name] ELSE [n |-> "null"]
    IN CASE given.n # "null" -> Typed(c, given, decl.typ, d)
         [] given.n = "null" /\ decl.default.n # "null" -> Typed(c, decl.default, decl.typ, [d EXCEPT !.base = c.proc.dir])
         [] OTHER -> IF IsOptional(decl.typ) THEN Good(Nothing) ELSE Bad

-----------------------------------------------------------------------------
(* Secondary files. *)

\* outSubstitutePattern: a caret takes an extension off, while there is one.
RECURSIVE Substituted(_, _, _)
Substituted(name, carets, suffix) ==
    IF carets = 0 \/ Len(name) = 1 THEN name \o suffix ELSE Substituted(Front(name), carets - 1, suffix)

\* policy and evaluatedPolicy: required unless it says otherwise.
Policy(schema) ==
    CASE schema.required = "unset"                         -> IF schema.marker THEN "optional" ELSE "required"
      [] schema.required \in {"true", "expression true"}   -> "required"
      [] schema.required \in {"false", "expression false", "expression null"} -> "optional"
      [] OTHER -> "error"

\* candidates and joCandidateRef: a name beside the primary, or what an expression gives.
Candidates(schema, primary) ==
    IF schema.is = "pattern"
    THEN <<[is |-> "ref", path |-> Append(Front(primary.path), Substituted(primary.basename, schema.carets, schema.suffix)),
            name |-> Substituted(primary.basename, schema.carets, schema.suffix)]>>
    ELSE schema.candidates

\* Mutant: a companion that the job order names already is attached again.
AlreadyPresentNever(found, name) == FALSE

\* joAlreadyPresent.
AlreadyPresent(found, name) == \E i \in DOMAIN found : found[i].basename = name

\* appendCandidate and joRenamed.
AppendCandidate(c, found, ref, policy) ==
    LET exists == ref.path # Nowhere /\ Exists(c.disk, ref.path)
        value  == [Nothing EXCEPT !.path = ref.path, !.basename = ref.name,
                     !.t = IF IsDir(c.disk, ref.path) THEN "Directory" ELSE "File",
                     !.v = IF IsFile(c.disk, ref.path) THEN Bytes(c.disk, ref.path) ELSE ""]
    IN CASE ref.is = "null" -> Good(List(found))
         [] ref.is = "bad"  -> Bad
         [] ref.is = "ref"  ->
              IF AlreadyPresent(found, ref.name) THEN Good(List(found))
              ELSE IF exists THEN Good(List(Append(found, value)))
              ELSE IF policy = "required" THEN Bad ELSE Good(List(found))

\* file and pattern: pattern after pattern, candidate after candidate.
WithCompanions(c, v, schemas) ==
    LET step(r, schema) ==
          IF ~r.ok \/ Policy(schema) = "error" THEN Bad
          ELSE FoldLeft(LAMBDA s, ref : IF s.ok THEN AppendCandidate(c, s.v.items, ref, Policy(schema)) ELSE Bad,
                        r, Candidates(schema, v))
        found == FoldLeft(step, Good(List(v.items)), schemas)
    IN IF schemas = <<>> \/ v.path = Nowhere THEN Good(v)
       ELSE IF found.ok THEN Good([v EXCEPT !.items = found.v.items]) ELSE Bad

\* joArrayItems and joRecordFields: the first option of a union that is one.
OptionOf(t, k) ==
    IF t.k = k THEN <<t>>
    ELSE IF t.k = "union" THEN SelectSeq(t.options, LAMBDA o : o.k = k) ELSE <<>>

\* joSecondaryPass.value, items, record.
RECURSIVE Discovered(_, _, _, _)
Discovered(c, v, t, schemas) ==
    CASE v.t = "File" -> WithCompanions(c, v, schemas)
      [] v.t = "list" ->
           LET items == IF OptionOf(t, "array") = <<>> THEN t ELSE OptionOf(t, "array")[1].items[1]
           IN Together([i \in DOMAIN v.items |-> Discovered(c, v.items[i], items, schemas)])
      [] v.t = "object" /\ OptionOf(t, "record") # <<>> ->
           LET fields == OptionOf(t, "record")[1].fields
               done   == [i \in DOMAIN fields |->
                            IF fields[i].name \in DOMAIN v.fields
                            THEN Discovered(c, v.fields[fields[i].name], fields[i].typ, fields[i].secondary) ELSE Good(Nothing)]
           IN IF \E i \in DOMAIN done : ~done[i].ok THEN Bad
              ELSE Good([v EXCEPT !.fields = [k \in DOMAIN @ |->
                       IF \E i \in DOMAIN fields : fields[i].name = k
                       THEN done[First(DOMAIN fields, LAMBDA i : fields[i].name = k)].v ELSE @[k]]])
      [] OTHER -> Good(v)

-----------------------------------------------------------------------------
(* ParseJobOrder. *)

Init ==
    /\ case \in Library
    /\ pc = "load" /\ inputs = <<>> /\ next = 1 /\ argv = <<>>

\* The object is read whole; every problem is reported, one is enough to refuse it.
Load ==
    /\ pc = "load"
    /\ LET decls   == case.proc.inputs
           results == [i \in DOMAIN decls |-> Input(case, decls[i])]
       IN IF \A i \in DOMAIN decls : results[i].ok
          THEN /\ inputs' = [k \in {decls[i].name : i \in DOMAIN decls} |->
                               results[First(DOMAIN decls, LAMBDA i : decls[i].name = k)].v]
               /\ pc' = "discover"
          ELSE pc' = "rejected" /\ UNCHANGED inputs
    /\ UNCHANGED <<case, next, argv>>

\* The second pass, one declared input after the other.
Discover ==
    /\ pc = "discover" /\ next <= Len(case.proc.inputs)
    /\ LET decl == case.proc.inputs[next]
           r    == Discovered(case, inputs[decl.name], ResolveTypeRef(case, decl.typ), decl.secondary)
       IN IF r.ok THEN inputs' = [inputs EXCEPT ![decl.name] = r.v] /\ UNCHANGED pc
          ELSE pc' = "rejected" /\ UNCHANGED inputs
    /\ next' = next + 1
    /\ UNCHANGED <<case, argv>>

EndDiscover ==
    /\ pc = "discover" /\ next > Len(case.proc.inputs)
    /\ pc' = "build"
    /\ UNCHANGED <<case, inputs, next, argv>>

\* joCancelled: noticed at a value with a file in it.
Cancelled ==
    /\ pc \in {"load", "discover"}
    /\ pc' = "rejected"
    /\ UNCHANGED <<case, inputs, next, argv>>

JobNext == Load \/ Discover \/ EndDiscover \/ Cancelled

-----------------------------------------------------------------------------
(* Properties. *)

\* The declared type as a set of values.
RECURSIVE Admits(_, _)
Admits(t, v) ==
    CASE t.k = "union"  -> \E i \in DOMAIN t.options : Admits(t.options[i], v)
      [] t.k = "array"  -> v.t = "list" /\ \A i \in DOMAIN v.items : Admits(t.items[1], v.items[i])
      [] t.k = "record" -> /\ v.t = "object"
                           /\ DOMAIN v.fields = {t.fields[i].name : i \in DOMAIN t.fields}
                           /\ \A i \in DOMAIN t.fields :
                                /\ Admits(t.fields[i].typ, v.fields[t.fields[i].name])
                                /\ v.fields[t.fields[i].name].t = "File" /\ t.fields[i].formats # {} /\ ~HasOntology(case)
                                     => v.fields[t.fields[i].name].format \in t.fields[i].formats
      [] t.k = "enum"   -> v.t = "str" /\ v.v \in t.symbols
      [] t.k = "Any"    -> v.t # "null"
      [] t.k \in {"int", "float"} -> v.t = "num"
      [] t.k = "named"  -> TRUE
      [] OTHER          -> v.t = t.k

\* Every File and Directory in a value.
RECURSIVE PlacedIn(_)
PlacedIn(v) == (IF IsPlaced(v) THEN {v} ELSE {}) \union UNION {PlacedIn(v.items[i]) : i \in DOMAIN v.items}
               \union UNION {PlacedIn(v.fields[k]) : k \in DOMAIN v.fields}

\* What a job order is read into is of the declared type, is on the disk where it says it
\* is, and came from a job order that leaves out no input without a default: from the two
\* passes over values, unions and records together.
InputsConform ==
    pc \in {"discover", "build", "ready"} => \A i \in DOMAIN case.proc.inputs :
        LET decl == case.proc.inputs[i] IN
        /\ Admits(decl.typ, inputs[decl.name])
        /\ decl.formats = {} \/ HasOntology(case) \/ inputs[decl.name].t # "File" \/ inputs[decl.name].format \in decl.formats
        /\ inputs[decl.name].t = "null" => decl.default.n = "null"
        /\ \A v \in PlacedIn(inputs[decl.name]) : v.path # Nowhere =>
             IF v.t = "File" THEN IsFile(case.disk, v.path) /\ v.v = Bytes(case.disk, v.path) ELSE IsDir(case.disk, v.path)

\* Once the second pass is over, every File of a parameter with patterns has all the
\* companions they require of it, none twice, also those the job order names itself.
Complete(v, schemas) ==
    /\ \A i, j \in DOMAIN v.items : v.items[i].basename = v.items[j].basename /\ v.items[i].path # v.items[j].path => i = j
    /\ v.path # Nowhere => \A s \in ToSet(schemas) : Policy(s) = "required" =>
          \A ref \in ToSet(Candidates(s, v)) : ref.is = "ref" => \E i \in DOMAIN v.items : v.items[i].basename = ref.name
RECURSIVE CompleteIn(_, _, _)
CompleteIn(v, t, schemas) ==
    CASE v.t = "File" -> Complete(v, schemas) /\ Cardinality({v.items[i] : i \in DOMAIN v.items}) = Len(v.items)
      [] v.t = "list" -> \A i \in DOMAIN v.items :
                           CompleteIn(v.items[i], IF t.k = "array" THEN t.items[1] ELSE t, schemas)
      [] v.t = "object" /\ t.k = "record" ->
           \A i \in DOMAIN t.fields : CompleteIn(v.fields[t.fields[i].name], t.fields[i].typ, t.fields[i].secondary)
      [] v.t = "object" /\ t.k = "union" ->
           \E i \in DOMAIN t.options : Admits(t.options[i], v) /\ CompleteIn(v, t.options[i], schemas)
      [] OTHER -> TRUE
CompanionsComplete ==
    pc \in {"build", "ready"} => \A i \in DOMAIN case.proc.inputs :
        LET decl == case.proc.inputs[i]
        IN CompleteIn(inputs[decl.name], ResolveTypeRef(case, decl.typ), decl.secondary)
=============================================================================
