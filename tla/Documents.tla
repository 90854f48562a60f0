----------------------------- MODULE Documents -----------------------------
(***************************************************************************)
(* The document loader (pkg/salad): a parsed document is walked from the   *)
(* top; imports are spliced in, identifier maps and the type DSL expanded, *)
(* identifiers and references made absolute; a second walk settles the     *)
(* links, those written relative by a search of the enclosing scopes.      *)
(*                                                                         *)
(* A node is a mapping (fields in the order of the document), a sequence,  *)
(* a string or another scalar, with its position.  A string is a           *)
(* reference: the part before the '#' and the names after it.  "rel" has   *)
(* no scheme, "pre" is written prefix:name, "abs" is absolute, "tmpl" an   *)
(* expression; "dsl" is a type written in the shorthand.  The documents    *)
(* are all in one directory, and maps are written in the order of keys.    *)
(***************************************************************************)
EXTENDS Naturals, Sequences, FiniteSets, SequencesExt, TLC

CONSTANTS
    Terms,      \* field |-> how it maps into the vocabulary (TermDef)
    Vocabulary, \* the vocabulary terms
    Namespaces    \* the namespaces of the schema: prefix |-> IRI

Ref(is, path, frag) == [is |-> is, path |-> path, frag |-> frag]
Rel(name)  == Ref("rel", name, <<>>)
Hash(name) == Ref("rel", <<>>, name)
NoName     == Ref("abs", <<>>, <<>>)
DocURL(d)  == Ref("abs", <<d>>, <<>>)
DocOf(r)   == r.path[1]

Null       == [k |-> "null", at |-> <<>>]
Scalar(tag, v) == [k |-> "scalar", tag |-> tag, v |-> v, at |-> <<>>]
Str(r)     == [k |-> "str", v |-> r, at |-> <<>>]
List(s)    == [k |-> "seq", items |-> s, at |-> <<>>]
Mapping(s) == [k |-> "map", fields |-> s, at |-> <<>>]
Keys(m)    == {m.fields[i][1] : i \in 1 .. Len(m.fields)}
Has(m, key) == m.k = "map" /\ key \in Keys(m)
Get(m, key) == IF Has(m, key) THEN m.fields[CHOOSE i \in 1 .. Len(m.fields) : m.fields[i][1] = key][2] ELSE Null
With(m, key, val) ==
    IF Has(m, key) THEN [m EXCEPT !.fields = [i \in DOMAIN @ |-> IF @[i][1] = key THEN <<key, val>> ELSE @[i]]]
    ELSE [m EXCEPT !.fields = Append(@, <<key, val>>)]

\* Parse gives every node its position.
RECURSIVE Located(_, _)
Located(n, at) ==
    CASE n.k = "map" -> [n EXCEPT !.at = at, !.fields = [i \in DOMAIN @ |-> <<@[i][1], Located(@[i][2], Append(at, i))>>]]
      [] n.k = "seq" -> [n EXCEPT !.at = at, !.items = [i \in DOMAIN @ |-> Located(@[i], Append(at, i))]]
      [] OTHER -> [n EXCEPT !.at = at]

-----------------------------------------------------------------------------
(* References. *)

PlainTerm == [kind |-> "plain", scoped |-> FALSE, up |-> 0, identity |-> FALSE, subject |-> "", predicate |-> "",
              subscope |-> "", dsl |-> FALSE, nocheck |-> FALSE]
TermOf(field) == IF field \in DOMAIN Terms THEN Terms[field] ELSE PlainTerm

\* A context: what the terms of the vocabulary stand for, and the prefixes.
Context == [vocab |-> [t \in Vocabulary |-> <<Namespaces["cwl"], t>>], ns |-> Namespaces]

HasTerm(ctx, r) == r.is = "rel" /\ r.frag = <<>> /\ Len(r.path) = 1 /\ r.path[1] \in DOMAIN ctx.vocab \union DOMAIN ctx.ns
\* vocabTermFor: the term of an IRI, or the prefix of a namespace.
IsTerm(ctx, r) ==
    /\ r.is = "abs"
    /\ r.frag = <<>>
    /\ \/ Len(r.path) = 2 /\ \E t \in DOMAIN ctx.vocab : ctx.vocab[t] = r.path
       \/ Len(r.path) = 1 /\ r.path[1] \in {ctx.ns[p] : p \in DOMAIN ctx.ns}
ExpandPrefix(ctx, r) ==
    IF r.is # "pre" THEN r
    ELSE Ref("abs", <<IF r.path[1] \in DOMAIN ctx.ns THEN ctx.ns[r.path[1]] ELSE r.path[1], r.path[2]>>, <<>>)

Under(base, name) == [base EXCEPT !.frag = @ \o name]
ResolveReference(base, r) == Ref("abs", IF r.path = <<>> THEN base.path ELSE r.path, r.frag)

PlaceReference(r, base, mode, scoped) ==
    CASE r.is = "abs" -> r
      [] mode = "id" /\ r.frag = <<>> -> Under(base, r.path)
      [] scoped /\ r.frag = <<>> -> r
      [] OTHER -> ResolveReference(base, r)

Expand(ctx, r, base, mode, scoped) ==
    IF r.is = "tmpl" \/ (mode = "vocab" /\ HasTerm(ctx, r)) THEN r
    ELSE LET iri == PlaceReference(ExpandPrefix(ctx, r), base, mode, scoped)
         IN IF mode = "vocab" /\ IsTerm(ctx, iri) /\ Len(iri.path) = 2
            THEN Rel(<<CHOOSE t \in DOMAIN ctx.vocab : ctx.vocab[t] = iri.path>>) ELSE iri

-----------------------------------------------------------------------------
(* The shorthands of one object. *)

\* identifierMapEntry: the key becomes the subject field, a value that is no
\* object the predicate field.
BadEntry == [k |-> "error", at |-> <<>>]
MapEntry(term, key, val) ==
    LET obj == IF val.k = "map" THEN val ELSE [Mapping(<< <<term.predicate, val>> >>) EXCEPT !.at = val.at]
    IN IF (val.k # "map" /\ term.predicate = "") \/ Get(obj, term.subject).k # "null" THEN BadEntry
       ELSE With(obj, term.subject, [Str(Rel(<<key>>)) EXCEPT !.at = val.at])

IsDirective(n) == Has(n, "$import") \/ Has(n, "$include")
ExpandMap(term, val) ==
    IF term.subject = "" \/ val.k # "map" \/ IsDirective(val) THEN val
    ELSE [List([i \in DOMAIN val.fields |-> MapEntry(term, val.fields[i][1], val.fields[i][2])]) EXCEPT !.at = val.at]
BadMap(val) == val.k = "seq" /\ \E i \in DOMAIN val.items : val.items[i].k = BadEntry.k

\* expandTypeName, for a name written with its marks: name[] and name?.
TypeName(n) ==
    IF n.k # "str" \/ n.v.is # "dsl" THEN <<n>>
    ELSE LET item == [Str(n.v.name) EXCEPT !.at = n.at]
             one  == IF n.v.array THEN [Mapping(<< <<"type", Str(Rel(<<"array">>))>>, <<"items", item>> >>) EXCEPT !.at = n.at] ELSE item
         IN IF n.v.optional THEN <<Str(Rel(<<"null">>)), one>> ELSE <<one>>

\* canonicalKey: positions do not tell types apart.
RECURSIVE Shape(_)
Shape(n) == CASE n.k = "map" -> [Mapping([i \in DOMAIN n.fields |-> <<n.fields[i][1], Shape(n.fields[i][2])>>]) EXCEPT !.at = <<>>]
              [] n.k = "seq" -> List([i \in DOMAIN n.items |-> Shape(n.items[i])])
              [] OTHER -> [n EXCEPT !.at = <<>>]
\* flattenTypes: nested unions are merged and members kept once.
FlattenTypes(items) ==
    FoldLeft(LAMBDA out, n : FoldLeft(LAMBDA o, m : IF \E i \in DOMAIN o : Shape(o[i]) = Shape(m) THEN o ELSE Append(o, m),
                                      out, IF n.k = "seq" THEN n.items ELSE <<n>>),
             <<>>, items)
ExpandType(val) ==
    CASE val.k = "str" -> LET t == TypeName(val) IN IF Len(t) = 1 THEN t[1] ELSE [List(FlattenTypes(t)) EXCEPT !.at = val.at]
      [] val.k = "seq" -> [val EXCEPT !.items = FlattenTypes(FlattenSeq([i \in DOMAIN @ |-> TypeName(@[i])]))]
      [] OTHER -> val

Shorthands(m) ==
    [m EXCEPT !.fields = [i \in DOMAIN @ |->
        LET term == TermOf(@[i][1])
            val  == ExpandMap(term, @[i][2])
        IN <<@[i][1], IF term.dsl THEN ExpandType(val) ELSE val>>]]

-----------------------------------------------------------------------------
(* The resolver: the state of one Load and the scope that flows down. *)

NewResolver(ctx) == [ids |-> <<>>, idx |-> <<>>, docs |-> <<>>, active |-> {}, asserted |-> {},
                spaces |-> {ctx.ns[p] : p \in DOMAIN ctx.ns}, err |-> ""]
Fails(r, why) == [r |-> [r EXCEPT !.err = why], n |-> Null]
Yields(r, n)  == [r |-> r, n |-> n]

Scope(ctx, doc, field) == [ctx |-> ctx, base |-> DocURL(doc), file |-> doc, field |-> field]

ExplicitContext(m, sc) ==
    LET base == Get(m, "$base")
        ns   == Get(m, "$namespaces")
    IN [sc EXCEPT !.base = IF base.k = "str" THEN base.v ELSE @,
                  !.ctx.ns = IF ns.k = "map" THEN [p \in Keys(ns) |-> Get(ns, p).v] @@ @ ELSE @]
RecordNamespaces(r, m) ==
    LET ns == Get(m, "$namespaces") IN IF ns.k = "map" THEN [r EXCEPT !.spaces = @ \union {Get(ns, p).v : p \in Keys(ns)}] ELSE r

\* indexObject and declareLinkTarget: an object takes the place of a mere target.
IndexObject(r, id, obj) ==
    IF id \in DOMAIN r.idx /\ id \notin r.asserted THEN r
    ELSE [r EXCEPT !.idx = (id :> obj) @@ @, !.asserted = @ \ {id}]
DeclareTarget(r, id, at) ==
    IF id \in DOMAIN r.idx THEN r
    ELSE [r EXCEPT !.idx = (id :> [Str(id) EXCEPT !.at = at]) @@ @, !.asserted = @ \union {id}]

\* declare: the same identifier twice in the same kind of field is an error.
Declare(r, id, at, obj, field) ==
    LET seen == id \in DOMAIN r.ids
    IN IF seen /\ r.ids[id].field = field /\ r.ids[id].at # at THEN [r EXCEPT !.err = "duplicate"]
       ELSE IndexObject(IF seen THEN r ELSE [r EXCEPT !.ids = (id :> [at |-> at, field |-> field]) @@ @], id, obj)

\* expandReferences: a string, or the strings of a sequence.
Mode(term) == IF term.kind = "vocab" THEN "vocab" ELSE IF term.identity THEN "id" ELSE "link"
ExpandOne(r, n, term, sc) ==
    IF n.k # "str" THEN Yields(r, n)
    ELSE LET to == Expand(sc.ctx, n.v, sc.base, Mode(term), term.scoped)
         IN Yields(IF Mode(term) = "id" THEN DeclareTarget(r, to, n.at) ELSE r, [n EXCEPT !.v = to])
ExpandReferences(r, val, term, sc) ==
    CASE term.kind = "plain" -> Yields(r, val)
      [] val.k = "seq" ->
           LET put(out, x) == [r |-> x.r, out |-> Append(out, x.n)]
               list(done)  == Yields(done.r, [val EXCEPT !.items = done.out])
           IN list(FoldLeft(LAMBDA acc, n : put(acc.out, ExpandOne(acc.r, n, term, sc)), [r |-> r, out |-> <<>>], val.items))
      [] OTHER -> ExpandOne(r, val, term, sc)

RECURSIVE Resolve(_, _, _, _), LoadDocument(_, _, _, _)

\* loadReference: a whole document, or the object of a fragment.
LoadReference(files, r, target, ctx) ==
    LET object(root) == IF root.r.err # "" \/ target.frag = <<>> THEN root
                        ELSE IF target \in DOMAIN root.r.idx THEN Yields(root.r, root.r.idx[target])
                        ELSE Fails(root.r, "fragment")
    IN object(LoadDocument(files, r, DocOf(target), ctx))

\* loadDocument: once per Load, under the namespaces of the document that asked
\* for it first.
LoadDocument(files, r, doc, ctx) ==
    CASE doc \in DOMAIN r.docs -> Yields(r, r.docs[doc])
      [] doc \in r.active -> Fails(r, "cycle")
      [] doc \notin DOMAIN files -> Fails(r, "fetch")
      [] OTHER ->
           LET left(done) == IF done.r.err # "" THEN Yields([done.r EXCEPT !.active = @ \ {doc}], Null)
                             ELSE Yields([done.r EXCEPT !.active = @ \ {doc}, !.docs = (doc :> done.n) @@ @], done.n)
           IN left(Resolve(files, [r EXCEPT !.active = @ \union {doc}], Located(files[doc], <<doc>>), Scope(ctx, doc, "")))

ResolveImport(files, r, m, sc) ==
    LET ref == Get(m, "$import")
    IN IF Cardinality(Keys(m)) # 1 \/ ref.k # "str" THEN Fails(r, "directive")
       ELSE LoadReference(files, r, ResolveReference(DocURL(sc.file), ExpandPrefix(sc.ctx, ref.v)), sc.ctx)
\* resolveInclude: the text, never parsed.
ResolveInclude(files, r, m, sc) ==
    LET ref == Get(m, "$include")
    IN IF Cardinality(Keys(m)) # 1 \/ ref.k # "str" THEN Fails(r, "directive")
       ELSE IF DocOf(ResolveReference(DocURL(sc.file), ExpandPrefix(sc.ctx, ref.v))) \notin DOMAIN files THEN Fails(r, "fetch")
       ELSE Yields(r, [Scalar("string", "text") EXCEPT !.at = m.at])

ResolveItem(files, acc, item, sc) ==
    IF acc.r.err # "" THEN acc
    ELSE LET put(x) == [r |-> x.r, out |-> IF x.n.k = "seq" /\ Has(item, "$import") THEN acc.out \o x.n.items ELSE Append(acc.out, x.n)]
         IN put(Resolve(files, acc.r, item, sc))
ResolveField(files, acc, field, sc) ==
    LET term  == TermOf(field[1])
        child == [sc EXCEPT !.field = field[1], !.base = IF term.subscope = "" THEN @ ELSE Under(@, <<term.subscope>>)]
        within(val) == Resolve(files, val.r, val.n, child)
        put(x) == [r |-> x.r, out |-> Append(acc.out, <<field[1], x.n>>)]
    IN IF acc.r.err # "" THEN acc ELSE put(within(ExpandReferences(acc.r, field[2], term, sc)))

\* reindex: links lead to the resolved object.
Reindex(r, out) ==
    LET id == Get(out, "id")
    IN IF r.err # "" \/ id.k # "str" \/ (id.v \in DOMAIN r.ids /\ r.ids[id.v].at # id.at) THEN r
       ELSE [r EXCEPT !.idx = (id.v :> out) @@ @]

\* resolveObject, with resolveIdentifiers and resolveFields.
ResolveObject(files, r, raw, sc) ==
    LET named(m, id, uri) == [r |-> Declare(r, uri, id.at, m, sc.field), m |-> With(m, "id", [id EXCEPT !.v = uri]), base |-> uri]
        yields(done, m) == Yields(Reindex(done.r, [m EXCEPT !.fields = done.out]), [m EXCEPT !.fields = done.out])
        fields(o) == IF o.r.err # "" THEN Yields(o.r, Null)
                     ELSE yields(FoldLeft(LAMBDA acc, field : ResolveField(files, acc, field, [sc EXCEPT !.base = o.base]),
                                          [r |-> o.r, out |-> <<>>], o.m.fields), o.m)
        object(m, id) ==
            IF \E i \in DOMAIN m.fields : BadMap(m.fields[i][2]) THEN Fails(r, "map")
            ELSE IF id.k \notin {"null", "str"} THEN Fails(r, "identifier")
            ELSE fields(IF id.k = "null" THEN [r |-> r, m |-> m, base |-> sc.base]
                        ELSE named(m, id, Expand(sc.ctx, id.v, sc.base, "id", FALSE)))
        whole(m) == object(m, Get(m, "id"))
    IN whole(Shorthands(raw))

Resolve(files, r, n, sc) ==
    LET sc1 == ExplicitContext(n, sc)
        list(done) == Yields(done.r, [n EXCEPT !.items = done.out])
    IN CASE r.err # "" \/ n.k \notin {"map", "seq"} -> Yields(r, n)
         [] n.k = "seq" -> list(FoldLeft(LAMBDA acc, item : ResolveItem(files, acc, item, sc), [r |-> r, out |-> <<>>], n.items))
         [] Has(n, "$import") -> ResolveImport(files, r, n, sc)
         [] Has(n, "$include") -> ResolveInclude(files, r, n, sc)
         [] Has(n, "$graph") -> Resolve(files, RecordNamespaces(r, n), Get(n, "$graph"), sc1)
         [] OTHER -> ResolveObject(files, RecordNamespaces(r, n), n, sc1)

-----------------------------------------------------------------------------
(* The second walk. *)

IsKnown(r, link, term, ctx) ==
    \/ link \in DOMAIN r.idx \/ IsTerm(ctx, link)
    \/ term.kind = "vocab" /\ HasTerm(ctx, link)
    \/ link.is = "abs" /\ Len(link.path) > 1 /\ link.path[1] \in r.spaces

SearchScopesInwards(r, link, base, up) ==
    LET most == IF Len(base.frag) > up THEN Len(base.frag) - up ELSE 0
        at(n) == [base EXCEPT !.frag = SubSeq(@, 1, n) \o link.path]
        hits == {n \in 0 .. most : at(n) \in DOMAIN r.idx}
    IN IF hits = {} THEN NoName ELSE at(CHOOSE n \in hits : \A m \in hits : n <= m)
\* searchScopes: from refScope levels up, outwards.
SearchScopes(r, link, base, up) ==
    LET most == IF Len(base.frag) > up THEN Len(base.frag) - up ELSE 0
        at(n) == [base EXCEPT !.frag = SubSeq(@, 1, n) \o link.path]
        hits == {n \in 0 .. most : at(n) \in DOMAIN r.idx}
    IN IF hits = {} THEN NoName ELSE at(CHOOSE n \in hits : \A m \in hits : m <= n)

\* checkLink: the link, or NoName for an error.
CheckLink(files, r, term, link, sc) ==
    CASE link.is = "tmpl" \/ IsKnown(r, link, term, sc.ctx) -> link
      [] term.scoped /\ link.is = "rel" -> SearchScopes(r, link, sc.base, term.up)
      [] OTHER -> IF Len(link.path) = 1 /\ DocOf(link) \in DOMAIN files THEN link ELSE NoName

RECURSIVE WalkLinks(_, _, _, _)
CheckOne(files, r, term, n, sc) ==
    IF n.k = "str" THEN [n EXCEPT !.v = CheckLink(files, r, term, n.v, sc)] ELSE WalkLinks(files, r, n, sc)
CheckField(files, r, term, val, sc) ==
    CASE term.nocheck -> val
      [] term.kind = "plain" \/ term.identity -> WalkLinks(files, r, val, sc)
      [] val.k = "seq" -> [val EXCEPT !.items = [i \in DOMAIN @ |-> CheckOne(files, r, term, @[i], sc)]]
      [] OTHER -> CheckOne(files, r, term, val, sc)
WalkLinks(files, r, n, sc) ==
    LET own   == ExplicitContext(n, sc)
        child == [own EXCEPT !.base = IF Get(n, "id").k = "str" THEN Get(n, "id").v ELSE @]
    IN CASE n.k = "seq" -> [n EXCEPT !.items = [i \in DOMAIN @ |-> WalkLinks(files, r, @[i], sc)]]
         [] n.k = "map" -> [n EXCEPT !.fields = [i \in DOMAIN @ |-> <<@[i][1], CheckField(files, r, TermOf(@[i][1]), @[i][2], child)>>]]
         [] OTHER -> n

\* Strings of a tree, each with its field and the identifier of the object it is
\* in, in the order of the document.
RECURSIVE Strings(_, _, _)
Strings(n, field, base) ==
    LET inside == IF Get(n, "id").k = "str" THEN Get(n, "id").v ELSE base
    IN CASE n.k = "str" -> <<[field |-> field, base |-> base, v |-> n.v]>>
         [] n.k = "seq" -> FoldLeft(LAMBDA all, item : all \o Strings(item, field, base), <<>>, n.items)
         [] n.k = "map" -> FoldLeft(LAMBDA all, f : all \o Strings(f[2], f[1], inside), <<>>, n.fields)
         [] OTHER -> <<>>
AllStrings(n) == Strings(n, "", NoName)
BadLinks(n)   == LET all == AllStrings(n) IN \E i \in DOMAIN all : all[i].v = NoName

\* LoadNode of the document at doc, already parsed, and finish.
LoadNode(files, doc, ctx) ==
    IF doc \notin DOMAIN files THEN [err |-> "fetch", resolved |-> Null, root |-> Null]
    ELSE LET linked(done, root) == [err |-> IF BadLinks(root) THEN "link" ELSE "", resolved |-> done.n, root |-> root]
             finish(done) == IF done.r.err # "" THEN [err |-> done.r.err, resolved |-> done.n, root |-> Null]
                             ELSE linked(done, WalkLinks(files, done.r, done.n, Scope(ctx, doc, "")))
         IN finish(Resolve(files, NewResolver(ctx), Located(files[doc], <<doc>>), Scope(ctx, doc, "")))
=============================================================================
