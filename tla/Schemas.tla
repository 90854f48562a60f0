------------------------------ MODULE Schemas ------------------------------
(***************************************************************************)
(* Schema salad (pkg/salad): the schema of a version of CWL, with the      *)
(* extensions a load brings, is flattened (a record takes over the fields  *)
(* of what it extends), turned into a graph of types, checked (a field     *)
(* declared again must narrow the one inherited), and documents are        *)
(* validated against it.                                                   *)
(*                                                                         *)
(* Names are pairs <<namespace, short name>>, <<"", term>> for a bare one. *)
(* A definition is [kind, name, extends, fields, symbols, specialize,      *)
(* abstract, root]; a type is a name, a union, an array or map "of" one    *)
(* type, or a definition written in place.  Fields and symbols are known   *)
(* by their short names; the terms of the vocabulary that say how fields   *)
(* are resolved are those of CWL (Terms), whatever extensions declare.     *)
(***************************************************************************)
EXTENDS Documents

CONSTANTS
    Declarations,   \* version |-> the definitions of its schema, in order
    Directives,     \* the keys that start with $ or @
    ForeignKeys     \* the keys with a prefix no context expands to a term

Primitives   == {"null", "boolean", "int", "long", "float", "double", "string", "Any"}
Plain(term)   == <<"", term>>
CWL(name)    == <<Namespaces["cwl"], name>>
NoDefinition == Plain("")

TypeNamed(name) == [k |-> "name", name |-> name]
Primitive(term) == TypeNamed(Plain(term))
UnionOf(types)  == [k |-> "union", of |-> types]
ArrayOf(type)   == [k |-> "array", of |-> <<type>>]
Inline(def)     == [k |-> "def", def |-> def]

-----------------------------------------------------------------------------
(* Flattening. *)

\* newFlattener: the last definition of a name, in the place of the first.
RawOf(defs)    == [name \in {defs[i].name : i \in DOMAIN defs} |->
                     defs[CHOOSE i \in DOMAIN defs : defs[i].name = name /\ \A j \in i + 1 .. Len(defs) : defs[j].name # name]]
NamesOf(defs)  == LET named == {i \in DOMAIN defs : \A j \in 1 .. i - 1 : defs[j].name # defs[i].name}
                  IN [i \in 1 .. Cardinality(named) |-> defs[CHOOSE n \in named : Cardinality({m \in named : m <= n}) = i].name]

\* fieldList.put.
PutField(list, field) ==
    IF \E i \in DOMAIN list : list[i].name = field.name
    THEN [i \in DOMAIN list |-> IF list[i].name = field.name THEN field ELSE list[i]]
    ELSE Append(list, field)

\* specialize: the types an inherited field mentions, at any depth.
RECURSIVE Substitute(_, _)
Substitute(spec, type) ==
    CASE type.k = "name" -> IF type.name \in DOMAIN spec THEN TypeNamed(spec[type.name]) ELSE type
      [] type.k = "def"  -> [type EXCEPT !.def.fields = [i \in DOMAIN @ |-> [@[i] EXCEPT !.type = Substitute(spec, @)]]]
      [] OTHER -> [type EXCEPT !.of = [i \in DOMAIN @ |-> Substitute(spec, @[i])]]

Inherited(def, bases) ==
    FoldLeft(LAMBDA list, base : FoldLeft(LAMBDA l, f : PutField(l, [f EXCEPT !.type = Substitute(def.specialize, @)]), list, base.fields),
             <<>>, bases)
\* appendSymbols.
Symbols(def, bases) ==
    FoldLeft(LAMBDA all, s : IF \E i \in DOMAIN all : all[i] = s THEN all ELSE Append(all, s),
             <<>>, FlattenSeq([i \in DOMAIN bases |-> bases[i].symbols]) \o def.symbols)

\* flattener.resolve and expand: "broken" when a base is missing or extends the
\* definition itself.
Broken == [kind |-> "broken"]
RECURSIVE Flat(_, _, _)
Bases(raw, def, on) == [i \in DOMAIN def.extends |-> Flat(raw, def.extends[i], on)]
Expanded(def, bases) ==
    CASE bases = <<>> \/ def.kind \notin {"record", "enum"} -> def
      [] \E i \in DOMAIN bases : bases[i].kind = "broken" -> Broken
      [] def.kind = "record" -> [def EXCEPT !.fields = FoldLeft(PutField, Inherited(def, bases), @)]
      [] OTHER -> [def EXCEPT !.symbols = Symbols(def, bases)]
Flat(raw, name, on) ==
    IF name \in on \/ name \notin DOMAIN raw THEN Broken
    ELSE Expanded(raw[name], Bases(raw, raw[name], on \union {name}))

FieldOf(def, name)  == def.fields[CHOOSE i \in DOMAIN def.fields : def.fields[i].name = name]
HasField(def, name) == \E i \in DOMAIN def.fields : def.fields[i].name = name
\* recordOverride: every field a record declares again.
Overrides(raw) ==
    UNION {LET def == raw[name]
               old == [def EXCEPT !.fields = Inherited(def, Bases(raw, def, {name}))]
           IN {[record |-> name, was |-> FieldOf(old, def.fields[i].name).type, field |-> def.fields[i].name,
                now |-> FieldOf(Flat(raw, name, {}), def.fields[i].name).type] :
                 i \in {j \in DOMAIN def.fields : HasField(old, def.fields[j].name)}}
           : name \in {r \in DOMAIN raw : raw[r].kind = "record" /\ raw[r].extends # <<>>}}

-----------------------------------------------------------------------------
(* The graph of types: b.types is what is registered so far. *)

\* resolveRef: by name, by the term of the vocabulary, by a short name that only
\* one type has.
IsType(b, name) == (name[1] = "" /\ name[2] \in Primitives) \/ name \in DOMAIN b.types
Reference(b, name) ==
    LET term  == IF name[1] = "" /\ name[2] \in DOMAIN b.vocab THEN b.vocab[name[2]] ELSE name
        alike == {n \in DOMAIN b.types : n[2] = name[2]}
    IN CASE IsType(b, name) -> [b |-> b, t |-> TypeNamed(name)]
         [] IsType(b, term) -> [b |-> b, t |-> TypeNamed(term)]
         [] Cardinality(alike) = 1 -> [b |-> b, t |-> TypeNamed(CHOOSE n \in alike : TRUE)]
         [] OTHER -> [b |-> [b EXCEPT !.err = "schema"], t |-> TypeNamed(NoDefinition)]

RECURSIVE BuildType(_, _)
BuildAll(b, types) ==
    LET put(of, x) == [b |-> x.b, of |-> Append(of, x.t)]
    IN FoldLeft(LAMBDA acc, type : IF acc.b.err # "" THEN acc ELSE put(acc.of, BuildType(acc.b, type)), [b |-> b, of |-> <<>>], types)
BuildFields(b, def) ==
    LET typed(all) == [b |-> all.b, def |-> IF all.b.err # "" THEN def ELSE
                         [def EXCEPT !.fields = [i \in DOMAIN @ |-> [@[i] EXCEPT !.type = all.of[i]]]]]
    IN typed(BuildAll(b, [i \in DOMAIN def.fields |-> def.fields[i].type]))
Register(b, def) == IF def.name = NoDefinition THEN b ELSE [b EXCEPT !.types = (def.name :> def) @@ @]
\* fillRecord, of a record already declared.
FillRecord(b, def) ==
    LET put(x) == [b |-> Register(x.b, x.def), t |-> IF def.name = NoDefinition THEN Inline(x.def) ELSE TypeNamed(def.name)]
    IN put(BuildFields(b, def))
BuildType(b, type) ==
    LET rest(all) == [b |-> all.b, t |-> [type EXCEPT !.of = all.of]]
    IN CASE type.k = "name" -> Reference(b, type.name)
         [] type.k # "def"  -> rest(BuildAll(b, type.of))
         [] type.def.name \in DOMAIN b.types -> [b |-> b, t |-> TypeNamed(type.def.name)]
         [] OTHER -> FillRecord(Register(b, type.def), type.def)

DefOf(S, t) == IF t.k = "def" THEN t.def ELSE S.types[t.name]
IsDeclared(t) == t.k = "def" \/ (t.k = "name" /\ t.name[1] # "")
AcceptsNull(t) == t = Primitive("null") \/ (t.k = "union" /\ \E i \in DOMAIN t.of : t.of[i] = Primitive("null"))

-----------------------------------------------------------------------------
(* Subtypes. *)

\* extendsTransitively: what a definition extends, at any remove.
RECURSIVE Ancestors(_, _)
Ancestors(S, names) ==
    LET more == names \union UNION {ToSet(S.types[n].extends) : n \in names \cap DOMAIN S.types}
    IN IF more = names THEN names ELSE Ancestors(S, more)
Extends(S, def, name) == name \in Ancestors(S, ToSet(def.extends))

\* IsSubtype: a pair met again on the way is taken to hold.
RECURSIVE Narrows(_, _, _, _)
FieldsNarrow(S, sub, super, on) ==
    \A i \in DOMAIN super.fields :
        LET field == super.fields[i]
        IN IF HasField(sub, field.name) THEN Narrows(S, FieldOf(sub, field.name).type, field.type, on) ELSE AcceptsNull(field.type)
DeclaredNarrows(S, sub, super, on) ==
    /\ sub.kind = super.kind
    /\ IF super.kind = "enum" THEN ToSet(sub.symbols) \subseteq ToSet(super.symbols)
       ELSE (super.name # NoDefinition /\ Extends(S, sub, super.name)) \/ FieldsNarrow(S, sub, super, on)
Narrows(S, sub, super, on) ==
    LET inner == on \union {<<sub, super>>}
    IN CASE sub = super \/ <<sub, super>> \in on -> TRUE
         [] super = Primitive("Any") -> ~AcceptsNull(sub) /\ ~(sub.k = "union" /\ sub.of = <<>>)
         [] sub.k = "union" -> \A i \in DOMAIN sub.of : Narrows(S, sub.of[i], super, inner)
         [] super.k = "union" -> \E i \in DOMAIN super.of : Narrows(S, sub, super.of[i], inner)
         [] super.k \in {"array", "map"} -> sub.k = super.k /\ Narrows(S, sub.of[1], super.of[1], inner)
         [] OTHER -> IsDeclared(sub) /\ IsDeclared(super) /\ DeclaredNarrows(S, DefOf(S, sub), DefOf(S, super), inner)

\* The enum of a record's own class: declared again, it names the record.
IsEnum(S, t)   == IsDeclared(t) /\ DefOf(S, t).kind = "enum"
IsClass(S, sub, super) == IsEnum(S, sub) /\ IsEnum(S, super) /\ (sub # super \/ DefOf(S, sub).name = NoDefinition)
AnyOverride(S, sub, super, record) == TRUE
OverrideNarrows(S, sub, super, record) ==
    IF IsClass(S, sub, super) THEN record[2] \in ToSet(DefOf(S, sub).symbols) ELSE Narrows(S, sub, super, {})

\* flattenSchema, under a vocabulary: the types, and what was declared again.
NoSchema == [types |-> <<>>, again |-> {}, err |-> "schema"]
Flattened(raw, names, vocab) ==
    LET flat     == [i \in DOMAIN names |-> Flat(raw, names[i], {})]
        typed    == SelectSeq(flat, LAMBDA d : d.kind \in {"record", "enum"})
        declared == [types |-> [n \in {typed[i].name : i \in DOMAIN typed} |-> typed[CHOOSE i \in DOMAIN typed : typed[i].name = n]],
                     vocab |-> vocab, err |-> ""]
        built    == FoldLeft(LAMBDA b, def : IF b.err # "" THEN b ELSE FillRecord(b, def).b, declared, SelectSeq(typed, LAMBDA d : d.kind = "record"))
        again(S) == {[o EXCEPT !.was = BuildType(S, @), !.now = BuildType(S, @)] : o \in Overrides(raw)}
        checked(S, all) ==
            [types |-> S.types, again |-> {[o EXCEPT !.was = @.t, !.now = @.t] : o \in all},
             err |-> IF \A o \in all : o.was.b.err = "" /\ OverrideNarrows(S, o.now.t, o.was.t, o.record) THEN "" ELSE "schema"]
    IN IF (\E i \in DOMAIN flat : flat[i].kind = "broken") \/ built.err # "" THEN NoSchema ELSE checked(built, again(built))

\* MergeSchemas: one extension after the other is merged and flattened, each of
\* them failing the load; the vocabulary of what comes first wins, and the
\* prefixes of what comes last.
VocabOf(names)  == [term \in {n[2] : n \in names} |-> CHOOSE n \in names : n[2] = term]
ContextOf(exts) ==
    FoldLeft(LAMBDA ctx, ext : [vocab |-> ctx.vocab @@ VocabOf(ToSet(NamesOf(ext.defs))), ns |-> ext.ns @@ ctx.ns], Context, exts)
MergedUpTo(version, exts) ==
    LET defs == Declarations[version] \o FlattenSeq([i \in DOMAIN exts |-> exts[i].defs])
    IN Flattened(RawOf(defs), NamesOf(defs), ContextOf(exts).vocab)
Merged(version, exts) ==
    LET failing == {i \in 0 .. Len(exts) : MergedUpTo(version, SubSeq(exts, 1, i)).err # ""}
    IN IF failing # {} THEN NoSchema ELSE MergedUpTo(version, exts)

-----------------------------------------------------------------------------
(* Validation. *)

IsText(n)  == n.k = "str" \/ (n.k = "scalar" /\ n.tag = "string")
TextOf(n)  == IF n.k = "scalar" THEN n.v ELSE Last(IF n.v.frag = <<>> THEN n.v.path ELSE n.v.frag)

\* checkInteger, checkFloating: "long" needs 64 bits, "big" more, "double" is
\* past single precision.
Literals == [boolean |-> {"boolean"}, int |-> {"int"}, long |-> {"int", "long"},
             float |-> {"int", "long", "big", "float"}, double |-> {"int", "long", "big", "float", "double"}]
PrimitiveAdmits(term, n) ==
    CASE term = "null"   -> n.k = "null"
      [] term = "Any"    -> n.k # "null"
      [] term = "string" -> IsText(n)
      [] OTHER -> n.k = "scalar" /\ n.tag \in Literals[term]

IsTemplate(n) == n.k = "str" /\ n.v.is = "tmpl"
EnumAdmits(def, n) ==
    /\ IsText(n)
    /\ IF IsTemplate(n) THEN def.name[2] = "Expression" ELSE TextOf(n) \in ToSet(def.symbols)

\* concreteSubtypes: below an abstract record, by the short name of the base; a
\* concrete one is not looked below.
Children(S, names) == {n \in DOMAIN S.types : /\ S.types[n].kind = "record"
                                              /\ \E b \in ToSet(S.types[n].extends) : \E m \in names : b[2] = m[2]}
RECURSIVE Abstract(_, _)
Abstract(S, names) == LET more == names \union {n \in Children(S, names) : S.types[n].abstract}
                      IN IF more = names THEN names ELSE Abstract(S, more)
ConcreteSubtypes(S, name) == {n \in Children(S, Abstract(S, {name})) : ~S.types[n].abstract}

\* checkLink: the strings of a link are absolute once they are resolved.
LinkAdmits(field, n, how) ==
    LET all  == IF n.k = "seq" THEN ToSet(n.items) ELSE {n}
        term == TermOf(field)
    IN (how.strict /\ term.kind = "link" /\ ~term.identity /\ ~term.nocheck) =>
         \A x \in {y \in all : IsText(y)} : x.k = "str" /\ x.v.is \in {"abs", "pre"}
\* checkUnknownFields.
KeyAdmitted(def, key, how) ==
    key \in Directives \/ HasField(def, key) \/ IF key \in ForeignKeys THEN ~how.foreign ELSE ~how.strict

RECURSIVE Valid(_, _, _, _)
RecordAdmits(S, def, n, how) ==
    /\ n.k = "map"
    /\ \A i \in DOMAIN def.fields :
         LET field == def.fields[i]
         IN IF Has(n, field.name) THEN Valid(S, field.type, Get(n, field.name), how) /\ LinkAdmits(field.name, Get(n, field.name), how)
            ELSE AcceptsNull(field.type)
    /\ \A key \in Keys(n) : KeyAdmitted(def, key, how)
DeclaredAdmits(S, def, n, how) ==
    CASE def.kind = "enum" -> EnumAdmits(def, n)
      [] def.abstract -> \E sub \in ConcreteSubtypes(S, def.name) : RecordAdmits(S, S.types[sub], n, how)
      [] OTHER -> RecordAdmits(S, def, n, how)
Valid(S, t, n, how) ==
    CASE t.k = "array" -> n.k = "seq" /\ \A i \in DOMAIN n.items : Valid(S, t.of[1], n.items[i], how)
      [] t.k = "map"   -> n.k = "map" /\ \A i \in DOMAIN n.fields : Valid(S, t.of[1], n.fields[i][2], how)
      [] t.k = "union" -> IF n.k = "null" THEN AcceptsNull(t) ELSE \E i \in DOMAIN t.of : t.of[i] # Primitive("null") /\ Valid(S, t.of[i], n, how)
      [] IsDeclared(t) -> DeclaredAdmits(S, DefOf(S, t), n, how)
      [] OTHER -> PrimitiveAdmits(t.name[2], n)

\* Validate: a document, or each of the documents of a sequence, is of a type
\* that may be a document.
ValidDocument(S, root, how) ==
    LET roots == {n \in DOMAIN S.types : S.types[n].kind = "record" /\ S.types[n].root}
    IN /\ root.k \in {"map", "seq"} /\ roots # {}
       /\ \A n \in IF root.k = "seq" THEN ToSet(root.items) ELSE {root} : \E name \in roots : Valid(S, TypeNamed(name), n, how)
=============================================================================
