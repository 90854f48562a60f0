---------------------------- MODULE CommandLine ----------------------------
(***************************************************************************)
(* The command line of a tool from its inputs: the bindings are collected  *)
(* with their sort keys (clt_binding.go, clt_sort.go), sorted, and         *)
(* rendered (clt_cmdline.go, clt_render.go).  An argument is a prefix, the *)
(* values that follow it in the same word, and where it comes from.        *)
(***************************************************************************)
EXTENDS JobOrder

-----------------------------------------------------------------------------
(* Sort keys. *)

Num(n)  == [text |-> FALSE, n |-> n]
Text(n) == [text |-> TRUE,  n |-> n]
ElemBefore(a, b) == (~a.text /\ b.text) \/ (a.text = b.text /\ a.n < b.n)

\* Mutant: a key that another continues is sorted behind it.
KeyBeforeLonger(a, b) ==
    LET n == IF Len(a) < Len(b) THEN Len(a) ELSE Len(b)
        differ == {i \in 1..n : a[i] # b[i]}
    IN IF differ = {} THEN Len(a) > Len(b)
       ELSE ElemBefore(a[First(differ, LAMBDA i : TRUE)], b[First(differ, LAMBDA i : TRUE)])

\* compareKeys: the first element that differs decides, else the shorter key comes first.
KeyBefore(a, b) ==
    LET n == IF Len(a) < Len(b) THEN Len(a) ELSE Len(b)
        differ == {i \in 1..n : a[i] # b[i]}
    IN IF differ = {} THEN Len(a) < Len(b)
       ELSE ElemBefore(a[First(differ, LAMBDA i : TRUE)], b[First(differ, LAMBDA i : TRUE)])

\* SortStableFunc: each after all it does not come before.
Insert(s, x) ==
    LET after == {i \in DOMAIN s : KeyBefore(x.key, s[i].key)}
        at    == IF after = {} THEN Len(s) + 1 ELSE First(after, LAMBDA i : TRUE)
    IN SubSeq(s, 1, at - 1) \o <<x>> \o SubSeq(s, at, Len(s))
SortedByKey(s) == FoldLeft(Insert, <<>>, s)

-----------------------------------------------------------------------------
(* Collection. *)

NoBinding    == [bound |-> FALSE, prefix |-> "", joined |-> FALSE, separate |-> "unset", position |-> "0",
                 at |-> 0, valueFrom |-> "none", shell |-> TRUE]
EmptyBinding == [NoBinding EXCEPT !.bound = TRUE]

\* position: a number, or what an expression over self comes to.
Position(b) ==
    CASE b.position = "error" -> [ok |-> FALSE, n |-> 0]
      [] b.position = "null"  -> [ok |-> TRUE, n |-> 0]
      [] OTHER                -> [ok |-> TRUE, n |-> b.at]

\* valueFrom, over self and the inputs.
Evaluated(b, self) ==
    CASE b.valueFrom = "error" -> Bad
      [] b.valueFrom = "null"  -> Good(Nothing)
      [] b.valueFrom = "self"  -> Good(self)
      [] b.valueFrom = "twice" -> Good(List(<<self, self>>))
      [] b.valueFrom = "text"  -> Good(Scalar("str", "text"))

Leaf(key, b, v, computed) == [key |-> key, b |-> b, v |-> v, computed |-> computed]
Leaves(s)  == [ok |-> TRUE, s |-> s]
NoLeaves   == [ok |-> FALSE, s |-> <<>>]
Joined(rs) == IF \A i \in DOMAIN rs : rs[i].ok THEN Leaves(FlattenSeq([i \in DOMAIN rs |-> rs[i].s])) ELSE NoLeaves

\* acceptsValue: a record by its fields, an enum by its symbols, others by their shape.
Accepts(o, v) ==
    CASE o.k = "array"  -> v.t = "list"
      [] o.k = "enum"   -> v.t = "str" /\ v.v \in o.symbols
      [] o.k = "record" ->
           LET names == {o.fields[i].name : i \in DOMAIN o.fields}
               at(f) == IF f.name \in DOMAIN v.fields THEN v.fields[f.name] ELSE Nothing
               enums(t) == {e \in (IF t.k = "union" THEN ToSet(t.options) ELSE {t}) : e.k = "enum"}
           IN /\ v.t = "object" /\ DOMAIN v.fields \subseteq names
              /\ \A i \in DOMAIN o.fields :
                   LET f == o.fields[i]
                   IN CASE at(f).t = "null" -> IsOptional(f.typ)
                        [] at(f).t = "str"  -> enums(f.typ) = {} \/ \E e \in enums(f.typ) : at(f).v \in e.symbols
                        [] OTHER            -> TRUE
      [] OTHER -> FALSE
Describes(o, v) == \/ o.k = "array" /\ v.t = "list"
                   \/ o.k = "record" /\ v.t = "object"
                   \/ o.k = "enum" /\ v.t = "str"

Untyped == [k |-> "named", name |-> "", items |-> <<>>, fields |-> <<>>, symbols |-> {}, options |-> <<>>, binding |-> NoBinding]

\* bindingType: the option of a union that a value is taken to be of.
BindingType(t, v) ==
    LET accept   == {i \in DOMAIN t.options : Accepts(t.options[i], v)}
        describe == {i \in DOMAIN t.options : Describes(t.options[i], v)}
    IN CASE t.k # "union" -> t
         [] t.k = "union" /\ accept # {} -> t.options[First(accept, LAMBDA i : TRUE)]
         [] t.k = "union" /\ accept = {} /\ describe # {} -> t.options[First(describe, LAMBDA i : TRUE)]
         [] OTHER -> Untyped

\* bindInput, bindNested, bindArray, bindRecord, bindEnum, schemaLevel.
RECURSIVE BindInput(_, _, _, _, _)
BindInput(t, b, v, key, tie) ==
    LET pos    == Position(b)
        here   == IF b.bound THEN key \o <<Num(pos.n), tie>> ELSE key
        own    == IF b.bound THEN <<Leaf(here, b, v, FALSE)>> ELSE <<>>
        of     == BindingType(t, v)
        item   == IF of.binding.bound THEN of.binding
                  ELSE IF ~b.bound \/ b.joined THEN NoBinding ELSE EmptyBinding
        schema == IF of.binding.bound THEN here \o <<Num(Position(of.binding).n), tie>> ELSE here
        level  == IF ~of.binding.bound THEN Leaves(<<>>)
                  ELSE IF Position(of.binding).ok THEN Leaves(<<Leaf(schema, of.binding, v, FALSE)>>) ELSE NoLeaves
        nested ==
          CASE of.k = "array" /\ v.t = "list" /\ item.bound ->
                 Joined([i \in DOMAIN v.items |-> BindInput(of.items[1], item, v.items[i], here, Num(i - 1))])
            [] of.k = "record" /\ v.t = "object" ->
                 Joined(<<level>> \o [i \in DOMAIN of.fields |->
                     LET f == of.fields[i]
                     IN BindInput(f.typ, f.binding, IF f.name \in DOMAIN v.fields THEN v.fields[f.name] ELSE Nothing,
                                  schema, Text(f.name))])
            [] of.k = "enum" -> level
            [] OTHER -> Leaves(<<>>)
    IN IF v.t = "null" THEN Leaves(<<>>)
       ELSE IF b.bound /\ ~pos.ok THEN NoLeaves
       ELSE IF b.bound /\ b.valueFrom # "none"
       THEN IF Evaluated(b, v).ok THEN Leaves(<<Leaf(here, b, Evaluated(b, v).v, TRUE)>>) ELSE NoLeaves
       ELSE Joined(<<Leaves(own), nested>>)

\* bindArgument.
BindArgument(b, i) ==
    IF b.valueFrom = "none" \/ ~Position(b).ok \/ ~Evaluated(b, Nothing).ok THEN NoLeaves
    ELSE Leaves(<<Leaf(<<Num(Position(b).n), Num(i - 1)>>, b, Evaluated(b, Nothing).v, TRUE)>>)

\* collect: inputs, then arguments.
Collect(c, object) ==
    LET decls == c.proc.inputs
    IN Joined([i \in DOMAIN decls |->
                 BindInput(ResolveTypeRef(c, decls[i].typ), decls[i].binding, object[decls[i].name], <<>>, Text(decls[i].name))]
              \o [i \in DOMAIN c.proc.arguments |-> BindArgument(c.proc.arguments[i], i)])

-----------------------------------------------------------------------------
(* Rendering. *)

Word(prefix, values, b) == [prefix |-> prefix, values |-> values, quote |-> b.shell]
PrefixOnly(b)           == IF b.prefix = "" THEN <<>> ELSE <<Word(b.prefix, <<>>, b)>>
EmitValue(b, values) ==
    CASE b.prefix = ""                         -> <<Word("", values, b)>>
      [] b.prefix # "" /\ b.separate # "no"    -> <<Word(b.prefix, <<>>, b), Word("", values, b)>>
      [] b.prefix # "" /\ b.separate = "no"    -> <<Word(b.prefix, values, b)>>

\* argText: a File or Directory that has a path, a string, a boolean, a number.
HasText(v) == v.t \in {"str", "bool", "num"} \/ (IsPlaced(v) /\ v.path # Nowhere)

\* renderArg: renderList, renderComputedList, renderScalar, renderTrue.
Render(l) ==
    LET b == l.b
        texts == IF \A i \in DOMAIN l.v.items : HasText(l.v.items[i])
                 THEN Leaves([i \in DOMAIN l.v.items |-> Word("", <<l.v.items[i]>>, b)]) ELSE NoLeaves
    IN IF b.prefix = "" /\ b.separate = "no" THEN NoLeaves
       ELSE CASE l.v.t = "list" ->
                   IF l.v.items = <<>> THEN Leaves(<<>>)
                   ELSE IF b.joined THEN (IF texts.ok THEN Leaves(EmitValue(b, l.v.items)) ELSE NoLeaves)
                   ELSE IF l.computed THEN Joined(<<Leaves(PrefixOnly(b)), texts>>)
                   ELSE Leaves(PrefixOnly(b))
              [] l.v.t = "null"   -> Leaves(<<>>)
              [] l.v.t = "bool"   -> Leaves(IF l.v.v = "true" THEN PrefixOnly(b) ELSE <<>>)
              [] l.v.t = "object" -> Leaves(PrefixOnly(b))
              [] OTHER -> IF HasText(l.v) THEN Leaves(EmitValue(b, <<l.v>>)) ELSE NoLeaves

\* assemble.
Assembled(c, leaves) ==
    LET sorted == SortedByKey(leaves)
    IN Joined(<<Leaves([i \in DOMAIN c.proc.base |-> Word(c.proc.base[i], <<>>, EmptyBinding)])>>
              \o [i \in DOMAIN sorted |-> Render(sorted[i])])

-----------------------------------------------------------------------------

\* BuildCommandLine.
Build ==
    /\ pc = "build"
    /\ LET leaves == Collect(case, inputs)
           words  == IF leaves.ok THEN Assembled(case, leaves.s) ELSE NoLeaves
       IN /\ pc' = IF words.ok THEN "ready" ELSE "rejected"
          /\ argv' = words.s
    /\ UNCHANGED <<case, inputs, next>>

Next == JobNext \/ Build
Spec == Init /\ [][Next]_vars

-----------------------------------------------------------------------------
(* The command line by its definition: level by level. *)

\* A level: its own words, then those of what is in it, in order of position and then of
\* name or index; a record without a binding stands for its fields.
Child(pos, tie, words) == [key |-> <<Num(pos), tie>>, words |-> words]
WordsOf(children) == FlattenSeq([i \in DOMAIN children |-> children[i].words])
InOrder(children) == WordsOf(SortedByKey(children))

RECURSIVE Level(_, _, _, _)
Level(t, b, v, tie) ==
    LET of    == BindingType(t, v)
        mine  == Render(Leaf(<<>>, b, IF b.valueFrom = "none" THEN v ELSE Evaluated(b, v).v, b.valueFrom # "none")).s
        item  == IF of.binding.bound THEN of.binding ELSE IF ~b.bound \/ b.joined THEN NoBinding ELSE EmptyBinding
        below ==
          CASE v.t = "list" /\ of.k = "array" /\ item.bound ->
                 FlattenSeq([i \in DOMAIN v.items |-> Level(of.items[1], item, v.items[i], Num(i - 1))])
            [] v.t = "object" /\ of.k = "record" ->
                 FlattenSeq([i \in DOMAIN of.fields |->
                     Level(of.fields[i].typ, of.fields[i].binding, v.fields[of.fields[i].name], Text(of.fields[i].name))])
            [] OTHER -> <<>>
        schema == of.binding.bound /\ ((of.k = "record" /\ v.t = "object") \/ of.k = "enum")
        inner == IF schema THEN <<Child(of.binding.at, tie, Render(Leaf(<<>>, of.binding, v, FALSE)).s \o InOrder(below))>>
                 ELSE below
    IN IF v.t = "null" THEN <<>>
       ELSE IF b.bound /\ b.valueFrom # "none" THEN <<Child(Position(b).n, tie, mine)>>
       ELSE IF b.bound THEN <<Child(Position(b).n, tie, mine \o InOrder(inner))>>
       ELSE inner

\* The words of a command line are those of the levels of its inputs, in order and each
\* level unbroken, whatever the shapes of the keys the leaves were sorted by.
LevelsUnbroken ==
    pc = "ready" =>
        LET decls == case.proc.inputs
            children == FlattenSeq([i \in DOMAIN decls |->
                            Level(ResolveTypeRef(case, decls[i].typ), decls[i].binding, inputs[decls[i].name], Text(decls[i].name))]
                          \o [i \in DOMAIN case.proc.arguments |->
                                LET b == case.proc.arguments[i]
                                IN <<Child(Position(b).n, Num(i - 1), Render(Leaf(<<>>, b, Evaluated(b, Nothing).v, TRUE)).s)>>])
        IN argv = [i \in DOMAIN case.proc.base |-> Word(case.proc.base[i], <<>>, EmptyBinding)] \o InOrder(children)
=============================================================================
