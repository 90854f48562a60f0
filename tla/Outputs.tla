------------------------------ MODULE Outputs ------------------------------
(***************************************************************************)
(* What a finished tool leaves becomes the outputs of its step: globbing   *)
(* (clt_glob.go), outputEval and typing (clt_output.go,                    *)
(* clt_output_value.go), records (clt_output_record.go), secondary files   *)
(* (clt_secondary.go), and cwl.output.json in place of all of them         *)
(* (clt_outputjson.go), on the file system Staging left.  Ports are        *)
(* collected one after the other, and each may move files before the next  *)
(* looks for its own.                                                      *)
(*                                                                         *)
(* A value is the sequence of the files in it.  A pattern is a directory   *)
(* and the names it admits there; the order in which matches are found is  *)
(* left open.  outputEval is one of a few programs over self.              *)
(***************************************************************************)
EXTENDS Staging

CONSTANTS TooLarge   \* what no loadContents admits

VARIABLES
    outputs,   \* the values of the ports collected so far
    roots,     \* outputCollector.roots, as long as there is a collector
    clash      \* what moves took from others or wrote over; nothing depends on it

vars == <<stageVars, outputs, roots, clash>>

-----------------------------------------------------------------------------
(* The collector. *)

\* hostInputs: the inputs as told, but where they are on the host: hostView takes the
\* first placement of a target.
RECURSIVE OnHost(_, _, _)
OnHost(c, p, v) ==
    LET first == {i \in DOMAIN p : p[i].target = v.path}
        m     == p[CHOOSE i \in first : \A j \in first : i <= j]
    IN IF ~c.contained \/ v.path = Nowhere THEN v
       ELSE IF first = {} THEN v
       ELSE Relocated(v, IF m.action = "link" THEN m.source ELSE m.host)
HostInputs(c, p, t) == [i \in DOMAIN t |-> OnHost(c, p, t[i])]

\* outAllowedRoots: every path of the inputs and of the files the listing names, as it is
\* written and with its links resolved.
Roots(c, p, t, tr) ==
    LET named == UNION {{v.path : v \in WithKids(HostInputs(c, p, t)[i])} : i \in DOMAIN t}
                 \union UNION {{Normalized(c.listing[i].objects[j]).path : j \in DOMAIN c.listing[i].objects} :
                                 i \in {k \in DOMAIN c.listing : c.listing[k].static}}
        given == named \ {Nowhere}
    IN given \union {Real(tr, r) : r \in given}

InAny(rs, p) == \E r \in rs : IsPrefix(r, p)

Error      == [ok |-> FALSE, value |-> <<>>]
Value(s)   == [ok |-> TRUE, value |-> s]
Both(r, s) == IF r.ok /\ s.ok THEN Value(r.value \o s.value) ELSE Error

NewFile(t, p) ==
    [class |-> "File", id |-> "", path |-> p, uri |-> Nowhere, remote |-> Nowhere, basename |-> Last(p),
     contents |-> "", literal |-> FALSE, kids |-> <<>>, listed |-> FALSE, checksum |-> Bytes(t, p)]
NewDirectory(p) ==
    [class |-> "Directory", id |-> "", path |-> p, uri |-> Nowhere, remote |-> Nowhere, basename |-> Last(p),
     contents |-> "", literal |-> FALSE, kids |-> <<>>, listed |-> FALSE, checksum |-> ""]

\* outListDirectory and outListingEntry.  walked holds the directories above, links
\* resolved: one that leads back to them is not read again.  A link that leads nowhere is
\* an error.
RECURSIVE Listed(_, _, _, _)
Listed(t, p, deep, walked) ==
    LET entry(q) ==
          IF ~Exists(t, q) THEN Error
          ELSE IF IsFile(t, q) THEN Value(<<NewFile(t, q)>>)
          ELSE IF ~deep \/ Real(t, q) \in walked THEN Value(<<NewDirectory(q)>>)
          ELSE Listed(t, q, deep, walked \union {Real(t, q)})
        kids == FoldLeft(LAMBDA r, q : Both(r, entry(q)), Value(<<>>), Sequenced(Entries(t, p)))
    IN IF kids.ok THEN Value(<<[NewDirectory(p) EXCEPT !.listed = TRUE, !.kids = kids.value]>>) ELSE Error

\* outCollectPath.
CollectPath(t, port, p) ==
    IF ~Exists(t, p) THEN Error
    ELSE IF IsDir(t, p)
         THEN CASE port.listing = "none"    -> Value(<<NewDirectory(p)>>)
                [] port.listing = "shallow" -> Listed(t, p, FALSE, {})
                [] port.listing = "deep"    -> Listed(t, p, TRUE, {Real(t, p)})
    ELSE IF port.contents /\ Bytes(t, p) \in TooLarge THEN Error
    ELSE Value(<<IF port.contents THEN [NewFile(t, p) EXCEPT !.literal = TRUE, !.contents = Bytes(t, p)]
                 ELSE NewFile(t, p)>>)

\* checkRetrievable: where a match really is.
Retrievable(t, rs, p) ==
    Exists(t, p) /\ (IsPrefix(Outdir, Real(t, p)) \/ InAny(rs, p) \/ InAny(rs, Real(t, p)))

\* globOne with resolveGlob and globMatches.
GlobOne(t, rs, port, pattern) ==
    LET dir == IF pattern.abs THEN pattern.dir ELSE Outdir \o pattern.dir
        matches == Sequenced({p \in Entries(t, dir) : pattern.any \/ Last(p) \in pattern.names})
    IN IF ~IsPrefix(Outdir, dir) \/ Up \in {dir[i] : i \in DOMAIN dir} THEN Error
       ELSE FoldLeft(LAMBDA r, p : Both(r, IF Retrievable(t, rs, p) THEN CollectPath(t, port, p) ELSE Error),
                     Value(<<>>), matches)

\* globValues.
Globbed(t, rs, port) ==
    FoldLeft(LAMBDA r, pattern : Both(r, GlobOne(t, rs, port, pattern)), Value(<<>>), port.patterns)

\* retypeFile with deriveRef and outRemeasure: what an expression or the tool writes down
\* becomes a value; a file of the output directory that has no checksum is measured.
RECURSIVE Retyped(_, _)
Retyped(t, v) ==
    [v EXCEPT !.id = "", !.uri = Nowhere,
              !.path = IF v.path # Nowhere THEN v.path ELSE v.uri,
              !.basename = IF v.basename # NoName THEN v.basename
                           ELSE IF v.path # Nowhere THEN Last(v.path)
                           ELSE IF v.uri # Nowhere THEN Last(v.uri) ELSE NoName,
              !.checksum = LET p == IF v.path # Nowhere THEN v.path ELSE v.uri
                           IN IF v.class # "File" \/ @ # "" THEN @
                              ELSE IF p = Nowhere THEN v.contents
                              ELSE IF IsPrefix(Outdir, p) /\ IsFile(t, p) THEN Bytes(t, p) ELSE "",
              !.kids = [i \in DOMAIN v.kids |-> Retyped(t, v.kids[i])]]

\* evalOutput.
Evaluated(t, inputs, port, self) ==
    CASE port.eval.op = "none"    -> Value(self)
      [] port.eval.op = "error"   -> Error
      [] port.eval.op = "rename"  ->    \* self with another basename
           Value([i \in DOMAIN self |-> Retyped(t, [self[i] EXCEPT !.basename = port.eval.name])])
      [] port.eval.op = "input"   ->    \* an input, under that name
           Value(<<Retyped(t, [inputs[port.eval.index] EXCEPT !.basename = port.eval.name])>>)

\* outReduceValue, and the type check of publish: how many, and of what class.
Reduced(port, found) ==
    IF \/ port.arity # "many" /\ Len(found) > 1
       \/ port.arity = "one" /\ Len(found) = 0
       \/ \E i \in DOMAIN found : found[i].class # port.class
    THEN Error ELSE Value(found)

\* outSubstitutePattern: a caret takes an extension off, while there is one.
RECURSIVE Substituted(_, _)
Substituted(name, pattern) ==
    IF pattern.carets = 0 \/ Len(name) = 1 THEN name \o pattern.suffix
    ELSE Substituted(Front(name), [pattern EXCEPT !.carets = @ - 1])

\* appendSecondary: looked for below the output directory only (a literal has none here).
Companion(t, primary, pattern) ==
    LET p == Append(Front(primary.path), Substituted(primary.basename, pattern))
    IN IF primary.path # Nowhere /\ IsPrefix(Outdir, p) /\ Exists(t, p)
       THEN Value(<<IF IsDir(t, p) THEN NewDirectory(p) ELSE NewFile(t, p)>>)
       ELSE IF pattern.required THEN Error ELSE Value(<<>>)

\* attachSecondaryFiles.
WithCompanions(t, port, found) ==
    LET kids(v) == IF v.class # "File" THEN Value(v.kids)
                   ELSE FoldLeft(LAMBDA r, pattern : Both(r, Companion(t, v, pattern)),
                                 Value(v.kids), port.secondary)
    IN IF \E i \in DOMAIN found : ~kids(found[i]).ok THEN Error
       ELSE Value([i \in DOMAIN found |-> [found[i] EXCEPT !.kids = kids(found[i]).value]])

-----------------------------------------------------------------------------
(* relocate: a value whose basename is not that of its path is moved. *)

\* outRebaseEntries.
RECURSIVE Rebased(_, _, _)
Rebased(v, from, to) ==
    [v EXCEPT !.path = IF @ # Nowhere /\ IsPrefix(from, @) THEN Below(from, to, @) ELSE @,
              !.kids = [i \in DOMAIN v.kids |-> Rebased(v.kids[i], from, to)]]

\* Mutant: the listing of a moved directory keeps its paths.
MovedStale(v, to) == [v EXCEPT !.path = to]

\* relocateFile and relocateDirectory, after the move.
Moved(v, to) ==
    IF v.class = "File" THEN [v EXCEPT !.path = to]
    ELSE [v EXCEPT !.path = to, !.kids = [i \in DOMAIN v.kids |-> Rebased(v.kids[i], v.path, to)]]

Misnamed(v) == v.path # Nowhere /\ v.basename # NoName /\ Last(v.path) # v.basename

\* moveTo: renamed where it is below the output directory, copied into it otherwise.
MoveTo(t, v) ==
    IF IsPrefix(Outdir, v.path)
    THEN Rename(t, v.path, Append(Front(v.path), v.basename))
    ELSE CopyTree(t, v.path, Append(Outdir, v.basename))
Destination(v) == IF IsPrefix(Outdir, v.path) THEN Append(Front(v.path), v.basename)
                  ELSE Append(Outdir, v.basename)

PathsOf(values) == UNION {{w.path : w \in WithKids(values[i])} : i \in DOMAIN values}

\* What moving v wrote over (through a link, or where another value is or the output
\* directory is not), and what it took from another value or from outside.
Struck(t, v, others) ==
    LET from  == EntryOf(t, v.path)
        to    == EntryOf(t, Destination(v))
        of(p) == \/ ~IsPrefix(Outdir, p)
                 \/ \E q \in others : IsPrefix(p, q) \/ IsPrefix(p, Real(t, q))
    IN {p \in {to} \intersect DOMAIN t : t[p].kind = "link" \/ of(p)}
       \union IF IsPrefix(Outdir, v.path) THEN {p \in {from} : of(p)}
              ELSE {Real(t, to)} \ {to}

\* relocate: the value, then what is in it.  s carries the tree, the value, and what the
\* moves struck.
RECURSIVE Relocate(_, _, _)
Relocate(s, v, others) ==
    LET after(move) == [tree |-> move.tree, v |-> Moved(v, Destination(v)), ok |-> move.ok,
                        clash |-> s.clash \union Struck(s.tree, v, others \union
                                                       IF v.class = "File" THEN PathsOf(v.kids) ELSE {})]
        put(r, i, k) == [k EXCEPT !.v = [r.v EXCEPT !.kids[i] = k.v]]
        beside(w, i) == PathsOf(<<[w EXCEPT !.kids = [j \in DOMAIN w.kids \ {i} |-> w.kids[j]]]>>)
        inside(moved) ==
            FoldLeft(LAMBDA r, i : IF ~r.ok THEN r
                                   ELSE put(r, i, Relocate(r, r.v.kids[i], others \union beside(r.v, i))),
                     moved, [i \in DOMAIN moved.v.kids |-> i])
    IN inside(IF Misnamed(v) THEN after(MoveTo(s.tree, v)) ELSE [s EXCEPT !.v = v])

RelocateAll(t, found, earlier) ==
    LET others(s, i) == earlier \union PathsOf(s.v) \union PathsOf(SubSeq(found, i + 1, Len(found)))
        put(s, r)    == [r EXCEPT !.v = Append(s.v, r.v)]
    IN FoldLeft(LAMBDA s, i : IF ~s.ok THEN s ELSE put(s, Relocate(s, found[i], others(s, i))),
             [tree |-> t, ok |-> TRUE, clash |-> {}, v |-> <<>>], [i \in DOMAIN found |-> i])

\* outFillListings: every Directory gets a listing, those further in as well; one that
\* cannot be read has none.
RECURSIVE Filled(_, _)
Filled(t, v) ==
    IF v.class = "Directory" /\ ~v.listed
    THEN LET read == IF IsPrefix(Outdir, v.path) /\ IsDir(t, v.path)
                     THEN Listed(t, v.path, TRUE, {Real(t, v.path)}) ELSE Error
         IN IF read.ok THEN [v EXCEPT !.kids = read.value[1].kids, !.listed = TRUE] ELSE v
    ELSE [v EXCEPT !.kids = [i \in DOMAIN v.kids |-> Filled(t, v.kids[i])]]

-----------------------------------------------------------------------------
(* One port. *)

\* recordField: a field that has no binding is null, if it may be.
Unbound(port) == IF port.arity = "optional" \/ ~port.field THEN Value(<<>>) ELSE Error

\* bound: what a binding finds.
Bound(t, rs, inputs, port) ==
    LET evaluated(r) == IF r.ok THEN Evaluated(t, inputs, port, r.value) ELSE Error
        reduced(r)   == IF r.ok THEN Reduced(port, r.value) ELSE Error
        completed(r) == IF r.ok THEN WithCompanions(t, port, r.value) ELSE Error
    IN IF ~port.bound THEN Unbound(port)
       ELSE completed(reduced(evaluated(Globbed(t, rs, port))))

\* revmapObject: the tool's names for its directories, mapped back.
RECURSIVE Revmapped(_, _)
Revmapped(c, v) ==
    LET back(p) == IF p = Nowhere \/ ~c.contained \/ OutsideOf(c, p) THEN p ELSE HostPath(c, p)
    IN [v EXCEPT !.path = back(@), !.uri = back(@), !.kids = [i \in DOMAIN v.kids |-> Revmapped(c, v.kids[i])]]

\* bindOutputJSON up to checkPublishable, for what the tool wrote about a port.
Written(c, t, rs, port) ==
    LET retyped == [i \in DOMAIN port.written |-> Retyped(t, Revmapped(c, port.written[i]))]
    IN IF \A p \in PathsOf(retyped) : p = Nowhere \/ IsPrefix(Outdir, p) \/ InAny(rs, p)
       THEN Value(retyped) ELSE Error

\* CollectOutputs or LoadOutputJSON: the next port, field or written value.  The fields of
\* a value the tool wrote as an object are relocated in any order (relocateFields).
CollectNext ==
    /\ pc = "collect" /\ at < Len(case.ports)
    /\ LET port   == case.ports[at + 1]
           orders(found) == IF case.json /\ port.object
                            THEN {found.value, Reverse(found.value)} ELSE {found.value}
       IN \E found \in {IF case.json THEN Written(case, tree, roots, port)
                        ELSE Bound(tree, roots, HostInputs(case, plan, told), port)} :
          \E order \in orders(found) :
          \E r \in {RelocateAll(tree, order, UNION {PathsOf(outputs[i]) : i \in DOMAIN outputs})} :
               IF found.ok /\ r.ok
               THEN /\ tree' = r.tree
                    /\ outputs' = Append(outputs, IF case.json THEN [i \in DOMAIN r.v |-> Filled(r.tree, r.v[i])]
                                                  ELSE r.v)
                    /\ clash' = clash \union r.clash
                    /\ UNCHANGED pc
               ELSE /\ pc' = "failed"
                    /\ UNCHANGED <<tree, outputs, clash>>
    /\ at' = at + 1
    /\ UNCHANGED <<case, plan, told, restarts, roots>>

Succeed ==
    /\ pc = "collect" /\ at = Len(case.ports)
    /\ pc' = "done"
    /\ UNCHANGED <<case, tree, plan, at, told, restarts, outputs, roots, clash>>

\* newOutputCollector: what it may publish is settled before it publishes anything.
Collector == roots' = IF pc' = "collect" THEN Roots(case', plan', told', tree') ELSE {}

Init == StageInit /\ outputs = <<>> /\ roots = {} /\ clash = {}
Next == \/ StageNext /\ Collector /\ outputs' = <<>> /\ UNCHANGED clash
        \/ CollectNext \/ Succeed
Spec == Init /\ [][Next]_vars

-----------------------------------------------------------------------------
(* Properties. *)

\* A collected value, with what is in it, is where it says it is, is what it says it is,
\* and has the name it says it has.
Stands(v) ==
    v.path # Nowhere =>
        /\ v.basename = Last(v.path)
        /\ IF v.class = "File" THEN IsFile(tree, v.path) /\ v.checksum \in {"", Bytes(tree, v.path)}
           ELSE IsDir(tree, v.path)

\* Moving another value took or overwrote what is at p.
Disturbed(p) == \E q \in clash : IsPrefix(q, p) \/ IsPrefix(q, Real(tree, p))

\* When an invocation succeeds, every File and Directory in its outputs stands, below the
\* output directory or among the inputs, whatever collecting the other ports has moved
\* since, unless moving another took or overwrote that very one (H28); and what was staged
\* is there again behind its link.
OutputsStand ==
    pc = "done" =>
        /\ \A i \in DOMAIN outputs : \A j \in DOMAIN outputs[i] :
             \A v \in WithKids(outputs[i][j]) :
               /\ Stands(v) \/ Disturbed(v.path)
               /\ v.path = Nowhere \/ IsPrefix(Outdir, v.path) \/ InAny(roots, v.path)
        /\ Apart =>
             \A m \in Placements : m.action = "link" /\ m.host # Nowhere /\ m.host \in DOMAIN tree =>
                                     HoldsTree(tree, m.host, m.source) \/ Disturbed(m.host)

\* Staging and the tool leave what the run was given as it was, but for what
\* InplaceUpdateRequirement hands over: never through a link that an earlier attempt left
\* in the way.  So does the collection of outputs, except that renaming one writes through
\* a staged link of its new name, or in a staged directory, which moveTo does not look for.
SourcesUntouched ==
    Apart => \A q \in DOMAIN case.disk :
        \/ q \in DOMAIN tree /\ tree[q] = case.disk[q]
        \/ case.inplace
        \/ \E p \in clash : IsPrefix(p, q)
=============================================================================
