----------------------------- MODULE ValueWalks -----------------------------
(***************************************************************************)
(* What the code does to a value down to its last part: the types of       *)
(* workflow outputs (outputtype.go), the paths of files (pathmap.go) and   *)
(* the companions an input requires (inputs_secondary.go).  StepInputs     *)
(* takes these walks as parameters.                                        *)
(***************************************************************************)
EXTENDS Values, SequencesExt

\* checkValueType.  A type is a record; "any" stands for the kinds the code lets pass.
RECURSIVE CheckValueType(_, _)
CheckValueType(v, type) ==
    CASE type.kind = "primitive" ->
           \/ type.name = "Any" /\ v # Null
           \/ type.name = "null" /\ v = Null
           \/ type.name = v.kind
           \/ type.name \in {"file", "dir"} /\ v.kind = "record" /\ "class" \notin DOMAIN v.fields
      [] type.kind = "array"  -> IsArr(v) /\ \A i \in DOMAIN v.items : CheckValueType(v.items[i], type.items)
      [] type.kind = "record" -> v.kind = "record" /\ \A f \in DOMAIN type.fields :
                                    CheckValueType(Get(v.fields, f), type.fields[f])
      [] type.kind = "enum"   -> v.kind = "text" /\ v.text \in type.symbols
      [] type.kind = "union"  -> \E option \in type.options : CheckValueType(v, option)
      [] OTHER                -> TRUE

\* NormalizeValuePaths: a file:// location becomes a path; below a value that has
\* a path nothing is looked at.
RECURSIVE NormalizeValuePaths(_)
NormalizeValuePaths(v) ==
    CASE v.kind \in {"file", "dir"} /\ v.place = "uri" -> [v EXCEPT !.place = "path"]
      [] IsArr(v) -> Arr([i \in DOMAIN v.items |-> NormalizeValuePaths(v.items[i])])
      [] v.kind = "record" ->
           [v EXCEPT !.fields = [f \in DOMAIN v.fields |-> NormalizeValuePaths(v.fields[f])]]
      [] OTHER -> v

\* checkStepSecondaryFiles: the companions a pattern requires are attached already.
RECURSIVE Companions(_, _)
Companions(v, decl) ==
    CASE v.kind = "file" ->
           v.place = "path" => \A p \in decl.patterns : p.required => p.names \subseteq v.attached
      [] IsArr(v) -> \A i \in DOMAIN v.items : Companions(v.items[i], decl)
      [] v.kind = "record" ->
           \A f \in DOMAIN decl.fields : Companions(Get(v.fields, f), decl.fields[f])
      [] OTHER -> TRUE

\* The scalars and objects a value is made of, in order.
RECURSIVE Leaves(_)
Leaves(v) == IF IsArr(v) THEN FlattenSeq([i \in DOMAIN v.items |-> Leaves(v.items[i])])
             ELSE IF v = Null THEN <<>> ELSE <<v>>
=============================================================================
