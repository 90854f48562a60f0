------------------------------ MODULE Staging ------------------------------
(***************************************************************************)
(* Where one tool invocation finds its files: the staging plan (pathmap.go,*)
(* pathmap_container.go), InitialWorkDirRequirement (clt_staging.go), the  *)
(* mounts of a container (container.go), and the plan carried out on a     *)
(* file system, again after an interruption if need be                     *)
(* (handler_commandline.go: prepare, execute).  The tool itself, and what  *)
(* the executor does with its mounts, are external.                        *)
(*                                                                         *)
(* Evaluating a listing entry is abstracted to what it evaluates to; the   *)
(* input object to the sequence of the files in it, in the order they are  *)
(* walked.                                                                 *)
(***************************************************************************)
EXTENDS FileTree

CONSTANTS
    Library,      \* the invocations that are tried
    MaxRestarts   \* bound on how often one is interrupted and begun again

\* Host directories, and the container's names for them.
Root(n)   == << <<n>> >>
Outdir    == Root("out")
Tmpdir    == Root("tmp")
ToolOut   == Root("W")
ToolStage == Root("S")
ToolTmp   == Root("T")
HostStage(c) == IF c.contained THEN Append(Tmpdir, <<"stg">>) ELSE Tmpdir
Workdir(c)   == IF c.contained THEN ToolOut ELSE Outdir
StageDir(c)  == IF c.contained THEN ToolStage ELSE Tmpdir
Outside      == <<"", "outside">>
NoName == <<>>
Nowhere == <<>>
Up     == <<"", "">>      \* ".."

VARIABLES
    case,      \* the invocation
    pc,        \* what it does next
    tree,      \* the file system
    plan,      \* PathMap.plan, with the identity of the value placed
    at,        \* how many placements are applied, or outputs collected
    told,      \* the inputs as the tool is told of them (RewriteInputs)
    restarts   \* how often it was begun again

stageVars == <<case, pc, tree, plan, at, told, restarts>>

-----------------------------------------------------------------------------
(* Files and Directories: [class, id, path, uri, remote, basename, contents, literal,
   kids, listed, checksum].  uri is a file:// location, remote one that is not; kids are
   secondaryFiles or listing; literal says contents is set, listed that listing is. *)

\* normalizeFilePath and normalizeDirPath: a value that has a path is left alone, and so
\* is everything in it.
RECURSIVE Normalized(_)
Normalized(v) ==
    IF v.path # Nowhere THEN v
    ELSE [v EXCEPT !.path = v.uri, !.kids = [i \in DOMAIN v.kids |-> Normalized(v.kids[i])]]

\* basenameOf: the name declared, or the last one of what it refers to.
BasenameOf(v) ==
    LET ref == IF v.path # Nowhere THEN v.path ELSE IF v.remote # Nowhere THEN v.remote ELSE v.uri
    IN IF v.basename # NoName THEN v.basename ELSE IF ref = Nowhere THEN NoName ELSE Last(ref)

\* stagedInPlace and namedAs.
StagedInPlace(v) ==
    /\ v.path # Nowhere
    /\ v.basename \in {NoName, Last(v.path)}
    /\ v.class = "File" => \A i \in DOMAIN v.kids :
                             v.kids[i].path = Append(Front(v.path), BasenameOf(v.kids[i]))

\* Mutant: what belongs to a value is left out of its move.
RelocatedAlone(v, target) == [v EXCEPT !.path = target, !.basename = Last(target), !.uri = Nowhere]

\* relocateFile and relocateDirectory.
RECURSIVE Relocated(_, _)
Relocated(v, target) ==
    LET beside == IF v.class = "File" THEN Front(target) ELSE target
    IN [v EXCEPT !.path = target, !.basename = Last(target), !.uri = Nowhere, !.remote = Nowhere,
                 !.kids = [i \in DOMAIN v.kids |->
                             Relocated(v.kids[i], Append(beside, BasenameOf(v.kids[i])))]]

RECURSIVE WithKids(_)
WithKids(v) == {v} \union UNION {WithKids(v.kids[i]) : i \in DOMAIN v.kids}

-----------------------------------------------------------------------------
(* The plan. *)

IsIn(dir, p) == IsPrefix(dir, p)      \* relativeTo
OutsideOf(c, target) == c.contained /\ ~IsIn(ToolOut, target) /\ ~IsIn(ToolStage, target)

\* hostPath: where the bytes of a target are written.
HostPath(c, target) ==
    IF ~c.contained THEN target
    ELSE IF IsIn(ToolOut, target) THEN Below(ToolOut, Outdir, target)
    ELSE IF IsIn(ToolStage, target) THEN Below(ToolStage, HostStage(c), target)
    ELSE Append(HostStage(c), Outside) \o target

\* hostFor: nowhere when the container mounts the source itself.
HostFor(c, target, action) ==
    IF action = "link" /\ OutsideOf(c, target) THEN Nowhere ELSE HostPath(c, target)

Targets(p) == {p[i].target : i \in DOMAIN p}

\* byValue, the last placement of a value, and byPath, the first of a path.
TargetOf(p, v) ==
    LET same == {i \in DOMAIN p : v.id # "" /\ p[i].id = v.id}
        from == {i \in DOMAIN p : p[i].source # Nowhere /\ p[i].source = v.path /\ p[i].target # p[i].source}
    IN IF same # {} THEN p[CHOOSE i \in same : \A j \in same : j <= i].target
       ELSE IF from # {} THEN p[CHOOSE i \in from : \A j \in from : i <= j].target
       ELSE Nowhere

\* add.
Placed(c, p, v, source, target, bytes, action, writable) ==
    Append(p, [source |-> source, target |-> target, host |-> HostFor(c, target, action),
               bytes |-> bytes, action |-> action, writable |-> writable, id |-> v.id])

\* isolate: the tool gets its own copy of what it may write to.
LinkOrCopy(c, writable) == IF writable /\ ~c.inplace THEN "copy" ELSE "link"

Planned(p)  == [ok |-> TRUE, plan |-> p]
Unplanned   == [ok |-> FALSE, plan |-> <<>>]

\* stageAt with stageFile and stageDirectory.  A Directory that exists is placed whole.
RECURSIVE StageAt(_, _, _, _, _)
StageAt(c, p, v, target, writable) ==
    LET placed ==
          CASE v.path # Nowhere   -> Planned(Placed(c, p, v, v.path, target, "", LinkOrCopy(c, writable), writable))
            [] v.path = Nowhere /\ v.literal ->
                 Planned(Placed(c, p, v, Nowhere, target, v.contents, "write", writable))
            [] v.path = Nowhere /\ ~v.literal /\ v.remote # Nowhere ->
                 Planned(Placed(c, p, v, v.remote, target, "", "remote", writable))
            [] v.path = Nowhere /\ ~v.literal /\ v.remote = Nowhere /\ v.listed ->
                 Planned(Placed(c, p, v, Nowhere, target, "", "mkdir", writable))
            [] OTHER -> Unplanned
        within == v.class = "File" \/ (v.path = Nowhere /\ v.remote = Nowhere)
        beside == IF v.class = "File" THEN Front(target) ELSE target
    IN FoldLeft(LAMBDA r, kid : IF r.ok THEN StageAt(c, r.plan, kid, Append(beside, BasenameOf(kid)), writable)
                                ELSE r,
                placed, IF within THEN v.kids ELSE <<>>)

\* unique: the first free name, in directories 1, 2, ... from the second on.
Unique(c, p, name) ==
    LET n == IF name \in {NoName, Up} THEN <<"literal">> ELSE name
        path(k) == IF k = 0 THEN Append(StageDir(c), n) ELSE StageDir(c) \o << <<ToString(k)>>, n >>
        free == {k \in 0..Len(p) : path(k) \notin Targets(p)}
    IN path(CHOOSE k \in free : \A j \in free : k <= j)

\* Materialize: what the tool would not find under its name.
Materialize(c, p, v) ==
    IF \/ ~c.contained /\ StagedInPlace(v)
       \/ v.id \in {p[i].id : i \in DOMAIN p}
    THEN Planned(p)
    ELSE StageAt(c, p, v, Unique(c, p, BasenameOf(v)), FALSE)

\* targetIn: a name below the working directory, or an absolute one where that is allowed.
TargetIn(c, entry, name) ==
    CASE entry.abs /\ c.absolute -> name
      [] ~entry.abs /\ name # Nowhere /\ \A i \in DOMAIN name : name[i] # Up -> Workdir(c) \o name
      [] OTHER -> Nowhere

\* workDirStager.object, contents, objects, value: an entry by what it evaluates to.
StageObject(c, p, entry, v) ==
    LET n    == Normalized(v)
        name == IF entry.name # Nowhere THEN entry.name
                ELSE IF BasenameOf(n) = NoName THEN Nowhere ELSE <<BasenameOf(n)>>
        target == TargetIn(c, entry, name)
    IN IF name = Nowhere \/ target = Nowhere THEN Unplanned
       ELSE StageAt(c, p, n, target, entry.writable)

StageEntry(c, p, entry) ==
    CASE entry.is = "null"  -> Planned(p)
      [] entry.is = "error" -> Unplanned
      [] entry.is = "text"  ->      \* a string, or anything else as JSON
           LET target == TargetIn(c, entry, entry.name)
           IN IF entry.name = Nowhere \/ target = Nowhere THEN Unplanned
              ELSE Planned(Placed(c, p, [id |-> ""], Nowhere, target, entry.text, "write", FALSE))
      [] entry.is = "object" -> StageObject(c, p, entry, entry.objects[1])
      [] entry.is = "array" ->
           IF entry.name # Nowhere THEN Unplanned
           ELSE FoldLeft(LAMBDA r, v : IF r.ok THEN StageObject(c, r.plan, entry, v) ELSE r,
                         Planned(p), entry.objects)

\* prepare: materializeLiterals input by input, then StageInitialWorkDir entry by entry.
Inputs(c) == [i \in DOMAIN c.inputs |-> Normalized(c.inputs[i])]
PlanFor(c) ==
    FoldLeft(LAMBDA r, entry : IF r.ok THEN StageEntry(c, r.plan, entry) ELSE r,
             FoldLeft(LAMBDA r, v : IF r.ok THEN Materialize(c, r.plan, v) ELSE r, Planned(<<>>), Inputs(c)),
             c.listing)

\* rewriteObject.
Rewritten(p, v) == IF TargetOf(p, v) = Nowhere THEN v ELSE Relocated(v, TargetOf(p, v))

-----------------------------------------------------------------------------
(* Containers. *)

\* containerMounts and mountSource.  An executor that cannot mount single files mounts the
\* three directories only.
Mounts(c, p) ==
    {[source |-> Outdir, target |-> ToolOut, ro |-> FALSE],
     [source |-> Tmpdir, target |-> ToolTmp, ro |-> FALSE],
     [source |-> HostStage(c), target |-> ToolStage, ro |-> FALSE]}
    \union
    IF ~c.bind THEN {}
    ELSE {[source |-> IF p[i].action = "link" THEN p[i].source ELSE p[i].host,
           target |-> p[i].target, ro |-> ~p[i].writable] :
            i \in {j \in DOMAIN p : p[j].action = "link"
                     \/ (p[j].action # "remote" /\ OutsideOf(c, p[j].target) /\ ~IsIn(ToolTmp, p[j].target))}}

\* What a path of the tool is on the host, and whether the tool may write there.
MountOf(c, p, path) ==
    LET over == {m \in Mounts(c, p) : IsPrefix(m.target, path)}
    IN CHOOSE m \in over : \A n \in over : Len(n.target) <= Len(m.target)
HostOf(c, p, path) ==
    IF ~c.contained THEN path
    ELSE IF \E m \in Mounts(c, p) : IsPrefix(m.target, path)
         THEN Below(MountOf(c, p, path).target, MountOf(c, p, path).source, path)
         ELSE Nowhere

-----------------------------------------------------------------------------
(* Apply and Relink. *)

\* Mutant: what a placement finds is left where it is.
ClearedNothing(t, host) == t

\* replaceWithFS: what is at the place goes first.
Cleared(t, host) == RemoveAll(t, host)

\* mountPointFS: an empty file or directory for the mount to cover.
MountPoint(t, source, host) ==
    IF ~Exists(t, source) THEN Failed(t)
    ELSE IF IsDir(t, source) THEN MkdirAll(t, host) ELSE Create(t, host, "")

\* placeLinkFS.
PlaceLink(c, t, m) ==
    IF ~c.contained THEN Symlink(t, m.source, m.host)
    ELSE IF c.bind THEN MountPoint(t, m.source, m.host) ELSE CopyTree(t, m.source, m.host)

\* applyMapping; a remote source is copied over what is there.
Apply(c, t, m) ==
    IF m.host = Nowhere \/ m.source = m.host THEN Done(t)
    ELSE LET parent == MkdirAll(t, Front(m.host))
             clear  == Cleared(parent.tree, m.host)
         IN IF ~parent.ok THEN parent
            ELSE CASE m.action = "mkdir"  -> MkdirAll(parent.tree, m.host)
                   [] m.action = "write"  -> Create(clear, m.host, m.bytes)
                   [] m.action = "link"   -> PlaceLink(c, clear, m)
                   [] m.action = "copy"   -> CopyTree(clear, m.source, m.host)
                   [] m.action = "remote" -> CopyTree(parent.tree, m.source, m.host)

\* Relink: after the container, its mount points become links.
Relink(c, t, p) ==
    IF ~c.contained THEN Done(t)
    ELSE FoldLeft(LAMBDA s, m : IF s.ok /\ m.action = "link" /\ m.host # Nowhere
                                THEN Symlink(RemoveAll(s.tree, m.host), m.source, m.host) ELSE s,
                  Done(t), p)

-----------------------------------------------------------------------------
(* The invocation, up to the end of the tool. *)

InitialTree(c) ==
    c.disk @@ [d \in {Outdir, Tmpdir, HostStage(c)} |-> Dir]

StageInit ==
    /\ case \in Library
    /\ pc = "plan"
    /\ tree = InitialTree(case)
    /\ plan = <<>> /\ at = 0 /\ told = <<>> /\ restarts = 0


\* prepare: the plan.  Nothing is written before it is complete.
MakePlan ==
    /\ pc = "plan"
    /\ plan' = PlanFor(case).plan
    /\ pc' = IF PlanFor(case).ok THEN "apply" ELSE "failed"
    /\ at' = 0
    /\ UNCHANGED <<case, tree, told, restarts>>

\* prepare: one placement of Apply.
ApplyNext ==
    /\ pc = "apply" /\ at < Len(plan)
    /\ LET r == Apply(case, tree, plan[at + 1])
       IN /\ tree' = r.tree
          /\ pc' = IF r.ok THEN pc ELSE "failed"
    /\ at' = at + 1
    /\ UNCHANGED <<case, plan, told, restarts>>

\* prepare: RewriteInputs.
EndApply ==
    /\ pc = "apply" /\ at = Len(plan)
    /\ told' = [i \in DOMAIN case.inputs |-> Rewritten(plan, Inputs(case)[i])]
    /\ pc' = "run"
    /\ UNCHANGED <<case, tree, plan, at, restarts>>

\* The process ends here, and the step is begun again in the directories it left: between
\* placements or inside one, and after the tool.
Interrupt ==
    /\ restarts < MaxRestarts /\ pc \in {"apply", "run", "collect"}
    /\ \/ UNCHANGED tree
       \/ /\ pc = "apply" /\ at < Len(plan) /\ plan[at + 1].action \in {"write", "link", "copy"}
          /\ plan[at + 1].host # Nowhere /\ plan[at + 1].host # plan[at + 1].source
          /\ tree' = RemoveAll(tree, plan[at + 1].host)
    /\ restarts' = restarts + 1
    /\ pc' = "plan" /\ plan' = <<>> /\ at' = 0 /\ told' = <<>>
    /\ UNCHANGED case

\* The tool.  It makes what its case says, and edits every file it was given that it may
\* write to: in a container what no read-only mount keeps from it, on the host what is
\* declared writable.
Ops(c, t, p) ==
    FoldLeft(LAMBDA s, op :
               LET h == HostOf(c, p, Workdir(c) \o op.name)
               IN IF ~s.ok THEN s
                  ELSE CASE op.op = "write" -> Create(s.tree, h, op.bytes)
                         [] op.op = "mkdir" -> MkdirAll(s.tree, h)
                         [] op.op = "link"  -> Symlink(s.tree, op.to, h),
             Done(t), c.tool)
Writable(c, p, m) ==
    IF c.contained THEN HostOf(c, p, m.target) # Nowhere /\ ~MountOf(c, p, m.target).ro ELSE m.writable
Edited(c, t, p) ==
    LET given == {HostOf(c, p, p[i].target) : i \in {j \in DOMAIN p : Writable(c, p, p[j])}}
        files == {q \in DOMAIN t : t[q].kind = "file" /\ \E g \in given : IsPrefix(Real(t, g), q)}
    IN [q \in files |-> File("edited")] @@ t

RunTool ==
    /\ pc = "run"
    /\ \E edit \in BOOLEAN :
         LET r == Ops(case, IF edit THEN Edited(case, tree, plan) ELSE tree, plan)
         IN /\ tree' = Relink(case, r.tree, plan).tree
            /\ pc' = IF r.ok /\ Relink(case, r.tree, plan).ok THEN "collect" ELSE "failed"
    /\ at' = 0
    /\ UNCHANGED <<case, plan, told, restarts>>

StageNext == MakePlan \/ ApplyNext \/ EndApply \/ RunTool \/ Interrupt

-----------------------------------------------------------------------------
(* Properties. *)

Placements == {plan[i] : i \in DOMAIN plan}

\* No two placements share a target, and none lies below a value placed as it is: what the
\* documents that stage nothing into one another come to.
Apart == LET p == PlanFor(case).plan IN
    \A i, j \in DOMAIN p : i # j /\ IsPrefix(p[i].target, p[j].target) =>
        p[i].target # p[j].target /\ p[i].action # "link" /\ i < j

\* The files of a source, and those at a place, hold the same.
HoldsTree(t, place, source) ==
    /\ Exists(t, place) /\ Exists(t, source)
    /\ \A q \in Under(t, Real(t, source)) :
         LET there == Below(Real(t, source), Real(t, place), q)
         IN IF IsFile(t, q) THEN IsFile(t, there) /\ Bytes(t, there) = Bytes(t, q) ELSE IsDir(t, there)
Holds(t, place, m) ==
    CASE m.source # Nowhere -> HoldsTree(t, place, m.source)
      [] m.action = "write" -> IsFile(t, place) /\ Bytes(t, place) = m.bytes
      [] m.action = "mkdir" -> IsDir(t, place)

\* A value as declared, and as the tool is told of it.
RECURSIVE Delivered(_, _)
Delivered(v, w) ==
    LET there == HostOf(case, plan, w.path)
        bytes == IF v.path # Nowhere THEN Bytes(tree, v.path)
                 ELSE IF v.literal THEN v.contents ELSE Bytes(tree, v.remote)
    IN /\ w.path # Nowhere
       /\ IF v.class = "File" THEN IsFile(tree, there) /\ Bytes(tree, there) = bytes ELSE IsDir(tree, there)
       /\ \A i \in DOMAIN v.kids : Delivered(v.kids[i], w.kids[i])

\* When the tool starts, however often staging was broken off before, it sees at every
\* target what was placed there, and finds every input, with what belongs to it, where it
\* is told to look (PathMap.Apply, "Idempotent for resumed runs"; RewriteInputs).
StagedAsPlanned ==
    pc = "run" /\ Apart =>
        /\ \A m \in Placements : Holds(tree, HostOf(case, plan, m.target), m)
        /\ \A i \in DOMAIN told : Delivered(Inputs(case)[i], told[i])
=============================================================================
