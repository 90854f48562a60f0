------------------------------ MODULE Scatter ------------------------------
(***************************************************************************)
(* Scatter expansion and gathering (pkg/cwlexec/scatter.go), the step life *)
(* that surrounds it (expandJobs and gatherStep of loop.go) and the        *)
(* directories every invocation is given (dirsFor of scheduler.go).        *)
(*                                                                         *)
(* A scattered array is its length, an element its position: the inputs of *)
(* a sub-job are the positions its keys select.  A handler's output object *)
(* is the step and inputs it was called with, so an output gathered into a *)
(* wrong place shows.  A directory name is the sequence of its segments    *)
(* between underscores.                                                    *)
(***************************************************************************)
EXTENDS Integers, Sequences, FiniteSets, SequencesExt, TLC

CONSTANTS
    StepNames,  \* the steps, each the segments of its id between underscores
    MaxKeys,    \* bound on the scatter keys of each step
    MaxLen,     \* bound on the length of a scattered array
    Methods     \* the scatterMethods in use

Dot    == "dotproduct"
Nested == "nested_crossproduct"
Flat   == "flat_crossproduct"

\* The "length" of a scatter key that is absent, repeated, or not an array.
NoArray == -1

ASSUME ScatterAssumption ==
    /\ StepNames \subseteq Seq(STRING)
    /\ MaxKeys \in [StepNames -> Nat] /\ MaxLen \in Nat
    /\ Methods \subseteq {Dot, Nested, Flat}

\* Every way the scatter keys of a step may resolve; <<>> is an unscattered step.
Lengths(s) == UNION {[1..k -> {NoArray} \union 0..MaxLen] : k \in 0..MaxKeys[s]}

VARIABLES
    plan,      \* the expanded jobs and gathered shape of every step
    progress,  \* where each invocation is: ready, running, or recorded
    gathered   \* each step's gathered output, <<>> before there is one

vars == <<plan, progress, gathered>>

Unplanned == [phase |-> "waiting", lens |-> <<>>, method |-> Dot,
              dims |-> <<>>, jobs |-> <<>>]

Init ==
    /\ plan = [s \in StepNames |-> Unplanned]
    /\ progress = [s \in StepNames |-> <<>>]
    /\ gathered = [s \in StepNames |-> <<>>]

-----------------------------------------------------------------------------
\* Grids and shapes.  Coordinates count from 0, as in the code.

\* The slots within the first 0, 1, ... levels of a shape.
Sizes(dims) ==
    LET size[d \in 0..Len(dims)] == IF d = 0 THEN 1 ELSE size[d - 1] * dims[d]
    IN  size

ShapeSize(dims) == IF dims = <<>> THEN 0 ELSE Sizes(dims)[Len(dims)]

\* Mutant: the first dimension varies fastest.
OffsetsColumnMajor(idx, dims) ==
    LET offset[d \in 0..Len(idx)] ==
            IF d = 0 THEN 0
            ELSE offset[d - 1] * dims[Len(dims) + 1 - d] + idx[Len(dims) + 1 - d]
    IN  offset

\* The offset that the first 0, 1, ... coordinates make.
Offsets(idx, dims) ==
    LET offset[d \in 0..Len(idx)] == IF d = 0 THEN 0 ELSE offset[d - 1] * dims[d] + idx[d]
    IN  offset

LinearOffset(idx, dims) == Offsets(idx, dims)[Len(idx)]

\* The last digit that can grow does; those after it return to zero.
Advance(odometer, dims) ==
    [d \in DOMAIN dims |->
        IF \E e \in DOMAIN dims : e > d /\ odometer[e] + 1 < dims[e]
        THEN odometer[d]
        ELSE IF odometer[d] + 1 < dims[d] THEN odometer[d] + 1 ELSE 0]

GridCoordinates(dims) ==
    LET grid[i \in 1..ShapeSize(dims)] ==
            IF i = 1 THEN [d \in DOMAIN dims |-> 0]
                     ELSE Advance(grid[i - 1], dims)
    IN  grid

\* The flat array grouped down to each level, from the innermost level out.
Levels(flat, dims) ==
    LET level[d \in 1..Len(dims)] ==
            IF d = Len(dims) THEN flat
            ELSE [g \in 1..ShapeSize(SubSeq(dims, 1, d)) |->
                    [k \in 1..dims[d + 1] |-> level[d + 1][(g - 1) * dims[d + 1] + k]]]
    IN  level

Nest(flat, dims) == IF dims = <<>> THEN flat ELSE Levels(flat, dims)[1]

-----------------------------------------------------------------------------
\* ExpandScatter

Job(index, inputs) == [index |-> index, inputs |-> inputs]

Dotproduct(lens) ==
    [jobs |-> [i \in 1..lens[1] |-> Job(<<i - 1>>, [k \in DOMAIN lens |-> i - 1])],
     dims |-> <<lens[1]>>]

FlatCrossproduct(lens) ==
    LET grid == GridCoordinates(lens)
    IN  [jobs |-> [i \in DOMAIN grid |-> Job(<<i - 1>>, grid[i])],
         dims |-> <<Len(grid)>>]

NestedCrossproduct(lens) ==
    LET grid == GridCoordinates(lens)
    IN  [jobs |-> [i \in DOMAIN grid |-> Job(grid[i], grid[i])], dims |-> lens]

EmptyShape(lens, method) ==
    IF method # Nested THEN <<0>> ELSE SubSeq(lens, 1, SelectInSeq(lens, LAMBDA n : n = 0))

\* An empty array comes before the dotproduct's check of the lengths.
Accepted(lens, method) ==
    /\ \A k \in DOMAIN lens : lens[k] # NoArray
    /\ \/ method # Dot
       \/ \E k \in DOMAIN lens : lens[k] = 0
       \/ \A k \in DOMAIN lens : lens[k] = lens[1]

ExpandScatter(lens, method) ==
    IF \E k \in DOMAIN lens : lens[k] = 0
    THEN [jobs |-> <<>>, dims |-> EmptyShape(lens, method)]
    ELSE CASE method = Dot    -> Dotproduct(lens)
           [] method = Flat   -> FlatCrossproduct(lens)
           [] method = Nested -> NestedCrossproduct(lens)

\* Unscattered, a step is one invocation with no coordinates and no shape.
ExpandJobs(lens, method) ==
    IF lens = <<>> THEN [jobs |-> <<Job(<<>>, <<>>)>>, dims |-> <<>>]
                   ELSE ExpandScatter(lens, method)

-----------------------------------------------------------------------------
\* Gathering and the invocations' directories

ValidShape(dims) == \A d \in DOMAIN dims : dims[d] > 0 \/ d = Len(dims)

ValidCoordinates(jobs, dims) ==
    \A i \in DOMAIN jobs :
        /\ Len(jobs[i].index) = Len(dims)
        /\ \A d \in DOMAIN dims : jobs[i].index[d] \in 0..dims[d] - 1

\* The output object the invocation of a job returns.
Output(s, job) == <<s, job.inputs>>

GatherPort(s, jobs, dims) ==
    LET slot(i) == LinearOffset(jobs[i].index, dims) + 1
        flat == [n \in 1..ShapeSize(dims) |->
                    LET filling == {i \in DOMAIN jobs : slot(i) = n}
                    IN  IF filling = {} THEN "null"
                        ELSE Output(s, jobs[CHOOSE i \in filling : \A j \in filling : j <= i])]
    IN  Nest(flat, dims)

\* Mutant: the directory is named for the outermost coordinate only.
InvocationNameOuter(s, index) == IF index = <<>> THEN s ELSE Append(s, ToString(index[1]))

InvocationName(s, index) == s \o [d \in DOMAIN index |-> ToString(index[d])]

-----------------------------------------------------------------------------
\* One step's life

Expand(s) ==
    /\ plan[s].phase = "waiting"
    /\ \E lens \in Lengths(s), method \in Methods :
         IF Accepted(lens, method)
         THEN LET expanded == ExpandJobs(lens, method) IN
              /\ plan' = [plan EXCEPT ![s] =
                    [phase |-> "expanded", lens |-> lens, method |-> method,
                     dims |-> expanded.dims, jobs |-> expanded.jobs]]
              /\ progress' = [progress EXCEPT ![s] =
                    [i \in DOMAIN expanded.jobs |-> "ready"]]
         ELSE /\ plan' = [plan EXCEPT ![s].phase = "refused"]
              /\ UNCHANGED progress
    /\ UNCHANGED gathered

Launch(s, i) ==
    /\ progress[s][i] = "ready"
    /\ progress' = [progress EXCEPT ![s][i] = "running"]
    /\ UNCHANGED <<plan, gathered>>

Record(s, i) ==
    /\ progress[s][i] = "running"
    /\ progress' = [progress EXCEPT ![s][i] = "recorded"]
    /\ UNCHANGED <<plan, gathered>>

GatherStep(s) ==
    /\ plan[s].phase = "expanded"
    /\ \A i \in DOMAIN progress[s] : progress[s][i] = "recorded"
    /\ LET jobs == plan[s].jobs  dims == plan[s].dims IN
       IF dims = <<>>
       THEN /\ gathered' = [gathered EXCEPT ![s] = Output(s, jobs[1])]
            /\ plan' = [plan EXCEPT ![s].phase = "gathered"]
       ELSE IF ValidShape(dims) /\ ValidCoordinates(jobs, dims)
       THEN /\ gathered' = [gathered EXCEPT ![s] = GatherPort(s, jobs, dims)]
            /\ plan' = [plan EXCEPT ![s].phase = "gathered"]
       ELSE /\ plan' = [plan EXCEPT ![s].phase = "ungathered"]
            /\ UNCHANGED gathered
    /\ UNCHANGED progress

Next == \E s \in StepNames :
    \/ Expand(s)
    \/ \E i \in DOMAIN progress[s] : Launch(s, i) \/ Record(s, i)
    \/ GatherStep(s)

Spec == Init /\ [][Next]_vars

-----------------------------------------------------------------------------
\* What scattering promises, stated without its algorithms

\* The combinations of elements the method is to run the step with.
Combinations(lens, method) ==
    LET all == {c \in [DOMAIN lens -> 0..MaxLen] : \A k \in DOMAIN lens : c[k] < lens[k]}
    IN  IF method = Dot THEN {c \in all : \A k \in DOMAIN lens : c[k] = c[1]} ELSE all

\* What stands in an output array below the first 0, 1, ... coordinates of c.
Below(array, c) ==
    LET below[d \in 0..Len(c)] == IF d = 0 THEN array ELSE below[d - 1][c[d] + 1]
    IN  below

At(array, c) == Below(array, c)[Len(c)]

Before(c, e) ==
    \E k \in DOMAIN c : c[k] < e[k] /\ \A j \in 1..k - 1 : c[j] = e[j]

\* The place in the gathered array of the combination c.
Place(c, lens, method) ==
    CASE method = Dot    -> <<c[1]>>
      [] method = Nested -> c
      [] method = Flat   -> <<Cardinality({e \in Combinations(lens, Flat) : Before(e, c)})>>

Planned(s) == plan[s].phase \in {"expanded", "gathered", "ungathered"}

\* ExpandScatter runs the step exactly once for every combination the method
\* asks for, and for no other.
OneJobPerCombination ==
    \A s \in StepNames : Planned(s) /\ plan[s].lens # <<>> =>
        LET jobs == plan[s].jobs IN
        /\ {jobs[i].inputs : i \in DOMAIN jobs} = Combinations(plan[s].lens, plan[s].method)
        /\ \A i, j \in DOMAIN jobs : jobs[i].inputs = jobs[j].inputs => i = j

\* Gather puts at the place of every combination the output of the invocation
\* that ran on it, every level has the length of its array, and an empty
\* array inside a nested crossproduct leaves an empty array in each group.
GatheredInPlace ==
    \A s \in StepNames : plan[s].phase = "gathered" /\ plan[s].lens # <<>> =>
        LET lens == plan[s].lens  method == plan[s].method
            combinations == Combinations(lens, method)
        IN  /\ \A c \in combinations :
                 At(gathered[s], Place(c, lens, method)) = <<s, c>>
            /\ IF method = Nested
               THEN \A k \in 0..Len(lens) - 1 :
                      \A c \in Combinations(SubSeq(lens, 1, k), Nested) :
                        Len(At(gathered[s], c)) = lens[k + 1]
               ELSE Len(gathered[s]) = Cardinality(combinations)

\* Gather never refuses the plan ExpandScatter made: work that was done is
\* not thrown away for its coordinates.
GatherAcceptsItsPlan == \A s \in StepNames : plan[s].phase # "ungathered"

\* Nothing is lost between ExpandScatter and Gather: every combination runs
\* once, what it produced is accepted back, and stands in its place.
ScatterGathersAll == OneJobPerCombination /\ GatherAcceptsItsPlan /\ GatheredInPlace

\* Two invocations that were launched never share an output or scratch
\* directory, whichever steps they belong to.
OwnDirectory ==
    \A s, t \in StepNames :
        \A i \in DOMAIN progress[s], j \in DOMAIN progress[t] :
            /\ progress[s][i] # "ready" /\ progress[t][j] # "ready"
            /\ InvocationName(s, plan[s].jobs[i].index)
                 = InvocationName(t, plan[t].jobs[j].index)
            => s = t /\ i = j
=============================================================================
