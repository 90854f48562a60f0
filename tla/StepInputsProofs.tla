-------------------------- MODULE StepInputsProofs --------------------------
(***************************************************************************)
(* That the plan a document is given is enough for its run, for every      *)
(* library of documents: PlanSufficient as a theorem, and with it that the *)
(* plans RunLoop is given are acyclic.                                     *)
(***************************************************************************)
EXTENDS StepInputs, FiniteSetTheorems, SequenceTheorems, TLAPS

(***************************************************************************)
(* The inductive invariant.                                                *)
(***************************************************************************)

StepIds == {step.id : step \in ToSet(doc.steps)}

\* The plan is of the first steps of its document, no two of one name, and reads every
\* identifier where the document produces it.
PlanFollows ==
    /\ plan = [steps |-> plan.steps, sources |-> plan.sources, deps |-> plan.deps]
    /\ Len(plan.steps) \in 0..Len(doc.steps)
    /\ plan.steps = [i \in 1..Len(plan.steps) |-> PlannedStep(doc.steps[i])]
    /\ \A i, j \in 1..Len(plan.steps) : doc.steps[i].id = doc.steps[j].id => i = j
    /\ \A i \in 1..Len(plan.steps) : \A o \in OutIds(doc.steps[i]) :
          o \in DOMAIN plan.sources /\ plan.sources[o].step = doc.steps[i].id
    /\ \A o \in DOMAIN plan.sources :
          \/ plan.sources[o].step = NoStep
          \/ \E i \in 1..Len(plan.steps) :
               plan.sources[o].step = doc.steps[i].id /\ o \in OutIds(doc.steps[i])

\* All steps are planned, their edges drawn, and every source is known.
Wired ==
    /\ Len(plan.steps) = Len(doc.steps)
    /\ DOMAIN plan.deps = StepIds
    /\ \A i \in DOMAIN doc.steps :
          /\ plan.deps[doc.steps[i].id] = StepDeps(plan, doc.steps[i])
          /\ StepSources(doc.steps[i]) \subseteq DOMAIN plan.sources
    /\ \A i \in DOMAIN Outputs : ToSet(Outputs[i].source) \subseteq DOMAIN plan.sources

\* Of any of these steps, one reads from none of the others: what LoopState assumes of a plan.
AcyclicIn(ids) == \A S \in SUBSET ids : S # {} => \E s \in S : plan.deps[s] \intersect S = {}

\* The open steps read from one another in turn, and below a shut step all is shut.
Walk ==
    /\ shut \subseteq StepIds
    /\ path \in Seq(StepIds \ shut)
    /\ \A i, j \in DOMAIN path : path[i] = path[j] => i = j
    /\ \A i \in 1..(Len(path) - 1) : path[i + 1] \in plan.deps[path[i]]
    /\ \A s \in shut : plan.deps[s] \subseteq shut
    /\ AcyclicIn(shut)

Phases == {"waiting", "called", "failed", "success", "skipped"}

Gives(f) == \A k \in DOMAIN f : f[k] \in Known

\* What may be read in a run is a value; errors never are.
Running ==
    /\ DOMAIN state = StepIds
    /\ \A s \in StepIds :
          /\ state[s] = [phase |-> state[s].phase, inputs |-> state[s].inputs,
                         outputs |-> state[s].outputs, why |-> state[s].why]
          /\ state[s].phase \in Phases /\ Gives(state[s].outputs)
    /\ Gives(given)

HasKnot == \E S \in SUBSET StepIds : Knot(S)

PlanInv ==
    /\ doc \in Library
    /\ pc \in {"plan", "edges", "cycles", "start", "run", "over"}
    /\ pc # "over" => PlanFollows
    /\ pc \in {"plan", "edges"} => path = <<>> /\ shut = {}
    /\ pc = "edges" => ~doc.bare /\ Len(plan.steps) = Len(doc.steps)
    /\ pc \in {"cycles", "start", "run"} => Wired
    /\ pc = "cycles" => Walk
    /\ pc \in {"start", "run"} => AcyclicIn(StepIds)
    /\ pc = "run" => Running
    /\ error = "cycle" => HasKnot
    /\ error # "incomplete" /\ \A s \in DOMAIN state : state[s].why # "incomplete"
-----------------------------------------------------------------------------
\* The initial segments of Nat are ordered by inclusion as their ends are.
LEMMA LeastMember ==
    ASSUME NEW T \in SUBSET Nat, T # {}
    PROVE  \E m \in T : \A k \in T : m <= k
<1> DEFINE Segments == {0 .. n : n \in T}
<1>1. Segments \subseteq FiniteSubsetsOf(Nat)
  <2> SUFFICES ASSUME NEW n \in T PROVE 0 .. n \in FiniteSubsetsOf(Nat)
    OBVIOUS
  <2>1. IsFiniteSet(0 .. n)
    BY FS_Interval
  <2>2. 0 .. n \subseteq Nat
    OBVIOUS
  <2> QED
    BY <2>1, <2>2 DEF FiniteSubsetsOf
<1>2. Segments # {}
  OBVIOUS
<1>3. IsWellFoundedOn(StrictSubsetOrdering(Nat), FiniteSubsetsOf(Nat))
  BY FS_StrictSubsetOrderingWellFounded
<1>4. PICK u \in Segments : \A v \in Segments : <<v, u>> \notin StrictSubsetOrdering(Nat)
  <2> HIDE DEF Segments
  <2> QED
    BY <1>1, <1>2, <1>3, WFMin
<1>5. PICK m \in T : u = 0 .. m
  OBVIOUS
<1>6. ASSUME NEW k \in T, k < m
      PROVE  FALSE
  <2>1. \A i \in 0 .. k : i \in 0 .. m
    BY <1>6
  <2>2. m \in 0 .. m /\ m \notin 0 .. k
    BY <1>6
  <2>3. 0 .. k \subseteq 0 .. m /\ 0 .. k # 0 .. m
    BY <2>1, <2>2
  <2>4. 0 .. k \in SUBSET Nat /\ 0 .. m \in SUBSET Nat
    OBVIOUS
  <2>5. <<0 .. k, 0 .. m>> \in StrictSubsetOrdering(Nat)
    BY <2>3, <2>4 DEF StrictSubsetOrdering
  <2> QED
    BY <1>4, <1>5, <2>5
<1> QED
  BY <1>6

\* Induction: a set of naturals that holds 0 and successors holds all.
LEMMA InductionOn ==
    ASSUME NEW S, 0 \in S, \A n \in Nat : n \in S => n + 1 \in S
    PROVE  \A n \in Nat : n \in S
<1> SUFFICES ASSUME NEW n \in Nat, n \notin S PROVE FALSE
  OBVIOUS
<1>1. PICK m \in Nat \ S : \A k \in Nat \ S : m <= k
  BY LeastMember
<1>2. m # 0 /\ m - 1 \in Nat
  OBVIOUS
<1>3. m - 1 \in S
  BY <1>1, <1>2
<1> QED BY <1>2, <1>3

LEMMA InductionUpTo ==
    ASSUME NEW n \in Nat, NEW S, 0 \in S, \A d \in 1..n : d - 1 \in S => d \in S
    PROVE  \A d \in 0..n : d \in S
<1> DEFINE T == {d \in Nat : d > n \/ d \in S}
<1>1. 0 \in T /\ \A d \in Nat : d \in T => d + 1 \in T
  <2>1. ASSUME NEW d \in Nat, d \in T
        PROVE  d + 1 \in T
    <3>1. CASE d + 1 > n
      BY <3>1
    <3>2. CASE d + 1 <= n
      <4>1. d \in S /\ d + 1 \in 1..n /\ (d + 1) - 1 = d
        BY <2>1, <3>2
      <4> QED
        BY <4>1
    <3> QED
      BY <3>1, <3>2
  <2> QED
    BY <2>1
<1> HIDE DEF T
<1>2. \A d \in Nat : d \in T
  BY <1>1, InductionOn
<1> QED
  BY <1>2 DEF T

\* Sequences are functions on 1..n.
LEMMA LengthOf ==
    ASSUME NEW n \in Nat, NEW f, DOMAIN f = 1..n
    PROVE  Len(f) = n
BY DEF Len

(***************************************************************************)
(* What the sinks make of values is a value, or an error that says why.    *)
(***************************************************************************)

\* A value, or an error that is none of those a plan could be at fault for.
NotEarly(v) == ~(IsErr(v) /\ v.why \in {"incomplete", "cycle"})

LEMMA CollectedNotEarly ==
    ASSUME NEW n \in Nat, NEW r, DOMAIN r = 1..n, \A i \in 1..n : NotEarly(r[i])
    PROVE  NotEarly(Collected(r))
<1>1. CASE \A i \in 1..n : ~IsErr(r[i])
  BY <1>1 DEF Collected, Arr, NotEarly, IsErr
<1>2. CASE \E i \in 1..n : IsErr(r[i])
  <2> DEFINE T == {i \in 1..n : IsErr(r[i])}
  <2>1. PICK m \in T : \A k \in T : m <= k
    <3>1. T \in SUBSET Nat /\ T # {}
      BY <1>2
    <3> QED
      BY <3>1, LeastMember
  <2>2. m \in DOMAIN r /\ IsErr(r[m]) /\ \A j \in 1..(m - 1) : ~IsErr(r[j])
    BY <2>1
  <2> QED
    BY <2>2 DEF Collected
<1> QED
  BY <1>1, <1>2

\* The function FlattenSeq builds, on the first m sequences.
Flattens(g, m, seqs) == g = [i \in 1..m |-> IF i = 1 THEN seqs[i] ELSE g[i - 1] \o seqs[i]]

LEMMA FlattenKnown ==
    ASSUME NEW n \in Nat, NEW seqs, DOMAIN seqs = 1..n, \A i \in 1..n : seqs[i] \in Seq(Known)
    PROVE  FlattenSeq(seqs) \in Seq(Known)
<1>1. CASE n = 0
  BY <1>1, LengthOf DEF FlattenSeq
<1>2. CASE n > 0
  <2> DEFINE S == {m \in Nat : \E g : Flattens(g, m, seqs)}
  <2>1. 0 \in S
    <3> DEFINE g == [i \in 1..0 |-> seqs[i]]
    <3>1. Flattens(g, 0, seqs)
      BY DEF Flattens
    <3> QED
      BY <3>1
  <2>2. ASSUME NEW m \in Nat, m \in S
        PROVE  m + 1 \in S
    <3>1. PICK g : Flattens(g, m, seqs)
      BY <2>2
    <3>2. DOMAIN g = 1..m /\ \A i \in 1..m : g[i] = IF i = 1 THEN seqs[i] ELSE g[i - 1] \o seqs[i]
      BY <3>1 DEF Flattens
    <3> DEFINE top == IF m = 0 THEN seqs[1] ELSE g[m] \o seqs[m + 1]
               h == [i \in 1..m + 1 |-> IF i = m + 1 THEN top ELSE g[i]]
    <3>3. ASSUME NEW i \in 1..m + 1
          PROVE  h[i] = IF i = 1 THEN seqs[i] ELSE h[i - 1] \o seqs[i]
      <4>1. CASE i = m + 1
        <5>1. h[i] = top /\ (m # 0 => h[i - 1] = g[m])
          BY <4>1
        <5> HIDE DEF h
        <5> QED
          BY <4>1, <5>1
      <4>2. CASE i \in 1..m
        <5>1. h[i] = g[i] /\ (i # 1 => h[i - 1] = g[i - 1])
          BY <4>2
        <5> HIDE DEF h
        <5> QED
          BY <3>2, <4>2, <5>1
      <4> QED
        BY <4>1, <4>2
    <3>4. h = [i \in 1..m + 1 |-> h[i]]
      OBVIOUS
    <3> HIDE DEF h
    <3>5. Flattens(h, m + 1, seqs)
      BY <3>3, <3>4 DEF Flattens
    <3> QED
      BY <3>5
  <2> HIDE DEF S
  <2>3. n \in S
    <3>1. \A m \in Nat : m \in S => m + 1 \in S
      BY <2>2, Zenon
    <3>2. \A m \in Nat : m \in S
      BY <2>1, <3>1, InductionOn, Zenon
    <3> QED
      BY <3>2, Zenon
  <2> DEFINE F == CHOOSE g : g = [i \in 1..n |-> IF i = 1 THEN seqs[i] ELSE g[i - 1] \o seqs[i]]
  <2>4. FlattenSeq(seqs) = F[n]
    <3>1. Len(seqs) = n
      BY LengthOf
    <3> QED
      BY <1>2, <3>1 DEF FlattenSeq
  <2>5. Flattens(F, n, seqs)
    BY <2>3 DEF S, Flattens
  <2> HIDE DEF F
  <2> DEFINE T == {i \in 0..n : i > 0 => F[i] \in Seq(Known)}
  <2>6. 0 \in T
    OBVIOUS
  <2>7. ASSUME NEW d \in 1..n, d - 1 \in T
        PROVE  d \in T
    <3>1. F[d] = IF d = 1 THEN seqs[d] ELSE F[d - 1] \o seqs[d]
      BY <2>5 DEF Flattens
    <3>2. seqs[d] \in Seq(Known) /\ (d # 1 => F[d - 1] \in Seq(Known))
      BY <2>7
    <3>3. F[d] \in Seq(Known)
      BY <3>1, <3>2
    <3> QED
      BY <3>3
  <2> HIDE DEF T
  <2>8. n \in T
    <3>1. \A d \in 1..n : d - 1 \in T => d \in T
      BY <2>7, Zenon
    <3>2. \A d \in 0..n : d \in T
      BY <2>6, <3>1, InductionUpTo, Zenon
    <3> QED
      BY <3>2
  <2> QED
    BY <1>2, <2>4, <2>8 DEF T
<1> QED
  BY <1>1, <1>2

LEMMA NonNullsKnown ==
    ASSUME NEW items \in Seq(Known)
    PROVE  NonNulls(items) \in Seq(Known)
<1> DEFINE s == [i \in DOMAIN items |-> IF items[i] = Null THEN <<>> ELSE <<items[i]>>]
<1>1. Len(items) \in Nat /\ DOMAIN s = 1..Len(items)
  OBVIOUS
<1>2. \A i \in 1..Len(items) : s[i] \in Seq(Known)
  OBVIOUS
<1> HIDE DEF s
<1>3. FlattenSeq(s) \in Seq(Known)
  BY <1>1, <1>2, FlattenKnown
<1> QED
  BY <1>3 DEF s, NonNulls

LEMMA FlattenSourcesKnown ==
    ASSUME NEW values \in Seq(Known)
    PROVE  FlattenSources(values) \in Seq(Known)
<1> DEFINE s == [i \in DOMAIN values |-> IF IsArr(values[i]) THEN values[i].items ELSE <<values[i]>>]
<1>1. Len(values) \in Nat /\ DOMAIN s = 1..Len(values)
  OBVIOUS
<1>2. \A i \in 1..Len(values) : s[i] \in Seq(Known)
  BY ValuesAssumption
<1> HIDE DEF s
<1>3. FlattenSeq(s) \in Seq(Known)
  BY <1>1, <1>2, FlattenKnown
<1> QED
  BY <1>3 DEF s, FlattenSources

\* Whatever is merged and picked from known values, no array among them loses its items'
\* kind, and the only errors are those of the merge and the pick.
KnownArray(v) == \E items \in Seq(Known) : v = Arr(items)

Sound(v) == v \in Known \/ KnownArray(v) \/ v = Fails("unknown linkMerge") \/ v = Fails("pickValue")

LEMMA MergeSound ==
    ASSUME NEW sink, NEW values \in Seq(Known)
    PROVE  /\ \/ Merge(sink, values) \in Known
              \/ KnownArray(Merge(sink, values))
              \/ Merge(sink, values) = Fails("unknown linkMerge")
<1>1. KnownArray(Arr(values)) /\ KnownArray(Arr(FlattenSources(values)))
  BY FlattenSourcesKnown DEF KnownArray
<1>2. Len(values) = 1 => values[1] \in Known
  OBVIOUS
<1>3. CASE sink.linkMerge = Unset /\ Len(values) = 1
  <2>1. Merge(sink, values) = values[1]
    BY <1>3 DEF Merge
  <2> QED
    BY <1>2, <1>3, <2>1
<1>4. CASE sink.linkMerge \in {Unset, "merge_nested"} /\ ~(sink.linkMerge = Unset /\ Len(values) = 1)
  <2>1. Merge(sink, values) = Arr(values)
    BY <1>4, Zenon DEF Merge
  <2> QED
    BY <1>1, <2>1
<1>5. CASE sink.linkMerge = "merge_flattened" /\ sink.linkMerge \notin {Unset, "merge_nested"}
  <2>1. Merge(sink, values) = Arr(FlattenSources(values))
    BY <1>5 DEF Merge
  <2> QED
    BY <1>1, <2>1
<1>6. CASE sink.linkMerge \notin {Unset, "merge_nested", "merge_flattened"}
  <2>1. Merge(sink, values) = Fails("unknown linkMerge")
    BY <1>6 DEF Merge
  <2> QED
    BY <2>1
<1> QED
  BY <1>3, <1>4, <1>5, <1>6

LEMMA SelectSound ==
    ASSUME NEW method, NEW kept \in Seq(Known)
    PROVE  Sound(SelectPicked(method, kept))
<1>1. KnownArray(Arr(kept))
  BY DEF KnownArray
<1>2. kept # <<>> => kept[1] \in Known
  OBVIOUS
<1>3. Len(kept) = 1 => kept[1] \in Known
  OBVIOUS
<1> QED
  BY <1>1, <1>2, <1>3 DEF SelectPicked, Sound

LEMMA PickSound ==
    ASSUME NEW sink, NEW values \in Seq(Known)
    PROVE  Sound(Pick(sink, Merge(sink, values)))
<1> DEFINE m == Merge(sink, values)
           items == IF IsArr(m) THEN m.items ELSE <<m>>
<1>1. m \in Known \/ KnownArray(m) \/ m = Fails("unknown linkMerge")
  BY MergeSound
<1> HIDE DEF m
<1>2. CASE sink.pickValue = Unset \/ IsErr(m)
  <2>1. Pick(sink, m) = m
    BY <1>2, Zenon DEF Pick
  <2> QED
    BY <1>1, <2>1, Zenon DEF Sound, m
<1>3. CASE ~(sink.pickValue = Unset \/ IsErr(m))
  <2>1. m \in Known \/ KnownArray(m)
    <3>1. IsErr(Fails("unknown linkMerge"))
      BY DEF IsErr, Fails
    <3> QED
      BY <1>1, <1>3, <3>1, Zenon
  <2>2. items \in Seq(Known)
    <3>1. CASE m \in Known
      BY <3>1, ValuesAssumption
    <3>2. CASE KnownArray(m)
      BY <3>2 DEF KnownArray, Arr, IsArr
    <3> QED
      BY <2>1, <3>1, <3>2
  <2>3. NonNulls(items) \in Seq(Known)
    BY <2>2, NonNullsKnown
  <2> HIDE DEF items
  <2>4. Sound(SelectPicked(sink.pickValue, NonNulls(items)))
    BY <2>3, SelectSound
  <2>5. Pick(sink, m) = SelectPicked(sink.pickValue, NonNulls(items))
    BY <1>3, Zenon DEF Pick, items
  <2> QED
    BY <2>4, <2>5, Zenon DEF m
<1> QED
  BY <1>2, <1>3

(***************************************************************************)
(* Documents and their plans.                                              *)
(***************************************************************************)

LEMMA DocFacts ==
    ASSUME doc \in Library
    PROVE  /\ IsDocument(doc)
           /\ Len(doc.steps) \in Nat /\ DOMAIN doc.steps = 1..Len(doc.steps)
           /\ \A i \in 1..Len(doc.steps) : doc.steps[i] \in ToSet(doc.steps) /\ doc.steps[i].id \in StepIds
           /\ \A s \in StepIds : \E i \in 1..Len(doc.steps) : doc.steps[i].id = s
<1>1. IsDocument(doc)
  BY DocumentsAssumption
<1>2. doc.steps \in Seq(ToSet(doc.steps))
  BY <1>1 DEF IsDocument
<1>3. Len(doc.steps) \in Nat /\ DOMAIN doc.steps = 1..Len(doc.steps)
  BY <1>2
<1>4. ToSet(doc.steps) = {doc.steps[i] : i \in 1..Len(doc.steps)}
  BY <1>3 DEF ToSet
<1> QED
  BY <1>1, <1>3, <1>4 DEF StepIds

LEMMA PlannedFacts ==
    ASSUME NEW s
    PROVE  /\ PlannedStep(s).id = s.id /\ PlannedStep(s).in = s.in /\ PlannedStep(s).out = s.out
           /\ StepSources(PlannedStep(s)) = StepSources(s)
           /\ StepDeps(plan, PlannedStep(s)) = StepDeps(plan, s)
<1>1. PlannedStep(s).id = s.id /\ PlannedStep(s).in = s.in /\ PlannedStep(s).out = s.out
  BY DEF PlannedStep
<1>2. StepSources(PlannedStep(s)) = StepSources(s)
  BY <1>1, Zenon DEF StepSources
<1>3. StepDeps(plan, PlannedStep(s)) = StepDeps(plan, s)
  BY <1>2 DEF StepDeps
<1> QED
  BY <1>1, <1>2, <1>3

LEMMA StepOf ==
    ASSUME doc \in Library, PlanFollows, NEW step \in Steps
    PROVE  \E i \in 1..Len(doc.steps) : step = PlannedStep(doc.steps[i]) /\ i \in 1..Len(plan.steps)
<1> DEFINE n == Len(plan.steps)
<1>a. plan.steps = [i \in 1..n |-> PlannedStep(doc.steps[i])] /\ n \in 0..Len(doc.steps)
  BY Zenon DEF PlanFollows
<1> HIDE DEF n
<1>1. DOMAIN plan.steps = 1..n /\ 1..n \subseteq 1..Len(doc.steps)
  BY <1>a, DocFacts
<1>2. \A i \in 1..n : plan.steps[i] = PlannedStep(doc.steps[i])
  BY <1>a
<1> QED
  BY <1>1, <1>2 DEF Steps, n

\* Where an identifier is read: an input, or the step that produces it.
LEMMA SourceStep ==
    ASSUME doc \in Library, PlanFollows, Wired, NEW i \in 1..Len(doc.steps),
           NEW src \in StepSources(doc.steps[i])
    PROVE  /\ src \in DOMAIN plan.sources
           /\ \/ plan.sources[src].step = NoStep
              \/ /\ plan.sources[src].step \in plan.deps[doc.steps[i].id]
                 /\ plan.sources[src].step \in StepIds
<1>1. src \in DOMAIN plan.sources /\ plan.deps[doc.steps[i].id] = StepDeps(plan, doc.steps[i])
  BY DocFacts DEF Wired
<1>2. plan.sources[src].step = NoStep \/ plan.sources[src].step \in plan.deps[doc.steps[i].id]
  BY <1>1 DEF StepDeps
<1>3. plan.sources[src].step = NoStep \/ plan.sources[src].step \in StepIds
  <2>1. Len(plan.steps) = Len(doc.steps)
    BY DEF Wired
  <2> QED
    BY <1>1, <2>1, DocFacts DEF PlanFollows
<1> QED
  BY <1>1, <1>2, <1>3

LEMMA DepsAreSteps ==
    ASSUME doc \in Library, PlanFollows, Wired, NEW s \in StepIds
    PROVE  plan.deps[s] \subseteq StepIds
<1>1. PICK i \in 1..Len(doc.steps) : doc.steps[i].id = s
  BY DocFacts
<1>2. plan.deps[s] = StepDeps(plan, doc.steps[i])
  BY <1>1, DocFacts DEF Wired
<1>3. ASSUME NEW src \in StepSources(doc.steps[i]), plan.sources[src].step # NoStep
      PROVE  plan.sources[src].step \in StepIds
  BY <1>3, SourceStep
<1> QED
  BY <1>2, <1>3 DEF StepDeps

\* A knot of the document is a set of steps no one of which can be first in the plan.
LEMMA Knots ==
    ASSUME doc \in Library, PlanFollows, Wired, NEW S \in SUBSET StepIds
    PROVE  Knot(S) <=> S # {} /\ \A s \in S : plan.deps[s] \intersect S # {}
<1>1. Len(plan.steps) = Len(doc.steps)
  BY DEF Wired
<1>2. ASSUME NEW s \in S, plan.deps[s] \intersect S # {}
      PROVE  \E step \in ToSet(doc.steps) : step.id = s /\ \E src \in StepSources(step) :
                \E other \in ToSet(doc.steps) : other.id \in S /\ src \in OutIds(other)
  <2>1. PICK i \in 1..Len(doc.steps) : doc.steps[i].id = s
    BY DocFacts
  <2>2. PICK d \in S : d \in StepDeps(plan, doc.steps[i])
    BY <1>2, <2>1, DocFacts DEF Wired
  <2>3. PICK src \in StepSources(doc.steps[i]) : d = plan.sources[src].step /\ d # NoStep
    BY <2>2 DEF StepDeps
  <2>4. src \in DOMAIN plan.sources
    BY SourceStep
  <2>5. PICK j \in 1..Len(doc.steps) : d = doc.steps[j].id /\ src \in OutIds(doc.steps[j])
    BY <1>1, <2>3, <2>4 DEF PlanFollows
  <2> QED
    BY <2>1, <2>2, <2>3, <2>5, DocFacts
<1>3. ASSUME NEW s \in S,
             \E step \in ToSet(doc.steps) : step.id = s /\ \E src \in StepSources(step) :
                \E other \in ToSet(doc.steps) : other.id \in S /\ src \in OutIds(other)
      PROVE  plan.deps[s] \intersect S # {}
  <2>0. PICK step \in ToSet(doc.steps) : step.id = s /\ \E src \in StepSources(step) :
           \E other \in ToSet(doc.steps) : other.id \in S /\ src \in OutIds(other)
    BY <1>3
  <2>1. PICK src \in StepSources(step), other \in ToSet(doc.steps) :
           step.id = s /\ other.id \in S /\ src \in OutIds(other)
    BY <2>0
  <2>2. PICK i \in 1..Len(doc.steps), j \in 1..Len(doc.steps) : step = doc.steps[i] /\ other = doc.steps[j]
    BY <2>1, DocFacts DEF ToSet
  <2>3. plan.sources[src].step = other.id
    BY <1>1, <2>1, <2>2 DEF PlanFollows
  <2>4. other.id # NoStep
    BY DocFacts DEF IsDocument
  <2>5. other.id \in StepDeps(plan, step)
    BY <2>3, <2>4 DEF StepDeps
  <2> QED
    BY <2>1, <2>2, <2>5, DocFacts DEF Wired
<1> QED
  BY <1>2, <1>3 DEF Knot

(***************************************************************************)
(* What a run reads of its plan is there: no sink is too early.            *)
(***************************************************************************)

LEMMA SourceKnown ==
    ASSUME Running, NEW id,
           \/ plan.sources[id].step = NoStep
           \/ plan.sources[id].step \in StepIds /\ Produced(plan.sources[id].step)
    PROVE  SourceValue(id) \in Known
<1> DEFINE ref == plan.sources[id]
<1>1. Get(given, ref.port) \in Known
  BY ValuesAssumption DEF Running, Gives, Get
<1>2. ref.step \in StepIds => Get(state[ref.step].outputs, ref.port) \in Known
  BY ValuesAssumption DEF Running, Gives, Get
<1>3. ref.step = NoStep \/ (ref.step \in StepIds /\ Produced(ref.step))
  OBVIOUS
<1>4. SourceValue(id) = IF ref.step = NoStep THEN Get(given, ref.port)
                        ELSE IF Produced(ref.step) THEN Get(state[ref.step].outputs, ref.port)
                        ELSE Fails("incomplete")
  BY DEF SourceValue
<1> HIDE DEF ref
<1> QED
  BY <1>1, <1>2, <1>3, <1>4, Zenon

LEMMA SinkSound ==
    ASSUME NEW sink, sink.source \in Seq(ToSet(sink.source)),
           \A src \in ToSet(sink.source) : SourceValue(src) \in Known
    PROVE  Sound(SinkValue(sink))
<1> DEFINE r == [i \in DOMAIN sink.source |-> SourceValue(sink.source[i])]
<1>1. Len(sink.source) \in Nat /\ DOMAIN sink.source = 1..Len(sink.source)
  OBVIOUS
<1>2. \A i \in DOMAIN sink.source : SourceValue(sink.source[i]) \in Known
  BY DEF ToSet
<1>3. r \in Seq(Known)
  BY <1>1, <1>2
<1>4. SinkValue(sink) = LET values == Collected(r)
                        IN IF IsErr(values) THEN values ELSE Pick(sink, Merge(sink, values.items))
  BY DEF SinkValue
<1> HIDE DEF r
<1>5. \A i \in DOMAIN r : ~IsErr(r[i])
  BY <1>3, ValuesAssumption
<1>6. Collected(r) = Arr(r)
  BY <1>5 DEF Collected
<1>7. ~IsErr(Collected(r)) /\ Collected(r).items = r
  BY <1>6 DEF IsErr, Arr
<1>8. SinkValue(sink) = Pick(sink, Merge(sink, r))
  BY <1>4, <1>7, Zenon
<1> QED
  BY <1>3, <1>8, PickSound

LEMMA SoundNotEarly ==
    ASSUME NEW v, Sound(v) \/ v \in Declared
    PROVE  NotEarly(v)
<1>1. \A why \in {"unknown linkMerge", "pickValue", "default"} : NotEarly(Fails(why))
  BY DEF NotEarly, Fails
<1>2. v \in Known => NotEarly(v)
  BY ValuesAssumption DEF NotEarly
<1>3. KnownArray(v) => NotEarly(v)
  BY DEF KnownArray, Arr, NotEarly, IsErr
<1> QED
  BY <1>1, <1>2, <1>3, Zenon DEF Sound, Declared

LEMMA LoadOneNotEarly ==
    ASSUME NEW reads, NEW v \in Known
    PROVE  NotEarly(LoadOne(reads, v))
<1>1. NotEarly(v) /\ NotEarly(Fails("load"))
  BY ValuesAssumption DEF NotEarly, IsErr, Fails
<1>2. NotEarly([v EXCEPT !.loaded = TRUE])
  BY ValuesAssumption DEF NotEarly, IsErr
<1> QED
  BY <1>1, <1>2 DEF LoadOne

LEMMA LoadNotEarly ==
    ASSUME NEW reads, NEW v, Sound(v) \/ v \in Declared, ~IsErr(v)
    PROVE  NotEarly(Load(reads, v))
<1>1. v \in Known \/ KnownArray(v)
  <2>1. \A why : IsErr(Fails(why))
    BY DEF Fails, IsErr
  <2> QED
    BY <2>1, Zenon DEF Sound, Declared
<1>2. CASE IsArr(v)
  <2> DEFINE r == [i \in DOMAIN v.items |-> LoadOne(reads, v.items[i])]
  <2>1. v.items \in Seq(Known)
    BY <1>1, <1>2, ValuesAssumption DEF KnownArray, Arr
  <2>2. Len(v.items) \in Nat /\ DOMAIN r = 1..Len(v.items)
    BY <2>1
  <2>3. \A i \in 1..Len(v.items) : NotEarly(r[i])
    BY <2>1, LoadOneNotEarly
  <2>4. Load(reads, v) = Collected(r)
    BY <1>2 DEF Load
  <2> HIDE DEF r
  <2> QED
    BY <2>2, <2>3, <2>4, CollectedNotEarly
<1>3. CASE ~IsArr(v)
  <2>1. v \in Known
    BY <1>1, <1>3 DEF KnownArray, Arr, IsArr
  <2>2. Load(reads, v) = LoadOne(reads, v)
    BY <1>3 DEF Load
  <2> QED
    BY <2>1, <2>2, LoadOneNotEarly
<1> QED
  BY <1>2, <1>3

LEMMA InputNotEarly ==
    ASSUME NEW step, NEW in, in.default \in Declared, in.source \in Seq(ToSet(in.source)),
           \A src \in ToSet(in.source) : SourceValue(src) \in Known
    PROVE  NotEarly(ResolveInput(step, in))
<1> DEFINE wired == IF in.source = <<>> THEN Null ELSE SinkValue(in)
           value == IF wired = Null THEN in.default ELSE wired
<1>1. Sound(wired)
  <2>1. Sound(Null)
    BY ValuesAssumption DEF Sound
  <2> QED
    BY <2>1, SinkSound
<1>2. Sound(value) \/ value \in Declared
  BY <1>1
<1>3. ResolveInput(step, in) = IF IsErr(value) THEN value ELSE Load(step.reads[in.id], value)
  BY DEF ResolveInput
<1> HIDE DEF value
<1> QED
  BY <1>2, <1>3, SoundNotEarly, LoadNotEarly

LEMMA InputsNotEarly ==
    ASSUME doc \in Library, PlanFollows, Wired, Running, NEW step \in Steps,
           \A d \in plan.deps[step.id] : Produced(d)
    PROVE  NotEarly(ResolveInputs(step))
<1>1. PICK i \in 1..Len(doc.steps) : step = PlannedStep(doc.steps[i])
  BY StepOf
<1>2. step.id = doc.steps[i].id /\ step.in = doc.steps[i].in
  BY <1>1, PlannedFacts
<1>3. doc.steps[i] \in ToSet(doc.steps) /\ IsDocument(doc)
  BY DocFacts
<1>4. step.in \in Seq(ToSet(step.in))
  BY <1>2, <1>3 DEF IsDocument
<1>5. \A in \in ToSet(step.in) : in.default \in Declared /\ in.source \in Seq(ToSet(in.source))
  BY <1>2, <1>3 DEF IsDocument
<1>6. ASSUME NEW in \in ToSet(step.in)
      PROVE  NotEarly(ResolveInput(step, in))
  <2>1. ToSet(in.source) \subseteq StepSources(doc.steps[i])
    BY <1>2 DEF ToSet, StepSources
  <2>2. ASSUME NEW src \in ToSet(in.source)
        PROVE  SourceValue(src) \in Known
    <3>1. \/ plan.sources[src].step = NoStep
          \/ /\ plan.sources[src].step \in plan.deps[doc.steps[i].id]
             /\ plan.sources[src].step \in StepIds
      <4>1. src \in StepSources(doc.steps[i])
        BY <2>1, <2>2
      <4> QED
        BY <4>1, SourceStep
    <3>2. \/ plan.sources[src].step = NoStep
          \/ plan.sources[src].step \in StepIds /\ Produced(plan.sources[src].step)
      BY <1>2, <3>1
    <3> QED
      BY <3>2, SourceKnown
  <2> QED
    BY <1>5, <2>2, InputNotEarly
<1> DEFINE named(n) == step.in[CHOOSE j \in DOMAIN step.in : step.in[j].id = n]
           own == [n \in {step.in[j].id : j \in DOMAIN step.in} |-> ResolveInput(step, named(n))]
           r == [j \in DOMAIN step.in |-> own[step.in[j].id]]
           n == Len(step.in)
<1>7. n \in Nat /\ DOMAIN step.in = 1..n /\ DOMAIN r = 1..n
  BY <1>4
<1>8. \A j \in 1..n : NotEarly(r[j])
  <2> SUFFICES ASSUME NEW j \in 1..n
               PROVE  NotEarly(r[j])
    OBVIOUS
  <2>1. named(step.in[j].id) \in ToSet(step.in)
    BY <1>7 DEF ToSet
  <2>2. r[j] = ResolveInput(step, named(step.in[j].id))
    BY <1>7
  <2> QED
    BY <1>6, <2>1, <2>2
<1> DEFINE resolved == Collected(r)
<1>9. NotEarly(resolved)
  BY <1>7, <1>8, CollectedNotEarly
<1>10. CASE doc.bare
  BY <1>10 DEF ResolveInputs, BareInputs, NotEarly, IsErr
<1>11. CASE ~doc.bare
  <2>1. NotEarly(Fails("default")) /\ NotEarly(Fails("secondary"))
    BY DEF NotEarly, Fails
  <2>2. \A o : NotEarly([kind |-> "object", object |-> o])
    BY DEF NotEarly, IsErr
  <2>3. ResolveInputs(step) \in {resolved, Fails("default"), Fails("secondary")}
        \/ \E o : ResolveInputs(step) = [kind |-> "object", object |-> o]
    BY <1>11, Zenon DEF ResolveInputs
  <2> QED
    BY <1>9, <2>1, <2>2, <2>3, Zenon
<1> QED
  BY <1>10, <1>11

(***************************************************************************)
(* The invariant is kept, one lemma per action.                            *)
(***************************************************************************)

LEMMA Init_PlanInv == Init => PlanInv
<1> SUFFICES ASSUME Init PROVE PlanInv
  OBVIOUS
<1>1. doc \in Library /\ plan = EmptyPlan(doc) /\ pc = "plan" /\ path = <<>> /\ shut = {}
      /\ error = NoError /\ state = <<>>
  BY DEF Init
<1> DEFINE sources == [x \in doc.inputs |-> [step |-> NoStep, port |-> x]]
           deps == [s \in {} |-> {}]
<1>a. plan = [steps |-> <<>>, sources |-> sources, deps |-> deps]
  BY <1>1 DEF EmptyPlan
<1>b. \A o \in DOMAIN sources : sources[o].step = NoStep
  OBVIOUS
<1> HIDE DEF sources, deps
<1>2. plan.steps = <<>> /\ plan.sources = sources /\ plan.deps = deps
  BY <1>a
<1>3. plan = [steps |-> plan.steps, sources |-> plan.sources, deps |-> plan.deps]
  BY <1>a, <1>2
<1>4. Len(plan.steps) = 0
  BY <1>2
<1>5. plan.steps = [i \in 1..0 |-> PlannedStep(doc.steps[i])]
  BY <1>2
<1>6. PlanFollows
  <2>1. Len(plan.steps) \in 0..Len(doc.steps)
    BY <1>1, <1>4, DocFacts
  <2>2. \A i \in 1..Len(plan.steps) : FALSE
    BY <1>4
  <2>3. plan.steps = [i \in 1..Len(plan.steps) |-> PlannedStep(doc.steps[i])]
    BY <1>4, <1>5, Zenon
  <2>4. \A o \in DOMAIN plan.sources : plan.sources[o].step = NoStep
    BY <1>b, <1>2, Zenon
  <2> QED
    BY <1>3, <2>1, <2>2, <2>3, <2>4, Zenon DEF PlanFollows
<1>7. error # "cycle" /\ error # "incomplete" /\ DOMAIN state = {}
  BY <1>1 DEF NoError
<1> QED
  BY <1>1, <1>6, <1>7 DEF PlanInv

LEMMA PlanFrame ==
    ASSUME UNCHANGED <<doc, plan>>
    PROVE  /\ PlanFollows' <=> PlanFollows
           /\ Wired' <=> Wired
           /\ AcyclicIn(StepIds)' <=> AcyclicIn(StepIds)
<1>1. doc' = doc /\ plan' = plan
  OBVIOUS
<1>2. PlanFollows' <=> PlanFollows
  BY <1>1 DEF PlanFollows
<1>3. StepIds' = StepIds /\ Outputs' = Outputs
  BY <1>1 DEF StepIds, Outputs
<1>4. Wired' <=> Wired
  BY <1>1, <1>3 DEF Wired
<1>5. AcyclicIn(StepIds)' <=> AcyclicIn(StepIds)
  BY <1>1, <1>3 DEF AcyclicIn
<1> QED
  BY <1>2, <1>4, <1>5

LEMMA KnotFrame ==
    ASSUME UNCHANGED doc
    PROVE  /\ HasKnot' <=> HasKnot
           /\ StepIds' = StepIds
BY DEF HasKnot, Knot, StepIds

LEMMA RunningFrame ==
    ASSUME UNCHANGED <<doc, given, state>>
    PROVE  Running' <=> Running
BY KnotFrame DEF Running, Gives

\* A step added to the plan of those before it.
LEMMA AddStep_PlanInv ==
    ASSUME PlanInv, AddStep
    PROVE  PlanInv'
<1> DEFINE n == Len(plan.steps)
           step == doc.steps[n + 1]
           why == PlanStepError(step, doc, plan.steps)
<1>1. /\ pc = "plan" /\ ~doc.bare /\ n < Len(doc.steps)
      /\ doc' = doc /\ path' = path /\ shut' = shut /\ given' = given /\ state' = state
      /\ PlanFollows /\ doc \in Library /\ path = <<>> /\ shut = {}
  BY DEF AddStep, PlanInv
<1>2. n \in Nat /\ n + 1 \in 1..Len(doc.steps)
  <2>1. n \in 0..Len(doc.steps)
    BY <1>1, Zenon DEF PlanFollows
  <2> HIDE DEF n
  <2> QED
    BY <1>1, <2>1, DocFacts
<1>3. \A s \in DOMAIN state : state[s].why # "incomplete"
  BY DEF PlanInv
<1>4. CASE why # NoError
  <2>1. pc' = "over" /\ error' = why
    BY <1>4 DEF AddStep, Stop
  <2>2. why # "cycle" /\ why # "incomplete"
    BY DEF PlanStepError, NoError
  <2> QED
    BY <1>1, <1>3, <2>1, <2>2 DEF PlanInv
<1>5. CASE why = NoError
  <2> DEFINE p == PlannedStep(step)
             before == plan.sources
             now == Over(PortsOf(step), before)
  <2>1. /\ plan' = [plan EXCEPT !.steps = Append(@, p), !.sources = now]
        /\ pc' = pc /\ error' = error
    BY <1>5, Zenon DEF AddStep, PortsOf
  <2>2. \A i \in DOMAIN plan.steps : plan.steps[i].id # step.id
    BY <1>5 DEF PlanStepError, NoError
  <2>3. /\ plan = [steps |-> plan.steps, sources |-> before, deps |-> plan.deps]
        /\ plan.steps = [i \in 1..n |-> PlannedStep(doc.steps[i])]
        /\ \A i, j \in 1..n : doc.steps[i].id = doc.steps[j].id => i = j
        /\ \A i \in 1..n : \A o \in OutIds(doc.steps[i]) :
             o \in DOMAIN before /\ before[o].step = doc.steps[i].id
        /\ \A o \in DOMAIN before :
             \/ before[o].step = NoStep
             \/ \E i \in 1..n : before[o].step = doc.steps[i].id /\ o \in OutIds(doc.steps[i])
    BY <1>1, Zenon DEF PlanFollows
  <2>4. /\ DOMAIN now = OutIds(step) \union DOMAIN before
        /\ \A o \in OutIds(step) : now[o].step = step.id
        /\ \A o \in DOMAIN before \ OutIds(step) : now[o] = before[o]
    <3> DEFINE f == PortsOf(step)
    <3>1. DOMAIN f = OutIds(step) /\ \A o \in OutIds(step) : f[o].step = step.id
      BY DEF PortsOf
    <3> HIDE DEF f
    <3>2. /\ DOMAIN Over(f, before) = DOMAIN f \union DOMAIN before
          /\ \A o \in DOMAIN f : Over(f, before)[o] = f[o]
          /\ \A o \in DOMAIN before \ DOMAIN f : Over(f, before)[o] = before[o]
      BY DEF Over
    <3> QED
      BY <3>1, <3>2 DEF f
  <2> HIDE DEF now, before, p, step, n
  <2>5. /\ plan'.steps = Append(plan.steps, p) /\ plan'.sources = now /\ plan'.deps = plan.deps
        /\ plan' = [steps |-> plan'.steps, sources |-> plan'.sources, deps |-> plan'.deps]
    BY <2>1, <2>3
  <2>6. /\ Len(plan'.steps) = n + 1
        /\ \A i \in 1..n + 1 : plan'.steps[i] = IF i = n + 1 THEN p ELSE plan.steps[i]
        /\ DOMAIN plan'.steps = 1..n + 1
    BY <1>2, <2>3, <2>5, LengthOf
  <2>7. plan'.steps = [i \in 1..Len(plan'.steps) |-> PlannedStep(doc'.steps[i])]
    <3>1. \A i \in 1..n + 1 : plan'.steps[i] = PlannedStep(doc.steps[i])
      <4>1. \A i \in 1..n : plan.steps[i] = PlannedStep(doc.steps[i])
        BY <2>3
      <4>2. p = PlannedStep(doc.steps[n + 1])
        BY DEF p, step
      <4> QED
        BY <1>2, <2>6, <4>1, <4>2
    <3> DEFINE T == {PlannedStep(doc.steps[i]) : i \in 1..n + 1}
    <3>2. plan.steps \in Seq(T) /\ p \in T
      BY <1>2, <2>3 DEF p, step
    <3> HIDE DEF T
    <3>3. plan'.steps \in Seq(T)
      BY <2>5, <3>2
    <3>4. plan'.steps = [i \in 1..n + 1 |-> plan'.steps[i]]
      BY <2>6, <3>3
    <3>5. plan'.steps = [i \in 1..n + 1 |-> PlannedStep(doc.steps[i])]
      BY <3>1, <3>4
    <3> QED
      BY <1>1, <2>6, <3>5, Zenon
  <2>8. \A i \in 1..n : doc.steps[i].id # step.id
    <3>1. \A i \in 1..n : plan.steps[i] = PlannedStep(doc.steps[i]) /\ i \in DOMAIN plan.steps
      BY <2>3
    <3> QED
      BY <2>2, <3>1, PlannedFacts
  <2>9. \A i, j \in 1..n + 1 : doc.steps[i].id = doc.steps[j].id => i = j
    BY <1>2, <2>3, <2>8 DEF step
  <2>10. ASSUME NEW i \in 1..n + 1, NEW o \in OutIds(doc.steps[i])
         PROVE  o \in DOMAIN now /\ now[o].step = doc.steps[i].id
    <3>1. CASE i = n + 1
      BY <2>4, <2>10, <3>1 DEF step
    <3>2. CASE i \in 1..n
      <4>1. doc.steps[i].id # step.id
        BY <2>8, <3>2
      <4>2. o \notin OutIds(step)
        <5>1. \A one, other \in ToSet(doc.steps) :
                one.id # other.id => OutIds(one) \intersect OutIds(other) = {}
          BY <1>1, DocFacts, Zenon DEF IsDocument
        <5>2. doc.steps[i] \in ToSet(doc.steps) /\ step \in ToSet(doc.steps)
          BY <1>1, <1>2, <3>2, DocFacts DEF step
        <5> QED
          BY <2>10, <4>1, <5>1, <5>2
      <4> QED
        BY <2>3, <2>4, <2>10, <3>2, <4>2
    <3> QED
      BY <1>2, <3>1, <3>2
  <2>11. ASSUME NEW o \in DOMAIN now
         PROVE  \/ now[o].step = NoStep
                \/ \E i \in 1..n + 1 : now[o].step = doc.steps[i].id /\ o \in OutIds(doc.steps[i])
    <3>1. CASE o \in OutIds(step)
      BY <1>2, <2>4, <3>1 DEF step
    <3>2. CASE o \notin OutIds(step)
      <4>1. o \in DOMAIN before /\ now[o] = before[o]
        BY <2>4, <2>11, <3>2
      <4> QED
        BY <1>2, <2>3, <4>1
    <3> QED
      BY <3>1, <3>2
  <2>12. Len(plan'.steps) \in 0..Len(doc'.steps)
    BY <1>1, <1>2, <2>6, DocFacts
  <2>13. \A i, j \in 1..Len(plan'.steps) : doc'.steps[i].id = doc'.steps[j].id => i = j
    BY <1>1, <2>6, <2>9, Zenon
  <2>14. \A i \in 1..Len(plan'.steps) : \A o \in OutIds(doc'.steps[i]) :
            o \in DOMAIN plan'.sources /\ plan'.sources[o].step = doc'.steps[i].id
    BY <1>1, <2>5, <2>6, <2>10, Zenon
  <2>15. \A o \in DOMAIN plan'.sources :
            \/ plan'.sources[o].step = NoStep
            \/ \E i \in 1..Len(plan'.steps) :
                 plan'.sources[o].step = doc'.steps[i].id /\ o \in OutIds(doc'.steps[i])
    BY <1>1, <2>5, <2>6, <2>11, Zenon
  <2>16. PlanFollows'
    BY <2>5, <2>7, <2>12, <2>13, <2>14, <2>15, Zenon DEF PlanFollows
  <2> QED
    BY <1>1, <1>3, <2>1, <2>16, KnotFrame DEF PlanInv
<1> QED
  BY <1>4, <1>5

LEMMA AddWorkflowOutputs_PlanInv ==
    ASSUME PlanInv, AddWorkflowOutputs
    PROVE  PlanInv'
<1>1. /\ pc = "plan" /\ ~doc.bare /\ Len(plan.steps) = Len(doc.steps)
      /\ UNCHANGED <<doc, plan, path, shut, given, state>>
      /\ PlanFollows /\ doc \in Library /\ path = <<>> /\ shut = {}
  BY DEF AddWorkflowOutputs, PlanInv
<1>2. (pc' = "over" /\ error' = "requirement not in scope") \/ (pc' = "edges" /\ error' = error)
  BY DEF AddWorkflowOutputs, Stop
<1>3. PlanFollows' /\ StepIds' = StepIds /\ (HasKnot' <=> HasKnot)
  BY <1>1, PlanFrame, KnotFrame
<1> QED
  BY <1>1, <1>2, <1>3 DEF PlanInv

LEMMA BareProcessPlan_PlanInv ==
    ASSUME PlanInv, BareProcessPlan
    PROVE  PlanInv'
<1> DEFINE step == doc.steps[1]
<1>1. /\ pc = "plan" /\ doc.bare
      /\ UNCHANGED <<doc, path, shut, given, state>>
      /\ PlanFollows /\ doc \in Library /\ path = <<>> /\ shut = {}
  BY DEF BareProcessPlan, PlanInv
<1>2. StepIds' = StepIds /\ (HasKnot' <=> HasKnot)
  BY <1>1, KnotFrame
<1>3. CASE step.unknown
  <2>1. pc' = "over" /\ error' = "unknown requirement"
    BY <1>3 DEF BareProcessPlan, Stop
  <2> QED
    BY <1>1, <1>2, <2>1 DEF PlanInv
<1>4. CASE ~step.unknown
  <2> DEFINE p == PlannedStep(step)
             ports == PortsOf(step)
             deps == [s \in {step.id} |-> {}]
  <2>1. /\ plan' = [plan EXCEPT !.steps = <<p>>, !.sources = ports, !.deps = deps]
        /\ pc' = "start" /\ error' = error
    BY <1>4, Zenon DEF BareProcessPlan
  <2>2. DOMAIN ports = OutIds(step) /\ \A o \in OutIds(step) : ports[o].step = step.id
    BY DEF PortsOf
  <2>3. DOMAIN deps = {step.id} /\ deps[step.id] = {}
    OBVIOUS
  <2>4. Len(doc.steps) = 1 /\ step.in = <<>> /\ DOMAIN doc.steps = 1..1 /\ StepIds = {step.id}
    <3>1. Len(doc.steps) = 1 /\ step.in = <<>>
      BY <1>1, DocFacts, Zenon DEF IsDocument
    <3>2. DOMAIN doc.steps = 1..1 /\ step.id \in StepIds /\ \A s \in StepIds : s = step.id
      BY <1>1, <3>1, DocFacts
    <3> QED
      BY <3>1, <3>2
  <2>5. p.id = step.id /\ p = PlannedStep(doc.steps[1])
    BY PlannedFacts
  <2>6. StepSources(step) = {}
    BY <2>4 DEF StepSources
  <2>7. plan = [steps |-> plan.steps, sources |-> plan.sources, deps |-> plan.deps]
    BY <1>1, Zenon DEF PlanFollows
  <2>8. \A i \in DOMAIN Outputs : Outputs[i].source = <<step.out[i].id>> /\ i \in DOMAIN step.out
    BY <1>1 DEF Outputs
  <2>9. ASSUME NEW i \in DOMAIN Outputs
        PROVE  ToSet(Outputs[i].source) \subseteq OutIds(step)
    BY <2>8 DEF ToSet, OutIds
  <2> HIDE DEF p, ports, deps, step
  <2>10. plan' = [steps |-> <<p>>, sources |-> ports, deps |-> deps]
    BY <2>1, <2>7
  <2>11. plan'.steps = <<p>> /\ plan'.sources = ports /\ plan'.deps = deps /\ Len(plan'.steps) = 1
    BY <2>10
  <2>12. PlanFollows'
    <3>1. plan'.steps = [i \in 1..Len(plan'.steps) |-> PlannedStep(doc'.steps[i])]
      <4>1. <<p>> = [i \in 1..1 |-> PlannedStep(doc.steps[i])]
        BY <2>5
      <4> QED
        BY <1>1, <2>11, <4>1, Zenon
    <3>2. \A o \in DOMAIN plan'.sources :
             \/ plan'.sources[o].step = NoStep
             \/ \E i \in 1..Len(plan'.steps) :
                  plan'.sources[o].step = doc'.steps[i].id /\ o \in OutIds(doc'.steps[i])
      BY <1>1, <2>2, <2>11 DEF step
    <3>3. \A i \in 1..Len(plan'.steps) : \A o \in OutIds(doc'.steps[i]) :
             o \in DOMAIN plan'.sources /\ plan'.sources[o].step = doc'.steps[i].id
      BY <1>1, <2>2, <2>11 DEF step
    <3>4. plan' = [steps |-> plan'.steps, sources |-> plan'.sources, deps |-> plan'.deps]
      BY <2>10, <2>11
    <3>5. Len(plan'.steps) \in 0..Len(doc'.steps)
      BY <1>1, <2>4, <2>11
    <3>6. \A i, j \in 1..Len(plan'.steps) : doc'.steps[i].id = doc'.steps[j].id => i = j
      BY <2>11
    <3> QED
      BY <3>1, <3>2, <3>3, <3>4, <3>5, <3>6, Zenon DEF PlanFollows
  <2>13. Wired'
    <3>1. Outputs' = Outputs
      BY <1>1 DEF Outputs
    <3>2. \A i \in DOMAIN Outputs : ToSet(Outputs[i].source) \subseteq DOMAIN ports
      BY <2>2, <2>9
    <3>3. \A i \in DOMAIN doc'.steps : doc'.steps[i] = step
      BY <1>1, <2>4 DEF step
    <3>4. StepDeps(plan', step) = {}
      BY <2>6 DEF StepDeps
    <3> QED
      BY <1>1, <1>2, <2>3, <2>4, <2>6, <2>11, <3>1, <3>2, <3>3, <3>4 DEF Wired
  <2>14. AcyclicIn(StepIds)'
    BY <1>2, <2>3, <2>4, <2>11 DEF AcyclicIn
  <2> QED
    BY <1>1, <1>2, <2>1, <2>12, <2>13, <2>14 DEF PlanInv
<1> QED
  BY <1>3, <1>4

LEMMA ResolveEdges_PlanInv ==
    ASSUME PlanInv, ResolveEdges
    PROVE  PlanInv'
<1> DEFINE n == Len(doc.steps)
           own    == UNION {StepSources(doc.steps[i]) : i \in DOMAIN doc.steps}
           wanted == UNION {ToSet(doc.outputs[i].source) : i \in DOMAIN doc.outputs}
           deps == [s \in {plan.steps[i].id : i \in DOMAIN plan.steps} |->
                        UNION {StepDeps(plan, plan.steps[i]) :
                                 i \in {j \in DOMAIN plan.steps : plan.steps[j].id = s}}]
<1>1. /\ pc = "edges" /\ ~doc.bare /\ Len(plan.steps) = n
      /\ UNCHANGED <<doc, path, shut, given, state>>
      /\ PlanFollows /\ doc \in Library /\ path = <<>> /\ shut = {}
  BY DEF ResolveEdges, PlanInv
<1>2. StepIds' = StepIds /\ (HasKnot' <=> HasKnot)
  BY <1>1, KnotFrame
<1>3. CASE ~(own \union wanted \subseteq DOMAIN plan.sources)
  <2>1. pc' = "over" /\ error' = "unknown source"
    BY <1>3, Zenon DEF ResolveEdges, Stop
  <2> QED
    BY <1>1, <1>2, <2>1 DEF PlanInv
<1>4. CASE own \union wanted \subseteq DOMAIN plan.sources
  <2>1. plan' = [plan EXCEPT !.deps = deps] /\ pc' = "cycles" /\ error' = error
    BY <1>4, Zenon DEF ResolveEdges
  <2>2. /\ plan = [steps |-> plan.steps, sources |-> plan.sources, deps |-> plan.deps]
        /\ plan.steps = [i \in 1..n |-> PlannedStep(doc.steps[i])]
        /\ \A i, j \in 1..n : doc.steps[i].id = doc.steps[j].id => i = j
    BY <1>1, Zenon DEF PlanFollows
  <2>3. DOMAIN plan.steps = 1..n /\ \A i \in 1..n : plan.steps[i] = PlannedStep(doc.steps[i])
    BY <2>2
  <2>4. \A i \in 1..n : /\ plan.steps[i].id = doc.steps[i].id
                        /\ StepDeps(plan, plan.steps[i]) = StepDeps(plan, doc.steps[i])
    BY <2>3, PlannedFacts
  <2>5. DOMAIN deps = StepIds
    BY <1>1, <2>3, <2>4, DocFacts
  <2>6. ASSUME NEW k \in 1..n
        PROVE  deps[doc.steps[k].id] = StepDeps(plan, doc.steps[k])
    <3>1. {j \in DOMAIN plan.steps : plan.steps[j].id = doc.steps[k].id} = {k}
      BY <2>2, <2>3, <2>4
    <3>2. doc.steps[k].id \in {plan.steps[i].id : i \in DOMAIN plan.steps}
      BY <2>3, <2>4
    <3>3. deps[doc.steps[k].id] =
             UNION {StepDeps(plan, plan.steps[i]) :
                      i \in {j \in DOMAIN plan.steps : plan.steps[j].id = doc.steps[k].id}}
      BY <3>2, Zenon
    <3>4. deps[doc.steps[k].id] = UNION {StepDeps(plan, plan.steps[i]) : i \in {k}}
      BY <3>1, <3>3, Zenon
    <3> HIDE DEF deps
    <3>6. deps[doc.steps[k].id] = StepDeps(plan, plan.steps[k])
      BY <3>4
    <3> QED
      BY <2>4, <3>6
  <2> HIDE DEF deps
  <2>7. /\ plan'.steps = plan.steps /\ plan'.sources = plan.sources /\ plan'.deps = deps
        /\ plan' = [steps |-> plan'.steps, sources |-> plan'.sources, deps |-> plan'.deps]
    BY <2>1, <2>2
  <2>8. PlanFollows'
    BY <1>1, <2>7, Zenon DEF PlanFollows
  <2>9. \A i \in 1..n : StepDeps(plan', doc.steps[i]) = StepDeps(plan, doc.steps[i])
    BY <2>7 DEF StepDeps
  <2>10. Outputs' = doc.outputs
    BY <1>1 DEF Outputs
  <2>11. Wired'
    <3>1. \A i \in 1..n : StepSources(doc.steps[i]) \subseteq DOMAIN plan.sources
      BY <1>1, <1>4, DocFacts
    <3>2. \A i \in DOMAIN doc.outputs : ToSet(doc.outputs[i].source) \subseteq DOMAIN plan.sources
      <4> SUFFICES ASSUME NEW i \in DOMAIN doc.outputs, NEW src \in ToSet(doc.outputs[i].source)
                   PROVE  src \in DOMAIN plan.sources
        OBVIOUS
      <4>1. src \in wanted
        OBVIOUS
      <4> HIDE DEF own, wanted
      <4> QED
        BY <1>4, <4>1
    <3>3. DOMAIN doc.steps = 1..n
      BY <1>1, DocFacts
    <3>4. \A i \in DOMAIN doc'.steps :
             /\ plan'.deps[doc'.steps[i].id] = StepDeps(plan', doc'.steps[i])
             /\ StepSources(doc'.steps[i]) \subseteq DOMAIN plan'.sources
      BY <1>1, <2>6, <2>7, <2>9, <3>1, <3>3
    <3>5. \A i \in DOMAIN Outputs' : ToSet((Outputs[i].source)') \subseteq DOMAIN plan'.sources
      BY <2>7, <2>10, <3>2
    <3>6. Len(plan'.steps) = Len(doc'.steps) /\ DOMAIN plan'.deps = StepIds'
      BY <1>1, <1>2, <2>5, <2>7
    <3> QED
      BY <3>4, <3>5, <3>6, Zenon DEF Wired
  <2>12. Walk'
    BY <1>1 DEF Walk, AcyclicIn
  <2> QED
    BY <1>1, <1>2, <2>1, <2>8, <2>11, <2>12 DEF PlanInv
<1> QED
  BY <1>3, <1>4

(***************************************************************************)
(* The walk for cycles.                                                    *)
(***************************************************************************)

\* What the walk of the plan reads and leaves alone.
LEMMA WalkFrame ==
    ASSUME PlanInv, pc = "cycles", UNCHANGED <<doc, plan, given, state>>
    PROVE  /\ doc' = doc /\ plan' = plan /\ doc \in Library
           /\ PlanFollows /\ Wired /\ Walk
           /\ PlanFollows' /\ Wired' /\ StepIds' = StepIds
           /\ (AcyclicIn(StepIds)' <=> AcyclicIn(StepIds)) /\ (HasKnot' <=> HasKnot)
           /\ error = "cycle" => HasKnot
           /\ error # "incomplete" /\ \A s \in DOMAIN state' : state'[s].why # "incomplete"
BY PlanFrame, KnotFrame DEF PlanInv

LEMMA VisitRoot_PlanInv ==
    ASSUME PlanInv, VisitRoot
    PROVE  PlanInv'
<1>1. pc = "cycles" /\ UNCHANGED <<doc, plan, pc, shut, error, given, state>>
  BY DEF VisitRoot
<1>2. PICK i \in DOMAIN plan.steps : plan.steps[i].id \notin shut /\ path' = <<plan.steps[i].id>>
  BY DEF VisitRoot
<1>3. plan.steps[i].id \in StepIds
  <2>1. doc \in Library /\ PlanFollows
    BY <1>1, WalkFrame
  <2>2. plan.steps[i] \in Steps
    BY DEF Steps
  <2> QED
    BY <2>1, <2>2, StepOf, PlannedFacts, DocFacts
<1> DEFINE id == plan.steps[i].id
<1>4. path' = <<id>> /\ id \in StepIds \ shut
  BY <1>2, <1>3
<1> HIDE DEF id
<1>5. path' \in Seq(StepIds \ shut) /\ Len(path') = 1 /\ DOMAIN path' = 1..1
  BY <1>4
<1>6. Walk'
  <2>1. StepIds' = StepIds /\ shut' = shut /\ plan' = plan /\ Walk
    BY <1>1, WalkFrame
  <2> QED
    BY <1>5, <2>1 DEF Walk, AcyclicIn
<1> QED
  BY <1>1, <1>6, WalkFrame DEF PlanInv

\* Whatever reads from itself through the open steps is a knot.
LEMMA RepeatIsKnot ==
    ASSUME doc \in Library, PlanFollows, Wired, Walk, path # <<>>,
           NEW dep \in plan.deps[Last(path)], dep \in ToSet(path)
    PROVE  HasKnot
<1> DEFINE n == Len(path)
<1>1. n \in Nat /\ n > 0 /\ DOMAIN path = 1..n /\ Last(path) = path[n]
  BY DEF Walk, Last
<1>2. PICK k \in 1..n : path[k] = dep
  BY <1>1 DEF ToSet
<1> DEFINE S == {path[i] : i \in k..n}
<1>3. \A i \in 1..n : path[i] \in StepIds
  BY <1>1 DEF Walk
<1>4. S \in SUBSET StepIds /\ S # {}
  BY <1>1, <1>3
<1>5. \A i \in k..n : path[i] \in S
  OBVIOUS
<1>6. ASSUME NEW i \in k..n
      PROVE  plan.deps[path[i]] \intersect S # {}
  <2>1. CASE i = n
    <3>1. dep \in S
      BY <1>1, <1>2, <1>5
    <3>2. dep \in plan.deps[path[i]]
      BY <1>1, <2>1
    <3> HIDE DEF S
    <3> QED
      BY <3>1, <3>2
  <2>2. CASE i # n
    <3>1. i \in 1..(n - 1) /\ i + 1 \in k..n
      <4>1. n \in Nat /\ k \in 1..n /\ i \in k..n
        BY <1>1
      <4> HIDE DEF n
      <4> QED
        BY <2>2, <4>1
    <3>2. path[i + 1] \in plan.deps[path[i]]
      BY <3>1 DEF Walk
    <3> QED
      BY <1>5, <3>1, <3>2
  <2> QED
    BY <2>1, <2>2
<1>7. \A s \in S : plan.deps[s] \intersect S # {}
  BY <1>6
<1> HIDE DEF S
<1> QED
  BY <1>4, <1>7, Knots DEF HasKnot

LEMMA VisitDep_PlanInv ==
    ASSUME PlanInv, VisitDep
    PROVE  PlanInv'
<1>1. pc = "cycles" /\ path # <<>> /\ UNCHANGED <<doc, plan, shut, given, state>>
  BY DEF VisitDep
<1>2. PICK dep \in plan.deps[Last(path)] \ shut :
         IF dep \in ToSet(path)
         THEN Stop("cycle") /\ UNCHANGED path
         ELSE path' = Append(path, dep) /\ UNCHANGED <<pc, error>>
  BY DEF VisitDep
<1>3. doc \in Library /\ PlanFollows /\ Wired /\ Walk
  BY <1>1, WalkFrame
<1>4. CASE dep \in ToSet(path)
  <2>1. pc' = "over" /\ error' = "cycle"
    BY <1>2, <1>4 DEF Stop
  <2>2. HasKnot
    BY <1>1, <1>3, <1>4, RepeatIsKnot
  <2> QED
    BY <1>1, <2>1, <2>2, WalkFrame DEF PlanInv
<1>5. CASE dep \notin ToSet(path)
  <2>1. path' = Append(path, dep) /\ pc' = pc /\ error' = error
    BY <1>2, <1>5
  <2> DEFINE n == Len(path)
  <2>2. /\ n \in Nat /\ n > 0 /\ DOMAIN path = 1..n /\ path \in Seq(StepIds \ shut)
        /\ Last(path) = path[n] /\ path[n] \in StepIds
    BY <1>1, <1>3 DEF Walk, Last
  <2>3. dep \in StepIds \ shut /\ dep \in plan.deps[path[n]]
    BY <1>3, <2>2, DepsAreSteps
  <2>4. path' \in Seq(StepIds \ shut) /\ Len(path') = n + 1 /\ DOMAIN path' = 1..n + 1
    BY <2>1, <2>2, <2>3
  <2>5. \A i \in 1..n : path'[i] = path[i] /\ path[i] # dep
    BY <1>5, <2>1, <2>2 DEF ToSet
  <2>6. path'[n + 1] = dep
    BY <2>1, <2>2
  <2>7. /\ \A i, j \in 1..n : path[i] = path[j] => i = j
        /\ \A i \in 1..(n - 1) : path[i + 1] \in plan.deps[path[i]]
        /\ shut \subseteq StepIds /\ (\A s \in shut : plan.deps[s] \subseteq shut) /\ AcyclicIn(shut)
    BY <1>3, <2>2 DEF Walk
  <2> HIDE DEF n
  <2>8. \A i, j \in 1..n + 1 : path'[i] = path'[j] => i = j
    BY <2>2, <2>5, <2>6, <2>7
  <2>9. \A i \in 1..n : path'[i + 1] \in plan.deps[path'[i]]
    <3> SUFFICES ASSUME NEW i \in 1..n PROVE path'[i + 1] \in plan.deps[path'[i]]
      OBVIOUS
    <3>1. CASE i = n
      BY <2>2, <2>3, <2>5, <2>6, <3>1
    <3>2. CASE i # n
      <4>1. i \in 1..(n - 1) /\ i + 1 \in 1..n
        BY <2>2, <3>2
      <4> QED
        BY <2>5, <2>7, <4>1
    <3> QED
      BY <3>1, <3>2
  <2>10. Walk'
    <3>1. StepIds' = StepIds /\ shut' = shut /\ plan' = plan
      BY <1>1, WalkFrame
    <3>2. AcyclicIn(shut)'
      BY <2>7, <3>1 DEF AcyclicIn
    <3>3. Len(path') - 1 = n
      BY <2>2, <2>4
    <3> QED
      BY <2>4, <2>7, <2>8, <2>9, <3>1, <3>2, <3>3 DEF Walk
  <2> QED
    BY <1>1, <2>1, <2>10, WalkFrame DEF PlanInv
<1> QED
  BY <1>4, <1>5

\* What reads only from shut steps can be shut.
LEMMA AcyclicGrows ==
    ASSUME NEW T, NEW x, AcyclicIn(T), plan.deps[x] \subseteq T, x \notin T,
           \A s \in T : plan.deps[s] \subseteq T
    PROVE  AcyclicIn(T \union {x})
<1> SUFFICES ASSUME NEW S \in SUBSET (T \union {x}), S # {}
             PROVE  \E s \in S : plan.deps[s] \intersect S = {}
  BY DEF AcyclicIn
<1>1. CASE S \intersect T = {}
  <2>1. S = {x}
    BY <1>1
  <2> QED
    BY <2>1
<1>2. CASE S \intersect T # {}
  <2>1. PICK s \in S \intersect T : plan.deps[s] \intersect (S \intersect T) = {}
    BY <1>2 DEF AcyclicIn
  <2>2. plan.deps[s] \intersect S = {}
    BY <2>1
  <2> QED
    BY <2>1, <2>2
<1> QED
  BY <1>1, <1>2

LEMMA ShutStep_PlanInv ==
    ASSUME PlanInv, ShutStep
    PROVE  PlanInv'
<1> DEFINE x == Last(path)
           n == Len(path)
<1>1. /\ pc = "cycles" /\ path # <<>> /\ UNCHANGED <<doc, plan, pc, error, given, state>>
      /\ plan.deps[x] \subseteq shut /\ shut' = shut \union {x} /\ path' = Front(path)
  BY DEF ShutStep
<1>2. StepIds' = StepIds /\ plan' = plan /\ Walk
  BY <1>1, WalkFrame
<1>3. /\ shut \subseteq StepIds /\ path \in Seq(StepIds \ shut)
      /\ \A i, j \in DOMAIN path : path[i] = path[j] => i = j
      /\ \A i \in 1..(n - 1) : path[i + 1] \in plan.deps[path[i]]
      /\ (\A s \in shut : plan.deps[s] \subseteq shut) /\ AcyclicIn(shut)
  BY <1>2 DEF Walk
<1>4. n \in Nat /\ n > 0 /\ DOMAIN path = 1..n /\ x = path[n] /\ x \in StepIds \ shut
  BY <1>1, <1>3 DEF Last
<1> HIDE DEF x
<1>5. /\ Front(path) = [i \in 1..(n - 1) |-> path[i]] /\ n - 1 \in Nat
  BY <1>1, <1>3, <1>4 DEF Front, SubSeq
<1> HIDE DEF n
<1>6. Len(path') = n - 1 /\ DOMAIN path' = 1..(n - 1) /\ \A i \in 1..(n - 1) : path'[i] = path[i]
  BY <1>1, <1>5, LengthOf
<1>7. \A i \in 1..(n - 1) : path[i] \in StepIds \ (shut \union {x})
  BY <1>3, <1>4
<1>8. path' \in Seq(StepIds \ (shut \union {x}))
  BY <1>1, <1>5, <1>7
<1>9. \A i, j \in DOMAIN path' : path'[i] = path'[j] => i = j
  BY <1>3, <1>4, <1>6
<1>10. \A i \in 1..(Len(path') - 1) : path'[i + 1] \in plan.deps[path'[i]]
  BY <1>3, <1>4, <1>6
<1>11. \A s \in shut \union {x} : plan.deps[s] \subseteq shut \union {x}
  BY <1>1, <1>3
<1>12. AcyclicIn(shut \union {x})
  BY <1>1, <1>3, <1>4, AcyclicGrows
<1>13. Walk'
  <2>1. AcyclicIn(shut)'
    BY <1>1, <1>2, <1>12 DEF AcyclicIn
  <2> QED
    BY <1>1, <1>2, <1>3, <1>4, <1>8, <1>9, <1>10, <1>11, <2>1 DEF Walk
<1> QED
  BY <1>1, <1>13, WalkFrame DEF PlanInv

LEMMA NoCycle_PlanInv ==
    ASSUME PlanInv, NoCycle
    PROVE  PlanInv'
<1>1. /\ pc = "cycles" /\ pc' = "start" /\ UNCHANGED <<doc, plan, path, shut, error, given, state>>
      /\ \A i \in DOMAIN plan.steps : plan.steps[i].id \in shut
  BY DEF NoCycle
<1>2. doc \in Library /\ PlanFollows /\ Wired /\ Walk
  BY <1>1, WalkFrame
<1>3. \A i \in 1..Len(doc.steps) : doc.steps[i].id \in shut
  <2> DEFINE n == Len(plan.steps)
  <2>1. plan.steps = [i \in 1..n |-> PlannedStep(doc.steps[i])]
    BY <1>2, Zenon DEF PlanFollows
  <2>2. n = Len(doc.steps)
    BY <1>2 DEF Wired
  <2> HIDE DEF n
  <2>3. \A i \in 1..n : i \in DOMAIN plan.steps /\ plan.steps[i].id = doc.steps[i].id
    BY <2>1, PlannedFacts
  <2> QED
    BY <1>1, <2>2, <2>3
<1>4. StepIds \subseteq shut
  BY <1>2, <1>3, DocFacts
<1>5. AcyclicIn(StepIds)
  <2>1. StepIds = shut
    BY <1>2, <1>4 DEF Walk
  <2> QED
    BY <1>2, <2>1 DEF Walk
<1> QED
  BY <1>1, <1>5, WalkFrame DEF PlanInv

(***************************************************************************)
(* The run.                                                                *)
(***************************************************************************)

LEMMA StartRun_PlanInv ==
    ASSUME PlanInv, StartRun
    PROVE  PlanInv'
<1>1. /\ pc = "start" /\ UNCHANGED <<doc, plan, path, shut>>
      /\ doc \in Library /\ PlanFollows /\ Wired /\ AcyclicIn(StepIds)
      /\ (error = "cycle" => HasKnot) /\ error # "incomplete"
      /\ \A s \in DOMAIN state : state[s].why # "incomplete"
  BY DEF StartRun, PlanInv
<1>2. PlanFollows' /\ Wired' /\ AcyclicIn(StepIds)' /\ StepIds' = StepIds /\ (HasKnot' <=> HasKnot)
  BY <1>1, PlanFrame, KnotFrame
<1>3. CASE \E i \in DOMAIN plan.steps : ~plan.steps[i].handled
  <2>1. pc' = "over" /\ error' = "no handler" /\ state' = state
    BY <1>3 DEF StartRun, Stop
  <2> QED
    BY <1>1, <1>2, <2>1 DEF PlanInv
<1>4. CASE ~\E i \in DOMAIN plan.steps : ~plan.steps[i].handled
  <2>1. /\ \E supplied \in SUBSET doc.inputs : \E raw \in [supplied -> RunInputs] :
              given' = InitialInputs(raw)
        /\ state' = [s \in DOMAIN plan.deps |-> Waiting] /\ pc' = "run" /\ error' = error
    BY <1>4 DEF StartRun
  <2>a. PICK supplied \in SUBSET doc.inputs : \E raw \in [supplied -> RunInputs] :
           given' = InitialInputs(raw)
    BY <2>1
  <2>2. PICK raw \in [supplied -> RunInputs] : given' = InitialInputs(raw)
    BY <2>a
  <2>3. Gives(given')
    <3>1. \A n \in DOMAIN doc.defaults : doc.defaults[n] \in Known
      BY <1>1, DocFacts DEF IsDocument
    <3>2. \A n \in DOMAIN raw : raw[n] \in Known
      BY <2>2, ValuesAssumption
    <3> QED
      BY <2>2, <3>1, <3>2 DEF Gives, InitialInputs, Over
  <2>4. DOMAIN state' = StepIds /\ \A s \in StepIds : state'[s] = Waiting
    BY <1>1, <2>1 DEF Wired
  <2>5. /\ Waiting.phase \in Phases /\ Gives(Waiting.outputs) /\ Waiting.why # "incomplete"
        /\ Waiting = [phase |-> Waiting.phase, inputs |-> Waiting.inputs,
                      outputs |-> Waiting.outputs, why |-> Waiting.why]
    BY DEF Waiting, Phases, Gives, NoError
  <2>6. Running'
    BY <1>2, <2>3, <2>4, <2>5 DEF Running, Gives
  <2> QED
    BY <1>1, <1>2, <2>1, <2>4, <2>5, <2>6 DEF PlanInv
<1> QED
  BY <1>3, <1>4

\* What holds while a plan is run, and what a step of the run leaves of it to show.
LEMMA RunFacts ==
    ASSUME PlanInv, pc = "run"
    PROVE  /\ doc \in Library /\ PlanFollows /\ Wired /\ AcyclicIn(StepIds) /\ Running
           /\ DOMAIN state = StepIds
           /\ \A step \in Steps : step.id \in StepIds
<1>1. doc \in Library /\ PlanFollows /\ Wired /\ AcyclicIn(StepIds) /\ Running
  BY DEF PlanInv
<1>2. \A step \in Steps : step.id \in StepIds
  BY <1>1, StepOf, PlannedFacts, DocFacts
<1> QED
  BY <1>1, <1>2 DEF Running

\* What the record of a step may become.
IsRecord(r) ==
    /\ r = [phase |-> r.phase, inputs |-> r.inputs, outputs |-> r.outputs, why |-> r.why]
    /\ r.phase \in Phases /\ Gives(r.outputs) /\ r.why # "incomplete"

LEMMA RecordKept ==
    ASSUME PlanInv, pc = "run", UNCHANGED <<doc, plan, pc, path, shut, error, given>>,
           NEW id \in StepIds, NEW after, IsRecord(after), state' = [state EXCEPT ![id] = after]
    PROVE  PlanInv'
<1>1. doc \in Library /\ PlanFollows /\ Wired /\ AcyclicIn(StepIds) /\ Running /\ DOMAIN state = StepIds
  BY RunFacts
<1>a. /\ UNCHANGED <<doc, plan>> /\ doc' = doc /\ pc' = pc /\ error' = error /\ given' = given
      /\ (error = "cycle" => HasKnot) /\ error # "incomplete"
  BY DEF PlanInv
<1>2. PlanFollows' /\ Wired' /\ AcyclicIn(StepIds)' /\ StepIds' = StepIds /\ (HasKnot' <=> HasKnot)
  BY <1>1, <1>a, PlanFrame, KnotFrame
<1>3. /\ DOMAIN state' = StepIds
      /\ \A s \in StepIds : state'[s] = IF s = id THEN after ELSE state[s]
  BY <1>1
<1>4. \A s \in StepIds : IsRecord(state[s])
  BY <1>1 DEF PlanInv, Running, IsRecord
<1>5. \A s \in StepIds : IsRecord(state'[s])
  BY <1>3, <1>4
<1>6. Running'
  BY <1>1, <1>2, <1>3, <1>5, <1>a DEF Running, IsRecord, Gives
<1>7. \A s \in DOMAIN state' : state'[s].why # "incomplete"
  BY <1>3, <1>5 DEF IsRecord
<1> QED
  BY <1>1, <1>2, <1>6, <1>7, <1>a DEF PlanInv

LEMMA RecordBuilt ==
    ASSUME NEW phase \in Phases, NEW inputs, NEW outputs, Gives(outputs), NEW why, why # "incomplete"
    PROVE  IsRecord([phase |-> phase, inputs |-> inputs, outputs |-> outputs, why |-> why])
BY DEF IsRecord, Gives

LEMMA FailedIsRecord ==
    ASSUME NEW why, why # "incomplete"
    PROVE  IsRecord(Failed(why))
<1> DEFINE failed == Failed(why)
<1>0. failed = [Waiting EXCEPT !.phase = "failed", !.why = why]
  BY DEF Failed
<1> HIDE DEF failed
<1>1. failed = [phase |-> "failed", inputs |-> <<>>, outputs |-> <<>>, why |-> why]
  BY <1>0 DEF Waiting
<1>2. "failed" \in Phases /\ Gives(<<>>)
  BY DEF Phases, Gives
<1> QED
  BY <1>1, <1>2, RecordBuilt DEF failed

LEMMA StartStep_PlanInv ==
    ASSUME PlanInv, NEW step \in Steps, StartStep(step)
    PROVE  PlanInv'
<1> DEFINE resolved == ResolveInputs(step)
           object   == ApplyValueFrom(step, resolved.object)
           admitted == EvalWhen(step, object)
           nulls    == [q \in {p.port : p \in ToSet(step.out)} |-> Null]
           skipped  == [Waiting EXCEPT !.phase = "skipped", !.outputs = nulls]
           called   == [Waiting EXCEPT !.phase = "called",
                                       !.inputs = ProjectDeclaredInputs(step, object)]
           after    == IF IsErr(resolved) THEN Failed(resolved.why)
                       ELSE IF \E n \in DOMAIN object : IsErr(object[n]) THEN Failed("valueFrom")
                       ELSE IF IsErr(admitted) THEN Failed("when")
                       ELSE IF ~admitted.truth THEN skipped
                       ELSE called
<1>1. /\ pc = "run" /\ UNCHANGED <<doc, plan, pc, path, shut, error, given>>
      /\ \A d \in plan.deps[step.id] : Produced(d)
  BY DEF StartStep
<1>2. state' = [state EXCEPT ![step.id] = after]
  BY Zenon DEF StartStep
<1>3. NotEarly(resolved)
  BY <1>1, RunFacts, InputsNotEarly
<1>4. IsErr(resolved) => IsRecord(Failed(resolved.why))
  <2> HIDE DEF resolved
  <2> QED
    BY <1>3, FailedIsRecord DEF NotEarly
<1>5. IsRecord(Failed("valueFrom")) /\ IsRecord(Failed("when"))
  BY FailedIsRecord
<1>6. IsRecord(skipped)
  <2>1. Gives(nulls)
    BY ValuesAssumption DEF Gives
  <2>a. skipped = [Waiting EXCEPT !.phase = "skipped", !.outputs = nulls]
    OBVIOUS
  <2> HIDE DEF nulls, skipped
  <2>2. skipped = [phase |-> "skipped", inputs |-> <<>>, outputs |-> nulls, why |-> NoError]
    BY <2>a DEF Waiting
  <2>3. "skipped" \in Phases /\ NoError # "incomplete"
    BY DEF Phases, NoError
  <2> QED
    BY <2>1, <2>2, <2>3, RecordBuilt
<1>7. IsRecord(called)
  <2> DEFINE projected == ProjectDeclaredInputs(step, object)
  <2>1. called = [Waiting EXCEPT !.phase = "called", !.inputs = projected]
    OBVIOUS
  <2> HIDE DEF projected, called
  <2>2. called = [phase |-> "called", inputs |-> projected, outputs |-> <<>>, why |-> NoError]
    BY <2>1 DEF Waiting
  <2>3. "called" \in Phases /\ NoError # "incomplete" /\ Gives(<<>>)
    BY DEF Phases, NoError, Gives
  <2> QED
    BY <2>2, <2>3, RecordBuilt
<1>8. IsRecord(after)
  <2> HIDE DEF resolved, object, admitted, skipped, called
  <2> QED
    BY <1>4, <1>5, <1>6, <1>7
<1> HIDE DEF after
<1> QED
  BY <1>1, <1>2, <1>8, RunFacts, RecordKept

LEMMA HandlerReturns_PlanInv ==
    ASSUME PlanInv, NEW step \in Steps, HandlerReturns(step)
    PROVE  PlanInv'
<1> DEFINE id == step.id
<1>1. pc = "run" /\ UNCHANGED <<doc, plan, pc, path, shut, error, given>>
  BY DEF HandlerReturns
<1>2. id \in StepIds /\ Running /\ DOMAIN state = StepIds
  BY <1>1, RunFacts
<1>3. ASSUME NEW object \in [{p.port : p \in ToSet(step.out)} -> HandlerValues],
             state' = [state EXCEPT ![step.id].phase = "success", ![step.id].outputs = object]
      PROVE  PlanInv'
  <2> DEFINE after == [phase |-> "success", inputs |-> state[id].inputs,
                       outputs |-> object, why |-> state[id].why]
  <2>1. Gives(object)
    BY ValuesAssumption DEF Gives
  <2>2. state[id].why # "incomplete"
    BY <1>2 DEF PlanInv
  <2>3. IsRecord(after)
    <3>1. "success" \in Phases
      BY DEF Phases
    <3> QED
      BY <2>1, <2>2, <3>1, RecordBuilt
  <2>4. state' = [state EXCEPT ![id] = after]
    <3> DEFINE was == state[id]
               is  == [was EXCEPT !.phase = "success", !.outputs = object]
    <3>1. was = [phase |-> was.phase, inputs |-> was.inputs, outputs |-> was.outputs, why |-> was.why]
      BY <1>2 DEF Running
    <3>2. state' = [state EXCEPT ![id] = is]
      BY <1>2, <1>3
    <3>3. is = after
      <4> HIDE DEF was
      <4>0. is = [was EXCEPT !.phase = "success", !.outputs = object]
        OBVIOUS
      <4> HIDE DEF is
      <4>1. is = [phase |-> "success", inputs |-> was.inputs, outputs |-> object, why |-> was.why]
        BY <3>1, <4>0
      <4> QED
        BY <4>1 DEF was
    <3> HIDE DEF is
    <3> QED
      BY <3>2, <3>3
  <2> HIDE DEF after
  <2> QED
    BY <1>1, <1>2, <2>3, <2>4, RecordKept
<1>4. CASE state' = [state EXCEPT ![step.id] = Failed("handler")]
  <2>1. IsRecord(Failed("handler"))
    BY FailedIsRecord
  <2> QED
    BY <1>1, <1>2, <1>4, <2>1, RecordKept
<1> QED
  BY <1>3, <1>4 DEF HandlerReturns

LEMMA FinishRun_PlanInv ==
    ASSUME PlanInv, FinishRun
    PROVE  PlanInv'
<1> DEFINE n == Len(Outputs)
           r == [i \in DOMAIN Outputs |-> RunOutput(Outputs[i])]
<1>1. /\ pc = "run" /\ (\A s \in DOMAIN state : Produced(s)) /\ UNCHANGED <<doc, plan, path, shut, given, state>>
      /\ pc' = "over" /\ error' = (IF IsErr(Collected(r)) THEN Collected(r).why ELSE "success")
  BY DEF FinishRun, Stop
<1>2. doc \in Library /\ PlanFollows /\ Wired /\ Running /\ DOMAIN state = StepIds
  BY <1>1, RunFacts
<1>3. n \in Nat /\ DOMAIN Outputs = 1..n
  <2>1. CASE doc.bare
    <3>0. Len(doc.steps) = 1
      BY <1>2, <2>1, DocFacts, Zenon DEF IsDocument
    <3>1. doc.steps[1] \in ToSet(doc.steps)
      BY <1>2, <3>0, DocFacts
    <3>2. doc.steps[1].out \in Seq(ToSet(doc.steps[1].out))
      BY <1>2, <3>1, DocFacts, Zenon DEF IsDocument
    <3>3. DOMAIN Outputs = 1..Len(doc.steps[1].out) /\ Len(doc.steps[1].out) \in Nat
      BY <2>1, <3>2 DEF Outputs
    <3> QED
      BY <3>3, LengthOf
  <2>2. CASE ~doc.bare
    <3>1. doc.outputs \in Seq(ToSet(doc.outputs))
      BY <1>2, DocFacts, Zenon DEF IsDocument
    <3>2. Outputs = doc.outputs
      BY <2>2, Zenon DEF Outputs
    <3> QED
      BY <3>1, <3>2
  <2> QED
    BY <2>1, <2>2
<1>4. ASSUME NEW i \in 1..n
      PROVE  NotEarly(RunOutput(Outputs[i]))
  <2> DEFINE out == Outputs[i]
  <2>1. out.source \in Seq(ToSet(out.source))
    <3>1. CASE doc.bare
      <4>1. out.source = <<doc.steps[1].out[i].id>>
        BY <1>3, <3>1 DEF Outputs
      <4> QED
        BY <4>1 DEF ToSet
    <3>2. CASE ~doc.bare
      <4>1. Outputs = doc.outputs
        BY <3>2, Zenon DEF Outputs
      <4>2. doc.outputs[i] \in ToSet(doc.outputs)
        BY <1>3, <4>1 DEF ToSet
      <4> QED
        BY <1>2, <4>1, <4>2, DocFacts, Zenon DEF IsDocument
    <3> QED
      BY <3>1, <3>2
  <2>2. ASSUME NEW src \in ToSet(out.source)
        PROVE  SourceValue(src) \in Known
    <3>1. src \in DOMAIN plan.sources
      BY <1>2, <1>3, <2>2 DEF Wired
    <3>2. plan.sources[src].step = NoStep \/ plan.sources[src].step \in StepIds
      <4>1. Len(plan.steps) = Len(doc.steps)
        BY <1>2 DEF Wired
      <4> QED
        BY <1>2, <3>1, <4>1, DocFacts DEF PlanFollows
    <3> QED
      BY <1>1, <1>2, <3>2, SourceKnown
  <2> HIDE DEF out
  <2>3. Sound(SinkValue(out))
    BY <2>1, <2>2, SinkSound
  <2>4. NotEarly(SinkValue(out))
    BY <2>3, SoundNotEarly
  <2>5. NotEarly(Null) /\ NotEarly(Fails("output type"))
    BY DEF NotEarly, Null, Fails, IsErr
  <2>6. RunOutput(out) \in {Null, SinkValue(out), Fails("output type")}
    BY Zenon DEF RunOutput
  <2>7. NotEarly(RunOutput(out))
    BY <2>4, <2>5, <2>6
  <2> QED
    BY <2>7 DEF out
<1>5. NotEarly(Collected(r))
  <2>1. DOMAIN r = 1..n /\ \A i \in 1..n : NotEarly(r[i])
    BY <1>3, <1>4
  <2> HIDE DEF r, n
  <2> QED
    BY <1>3, <2>1, CollectedNotEarly
<1> HIDE DEF r
<1>6. error' # "cycle" /\ error' # "incomplete"
  BY <1>1, <1>5 DEF NotEarly
<1>7. \A s \in DOMAIN state : state[s].why # "incomplete"
  BY DEF PlanInv
<1> QED
  BY <1>1, <1>2, <1>6, <1>7 DEF PlanInv

LEMMA Next_PlanInv == PlanInv /\ [Next]_vars => PlanInv'
<1> SUFFICES ASSUME PlanInv, [Next]_vars
             PROVE  PlanInv'
  OBVIOUS
<1>1. CASE UNCHANGED vars
  <2>1. UNCHANGED <<doc, plan>> /\ UNCHANGED <<doc, given, state>>
        /\ pc' = pc /\ path' = path /\ shut' = shut /\ error' = error /\ state' = state
    BY <1>1 DEF vars
  <2>2. /\ (PlanFollows' <=> PlanFollows) /\ (Wired' <=> Wired) /\ (Running' <=> Running)
        /\ (AcyclicIn(StepIds)' <=> AcyclicIn(StepIds)) /\ (HasKnot' <=> HasKnot) /\ StepIds' = StepIds
    BY <2>1, PlanFrame, RunningFrame, KnotFrame
  <2>3. Walk' <=> Walk
    BY <2>1, <2>2 DEF Walk, AcyclicIn
  <2> QED
    BY <2>1, <2>2, <2>3 DEF PlanInv
<1>2. ASSUME NEW step \in Steps, StartStep(step) \/ HandlerReturns(step)
      PROVE  PlanInv'
  BY <1>2, StartStep_PlanInv, HandlerReturns_PlanInv
<1>3. CASE AddStep
  BY <1>3, AddStep_PlanInv
<1>4. CASE BareProcessPlan
  BY <1>4, BareProcessPlan_PlanInv
<1>5. CASE AddWorkflowOutputs
  BY <1>5, AddWorkflowOutputs_PlanInv
<1>6. CASE ResolveEdges
  BY <1>6, ResolveEdges_PlanInv
<1>7. CASE VisitRoot
  BY <1>7, VisitRoot_PlanInv
<1>8. CASE VisitDep
  BY <1>8, VisitDep_PlanInv
<1>9. CASE ShutStep
  BY <1>9, ShutStep_PlanInv
<1>10. CASE NoCycle
  BY <1>10, NoCycle_PlanInv
<1>11. CASE StartRun
  BY <1>11, StartRun_PlanInv
<1>12. CASE FinishRun
  BY <1>12, FinishRun_PlanInv
<1> QED
  BY <1>1, <1>2, <1>3, <1>4, <1>5, <1>6, <1>7, <1>8, <1>9, <1>10, <1>11, <1>12 DEF Next

\* The inductive invariant: what newPlan has made of a document at each stage of it, and what
\* the run of the plan can then read (plan.go, plan_step.go, loop.go).
THEOREM PlanInvariant == Spec => []PlanInv
<1>1. Init => PlanInv
  BY Init_PlanInv
<1>2. PlanInv /\ [Next]_vars => PlanInv'
  BY Next_PlanInv
<1> QED
  BY <1>1, <1>2, PTL DEF Spec

\* Of the steps that have not produced, one is out, has failed, or is ready.
LEMMA OneIsReady ==
    ASSUME PlanInv, pc = "run"
    PROVE  \/ \A s \in DOMAIN state : Produced(s)
           \/ \E s \in DOMAIN state :
                \/ state[s].phase \in {"called", "failed"}
                \/ state[s].phase = "waiting" /\ \A d \in plan.deps[s] : Produced(d)
<1> SUFFICES ASSUME \E s \in DOMAIN state : ~Produced(s),
                    \A s \in DOMAIN state : state[s].phase \notin {"called", "failed"}
             PROVE  \E s \in DOMAIN state :
                       state[s].phase = "waiting" /\ \A d \in plan.deps[s] : Produced(d)
  OBVIOUS
<1>1. doc \in Library /\ PlanFollows /\ Wired /\ AcyclicIn(StepIds) /\ Running /\ DOMAIN state = StepIds
  BY RunFacts
<1> DEFINE T == {s \in StepIds : ~Produced(s)}
<1>2. T \in SUBSET StepIds /\ T # {}
  BY <1>1
<1>3. PICK s \in T : plan.deps[s] \intersect T = {}
  BY <1>1, <1>2 DEF AcyclicIn
<1>4. plan.deps[s] \subseteq StepIds
  BY <1>1, <1>3, DepsAreSteps
<1>5. \A d \in plan.deps[s] : Produced(d)
  BY <1>3, <1>4
<1>6. state[s].phase = "waiting"
  BY <1>1, <1>3 DEF Running, Phases, Produced
<1> QED
  BY <1>1, <1>3, <1>5, <1>6

\* A document is refused for a cycle only when it has one, a plan that is run has none, no
\* sink of a run is read before its source has produced, and a run that has not failed has
\* a step to start, one out, or nothing left (newPlan and checkAcyclic of plan.go, against
\* sourceValue of loop.go).
THEOREM PlanEnough == Spec => []PlanSufficient
<1>1. PlanInv => PlanSufficient
  <2> SUFFICES ASSUME PlanInv PROVE PlanSufficient
    OBVIOUS
  <2>1. error = "cycle" => \E S \in SUBSET {step.id : step \in ToSet(doc.steps)} : Knot(S)
    BY DEF PlanInv, HasKnot, StepIds
  <2>2. ASSUME pc = "run", NEW S \in SUBSET StepIds
        PROVE  ~Knot(S)
    <3>1. doc \in Library /\ PlanFollows /\ Wired /\ AcyclicIn(StepIds)
      BY <2>2, RunFacts
    <3> QED
      BY <3>1, Knots DEF AcyclicIn
  <2>3. error # "incomplete" /\ \A s \in DOMAIN state : state[s].why # "incomplete"
    BY DEF PlanInv
  <2>4. pc = "run" => \A S \in SUBSET {step.id : step \in ToSet(doc.steps)} : ~Knot(S)
    BY <2>2 DEF StepIds
  <2> QED
    BY <2>1, <2>3, <2>4, OneIsReady, Zenon DEF PlanSufficient
<1> QED
  BY <1>1, PlanInvariant, PTL

\* What LoopState assumes of its plan (AcyclicAssumption), of every plan newPlan accepts: any
\* steps of it have one among them that reads from none of the others, and no step reads from
\* anything that is not a step.
PlansRunAcyclic ==
    pc \in {"start", "run"} =>
        /\ DOMAIN plan.deps = StepIds /\ AcyclicIn(StepIds)
        /\ \A s \in StepIds : plan.deps[s] \subseteq StepIds

\* A plan checkAcyclic has passed is one the event loop may be given.
THEOREM AcyclicForLoop == Spec => []PlansRunAcyclic
<1>1. PlanInv => PlansRunAcyclic
  <2> SUFFICES ASSUME PlanInv, pc \in {"start", "run"}
               PROVE  /\ DOMAIN plan.deps = StepIds /\ AcyclicIn(StepIds)
                      /\ \A s \in StepIds : plan.deps[s] \subseteq StepIds
    BY DEF PlansRunAcyclic
  <2>1. doc \in Library /\ PlanFollows /\ Wired /\ AcyclicIn(StepIds)
    BY DEF PlanInv
  <2> QED
    BY <2>1, DepsAreSteps DEF Wired
<1> QED
  BY <1>1, PlanInvariant, PTL

(***************************************************************************)
(* What a handler was given stays what its sources say.                    *)
(***************************************************************************)

\* Steps of a plan are told apart by their names.
LEMMA SameStep ==
    ASSUME doc \in Library, PlanFollows, NEW one \in Steps, NEW two \in Steps, one.id = two.id
    PROVE  one = two
<1>1. PICK i \in 1..Len(plan.steps) : one = PlannedStep(doc.steps[i])
  BY StepOf
<1>2. PICK j \in 1..Len(plan.steps) : two = PlannedStep(doc.steps[j])
  BY StepOf
<1>3. doc.steps[i].id = doc.steps[j].id
  BY <1>1, <1>2, PlannedFacts
<1>4. i = j
  BY <1>3, Zenon DEF PlanFollows
<1> QED
  BY <1>1, <1>2, <1>4

\* What a step of a plan has of its document.
LEMMA StepFacts ==
    ASSUME doc \in Library, PlanFollows, Wired, NEW step \in Steps
    PROVE  /\ step.id \in StepIds
           /\ \A i, j \in DOMAIN step.in : step.in[i].id = step.in[j].id => i = j
           /\ \A i \in DOMAIN step.in : \A j \in DOMAIN step.in[i].source :
                LET at == plan.sources[step.in[i].source[j]].step
                IN at = NoStep \/ at \in plan.deps[step.id]
           /\ doc.bare => step.in = <<>>
<1>1. PICK k \in 1..Len(doc.steps) : step = PlannedStep(doc.steps[k])
  BY StepOf
<1>2. step.id = doc.steps[k].id /\ step.in = doc.steps[k].in
  BY <1>1, PlannedFacts
<1>3. doc.steps[k] \in ToSet(doc.steps) /\ doc.steps[k].id \in StepIds /\ IsDocument(doc)
  BY DocFacts
<1>4. \A i, j \in DOMAIN step.in : step.in[i].id = step.in[j].id => i = j
  BY <1>2, <1>3, Zenon DEF IsDocument
<1>5. ASSUME NEW i \in DOMAIN step.in, NEW j \in DOMAIN step.in[i].source
      PROVE  \/ plan.sources[step.in[i].source[j]].step = NoStep
             \/ plan.sources[step.in[i].source[j]].step \in plan.deps[step.id]
  <2>1. step.in[i].source[j] \in StepSources(doc.steps[k])
    BY <1>2 DEF StepSources, ToSet
  <2> QED
    BY <1>2, <2>1, SourceStep
<1>6. doc.bare => step.in = <<>>
  <2> SUFFICES ASSUME doc.bare PROVE step.in = <<>>
    OBVIOUS
  <2>1. Len(doc.steps) = 1 /\ doc.steps[1].in = <<>>
    BY <1>3, Zenon DEF IsDocument
  <2> QED
    BY <1>2, <2>1
<1> QED
  BY <1>2, <1>3, <1>4, <1>5, <1>6

\* A source that is an input of the run, or of a step that does not move, reads as before.
LEMMA SourceFrame ==
    ASSUME UNCHANGED <<plan, given>>, NEW id,
           plan.sources[id].step = NoStep \/ state'[plan.sources[id].step] = state[plan.sources[id].step]
    PROVE  SourceValue(id)' = SourceValue(id)
BY DEF SourceValue, Produced

LEMMA SinkFrame ==
    ASSUME NEW sink, \A i \in DOMAIN sink.source : SourceValue(sink.source[i])' = SourceValue(sink.source[i])
    PROVE  SinkValue(sink)' = SinkValue(sink)
<1> DEFINE r == [i \in DOMAIN sink.source |-> SourceValue(sink.source[i])]
<1>1. r' = r
  OBVIOUS
<1>2. SinkValue(sink) = LET values == Collected(r)
                        IN IF IsErr(values) THEN values ELSE Pick(sink, Merge(sink, values.items))
  BY DEF SinkValue
<1>3. SinkValue(sink)' = LET values == Collected(r')
                         IN IF IsErr(values) THEN values ELSE Pick(sink, Merge(sink, values.items))
  BY DEF SinkValue
<1> HIDE DEF r
<1> QED
  BY <1>1, <1>2, <1>3

\* So does the input object of a step whose sources do.
LEMMA InputsFrame ==
    ASSUME UNCHANGED <<doc, given>>, NEW step,
           \A i \in DOMAIN step.in : \A j \in DOMAIN step.in[i].source :
               SourceValue(step.in[i].source[j])' = SourceValue(step.in[i].source[j])
    PROVE  ResolveInputs(step)' = ResolveInputs(step)
<1>1. CASE doc.bare
  BY <1>1 DEF ResolveInputs, BareInputs
<1>2. CASE ~doc.bare
  <2> DEFINE pick(n) == CHOOSE i \in DOMAIN step.in : step.in[i].id = n
             names == {step.in[i].id : i \in DOMAIN step.in}
             own == [n \in names |-> ResolveInput(step, step.in[pick(n)])]
             made(o) ==
               LET resolved == Collected([i \in DOMAIN step.in |-> o[step.in[i].id]])
                   filled   == FillProcessDefaults(step, o)
                   object   == [n \in DOMAIN filled |-> PathsSet(filled[n])]
               IN IF IsErr(resolved) THEN resolved
                  ELSE IF \E n \in DOMAIN filled : IsErr(filled[n]) THEN Fails("default")
                  ELSE IF \E n \in DOMAIN step.secondary : ~Accompanied(Get(object, n), step.secondary[n])
                  THEN Fails("secondary")
                  ELSE [kind |-> "object", object |-> object]
  <2>1. ASSUME NEW i \in DOMAIN step.in
        PROVE  ResolveInput(step, step.in[i])' = ResolveInput(step, step.in[i])
    <3>1. SinkValue(step.in[i])' = SinkValue(step.in[i])
      BY SinkFrame
    <3> QED
      BY <3>1 DEF ResolveInput
  <2>2. \A n \in names : pick(n) \in DOMAIN step.in
    OBVIOUS
  <2>3. own' = own
    <3>1. \A n \in names : ResolveInput(step, step.in[pick(n)])' = ResolveInput(step, step.in[pick(n)])
      BY <2>1, <2>2
    <3> QED
      BY <3>1
  <2>4. ResolveInputs(step) = made(own)
    BY <1>2, Zenon DEF ResolveInputs
  <2>5. ResolveInputs(step)' = made(own')
    BY <1>2, Zenon DEF ResolveInputs
  <2> HIDE DEF own, made
  <2> QED
    BY <2>3, <2>4, <2>5
<1> QED
  BY <1>1, <1>2

\* The inductive form of GivenStays: what a step that is out was given, and that what it
\* reads from has produced, so that it cannot change.
Given(step) ==
    LET resolved == ResolveInputs(step)
    IN /\ ~IsErr(resolved)
       /\ state[step.id].inputs = ProjectDeclaredInputs(step, ApplyValueFrom(step, resolved.object))

GivenInv ==
    pc = "run" => \A step \in Steps : state[step.id].phase = "called" =>
        Given(step) /\ \A d \in plan.deps[step.id] : Produced(d)

\* Nothing a step whose sources have produced reads moves when another step does.
LEMMA OthersMove ==
    ASSUME PlanInv, pc = "run", UNCHANGED <<doc, plan, given>>,
           NEW id \in StepIds, ~Produced(id), NEW after, state' = [state EXCEPT ![id] = after],
           NEW step \in Steps, \A d \in plan.deps[step.id] : Produced(d)
    PROVE  /\ ResolveInputs(step)' = ResolveInputs(step)
           /\ \A d \in plan.deps[step.id] : Produced(d)'
<1>1. doc \in Library /\ PlanFollows /\ Wired /\ DOMAIN state = StepIds
  BY RunFacts
<1>2. step.id \in StepIds /\ plan.deps[step.id] \subseteq StepIds
  BY <1>1, StepFacts, DepsAreSteps
<1>3. \A d \in plan.deps[step.id] : state'[d] = state[d]
  BY <1>1, <1>2
<1>4. ASSUME NEW i \in DOMAIN step.in, NEW j \in DOMAIN step.in[i].source
      PROVE  SourceValue(step.in[i].source[j])' = SourceValue(step.in[i].source[j])
  <2>1. \/ plan.sources[step.in[i].source[j]].step = NoStep
        \/ plan.sources[step.in[i].source[j]].step \in plan.deps[step.id]
    BY <1>1, StepFacts
  <2> QED
    BY <1>3, <2>1, SourceFrame
<1>5. ResolveInputs(step)' = ResolveInputs(step)
  BY <1>4, InputsFrame
<1>6. \A d \in plan.deps[step.id] : Produced(d)'
  BY <1>3 DEF Produced
<1> QED
  BY <1>5, <1>6

\* One step moves, to a record that is no call or to one that was given what it should be.
LEMMA GivenKept ==
    ASSUME PlanInv, GivenInv, pc = "run", UNCHANGED <<doc, plan, given>>,
           NEW mover \in Steps, ~Produced(mover.id), NEW after,
           state' = [state EXCEPT ![mover.id] = after],
           after.phase = "called" =>
             /\ ~IsErr(ResolveInputs(mover)) /\ \A d \in plan.deps[mover.id] : Produced(d)
             /\ after.inputs = ProjectDeclaredInputs(mover, ApplyValueFrom(mover, ResolveInputs(mover).object))
    PROVE  GivenInv'
<1>1. doc \in Library /\ PlanFollows /\ DOMAIN state = StepIds /\ \A step \in Steps : step.id \in StepIds
  BY RunFacts
<1>2. Steps' = Steps /\ plan' = plan /\ doc' = doc
  BY DEF Steps
<1>3. \A step, object : ApplyValueFrom(step, object)' = ApplyValueFrom(step, object)
  BY <1>2 DEF ApplyValueFrom
<1>4. ASSUME NEW step \in Steps, state'[step.id].phase = "called"
      PROVE  Given(step)' /\ \A d \in plan.deps[step.id] : Produced(d)'
  <2>1. \A d \in plan.deps[step.id] : Produced(d)
    <3>1. CASE step.id = mover.id
      BY <1>1, <1>4, <3>1
    <3>2. CASE step.id # mover.id
      BY <1>1, <1>4, <3>2 DEF GivenInv
    <3> QED
      BY <3>1, <3>2
  <2>2. ResolveInputs(step)' = ResolveInputs(step) /\ \A d \in plan.deps[step.id] : Produced(d)'
    BY <1>1, <2>1, OthersMove
  <2>3. /\ ~IsErr(ResolveInputs(step))
        /\ state'[step.id].inputs =
             ProjectDeclaredInputs(step, ApplyValueFrom(step, ResolveInputs(step).object))
    <3>1. CASE step.id = mover.id
      <4>1. step = mover
        BY <1>1, <3>1, SameStep
      <4> QED
        BY <1>1, <1>4, <4>1
    <3>2. CASE step.id # mover.id
      <4>1. state'[step.id] = state[step.id]
        BY <1>1, <3>2
      <4> QED
        BY <1>4, <4>1 DEF GivenInv, Given
    <3> QED
      BY <3>1, <3>2
  <2>4. Given(step)'
    <3>1. Given(step)' =
            ( /\ ~IsErr(ResolveInputs(step)')
              /\ state'[step.id].inputs =
                   ProjectDeclaredInputs(step, ApplyValueFrom(step, ResolveInputs(step)'.object)) )
      BY <1>3 DEF Given
    <3> QED
      BY <2>2, <2>3, <3>1
  <2> QED
    BY <2>2, <2>4
<1> QED
  BY <1>2, <1>4 DEF GivenInv

LEMMA StartStep_Given ==
    ASSUME PlanInv, GivenInv, NEW step \in Steps, StartStep(step)
    PROVE  GivenInv'
<1> DEFINE resolved == ResolveInputs(step)
           object   == ApplyValueFrom(step, resolved.object)
           admitted == EvalWhen(step, object)
           nulls    == [q \in {p.port : p \in ToSet(step.out)} |-> Null]
           skipped  == [Waiting EXCEPT !.phase = "skipped", !.outputs = nulls]
           called   == [Waiting EXCEPT !.phase = "called",
                                       !.inputs = ProjectDeclaredInputs(step, object)]
           after    == IF IsErr(resolved) THEN Failed(resolved.why)
                       ELSE IF \E n \in DOMAIN object : IsErr(object[n]) THEN Failed("valueFrom")
                       ELSE IF IsErr(admitted) THEN Failed("when")
                       ELSE IF ~admitted.truth THEN skipped
                       ELSE called
<1>1. /\ pc = "run" /\ UNCHANGED <<doc, plan, given>>
      /\ state[step.id].phase = "waiting" /\ \A d \in plan.deps[step.id] : Produced(d)
  BY DEF StartStep
<1>2. state' = [state EXCEPT ![step.id] = after]
  BY Zenon DEF StartStep
<1>3. ~Produced(step.id)
  BY <1>1 DEF Produced
<1>4. \A why : Failed(why).phase = "failed"
  BY DEF Failed, Waiting
<1>5. skipped.phase = "skipped"
  BY DEF Waiting
<1>6. called.inputs = ProjectDeclaredInputs(step, object)
  BY DEF Waiting
<1>7. after.phase = "called" => ~IsErr(resolved) /\ after.inputs = ProjectDeclaredInputs(step, object)
  <2> HIDE DEF resolved, object, admitted, skipped, called
  <2> QED
    BY <1>4, <1>5, <1>6
<1> HIDE DEF after
<1> QED
  BY <1>1, <1>2, <1>3, <1>7, GivenKept

LEMMA HandlerReturns_Given ==
    ASSUME PlanInv, GivenInv, NEW step \in Steps, HandlerReturns(step)
    PROVE  GivenInv'
<1> DEFINE id == step.id
<1>1. pc = "run" /\ UNCHANGED <<doc, plan, given>> /\ state[id].phase = "called"
  BY DEF HandlerReturns
<1>2. id \in StepIds /\ DOMAIN state = StepIds /\ ~Produced(id)
  BY <1>1, RunFacts DEF Produced
<1>3. \E after : after.phase # "called" /\ state' = [state EXCEPT ![id] = after]
  <2>1. ASSUME NEW object,
               state' = [state EXCEPT ![step.id].phase = "success", ![step.id].outputs = object]
        PROVE  \E after : after.phase # "called" /\ state' = [state EXCEPT ![id] = after]
    <3> DEFINE was == state[id]
               is  == [was EXCEPT !.phase = "success", !.outputs = object]
    <3>1. was = [phase |-> was.phase, inputs |-> was.inputs, outputs |-> was.outputs, why |-> was.why]
      BY <1>1, <1>2, RunFacts DEF Running
    <3>2. state' = [state EXCEPT ![id] = is]
      BY <1>2, <2>1
    <3>3. is.phase # "called"
      <4> HIDE DEF was
      <4> QED
        BY <3>1
    <3> HIDE DEF is
    <3> QED
      BY <3>2, <3>3
  <2>2. Failed("handler").phase # "called"
    BY DEF Failed, Waiting
  <2> QED
    BY <2>1, <2>2 DEF HandlerReturns
<1>4. PICK after : after.phase # "called" /\ state' = [state EXCEPT ![id] = after]
  BY <1>3
<1> QED
  BY <1>1, <1>2, <1>4, GivenKept

\* Every input of a step has its place in the object.
LEMMA GivenNames ==
    ASSUME ~doc.bare, NEW step, ~IsErr(ResolveInputs(step)), NEW i \in DOMAIN step.in
    PROVE  step.in[i].id \in DOMAIN ResolveInputs(step).object
<1> DEFINE names == {step.in[j].id : j \in DOMAIN step.in}
           own == [n \in names |-> ResolveInput(step, step.in[CHOOSE j \in DOMAIN step.in : step.in[j].id = n])]
           resolved == Collected([j \in DOMAIN step.in |-> own[step.in[j].id]])
           filled == FillProcessDefaults(step, own)
           object == [n \in DOMAIN filled |-> PathsSet(filled[n])]
<1>1. \A why : IsErr(Fails(why))
  BY DEF IsErr, Fails
<1>2. \/ ResolveInputs(step) = resolved /\ IsErr(resolved)
      \/ ResolveInputs(step) \in {Fails("default"), Fails("secondary")}
      \/ ResolveInputs(step) = [kind |-> "object", object |-> object]
  BY Zenon DEF ResolveInputs
<1>3. ResolveInputs(step) = [kind |-> "object", object |-> object]
  BY <1>1, <1>2, Zenon
<1>4. step.in[i].id \in DOMAIN own
  OBVIOUS
<1>5. step.in[i].id \in DOMAIN filled
  <2> HIDE DEF own
  <2> QED
    BY <1>4 DEF FillProcessDefaults, Over
<1>6. DOMAIN object = DOMAIN filled
  OBVIOUS
<1> HIDE DEF object, filled
<1> QED
  BY <1>3, <1>5, <1>6

LEMMA Next_Given == PlanInv /\ GivenInv /\ [Next]_vars => GivenInv'
<1> SUFFICES ASSUME PlanInv, GivenInv, [Next]_vars
             PROVE  GivenInv'
  OBVIOUS
<1>1. ASSUME NEW step \in Steps, StartStep(step) \/ HandlerReturns(step)
      PROVE  GivenInv'
  BY <1>1, StartStep_Given, HandlerReturns_Given
<1>2. CASE StartRun
  <2>1. pc' = "run" => plan' = plan /\ state' = [s \in DOMAIN plan.deps |-> Waiting]
    BY <1>2 DEF StartRun, Stop
  <2>2. doc \in Library /\ PlanFollows /\ Wired
    BY <1>2 DEF StartRun, PlanInv
  <2>3. \A step \in Steps : step.id \in DOMAIN plan.deps
    BY <2>2, StepFacts DEF Wired
  <2>4. Waiting.phase # "called"
    BY DEF Waiting
  <2>5. pc' = "run" => Steps' = Steps /\ \A step \in Steps : state'[step.id].phase # "called"
    <3> SUFFICES ASSUME pc' = "run"
                 PROVE  Steps' = Steps /\ \A step \in Steps : state'[step.id].phase # "called"
      OBVIOUS
    <3>1. Steps' = Steps
      BY <2>1 DEF Steps
    <3>2. \A step \in Steps : state'[step.id] = Waiting
      BY <2>1, <2>3
    <3> QED
      BY <2>4, <3>1, <3>2
  <2>6. \A step \in Steps' : ~(pc' = "run" /\ state'[step.id].phase = "called")
    BY <2>5
  <2> QED
    BY <2>6 DEF GivenInv
<1>3. CASE UNCHANGED vars
  <2>1. UNCHANGED <<doc, plan, given>> /\ UNCHANGED <<plan, given>> /\ UNCHANGED <<doc, given>>
        /\ doc' = doc /\ state' = state /\ pc' = pc
    BY <1>3 DEF vars
  <2>2. ASSUME NEW step
        PROVE  Given(step)' <=> Given(step)
    <3>1. ResolveInputs(step)' = ResolveInputs(step)
      BY <2>1, SourceFrame, InputsFrame
    <3>2. \A object : ApplyValueFrom(step, object)' = ApplyValueFrom(step, object)
      BY <2>1 DEF ApplyValueFrom
    <3>3. Given(step)' <=>
            ( /\ ~IsErr(ResolveInputs(step)')
              /\ state'[step.id].inputs =
                   ProjectDeclaredInputs(step, ApplyValueFrom(step, ResolveInputs(step)'.object)) )
      BY <3>2 DEF Given
    <3> QED
      BY <2>1, <3>1, <3>3 DEF Given
  <2>3. Steps' = Steps /\ \A d : Produced(d)' <=> Produced(d)
    BY <2>1 DEF Steps, Produced
  <2> QED
    BY <2>1, <2>2, <2>3 DEF GivenInv
<1>4. CASE \/ AddStep \/ BareProcessPlan \/ AddWorkflowOutputs \/ ResolveEdges
           \/ VisitRoot \/ VisitDep \/ ShutStep \/ NoCycle \/ FinishRun
  <2>1. pc' # "run"
    BY <1>4 DEF AddStep, BareProcessPlan, AddWorkflowOutputs, ResolveEdges, VisitRoot, VisitDep,
                ShutStep, NoCycle, FinishRun, Stop
  <2> QED
    BY <2>1 DEF GivenInv
<1> QED
  BY <1>1, <1>2, <1>3, <1>4 DEF Next

\* What a handler is given stays what its step's inputs come to while it is out, and every
\* valueFrom of a step sees the same object (startStep, resolveInputs, applyValueFrom).
THEOREM GivenIsSteady == Spec => []GivenStays
<1>1. Init => GivenInv
  BY DEF Init, GivenInv
<1>2. PlanInv /\ GivenInv => GivenStays
  <2> SUFFICES ASSUME PlanInv, GivenInv, pc = "run", NEW step \in Steps,
                      state[step.id].phase = "called"
               PROVE  LET resolved == ResolveInputs(step)
                          inputs   == state[step.id].inputs
                      IN /\ ~IsErr(resolved)
                         /\ inputs = ProjectDeclaredInputs(step, ApplyValueFrom(step, resolved.object))
                         /\ \A i \in DOMAIN step.in :
                              LET in == step.in[i]
                              IN in.id \in step.declared /\ in.valueFrom # Unset =>
                                   inputs[in.id] = Eval(doc.programs[in.valueFrom], resolved.object,
                                                        resolved.object[in.id])
    BY DEF GivenStays
  <2> DEFINE resolved == ResolveInputs(step)
             object   == resolved.object
             applied  == ApplyValueFrom(step, object)
  <2>1. ~IsErr(resolved) /\ state[step.id].inputs = ProjectDeclaredInputs(step, applied)
    BY DEF GivenInv, Given
  <2>2. doc \in Library /\ PlanFollows /\ Wired
    BY RunFacts
  <2>3. ASSUME NEW i \in DOMAIN step.in, step.in[i].id \in step.declared, step.in[i].valueFrom # Unset
        PROVE  state[step.id].inputs[step.in[i].id] =
                 Eval(doc.programs[step.in[i].valueFrom], object, object[step.in[i].id])
    <3> DEFINE id == step.in[i].id
    <3>1. ~doc.bare
      BY <2>2, StepFacts
    <3>2. id \in DOMAIN object
      BY <2>1, <3>1, GivenNames
    <3>3. (CHOOSE j \in DOMAIN step.in : step.in[j].id = id) = i
      BY <2>2, StepFacts
    <3>4. applied[id] = Eval(doc.programs[step.in[i].valueFrom], object, object[id])
      <4> HIDE DEF object
      <4> QED
        BY <2>3, <3>1, <3>2, <3>3 DEF ApplyValueFrom
    <3>5. DOMAIN applied = DOMAIN object
      <4> HIDE DEF object
      <4> QED
        BY <3>1 DEF ApplyValueFrom
    <3> HIDE DEF applied, object
    <3> QED
      BY <2>1, <2>3, <3>2, <3>4, <3>5 DEF ProjectDeclaredInputs
  <2> QED
    BY <2>1, <2>3
<1>3. PlanInv /\ GivenInv /\ [Next]_vars => GivenInv'
  BY Next_Given
<1> QED
  BY <1>1, <1>2, <1>3, PlanInvariant, PTL DEF Spec
=============================================================================
