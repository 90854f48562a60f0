-------------------------- MODULE SubworkflowProofs --------------------------
(***************************************************************************)
(* Proofs about runs inside runs: for every set of documents, any depth,   *)
(* cap, policy and answers.                                                *)
(***************************************************************************)
EXTENDS Subworkflow, SequenceTheorems, FiniteSetTheorems, TLAPS

StepNames == UNION {DOMAIN Steps(w) : w \in Names}
Paths     == Seq(StepNames)
Phases    == {"running", Suspended} \union Terminal
Statuses  == Terminal \union {"waiting", "out", "dropped", Suspended}

\* A run that has returned left handlers out only if it was given up, suspends only
\* over a step that does, and succeeds only if none does.
FrameInOrder(f) ==
    /\ f \in [wf : Names, ancestors : SUBSET Names, feature : BOOLEAN, byCaller : BOOLEAN,
              phase : Phases, stopped : BOOLEAN, status : [DOMAIN f.status -> Statuses]]
    /\ DOMAIN f.status = DOMAIN Steps(f.wf)
    /\ \A s \in DOMAIN f.status :
         /\ f.status[s] = "out" => f.phase \in {"running", "permanentFail"}
         /\ f.status[s] = "dropped" => f.phase = "permanentFail"
         /\ f.status[s] = Suspended => f.phase # Success
    /\ f.phase = Suspended => \E s \in DOMAIN f.status : f.status[s] = Suspended

\* Every run but the caller's is the run of a step of another run.
Nested ==
    /\ DOMAIN frames \subseteq Paths
    /\ \A p \in DOMAIN frames, q \in Paths : IsPrefix(q, p) => q \in DOMAIN frames

\* A step has a run below it while it runs a workflow and while that is suspended.
Attended ==
    \A p \in DOMAIN frames, s \in StepNames :
        LET f == frames[p]
            there == Below(p, s) \in DOMAIN frames
        IN  /\ there => /\ s \in DOMAIN f.status /\ Process(p, s) \in Names
                        /\ f.status[s] \in {"out", Suspended}
            /\ s \in DOMAIN f.status /\ f.status[s] = Suspended /\ Process(p, s) \in Names => there

\* How deep the caller's own runs are after so many answers.
Budget(n) == n * Cardinality(Names)

\* descend: a run's list holds it and all the runs it is inside of, up to the nearest one
\* the caller drives, whose list is empty.
Listed ==
    /\ answers \in Nat
    /\ \A p \in DOMAIN frames :
         /\ IF frames[p].byCaller THEN frames[p].ancestors = {}
                                  ELSE frames[p].wf \in frames[p].ancestors
         /\ IsFiniteSet(frames[p].ancestors)
         /\ Len(p) <= Budget(answers) + Cardinality(frames[p].ancestors)
    /\ \A p, q \in DOMAIN frames : Unbroken(p, q) =>
         /\ frames[p].ancestors \subseteq frames[q].ancestors
         /\ p # q /\ ~frames[p].byCaller => frames[q].wf # frames[p].wf

\* While a step waits for the run below it, only the caller makes that run go on.
Awaited ==
    \A p \in DOMAIN frames, s \in StepNames :
        /\ Below(p, s) \in DOMAIN frames /\ frames[p].status[s] = Suspended
        /\ frames[Below(p, s)].phase # Suspended
        => frames[Below(p, s)].byCaller

NestedRunsInOrder ==
    /\ \A p \in DOMAIN frames : FrameInOrder(frames[p])
    /\ Nested
    /\ Attended
    /\ Listed
    /\ Awaited
-----------------------------------------------------------------------------
(* Paths.                                                                  *)

LEMMA PrefixMeans ==
    ASSUME NEW S, NEW p \in Seq(S), NEW q \in Seq(S)
    PROVE  IsPrefix(p, q) <=> /\ Len(p) <= Len(q)
                              /\ \A i \in 1..Len(p) : p[i] = q[i]
<1>1. Len(p) \in Nat /\ Len(q) \in Nat /\ SubSeq(p, 1, Len(p)) = p
  BY LenProperties, SubSeqFull
<1>2. ASSUME Len(p) <= Len(q)
      PROVE  SubSeq(q, 1, Len(p)) = p <=> \A i \in 1..Len(p) : p[i] = q[i]
  <2>1. \A i \in 1..Len(p) : q[i] \in S
    BY <1>1, <1>2, LenProperties
  <2>2. /\ SubSeq(q, 1, Len(p)) \in Seq(S)
        /\ Len(SubSeq(q, 1, Len(p))) = Len(p)
        /\ \A i \in 1..Len(p) : SubSeq(q, 1, Len(p))[i] = q[i]
    BY <1>1, <2>1, SubSeqProperties
  <2> QED
    BY <2>2, SeqEqual
<1> QED
  BY <1>1, <1>2 DEF IsPrefix

LEMMA PrefixOrder ==
    /\ \A p \in Paths : IsPrefix(p, p)
    /\ \A p, q, r \in Paths : IsPrefix(p, q) /\ IsPrefix(q, r) => IsPrefix(p, r)
<1>1. \A p \in Paths : Len(p) \in Nat
  BY LenProperties DEF Paths
<1> QED
  BY <1>1, PrefixMeans DEF Paths

\* What lies above a path with one more step.
LEMMA PrefixOfBelow ==
    ASSUME NEW p \in Paths, NEW s \in StepNames
    PROVE  /\ Below(p, s) \in Paths /\ Len(Below(p, s)) = Len(p) + 1 /\ Below(p, s) # <<>>
           /\ IsPrefix(p, Below(p, s)) /\ ~IsPrefix(Below(p, s), p)
           /\ \A r \in Paths : IsPrefix(r, Below(p, s)) <=> r = Below(p, s) \/ IsPrefix(r, p)
           /\ \A q \in Paths, t \in StepNames : Below(p, s) = Below(q, t) => p = q /\ s = t
<1>1. /\ Below(p, s) \in Paths /\ Len(Below(p, s)) = Len(p) + 1 /\ Below(p, s) # <<>>
      /\ \A i \in 1..Len(p) : Below(p, s)[i] = p[i]
      /\ Len(p) \in Nat
  BY AppendProperties, LenProperties DEF Paths, Below
<1>2. IsPrefix(p, Below(p, s)) /\ ~IsPrefix(Below(p, s), p)
  BY <1>1, PrefixMeans DEF Paths
<1>3. ASSUME NEW r \in Paths, IsPrefix(r, Below(p, s)), r # Below(p, s)
      PROVE  IsPrefix(r, p)
  <2>1. /\ Len(r) \in Nat /\ Len(r) <= Len(p) + 1
        /\ \A i \in 1..Len(r) : r[i] = Below(p, s)[i]
    BY <1>1, <1>3, PrefixMeans, LenProperties DEF Paths
  <2>2. Len(r) # Len(p) + 1
    BY <1>1, <1>3, <2>1, SeqEqual DEF Paths
  <2>3. Len(r) <= Len(p) /\ \A i \in 1..Len(r) : r[i] = p[i]
    BY <1>1, <2>1, <2>2
  <2> QED
    BY <2>3, PrefixMeans DEF Paths
<1>4. \A r \in Paths : r = Below(p, s) \/ IsPrefix(r, p) => IsPrefix(r, Below(p, s))
  BY <1>1, <1>2, PrefixOrder
<1>5. \A q \in Paths, t \in StepNames : Below(p, s) = Below(q, t) => p = q /\ s = t
  BY AppendInjective DEF Paths, Below
<1> QED
  BY <1>1, <1>2, <1>3, <1>4, <1>5

\* The way from a run to one inside it goes through a step.
LEMMA WayDown ==
    ASSUME NEW p \in Paths, NEW q \in Paths, IsPrefix(p, q), p # q
    PROVE  \E s \in StepNames : IsPrefix(Below(p, s), q)
<1>1. /\ Len(p) \in Nat /\ Len(q) \in Nat /\ Len(p) <= Len(q)
      /\ \A i \in 1..Len(p) : p[i] = q[i]
  BY PrefixMeans, LenProperties DEF Paths
<1>2. Len(p) + 1 \in 1..Len(q)
  BY <1>1, SeqEqual DEF Paths
<1> DEFINE s == q[Len(p) + 1]
<1>3. s \in StepNames
  BY <1>2, ElementOfSeq DEF Paths
<1>4. /\ Below(p, s) \in Paths /\ Len(Below(p, s)) = Len(p) + 1
      /\ \A i \in 1..Len(p) : Below(p, s)[i] = p[i]
      /\ Below(p, s)[Len(p) + 1] = s
  BY <1>3, AppendProperties DEF Paths, Below
<1>5. \A i \in 1..(Len(p) + 1) : Below(p, s)[i] = q[i]
  BY <1>1, <1>4
<1>6. /\ Len(Below(p, s)) <= Len(q)
      /\ \A i \in 1..Len(Below(p, s)) : Below(p, s)[i] = q[i]
  BY <1>1, <1>2, <1>4, <1>5
<1>7. IsPrefix(Below(p, s), q)
  BY <1>4, <1>6, PrefixMeans DEF Paths
<1> QED
  BY <1>3, <1>7

\* What one more answer allows.
LEMMA BudgetGrows ==
    ASSUME NEW n \in Nat
    PROVE  /\ Cardinality(Names) \in Nat /\ Budget(n) \in Nat /\ Budget(n + 1) \in Nat
           /\ Budget(n + 1) = Budget(n) + Cardinality(Names)
<1>1. Cardinality(Names) \in Nat
  BY FS_CardinalityType, WorkflowsAssumption
<1>2. \A c \in Nat : n * c \in Nat /\ (n + 1) * c = n * c + c
  OBVIOUS
<1> QED
  BY <1>1, <1>2 DEF Budget

-----------------------------------------------------------------------------
(* Frames.                                                                 *)

LEMMA NewFrameInOrder ==
    ASSUME NEW w \in Names, NEW anc \in SUBSET Names, NEW b \in BOOLEAN,
           NEW c \in BOOLEAN
    PROVE  FrameInOrder(NewFrame(w, anc, b, c))
BY DEF NewFrame, FrameInOrder, Phases, Statuses, Success, Suspended, Failures, Terminal

LEMMA LaunchedInOrder ==
    ASSUME NEW f, FrameInOrder(f), NEW s \in DOMAIN f.status, f.phase = "running"
    PROVE  FrameInOrder([f EXCEPT !.status[s] = "out"])
BY DEF FrameInOrder, Phases, Statuses, Success, Suspended, Failures, Terminal

LEMMA DroppedInOrder ==
    ASSUME NEW f, FrameInOrder(f), NEW s \in DOMAIN f.status, f.status[s] = "out",
           f.phase # "running"
    PROVE  FrameInOrder([f EXCEPT !.status[s] = "dropped"])
BY DEF FrameInOrder, Phases, Statuses, Success, Suspended, Failures, Terminal

\* What record leaves of a frame.
LEMMA RecordedParts ==
    ASSUME NEW f, FrameInOrder(f), NEW s \in DOMAIN f.status,
           NEW outcome \in Terminal \union {Suspended},
           NEW g, g = Recorded(f, s, outcome)
    PROVE  /\ g.wf = f.wf /\ g.ancestors = f.ancestors /\ g.phase = f.phase
           /\ g.byCaller = f.byCaller
           /\ DOMAIN g.status = DOMAIN f.status
           /\ \A t \in DOMAIN f.status : g.status[t] = IF t = s THEN outcome ELSE f.status[t]
           /\ g \in [wf : Names, ancestors : SUBSET Names, feature : BOOLEAN, byCaller : BOOLEAN,
                     phase : Phases, stopped : BOOLEAN, status : [DOMAIN g.status -> Statuses]]
<1>1. StopOnError \in BOOLEAN
  BY WorkflowsAssumption
<1>2. [f.status EXCEPT ![s] = outcome] \in [DOMAIN f.status -> Statuses]
  BY DEF FrameInOrder, Statuses
<1>3. /\ g.wf = f.wf /\ g.ancestors = f.ancestors /\ g.phase = f.phase
      /\ g.byCaller = f.byCaller
      /\ g.status = [f.status EXCEPT ![s] = outcome]
      /\ g \in [wf : Names, ancestors : SUBSET Names, feature : BOOLEAN, byCaller : BOOLEAN,
                phase : Phases, stopped : BOOLEAN, status : [DOMAIN f.status -> Statuses]]
  BY <1>1, <1>2 DEF FrameInOrder, Recorded
<1> QED
  BY <1>3

LEMMA RecordedInOrder ==
    ASSUME NEW f, FrameInOrder(f), NEW s \in DOMAIN f.status, f.phase = "running",
           NEW outcome \in Terminal \union {Suspended}
    PROVE  FrameInOrder(Recorded(f, s, outcome))
<1>1. PICK g : g = Recorded(f, s, outcome)
  OBVIOUS
<1>2. /\ g.wf = f.wf /\ g.phase = "running" /\ DOMAIN g.status = DOMAIN f.status
      /\ \A t \in DOMAIN f.status : g.status[t] = IF t = s THEN outcome ELSE f.status[t]
      /\ g \in [wf : Names, ancestors : SUBSET Names, feature : BOOLEAN, byCaller : BOOLEAN,
                phase : Phases, stopped : BOOLEAN, status : [DOMAIN g.status -> Statuses]]
  BY <1>1, RecordedParts
<1>3. DOMAIN g.status = DOMAIN Steps(g.wf)
  BY <1>2 DEF FrameInOrder
<1>4. \A t \in DOMAIN g.status : g.status[t] # "dropped"
  BY <1>2 DEF FrameInOrder, Terminal, Failures, Success, Suspended
<1>5. "running" # Suspended /\ "running" # Success
  BY DEF Suspended, Success
<1>6. FrameInOrder(g)
  BY <1>2, <1>3, <1>4, <1>5 DEF FrameInOrder
<1> QED
  BY <1>1, <1>6

\* Resume: a suspended run goes on with one answer.
LEMMA ResumedInOrder ==
    ASSUME NEW f, FrameInOrder(f), NEW s \in DOMAIN f.status, f.phase = Suspended,
           NEW outcome \in Terminal, NEW g, g = Resumed(f, s, outcome)
    PROVE  /\ FrameInOrder(g)
           /\ g.wf = f.wf /\ g.ancestors = {} /\ g.byCaller /\ DOMAIN g.status = DOMAIN f.status
           /\ \A t \in DOMAIN f.status : g.status[t] = IF t = s THEN outcome ELSE f.status[t]
<1>1. PICK r : r = Recorded(f, s, outcome)
  OBVIOUS
<1>2. /\ r.wf = f.wf /\ DOMAIN r.status = DOMAIN f.status
      /\ \A t \in DOMAIN f.status : r.status[t] = IF t = s THEN outcome ELSE f.status[t]
      /\ r \in [wf : Names, ancestors : SUBSET Names, feature : BOOLEAN, byCaller : BOOLEAN,
                phase : Phases, stopped : BOOLEAN, status : [DOMAIN r.status -> Statuses]]
  BY <1>1, RecordedParts
<1>3. /\ g = [r EXCEPT !.phase = "running", !.ancestors = {},
                       !.feature = Workflows[f.wf].feature, !.byCaller = TRUE]
      /\ Workflows[f.wf].feature \in BOOLEAN
  BY <1>1, WorkflowsAssumption DEF Resumed, FrameInOrder
<1>4. /\ g.wf = f.wf /\ g.phase = "running" /\ g.status = r.status
      /\ g.ancestors = {} /\ g.byCaller = TRUE
      /\ g \in [wf : Names, ancestors : SUBSET Names, feature : BOOLEAN, byCaller : BOOLEAN,
                phase : Phases, stopped : BOOLEAN, status : [DOMAIN g.status -> Statuses]]
  BY <1>2, <1>3 DEF Phases
<1>5. DOMAIN g.status = DOMAIN Steps(g.wf)
  BY <1>2, <1>4 DEF FrameInOrder
<1>6. \A t \in DOMAIN g.status : g.status[t] # "dropped"
  BY <1>2, <1>4 DEF FrameInOrder, Terminal, Failures, Success, Suspended
<1>7. "running" # Suspended /\ "running" # Success
  BY DEF Suspended, Success
<1>8. FrameInOrder(g)
  BY <1>4, <1>5, <1>6, <1>7 DEF FrameInOrder
<1> QED
  BY <1>2, <1>4, <1>8

LEMMA ConcludedInOrder ==
    ASSUME NEW f, FrameInOrder(f), f.phase = "running", Out(f) = {}
    PROVE  FrameInOrder([f EXCEPT !.phase = RunStatus(f)])
<1>1. /\ RunStatus(f) \in {"permanentFail", "temporaryFail", Suspended, Success}
      /\ RunStatus(f) = Suspended => \E s \in DOMAIN f.status : f.status[s] = Suspended
      /\ RunStatus(f) = Success => \A s \in DOMAIN f.status : f.status[s] # Suspended
  BY DEF RunStatus, Success, Suspended
<1>2. \A s \in DOMAIN f.status : f.status[s] \notin {"out", "dropped"}
  BY DEF FrameInOrder, Out
<1> QED
  BY <1>1, <1>2 DEF FrameInOrder, Phases, Success, Suspended, Failures, Terminal

LEMMA AbandonedInOrder ==
    ASSUME NEW f, FrameInOrder(f), f.phase = "running"
    PROVE  FrameInOrder([f EXCEPT !.phase = "permanentFail"])
BY DEF FrameInOrder, Phases, Success, Suspended, Failures, Terminal

-----------------------------------------------------------------------------
(* The tree of runs.                                                       *)

\* A run that becomes g keeps its list and who drives it, and goes on only if it has not
\* suspended; or its caller resumes it.
ListKept(p, g) ==
    \/ /\ g.ancestors = frames[p].ancestors /\ g.byCaller = frames[p].byCaller
       /\ frames[p].phase = Suspended => g.phase = Suspended
    \/ g.ancestors = {} /\ g.byCaller = TRUE /\ Len(p) <= Budget(answers')

\* Runs are forgotten from somewhere on down, and who is left is driven from within only
\* if it was before: ways that are unbroken were so before.
LEMMA StillUnbroken ==
    ASSUME NestedRunsInOrder, DOMAIN frames' \subseteq DOMAIN frames, Nested',
           \A q \in DOMAIN frames' : frames[q].byCaller => frames'[q].byCaller,
           NEW p \in DOMAIN frames', NEW q \in DOMAIN frames', Unbroken(p, q)'
    PROVE  Unbroken(p, q)
<1>1. /\ IsPrefix(p, q)
      /\ \A r \in DOMAIN frames' :
           IsPrefix(p, r) /\ IsPrefix(r, q) /\ r # p => ~frames'[r].byCaller
  BY DEF Unbroken
<1>2. ASSUME NEW r \in DOMAIN frames, IsPrefix(p, r), IsPrefix(r, q), r # p
      PROVE  ~frames[r].byCaller
  <2>1. r \in DOMAIN frames'
    BY <1>2 DEF NestedRunsInOrder, Nested
  <2> QED
    BY <1>1, <1>2, <2>1
<1> QED
  BY <1>1, <1>2 DEF Unbroken

\* One run changes, and at most the runs below one of its steps are forgotten.
LEMMA OneRunChanges ==
    ASSUME NestedRunsInOrder, NEW p \in DOMAIN frames, NEW g, FrameInOrder(g),
           g.wf = frames[p].wf, ListKept(p, g), answers' \in {answers, answers + 1},
           NEW gone, gone = {} \/ \E s \in StepNames : gone = Inside(Below(p, s)),
           DOMAIN frames' = DOMAIN frames \ gone, frames'[p] = g,
           \A q \in DOMAIN frames \ gone : q # p => frames'[q] = frames[q],
           \A t \in DOMAIN g.status :
              /\ Below(p, t) \in DOMAIN frames' => g.status[t] \in {"out", Suspended}
              /\ g.status[t] = Suspended /\ Process(p, t) \in Names =>
                    Below(p, t) \in DOMAIN frames'
              /\ g.status[t] = Suspended /\ Below(p, t) \in DOMAIN frames' =>
                    frames[Below(p, t)].phase = Suspended \/ frames[Below(p, t)].byCaller
    PROVE  NestedRunsInOrder'
<1>1. /\ DOMAIN frames \subseteq Paths /\ p \in Paths /\ DOMAIN frames' \subseteq DOMAIN frames
      /\ gone \subseteq DOMAIN frames
  BY DEF NestedRunsInOrder, Nested, Inside
<1>2. p \in DOMAIN frames'
  BY <1>1, PrefixOfBelow DEF Inside
<1>3. \A q \in DOMAIN frames' : /\ FrameInOrder(frames'[q])
                                /\ frames'[q].wf = frames[q].wf
                                /\ \A t : Process(q, t)' = Process(q, t)
  BY DEF NestedRunsInOrder, Process
<1>4. Nested'
  <2>1. ASSUME NEW q \in DOMAIN frames', NEW r \in Paths, IsPrefix(r, q), r \in gone
        PROVE  FALSE
    <3>1. PICK s \in StepNames : gone = Inside(Below(p, s))
      BY <2>1
    <3>2. Below(p, s) \in Paths /\ q \in DOMAIN frames \ gone
      BY <1>1, <2>1, PrefixOfBelow
    <3> QED
      BY <1>1, <2>1, <3>1, <3>2, PrefixOrder DEF Inside
  <2> QED
    BY <1>1, <2>1 DEF NestedRunsInOrder, Nested
<1>5. Attended'
  <2>1. ASSUME NEW q \in DOMAIN frames', q # p, NEW t \in StepNames
        PROVE  Below(q, t) \in DOMAIN frames' <=> Below(q, t) \in DOMAIN frames
    <3>1. ASSUME Below(q, t) \in gone
          PROVE  q \in gone
      <4>1. PICK s \in StepNames : gone = Inside(Below(p, s))
        BY <3>1
      <4>2. IsPrefix(Below(p, s), Below(q, t)) /\ Below(p, s) \in Paths /\ q \in Paths
        BY <1>1, <3>1, <4>1, PrefixOfBelow DEF Inside
      <4>3. Below(p, s) # Below(q, t)
        BY <1>1, <2>1, PrefixOfBelow
      <4> QED
        BY <1>1, <4>1, <4>2, <4>3, PrefixOfBelow DEF Inside
    <3> QED
      BY <2>1, <3>1
  <2>2. ASSUME NEW q \in DOMAIN frames', q # p, NEW t \in StepNames
        PROVE  /\ Below(q, t) \in DOMAIN frames' =>
                    /\ t \in DOMAIN frames'[q].status /\ Process(q, t)' \in Names
                    /\ frames'[q].status[t] \in {"out", Suspended}
               /\ t \in DOMAIN frames'[q].status /\ frames'[q].status[t] = Suspended
                    /\ Process(q, t)' \in Names => Below(q, t) \in DOMAIN frames'
    BY <1>1, <1>3, <2>1, <2>2 DEF NestedRunsInOrder, Attended
  <2>3. DOMAIN g.status = DOMAIN frames[p].status
    BY DEF NestedRunsInOrder, FrameInOrder
  <2>4. ASSUME NEW t \in StepNames
        PROVE  /\ Below(p, t) \in DOMAIN frames' =>
                    /\ t \in DOMAIN frames'[p].status /\ Process(p, t)' \in Names
                    /\ frames'[p].status[t] \in {"out", Suspended}
               /\ t \in DOMAIN frames'[p].status /\ frames'[p].status[t] = Suspended
                    /\ Process(p, t)' \in Names => Below(p, t) \in DOMAIN frames'
    BY <1>1, <1>2, <1>3, <2>3 DEF NestedRunsInOrder, Attended
  <2> QED
    BY <2>2, <2>4 DEF Attended, Below
<1>6. Listed'
  <2>1. /\ answers \in Nat /\ answers' \in Nat
        /\ Budget(answers) \in Nat /\ Budget(answers') \in Nat
        /\ Budget(answers) <= Budget(answers')
    <3>1. answers \in Nat
      BY DEF NestedRunsInOrder, Listed
    <3>2. /\ Cardinality(Names) \in Nat /\ Budget(answers) \in Nat
          /\ Budget(answers + 1) = Budget(answers) + Cardinality(Names)
      BY <3>1, BudgetGrows
    <3> QED
      BY <3>1, <3>2
  <2>2. ASSUME NEW q \in DOMAIN frames'
        PROVE  /\ IF frames'[q].byCaller THEN frames'[q].ancestors = {}
                                         ELSE frames'[q].wf \in frames'[q].ancestors
               /\ IsFiniteSet(frames'[q].ancestors)
               /\ Len(q) <= Budget(answers') + Cardinality(frames'[q].ancestors)
               /\ frames[q].byCaller => frames'[q].byCaller
               /\ frames'[q].ancestors = frames[q].ancestors \/ frames'[q].byCaller
    <3>1. /\ q \in DOMAIN frames
          /\ IF frames[q].byCaller THEN frames[q].ancestors = {}
                                   ELSE frames[q].wf \in frames[q].ancestors
          /\ IsFiniteSet(frames[q].ancestors)
          /\ Len(q) <= Budget(answers) + Cardinality(frames[q].ancestors)
      BY <1>1, <2>2 DEF NestedRunsInOrder, Listed
    <3>2. Len(q) \in Nat /\ Cardinality(frames[q].ancestors) \in Nat
      BY <1>1, <3>1, LenProperties, FS_CardinalityType DEF Paths
    <3>3. CASE /\ frames'[q].ancestors = frames[q].ancestors
               /\ frames'[q].byCaller = frames[q].byCaller
      <4>1. Len(q) <= Budget(answers') + Cardinality(frames[q].ancestors)
        BY <2>1, <3>1, <3>2
      <4> QED
        BY <1>3, <2>2, <3>1, <3>3, <4>1
    <3>4. CASE /\ q = p /\ frames'[q].ancestors = {} /\ frames'[q].byCaller = TRUE
               /\ Len(p) <= Budget(answers')
      <4>1. IsFiniteSet({}) /\ Len(q) <= Budget(answers') + Cardinality({})
        BY <2>1, <3>2, <3>4, FS_EmptySet
      <4> QED
        BY <3>4, <4>1
    <3>5. CASE q # p
      BY <1>1, <2>2, <3>3, <3>5
    <3> QED
      BY <3>3, <3>4, <3>5 DEF ListKept
  <2>3. ASSUME NEW r \in DOMAIN frames', NEW q \in DOMAIN frames', Unbroken(r, q)'
        PROVE  /\ frames'[r].ancestors \subseteq frames'[q].ancestors
               /\ r # q /\ ~frames'[r].byCaller => frames'[q].wf # frames'[r].wf
    <3>1. r \in DOMAIN frames /\ q \in DOMAIN frames /\ Unbroken(r, q)
      BY <1>1, <1>4, <2>2, <2>3, StillUnbroken
    <3>2. /\ frames[r].ancestors \subseteq frames[q].ancestors
          /\ r # q /\ ~frames[r].byCaller => frames[q].wf # frames[r].wf
      BY <3>1 DEF NestedRunsInOrder, Listed
    <3>3. frames'[r].ancestors = {} \/ frames'[r].ancestors = frames[r].ancestors
      BY <2>2, <2>3
    <3>4. r # q => frames'[q].ancestors = frames[q].ancestors
      <4>1. ASSUME r # q
            PROVE  ~frames'[q].byCaller
        BY <1>1, <2>3, <4>1, PrefixOrder DEF Unbroken
      <4> QED
        BY <2>2, <4>1
    <3>5. ~frames'[r].byCaller => ~frames[r].byCaller
      BY <2>2
    <3> QED
      BY <1>3, <3>2, <3>3, <3>4, <3>5
  <2> QED
    BY <2>1, <2>2, <2>3 DEF Listed
<1>7. Awaited'
  <2>1. ASSUME NEW q \in DOMAIN frames', NEW t \in StepNames, Below(q, t) \in DOMAIN frames',
               frames'[q].status[t] = Suspended, frames'[Below(q, t)].phase # Suspended
        PROVE  frames'[Below(q, t)].byCaller
    <3> DEFINE b == Below(q, t)
    <3>1. q \in DOMAIN frames /\ b \in DOMAIN frames /\ q \in Paths /\ b # q
      <4>1. q \in DOMAIN frames /\ b \in DOMAIN frames /\ q \in Paths
        BY <1>1, <2>1
      <4> QED
        BY <2>1, <4>1, PrefixOfBelow, PrefixOrder
    <3>2. frames[b].phase = Suspended \/ frames[b].byCaller
      <4>1. CASE q = p
        <5>1. t \in DOMAIN g.status
          BY <2>1, <3>1, <4>1 DEF NestedRunsInOrder, Attended, FrameInOrder
        <5> QED
          BY <2>1, <4>1, <5>1
      <4>2. CASE q # p
        BY <2>1, <3>1, <4>2 DEF NestedRunsInOrder, Awaited
      <4> QED
        BY <4>1, <4>2
    <3>3. CASE b = p
      BY <2>1, <3>2, <3>3 DEF ListKept
    <3>4. CASE b # p
      BY <2>1, <3>2, <3>4
    <3> QED
      BY <3>3, <3>4
  <2> QED
    BY <2>1 DEF Awaited, Below
<1> QED
  BY <1>3, <1>4, <1>5, <1>6, <1>7 DEF NestedRunsInOrder

\* Step s of run p is written, which makes the run g, and the runs `gone` are forgotten.
StepWritten(p, s, g, gone) ==
    /\ FrameInOrder(g) /\ g.wf = frames[p].wf /\ ListKept(p, g)
    /\ answers' \in {answers, answers + 1}
    /\ gone \in {{}, Inside(Below(p, s))}
    /\ DOMAIN frames' = DOMAIN frames \ gone /\ frames'[p] = g
    /\ \A q \in DOMAIN frames \ gone : q # p => frames'[q] = frames[q]
    /\ \A t \in DOMAIN g.status \ {s} : g.status[t] = frames[p].status[t]
    /\ Below(p, s) \in DOMAIN frames' => g.status[s] \in {"out", Suspended}
    /\ g.status[s] = Suspended /\ Process(p, s) \in Names => Below(p, s) \in DOMAIN frames'
    /\ g.status[s] = Suspended /\ Below(p, s) \in DOMAIN frames' =>
          frames[Below(p, s)].phase = Suspended

LEMMA OneStepChanges ==
    ASSUME NestedRunsInOrder, NEW p \in DOMAIN frames, NEW s \in DOMAIN frames[p].status,
           NEW g, NEW gone, StepWritten(p, s, g, gone)
    PROVE  NestedRunsInOrder'
<1>0. /\ FrameInOrder(g) /\ g.wf = frames[p].wf /\ ListKept(p, g)
      /\ answers' \in {answers, answers + 1}
      /\ gone \in {{}, Inside(Below(p, s))}
      /\ DOMAIN frames' = DOMAIN frames \ gone /\ frames'[p] = g
      /\ \A q \in DOMAIN frames \ gone : q # p => frames'[q] = frames[q]
      /\ \A t \in DOMAIN g.status \ {s} : g.status[t] = frames[p].status[t]
      /\ Below(p, s) \in DOMAIN frames' => g.status[s] \in {"out", Suspended}
      /\ g.status[s] = Suspended /\ Process(p, s) \in Names => Below(p, s) \in DOMAIN frames'
      /\ g.status[s] = Suspended /\ Below(p, s) \in DOMAIN frames' =>
            frames[Below(p, s)].phase = Suspended
  BY DEF StepWritten
<1>1. /\ p \in Paths /\ FrameInOrder(frames[p]) /\ Attended /\ Awaited
  BY DEF NestedRunsInOrder, Nested
<1>2. /\ DOMAIN g.status = DOMAIN frames[p].status
      /\ DOMAIN frames[p].status \subseteq StepNames
  BY <1>0, <1>1 DEF FrameInOrder, StepNames
<1>3. ASSUME NEW t \in DOMAIN g.status, t # s
      PROVE  Below(p, t) \in DOMAIN frames' <=> Below(p, t) \in DOMAIN frames
  <2>1. Below(p, t) \notin Inside(Below(p, s))
    <3>1. s \in StepNames /\ t \in StepNames
      BY <1>2
    <3>2. Below(p, s) \in Paths /\ Below(p, s) # Below(p, t) /\ ~IsPrefix(Below(p, s), p)
      BY <1>1, <1>3, <3>1, PrefixOfBelow
    <3> QED
      BY <1>1, <3>1, <3>2, PrefixOfBelow DEF Inside
  <2> QED
    BY <1>0, <2>1
<1>4. ASSUME NEW t \in DOMAIN g.status
      PROVE  /\ Below(p, t) \in DOMAIN frames' => g.status[t] \in {"out", Suspended}
             /\ g.status[t] = Suspended /\ Process(p, t) \in Names => Below(p, t) \in DOMAIN frames'
             /\ g.status[t] = Suspended /\ Below(p, t) \in DOMAIN frames' =>
                   frames[Below(p, t)].phase = Suspended \/ frames[Below(p, t)].byCaller
  BY <1>0, <1>1, <1>2, <1>3 DEF Attended, Awaited
<1>5. gone = {} \/ \E t \in StepNames : gone = Inside(Below(p, t))
  BY <1>0, <1>2
<1> QED
  BY <1>0, <1>4, <1>5, OneRunChanges

\* A run starts below a step that runs a workflow it is not inside of.
LEMMA OneRunStarts ==
    ASSUME NestedRunsInOrder, NEW p \in DOMAIN frames, NEW s \in DOMAIN frames[p].status,
           frames[p].status[s] = "out", NEW w \in Names \ frames[p].ancestors,
           Process(p, s) = w, Below(p, s) \notin DOMAIN frames,
           NEW b \in BOOLEAN, UNCHANGED answers,
           DOMAIN frames' = DOMAIN frames \union {Below(p, s)},
           frames'[Below(p, s)] = NewFrame(w, frames[p].ancestors \union {w}, b, FALSE),
           \A q \in DOMAIN frames : frames'[q] = frames[q]
    PROVE  NestedRunsInOrder'
<1> DEFINE new == Below(p, s)
           anc == frames[p].ancestors
<1>1. /\ DOMAIN frames \subseteq Paths /\ p \in Paths /\ FrameInOrder(frames[p])
      /\ s \in StepNames /\ anc \subseteq Names
  BY DEF NestedRunsInOrder, Nested, FrameInOrder, StepNames
<1>2. /\ new \in Paths /\ Len(new) = Len(p) + 1 /\ new # <<>>
      /\ IsPrefix(p, new) /\ ~IsPrefix(new, p)
      /\ \A r \in Paths : IsPrefix(r, new) <=> r = new \/ IsPrefix(r, p)
      /\ \A q \in Paths, t \in StepNames : new = Below(q, t) => p = q /\ s = t
  BY <1>1, PrefixOfBelow
<1>3. /\ frames'[new].wf = w /\ frames'[new].ancestors = anc \union {w}
      /\ frames'[new].byCaller = FALSE
      /\ frames'[new].status = [t \in DOMAIN Steps(w) |-> "waiting"]
  BY DEF NewFrame
<1>4. \A q \in DOMAIN frames : ~IsPrefix(new, q)
  BY <1>2 DEF NestedRunsInOrder, Nested
<1> HIDE DEF new
<1>5. \A q \in DOMAIN frames' : FrameInOrder(frames'[q])
  BY <1>1, NewFrameInOrder DEF NestedRunsInOrder, new
<1>6. Nested'
  BY <1>1, <1>2 DEF NestedRunsInOrder, Nested, new
<1>7. Attended'
  <2>1. ASSUME NEW q \in DOMAIN frames, NEW t \in StepNames
        PROVE  /\ Below(q, t) \in DOMAIN frames' =>
                    /\ t \in DOMAIN frames'[q].status /\ Process(q, t)' \in Names
                    /\ frames'[q].status[t] \in {"out", Suspended}
               /\ t \in DOMAIN frames'[q].status /\ frames'[q].status[t] = Suspended
                    /\ Process(q, t)' \in Names => Below(q, t) \in DOMAIN frames'
    <3>1. frames'[q] = frames[q] /\ Process(q, t)' = Process(q, t)
      BY DEF Process
    <3>2. Below(q, t) \in DOMAIN frames' =>
             Below(q, t) \in DOMAIN frames \/ (q = p /\ t = s)
      <4>1. q \in Paths /\ DOMAIN frames' = DOMAIN frames \union {new}
        BY <1>1 DEF new
      <4> QED
        BY <1>2, <4>1
    <3> QED
      BY <3>1, <3>2 DEF NestedRunsInOrder, Attended
  <2>2. ASSUME NEW t \in StepNames
        PROVE  /\ Below(new, t) \notin DOMAIN frames'
               /\ t \in DOMAIN frames'[new].status => frames'[new].status[t] # Suspended
    <3>1. /\ IsPrefix(new, Below(new, t)) /\ Below(new, t) # new
      BY <1>2, PrefixOfBelow, PrefixOrder
    <3> QED
      BY <1>3, <1>4, <3>1 DEF new, Suspended
  <2> QED
    BY <2>1, <2>2 DEF Attended, Below, new
<1>8. Listed'
  <2>1. /\ answers' = answers /\ answers \in Nat /\ Budget(answers) \in Nat
        /\ IsFiniteSet(anc) /\ Cardinality(anc) \in Nat /\ w \notin anc
        /\ Len(p) \in Nat /\ Len(p) <= Budget(answers) + Cardinality(anc)
    BY <1>1, BudgetGrows, FS_CardinalityType, LenProperties
    DEF NestedRunsInOrder, Listed, Paths
  <2>2. /\ IsFiniteSet(anc \union {w})
        /\ Len(new) <= Budget(answers) + Cardinality(anc \union {w})
    <3>1. /\ IsFiniteSet(anc \union {w})
          /\ Cardinality(anc \union {w}) = Cardinality(anc) + 1
      BY <2>1, FS_AddElement, Zenon
    <3> QED
      BY <1>2, <2>1, <3>1
  <2>3. ASSUME NEW q \in DOMAIN frames'
        PROVE  /\ IF frames'[q].byCaller THEN frames'[q].ancestors = {}
                                         ELSE frames'[q].wf \in frames'[q].ancestors
               /\ IsFiniteSet(frames'[q].ancestors)
               /\ Len(q) <= Budget(answers') + Cardinality(frames'[q].ancestors)
    <3>1. CASE q = new
      BY <1>3, <2>1, <2>2, <3>1
    <3>2. CASE q \in DOMAIN frames
      BY <2>1, <3>2 DEF NestedRunsInOrder, Listed
    <3> QED
      BY <3>1, <3>2 DEF new
  <2>4. ASSUME NEW r \in DOMAIN frames, NEW q \in DOMAIN frames, Unbroken(r, q)'
        PROVE  Unbroken(r, q)
    BY <2>4 DEF Unbroken
  <2>5. ASSUME NEW r \in DOMAIN frames, Unbroken(r, new)'
        PROVE  /\ frames[r].ancestors \subseteq anc
               /\ ~frames[r].byCaller => frames[r].wf # w
    <3>1. IsPrefix(r, p)
      BY <1>1, <1>2, <1>4, <2>5, PrefixOrder DEF Unbroken
    <3>2. ASSUME NEW x \in DOMAIN frames, IsPrefix(r, x), IsPrefix(x, p), x # r
          PROVE  ~frames[x].byCaller
      <4>1. IsPrefix(x, new) /\ x \in DOMAIN frames'
        BY <1>1, <1>2, <3>2
      <4> QED
        BY <2>5, <3>2, <4>1 DEF Unbroken
    <3>3. Unbroken(r, p)
      BY <3>1, <3>2 DEF Unbroken
    <3> QED
      BY <2>1, <3>3 DEF NestedRunsInOrder, Listed
  <2>6. ASSUME NEW r \in DOMAIN frames', NEW q \in DOMAIN frames', Unbroken(r, q)'
        PROVE  /\ frames'[r].ancestors \subseteq frames'[q].ancestors
               /\ r # q /\ ~frames'[r].byCaller => frames'[q].wf # frames'[r].wf
    <3>1. IsPrefix(r, q)
      BY <2>6 DEF Unbroken
    <3>2. CASE q \in DOMAIN frames
      <4>1. r \in DOMAIN frames
        BY <1>4, <3>1, <3>2 DEF new
      <4> QED
        BY <2>4, <2>6, <3>2, <4>1 DEF NestedRunsInOrder, Listed
    <3>3. CASE q = new /\ r # new
      <4>1. r \in DOMAIN frames /\ frames'[r] = frames[r]
        BY <3>3 DEF new
      <4> QED
        BY <1>3, <2>5, <2>6, <3>3, <4>1
    <3> QED
      BY <3>2, <3>3 DEF new
  <2> QED
    BY <2>1, <2>3, <2>6 DEF Listed
<1>9. Awaited'
  <2>1. ASSUME NEW q \in DOMAIN frames', NEW t \in StepNames, Below(q, t) \in DOMAIN frames',
               frames'[q].status[t] = Suspended, frames'[Below(q, t)].phase # Suspended
        PROVE  frames'[Below(q, t)].byCaller
    <3>1. CASE q \in DOMAIN frames /\ Below(q, t) \in DOMAIN frames
      BY <2>1, <3>1 DEF NestedRunsInOrder, Awaited
    <3>2. CASE q \in DOMAIN frames /\ Below(q, t) = new
      <4>1. q = p /\ t = s
        BY <1>1, <1>2, <3>2
      <4> QED
        BY <2>1, <4>1 DEF Suspended
    <3>3. CASE q = new
      <4>1. IsPrefix(new, Below(new, t)) /\ Below(new, t) # new
        BY <1>2, PrefixOfBelow, PrefixOrder
      <4> QED
        BY <1>4, <2>1, <3>3, <4>1 DEF new
    <3> QED
      BY <2>1, <3>1, <3>2, <3>3 DEF new
  <2> QED
    BY <2>1 DEF Awaited, Below
<1> QED
  BY <1>5, <1>6, <1>7, <1>8, <1>9 DEF NestedRunsInOrder

-----------------------------------------------------------------------------
(* The actions.                                                            *)

LEMMA InitNested == ASSUME Init PROVE NestedRunsInOrder
<1>1. PICK w \in Roots : frames = [p \in {<<>>} |-> NewFrame(w, {}, Workflows[w].feature, TRUE)]
  BY DEF Init
<1>2. w \in Names /\ Workflows[w].feature \in BOOLEAN
  BY WorkflowsAssumption
<1>3. /\ DOMAIN frames = {<<>>} /\ frames[<<>>] = NewFrame(w, {}, Workflows[w].feature, TRUE)
      /\ FrameInOrder(frames[<<>>])
      /\ frames[<<>>].ancestors = {} /\ frames[<<>>].byCaller = TRUE
      /\ frames[<<>>].status = [s \in DOMAIN Steps(w) |-> "waiting"]
  <2>1. DOMAIN frames = {<<>>} /\ frames[<<>>] = NewFrame(w, {}, Workflows[w].feature, TRUE)
    BY <1>1
  <2>2. FrameInOrder(NewFrame(w, {}, Workflows[w].feature, TRUE))
    BY <1>2, NewFrameInOrder
  <2> QED
    BY <2>1, <2>2 DEF NewFrame
<1>4. <<>> \in Paths /\ Len(<<>>) = 0
  BY EmptySeq DEF Paths
<1>5. Nested
  <2>1. ASSUME NEW q \in Paths, IsPrefix(q, <<>>)
        PROVE  q = <<>>
    <3>1. Len(q) <= Len(<<>>) /\ Len(q) \in Nat
      BY <1>4, <2>1, PrefixMeans, LenProperties DEF Paths
    <3>2. q # <<>> => Len(q) \in Nat \ {0}
      BY EmptySeq DEF Paths
    <3> QED
      BY <1>4, <3>1, <3>2
  <2> QED
    BY <1>3, <1>4, <2>1 DEF Nested
<1>6. Attended
  <2>1. \A s \in StepNames : Below(<<>>, s) # <<>>
    BY <1>4, PrefixOfBelow
  <2> QED
    BY <1>3, <2>1 DEF Attended, Suspended
<1>7. Listed
  <2>1. answers = 0 /\ Budget(0) \in Nat /\ Cardinality({}) = 0 /\ IsFiniteSet({})
    BY BudgetGrows, FS_EmptySet DEF Init
  <2>2. Len(<<>>) <= Budget(answers) + Cardinality({}) /\ answers \in Nat
    BY <1>4, <2>1
  <2> QED
    BY <1>3, <2>1, <2>2 DEF Listed
<1>8. Awaited
  <2>1. \A s \in StepNames : Below(<<>>, s) # <<>>
    BY <1>4, PrefixOfBelow
  <2> QED
    BY <1>3, <2>1 DEF Awaited
<1> QED
  BY <1>3, <1>5, <1>6, <1>7, <1>8 DEF NestedRunsInOrder

\* What a step's status says of the run below it.
LEMMA StepInOrder ==
    ASSUME NestedRunsInOrder, NEW p \in DOMAIN frames, NEW s \in DOMAIN frames[p].status
    PROVE  /\ s \in StepNames /\ p \notin Inside(Below(p, s))
           /\ Process(p, s) \in Names \union Leaves
           /\ Below(p, s) \in DOMAIN frames => /\ Process(p, s) \in Names
                                               /\ frames[p].status[s] \in {"out", Suspended}
                                               /\ Below(p, s) \in Inside(Below(p, s))
           /\ frames[p].status[s] = Suspended /\ Process(p, s) \in Names =>
                 Below(p, s) \in DOMAIN frames
<1>1. FrameInOrder(frames[p]) /\ p \in Paths /\ Attended
  BY DEF NestedRunsInOrder, Nested
<1>2. s \in StepNames /\ frames[p].wf \in Names /\ s \in DOMAIN Steps(frames[p].wf)
  BY <1>1 DEF FrameInOrder, StepNames
<1>3. Process(p, s) \in Names \union Leaves
  BY <1>2, WorkflowsAssumption DEF Process, Steps
<1>4. ~IsPrefix(Below(p, s), p) /\ Below(p, s) \in Paths
  BY <1>1, <1>2, PrefixOfBelow
<1>5. Below(p, s) \in DOMAIN frames => Below(p, s) \in Inside(Below(p, s))
  BY <1>4, PrefixOrder DEF Inside
<1> QED
  BY <1>1, <1>2, <1>3, <1>4, <1>5 DEF Attended, Inside

LEMMA LaunchNested ==
    ASSUME NestedRunsInOrder, NEW p \in DOMAIN frames, NEW s \in DOMAIN frames[p].status,
           Launch(p, s)
    PROVE  NestedRunsInOrder'
<1> DEFINE g == [frames[p] EXCEPT !.status[s] = "out"]
<1>1. /\ FrameInOrder(frames[p]) /\ frames[p].phase = "running"
      /\ frames' = [frames EXCEPT ![p] = g] /\ answers' = answers
      /\ frames[p].status[s] = "waiting"
  BY DEF Launch, Running, Ready, NestedRunsInOrder
<1>2. FrameInOrder(g)
  BY <1>1, LaunchedInOrder
<1>3. /\ g.wf = frames[p].wf /\ ListKept(p, g) /\ g.status[s] = "out"
      /\ \A t \in DOMAIN g.status \ {s} : g.status[t] = frames[p].status[t]
  BY <1>1 DEF FrameInOrder, ListKept, Suspended
<1>4. /\ DOMAIN frames' = DOMAIN frames \ {} /\ frames'[p] = g
      /\ \A q \in DOMAIN frames \ {} : q # p => frames'[q] = frames[q]
  BY <1>1
<1> HIDE DEF g
<1>5. /\ Below(p, s) \in DOMAIN frames' => g.status[s] \in {"out", Suspended}
      /\ g.status[s] = Suspended /\ Process(p, s) \in Names => Below(p, s) \in DOMAIN frames'
  BY <1>3 DEF Suspended
<1>6. StepWritten(p, s, g, {})
  BY <1>1, <1>2, <1>3, <1>4, <1>5 DEF StepWritten, Suspended
<1> QED
  BY <1>6, OneStepChanges

\* The end of a run: its steps stay as they are.
LEMMA EndNested ==
    ASSUME NestedRunsInOrder, NEW p \in DOMAIN frames, Conclude(p) \/ Abandon(p)
    PROVE  NestedRunsInOrder'
<1>1. /\ FrameInOrder(frames[p]) /\ frames[p].phase = "running"
      /\ DOMAIN frames[p].status \subseteq StepNames /\ Attended /\ Awaited
      /\ answers' = answers
  BY DEF Conclude, Abandon, Running, NestedRunsInOrder, FrameInOrder, StepNames
<1>2. PICK ph : /\ frames' = [frames EXCEPT ![p] = [frames[p] EXCEPT !.phase = ph]]
                /\ FrameInOrder([frames[p] EXCEPT !.phase = ph])
  <2>1. CASE Conclude(p)
    BY <1>1, <2>1, ConcludedInOrder DEF Conclude
  <2>2. CASE Abandon(p)
    BY <1>1, <2>2, AbandonedInOrder DEF Abandon
  <2> QED
    BY <2>1, <2>2
<1> DEFINE g == [frames[p] EXCEPT !.phase = ph]
<1>3. /\ g.wf = frames[p].wf /\ ListKept(p, g) /\ g.status = frames[p].status
  BY <1>1 DEF FrameInOrder, ListKept, Suspended
<1>4. /\ DOMAIN frames' = DOMAIN frames \ {} /\ frames'[p] = g
      /\ \A q \in DOMAIN frames \ {} : q # p => frames'[q] = frames[q]
      /\ FrameInOrder(g)
  BY <1>2
<1> HIDE DEF g
<1>5. ASSUME NEW t \in DOMAIN g.status
      PROVE  /\ Below(p, t) \in DOMAIN frames' => g.status[t] \in {"out", Suspended}
             /\ g.status[t] = Suspended /\ Process(p, t) \in Names => Below(p, t) \in DOMAIN frames'
             /\ g.status[t] = Suspended /\ Below(p, t) \in DOMAIN frames' =>
                   frames[Below(p, t)].phase = Suspended \/ frames[Below(p, t)].byCaller
  BY <1>1, <1>3, <1>4 DEF Attended, Awaited
<1> QED
  BY <1>1, <1>3, <1>4, <1>5, OneRunChanges

\* A handler delivers: the run below its step, if there is one, stays exactly when
\* both suspend.
LEMMA DeliverNested ==
    ASSUME NestedRunsInOrder, NEW p \in DOMAIN frames, NEW s \in DOMAIN frames[p].status,
           frames[p].status[s] = "out", NEW outcome \in Terminal \union {Suspended},
           NEW gone \in {{}, Inside(Below(p, s))}, Deliver(p, s, outcome, gone),
           UNCHANGED answers,
           Below(p, s) \in DOMAIN frames \ gone =>
              Running(p) /\ outcome = Suspended /\ frames[Below(p, s)].phase = Suspended,
           Running(p) /\ outcome = Suspended /\ Process(p, s) \in Names =>
              Below(p, s) \in DOMAIN frames \ gone
    PROVE  NestedRunsInOrder'
<1>1. FrameInOrder(frames[p]) /\ p \notin gone
  BY StepInOrder DEF NestedRunsInOrder
<1>2. PICK g : /\ g = IF Running(p) THEN Recorded(frames[p], s, outcome)
                      ELSE [frames[p] EXCEPT !.status[s] = "dropped"]
  OBVIOUS
<1>3. /\ DOMAIN frames' = DOMAIN frames \ gone /\ frames'[p] = g
      /\ \A q \in DOMAIN frames \ gone : q # p => frames'[q] = frames[q]
  BY <1>1, <1>2 DEF Deliver
<1>4. /\ FrameInOrder(g)
      /\ g.wf = frames[p].wf /\ ListKept(p, g)
      /\ \A t \in DOMAIN g.status \ {s} : g.status[t] = frames[p].status[t]
      /\ g.status[s] = IF Running(p) THEN outcome ELSE "dropped"
  <2>1. CASE Running(p)
    <3>1. frames[p].phase = "running" /\ g = Recorded(frames[p], s, outcome)
      BY <1>2, <2>1 DEF Running
    <3>2. FrameInOrder(g)
      BY <1>1, <3>1, RecordedInOrder
    <3> QED
      BY <1>1, <2>1, <3>1, <3>2, RecordedParts DEF ListKept
  <2>2. CASE ~Running(p)
    <3>1. frames[p].phase # "running" /\ g = [frames[p] EXCEPT !.status[s] = "dropped"]
      BY <1>2, <2>2 DEF Running
    <3>2. FrameInOrder(g)
      BY <1>1, <3>1, DroppedInOrder
    <3>3. /\ g.wf = frames[p].wf /\ ListKept(p, g)
          /\ g.status = [frames[p].status EXCEPT ![s] = "dropped"]
      BY <1>1, <3>1 DEF FrameInOrder, ListKept
    <3> QED
      BY <2>2, <3>2, <3>3
  <2> QED
    BY <2>1, <2>2
<1>5. /\ Below(p, s) \in DOMAIN frames' => g.status[s] \in {"out", Suspended}
      /\ g.status[s] = Suspended /\ Process(p, s) \in Names => Below(p, s) \in DOMAIN frames'
  BY <1>3, <1>4 DEF Suspended
<1>6. StepWritten(p, s, g, gone)
  BY <1>3, <1>4, <1>5 DEF StepWritten
<1> QED
  BY <1>6, OneStepChanges

LEMMA LeafNested ==
    ASSUME NestedRunsInOrder, NEW p \in DOMAIN frames, NEW s \in DOMAIN frames[p].status,
           LeafReturns(p, s)
    PROVE  NestedRunsInOrder'
<1>1. /\ frames[p].status[s] = "out" /\ Process(p, s) \notin Names
      /\ Below(p, s) \notin DOMAIN frames /\ answers' = answers
  BY StepInOrder, WorkflowsAssumption DEF LeafReturns
<1>2. PICK outcome \in Terminal \union {Suspended} : Deliver(p, s, outcome, {})
  <2>1. \A e : ExpressionOutcome(e) \in Terminal
    BY DEF ExpressionOutcome, Terminal, Failures
  <2>2. "permanentFail" \in Terminal
    BY DEF Terminal, Failures
  <2>3. CASE Process(p, s) = "tool"
    BY <2>3 DEF LeafReturns
  <2>4. CASE Process(p, s) = "expression"
    BY <2>1, <2>4 DEF LeafReturns
  <2>5. CASE Process(p, s) = "operation"
    BY <2>2, <2>5 DEF LeafReturns
  <2> QED
    BY <2>3, <2>4, <2>5 DEF LeafReturns, Leaves
<1> QED
  BY <1>1, <1>2, DeliverNested

LEMMA RefuseInOrder ==
    ASSUME NestedRunsInOrder, NEW p \in DOMAIN frames, NEW s \in DOMAIN frames[p].status,
           RefuseNested(p, s)
    PROVE  NestedRunsInOrder'
<1>1. /\ frames[p].status[s] = "out" /\ Below(p, s) \notin DOMAIN frames
      /\ Deliver(p, s, "permanentFail", {}) /\ answers' = answers
  BY DEF RefuseNested
<1>2. "permanentFail" \in Terminal \union {Suspended} /\ "permanentFail" # Suspended
  BY DEF Terminal, Failures, Suspended
<1> QED
  BY <1>1, <1>2, DeliverNested

LEMMA RunNestedInOrder ==
    ASSUME NestedRunsInOrder, NEW p \in DOMAIN frames, NEW s \in DOMAIN frames[p].status,
           RunNested(p, s)
    PROVE  NestedRunsInOrder'
<1> DEFINE w == Process(p, s)
           b == Inherited(frames[p], w)
<1>1. /\ frames[p].status[s] = "out" /\ w \in Names \ frames[p].ancestors
      /\ Below(p, s) \notin DOMAIN frames /\ answers' = answers
  BY DEF RunNested, InvokesItself
<1>2. b \in BOOLEAN
  BY <1>1, WorkflowsAssumption DEF Inherited, NestedRunsInOrder, FrameInOrder
<1>3. frames' = [q \in DOMAIN frames \union {Below(p, s)} |->
                   IF q = Below(p, s)
                   THEN NewFrame(w, frames[p].ancestors \union {w}, b, FALSE)
                   ELSE frames[q]]
  BY DEF RunNested
<1>4. /\ DOMAIN frames' = DOMAIN frames \union {Below(p, s)}
      /\ frames'[Below(p, s)] = NewFrame(w, frames[p].ancestors \union {w}, b, FALSE)
      /\ \A q \in DOMAIN frames : frames'[q] = frames[q]
  BY <1>1, <1>3
<1> QED
  BY <1>1, <1>2, <1>4, OneRunStarts

LEMMA NestedReturnsInOrder ==
    ASSUME NestedRunsInOrder, NEW p \in DOMAIN frames, NEW s \in DOMAIN frames[p].status,
           NestedReturns(p, s)
    PROVE  NestedRunsInOrder'
<1>1. PICK outcome, gone :
         /\ outcome = frames[Below(p, s)].phase
         /\ gone = IF outcome = Suspended /\ Running(p) THEN {} ELSE Inside(Below(p, s))
         /\ Deliver(p, s, outcome, gone) /\ answers' = answers
  BY DEF NestedReturns
<1>2. /\ frames[p].status[s] = "out" /\ Below(p, s) \in DOMAIN frames
      /\ Below(p, s) \in Inside(Below(p, s))
      /\ outcome \in Terminal \union {Suspended}
  BY <1>1, StepInOrder DEF NestedReturns, NestedRunsInOrder, FrameInOrder, Phases
<1> QED
  BY <1>1, <1>2, DeliverNested

\* Resume: a suspended run gets an answer, from its caller or from the run below.
LEMMA ResumeNested ==
    ASSUME NestedRunsInOrder, NEW p \in DOMAIN frames, NEW s \in DOMAIN frames[p].status,
           frames[p].phase = Suspended, NEW outcome \in Terminal,
           NEW gone \in {{}, Inside(Below(p, s))},
           DOMAIN frames' = DOMAIN frames \ gone,
           frames'[p] = Resumed(frames[p], s, outcome),
           \A q \in DOMAIN frames \ gone : q # p => frames'[q] = frames[q],
           Below(p, s) \notin DOMAIN frames',
           answers' \in {answers, answers + 1}, Len(p) <= Budget(answers')
    PROVE  NestedRunsInOrder'
<1>1. PICK g : g = Resumed(frames[p], s, outcome)
  OBVIOUS
<1>2. FrameInOrder(frames[p])
  BY DEF NestedRunsInOrder
<1>3. /\ FrameInOrder(g)
      /\ g.wf = frames[p].wf /\ g.ancestors = {} /\ g.byCaller = TRUE
      /\ DOMAIN g.status = DOMAIN frames[p].status
      /\ \A t \in DOMAIN g.status : g.status[t] = IF t = s THEN outcome ELSE frames[p].status[t]
  BY <1>1, <1>2, ResumedInOrder DEF FrameInOrder
<1>4. outcome # Suspended
  BY DEF Terminal, Failures, Success, Suspended
<1>5. ListKept(p, g)
  BY <1>3 DEF ListKept
<1>6. StepWritten(p, s, g, gone)
  BY <1>1, <1>3, <1>4, <1>5 DEF StepWritten
<1> QED
  BY <1>6, OneStepChanges

\* One more answer pays for whatever list the run had.
LEMMA AnswerInOrder ==
    ASSUME NestedRunsInOrder, NEW p \in DOMAIN frames, NEW s \in DOMAIN frames[p].status,
           Answer(p, s)
    PROVE  NestedRunsInOrder'
<1>1. PICK outcome \in {Success, "permanentFail"} :
         frames' = [frames EXCEPT ![p] = Resumed(frames[p], s, outcome)]
  BY DEF Answer
<1>2. /\ frames[p].phase = Suspended /\ Below(p, s) \notin DOMAIN frames
      /\ outcome \in Terminal /\ answers' = answers + 1
  BY DEF Answer, Terminal, Failures
<1>3. /\ DOMAIN frames' = DOMAIN frames \ {}
      /\ frames'[p] = Resumed(frames[p], s, outcome)
      /\ \A q \in DOMAIN frames \ {} : q # p => frames'[q] = frames[q]
      /\ Below(p, s) \notin DOMAIN frames'
  BY <1>1, <1>2
<1>4. Len(p) <= Budget(answers')
  <2>1. /\ answers \in Nat /\ IsFiniteSet(frames[p].ancestors) /\ Len(p) \in Nat
        /\ frames[p].ancestors \subseteq Names
        /\ Len(p) <= Budget(answers) + Cardinality(frames[p].ancestors)
    BY LenProperties DEF NestedRunsInOrder, Nested, Listed, FrameInOrder, Paths
  <2>2. /\ Cardinality(frames[p].ancestors) \in Nat
        /\ Cardinality(frames[p].ancestors) <= Cardinality(Names)
    BY <2>1, FS_Subset, FS_CardinalityType, WorkflowsAssumption
  <2>3. /\ Cardinality(Names) \in Nat /\ Budget(answers) \in Nat
        /\ Budget(answers + 1) = Budget(answers) + Cardinality(Names)
    BY <2>1, BudgetGrows
  <2> QED
    BY <1>2, <2>1, <2>2, <2>3
<1> QED
  BY <1>2, <1>3, <1>4, ResumeNested

\* The run below has been resumed before, and is one deeper.
LEMMA ForwardInOrder ==
    ASSUME NestedRunsInOrder, NEW p \in DOMAIN frames, NEW s \in DOMAIN frames[p].status,
           Forward(p, s)
    PROVE  NestedRunsInOrder'
<1>1. PICK outcome, gone :
         /\ outcome = frames[Below(p, s)].phase /\ gone = Inside(Below(p, s))
         /\ frames' = [q \in DOMAIN frames \ gone |->
                         IF q = p THEN Resumed(frames[p], s, outcome) ELSE frames[q]]
  BY DEF Forward
<1>2. /\ frames[p].phase = Suspended /\ outcome \in Terminal
      /\ Below(p, s) \in gone /\ p \notin gone /\ answers' = answers
  BY <1>1, StepInOrder DEF Forward
<1>3. /\ DOMAIN frames' = DOMAIN frames \ gone
      /\ frames'[p] = Resumed(frames[p], s, outcome)
      /\ \A q \in DOMAIN frames \ gone : q # p => frames'[q] = frames[q]
      /\ Below(p, s) \notin DOMAIN frames'
  BY <1>1, <1>2
<1>4. Len(p) <= Budget(answers')
  <2> DEFINE b == Below(p, s)
  <2>1. /\ b \in DOMAIN frames /\ frames[p].status[s] = Suspended
        /\ frames[b].phase # Suspended
    BY DEF Forward, Terminal, Failures, Success, Suspended
  <2>2. frames[b].byCaller
    BY <2>1, StepInOrder DEF NestedRunsInOrder, Awaited
  <2>3. /\ answers \in Nat /\ frames[b].ancestors = {}
        /\ Len(b) <= Budget(answers) + Cardinality(frames[b].ancestors)
    BY <2>1, <2>2 DEF NestedRunsInOrder, Listed
  <2>4. Len(b) = Len(p) + 1 /\ Len(p) \in Nat
    BY StepInOrder, PrefixOfBelow, LenProperties DEF NestedRunsInOrder, Nested, Paths
  <2>5. Budget(answers) \in Nat /\ Cardinality({}) = 0
    BY <2>3, BudgetGrows, FS_EmptySet
  <2> QED
    BY <1>2, <2>3, <2>4, <2>5
<1> QED
  BY <1>1, <1>2, <1>3, <1>4, ResumeNested

LEMMA StillNested ==
    ASSUME NestedRunsInOrder, UNCHANGED <<frames, answers>>
    PROVE  NestedRunsInOrder'
BY DEF NestedRunsInOrder, Nested, Attended, Listed, Awaited, Unbroken, Process, Below

LEMMA NextNested == ASSUME NestedRunsInOrder, [Next]_vars PROVE NestedRunsInOrder'
<1>1. ASSUME NEW p \in DOMAIN frames, Conclude(p) \/ Abandon(p)
      PROVE  NestedRunsInOrder'
  BY <1>1, EndNested
<1>2. ASSUME NEW p \in DOMAIN frames, NEW s \in DOMAIN frames[p].status, FrameStep(p, s)
      PROVE  NestedRunsInOrder'
  BY <1>2, LaunchNested, LeafNested, RefuseInOrder, RunNestedInOrder, NestedReturnsInOrder,
     ForwardInOrder DEF FrameStep
<1>3. ASSUME NEW p \in DOMAIN frames, NEW s \in DOMAIN frames[p].status, Answer(p, s)
      PROVE  NestedRunsInOrder'
  BY <1>3, AnswerInOrder
<1>4. CASE Cancel \/ UNCHANGED vars
  BY <1>4, StillNested DEF Cancel, vars
<1> QED
  BY <1>1, <1>2, <1>3, <1>4 DEF Next

\* runSubworkflow and its caller: runs inside runs stay a tree in which every step that
\* runs a workflow has its run, every list of ancestors is complete up to the nearest run
\* the caller drives, and a run's phase agrees with its steps.
THEOREM NestedRunsStayInOrder == Spec => []NestedRunsInOrder
BY InitNested, NextNested, PTL DEF Spec

\* ErrSubworkflowCycle: a run started by runSubworkflow is never inside another run of its
\* workflow, unless the caller drives that one or has resumed one on the way.
THEOREM DescentAlwaysEnds == Spec => []DescentEnds
<1>1. NestedRunsInOrder => DescentEnds
  BY DEF NestedRunsInOrder, Listed, DescentEnds
<1> QED
  BY <1>1, NestedRunsStayInOrder, PTL

\* How deep runs go.
DepthWithinAnswers == \A p \in DOMAIN frames : Len(p) <= (answers + 1) * Cardinality(Names)

\* ErrSubworkflowCycle, and WithSubworkflows under a Resume: without an answer no run goes
\* deeper than the documents have workflows, and each answer allows that depth once more.
\* So `run` references that form a cycle make a run endless only if its caller goes on
\* answering for ever.
THEOREM DepthIsBounded == Spec => []DepthWithinAnswers
<1>1. NestedRunsInOrder => DepthWithinAnswers
  <2> SUFFICES ASSUME NestedRunsInOrder, NEW p \in DOMAIN frames
               PROVE  Len(p) <= Budget(answers + 1)
    BY DEF DepthWithinAnswers, Budget
  <2>1. /\ answers \in Nat /\ frames[p].ancestors \subseteq Names /\ Len(p) \in Nat
        /\ Len(p) <= Budget(answers) + Cardinality(frames[p].ancestors)
    BY LenProperties DEF NestedRunsInOrder, Nested, FrameInOrder, Listed, Paths
  <2>2. /\ Cardinality(frames[p].ancestors) <= Cardinality(Names)
        /\ Cardinality(frames[p].ancestors) \in Nat
    BY <2>1, FS_Subset, FS_CardinalityType, WorkflowsAssumption
  <2>3. /\ Cardinality(Names) \in Nat /\ Budget(answers) \in Nat
        /\ Budget(answers + 1) = Budget(answers) + Cardinality(Names)
    BY <2>1, BudgetGrows
  <2> QED
    BY <2>1, <2>2, <2>3
<1> QED
  BY <1>1, NestedRunsStayInOrder, PTL

-----------------------------------------------------------------------------
(* Suspensions.                                                            *)

\* A run that returned with nothing out and nothing suspended has no run inside it.
LEMMA NothingInsideSuccess ==
    ASSUME NestedRunsInOrder, NEW b \in DOMAIN frames, NEW p \in DOMAIN frames,
           frames[b].phase = Success, IsPrefix(b, p)
    PROVE  p = b
<1>1. SUFFICES ASSUME p # b
               PROVE  FALSE
  OBVIOUS
<1>2. b \in Paths /\ p \in Paths
  BY DEF NestedRunsInOrder, Nested
<1>3. PICK s \in StepNames : IsPrefix(Below(b, s), p)
  BY <1>1, <1>2, WayDown
<1>4. Below(b, s) \in DOMAIN frames
  BY <1>2, <1>3, PrefixOfBelow DEF NestedRunsInOrder, Nested
<1>5. s \in DOMAIN frames[b].status /\ frames[b].status[s] \in {"out", Suspended}
  BY <1>4 DEF NestedRunsInOrder, Attended
<1> QED
  BY <1>5 DEF NestedRunsInOrder, FrameInOrder, Success

\* Who is forgotten while suspended is below a run that failed.
LEMMA ForgottenBelowFailure ==
    ASSUME NestedRunsInOrder, NEW p \in DOMAIN frames, NEW s \in DOMAIN frames[p].status,
           NestedReturns(p, s) \/ Forward(p, s),
           NEW q \in DOMAIN frames, frames[q].phase = Suspended, q \notin DOMAIN frames'
    PROVE  \E r \in DOMAIN frames : IsPrefix(r, q) /\ r # q /\ frames[r].phase \in Failures
<1> DEFINE b == Below(p, s)
<1>1. /\ q \in Inside(b) /\ b \in DOMAIN frames /\ frames[b].phase # "running"
      /\ frames[b].phase = Suspended => ~Running(p) /\ frames[p].status[s] = "out"
  BY DEF NestedReturns, Forward, Deliver, Terminal, Failures, Success, Suspended
<1>2. IsPrefix(b, q) /\ FrameInOrder(frames[b]) /\ FrameInOrder(frames[p])
  BY <1>1 DEF Inside, NestedRunsInOrder
<1>3. CASE frames[b].phase \in Failures
  BY <1>1, <1>2, <1>3 DEF Failures, Suspended
<1>4. CASE frames[b].phase = Success
  BY <1>1, <1>2, <1>4, NothingInsideSuccess DEF Success, Suspended
<1>5. CASE frames[b].phase = Suspended
  <2>1. frames[p].phase \in Failures
    BY <1>1, <1>2, <1>5 DEF FrameInOrder, Running, Failures
  <2>2. p \in Paths /\ q \in Paths /\ s \in StepNames /\ b \in Paths
    BY <1>1, StepInOrder DEF NestedRunsInOrder, Nested
  <2>3. IsPrefix(p, q) /\ p # q
    BY <1>2, <2>2, PrefixOfBelow, PrefixOrder
  <2> QED
    BY <2>1, <2>3
<1> QED
  BY <1>1, <1>2, <1>3, <1>4, <1>5 DEF FrameInOrder, Phases, Terminal

LEMMA NextKeepsWaiting ==
    ASSUME NestedRunsInOrder, Next,
           NEW q \in DOMAIN frames, frames[q].phase = Suspended, q \notin DOMAIN frames'
    PROVE  \E r \in DOMAIN frames : IsPrefix(r, q) /\ r # q /\ frames[r].phase \in Failures
<1>1. ASSUME NEW p \in DOMAIN frames, Conclude(p) \/ Abandon(p)
      PROVE  FALSE
  BY <1>1 DEF Conclude, Abandon
<1>2. ASSUME NEW p \in DOMAIN frames, NEW s \in DOMAIN frames[p].status,
             Launch(p, s) \/ LeafReturns(p, s) \/ RefuseNested(p, s) \/ RunNested(p, s)
               \/ Answer(p, s)
      PROVE  FALSE
  BY <1>2 DEF Launch, LeafReturns, RefuseNested, RunNested, Answer, Deliver
<1>3. ~Cancel
  BY DEF Cancel
<1> QED
  BY <1>1, <1>2, <1>3, ForgottenBelowFailure DEF Next, FrameStep

\* suspendNested and DecodeSubworkflowSuspension: who asks can be answered, and goes on
\* existing until answered or until a run above fails.
THEOREM SuspensionsStay == Spec => SuspensionsKept
<1>1. NestedRunsInOrder => AnswersReachable
  <2> SUFFICES ASSUME NestedRunsInOrder, NEW p \in DOMAIN frames, frames[p].phase = Suspended
               PROVE  /\ \E s \in DOMAIN frames[p].status : frames[p].status[s] = Suspended
                      /\ \A s \in DOMAIN frames[p].status :
                           frames[p].status[s] = Suspended =>
                              (Process(p, s) \in Names <=> Below(p, s) \in DOMAIN frames)
    BY DEF AnswersReachable
  <2> QED
    BY StepInOrder DEF NestedRunsInOrder, FrameInOrder
<1>2. NestedRunsInOrder /\ [Next]_vars =>
         [\A p \in DOMAIN frames : frames[p].phase = Suspended /\ p \notin DOMAIN frames' =>
            \E q \in DOMAIN frames : IsPrefix(q, p) /\ q # p /\ frames[q].phase \in Failures]_vars
  BY NextKeepsWaiting
<1> QED
  BY <1>1, <1>2, NestedRunsStayInOrder, PTL DEF Spec, SuspensionsKept, WaitingKept
=============================================================================
