------------------------- MODULE ToolInvocationProofs -------------------------
(***************************************************************************)
(* Proofs that ToolInvocation keeps its safety properties, however many    *)
(* invocations there are, whichever of them are contained or limited, and  *)
(* whatever fails, exits, expires or is cancelled.                         *)
(***************************************************************************)
EXTENDS ToolInvocation, TLAPS

Processes == Exits \union {Killed, Alive, Unborn}
Verdicts  == {"none", Success, PermanentFail, TemporaryFail}
Before    == {"new", "image", "fetching", "staging", "applying", "opening", "starting"}
Open      == {"starting", "running", "reaping", "closingStreams"}

TypeOK ==
    /\ pc \in [Calls -> Places]
    /\ process \in [Calls -> Processes]
    /\ verdict \in [Calls -> Verdicts]

\* The tool has exited by itself and nothing around it has failed since.
Exited(c) == process[c] \in Exits /\ verdict[c] = process[c].class

\* What the child process and the verdict of c can be at each place of its goroutine.
VerdictFollows(c) ==
    /\ pc[c] \in Before => process[c] = Unborn /\ verdict[c] = "none"
    /\ pc[c] = "running" => process[c] = Alive /\ verdict[c] = "none"
    /\ pc[c] = "reaping" =>
          /\ process[c] \in Exits \/ (process[c] = Killed /\ (cancelled \/ c \in expired))
          /\ verdict[c] = "none"
    /\ pc[c] = "closingStreams" =>
          /\ process[c] # Alive
          /\ verdict[c] = PermanentFail \/ (verdict[c] = "none" /\ process[c] \in Exits)
    /\ pc[c] = "collecting" => verdict[c] = "none" /\ process[c] \in Exits
    /\ pc[c] \in {"releasing", "done"} =>
          process[c] # Alive /\ (verdict[c] = PermanentFail \/ Exited(c))
    /\ c \in complained => pc[c] = "done" /\ verdict[c] # Success

\* What a host invocation holds at each place.
HostHolds(c) ==
    /\ c \in streams => pc[c] \in Open
    /\ c \notin Contained =>
          /\ pc[c] \notin {"new", "done"} => c \in opened
          /\ pc[c] = "new" => c \notin scratch
          /\ pc[c] = "done" => (c \in scratch => c \in complained)

\* A contained invocation past its image, a container or an entry of dockerImages.
ImageHeld ==
    /\ cached \/ containers # {} => fetched
    /\ \A c \in Contained : pc[c] \in {"staging", "applying", "opening", "starting"} => fetched

ToolInvariant ==
    /\ TypeOK
    /\ \A c \in Calls : VerdictFollows(c) /\ HostHolds(c)
    /\ ImageHeld

-----------------------------------------------------------------------------
(* How a child process can end, and what that says. *)

LEMMA ProcessFacts ==
    /\ \A e \in Exits : e.class \in {Success, PermanentFail, TemporaryFail}
    /\ Killed \notin Exits /\ Alive \notin Exits /\ Unborn \notin Exits
    /\ Killed # Alive /\ Killed # Unborn /\ Alive # Unborn /\ ~Killed.zero
BY DEF Exits, Killed, Alive, Unborn, Success, PermanentFail, TemporaryFail

LEMMA VerdictFacts ==
    /\ Success # PermanentFail /\ TemporaryFail # PermanentFail /\ Success # TemporaryFail
    /\ "none" \notin {Success, PermanentFail, TemporaryFail}
BY DEF Success, PermanentFail, TemporaryFail

\* An action of one invocation leaves the others where they are; what it does to its
\* own, it does in the order runAndClose has.
LEMMA AllocateKeeps ==
    ASSUME ToolInvariant, NEW c \in Calls, Allocate(c)
    PROVE  ToolInvariant'
<1> USE ProcessFacts, VerdictFacts DEF ToolInvariant, TypeOK, Allocate, Goes
<1>1. TypeOK'
  BY DEF Places, Processes, Verdicts
<1>2. ASSUME NEW d \in Calls
      PROVE  VerdictFollows(d)'
  BY DEF VerdictFollows, Exited, Before
<1>3. ASSUME NEW d \in Calls
      PROVE  HostHolds(d)'
  BY DEF HostHolds, Open
<1>4. ImageHeld'
  BY DEF ImageHeld
<1> QED
  BY <1>1, <1>2, <1>3, <1>4

LEMMA AllocateFailsKeeps ==
    ASSUME ToolInvariant, NEW c \in Calls, AllocateFails(c)
    PROVE  ToolInvariant'
<1> USE ProcessFacts, VerdictFacts DEF ToolInvariant, TypeOK, AllocateFails, Fails, Goes
<1>1. TypeOK'
  BY DEF Places, Processes, Verdicts
<1>2. ASSUME NEW d \in Calls
      PROVE  VerdictFollows(d)'
  BY DEF VerdictFollows, Exited, Before
<1>3. ASSUME NEW d \in Calls
      PROVE  HostHolds(d)'
  BY DEF HostHolds, Open
<1>4. ImageHeld'
  BY DEF ImageHeld
<1> QED
  BY <1>1, <1>2, <1>3, <1>4

LEMMA AcquireImageKeeps ==
    ASSUME ToolInvariant, NEW c \in Calls, AcquireImage(c)
    PROVE  ToolInvariant'
<1> USE ProcessFacts, VerdictFacts DEF ToolInvariant, TypeOK, AcquireImage, Goes
<1>1. TypeOK'
  BY DEF Places, Processes, Verdicts
<1>2. ASSUME NEW d \in Calls
      PROVE  VerdictFollows(d)'
  BY DEF VerdictFollows, Exited, Before
<1>3. ASSUME NEW d \in Calls
      PROVE  HostHolds(d)'
  BY DEF HostHolds, Open
<1>4. ImageHeld'
  BY DEF ImageHeld
<1> QED
  BY <1>1, <1>2, <1>3, <1>4

LEMMA FetchKeeps ==
    ASSUME ToolInvariant, NEW c \in Calls, Fetch(c)
    PROVE  ToolInvariant'
<1> USE ProcessFacts, VerdictFacts DEF ToolInvariant, TypeOK, Fetch, Goes
<1>1. TypeOK'
  BY DEF Places, Processes, Verdicts
<1>2. ASSUME NEW d \in Calls
      PROVE  VerdictFollows(d)'
  BY DEF VerdictFollows, Exited, Before
<1>3. ASSUME NEW d \in Calls
      PROVE  HostHolds(d)'
  BY DEF HostHolds, Open
<1>4. ImageHeld'
  BY DEF ImageHeld
<1> QED
  BY <1>1, <1>2, <1>3, <1>4

LEMMA FetchFailsKeeps ==
    ASSUME ToolInvariant, NEW c \in Calls, FetchFails(c)
    PROVE  ToolInvariant'
<1> USE ProcessFacts, VerdictFacts DEF ToolInvariant, TypeOK, FetchFails, Fails, Goes
<1>1. TypeOK'
  BY DEF Places, Processes, Verdicts
<1>2. ASSUME NEW d \in Calls
      PROVE  VerdictFollows(d)'
  BY DEF VerdictFollows, Exited, Before
<1>3. ASSUME NEW d \in Calls
      PROVE  HostHolds(d)'
  BY DEF HostHolds, Open
<1>4. ImageHeld'
  BY DEF ImageHeld
<1> QED
  BY <1>1, <1>2, <1>3, <1>4

LEMMA StageKeeps ==
    ASSUME ToolInvariant, NEW c \in Calls, Stage(c)
    PROVE  ToolInvariant'
<1> USE ProcessFacts, VerdictFacts DEF ToolInvariant, TypeOK, Stage, Goes
<1>1. TypeOK'
  BY DEF Places, Processes, Verdicts
<1>2. ASSUME NEW d \in Calls
      PROVE  VerdictFollows(d)'
  BY DEF VerdictFollows, Exited, Before
<1>3. ASSUME NEW d \in Calls
      PROVE  HostHolds(d)'
  BY DEF HostHolds, Open
<1>4. ImageHeld'
  BY DEF ImageHeld
<1> QED
  BY <1>1, <1>2, <1>3, <1>4

LEMMA StageFailsKeeps ==
    ASSUME ToolInvariant, NEW c \in Calls, StageFails(c)
    PROVE  ToolInvariant'
<1> USE ProcessFacts, VerdictFacts DEF ToolInvariant, TypeOK, StageFails, Fails, Goes
<1>1. TypeOK'
  BY DEF Places, Processes, Verdicts
<1>2. ASSUME NEW d \in Calls
      PROVE  VerdictFollows(d)'
  BY DEF VerdictFollows, Exited, Before
<1>3. ASSUME NEW d \in Calls
      PROVE  HostHolds(d)'
  BY DEF HostHolds, Open
<1>4. ImageHeld'
  BY DEF ImageHeld
<1> QED
  BY <1>1, <1>2, <1>3, <1>4

LEMMA ApplyKeeps ==
    ASSUME ToolInvariant, NEW c \in Calls, Apply(c)
    PROVE  ToolInvariant'
<1> USE ProcessFacts, VerdictFacts DEF ToolInvariant, TypeOK, Apply, Fails, Goes
<1>1. TypeOK'
  BY DEF Places, Processes, Verdicts
<1>2. ASSUME NEW d \in Calls
      PROVE  VerdictFollows(d)'
  BY DEF VerdictFollows, Exited, Before
<1>3. ASSUME NEW d \in Calls
      PROVE  HostHolds(d)'
  BY DEF HostHolds, Open
<1>4. ImageHeld'
  <2>1. /\ pc[c] = "applying" /\ \E to \in {"opening", "releasing"} : pc' = [pc EXCEPT ![c] = to]
        /\ UNCHANGED <<cached, containers, fetched>>
    OBVIOUS
  <2> QED
    BY <2>1 DEF ImageHeld
<1> QED
  BY <1>1, <1>2, <1>3, <1>4

LEMMA OpenStreamsKeeps ==
    ASSUME ToolInvariant, NEW c \in Calls, OpenStreams(c)
    PROVE  ToolInvariant'
<1> USE ProcessFacts, VerdictFacts DEF ToolInvariant, TypeOK, OpenStreams, Fails, Goes
<1>1. TypeOK'
  BY DEF Places, Processes, Verdicts
<1>2. ASSUME NEW d \in Calls
      PROVE  VerdictFollows(d)'
  BY DEF VerdictFollows, Exited, Before
<1>3. ASSUME NEW d \in Calls
      PROVE  HostHolds(d)'
  BY DEF HostHolds, Open
<1>4. ImageHeld'
  <2>1. /\ pc[c] = "opening" /\ \E to \in {"starting", "releasing"} : pc' = [pc EXCEPT ![c] = to]
        /\ UNCHANGED <<cached, containers, fetched>>
    OBVIOUS
  <2> QED
    BY <2>1 DEF ImageHeld
<1> QED
  BY <1>1, <1>2, <1>3, <1>4

LEMMA SpawnKeeps ==
    ASSUME ToolInvariant, NEW c \in Calls, Spawn(c)
    PROVE  ToolInvariant'
<1> USE ProcessFacts, VerdictFacts DEF ToolInvariant, TypeOK, Spawn, Goes
<1>1. TypeOK'
  BY DEF Places, Processes, Verdicts
<1>2. ASSUME NEW d \in Calls
      PROVE  VerdictFollows(d)'
  BY DEF VerdictFollows, Exited, Before
<1>3. ASSUME NEW d \in Calls
      PROVE  HostHolds(d)'
  BY DEF HostHolds, Open
<1>4. ImageHeld'
  BY DEF ImageHeld
<1> QED
  BY <1>1, <1>2, <1>3, <1>4

LEMMA SpawnFailsKeeps ==
    ASSUME ToolInvariant, NEW c \in Calls, SpawnFails(c)
    PROVE  ToolInvariant'
<1> USE ProcessFacts, VerdictFacts DEF ToolInvariant, TypeOK, SpawnFails, Fails, Goes
<1>1. TypeOK'
  BY DEF Places, Processes, Verdicts
<1>2. ASSUME NEW d \in Calls
      PROVE  VerdictFollows(d)'
  BY DEF VerdictFollows, Exited, Before
<1>3. ASSUME NEW d \in Calls
      PROVE  HostHolds(d)'
  BY DEF HostHolds, Open
<1>4. ImageHeld'
  BY DEF ImageHeld
<1> QED
  BY <1>1, <1>2, <1>3, <1>4

LEMMA ExitKeeps ==
    ASSUME ToolInvariant, NEW c \in Calls, Exit(c)
    PROVE  ToolInvariant'
<1> USE ProcessFacts, VerdictFacts, CallsAssumption DEF ToolInvariant, TypeOK, Exit, Goes
<1>1. TypeOK'
  BY DEF Places, Processes, Verdicts
<1>2. ASSUME NEW d \in Calls
      PROVE  VerdictFollows(d)'
  BY DEF VerdictFollows, Exited, Before
<1>3. ASSUME NEW d \in Calls
      PROVE  HostHolds(d)'
  BY DEF HostHolds, Open
<1>4. ImageHeld'
  BY DEF ImageHeld
<1> QED
  BY <1>1, <1>2, <1>3, <1>4

LEMMA KillKeeps ==
    ASSUME ToolInvariant, NEW c \in Calls, Kill(c)
    PROVE  ToolInvariant'
<1> USE ProcessFacts, VerdictFacts DEF ToolInvariant, TypeOK, Kill, Goes
<1>1. TypeOK'
  BY DEF Places, Processes, Verdicts
<1>2. ASSUME NEW d \in Calls
      PROVE  VerdictFollows(d)'
  BY DEF VerdictFollows, Exited, Before
<1>3. ASSUME NEW d \in Calls
      PROVE  HostHolds(d)'
  BY DEF HostHolds, Open
<1>4. ImageHeld'
  BY DEF ImageHeld
<1> QED
  BY <1>1, <1>2, <1>3, <1>4

LEMMA ReapKeeps ==
    ASSUME ToolInvariant, NEW c \in Calls, Reap(c)
    PROVE  ToolInvariant'
<1> USE ProcessFacts, VerdictFacts DEF ToolInvariant, TypeOK, Reap, Goes, RunError
<1>1. TypeOK'
  BY DEF Places, Processes, Verdicts
<1>2. ASSUME NEW d \in Calls
      PROVE  VerdictFollows(d)'
  BY DEF VerdictFollows, Exited, Before
<1>3. ASSUME NEW d \in Calls
      PROVE  HostHolds(d)'
  BY DEF HostHolds, Open
<1>4. ImageHeld'
  BY DEF ImageHeld
<1> QED
  BY <1>1, <1>2, <1>3, <1>4

LEMMA CloseStreamsKeeps ==
    ASSUME ToolInvariant, NEW c \in Calls, CloseStreams(c)
    PROVE  ToolInvariant'
<1> USE ProcessFacts, VerdictFacts DEF ToolInvariant, TypeOK, CloseStreams
<1>1. TypeOK'
  BY DEF Places, Processes, Verdicts
<1>2. ASSUME NEW d \in Calls
      PROVE  VerdictFollows(d)'
  BY DEF VerdictFollows, Exited, Before
<1>3. ASSUME NEW d \in Calls
      PROVE  HostHolds(d)'
  BY DEF HostHolds, Open
<1>4. ImageHeld'
  BY DEF ImageHeld
<1> QED
  BY <1>1, <1>2, <1>3, <1>4

LEMMA CollectKeeps ==
    ASSUME ToolInvariant, NEW c \in Calls, Collect(c)
    PROVE  ToolInvariant'
<1> USE ProcessFacts, VerdictFacts DEF ToolInvariant, TypeOK, Collect, Fails, Goes
<1>1. TypeOK'
  BY DEF Places, Processes, Verdicts, VerdictFollows
<1>2. ASSUME NEW d \in Calls
      PROVE  VerdictFollows(d)'
  BY DEF VerdictFollows, Exited, Before
<1>3. ASSUME NEW d \in Calls
      PROVE  HostHolds(d)'
  BY DEF HostHolds, Open
<1>4. ImageHeld'
  <2>1. /\ pc[c] = "collecting" /\ \E to \in {"releasing"} : pc' = [pc EXCEPT ![c] = to]
        /\ UNCHANGED <<cached, containers, fetched>>
    OBVIOUS
  <2> QED
    BY <2>1 DEF ImageHeld
<1> QED
  BY <1>1, <1>2, <1>3, <1>4

LEMMA ReleaseKeeps ==
    ASSUME ToolInvariant, NEW c \in Calls, Release(c)
    PROVE  ToolInvariant'
<1> USE ProcessFacts, VerdictFacts DEF ToolInvariant, TypeOK, Release, Goes, WithCloseError
<1>1. TypeOK'
  BY DEF Places, Processes, Verdicts
<1>2. ASSUME NEW d \in Calls
      PROVE  VerdictFollows(d)'
  BY DEF VerdictFollows, Exited, Before
<1>3. ASSUME NEW d \in Calls
      PROVE  HostHolds(d)'
  BY DEF HostHolds, Open
<1>4. ImageHeld'
  BY DEF ImageHeld
<1> QED
  BY <1>1, <1>2, <1>3, <1>4

LEMMA ExpireKeeps ==
    ASSUME ToolInvariant, NEW c \in Calls, Expire(c)
    PROVE  ToolInvariant'
<1> USE ProcessFacts, VerdictFacts DEF ToolInvariant, TypeOK, Expire
<1>1. TypeOK'
  BY DEF Places, Processes, Verdicts
<1>2. ASSUME NEW d \in Calls
      PROVE  VerdictFollows(d)'
  BY DEF VerdictFollows, Exited, Before
<1>3. ASSUME NEW d \in Calls
      PROVE  HostHolds(d)'
  BY DEF HostHolds, Open
<1>4. ImageHeld'
  BY DEF ImageHeld
<1> QED
  BY <1>1, <1>2, <1>3, <1>4

LEMMA ContainerEndsKeeps ==
    ASSUME ToolInvariant, NEW c \in Calls, ContainerEnds(c)
    PROVE  ToolInvariant'
<1> USE ProcessFacts, VerdictFacts DEF ToolInvariant, TypeOK, ContainerEnds
<1>1. TypeOK'
  BY DEF Places, Processes, Verdicts
<1>2. ASSUME NEW d \in Calls
      PROVE  VerdictFollows(d)'
  BY DEF VerdictFollows, Exited, Before
<1>3. ASSUME NEW d \in Calls
      PROVE  HostHolds(d)'
  BY DEF HostHolds, Open
<1>4. ImageHeld'
  BY DEF ImageHeld
<1> QED
  BY <1>1, <1>2, <1>3, <1>4

-----------------------------------------------------------------------------
(* The invariant, and what follows from it. *)

LEMMA ToolInit ==
    ASSUME Init
    PROVE  ToolInvariant
<1>1. TypeOK
  BY DEF Init, TypeOK, Places, Processes, Verdicts
<1>2. ASSUME NEW c \in Calls
      PROVE  VerdictFollows(c) /\ HostHolds(c)
  BY DEF Init, VerdictFollows, HostHolds, Before
<1>3. ImageHeld
  BY CallsAssumption DEF Init, ImageHeld
<1> QED
  BY <1>1, <1>2, <1>3 DEF ToolInvariant

LEMMA ToolNext ==
    ASSUME ToolInvariant, [Next]_vars
    PROVE  ToolInvariant'
<1>1. ASSUME NEW c \in Calls, Work(c)
      PROVE  ToolInvariant'
  BY <1>1, AllocateKeeps, AllocateFailsKeeps, AcquireImageKeeps, StageKeeps, StageFailsKeeps, ApplyKeeps,
     OpenStreamsKeeps, SpawnKeeps, SpawnFailsKeeps, KillKeeps, ReapKeeps, CloseStreamsKeeps, CollectKeeps,
     ReleaseKeeps DEF Work
<1>2. ASSUME NEW c \in Calls, Fetch(c) \/ FetchFails(c) \/ Exit(c) \/ Expire(c) \/ ContainerEnds(c)
      PROVE  ToolInvariant'
  BY <1>2, FetchKeeps, FetchFailsKeeps, ExitKeeps, ExpireKeeps, ContainerEndsKeeps
<1>3. CASE Cancel
  BY <1>3 DEF Cancel, ToolInvariant, TypeOK, VerdictFollows, Exited, HostHolds, ImageHeld
<1>4. CASE UNCHANGED vars
  BY <1>4 DEF vars, ToolInvariant, TypeOK, VerdictFollows, Exited, HostHolds, ImageHeld
<1> QED
  BY <1>1, <1>2, <1>3, <1>4 DEF Next, Finished

(* Wherever an invocation stands, its child process, its verdict, what it  *)
(* holds on the host and the image agree (runAndClose, RunProcess,         *)
(* closeInvocation, EnsureImage).                                          *)
THEOREM ToolInvariantHolds == Spec => []ToolInvariant
<1>1. Init => ToolInvariant
  BY ToolInit
<1>2. ToolInvariant /\ [Next]_vars => ToolInvariant'
  BY ToolNext
<1> QED
  BY <1>1, <1>2, PTL DEF Spec

(* Success and a retriable failure are what the tool itself reported, for  *)
(* any number of invocations, kills and failures around them (Outcome,     *)
(* runAndClose).                                                           *)
THEOREM VerdictsAreEarned == Spec => []ResultIsEarned
<1>1. ToolInvariant => ResultIsEarned
  BY ProcessFacts, VerdictFacts DEF ToolInvariant, VerdictFollows, Exited, ResultIsEarned
<1> QED
  BY <1>1, ToolInvariantHolds, PTL

(* A host invocation that is over has released what it took or reported    *)
(* why it could not, whichever step of it failed (closeInvocation).        *)
THEOREM HostReleasesAll == Spec => []HostLeavesNothing
<1>1. ToolInvariant => HostLeavesNothing
  BY DEF ToolInvariant, VerdictFollows, HostHolds, Open, HostLeavesNothing
<1> QED
  BY <1>1, ToolInvariantHolds, PTL

(* However many invocations race for the image, none of them runs a        *)
(* container before a fetch has succeeded (EnsureImage).                   *)
THEOREM ImageComesFirst == Spec => []ImageBeforeContainer
<1>1. ToolInvariant => ImageBeforeContainer
  BY DEF ToolInvariant, ImageHeld, ImageBeforeContainer
<1> QED
  BY <1>1, ToolInvariantHolds, PTL

=============================================================================
