--------------------------- MODULE ToolInvocation ---------------------------
(***************************************************************************)
(* Concurrent CommandLineTool invocations of one engine process            *)
(* (pkg/cwlexec/handler_commandline.go, clt_exec.go, executor_docker.go,   *)
(* invocation_local.go): allocate directories, acquire the image, stage,   *)
(* spawn, wait or kill, collect, release.                                  *)
(*                                                                         *)
(* Any step that touches the file system, evaluates an expression or asks  *)
(* an external program may fail.  The tool, the docker daemon and the      *)
(* clock are external; how the engine reacts to them is not.               *)
(***************************************************************************)
EXTENDS FiniteSets

CONSTANTS
    Calls,       \* invocations, each on a handler goroutine of its own
    Contained,   \* those with a DockerRequirement; all name one image
    Limited,     \* those under a ToolTimeLimit
    Allocating,  \* those whose StepCall.TmpDir is empty
    Endings      \* how a tool may exit

Success       == "success"
PermanentFail == "permanentFail"
TemporaryFail == "temporaryFail"

\* How a process ends: by itself, with exit code 0 or not, of the class
\* ClassifyExit finds for the code; or killed.
Exits   == [zero : BOOLEAN, class : {Success, PermanentFail, TemporaryFail}]
Killed  == [zero |-> FALSE, class |-> "signal"]
Alive   == [zero |-> FALSE, class |-> "alive"]
Unborn  == [zero |-> FALSE, class |-> "unborn"]

ASSUME CallsAssumption ==
    /\ Contained \subseteq Calls
    /\ Limited \subseteq Calls
    /\ Allocating \subseteq Calls
    /\ Endings \subseteq Exits

VARIABLES
    pc,         \* where each call's goroutine is
    scratch,    \* calls whose auto-allocated tmpdir exists
    opened,     \* calls with invocation.inv set
    streams,    \* calls with redirection files open
    process,    \* each call's child process
    containers, \* calls whose container the docker daemon runs
    expired,    \* calls whose time limit has passed
    verdict,    \* each call's Result.Status as it stands, PermanentFail with an error
    complained, \* calls whose release reported an error
    cancelled,  \* the run's context is done
    cached,     \* the image is in dockerImages
    fetched     \* some fetch of the image has succeeded

vars == <<pc, scratch, opened, streams, process, containers, expired, verdict,
          complained, cached, fetched, cancelled>>

Places == {"new", "image", "fetching", "staging", "applying", "opening", "starting",
           "running", "reaping", "closingStreams", "collecting", "releasing", "done"}

Init ==
    /\ pc = [c \in Calls |-> "new"]
    /\ scratch = {} /\ opened = {} /\ streams = {}
    /\ process = [c \in Calls |-> Unborn]
    /\ containers = {} /\ expired = {}
    /\ verdict = [c \in Calls |-> "none"]
    /\ complained = {}
    /\ cached = FALSE /\ fetched = FALSE /\ cancelled = FALSE

Goes(c, from, to) == pc[c] = from /\ pc' = [pc EXCEPT ![c] = to]

\* The step at hand fails; the error travels to where it is handled.
Fails(c, from, to) ==
    /\ Goes(c, from, to)
    /\ verdict' = [verdict EXCEPT ![c] = PermanentFail]

-----------------------------------------------------------------------------
(* newInvocation and prepare.                                              *)

\* newHostInvocation, newContainedInvocation: the directories exist.  The
\* Invocation of a host tool exists with them.
Allocate(c) ==
    /\ Goes(c, "new", IF c \in Contained THEN "image" ELSE "staging")
    /\ scratch' = IF c \in Allocating THEN scratch \union {c} ELSE scratch
    /\ opened' = IF c \in Contained THEN opened ELSE opened \union {c}
    /\ UNCHANGED <<streams, process, containers, expired, verdict, complained,
                   cached, fetched, cancelled>>

\* A directory cannot be made.  In newContainedInvocation that may be the
\* staging directory, inside a tmpdir just allocated.
AllocateFails(c) ==
    /\ Fails(c, "new", "done")
    /\ scratch' \in {scratch, scratch \union ({c} \intersect Contained \intersect Allocating)}
    /\ UNCHANGED <<opened, streams, process, containers, expired, complained,
                   cached, fetched, cancelled>>

\* Mutant: the image is marked available before it is fetched.
AcquireImageEarly(c) ==
    /\ Goes(c, "image", IF cached THEN "staging" ELSE "fetching")
    /\ cached' = TRUE
    /\ UNCHANGED <<scratch, opened, streams, process, containers, expired, verdict,
                   complained, fetched, cancelled>>

\* EnsureImage looks the image up in dockerImages.
AcquireImage(c) ==
    /\ Goes(c, "image", IF cached THEN "staging" ELSE "fetching")
    /\ UNCHANGED <<scratch, opened, streams, process, containers, expired, verdict,
                   complained, cached, fetched, cancelled>>

\* fetch found or got the image; dockerImages remembers it.
Fetch(c) ==
    /\ ~cancelled
    /\ Goes(c, "fetching", "staging")
    /\ cached' = TRUE /\ fetched' = TRUE
    /\ UNCHANGED <<scratch, opened, streams, process, containers, expired, verdict,
                   complained, cancelled>>

FetchFails(c) ==
    /\ Fails(c, "fetching", "releasing")
    /\ UNCHANGED <<scratch, opened, streams, process, containers, expired, complained,
                   cached, fetched, cancelled>>

\* Literals and the initial working directory are written and, for a
\* contained tool, NewInvocation sets invocation.inv.
Stage(c) ==
    /\ Goes(c, "staging", "applying")
    /\ opened' = opened \union {c}
    /\ UNCHANGED <<scratch, streams, process, containers, expired, verdict, complained,
                   cached, fetched, cancelled>>

StageFails(c) ==
    /\ Fails(c, "staging", "releasing")
    /\ UNCHANGED <<scratch, opened, streams, process, containers, expired, complained,
                   cached, fetched, cancelled>>

\* The path map is applied and spec() resolves argv, environment and limit.
Apply(c) ==
    /\ \/ Goes(c, "applying", "opening") /\ UNCHANGED verdict
       \/ Fails(c, "applying", "releasing")
    /\ UNCHANGED <<scratch, opened, streams, process, containers, expired, complained,
                   cached, fetched, cancelled>>

-----------------------------------------------------------------------------
(* RunProcess.                                                             *)

\* openStreams closes what it opened when it cannot open the rest.
OpenStreams(c) ==
    /\ \/ /\ Goes(c, "opening", "starting")
          /\ streams' = streams \union {c} /\ UNCHANGED verdict
       \/ Fails(c, "opening", "releasing") /\ UNCHANGED streams
    /\ UNCHANGED <<scratch, opened, process, containers, expired, complained,
                   cached, fetched, cancelled>>

\* cmd.Start: for a contained tool the process is `docker run`.
Spawn(c) ==
    /\ ~cancelled /\ c \notin expired
    /\ Goes(c, "starting", "running")
    /\ process' = [process EXCEPT ![c] = Alive]
    /\ containers' = containers \union ({c} \intersect Contained)
    /\ UNCHANGED <<scratch, opened, streams, expired, verdict, complained,
                   cached, fetched, cancelled>>

\* The program cannot be started, or its context is done already.
SpawnFails(c) ==
    /\ Fails(c, "starting", "closingStreams")
    /\ UNCHANGED <<scratch, opened, streams, process, containers, expired, complained,
                   cached, fetched, cancelled>>

\* The tool exits; `docker run` exits with its container's code.
Exit(c) ==
    /\ Goes(c, "running", "reaping")
    /\ \E e \in Endings : process' = [process EXCEPT ![c] = e]
    /\ containers' = containers \ {c}
    /\ UNCHANGED <<scratch, opened, streams, expired, verdict, complained,
                   cached, fetched, cancelled>>

\* Mutant: the process runs under the caller's context only.
KillOnCancel(c) ==
    /\ cancelled
    /\ Goes(c, "running", "reaping")
    /\ process' = [process EXCEPT ![c] = Killed]
    /\ UNCHANGED <<scratch, opened, streams, containers, expired, verdict, complained,
                   cached, fetched, cancelled>>

\* exec.CommandContext kills the process, not what it has started: for a
\* contained tool that is the docker client, and the container runs on.
Kill(c) ==
    /\ cancelled \/ c \in expired
    /\ Goes(c, "running", "reaping")
    /\ process' = [process EXCEPT ![c] = Killed]
    /\ UNCHANGED <<scratch, opened, streams, containers, expired, verdict, complained,
                   cached, fetched, cancelled>>

\* killedBy: only exit code 0 is believed once a context is done.
RunError(c) == ~process[c].zero /\ (cancelled \/ c \in expired)

Reap(c) ==
    /\ Goes(c, "reaping", "closingStreams")
    /\ verdict' = [verdict EXCEPT ![c] =
            IF RunError(c) THEN PermanentFail ELSE @]
    /\ UNCHANGED <<scratch, opened, streams, process, containers, expired, complained,
                   cached, fetched, cancelled>>

\* A redirection file that cannot be closed makes RunProcess fail.
CloseStreams(c) ==
    /\ pc[c] = "closingStreams"
    /\ \E failed \in BOOLEAN :
          /\ verdict' = [verdict EXCEPT ![c] = IF failed THEN PermanentFail ELSE @]
          /\ pc' = [pc EXCEPT ![c] =
                IF failed \/ verdict[c] = PermanentFail THEN "releasing" ELSE "collecting"]
    /\ streams' = streams \ {c}
    /\ UNCHANGED <<scratch, opened, process, containers, expired, complained,
                   cached, fetched, cancelled>>

-----------------------------------------------------------------------------
(* The rest of execute, and closeInvocation.                               *)

\* Relink, ClassifyExit, collect and the rewriting of output paths.
Collect(c) ==
    /\ \/ /\ Goes(c, "collecting", "releasing")
          /\ verdict' = [verdict EXCEPT ![c] = process[c].class]
       \/ Fails(c, "collecting", "releasing")
    /\ UNCHANGED <<scratch, opened, streams, process, containers, expired, complained,
                   cached, fetched, cancelled>>

\* Mutant: the error of closeInvocation is dropped.
WithCloseErrorDropped(status) == status

\* Outcome, when closeInvocation reported an error.
WithCloseError(status) == IF status = Success THEN PermanentFail ELSE status

\* Mutant: nothing is released after a failure.
ReleaseAfterSuccess(c) ==
    /\ Goes(c, "releasing", "done")
    /\ scratch' = IF verdict[c] = Success THEN scratch \ {c} ELSE scratch
    /\ UNCHANGED <<opened, streams, process, containers, expired, verdict, complained,
                   cached, fetched, cancelled>>

\* closeInvocation returns early when there is no Invocation.  Otherwise the
\* scratch directory goes, or the reason why it could not.
Release(c) ==
    /\ Goes(c, "releasing", "done")
    /\ \/ c \notin opened /\ UNCHANGED <<scratch, complained, verdict>>
       \/ /\ c \in opened
          /\ scratch' = scratch \ {c}
          /\ UNCHANGED <<complained, verdict>>
       \/ /\ c \in opened
          /\ scratch' \in {scratch, scratch \ {c}}
          /\ complained' = complained \union {c}
          /\ verdict' = [verdict EXCEPT ![c] = WithCloseError(@)]
    /\ UNCHANGED <<opened, streams, process, containers, expired, cached, fetched, cancelled>>

-----------------------------------------------------------------------------
(* The clock, the caller and the daemon.                                   *)

\* deadline: the limit counts from just before the process is spawned.
Expire(c) ==
    /\ c \in Limited \ expired
    /\ pc[c] \in {"starting", "running", "reaping"}
    /\ expired' = expired \union {c}
    /\ UNCHANGED <<pc, scratch, opened, streams, process, containers, verdict,
                   complained, cached, fetched, cancelled>>

Cancel ==
    /\ ~cancelled
    /\ cancelled' = TRUE
    /\ UNCHANGED <<pc, scratch, opened, streams, process, containers, expired, verdict,
                   complained, cached, fetched>>

\* A container whose client is gone comes to its own end.
ContainerEnds(c) ==
    /\ c \in containers /\ process[c] = Killed
    /\ containers' = containers \ {c}
    /\ UNCHANGED <<pc, scratch, opened, streams, process, expired, verdict,
                   complained, cached, fetched, cancelled>>

Finished == (\A c \in Calls : pc[c] = "done") /\ UNCHANGED vars

\* What the engine does by itself, its file system and docker answering.
Work(c) ==
    \/ Allocate(c) \/ AllocateFails(c) \/ AcquireImage(c)
    \/ Stage(c) \/ StageFails(c) \/ Apply(c)
    \/ OpenStreams(c) \/ Spawn(c) \/ SpawnFails(c) \/ Kill(c) \/ Reap(c) \/ CloseStreams(c)
    \/ Collect(c) \/ Release(c)

Next ==
    \/ \E c \in Calls :
          \/ Work(c) \/ Fetch(c) \/ FetchFails(c)
          \/ Exit(c) \/ Expire(c) \/ ContainerEnds(c)
    \/ Cancel
    \/ Finished

Spec == Init /\ [][Next]_vars

\* A tool need not exit and a fetch need not end; time passes, a goroutine
\* runs, and a program whose context is done is killed.
FairSpec ==
    /\ Spec
    /\ \A c \in Calls :
          /\ WF_vars(Work(c))
          /\ WF_vars(Expire(c))
          /\ WF_vars(cancelled /\ FetchFails(c))

-----------------------------------------------------------------------------
(* Properties.                                                             *)

\* Outcome and runAndClose: success and a retriable failure are what the
\* tool itself reported, everything around it having worked; a kill, an
\* engine error or a failed release never passes for either.
ResultIsEarned ==
    \A c \in Calls : pc[c] = "done" =>
        /\ verdict[c] = Success =>
              process[c] \in Exits /\ process[c].class = Success /\ c \notin complained
        /\ verdict[c] = TemporaryFail =>
              process[c] \in Exits /\ process[c].class = TemporaryFail
        /\ process[c] = Killed => verdict[c] = PermanentFail

\* closeInvocation, RunProcess: a host invocation that is over has no child,
\* no open file and no scratch directory it did not complain about.
HostLeavesNothing ==
    \A c \in Calls \ Contained : pc[c] = "done" =>
        /\ process[c] # Alive /\ c \notin streams
        /\ c \in scratch => c \in complained

\* EnsureImage: invocations race for one image without a lock, and none of
\* them starts a container before a fetch has succeeded.
ImageBeforeContainer == containers # {} => fetched

\* ToolTimeLimit bounds a host invocation, whatever the tool does.
LimitEndsInvocation == \A c \in Limited \ Contained : <>(pc[c] = "done")

\* A cancelled run's invocations end, those fetching an image included.
CancelEndsInvocations == cancelled ~> \A c \in Calls : pc[c] = "done"

\* Whatever the tool or the registry does, there is a way to end an
\* invocation: its own time limit on the host, a cancellation anywhere.
InvocationsEnd == LimitEndsInvocation /\ CancelEndsInvocations
=============================================================================
