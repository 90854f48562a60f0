------------------------------ MODULE Dataflow ------------------------------
(***************************************************************************)
(* What a workflow run promises, whatever drives it: a step becomes active *)
(* only after every step it reads from is done, concludes once, and        *)
(* concludes with no invocation of it still executing; at most Cap         *)
(* invocations execute at a time; and the verdict agrees with the steps.   *)
(*                                                                         *)
(* It is the reading of the Config and RunResult documentation             *)
(* (pkg/cwlexec/scheduler.go) that RunLoop and DispatchLoop implement.     *)
(***************************************************************************)
EXTENDS Naturals, FiniteSets

CONSTANTS
    Steps,        \* the steps of the plan
    Deps,         \* the steps each step reads from
    Invocations,  \* pairs <<step, sub-job>>
    Cap           \* how many may execute at a time, 0 for any number

VARIABLES
    phase,    \* of each step: waiting, active, done or failed
    busy,     \* executing invocations
    verdict   \* of the run, "open" until it returned

vars == <<phase, busy, verdict>>

Init ==
    /\ phase = [s \in Steps |-> "waiting"]
    /\ busy = {}
    /\ verdict = "open"

Fed(s) == \A d \in Deps[s] : phase[d] = "done"

Executing(s) == {x \in busy : x[1] = s}

\* A step whose inputs are there becomes active, or concludes at once when
\* it has nothing to execute.
Activate(s) ==
    /\ verdict = "open"
    /\ phase[s] = "waiting" /\ Fed(s)
    /\ \E p \in {"active", "done", "failed"} : phase' = [phase EXCEPT ![s] = p]
    /\ UNCHANGED <<busy, verdict>>

\* An active step concludes without any invocation of it having executed.
Conclude(s) ==
    /\ verdict = "open"
    /\ phase[s] = "active" /\ Executing(s) = {}
    /\ \E p \in {"done", "failed"} : phase' = [phase EXCEPT ![s] = p]
    /\ UNCHANGED <<busy, verdict>>

Begin(x) ==
    /\ verdict = "open"
    /\ phase[x[1]] = "active"
    /\ Cap = 0 \/ Cardinality(busy) < Cap
    /\ busy' = busy \union {x}
    /\ UNCHANGED <<phase, verdict>>

\* An invocation ends; its step concludes with the last one.
End(x) ==
    /\ x \in busy
    /\ busy' = busy \ {x}
    /\ \/ UNCHANGED phase
       \/ /\ verdict = "open"
          /\ phase[x[1]] = "active" /\ Executing(x[1]) = {x}
          /\ \E p \in {"done", "failed"} : phase' = [phase EXCEPT ![x[1]] = p]
    /\ UNCHANGED verdict

\* Success only with every step done, suspension only with no step failed.
Return ==
    /\ verdict = "open"
    /\ \/ verdict' = "success" /\ busy = {} /\ \A s \in Steps : phase[s] = "done"
       \/ verdict' = "suspended" /\ busy = {} /\ \A s \in Steps : phase[s] # "failed"
       \/ verdict' = "failure"
    /\ UNCHANGED <<phase, busy>>

Next ==
    \/ \E s \in Steps : Activate(s) \/ Conclude(s)
    \/ \E x \in Invocations : Begin(x) \/ End(x)
    \/ Return

Spec == Init /\ [][Next]_vars
=============================================================================
