# A TLA+ development of cwl-go

cwl-go is a Go engine for the Common Workflow Language: `pkg/salad` fetches, loads and resolves
documents, `pkg/cwlcore` turns them into linked processes, `pkg/cwlexec` reads a job order, plans and
runs the process, and the commands under `cmd/` print around one call of those packages. This
directory models the way from a document on a server to the outputs of a finished run, checks it with
TLC, and proves the concurrent and crash-prone parts of it for every instance with TLAPS.

## Inventory

| Part | State it keeps | Operations | Talks to | What makes it correct |
|---|---|---|---|---|
| event loop (`loop.go`, `scheduler.go`, `result.go`) | `RunState.steps`, `jobs`, `running`, `stopped`, the channels `done` and `finished` | start, gate, launch, record, conclude, cancel, render the result | handlers over goroutines and one channel; the plan | a step runs only on what its sources produced, once, within the cap; nothing after the first failure under OnErrorStop; the result is what happened; `Run` returns |
| caller-driven loop (`dispatch.go`) | the same, and the handed-out invocations | `Pending`, `Complete`, `InFlight` | a caller's own loop (`Config.ExecuteFunc`) | nil with nothing in flight means no more work |
| durable runs (`runstate.go`, `result.go`) | the `RunState` a caller persists | `clone`, `Resume`: inject answers, expand and gate again, finish | the caller and its storage | nothing recorded is lost, changed or run again; whatever `Resume` builds is a loop in order |
| scatter (`scatter.go`) | coordinates and shape of a step's jobs | expand, gather, name directories | event loop | every combination runs once and lands in its place; directories are not shared |
| plan, sinks and inputs (`plan*.go`, `inputs*.go`, `when.go`, `outputtype.go`) | steps, sinks, edges | resolve sources, refuse cycles, merge links, pick values, defaults, `valueFrom`, `when` | event loop, expressions | the edges are enough for the run; handlers receive what the document wires |
| subworkflows (`handler_workflow.go`) | ancestors, a nested `RunState` in a suspension's payload | nested run, nested suspension | event loop, recursively | no endless descent while nobody answers; an answer reaches who asked |
| tool invocation, docker executor (`handler_commandline.go`, `clt_exec.go`, `invocation_local.go`, `executor_docker.go`) | directories, streams, the child process, the verdict, a process-wide image cache | allocate, stage, spawn, wait, kill, collect, release | OS, docker, clock | a verdict is earned; what was taken is released; limits and cancellation end it; no container before its image |
| staging, paths (`clt_staging.go`, `pathmap*.go`, `container.go`, `writefs.go`) | the plan of placements, the file system | plan, mount, link, copy, write, again after an interruption | tool invocation | the tool finds its inputs where it is told to look; what it was given is not changed |
| outputs (`clt_glob.go`, `clt_output*.go`, `clt_secondary.go`) | the files a tool left | classify exit, glob, evaluate, type, rename, read `cwl.output.json` | tool invocation | what is collected is where it says it is, whatever was moved since |
| job order (`joborder*.go`) | the inputs of a process | read and check against the types, find secondary files | commands | what is read is of its declared type and complete |
| command line (`clt_binding.go`, `clt_sort.go`, `clt_cmdline.go`, `clt_render.go`) | — | bind, order, render | tool invocation | one total order in which no binding is torn apart |
| process linking, requirements, resources (`cwlcore/decode*.go`, `requirements*.go`, `update.go`, `resources.go`) | identifier index, cache of external documents, frames | decode, link `run`, find the requirement in scope, choose a budget | plan, subworkflows | a reference links to what it names; requirements reach a tool through every level |
| document loader (`salad/loader.go`, `resolve*.go`, `linkcheck.go`, `context.go`) | parse cache, import stack, index | import, expand, make absolute, search links | fetcher | cycles are refused, diamonds are not; a link is the innermost declaration |
| fetcher and HTTP cache (`salad/fetcher.go`, `salad/httpcache.go`) | two files per URL, shared by processes | conditional GET, store, date | servers, file system | what is served is what the server stands by |
| schema salad (`salad/flatten.go`, `specialize.go`, `typegraph.go`, `subtype.go`, `validate*.go`, `schema.go`) | one merged schema per version, the types registered so far | merge extensions, flatten, specialise, build types, check narrowing, validate | loader, decoding | what validates can be decoded; an extension only narrows what the engine reads |
| expressions, document types, YAML, commands, conformance harness | — | scanning, conversion, printing | — | no state |

How they interact: a command loads a document (`salad`), decodes and links it (`cwlcore`), reads the
job order against it, and makes a `Runner`, which builds the plan and runs an event loop. The loop
resolves a step's inputs through its sinks, expands its scatter, gates each job with `when`, and calls
the handler of the step's process class on a goroutine of its own; that handler runs a tool, an
expression or a nested run, and its `Result` comes back over one channel. Only the loop's goroutine
touches the run state; nested runs have a state of their own and share only the context.

The hard behaviours, each at its line, are the `hazards` of `PROJECT.json`.

## Modules

| Module | Models | State and actions against the code |
|---|---|---|
| `LoopState` | what both drivers share | `started`, `status`, `width`, `job`, `suspensions` are `stepState`/`jobState`; `expanded`, `dispatched`, `running`, `stopped` the `runLoop`'s own; `StartStep` is all of `startStep`, `HandOver`/`CallFails` the two ends of `launch`, `Record` all of `record` with `Outcome`, `finishIfComplete`, `jobsOutcome` and `failStepWith`; `RunOutcomes` is `result` |
| `RunLoop` | `runLoop.execute` and its goroutines | `pc`, `at`, `slot`, `progress` are the loop's position in the walks of `startReadySteps` and `launchPending`; one action per reached step or job, per end of a walk, per arm of the `select`, and for a handler's return or drop |
| `DispatchLoop` | `DispatchLoop` and a caller keeping `ExecuteFunc`'s protocol | `Pending` walks step by step as above, `Complete`, the caller's way out |
| `Dataflow` | the promise of a run | abstract: phases of steps, a set of busy invocations, a verdict; `RunLoop` implements it (`ImplementsDataflow`) |
| `DurableRun` | `RunState`, `Run` and `Resume` over any number of loops | `RunLoop` with what the caller persisted; `Resume` is inject, rehydrate, restart, gate, finish in one step (no goroutine of the new loop exists before it is over); `Refused` leaves the partial state the error path returns; `Crash` loses loop and unsaved state |
| `Scatter` | `ExpandScatter`, `Gather`, `expandJobs`, `gatherStep`, `invocationName` | operators named as in the code, inside the life of a step whose jobs end in any order |
| `StepInputs` | `newPlan`, `planStep`, the sinks, `applyValueFrom`, `when`, workflow outputs | `plan` is built one step, then the outputs and the edges at a time, then the cycle check call by call and return by return (`path` is its stack, `shut` what it is done with), each of which may refuse; then steps start and return in any order the edges allow |
| `Values`, `ValueWalks` | values on edges; `checkValueType`, `NormalizeValuePaths`, `checkStepSecondaryFiles` | the walks go down a value and recur, so `StepInputs` takes them as constant operators, which the instance gives |
| `Subworkflow` | `handler_workflow.go` and the runs inside runs | a frame per nested run, named by the path of steps that leads to it; `RunLoop` seen from outside in each; suspensions travel up in payloads and answers down; `Resumed` is a fresh `Runner` over the bare workflow under `WithSubworkflows`, with no ancestors and no requirement from above; `byCaller` remembers which runs are of that kind and guards nothing |
| `ToolInvocation` | concurrent `runCommandLineTool`s of one process | `pc` per invocation; one action per fallible step; `Kill` is `exec.CommandContext`, `Release` is `closeInvocation` |
| `FileTree` | `LocalDirFS` | a map from paths to directories, files and links, with lookup through links |
| `Staging` | the staging plan, `InitialWorkDirRequirement`, mounts, carrying out | `told` is the input object the tool sees; `plan` what is done to the tree, one placement a step; `Interrupt` begins again in the same directories |
| `Outputs` | collecting the ports of a finished tool | extends `Staging`: the tool acts on the tree staging left, ports are collected one after the other, values moved to where they are named; `roots` is settled with the collector; `clash` holds the places moves took from others or wrote over and guards nothing |
| `JobOrder` | reading a job order, its second pass over secondary files | one case of a process and a job order; types, unions, records, named types, formats, listings |
| `CommandLine` | bindings, keys, sorting, rendering | extends `JobOrder`: the command line of what was read |
| `Documents` | the loader | operators named as in the code from a parsed tree to a resolved one; errors are a field of what is threaded through the walk |
| `Schemas` | schemas, their extensions, validation | extends `Documents`: definitions as records with their fields in order; flattened, built into types and checked one extension after the other, then documents against the roots |
| `Processes` | decoding, linking, updating, requirement frames, resources | extends `Schemas`: load and validate, link, then one level of the linked graph at a time down to a tool and its budget |
| `HttpCache` | one URL behind the disk cache | `task` per process is where `fetchHTTP`/`writeCache` stands; `Publish` and the clock are the world's |
| `LoopStateInvariant`, `RunLoopInvariant` | — | inductive invariants of the shared state and of the event loop |
| `LoopStateProofs`, `DispatchLoopProofs`, `DurableRunProofs`, `SubworkflowProofs`, `ToolInvocationProofs`, `HttpCacheProofs`, `ScatterProofs`, `StepInputsProofs` | — | theorems |
| `MC*` | — | instances: plans, documents, job orders, file systems, handler results, endings |

Composition: `DurableRun` is built on `RunLoop`, `Outputs` on `Staging`, `CommandLine` on `JobOrder`,
`Schemas` on `Documents`, `Processes` on `Schemas`, each handing its state to the next. `Subworkflow` stands on what is proved
of `RunLoop`: a run starts what its edges allow, ends, and says what happened.

Abstractions. The loop modules have no port values: what inputs, `valueFrom`, `when` and scatter
expansion compute is a choice over their possible results (an error, a number of jobs, a set of
skipped jobs); `StepInputs` has the values and takes the order of steps from the edges. Handlers
return any pair of `Returns`. Expressions are one of a few programs, or what they evaluate to. A name
is a sequence of parts where parts matter (`a.txt`, `step_1`), the contents of a file a token, a
number a number. Wording of errors, logging and warnings are left out.

## Runs

Twelve runs; eleven pass.

| Run | Instance | Shows |
|---|---|---|
| `loop_stop` | three steps, a join listed first in the document, one scattered to at most two jobs, one conditional; two handlers at a time; OnErrorStop; every handler result including malformed ones; input and gate failures; cancellation | `CapRespected`: the counter is the number of handlers out and never passes the cap. `InputsProduced`: a handler runs only while all its sources have outputs. `StepMatchesItsJobs`, `OutcomesAreFinal`: a step ends exactly with its last job, for good. `WaitsAtFixpoint`: the loop waits only with nothing to start or launch. `ResultIsComplete`: success leaves nothing behind, suspension hides no failure. `StopLaunchesNothing`: no launch after a failure. `LoopEnds`: `Run` ends, and every handler goroutine with it. `ImplementsDataflow`: refinement of the abstract run |
| `dispatch` | steps listed producers first, two independent branches, OnErrorContinue, cap two | `NilMeansNoMoreWork`; `FailuresAccountedFor`: branches no failure reaches are finished and the worst failure is reported; `CallerReturns` |
| `durable` | a scattered conditional producer and a consumer, at most two of crash, cancellation and refused resume | `DurableInvariant`: every loop ever built is in order and everything a caller may hold can be resumed. `SnapshotExtended`: nothing persisted is lost or changed. `RecordedWorkNotRedone`. `RunConcludes` |
| `tool` | a host tool under a limit and two contained ones sharing an image, every step fallible, cancellation at any moment | `ResultIsEarned`, `HostLeavesNothing`, `ImageBeforeContainer`, `InvocationsEnd` |
| `scatter` | a step over up to three keys beside one over up to one, lengths 0 to 2 or no array, the three methods | `ScatterGathersAll`: every combination runs once and is gathered in its place, against definitions that use neither odometer nor offsets; `OwnDirectory` |
| `step_inputs` | documents of up to three steps in every wiring, one flaw at a time; every linkMerge, pickValue, default, valueFrom and read | `PlanSufficient`: refused for real cycles only, and never a source read too early nor a run stuck. `DeliveredAsWired`: merging loses, repeats and reorders nothing but nulls, defaults are taken, `valueFrom`s see one object |
| `subworkflow` | workflows two and three deep, a cycle, and a cycle with a tool in it that suspends; handlers that suspend, fail or are cancelled; answers, after which a run descends anew into workflows it is inside of | `DescentEnds`: below a run the caller drives, no workflow is entered twice until the next run the caller drives; `SuspensionsKept`: who asks is found and goes on existing until answered; `RunEnds` |
| `files` | eight sets of inputs with eight listings, on the host and in containers with and without single-file mounts, broken off at any point; every kind of port over what a tool makes, links to itself, to inputs and to nothing included, and ports that take from, move onto or write through what others have | `StagedAsPlanned`: the tool finds what it is told. `SourcesUntouched`: what was given is as it was, but for what a rename writes through a staged link. `OutputsStand`: after all ports are collected, every value whose place no other was moved to or from is where, what and called as it says |
| `job_order` | every pair of a type and a value of the library, with defaults, formats, listings, named types and secondary files; command lines of several bindings | `InputsConform`; `CompanionsComplete`; `LevelsUnbroken`: the sorted words are those of a level-by-level definition that has no keys |
| `cache` | one URL, three versions, a process that may die between any two steps, writes that may fail | `CacheIsBelievable`: what is returned is no older than its lifetime and one exchange, and a 304 is about the text returned |
| `documents` | packed graphs, documents that import or run one another, malformed and v1.0 ones, nested workflows with requirements at every level, thirteen extensions against documents that use them, loaded strictly or not, two budgets | `InnermostLinks`; `CyclesRefused`: of imports and of runs, and nothing else; `RunsWhatItNames`; `InheritedThroughLevels`: what levels hand down is what a search of the whole chain finds, and what v1.0 gave is kept; `ExtendedStaysValid`: a field declared again holds only what the inherited one may, and what validates decodes; `GrantedInFull` |
| `run_elsewhere` | a document that declares a name which a document it runs declares too | expects a violation of `RunsWhatItNames` |

The violation: `processIndex.find` (`decode_run.go:87`) falls back from an identifier to its fragment.
A step `run: b.cwl#tool` in a document with a `#tool` of its own runs the local one, and
`b.cwl#main` is refused as a workflow that runs itself.

### Circumstances left out of passing runs

Some properties hold without a circumstance and fail with it. These are the circumstances:

- `StopLaunchesNothing`: a job whose call cannot be built (fault `call`) fails its step inside the
  launch walk, which goes on launching (`loop.go:225`). `Pending` of the caller-driven loop never
  looks at `stopped` for steps already started (`dispatch.go:66`).
- `NilMeansNoMoreWork`: a document listing a consumer before a producer that ends without running: one
  scattered over nothing, or whose every job `when` turned away (`MayFinishAtOnce`). `Pending` walks
  once, and says nil with nothing in flight while a step is ready (`dispatch.go:36`). `ProducersFirst`
  says a document is not of that kind; any other order of its steps is allowed.
- `OwnDirectory`: step ids that end in `_` and a number. Sub-job 1 of `align` and a step `align_1`
  have the same directories (`scheduler.go:239`).
- `HostLeavesNothing` is about host tools: a contained invocation that fails before its `Invocation`
  exists leaves its scratch directory (`handler_commandline.go:446`). `InvocationsEnd` is about the
  invocation: the limit kills the docker client, and the container goes on (`clt_exec.go:88`).
- `SourcesUntouched` and `StagedAsPlanned` are about plans whose placements lie apart (`Apart`); one
  below a linked directory is written through the link into the user's input (`clt_staging.go:315`).
- `SourcesUntouched` excuses what a rename of an output strikes. `moveTo` looks at nothing in its way: a
  staged input that an output returns under the basename of another staged one is copied through that
  one's link, over the user's file (`clt_output_value.go:465`, `writefs.go:62`), and an output below a
  staged directory is renamed in the user's directory. The run has both.
- `OutputsStand` excuses the values at a place another value was moved to, or at or below one that was
  moved away, to a name of its own, by another output (`clash`): a Directory already collected lists a file that a
  later port renames, and keeps the old path. Every other value of the same invocation is held to it.
- `DescentEnds` goes as far up as the last run the caller resumed. `Resume` of a nested run begins with an
  empty list of ancestors (`handler_workflow.go:39`), so after an answer a run may enter a workflow it is
  inside of; each answer allows one more turn around a cycle, which `DepthIsBounded` bounds.
- `SuspensionsKept` says that who asks is found, not that it can be resumed: a nested workflow that has
  `SubworkflowFeatureRequirement` only from above is refused by `NewRunner` when the caller resumes it
  (`Resumable`; `mesh` of the run is one).
- `CompanionsComplete` is checked over unions with at most one record: the second pass goes through the
  first record of a union whatever the value was read as (`joborder_secondary.go:410`).
- `ExtendedStaysValid`: a field declared again with a type below a concrete record. Validation looks for
  the subtypes of an abstract record but not below a concrete one (`validate_union.go:119`, whose comment
  says "directly or transitively"), so such a value is no value of the inherited field; for the same
  reason an extension of `Workflow` is refused as an inline `run`, against `load_option.go:30`. A class
  declared as anything but text validates and does not decode.
- `CyclesRefused`: extension workflows of several documents that run one another. One that is not in
  the document loaded first is decoded without its steps (`decode_run.go`, `decodeTargetWithSchema`), so
  the cycle is not seen; no handler is found for it and the plan is refused.
- `CacheIsBelievable`: two processes on one cache directory interleave body and metadata, and a 304
  then confirms a stale body for ever (`httpcache.go:199`); a body cut short by a failing write does
  the same under the old metadata. The run has one process and whole bodies. The server never reuses
  an entity tag.
- `InputsConform` says neither how deep a listing was read nor anything of a value of a named type, so a
  job order's requirements merged too late would not break it (`joborder.go:96`).
- `GrantedInFull` is about `CheckKnown` as it is by default, with one class of `AllowRequirements`; under
  `LenientRequirements` nothing is refused.
- `OutcomesAreFinal` and the rest of `loop_stop`: the handlers of a cancelled run that is resumed at
  once are left to the caller by the contract, and are not carried over by `DurableRun`.

### Bounds

`MaxWidth` (jobs of a scatter) is 2: enough for jobs that fail differently, suspend apart and fill the
cap; `Scatter` goes to eight jobs. Three steps give a chain and a join, in document orders for and
against the data flow. `MaxParallel` is 2, or 0 for unbounded. `MaxMishaps` is 2, so that a crash may
hit the resume of a refused resume. `MaxLen` is 2 and `MaxKeys` at most 3: arrays empty, single and
longer at every nesting depth. `MaxAnswers` is 4: a suspension in each of three levels, and one more;
and around the cycle of `again` a run is entered anew after each.
`MaxRestarts` is 1: the second attempt is the first to find leftovers, and leaves the same ones.
`MaxLinks` is 6, more than any chain in the libraries and finite for those that loop. `LastVersion` is
3 and `LastTime` 5 with `Lifetime` 2 and `Timeout` 1: a version can be replaced twice while one
exchange is out and an entry expires. The libraries of `MCStepInputs`, `MCFiles`, `MCJobOrder` and
`MCProcesses` list the inputs the branches of the code tell apart, each with the others it can
interact with. All state spaces are explored to the end.

### Fairness

In `RunLoop` the loop's goroutine is scheduled, and a handler returns: `StepHandler` forbids `Execute`
to block on external events, suspension being the way to wait. Cancellation is never assumed. In
`DispatchLoop` the caller calls `Pending` until it is told to stop and completes what it ran.
`DurableRun` adds a caller that persists and resumes, and that does not ignore suspensions for ever
(strong fairness of a resume with an answer, since suspensions come and go with crashes). In
`Subworkflow` the loops and leaf handlers of all frames run; answers are never assumed. In
`ToolInvocation` goroutines run and time passes; a tool need not exit, and a fetch ends only if it is
cancelled. The other modules claim no liveness: their runs end because nothing in them waits.

## Proofs

`LoopStateProofs` is about the state both loops drive, from the assumptions of `LoopState` (finitely
many steps, each once in the document order; `AcyclicAssumption`, the form in which `checkAcyclic`
rules out cycles, proved of every plan that is accepted in `StepInputsProofs`; types of the configuration). Its invariant
`StateInOrder` speaks of no driver's control. That the cap holds needs that `running` is the number of
handlers out, which needs that an invocation is dispatched once, which needs that only one without an
outcome is pending (`HandlersAwaited`). That inputs stay produced needs that a step with an outcome
has no handler out, since only `Record` writes a status. One lemma per transition (`StartStep`,
`HandOver`, `Record`, `Settle`, a verdict) shows that `StateInOrder` and `FailuresRecorded` survive it,
that it keeps outcomes, and which action of `Dataflow` it is. `QuietLoop` is the argument about the
end: of the steps never started some one reads from none of the others (acyclicity), so a failure or
a suspension explains it.

`DurableRunProofs` begins with the control of the event loop and proves `Spec => []LoopInvariant`
(`InvariantHolds`) and from it `TypeCorrect`, `HandlersBounded`, `DataflowOrder`, `StepsAgree`,
`WaitsOnlyAtFixpoint` and `HonestResult`, none of which is inductive alone. That the loop waits only at
a fixpoint needs what a pass without progress has seen up to its position (`PassComplete`).
`FailuresReported` (`FailuresAccountedFor`, which TLC checks of the caller-driven loop) needs that a
step's status is no better than its jobs'. About steps it proves `OutcomesStay` (nothing recorded is
written again), `StopHolds` (with `"call" \notin Faults`; the strengthening is that the launch walk is
only entered unstopped), and `Implementation`, `Spec => Promise!Spec`: one lemma per action of
`RunLoop` says which abstract action it is, or that it changes nothing `Dataflow` sees.

`DispatchLoopProofs` proves of the caller-driven loop, for every document, `DispatchInvariantHolds`,
`DispatchSafety` (cap, inputs, steps against jobs, worst failure first) and `DispatchOutcomesStay`.
What its one walk can miss is the rest: under `ProducersFirst` it proves `NothingIsMissed`, and from it
`NilIsTheEnd`, `DispatchReportsFailures`, `DispatchHonestResult` and `DispatchImplements`, the
refinement of `Dataflow`. The strengthening says that behind the walk's position nothing is startable.
Starting a step makes another startable only by finishing it at once, which `ProducersFirst` puts
ahead of the position; an invocation that cannot be built only fails, and that feeds nobody. Without
the condition `NilMeansNoMoreWork` is false, as described above.

`DurableRunProofs` then proves `DurableSpec => []DurableInvariant`: the loop's invariant holds again in
every loop a `Resume` builds from whatever the caller had, with whatever was answered, and every
snapshot, those of cancelled loops and refused resumes too, satisfies `ResumableState`.
Its last part proves that the live state extends the persisted one (`PersistedStaysTrue`) and
that no recorded work is redone (`NothingRedone`). The strengthening is `JobsPlaced`: jobs are recorded
only of started steps and within their width, so starting a step, which clears its jobs, clears
nothing. `Extends` is transitive, every loop step and every stage of `Resume` extends, and a crash goes
back to exactly what was persisted.

It also carries three results of one loop over to a run's whole life. `FailuresSurvive`
(`FailuresAccountedFor`) needs more than one loop does: an answer to a suspension may report a failure,
and it must not reach a step whose verdict is already settled as a milder one. `FailuresKept` says why
it cannot: a step that is only temporarily failed has no invocation left open, and one that succeeded
has only successes. `ResumedHonestly` is `ResultIsComplete`. `ResumedInOrder` (`InputsProduced`)
covers handlers of a cancelled loop that are still out when a resume is refused: what they read is in
the persisted state. It says nothing of handlers a new loop has forgotten: `Resume` in the model starts
with none, as their results reach nobody.

`SubworkflowProofs` proves, for finitely many workflows that run one another in any way and for runs of
any depth, that frames form a tree in order (`NestedRunsStayInOrder`). `DescentEnds` needs more than
the guard of `RunNested`, which looks at one list of ancestors: that below a run the caller drives every
list holds all the workflows entered since (`Listed`), which a resume of the caller's starts over for
the frame it resumes and for no other. `DepthIsBounded` is the bound that remains: no run is deeper than
the documents have workflows, once for the first descent and once for every answer. It needs that a
frame's path is no longer than what the answers so far allow plus its own list (`Budget`), and that a
run which has ended below one that waits for it was resumed by the caller (`Awaited`), so that its path,
and the shorter one of the run it is forwarded to, need no list at all. `SuspensionsStay` needs that a run is below a step exactly while the
step is out or waits for it (`Attended`), so that a run that succeeded has no run inside it, and that
only a run that was given up leaves a handler out; what `NestedReturns` and `Forward` forget is then
below a failure. Paths enter through lemmas about `IsPrefix` and `Append`, not through induction.

`ToolInvocationProofs` proves for any set of invocations, contained or limited in any way, an
invariant that says what process, streams, directories and verdict can be at each place of a
goroutine, and from it `VerdictsAreEarned`, `HostReleasesAll` and `ImageComesFirst`; one lemma per
action.

`HttpCacheProofs` proves `CacheBelieved` for any versions, lifetimes, answers and deaths, from
`Alone`: at most one process, no truncated bodies. The invariant is that the validator on disk is
never newer than the body beside it, since the body is written first and versions only go up, so a
304 to it can only be about that body.

`ScatterProofs` proves, for any number of scattered inputs, arrays of any length and any document with
outputs, that nothing scattered is lost (`NothingLost`, `ScatterGathersAll`) and, on two conditions,
that no two sub-jobs share a directory (`DirectoriesDiffer`, `OwnDirectory`). Of a step's progress
`ScatterInv` says little: its expansion is what `ExpandScatter` makes of its inputs (`ExpandKeeps`)
and every outcome is of a job in it (`ProgressKeeps`). The work is in `ExpandWorks`, that expansion and
gathering agree with definitions that know neither odometer nor offset: `linearOffset` orders
coordinates as their first difference does (`OffsetsOrder`), an odometer's advance adds one to it
(`AdvanceAddsOne`), so the walk meets every combination once and in order (`GridEnumerates`), and the
place of a job is the number of combinations before it (`GridCounts`); `nest` cuts a list into equal
groups and keeps its order (`NestKeepsOrder`). Numbers are inducted over by least counterexample
(`LeastMember`, `InductionOn`), from the library's well-founded order on finite subsets, since its
induction theorems take operators the provers cannot instantiate. The conditions of
`DirectoriesDiffer` are about names: the decimals of different numbers differ (`DecimalsDiffer`), and
no step's name is another's followed by `_` and a number (`NoneExtends`), which is the collision
described above. TLC evaluates both on the run's instance, `DecimalsDiffer` up to 300.

`StepInputsProofs` proves, for any library of documents and any values, that the plan of a document
is enough for its run (`PlanEnough`, `PlanSufficient`), and that accepted plans are what `LoopState`
assumes (`AcyclicForLoop`). The invariant `PlanInv` says that the plan so far follows the document,
every identifier being read where it is produced (`PlanFollows`, then `Wired`); that the steps the
walk for cycles has open read from one another in turn, and that what it has shut is acyclic and
reads from nothing else (`Walk`); and that in a run every output there is holds values and no errors
(`Running`). A step met again while open gives the cycle itself, the steps from there to the end of
the path (`RepeatIsKnot`); shutting a step keeps what is shut acyclic, since it reads only from shut
steps (`AcyclicGrows`), so no induction over the graph is needed. That a set of steps none of which
can be first is the same in the plan as in the document is `Knots`. That no source is read too early
needs what the sinks make of values: whatever is merged, picked and loaded is a value, or an error
of the merge, the pick, a default or a load (`SinkSound`, `InputsNotEarly`). `GivenIsSteady` is the
first part of `DeliveredAsWired`: what a handler was given is what the inputs of its step still come
to (`GivenStays`). It needs that what a step that is out reads from has produced, so that whichever
step moves next is none of its sources (`OthersMove`). The assumptions are `ValuesAssumption` (no
value is an error, arrays hold values) and `DocumentsAssumption`: the inputs of a step and what it
produces have identifiers of their own, as those resolved under their steps do (the loader refuses
an identifier declared twice). Nothing is assumed of the constant operators. The edges of a step are
walked in any order, the code's among them.

Only model-checked: every liveness property, which is beyond the prover; the modules whose code
recurses over data, `FileTree`, `Staging`, `Outputs`, `JobOrder`, `CommandLine`, `Documents`,
`Schemas`, `Processes`: they have RECURSIVE operators over trees and types, which the provers cannot
take; and the rest of `DeliveredAsWired` of `StepInputs`, which is about the leaves of values at any depth.

## Not modelled

- Schema salad: the metaschema and its bootstrap, how a schema document is parsed into definitions, and
  the terms an extension's fields define: `Schemas` starts from definitions, and how fields resolve is
  CWL's whatever extensions say. The instance declares the fields its documents use. Reading the code
  left three remarks: an abstract type accepts subtypes of any type with its short name; a field
  inherited from two bases is the later one and only that one is checked for narrowing; `specialize` is
  not checked for narrowing. A schema merged beforehand is v1.2's, whatever version a document declares.
- Expressions: a scanner over characters around a library interpreter with a timeout. Every module
  that evaluates one takes its possible results.
- Document types, formats beyond equality, YAML and scalars, command-line programs, conformance
  harness and scripts: conversion and printing without state.
- In modelled parts: completing a handed-out invocation twice; the JSON encoding of snapshot values
  (`runstate.go:95`); the environment of a tool and docker's argument vector; the arithmetic of the
  time limit, which overflows from 9223372037 seconds (`clt_exec.go:371`); concurrent loads through one
  `Loader` (`loader.go:144`); the handler registry's table; URL normalisation; the rewriting of
  `inputBinding` and `secondaryFiles` between versions.
- A nested run copies the parent's `MaxParallel` and counts its own handlers only
  (`handler_workflow.go:84`), so the cap of `CapRespected` is one run's, not the process's.

What could come next: validation checked against a declarative membership over the raw definitions, and
the terms of extensions; two processes on one cache directory with the locking
that would make `CacheIsBelievable` hold.
