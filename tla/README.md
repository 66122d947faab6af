# Lab supervisor: TLA+ models and proofs

The lab supervisor is one Node process that watches a lab of Android phones
(the "cameras") and the Suitest devices they film, and recovers what stops
working: it reboots phones, restarts apps and reconnects ADB transports, during
working hours only. An operator watches it, and configures it, in a web
application; a small agent on each phone keeps wireless debugging on. This
directory models the program in TLA+, its concurrent core first, checks the
models with TLC and proves the main results with TLAPS. Paths below are
relative to the repository (`src/` in `PROJECT.json`).

## The system

Node runs one callback at a time, so every step of a model is one turn of the
event loop: what lies between two `await`s is atomic, and everything else
interleaves.

| Component | State it keeps | Operations | What makes it correct |
|---|---|---|---|
| **Recovery engine** `packages/core/src/recovery` | per policy: its copy of the facts; per entity and tripwire: `healthy / pending / recovering / exhausted / fatalError`; attempts in flight | feed entry, 1 s tick, pipeline end, retry delay, outcome, operator's rearm, stop | one pipeline per tripwire at a time; a grace made of real outage; episodes closed by their own attempt; nothing stuck |
| **Background loops** `packages/core/src/task-runner` | per handle: loop state, retry status, abort controller; per descriptor: the feed's entry | start, tick, sleep, stop | a failing or throwing tick does not kill the loop; a stop is final; the dashboard does not lie |
| **Android bridge** `apps/service/src/android-bridge`, `packages/core/src/android-bridge` | per controlled camera: connection state and a promise chain of dispatches | reconcile, device list, timeouts, reboots | dispatches serialized; one `adb connect` at a time; the gate agrees with the device in the end |
| **ADB tracker and fact stream** `android-bridge/tracking.ts`, `packages/core/src/fact` | last snapshot, known targets; latest value of each fact, ring buffer | poll, diff, retract, emit | the fact table is what the last list says |
| **Service lifecycle** `service.ts`, `service-lifecycle.ts`, `index.ts`, `packages/core/src/activation` | activation machine, the active lifecycle | activate (ADB reset, registry sync, create, start), deactivate, SIGHUP, SIGINT | inactive means silent; at most one lifecycle |
| **Feeds and tails** `packages/core/src/{recovery/status,notify,activity,logger}`, `packages/trpc/src/routers`, `apps/web/hooks` and pages | ring buffers with identifiers; client cursors, tables, toasts, lines | emit, snapshot, tail, resume, reconnect, flush | a page ends up showing what is true; nothing comes twice |
| **Notifications** `apps/service/src/recovery/engine.ts`, `packages/core/src/notify`, `adapters/slack` | dispatches in flight | status change, describe, post, publish | each rule of a trip told once |
| **Registry** `packages/core/src/db.ts`, `lab-registry`, `apps/service/src/registry.ts`, its router and page | one JSON file | read (or seed), modify, import from Suitest, assign a host | no edit is lost; local fields survive the import |
| **Provisioning** `apps/service/src/android-provisioning`, `packages/core/src/provisioning`, `apps/android` | the phone; the passes of each run; facts | refresh, converge in passes, the agent's own repairs | converges, or says why not; the facts end up true |
| **Workflow interpreter and capabilities** `packages/core/src/workflow`, `boolean-tree`, `apps/service/src/recovery` | a stack, the call in flight | pipelines, commands, `run`, `when`, `await`, gate, target, report | a pipeline means its formula; the bridge hears of the right camera |
| **ADB connection machines** `adapters/adb/connection`, `target-resolution`, `mdns` | handshake state | look up, temporary, tcpip, persistent, disconnect | ends persistent or unknown, and truly so |
| **Settings** `packages/core/src/config*`, `apps/service/src/trpc/services.ts`, `apps/web/pages/settings` | the file, the copy in memory, each page and its cards | edit, save, set, modify, restart | what was saved is what runs |
| **Schedules, retry policies, codecs and forms** `schedule`, `retry`, `workflow/codec.ts`, `packages/ui` | none; the value in a form | primitives, combinators, decode, encode, every control of a form | a form builds what decodes, and it means what its steps say |
| Adapters' parsers, Suitest trackers, logger formatting, layout of the pages, mocks, documentation | | | see *Not modelled* |

How they interact. Trackers poll the outside world and *emit facts*; the fact
stream calls its subscribers, among them one runner for each recovery policy,
in the same turn. A tripwire whose grace has run out launches a *pipeline* of
workflows, whose commands go through the *gate* of the Android bridge to ADB
and report timeouts and reboots back to the bridge. The ADB tracker publishes
the device list to the bridge before it emits the facts computed from it. The
activation machine creates and stops all of this with the working hours. Every
periodic part is a *background loop*. Status changes go to feeds, which the web
application tails, and start notifications. What operators edit goes to two
files: the registry, which every command reads again, and the configuration,
which the next activation decodes.

What is hard here: observations during pipelines that last minutes; outcomes
and timeouts that arrive late; promise chains dropped with work in them; lists
read before and published after a change; handles of successive activations
that share streams; a stop that cancels nothing in flight. And files
that several callers read, change and write; tails that replay history over a
newer snapshot; two runs on one phone; a registry that changes between a gate,
a target and a command. `PROJECT.json` lists these hazards at their lines, each
with the properties that cover it or the reason why none does.

## Modules

| Module | Models | |
|---|---|---|
| `Episode` | the abstract promise of a tripwire: an outage is an episode with exactly one attempt | abstract specification |
| `Tripwire` | one recovery policy's runner | implements `Episode` |
| `TaskRunner` | the loop engine and its feed entry across handles | |
| `AndroidBridge` | the connection orchestrator with its reconcile, poll and reports | |
| `AdbTracking` | the ADB tracker, the device stream and the fact table, with a tracker for each activation | |
| `Service` | the activation machine and the life of an active lifecycle | extends `AdbTracking` |
| `Feed` | one of the seven live feeds, from the stream to the page | |
| `Notifier` | what is told of a trip: two rows, a dispatch, posts, notifications | |
| `Provisioning` | one phone, its agent, the runs that provision it and the reader | |
| `LabRegistry` | the values in the registry's file and the functions on them | operators |
| `LabPage` | the registry pages: the tree, its links, edits made from what a page loaded | extends `LabRegistry` |
| `Registry` | the file under edits, imports, readers and crashes; the assignment of a host | extends `LabRegistry` |
| `Workflow` | one pipeline or workflow on one entity, with the registry and the bridge moving under it | |
| `AdbConnection` | one connection attempt: lookup and handshake | |
| `Settings` | the configuration: file, memory, pages | |
| `Schedules`, `Policies`, `Codecs` | schedules, retry policies, the written form of trees and commands | operators |
| `Forms` | the editors of the settings page and the tripwire wizard | uses the three |
| `Operations` | `Registry`, `LabPage`, `Notifier`, `Workflow`, `AdbConnection`, `Settings` and `Forms` as seven scenes | composes them |
| `TripwireProofs`, `TaskRunnerProofs`, `ServiceProofs`, `AndroidBridgeProofs` | theorems about these modules | TLAPS |
| `PagesProofs` | theorems about `Feed`, `Provisioning` and the two scenes of `MCPages` | TLAPS, extends `MCPages` |
| `CommandsProofs` | theorems about `Notifier`, `AdbConnection`, `Workflow` and their scenes | TLAPS, extends `Operations` |
| `FormsProofs` | theorems about `Forms`, `Policies`, `Schedules` and `Codecs` | TLAPS, extends `Forms` |
| `OperationsProofs` | theorems about `Registry`, `Settings`, `LabPage` and all scenes of `Operations` | TLAPS, extends `CommandsProofs` and `FormsProofs` |
| `MCTripwire`, `MCTaskRunner`, `MCAndroidBridge`, `MCService` | instances for TLC | |
| `MCPages` | `Feed` and `Provisioning` as two scenes | instance for TLC |
| `MCOperations` | the values of `Operations` | instance for TLC |

Definitions named `Defect_...` are deliberate mistakes, each beside the
definition it spoils. Nothing uses them; they show that a property can fail
when the code goes wrong the way it plausibly could. Every one of them is
registered under "mutants" in `PROJECT.json` with the property that fails when
it takes the place of its definition.

### Tripwire

`state` is the `StateRef` of each tripwire instance (an entity and a tripwire),
`Observe` and `ApplyOutcome` are `reduce` in `tripwire-machine.ts`, and
`attempts` are the promises of `makeHandler` in flight, each in its pipeline,
in its retry delay, or settled with an outcome still to dispatch. `facts` is
`factsByEntity`, which stops following the `feed` when the runner is stopped.
`Emit` is `FactStream.emit` and the subscriber's callback in one turn, `Tick`
the tick loop over the entities the runner knows, `Rearm` the operator's reset,
`Stop` the handle's stop. What a pipeline does to the device is left out: it
ends, and either it failed for good or the predicate on the live facts decides,
as in `runRecoveryFor`. A predicate is the set of valuations that satisfy it.

Attempts are told apart, in the code and in the model, by the instant they
start. Two starts of one tripwire in the same millisecond would be confused;
with a positive grace that cannot happen, and the model assumes one
(`ConstantsAssumption`). Retry policies are assumed finite there: the length is
a constant, and an unlimited one would only remove the `exhausted` outcome.

### TaskRunner

The observable `LoopState` (`loop`) is kept apart from the control flow
(`control`, `retries`, `aborted`), as in the code, where the machine only
observes. The outcome of a tick, its transition and the policy's verdict are
one step. `board` is the entry of the loop feed, to which successive handles of
one descriptor publish. A lifecycle starts its loops after the previous one has
stopped its own, but a tick in flight at the stop ends later.

### AndroidBridge

`states` is the orchestrator's map, `chains` its promise chains. A chain is a
sequence of jobs of which the first runs; `queues.delete` leaves the old chain
running next to a new one, hence a sequence of chains for each camera.
`dispatch` stores a state only when its effects have ended, so a job first
`Begin`s (it reads the state and decides on an effect) and then ends
(`ConnectEnds`, `DisconnectEnds`) by writing its result whatever the map says
by then. The reconcile is split where the code awaits: `ReconcileStart`, one
`Reconnect` at a time, `FindStrays`, `DisconnectStray`, `ReconcileEnds`. The
poll is split into reading the list and publishing it. The environment edits
the registry, powers cameras off and on, moves them, and drops transports.

A camera has an address (`at`), the registry another that operators correct
(`EditAddress`), and its machine the one it was created with (`dials`): the
reconcile creates a machine only for a camera that has none, so a correction
reaches it when the machine is dropped or the lifecycle ends. What the
properties say of reachable cameras is relative to that address (`Dialled`).
No two cameras share one.

### AdbTracking and Service

`AdbTracking` is a poll in two steps, since the list is read by a command that
takes time: `PollBegins` takes what the ADB server lists, `PollEnds` does the
rest of `onTick` in one turn (publish, diff, retract, emit), and `PollFails` is
the Left. `snapshot` and `known` are the tracker's closure, one for each
lifecycle; `listed` (the device stream) and `table` (the fact stream) belong to
the process and outlive it. Statuses are abstracted to the two the facts tell
apart; a status the parser does not know drops the line, so it counts as not
listed.

`Service` has the activation machine (`phase`), the step of `onActive` the tick
waits for (`entering`), the fate of each lifecycle (`stage`) and the `isActive`
reference (`held`). The steps are separate actions because each waits for
commands or the network; creating the resources, starting recovery and loops
and storing the handle are one action, because nothing in between waits. A
configuration may have a recovery policy that does not decode (`decodes`). When
it is the first, the lifecycle is an `orphan`: subscribed, held by nobody, with
no loop. When it comes after others, their runners have subscribed and tick
already, and their handles are lost with the failure: such a `stray` goes on
until the process ends. `Restart` is the process dying and launchd starting it
again, whatever killed it: its memory is gone, the ADB server and its list
stay, and the configuration is read again. `SIGHUP` is one of those: the
handler does not run the stop it builds and starts a second service in the same
process, whose `listen` on the port in use is an error nobody handles. Only
with another port in the edited configuration do two services go on side by
side, which is not modelled.

### Feed

`kind` picks the feed; three records say what its stream, its tail and its page
do differently, read off the seven hooks, routers and pages. The stream is
`nextId`, `buffer` and, where the code keeps one, `current`. A page first asks
its query (`QueryAnswered`, `AnswerArrives`: two steps, as the answer takes
time), then subscribes; nothing catches a query that fails (`QueryFails`).
`tail` is the generator of the router: `TailOpens` copies the history,
`HandOver` is one `yield`, `TailSubscribes` the listener's registration, after
the replay. Between two yields other turns run, hence `lost`: what is emitted
between the copy and the registration reaches no one. A dropped socket makes
the client open a new tail that resumes after `seen`; a restart numbers entries
from zero again, so a client may resume from an identifier of another process.
`lost` collects exactly what no tail could hand over for these reasons, and the
properties demand everything else.

### Notifier

`Moves` is `onStatus`: both streams in the same turn and, for `recovering`,
`exhausted` and `fatalError`, a dispatch nobody awaits. `Described` is the read
of the registry, `PostAnswered` the answer of Slack to one rule's post,
`Publishes` the end of the parallel traversal. The steps a tripwire takes are
those of `Tripwire` (`Follows`).

### Provisioning

`phone` is what the status script reports plus what decides the next report:
whether a package of another signature is there, whether the activity is in
front, whether a reconcile of the agent is due. `Converge` is the loop of
`provision`: publish, end or plan; `RunStep` one command of the plan;
`SettleEnds` the wait after a launch. An install that is refused for its
signature takes two commands more (`Uninstalls`, `Reinstalls`), and what the
first removes may be what another run has just put there; the commands of that
run then fail, or do nothing (`PackageGone`). ADB reaches the phone over its
network: without one no command gets through (`CommandTimesOut`) and the reader
passes the phone over. That does not take wireless debugging, since the fixed
port stays open when the setting is cleared. `Reconcile`, `Tick`, `Recreated`,
`Reboots` and the rest are the agent and Android. Nothing keeps two runs, or a
run and the reader, off one phone, and the model does not either.

### LabRegistry and Registry

`LabRegistry` has the tables as functions of identifiers, the edits of the
routes and the import. In `Registry` an operation reads, changes a copy and
writes, each a step; a write truncates the file first (`WriteBegins`), and
whoever reads it then, or after two writes have met, finds `Unreadable`. A
reader that finds that writes the seed (`Looks`). `calm` says that no two
operations met between read and write and that nothing was cut short: the
lost updates of an unlocked file are a known limit of the code, and the
properties say what must not be lost otherwise. The assignment of a host to a
camera is the page's sequence of calls with its compensation.

### LabPage

A page has the registry as it was when it was loaded (`shown`, the `version`
it read in `of`) and at most one dialog, which keeps the target it was opened
for. An edit flies to the service and back (`Sends`, `Applies` or `Refuses`,
`Succeeds` or `Fails`), and the page then asks for a load, which takes two
steps; a load asked for again starts over. `BuildHierarchy` is the join of lab
and Suitest. The file is one step here, its interleavings being in `Registry`.
`careful` remembers whether every edit so far came from a page that was up to
date with nothing else under way: the links are exclusive only then, since the
service checks nothing of what an edit presupposes. The dialogs for a name and
for the address of a host, and the banner of a failure, are left out.

### Workflow

`todo` is the stack of what the recursive interpreter still has to do, `value`
what it returned last, `left` being an error. Each leaf, branch and command is
a step. A device command asks the gate (`RequireAccepting`), reads where the
camera is (`ResolveEndpoint`), ends (`CommandEnds`), and reports a timeout or a
reboot (`NotifyBridge`). A probe does the same without a gate (`ProbeStarts`,
`ProbeEnds`), and its answer is one more step. Each of these reads the registry
anew, any read may fail, and between them `RegistryEdited`, `BridgeMoves` and
`FactChanges` happen. A report that cannot read the registry is swallowed; one
that can names the camera of that moment and waits until the bridge has
processed it (`BridgeHears`). `domain` is the kind of entity: an ADB target, a
Suitest capture device, or a manual run.

`BridgeHearsOfTheCulprit` says what is left of the intention: the bridge hears
of a camera at the host the call went to, or of none when the registry has none
there, whatever else is edited while the call runs. It excepts an edit of the
host of the entity's own device, after which the code does report another
camera, and it says nothing of a report that was swallowed. `WaitSeesTheReboot`
says that a camera the bridge has heard of accepts commands only once the
bridge has connected it again.

### AdbConnection

`Reduce` is the machine of `connection/reduce.ts`, the actions are
`interpret.ts`: each runs the command of one intent and dispatches the event
its answer stands for. The commands are external, and an `adb connect` that is
refused may exit with 0, which is what `blamed` remembers.

### Settings

A section's value is opaque, except for the lists the cards edit entry by
entry; the infrastructure is a set of fields, of which some are `Optional`.
`UpdateInMemory` is each of the three setters that change the copy in memory
only; the infrastructure card goes through `ModifyReads`, `ModifyWrites` and
`SetConfig`, between which other calls run. The file is edited by leaves
(`Edited`): one that the new configuration lacks keeps its text, while the copy
in memory is the configuration as computed, without it. The property therefore
lets an optional field be on file that the service has not got. `Restart` reads
the file again.

### Schedules, Policies, Codecs and Forms

A schedule is the set of its minutes of the week, a policy a function from the
iteration to a delay, a written tree a record of its tag and arguments.
`DecodePolicy` and `DecodeSchedule` are the folds of their codecs. A codec of
trees works on one node and asks itself about those below; it is one recursive
function from a height to what it does with the trees of that height
(`Encoders`, `Validators`), and so are the edits of a tree (`TreeEdits`). A
behaviour of `Forms` is one form under any sequence of its controls, and its
properties compare what the form shows with what its codec reads back, and with
a definition of its meaning that does not follow the order of the code's steps.
The grace of the wizard, which it never leaves empty, is left out.

## Runs

| Run | Instance | Shows |
|---|---|---|
| `tripwire_safety` | 1 entity, 2 tripwires over 2 shared facts, clock to 3, 1 rearm | the safety of the engine under every interleaving of facts, ticks, retries, reset and stop |
| `tripwire_liveness` | 1 tripwire | every episode ends, a silent grace is noticed, `Tripwire` implements `Episode` with its liveness |
| `tripwire_rearm` (violation) | 1 tripwire, 1 rearm | a reset during a recovery leads to two pipelines on one device |
| `tripwire_stop` (violation) | 1 tripwire | a retry starts a pipeline after the deactivation |
| `taskrunner` | 3 handles, policies of 0, 1, 2 and unlimited retries, 3 ticks each | the loop, its state and the dashboard agree, through stops and late outcomes |
| `bridge_safety` | 2 cameras, 1 edit, 2 reports | never two connections in parallel, serial dispatches, reboot |
| `bridge_camera` | 1 camera, 2 addresses, 2 edits, 1 report, 2 faults | gate, convergence to what the camera is at the address the bridge has |
| `bridge_gate` (violation) | 1 camera, 1 report | commands pass the gate during an explicit disconnect |
| `service` | 3 activations, 2 devices with 2 changes, 3 flips of the hours, 1 restart, policies that all, partly or not at all decode | one lifecycle at a time, quiet after hours but for what a failed start left, facts that follow the list within an activation |
| `service_frozen_fact` (violation) | 2 activations, 1 device | a fact from the evening survives the morning's reset |
| `pages` | feeds: 2 keys, 4 entries, buffer of 3, replay of 2, 1 drop, 1 restart; phone: 2 runs and the reader, 4 phones, 3 passes, 2 mishaps | settled pages are current, nothing comes twice, every page settles; undisturbed provisioning succeeds and tells the truth, the facts end up true of a phone whose network lasts, the settings come back |
| `operations` | registry: 2 overlapping of 3 operations, 1 crash; page: 2 pages, 2 edits, 2 imports or refusals; notifier: 2 tripwires, 2 rules, 4 moves; workflow: 2 cameras, 2 hosts, depth 2, 2 changes; connection: 2 ports and the fixed one, 2 records; settings: 2 operators, 5 moves, 1 restart, 1 failure; forms: as below | edits last, every device has one row, a link belongs to one camera, trips are told, pipelines mean their formula, the bridge hears of the camera at the host a call went to and waits see a reboot, connections say what they are, forms build what decodes and mean what they show |

`pages` and `operations` put modules that share no state into one instance
each: the initial state picks a scene, the variables of the others stand still
in a constant, and each property is a conjunction over the scenes. That checks
each scene as if alone, and nothing is claimed of their interplay.

Why the bounds are enough. Tripwires of different entities share nothing but
the tick, so one entity with two tripwires over overlapping facts has every
interaction; a clock of three admits a full grace, an episode and a second one
after a reset; retries of zero and one have both verdicts of the policy. Three
handles give an old tick that ends under a new handle and under the next one.
Two edits drop a camera and take it back with a job in flight in the old chain,
or correct its address and drop it; two faults move it and cut its power or a
transport; two reports put two events behind each other; the bound of three
events in a chain (`PollPublishes`) only stops polls from piling up losses
behind a slow job, where the first already decides. Three flips of the hours
open, close and open again, also during an activation; the third lifecycle is
there for a restart; two changes let a device vanish and come back under one
tracker. `CHECK_DEADLOCK FALSE` is said where every bound can be used up.
Reachability is not bounded from below: a camera may be powered on at any time
and off as often as the fault budget allows.

In `pages` four entries overflow a buffer of three and a log of three lines,
and leave one entry for after a drop or a restart, which is what resuming from
an identifier that exists in both processes takes; the phones are a healthy
one, one never seen, one with an old agent of another signature that was never
opened (the longest way: the first pass uninstalls, installs and launches, the
second grants, exempts and launches, the third reads) and one whose permission
was revoked. In `operations` three operations on the file are two that overlap
and one that finds what they left; two edits of two pages, with two upsets,
give a stale page, an answer to a dialog that is no longer its own, and an
assignment whose second call and compensation are both refused; four moves are
two trips of two tripwires, or one that recovers and trips again; a depth of
two is passed by the workflow that runs itself; no pipeline is higher than
three; two records of a lookup give the wrong host, no host, a bad port and a
duplicate before the right one. Policies have three steps, schedules two over a
week of days of four minutes, trees a depth of two (a condition in a workflow
one), connectives two operands: one application of each change of kind, at the
root and below it, on each side. An uncapped backoff passes the timer's maximum
within the four iterations looked at.

Fairness. Tripwire: the tick loop never ends (its policy is constant), ADB
commands are killed after 15 s, timers fire, settled promises are dispatched.
TaskRunner: ticks settle and sleeps end. AndroidBridge: the same for its jobs
and ticks, plus strong fairness of a successful `adb devices` and of a
successful connection to a camera that answers: an environment in which one of
them always fails owes nothing. Service: the activation loop and the trackers
tick, the steps of an activation end (ADB commands have timeouts, the runtime's
`fetch` gives up), and `adb devices` does not fail for ever. The hours are
given in minutes and polls are killed after 15 s, hence the guard of
`HoursFlip`: no poll outlives a closing until the next opening. Feed: the event
loop runs what is ready, a query is answered or fails, the client reopens its
tail by itself. Provisioning: the timers of the agent fire, Android recreates a
foreground service it killed (`START_STICKY`), the reader comes round, and on a
phone that keeps its network reads and steps end as ADB commands do; that a
network returns is not assumed. `operations` has none: it checks safety. No
fairness is assumed of operators, hours or faults. Where liveness is checked
the only bounded resources are the clock, the ticks and the environment's
budgets, and the properties are stated so that running out of them is not
progress.

## Proofs

`TripwireProofs` proves, for any entities, tripwires, predicates, graces and
retry limits, type correctness and the safety properties of `tripwire_safety`.
The inductive invariant `IInv` adds to the type invariant: a running runner's
facts are the feed's (`Mirror`); instants recorded lie in the past
(`PastInstants`); attempts of an instance are numbered and stamped in the same
order (`AttemptsInOrder`); a grace starts after every attempt in flight did
(`GraceAfterAttempts`), which is why a new attempt's instant differs from the
ones in flight and why an outcome can be matched by it; and without a rearm the
episode's attempt is the only one (`UndisturbedEpisodes`). None of the safety
properties is inductive alone: that a late outcome does not close a later
episode needs the identity of attempts to be unique, which needs the positive
grace. `TripwireImplementsEpisode` shows that every step maps to a step of
`Episode` or a stutter: an observation to a sweep, an outcome to the close of
its episode or to an orphan's report.

`TaskRunnerProofs` proves the loop's invariants for any number of handles and
any limit. `IInv` adds to the type invariant the agreement of state and control
flow, the count of ticks, and that the board shows `stopped` when no handle is
live; the last is preserved because a stopped state ignores every outcome.

`ServiceProofs` proves, for any endpoints, lifecycles and bounds, the types,
that only the held lifecycle runs, with recovery loops that nobody holds left
by a partly decoded configuration only, and that the table follows the list.
The last is not inductive: `TrackingInv` adds that a lifecycle that never ran
has said nothing (`Untouched`), that a stopped one may still report only while
the service is inactive (`LateReportsWhileInactive`), so that no report speaks
over another tracker, and that the running tracker remembers every endpoint it
holds for reachable (`ReachableAreKnown`), so that it retracts it when it
vanishes.

`AndroidBridgeProofs` proves, for any set of cameras and any bounds, the types
and all four safety properties of the bridge's runs. Half of it is about the
promise chains: what appending, ending and detaching do to the jobs of a
sequence of sequences (`EnqueueProperties`, `FinishProperties`,
`DetachProperties`, `BeginProperties`), where only the first job of a chain has
begun (`OnlyFirstBegun`). `OneReconnection` strengthens one connection at a
time: only the reconcile asks for connections, of one camera at a time, which
it read to be controlled, and it does not go on before they have ended; that is
also why a camera dropped in the middle of a connection may only become Idle
while the last reconcile still had it as controlled. Every step that dispatches
nothing for the reconcile is covered by one lemma (`QuietStep`): each of its
jobs descends from an older one or is harmless. `OneChain` strengthens the
serial dispatches and the invalidation by a reboot: a camera that was never
dropped with work in flight has one chain, and what runs in it began in the
state the map still has and after the last reboot.

`PagesProofs` proves the two safety properties of every kind of feed, for any
keys, entries and bounds. `FeedInv` says what a kind of page has while it waits
(`PageRules`); that the ring buffer holds the last identifiers without a gap
and the latest entry of every key unless that is too old (`StreamRules`); that
what a tail has left is of this process, newer from entry to entry and newer
than what the client resumes from (`RestRules`); that the client knows of
nothing yet to come (`SeenRules`); and that what is on the page is in order up
to what the client resumes from (`OrderRules`). Then the latest entry of a key
is in its row, or among what the tail has left, or was out of reach
(`TableRules`), and the same for every entry of a history (`ListRules`). The
weight of the proof is in `HandOver`, which must not go behind what a snapshot
showed, and in `TailOpens`, whose replay must reach from where the client
resumes: the replay, the cut of the log and the buffer are suffixes, and the
lemmas about suffixes serve all three. That the two properties hold across a
restart needs the epoch in `Before`: identifiers start from zero again.

It also proves that a provisioning run nothing disturbs succeeds, for any
number of runs, any phones with a network and any number of passes from three
on. `RunProgress` says how far each pass has brought the phone: after the first
the package is up to date, so that no later pass uninstalls it; what the second
has done or still has to do grants, exempts and launches all that is missing;
in the third the phone passes, or the agent's own reconcile is due and will
make it. What the run read is true of the phone, or the agent has made it
better since (`AnswerHolds`): that is the interleaving of agent and run. What a
run has said of the phone stays true for as long as nothing happens to it
(`Truthful`), since the agent only ever writes settings back. The scenes of
`pages` are then one invariant (`ScenesInv`).

`CommandsProofs` has three parts.

- Notifications. `NotifierInv` says which rules a dispatch has posts for at
  each of its steps, that a notification belongs to a dispatch that is over and
  tells how its post went, that none comes twice and none is left out, and that
  the log has one error for every failed post, of all dispatches together; the
  last is a cardinality, kept by one lemma for each way a set may grow.
- The connection attempt. `ConnectionInv` ties the intent under way to the
  state of the machine, and both to the transports the ADB server has: apart
  from the fixed port it is connected to the port of the attempt at most. It
  needs that a lookup never finds the fixed port (`ConnectionAssumption`);
  otherwise the temporary disconnect could take the persistent transport with
  it. Android advertises the port of wireless debugging, never 5555.
- The interpreter. `StackInv` is the discipline of the stack: a workflow only
  above the leaf it runs for or the workflow that called it, and no deeper than
  the limit; `CallInv` that the host a call went to is the one the registry
  names for the entity unless that was edited since, and that a camera the
  bridge has heard of is not connected before the bridge connects it, which is
  what the report and a wait need.
  That a pipeline means its formula rests on `FormulaInv`: under every
  valuation of the tree's nodes that agrees with the leaves noted so far, each
  frame owes the one below it a truth, and what comes back on top pays it (a
  connective is its first part with what is left, `After`). The formula's value
  is not computed, which would take recursion over the tree: a valuation is any
  set of nodes in which connectives and negations hold as they should, and the
  leaves that were skipped are those on which valuations may differ.
  `LeavesInv` adds that no leaf is noted twice, because the frames' leaves and
  those that are gone stay apart.

`OperationsProofs` has one part for each of the files and pages.

- The registry. `RegistryInv`: while nothing has met, at most one operation
  holds what it read, what it holds is what was acknowledged with its own
  change made, and the file is what was acknowledged unless it is being
  written. `AssignmentInv` follows the calls of an assignment: what is
  acknowledged says of the host and of its camera what the call in flight, or
  the compensation, may assume.
- The settings. `SettingsInv` adds to the shapes that there is one save of the
  infrastructure at a time while none has overlapped, and that the copy in
  memory differs from the file only between the write and the update, while
  that save's card has what it wrote (`OneSave`), or in an optional field that
  it lacks.
- The registry page. `PageInv`: what pages hold are registries of old
  (`PagesHonest`), an edit in flight is one a dialog may send, with the
  identifier it was given (`FlightForm`, `IdsKnown`), and, while care is taken,
  one edit is under way, nobody has what it links, a host that was added and
  not given yet is nobody's while its camera waits, and every other host has
  one camera (`CareTaken`). None of the properties is inductive alone: an
  answer that is refused leads to a compensation, and that the compensation
  removes nobody's host follows from what held when the edit was sent. That
  every device has one row needs no reachability, only a finite registry: rows
  are counted by a bijection with the devices (`WholeHasOneRowEach`).
- The scenes. A behaviour stays in its scene and there is one of its module, so
  the invariants of `operations` (`TypesOK`, `EveryTripIsTold`, `EditsLast`,
  `FormsSayWhatTheyMean`, and `CommandsTellTheTruth` in `CommandsProofs`)
  follow from the theorems by temporal logic.

`FormsProofs` proves what `FormsSayWhatTheyMean` says for trees of any height,
lists of any length, days of any number of minutes and policies with any
arguments.

- The induction. The library's induction theorems take an operator as a
  parameter, which the provers cannot instantiate. `AllAlong` says the same of
  a set: one that has 0, and every i of 1..n if it has i - 1, has all of 0..n,
  since there would be a smallest number outside (`NatLessThanWellFounded`,
  `WFMin`). Each proof puts the numbers where its claim holds into such a set,
  and first that the recursive function is what its definition says
  (`TreesAre`): there is one up to each height, made from the one below.
- Trees. `ReadsAtHeight` says that a tree of a height is written as a wire of
  that height and read back, if its node is (`AtHeight`); `ShownReads` that all
  trees a form may show are, from the same one height below. What may be shown
  (`Shown`) is closed under every control: additions, moves, removals, changes
  of kind, and edits further down (`TreeEdits`). A connective that is never
  empty is all this needs, which is why the last operand may not be removed.
- Policies. Each primitive has some delays to choose from, its own and those of
  the caps after it (`Choices`). After every prefix of the steps the delay is
  at least one choice of each primitive, and at most every choice of one
  (`MeansAt`): that is what the fold keeps, and with the whole list it is the
  maximum of the minima in `PolicyMeansItsSteps`. The loops stop where their
  definition says, and a limit is among the reasons.
- Schedules. The minute that a prefix decides is decided by its last step that
  settles it, or by its first verb.
- The forms. `FormsInv` says for each form what its controls may lead to, and
  for the wizard also what the steps already passed have in them: a fact that
  is named, a workflow that was picked, a policy that is not empty. The
  property is not inductive without it: that a saved tripwire is whole follows
  from what was true when each step was left, and that stepping back and
  emptying a list brings the wizard back to that step.

TLC checked these inductive invariants on the instances of the runs before they
were proved, except where it cannot evaluate them: it neither compares
identifiers of different kinds nor frames that hold nodes of a formula with
frames that hold commands, and the valuations of a formula are too many sets.
What proving them asked of the models: the nodes of a pipeline are gathered
level by level, down to a height that is a constant (`MaxHeight`), by a
recursive function instead of a recursive operator; the first of a filtered
list is looked up by its position, and records are overridden by an operator of
`LabRegistry` (`Over`), since nothing can be proved of what `SelectSeq`
computes for a list of any length, nor of the library's `@@`.

Assumptions: the named `ASSUME`s of `Tripwire`, `TaskRunner`, `Service`,
`AndroidBridge`, `Feed`, `Provisioning` and `Notifier`, and
`OperationsAssumption`, which gathers those of the other modules; TLC evaluates
all of them on every run. Of the environment they say only: phones to be
provisioned have a network to begin with; no other operator edits the host that
is being assigned or the host of its camera (`AssignmentAssumption`); a lookup
does not answer with the fixed port (`ConnectionAssumption`); pipelines are
formulas whose leaves are named apart (`WorkflowAssumption`); the file decodes
when the service starts (`SettingsAssumption`); the registry a page first sees
has exclusive links, one camera for every host, and none of the identifiers
that will be given out (`LabPageAssumption`; the identifiers are random UUIDs).
The last is about where a behaviour starts: from a registry that already breaks
the links nothing about them could follow.

Only model-checked, and why. Liveness (`EpisodeEnds`, `GraceExpiryIsNoticed`,
`KeepsTicking`, `BoardCatchesUp`, `ReachableConnects`, `UnreachableRefuses`,
`QuietAfterHours`, `ActiveWithinHours`, `FactsConverge`, `SettlesEventually`,
`PhonesSettle`, the fairness of `Episode`) is out of this prover's reach. Every
invariant and every action property of a passing run has a theorem.

## Findings

1. `rearm` resets a tripwire that is recovering, and a second pipeline runs
   next to the first (`tripwire_rearm`).
2. Deactivation does not cancel retries: a pipeline starts outside working
   hours (`tripwire_stop`).
3. During the explicit disconnect of a stuck transport the gate accepts
   commands, since `Disconnecting` never reaches the map (`bridge_gate`).
4. A device that is reachable when the hours end and does not come back when
   they begin stays reachable in the fact table, and nothing retracts it
   (`service_frozen_fact`): recovery never sees it down, and a manual workflow
   may pick its stale endpoint.

## Observations

What was met while modelling and contradicts no line of the repository, so that
it is no finding; the models contain it.

- The activity stream is keyed by source and entity. Of two tripwires of one
  entity the later status hides the earlier: a tripwire that gave up may show
  as healthy.
- Between a gate, a target and a command the registry is read anew each time:
  an edit in between sends a command to one camera and reports its timeout for
  another. When the registry cannot be read, the bridge hears nothing of a
  timeout or a reboot.
- A camera whose address is corrected is dialled at the old one until its
  machine is dropped or the lifecycle ends.
- A recovery policy that does not decode, listed after others, leaves recovery
  loops that tick and launch pipelines after hours, held by nobody: one set
  more each working day. Handles are kept by the policy's label, so that of two
  policies with one label only the second can be stopped, which is not
  modelled.
- `adb connect` exits with 0 when it is refused; the machine then ends
  Persistent without a transport. `ConnectionLost` and `PortChanged` are
  reduced but never produced.
- The list of devices is published before the facts are emitted, so the bridge
  may declare lost what it has just connected.
- A registry that cannot be parsed at one instant is replaced by the seed, also
  by a reader that only wants a label. Two overlapping edits lose one. A
  deleted imported camera comes back with the next import; removing a camera
  leaves its host behind.
- Links and hosts are exclusive only as far as pages are up to date: a dialog
  keeps its target while the page loads anew, so that a second host may replace
  the first, which then belongs to no camera; the service accepts an update of
  a camera that is gone; an answer closes whichever dialog of its kind is open.
- The save of a settings page loaded before `log.path` or `log.network` was set
  drops it in memory and not on file; it comes back with the next restart.
- Saving the infrastructure card reverts what the other three cards edited in
  memory; a call that throws leaves the card saving; renaming a recovery policy
  or a workflow to a name that is not taken has no effect, to one that is taken
  overwrites it. Edited policies reach the engine at the next activation only.
- A negative duration passes its form and not its codec. A cap with nothing
  before it can be entered and does not decode. An uncapped backoff outgrows
  the timer, which then fires at once. Numbers of a policy are natural in the
  model; the number field has neither minimum nor step, and the codec accepts
  -1 or 1.5.
- A query that fails leaves its page without a subscription.
- Two provisioning runs of one phone may remove each other's install.
- A launch of an activity that is open only brings it to the front: a run may
  use its last pass waiting for an agent that was not asked.

## Not modelled

The parsers of the adapters (the text of `adb`, `dns-sd`, `dumpsys`) are
abstracted to what they may answer. The Suitest trackers follow pages of a
remote list and emit facts the way the ADB tracker does, without retractions.
Formatting of logs, layout, styles and wording of the pages, the mock servers
and the documentation site have no state worth a property. A second service
after `SIGHUP`, the orchestrator's stop at the end of a lifecycle, and two
cameras on one ADB host would need second instances of the models they are
part of. `PROJECT.json` has the status of each component.

## What is left

The second lifecycle that a `SIGHUP` with another port would start, the stop of
the orchestrator and cameras that share an ADB host; the Suitest trackers; the
log panel's scrolling; the remaining dialogs of the registry page. Of the
proofs, liveness.
