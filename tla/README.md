# A verification project for llm-wake-proxy

`llm-wake-proxy` keeps a bare-metal `llama.cpp` host asleep and wakes it when a
request comes: it sends a Wake-on-LAN packet, waits for ssh, asks a helper on the
host to start `llama-server`, opens an ssh tunnel and forwards the request. This
directory holds TLA+ models of that machinery, the TLC configurations that check
them, and TLAPS proofs about them. Paths below are relative to the repository
(`src/lifecycle.rs` is the proxy's crate source).

    tlc -config <run>.cfg <Module>.tla     # model-check one run
    tlapm <Module>.tla                     # check the proofs of a module

Every definition that stands for code is listed in `PROJECT.json` under `map`,
with the lines it models.

## 1. The system

| Component | Source | State it keeps | Operations |
|---|---|---|---|
| Lifecycle manager, one per backend | `src/lifecycle.rs` | published `BackendStatus` (a watch channel), `BootstrapState` behind a mutex, spawned boot tasks | `ensure_backend`, `mark_warming`, `degrade_embeddings`, `status` |
| Orchestrator | `src/orchestrate.rs` | none of its own | `execute`: cold permit, `ensure_backend`, forward, one retry |
| Warm execution scheduler | `src/scheduler.rs` | a tokio semaphore, a counter of queued requests behind a mutex | `execute` |
| Request cancellation | `src/scheduler.rs` | an atomic flag and a `Notify` | `cancel`, `cancelled`, `CancelOnDrop` |
| Application state | `src/state.rs` | cold-start semaphore, two "tunnel was ready" flags | `is_cold`, `check_tunnel_drop`, choice of manager, alias and port |
| Metrics | `src/metrics.rs` | eleven atomic counters | increments, a snapshot |
| Forwarder | `src/forward.rs` | none | non-streaming and streaming forward, alias rewriting |
| Helper RPC | `src/host.rs` | none | `observe_backend` = `ensure-started`, then `status`, over ssh |
| ssh tunnel manager | `src/host.rs` | the ssh `Child`, behind a mutex | `ensure_tunnel` |
| Wake-on-LAN, ssh probe | `src/host.rs` | none | a UDP packet, a TCP connect |
| Host helper | `src/helper.rs`, `src/bin/helper.rs` | none; systemd keeps the units | `ensure-started`, `status`, `lease acquire/release/inspect` |
| HTTP API | `src/app.rs`, `src/http_error.rs` | none | validation and routing |
| Configuration | `src/config.rs` | none | environment parsing |

**Interaction.** An HTTP handler validates a request and runs the orchestrator in
the same future. The orchestrator may take a cold permit, awaits `ensure_backend`
of the backend's lifecycle manager, and forwards through the scheduler. Exactly one
`ensure_backend` call should own a bootstrap: it makes the first observation (ssh
probe, wake-up, helper, tunnel) itself, and spawns a task for the rest of a slow
boot. The others wait on the watch channel. When forwarding cannot reach the
backend, the orchestrator marks it warming and calls `ensure_backend` again,
outside the scheduler. The proxy runs the helper over ssh; the helper drives
systemd and asks the server what it serves.

**What makes it hard.**
- Requests run on many threads. Status is *read, edited and republished* without a
  lock; decisions are taken on copies that are an await old.
- A request's future can be *dropped* at any await, when its client disconnects.
- The host sleeps, reboots, crashes, loses its tunnel or its ssh sessions at any
  step. Helpers survive the ssh session that started them.
- Budgets and deadlines race with answers: the wait budget, the boot deadline, the
  queue timeout, the helper's server start timeout, the upstream client's timeout.

**What makes each component correct.**
- *Lifecycle*: one bootstrap at a time; Ready exactly when the tunnel is; no waiter
  sleeps on a decided status; errors keep their cause; each request is answered;
  the backend comes back once the host behaves.
- *Scheduler*: permits and tickets are never lost or forged; nobody waits beside a
  free slot; nobody starves.
- *Cancellation*: no cancel is missed, none is false.
- *Helper RPC and helper*: a backend observed ready did serve the expected model; a
  helper ends; a calm host is observed ready from any unit state.
- *Tunnel*: one live ssh per port, none forgotten, a broken one replaced.
- *Orchestrator*: limits hold, outcomes are counted once, a boot holds up nobody else.
- *Forwarding*: a clean end means the whole body; every line of a stream that no
  chunk boundary cuts names the proxy's model.
- *Admission and configuration*: exactly the supported requests get through, under
  any environment the proxy starts with; no model is advertised that is then
  refused; a request reaches the server the helper verified.
- *Leases*: a holder keeps the host awake for the time it was told, and no lease is
  for ever.

The hazards behind these are listed one by one, with their lines, in
`PROJECT.json`.

## 2. The modules

| Module | Models | Kind |
|---|---|---|
| `Lifecycle` | lifecycle manager and its callers | specification |
| `BackendGate` | what a lifecycle manager promises its callers | abstract specification |
| `LifecycleProofs` | | proofs, with the refinement of `BackendGate` |
| `FairGate` | what the scheduler promises | abstract specification |
| `WarmScheduler` | the scheduler on a tokio semaphore | specification |
| `WarmSchedulerProofs` | | proofs, with the refinement of `FairGate` |
| `RequestCancellation` | the cancellation token | the state and steps of the token |
| `Forwarder` | forwarding operations, on top of the token | composition |
| `ForwarderProofs` | | proofs |
| `Orchestrator` | requests from admission to the end of their body, on top of `FairGate` and `BackendGate` | composition |
| `OrchestratorProofs` | | proofs |
| `HostHelper` | helper RPC, helper, systemd unit and server | specification |
| `HostHelperProofs` | | proofs |
| `SshTunnel` | tunnel manager, ssh processes, network | specification |
| `SshTunnelProofs` | | proofs |
| `HostLease` | the lease commands of the helper and the unit they share | specification |
| `HostLeaseProofs` | | proofs |
| `Configuration` | environment parsing and the services built from it, as operators | pure functions |
| `Admission` | extractors, handlers, `/v1/models` and `/status`, on `Configuration` | specification |
| `AdmissionProofs` | | proofs |
| `MCAdmission` | environments and bodies for TLC | model-checking module |

### Lifecycle

A step is the code between two await points, or between two accesses of shared
state another thread can separate. So `mark_warming` and `degrade_embeddings` are
two steps, a read and a publish (`UpstreamUnreachable`/`mark_warming`,
`EmbeddingsUnsupported`/`degrade_embeddings`), while a mutex section, which holds no
await, is one. `pc` says where each call and task is, `snap` is the local copy of
the status it holds over awaits, `unseen` the watch receivers that have a version
to see. `Arrive`, `ReadyGate`, `start_or_join_bootstrap` are `ensure_backend`; the
actions from `bootstrap_observe_request` to `TunnelError` are `observe_once`, shared
by the owning call and its task; `Poll` is the loop of `start_bootstrap`;
`BorrowWaiting` to `ReturnWarming` are `wait_for_ready_or_timeout`. `Drop` is the
loss of a request's future at an await.

Time is abstracted. The wait budget and the boot deadline may have passed whenever
the code looks at them (`CheckBootstrap`, `WaitTimesOut`, `Poll`), which covers any
clock, including a boot deadline that has passed before the first poll.

The host is one record. While it is not `calm` it may fall asleep, wake and break
between any two steps, so each of its answers is possible at any time and its state
need not be kept (`May`). A calm host answers by whether it is `awake`, and its
tunnel works if `link` does. A `Ready` tunnel may be dead. Fields of the status that
nothing decides on (unit states, timestamps, reasons) are left out. So is
`TunnelState::Connecting`, which no production code publishes. Two answers are
possible for the traits the manager is written against and not for the production
implementations: the ssh probe fails (`SshError`; `SshTcpProbe` maps errors to "not
ready"), and the helper reports a backend still starting (`ObservedWarming`).

`BackendGate` is the manager as its callers see it: the published lifecycle and
embeddings capability, whether a bootstrap is active and who is to end it. Only the
owner reports and ends a bootstrap, a dropped owner leaves it active for ever
(`Abandon`), and callers that have reached the backend may put back an old status
with their edit (`MarkWarming`, `Degrade`). Nothing makes a backend `Cold` again.
`ImplementsBackendGate` says that every step of `Lifecycle` is such a step or a
stutter, with `Owners`, the processes at a program point of the bootstrap, as the
owner.

### WarmScheduler and FairGate

`WarmScheduler` has one step per access of the semaphore or the queue mutex. The
semaphore is tokio's: a released permit goes to the head of the queue (`Release`),
and a wait that is dropped after it was handed a permit gives it back (`GiveUp`).
`FairGate` is the promise: `inside` and `line`, first come first served. The
refinement maps `inside` to the requests that hold a permit, polled or not, and
`line` to the semaphore's queue.

### RequestCancellation and Forwarder

The order that matters in the token: `cancelled()` creates its `Notified`, looks at
the flag, then waits; `cancel()` raises the flag, then notifies. A `Notified` counts
the notifications since its creation. `RequestCancellation` has these steps and no
`Next` of its own: `Forwarder` composes them with the operations that select between
the token and the head of the upstream's response (`SendFails`, `HeadArrives` and
`RefusalArrives` take the select's other branch and drop the watch), and that pass
the body on unwatched. In this program the only caller of `cancel` is
`CancelOnDrop`, whose drop also drops the forwarder that watches the token, so the
`request_cancelled` answer is never sent; the model lets holders cancel at any time.

A body is a sequence of lines in three parts, the middle one the first byte of a
character of two bytes. The network cuts it into chunks anywhere. A chunk is decoded
by itself (`from_utf8_lossy`) and its lines renamed by themselves
(`rewrite_model_alias`), so what a cut goes through passes unchanged or damaged.
The state holds the pieces `sent` to the client and the places where the body was
cut (`cuts`).

### Orchestrator

One step per stretch between awaits. It INSTANCEs `FairGate` for the scheduler and
one `BackendGate` per lifecycle manager, so both of its surroundings are
specifications that the detailed modules were shown to implement. A bootstrap is
begun and dropped by a request that asks for the backend, is owned by nobody in
particular in between (`boot`), and goes on without any request. A request's
decision is that of the moment its status was borrowed: it may be told to wait while
the status is Ready and a bootstrap runs (`Booting`). Requests are used once, so
the counters stay bounded and TLC's deadlock check is off: when all requests are
done nothing is left to do. `Dual` chooses one backend or two.
Two things need no variable: `wake_attempts` is incremented wherever `cold_starts`
is, and `check_tunnel_drop` never finds a drop, because a decision `Ready` carries
a `Ready` tunnel (theorem `Coherence` of `LifecycleProofs`).

### HostHelper

A step is one command of the helper or one event of its ssh session; the two sides
are separate (`run` on the host, `ssh` in the proxy), since a lost session or a
dropped request leaves the helper running. `served` is a history variable: the
observations during which the expected model was served. `main` exits with failure
for `Mismatch` and `Error`, so the branches of `SshHelperRpc::ensure_started` that
map those statuses are never reached. One target is modelled; the two differ in
unit and port only. The proxy's parse errors are covered by `ConnectionLost`.

### SshTunnel

`ensure_tunnel` under its lock, the new ssh watched for half a second (and dropped if
its state cannot be read), and the ssh
processes with the port they bind. A dropped `Child` is killed (`kill_on_drop`) and
dies in its own time, still holding the port.

### HostLease

One step per `systemctl` or `systemd-run` command of a helper process; the helpers
share one transient unit and no lock. The unit is the time its sleep has left, 0
when none is loaded. `since` is a history variable: how long ago the process that
is still answering made the unit there is, or `NotItsOwn`. Times are in units of the
model, so the limits 60 and 86400 seconds and the default 900 are constants.

### Configuration, Admission

`Configuration` is pure: `from_env` as an operator from the environment to
`AppConfig`, and the choices of `AppState` (`lifecycle_for`, `model_alias_for`,
`tunnel_port_for`) as operators on that. An `Option` is a set of at most one value;
text that denotes no number is represented by a number out of range, which the code
treats alike. `Admission` picks an environment the proxy starts with, then takes one
request after another through the extractors and checks of its handler. `ChatChecks`
and `EmbeddingsChecks` list the early returns in their order; the first that applies
decides. Field contents are reduced to shapes (absent, null, good, bad), message
contents to what `content_error` looks at.

## 3. What TLC checks

| Run | Question | Bounds |
|---|---|---|
| `lifecycle` | one bootstrap, coherent status and decisions, no lost wake-up, refines `BackendGate` | 2 calls (one chat that may be dropped, one embeddings), 1 task |
| `lifecycle_recovery` | errors keep their cause, the backend comes back | 2 chat calls, 1 task, nobody dropped |
| `lifecycle_answered` | every request is answered though others disconnect, every boot task ends | 2 chat calls, one droppable, 1 task, `RestlessSpec` |
| `lifecycle_wedge` | *refutes* Recovery when a client disconnects | 2 chat calls, one droppable, 1 task |
| `lifecycle_no_wake` | *refutes* NextRequestWakes | 2 chat calls, 2 tasks |
| `scheduler` | permits and tickets accounted for, no idle slot, nobody starves, refines `FairGate` | 5 requests, 2 permits, 2 places |
| `helper` | a backend observed ready served the model; helpers end; a calm host is observed ready | 2 overlapping observations |
| `tunnel` | one tunnel, none leaked, repaired | 2 calls, 3 ssh processes |
| `orchestrator` | outcomes counted once, a boot keeps no slot | 1 streamed chat, 2 embeddings, two backends, 1 slot, 1 cold permit |
| `forwarder` | no missed and no false cancel; clean ends are complete; renamed unless cut | 1 stream, 1 embeddings request, 2 cancellers, 3 lines |
| `lease` | a grant lasts as told; leases end | 2 helpers, ttl 0, 3, 9 or none, limits 2 and 4 |
| `admission` | exactly the supported requests pass; advertised models are accepted; requests reach the verified server; `/status` shows every model | 360 pairs of environments of proxy and host, bodies with at most one odd field or message |

**Why these bounds.** Call and task slots are reused, so two calls make behaviours
of any length: an owner, a joiner, a call that finds what earlier ones left. Each
safety property of `Lifecycle` is about a pair (two owners, a publisher and a
waiter), and is also proved for any number. A task runs only while it owns the
bootstrap, so by `Mutex` a second task slot would stay idle. `RestlessSpec` keeps
the host from becoming calm: every answer the host can give stays possible at every
step, and the calm states, which `EveryCallAnswered` does not need, are not
enumerated. In the scheduler, five requests fill two slots
and two places and leave one to be refused. Two
observations of a host are one left behind and one that follows it. Three ssh
processes are one dying, one exited and one new; a call that finds none free waits,
which the fairness rules out as an end. With one slot and one cold permit, three
requests of the orchestrator are one inside, one in line or refused its permit, and
one of the other backend that retries or waits for its boot; what each becomes is
counted by itself. Three lines of a body are a first, a middle
and a last one, and with every cut enumerated each can be whole in a chunk, cut, or
cut twice; the two operations share only the token. Two lease helpers are a holder
and one that renews, replaces or releases; the ttls lie below, within and above the
limits. `Huge` stands for a sleep nobody sees the end of: a ttl that were not
clamped would reach it.

In `forwarder` and `orchestrator` each operation or request ends once and TLC's
deadlock check is off.

**Fairness.** `Lifecycle`: weak fairness per call and per task - the tokio runtime
polls ready futures and fires timers - and clients retry (`Arrive`); strong fairness
of the two deadlines (`WaitExpires`, `BootExpires`), since a deadline that is looked
at again and again passes in the end; none for the host or for disconnects.
`Recovery` has the premise that eventually
bootstraps start from the status in force (`StartsFresh`): `ensure_backend` passes a
status borrowed two awaits earlier, and a scheduler that lost that race for ever
would never send a wake-up. `WarmScheduler`: neither the queue timeout nor
disconnects are fair, progress does not need them. `HostHelper`: the helper, the
proxy and the timer run, each command of the helper ends, a dead helper's connection is noticed, systemd restarts and
models load; nothing is assumed of a host that is not calm, and a calm one does not
let the start timeout pass while the server answers. `SshTunnel`: calls, and ssh,
which notices a broken connection in the end. `Orchestrator`: a forwarded request
ends (its HTTP client has a 300 second timeout); nothing is assumed of the lifecycle
managers, so `QueueMoves` holds although a backend boots for ever. `Forwarder`: a
future that is ready is polled and a `cancel()` that raised the flag goes on to
notify; whether anybody cancels and whether the upstream answers is left open.
`HostLease`: time passes, and no holder need release.

**Mutants.** Each property of a passing run has a mutant, an operator defined just
before the definition it replaces (`AlwaysStart`, `PublishIfModified`, `Barge`,
`KeepTicket`, `LeaveRunning`, ...), a bug that code could have; with it, TLC
violates the property under the same configuration.

## 4. What the runs found

- **A dropped request wedges its backend** (`lifecycle_wedge`). `ensure_backend` sets
  `active` and clears it in `finish_bootstrap`. If the client disconnects while the
  owner awaits the ssh probe, the wake-up, the helper or the tunnel, the future is
  gone and the flag stays: every later request waits its budget and is told
  `warming_up`, for good.
- **No wake-up after a broken tunnel** (`lifecycle_no_wake`). Marking the backend
  warming hides that it must be woken: `should_request_wake(Warming)` is false. The
  boot deadline must publish Error before a later request sends a wake-up.

Met while reading, and not the subject of a run:
- A waiter borrows the status before it locks the bootstrap state
  (`src/lifecycle.rs:501`). If a retry bootstrap succeeds in between, it reports the
  old error, without its cause, for a backend that is ready.
- A streamed body and the retry after an unreachable backend run outside the
  scheduler (`src/forward.rs:161`), so more requests are upstream than
  `WARM_MAX_ACTIVE_REQUESTS` says.
- A body that is not streamed and cannot be read to its end is answered as an empty
  200 (`src/forward.rs:99`). `CleanEndIsComplete` says no more than that it is then
  empty.
- A server that crashed behind a live tunnel gives `UpstreamError` and not
  `UpstreamUnreachable` (`src/forward.rs:57`), so the status stays Ready and nothing
  restarts the server but systemd.
- `COLD_START_MAX_WAITING` limits the requests that arrive while the status is
  `Cold`; those that come while the backend warms wait without a permit
  (`src/orchestrate.rs:62`).
- `tunnel_drops` never moves, since `check_tunnel_drop` only ever sees the tunnel of
  a Ready decision (`src/state.rs:86`).
- An ssh that has not exited after half a second is taken for an established tunnel,
  though it may still be connecting (`src/host.rs:336`). `SshTunnel` has that step.
- `wake_attempts` counts requests told to wait, not packets.
- The proxy never acquires the lease that `README.md:105` and `CONTEXT.md:14`
  describe; `lease_expires_at` is never set.
- `lease acquire` reads whether a lease was active before it replaces the unit
  (`src/helper.rs:532`), so "renewed" may be told of a lease that had ended.
- The port of the embeddings server has one name in the proxy's environment
  (`src/config.rs:88`) and another in the helper's (`src/helper.rs:285`);
  `ReachesVerifiedServer` has their agreement as a premise. That the two local
  tunnel ports differ is not validated either (`src/config.rs:85`).
- A limit above tokio's `MAX_PERMITS` passes the configuration and panics at
  start-up. `Starts` excludes it, and `TypeOK` of `Admission` shows that every other
  environment gives limits a semaphore can have.
- ssh joins its arguments with spaces, so an argument with a space arrives as two
  (`src/host.rs:157`).
- The served model passes for the expected one if its name is part of the model path
  or has that path in it (`src/helper.rs:446`), so a very short name, even an empty
  one, passes. `Verified` takes every name that passes for the expected model's;
  `ReadyWasServed` says no more.
- The helper's `curl` has no `--max-time` (`src/helper.rs:221`), and the start timeout
  is looked at only between two of them: a server that accepts a connection and never
  answers keeps the helper. `HelperEnds` is about servers that do not.
- A lease has one unit and no list of holders: a renewal with a shorter ttl cuts
  another holder's lease short, and any release ends it (`src/helper.rs:537`).
  `GrantLasts` is about a holder's lease until that happens; nothing is claimed
  beyond it.

## 5. What TLAPS proves

For every value of the constants that satisfies the assumption of the module.

**`LifecycleProofs`** (from `LifecycleAssumption`: calls and tasks are disjoint).
`TypeCorrect`, `Mutex` (SingleBootstrap), `Coherence` (StatusCoherent), `Wakeup`
(NoLostWakeup), `Ownership` (NoOrphanedBootstrap), `Cause` (ErrorHasCause),
`Refinement` (ImplementsBackendGate).
- `Mutex` is inductive with the flag: an owner implies `active`, and ownership is
  taken only when `active` is false.
- `Coherence` is not inductive alone: any copy may be republished later, so
  `CopiesCoherent` says of every `snap`, by program point, that publishing it is
  harmless. A copy between the helper's answer and the tunnel's is the exception.
- `Wakeup` is strengthened by what a waiter knows: one that has seen every
  published version holds the status in force, and one that sleeps with no
  bootstrap active sleeps on an undecided status. `PublishWakes` shows that any
  publish re-establishes it, because `send_replace` notifies even when the status
  is the same.
- `Cause` follows processes that carry an Error or an edited copy (`CauseInv`); with
  chat requests only, since `degrade_embeddings` can republish an old Error.
- `Refinement` needs to know what may be published: `GateInv` says that the copies
  about to be published are not Cold, that a Cold backend was never seen Ready (so
  no caller edits it), and that without embeddings requests nothing is degraded. A
  Ready report needs `CoherentInv` besides, which says that a copy whose tunnel is
  being made is of a Ready backend. `Mutex` makes the owner one process, and
  `WarmingReports` is the step where a call hands the bootstrap over to its task.
- `Ownership` is about managers whose requests are never dropped. No run lists it:
  `ImplementsBackendGate` says the same of every step.

**`WarmSchedulerProofs`** (from `SchedulerAssumption`: finitely many requests, at
least one permit). `TypeCorrect`, `Slots`, `WorkConserving`, `Tickets`,
`Refinement`. The shape of the state comes first (`LineOK`: the queue has no
duplicates and holds exactly the waits not handed a permit), then counting
(`HoldersMove` says how each step changes the holders, `Sizes` and `HandOverSize`
what that does to their number), and from both the step simulation: each step is a
step of `FairGate` or a stutter.

**`ForwarderProofs`** (from `CancellationAssumption`). `TypeCorrect`, `NoneMissed`
(NoMissedCancel), `NoneFalse` (NoFalseCancel), `CleanEnds` (CleanEndIsComplete),
`Renamed` (RenamedUnlessCut). `NoMissedCancel` needs to know who
will notify: between the swap of the flag and `notify_waiters` there is exactly one
notifier (`NotifierOK`). And it needs the order in `cancelled()`: a watcher that
waits made its `Notified` before any notification (`WatchersOK`). The two about
bodies hold for a text of any number of lines and any cuts. `BodyInvariance` says
that the pieces sent are those of the text, in order; that a line all of whose
pieces were sent is renamed and undamaged, or a cut lies inside it; and that an
answer is `Ok` only with the whole text, or with none of it where the body was not
streamed.

**`HostLeaseProofs`** (from `LeaseAssumption`: the limits are ordered, the default
lies within). `TypeCorrect`, `Granted` (GrantLasts). `TtlClamped` bounds every ttl
asked for. Before the unit is verified it may have died at birth, so `LeaseCounts`
says that the time left and the time gone make up the ttl *or* nothing is left,
until the verification excludes the second; `SinceOK` says which program points can
speak of a unit of their own. A renewal by another helper ends the first one's
claim (`NobodyHolds`) and the other helpers' reads disturb none (`BystanderSteps`).

**`SshTunnelProofs`** (from `TunnelAssumption`). `TypeCorrect`, `NoneLeaked`
(NoLeakedTunnel), `AtMostOne` (OneTunnel). Every live ssh has an owner, the
manager's slot or the local variable of a call. A call owns one exactly while it
sleeps in `create_tunnel` (`FreshWhileAsleep`), which it does with the lock held and
the slot empty (`SlotEmptyWhileMaking`), so there is one owner at a time. What is
owned has not been reaped (`OwnedNotReaped`), so that finding the old ssh exited
leaves nothing alive.

**`HostHelperProofs`** (no assumption). `TypeCorrect`, `Served` (ReadyWasServed).
The proxy hears of success only through the exit of a helper at `Ok`, so the
strengthening is about that helper: if the session that started it still listens,
the expected model was served during it (`OkWasServed`).

**`OrchestratorProofs`** (from `OrchestratorAssumption`: finitely many requests, at
least one slot and one cold permit). `TypeCorrect`, `Outcome` (OutcomesCounted). The first says that the permits in
use are within their limit and gone with the response, and that the scheduler has
exactly the requests being executed. It needs the gate to have nobody twice
(`GateOK`), since leaving it would otherwise leave a copy behind; `Admits`, `Leaves`
and `Quits` say what the gate's operations do to the set of requests it has, and
`MovesKeep` serves every step that takes a request to another program point.
`Outcome` is by counting: a step leaves alone what became of its request, or is its
first outcome and moves one counter, or notes it as uncounted (`Settles`); `CountInv`
adds that a request noted has an outcome, so that none is noted twice.

**`AdmissionProofs`** (from `ConfigurationAssumption`, `DefaultsAreStrings` and
`AdmissionAssumption`: the variables of an environment are read as texts and
numbers, an optional path has one value at most, a list of calls is empty or not;
and from `BodiesAssumption`, below). `TypeCorrect`,
`ExactlySupported` (AdmitsSupported), `ReachesServer` (ReachesVerifiedServer),
`StatusComplete` (StatusShowsModels), for every environment and body. The invariant
is that an answer is the verdict of the request's own handler; `NoneRefuses` turns a
sequence of early returns into the conjunction of its conditions, `Agrees` says that
the separate matches on the kind and the optional backend choose alike.
`TypeCorrect` is about what `from_env` makes of any environment: every number is in
the range its reader allows, and the two limits are ones a semaphore can have.
`Advertised` (AdvertisedAccepted) needs `BodiesAssumption`: among the bodies there
is a supported one for every model that an environment makes the proxy advertise.

**Model-checked only.** Every invariant a run checks is also proved. What stays with
TLC is liveness and fairness, for which there are no proof rules here: `Recovery`,
`EveryCallAnswered`, `BootTaskEnds`, `EveryRequestEnds`, `HelperEnds`,
`ObservedReady`, `TunnelRepaired`, `QueueMoves`, `CancelNoticed`, `LeaseEnds`, and the
fairness part of `ImplementsGate` (its safety part is `WarmSchedulerProofs.Refinement`).

## 6. What is not modelled

- Error formatting, logging, container and chart files: no state, or data only.
- The bytes of the Wake-on-LAN packet, JSON and HTTP. Every line of a body in
  `Forwarder` is a JSON value of its own; one spread over several lines, which the
  code does not rename, is left out.
- `status` of the helper: it reads, and its answer only refreshes displayed fields.
- The counters of requests received and the metrics snapshot, whose relaxed loads
  promise nothing about each other.
- Configuration that is only passed on: addresses, paths, provider names.
- An explicit clock. How long a boot may take from a wake-up recorded earlier, and
  that no budget bounds ssh and the helper, is about durations; `Lifecycle` allows
  every order in which deadlines pass, `HostLease` counts time where it decides.

## 7. The order of the work, and what could follow

Modelled, in this order: `Lifecycle` and its proofs (the most important behaviour),
`WarmScheduler`, `FairGate` and proofs, the token, `HostHelper`, `SshTunnel`,
`Orchestrator`, then `Forwarder` on the token, `HostLease`, `Configuration` and
`Admission`, the proofs of all of them, and `BackendGate` between `Lifecycle` and
`Orchestrator`.

What could follow:
1. `BootClock`: the bootstrap with an explicit clock of about a dozen ticks. Boot
   deadline counted from `last_wake_attempt_at`, success after the deadline.
2. `Backend`: `Lifecycle`'s owner, `SshTunnel` and `HostHelper` composed, to ask
   which crashes of a server behind a live tunnel are ever noticed. Today their
   contracts meet in the answers `Lifecycle` allows: `ObservedReady` is
   `ReadyWasServed`, `TunnelReady` and `TunnelDown` are the ends of `ensure_tunnel`.
