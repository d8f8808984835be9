# Babel Gateway in TLA+

The gateway takes a request for an operation (`echo`, `sum`, ...), finds a backend that has it, speaks that
backend's protocol (HTTP/JSON, framed TCP, CRC-checked UDP) and answers. This directory models the parts of it
where order, failure and concurrency matter, checks them with TLC and proves the most important invariants with
TLAPS. Paths below are relative to the repository; line numbers are those of the modelled commit.

## 1. The system

The gateway is one asyncio process. A coroutine runs without interruption between two real suspensions, and an
`asyncio.Lock` that guards a body without a suspension is never contended, so it never suspends either: of all the
locks in the code only the migration lock, which is held across a backend call and a drain, is ever waited for.
That is what makes the atomic steps of the models below large, and it is stated at the head of each module.

| Component | State | Operations | Works with |
|---|---|---|---|
| Circuit breaker, `core/circuit_breaker.py` | state, failure count, time of the last change, probe flag, per service | `allow_request`, `record_success`, `record_failure` | called by the router around each call |
| Router, `core/router.py` | the locals of each `execute_request`: deadline, candidates left, last error | `execute_request`, `refresh_health` | reads the registry, uses breakers and the adapter manager, awaits adapters |
| Adapter manager, `adapters/plugin_loader.py` | adapters, descriptors, previous ones, in-flight counts, drain events, all by service and version; migration locks | `register_adapter`, `remove_adapter`, `rollback_adapter`, `acquire_adapter`, `wait_for_drain`, `configure_from_registry` | used by router, admin API and start-up |
| Admin API, `admin/migration_api.py` | locals of each handler across its awaits | `handle_adapter_load`, `handle_adapter_rollback`, `handle_protocol_migration` | adapter manager, registry, a backend for validation |
| Registry, `core/registry.py` | service entries (status, version, metadata) and their JSON file | `load_state`, `save_state`, `update_status`, `update_version`, `update_metadata`, `register_service` | the file system |
| Process and health monitor, `main.py` | the task of the monitor | start, stop, periodic `refresh_health`, HTTP handlers | all of the above |
| Adapters A, B, C, `adapters/service_*.py` | none between calls (C: its transport) | `execute`, `health` | the backends |
| Reliable UDP, `protocols/udp_reliable.py` | RTT estimate, semaphore, a queue per exchange | `send_and_receive` | adapter C |
| Identifiers, `core/request_ids.py` | two counters | `next` | adapters B and C |
| Plugin subprocess, `adapters/subprocess_proxy.py`, `plugin_worker.py` | none | one process per call | admin API, router |

What is hard: outcomes that reach a breaker long after the call was admitted; timeouts that leave it unknown
whether a backend ran, or will run, an operation; fallback to another backend; admin handlers that read state, await
a backend and write what they read; a switch of versions amid requests; writes that fail after memory has
changed; restarts that rebuild everything from one file; a file that is replaced while the process or the power may
fail; requests whose bytes may or may not have left when an error is raised; datagrams that are lost, repeated and
late; two timers of one length over one call. `PROJECT.json` lists these hazards at their lines, with the
properties that cover them.

What makes each component correct:

- breaker: it decides by the history of reported outcomes, at most one probe between reports, it recovers;
- router: an operation runs on at most one backend, a success is real, a refusal is final, every request is
  answered, every adapter is released;
- adapter manager: exact in-flight counts, descriptors that stay with their adapters, drains that are real;
- admin API: migrations are serial, active versions are served, an answer says what happened, a restart brings back
  what was in service;
- registry: memory and file change together or not at all, the file can always be read;
- adapters: an error that allows a fallback is only raised for a request that did not run and never will;
- UDP transport: no answer is taken for another's, no permit is lost, samples are unambiguous, the timeout stays within
  its limits, every exchange ends;
- identifiers: never zero, and the same again only after all others;
- health monitor: no status is set from news older than a timeout, none of a former process is served on, what
  lasts is known in the end;
- plugin calls: a cancelled call never runs later, threads come back.

## 2. Modules

| Module | Models | Theorems |
|---|---|---|
| `CircuitBreaker` | the breaker's record and its methods as functions | (lemmas in `Router_proofs`, `BreakerCallers_proofs`) |
| `BreakerContract` | abstract specification: admission by the history of reports | |
| `BreakerCallers` | one breaker under concurrent callers; implements `BreakerContract` | `BreakerCallers_proofs` |
| `Router` | `execute_request` of concurrent requests over breakers and backends; implements `CallContract` towards the client | `Router_proofs` |
| `AdapterManager` | what the manager's dictionaries hold for one version, and its methods as functions | |
| `AdapterAdmin` | the admin handlers, registry entry and file, adapter manager, client requests, restarts; implements `VersionSwitch` | `AdapterAdmin_proofs` |
| `VersionSwitch` | abstract specification: what a migration promises of the active version | |
| `CallContract` | abstract specification: what a call of an adapter promises its caller | |
| `StreamCall` | `execute` of adapters A (HTTP) and B (TCP) under the router's timer; implements `CallContract` | `StreamCall_proofs` |
| `UdpExchange` | `execute` of adapter C and `send_and_receive` over a faulty network; keeps `CallContract` unless the backend runs one copy of a request and rejects another | `UdpExchange_proofs` |
| `PluginCall` | `invoke_plugin_worker`, the executor's threads and the worker; implements `CallContract` | `PluginCall_proofs` |
| `RequestIds` | the allocator of identifiers under threads | `RequestIds_proofs` |
| `AtomicStore` | abstract specification: a store whose updates are whole | |
| `RegistryStore` | the registry and the steps in which its file is replaced; implements `AtomicStore` | `RegistryAndHealth_proofs` |
| `HealthMonitor` | `refresh_health` under the lifespan, the monitor and `GET /status` | `RegistryAndHealth_proofs` |
| `MC*` | the finite instances for TLC | |

`CircuitBreaker` and `AdapterManager` have no variables: each method of those classes is atomic, so the modules that
use them apply its function inside their own steps, as the code calls it inside its own coroutines. `Router` extends
the one and `AdapterAdmin` the other. Mutated definitions, marked `Mutant` in their comments, stand beside some
definitions. No specification uses them: they say what each property would catch.

### CircuitBreaker, BreakerContract, BreakerCallers

`Admits` is the result of `allow_request`, `Admitted` its effect when it returns True. `last_state_change` is
represented by `age`, the difference that the code compares with `recovery_time_s`, counted up to it. In
`BreakerCallers` a caller is admitted (router.py:149-150), stays away for any time, and reports, or leaves without
reporting (`Abandon`), which three paths of the router do. The history variables count failures since the last
success (`streak`), ticks since the last failure (`quiet`) and admissions since the last report (`probes`).
`BreakerContract` knows nothing but that history; `ImplementsContract` says that the code's machine is one of its
behaviours, and `DecidesByHistory` that it refuses nothing else: with the first alone a breaker that never
admits would do.

### Router

A step is a pass of the candidate loop up to `await adapter.execute`, or one way out of that await. `Call` hands the
request to the backend (`sent`); the backend may run it at any later moment (`BackendRuns`, external), also after
the gateway has given up waiting; an error that is safe to fall back from takes it out of `sent`. That adapters set
`safe_to_fallback` only for an operation that does not run is the contract written at `adapters/base.py:20-21`, and
the one assumption about them; `StreamCall` and `PluginCall` are shown to keep it, and `UdpExchange` to keep it but for one case
(section 4). All seven ways out of a call are separate actions, named for their except clause. `AdapterFailures` lets an
`AdapterError` carry every combination of the two flags and any code of `AdapterCodes`, which the router relays as it is: an
adapter may use the very codes that the router gives to what it refuses itself. `left` counts the request's budget down in
ticks. The timer of a call cancels it (`TimerFires`); the call ends when the adapter lets go (`CallTimesOut`), which
an adapter that closes a connection need not do in time. `HealthResult` writes any status at any time,
which is more than stale probes can do. The version of a registry entry does not change in this module; a change
between listing and call is a matter of `AdapterAdmin`.

The gateway is itself something that is called and answers: `Held`, `Ran` and `Verdicts` map a whole request to a call of
`CallContract`, and `ImplementsContract` says that its reply is a success only for a request that ran, and an error
of a request which no break has stopped (unknown operation, nobody available, no candidate left to try, budget spent between two
candidates) only one for a request that no backend can still run. `Verdict` goes by where `execute_request` returns and not by the code of the
answer, which does not tell: `BACKEND_UNAVAILABLE` is also relayed for a request that was dispatched and may run (section 4).

Letting other requests act between two passes of the loop is more than the code allows; a property of all behaviours
of the model is one of all behaviours of the code.

### AdapterManager, AdapterAdmin

One service with several versions. `slots[v]` is what the six dictionaries hold under (service, v). The handlers'
stretches between awaits are their actions:

| Code | Actions |
|---|---|
| `handle_adapter_load`, before and after start and canary of the plugin | `LoadBegins`; `LoadRejected`, `LoadCommits`, `LoadNotPersisted` |
| `handle_adapter_rollback` (no suspension) | `RollsBack`, persisted or not |
| `handle_protocol_migration`, before and after the validation, and its drain | `MigrationBegins`; `MigrationRejected`, `MigrationCommits`, `MigrationNotPersisted`; `Drained`, `DrainTimesOut` |
| listing and `acquire_adapter` of a request, and its end | `Lists`, `Enters`, `GivesUp`, `Exits` |
| `lifespan`: a crash or an orderly stop, then `load_state` and `configure_from_registry` | `Restart` |

A load's and a migration's copy of the entry, and their lookups of adapters, are kept in `load` and `migration` and
used after the await, as the code does. A write of the file happens wholly or not at all: the code writes a temporary
file and renames it; and a restart is taken to read it (`RegistryStore` has the one that cannot). When a write fails the registry puts the old entry back (`NotPersisted`), and the handler's own
clean-up is part of the same action. `waits` and `disturbed` are history variables: the requests a drain waits for, and
whether, since the last faithful restart, a handler began amid another one, or changed the adapters without writing it
and without being able to take it back. `None` is Python's `None`
and an absent key.

The waiter of a drain is woken through a future: the event may be cleared again before the waiter runs, so
`woken` belongs to the migration and not to the slot.

`VersionSwitch` leaves all of it out but the active version, the one migration under way and the requests inside a version:
the version changes only by `Switch`, from the version the migration was accepted against to the one it was asked for, under
one migration at a time; loads, rollbacks and failed writes are stutters; a restart gives up the migration and keeps the
version; and "drained" is reached only when every request that was inside the old version at the switch has left.
`Current`, `Stage` and `Switching` are the mapping.

### CallContract, StreamCall

`CallContract` has for each call whether the backend has, or may yet receive, its request (`held`), has run it
(`ran`), and how the call ended. `FailSafely` takes the request out of `held` for ever: that is what the router's
fallback needs. It is the interface between `Router` and the adapters; no module composes the two state machines,
because `Router` uses of an adapter nothing but this contract.

`StreamCall` has a call's place in `execute` (`pc`), its local flag `dispatched`, the caller's timer (`left`,
`cancelled`) and, beside them, what became of the request's bytes (`link`), the answer and `ran`:

| Code | Actions |
|---|---|
| operation, version and size checks (service_a.py:45-53, service_b.py:52-76) | `Refuse` |
| opening the client or the connection; the frame written | `Connect`, `Connected` |
| `httpx.ConnectError`, `OSError` of `open_connection` | `ConnectFails` |
| the checks of an answer, and how its error is classified | `Reads`, `OutcomeOf` |
| `httpx.RequestError`, `IncompleteReadError`, `ConnectionResetError`, `OSError` | `Breaks` |
| the adapter's own time-outs | `TimesOut` |
| `asyncio.timeout` of router.py:166 | `Cancels` |
| `finally: writer.close(); await writer.wait_closed()` | `Leave`, `Closes` |

An answer is one of four kinds, by what the checks and the `except` clauses make of it. That A raises its flag before it
connects and B after it has written is in `Connect` and `Connected`. `wait_closed` waits only as long as the
transport still has bytes of the frame (`Closable`). A task is cancelled once: what its `finally` clause awaits after
that is not timed, and `Tick` lets time pass there. Elsewhere a due timer runs before time goes on: the event loop
is taken to be never late by a whole tick.

External: `Arrives`, `Runs`, `Answer`. A backend that rejects a request does not run it, nor the other way round; that is
the assumption about the backends. It may run a request whose connection is gone.

### UdpExchange, RequestIds

An exchange waits for a permit (`Acquire`), opens an endpoint and sends a copy (`Open`), reads datagrams
(`Read`, with `validate_packet` in `Valid`), gives an attempt up and sends another (`Expire`), and ends in `Finish`, the
`finally` clause. `permits` and `rto` are shared. The network may lose, keep, delay and reorder any datagram, put foreign
or broken ones into a queue (`Disturb`), and hand an answer to a later exchange that has got the same port
(`Deliver`); the queue drops what it has no room for. The backend may run or reject each copy
of a request anew (`Serve`; `rejected` is history): nothing in the repository says that it recognises copies. `AnswersAreOwn` says
what the adapter owes all the same: a result is one of its own request, and an error called safe is of a request that was not
run, or of which the backend itself has rejected a copy. The whole of `CallContract` does not hold (section 4).

How a sample moves the timeout is left open (anything within the limits); a back-off doubles it as in the code. `RequestIds` is the reason why an exchange
stands for its identifiers: it takes `next` apart into its statements, under the lock, and remembers the last
2^bits - 1 results. The gateway draws from the one thread of its event loop; several threads at once are what the class promises and
`tests/unit/test_request_ids.py` uses.

### PluginCall

The caller awaits a job of the executor. `Cancel` is the router's timer: it takes the job out of the queue, but a thread
that has the job goes on, and `subprocess.run` counts its own timeout from when the thread began (`Begin`, `Kill`). How a
child may end is `Ends`; a plugin is taken to keep the contract of an adapter itself.

### AtomicStore, RegistryStore

`AtomicStore` has what the gateway answers with, what a restart would load and what it would load after a loss
of power. `RegistryStore` has the memory and the two files. Each of the four steps of `_persist_unlocked` is an action, any
of which may fail (`Fails`, with the restoration of the memory in the same step, since nothing is awaited between), and a
crash or a loss of power may come between any two. `Update` ranges over every result of the four updating methods, each of which
changes one entry (`ChangesOne` in the contract). `load_state` swallows every exception, so a start may also fail to read a good
file and go on with the defaults over it: `StartBlind`, and `RestartBlind` in the contract, which says what then is lost
(section 4).
While an update is in progress the registry answers with `before`: the lock keeps readers out, so the mapping
hides what they cannot see.

The file system is modelled as POSIX has it: what is written is visible at once and survives a loss of power once it
is synced; a rename is visible at once, settles later, and is never seen half done. The rename itself is not
synced by the code (no `fsync` of the directory): that is why `durable` in the contract may lag behind `stored`.

### HealthMonitor

`Begin`, `Probe` and `WriteStatuses` are `refresh_health`; the results of one refresh are kept in `found` until its slowest probe
is over and are then written in one step, because the writes suspend nowhere. The lifespan's refresh lets the
gateway serve; the monitor's and those of `GET /status` overlap. `unwritten`, `sinceUp` and `sinceDown` are
history. A backend that is up answers a probe in time.

## 3. Runs

All passing runs are exhaustive within their bounds.

| Run | Instance | Shows |
|---|---|---|
| `breaker_callers` | 3 callers, threshold 3, recovery 2 | one breaker's exact decision, its contract, and when it recovers |
| `router_safety` | services B and C with the default capabilities and priorities, 2 requests, 3 asks, 2 codes of adapters, budget 1, threshold 1 | fallback never duplicates, counts and breakers stay right, the gateway keeps `CallContract`, every request is answered unless a cancelled call never lets go |
| `router_retry` | 1 service, violation | see section 4 |
| `admin_requests` | 2 versions, 1 plugin, 1 load, 2 migrations, 1 client with a request at a time, failing writes, lost plugins | in-flight counts, drains, memory and file, descriptors and adapters, faithful restarts, an adapter for every version a request may be routed to, `VersionSwitch`, the lock comes back |
| `lost_adapter` | 1 load, 2 migrations, failing writes, violation | see section 4 |
| `lost_descriptor` | 2 loads, violation | see section 4 |
| `stream_calls` | 1 HTTP call, 1 TCP call, budget 2 | safe errors are safe, calls are late only to flush, the contract |
| `udp_exchanges` | 2 exchanges, 1 permit, queue 1, budget 2, timeout 1 to 2, `NetSize` 1 | unambiguous samples, permits, own answers only with late ones on a re-used port, every exchange ends |
| `registry_store` | 2 services, 2 statuses, 2 versions | the file is readable, updates are atomic and of one entry, also after a start that could not read the file |
| `health_monitor` | 2 backends, the monitor and 1 `GET /status`, timeout 1 | fresh statuses, serving on own findings, what lasts is known |
| `plugin_calls` | 2 calls, 1 thread, budget 2 | the contract, the bound of an overrun, threads come back |
| `request_ids` | 2 threads, 3 bits | distinct identifiers over several wraps |

Why these bounds are enough to be interesting. Three callers are one that trips the breaker, one that probes
and one whose outcome comes late; threshold 3 separates a first, a middle and a tripping failure; recovery 2
separates too early from soon enough. Two services make a fallback, and two requests make each meet a breaker or a
count that the other left; the two codes of adapters are the one that the router compares and one that it also gives
itself; the routers' breakers trip at the first failure, so that the second request is a probe or a
late outcome within two requests. Two migrations make the lock matter; a client that leaves and comes back makes a drain whose event is
set and cleared again before its waiter runs; a
plugin that is loaded over the built-in adapter, or over itself, gives a rollback either kind of adapter to restore.
Three other instances pass too: the safety properties of `admin_requests` (`SPECIFICATION Spec`, `SYMMETRY CallerSymmetry`) with two
plugins and no client (`Plugins <- MCPlugins`, `Users <- MCNobody`, 421,378 states) and with two clients, so that one leaves a
version that another is in or enters (`Users <- MCUsers`, 677,441 states), and all its properties with three versions and two clients but no load
(`Versions <- MCThreeVersions`, `Users <- MCUsers`, `Loads <- MCNobody`, `Unloadable <- MCNobody`, 8,258 states); the proofs are of every number
of clients. One call of each
stream adapter shows all of them, since calls share nothing but the clock; budget 2 separates a timer that is due from
one that is not, before and after connecting. Budget 2 with a timeout that backs off from 1 to 2 makes exchanges of
two copies and of one, queue 1 is full after one stray datagram, `NetSize` 1 leaves two answers to the
copies of one request in flight, and one permit for two exchanges makes the
second use what the first gave back. Two services, one of them registered later, tell an update of one entry
from that of all; the rest of an entry (`Metas`) has one value in the run, since it is copied and put back like the
version, and any number in the proof. Two plugin calls on one thread make one wait. Three bits make the counter
wrap within a few calls. The threads of `request_ids` are interchangeable and used as a
symmetry set; runs with liveness properties use none.

## 4. Where the code does not do what the repository says

Three runs end in a violation. Each checks one sentence of the repository that the code does not keep:

- `router_retry`: a probe that ends without an outcome (no adapter for the preferred version, an unsupported
  operation, an error that is neither retryable nor a protocol error) leaves the breaker half-open with its probe
  flag set. Every later request gets `CIRCUIT_OPEN`, `retryable: true`, and no retry will ever be admitted.
  `NeverStuck` in `breaker_callers` shows the other side: this is the only way in which a breaker gets stuck.
- `lost_descriptor`: two overlapping loads of one service; the second to finish writes the descriptors it read before
  the first finished. The first plugin serves on, without a descriptor in the registry.
- `lost_adapter`: a load that found no adapter for its version when it began cannot write its descriptor, and removes the version's
  adapter (migration_api.py:223, 252-253), though a migration has published one there in the meantime and made the version
  active. The answer says that the existing adapter was retained (migration_api.py:267). `SerialRoutesServed` in
  `admin_requests` shows the other side: while handlers do not overlap, every version that is active or was listed for a
  request under way has an adapter, whatever fails.

The models have the steps of further divergences, and the properties are stated so as to be true of the code in spite of
them:

- A load's descriptor cannot be saved, and the roll-back of the registration is refused because a request is already
  inside the version (migration_api.py:252-255). The answer says that the existing adapter was retained
  (migration_api.py:267). `LoadNotPersisted` sets `disturbed` then; when nobody is inside, `SerialRestartIsFaithful` shows
  that the roll-back is a complete one.
- A rollback whose metadata cannot be written is answered as persisted (migration_api.py:300-308). `RollsBack` sets
  `disturbed` then.
- A TCP call that was cancelled at its deadline still waits, without a timer, until the peer has taken its frame
  (service_b.py:173-179): the request is answered late, or never. `LateOnlyToFlush` says that nothing else makes a call late, and
  `EveryRequestAnswered` that nothing else leaves a request without an answer.
- A child process starts its full timeout when a thread takes its job (subprocess_proxy.py:16-26), and runs past its
  caller's deadline by the time the job has waited. `OverrunIsTheWait` says that it is never more.
- A request too large for a frame is reported, and counted by the breaker, as an invalid response
  (service_b.py:68-69, service_c.py:68-69).
- A start that fails to read a good file, for whatever reason, goes on with the defaults (registry.py:121-138), and the next
  write of a status puts them over the file, with every acknowledged change in it. `RestartBlind` is that start: the
  updates after it are whole, but of other contents than the file's.
- A backend that decides about each copy of a datagram anew may run the first and reject the second, and the adapter calls
  the error safe (service_c.py:164-169), against base.py:20-21: the router falls back and the operation runs twice. Nothing in
  the repository says that Service C recognises copies, and docs call the deduplication of retransmissions the gateway's
  own duty (protocols/gateway-api.md:152). `AnswersAreOwn` shows that this is the only way in which an error of adapter C
  is safe for a request that ran; `CallContract`, as a property of `UdpExchange`, is violated in this very way.
- `BACKEND_UNAVAILABLE` is what the router answers when it has not called anybody (router.py:118-127), and what it relays from an adapter
  whose connection broke after the request had left (service_a.py:154-160, service_b.py:164-170, service_c.py:182-189,
  router.py:207-216). The client cannot tell the request that never runs from the one that may. `RefusedNeverRuns`
  therefore goes by the place where `execute_request` returns.
- Lost answers back the timeout that all exchanges share off to 2.0 s, the default budget of a request
  (udp_reliable.py:32-33, config.py:9): an exchange that then loses its one copy is not retransmitted.

## 5. Fairness

All fairness is weak: none of these steps competes with another for being enabled.

- `breaker_callers`: time passes, and a caller reports in the end unless it leaves without a report, which every caller may do at
  any time (`Abandon`; a call that never comes back counts as one that has left). `NeverStuck` excepts the states in which
  every caller has left and a probe was not reported.
- `router_safety`, `router_retry`: time passes, the event loop runs a request that can go on (`Routes`), and
  `asyncio.timeout` cancels a call that is due (`TimerFires`, router.py:166). Nothing obliges a backend to run, an adapter to
  answer, a cancelled adapter to let go (`writer.wait_closed` has no timer, service_b.py:173-179), or a status to change:
  `EveryRequestAnswered` excepts a request whose cancelled call never ends.
- `admin_requests`: a validation and a drain each end by their timeout (migration_api.py:107-110,
  plugin_loader.py:176-182). Nothing is asked of requests, which may stay inside an adapter for ever.
- `udp_exchanges`: time passes and the timers of an exchange run (`OutOfBudget`, `Expire`); nothing is asked of the network,
  the backend or the semaphore.
- `health_monitor`: the event loop runs the monitor, its probes and their writes, and the process is started again after it
  stops; nothing is asked of `GET /status`. The premise of `EventuallyKnown` (the backend, the file and the process
  stay as they are from some time on) is part of the property.
- `plugin_calls`: time passes, `subprocess.run` kills at its timeout, the event loop resumes callers; a plugin may
  never answer.

## 6. Proofs

Proved with TLAPS for every value of the constants, under the named `ASSUME`s of the modules: thresholds and
budgets are positive, `None` is none of the other values, requests, services and users are finite sets (for counting, and for
there to be a first candidate), priorities are integers, the
registry's tables are total, plugins are distinct from the built-in adapter. TLC evaluates the assumptions in the runs.

- **Breaker.** `HistoryInv` determines every field by the history: closed if and only if the streak is below the
  threshold, and then the count is the streak; while it is open the age is the quiet time and nothing was admitted since
  the last report; while it is half-open exactly one call was. `SingleProbe` and `DecidesByHistory` are not inductive by
  themselves, since an open breaker with a wrong age would break them in one step; `HistoryInv` is, and they follow
  from it. The refinement of `BreakerContract` maps every step to a contract step or a stutter under the invariant.
- **Router.** `NoDuplicateExecution` is not inductive: a request with two backends in `sent` violates it one step
  later. `RouteInv` adds that a request is held by no backend but the one tried last, by none while it is being routed,
  and that its in-flight accounting is exact. The proof sorts the actions by their effect on one request (entering,
  passing over a candidate, calling, ending, falling back) and treats each sort once. Breaker consistency follows
  from the lemmas about the methods. The refinement of `CallContract` maps `Call` to `Dispatch` (a stutter from the second
  candidate on), `BackendRuns` to `Run`, and each way of ending to `Return`, `FailSafely` or `Fail`, by the place where the loop is left; what it needs of
  `RouteInv` is that nothing holds a request that is being routed. All of it rests on the adapters' contract, which adapter C breaks in
  the one case of section 4. `LoopIsDetermined` is about the candidates: `Before` is a strict
  total order (identifiers break ties), a finite set has a first one in it, so `IsNext` picks exactly one service as long as any is
  left: the successive choices of the loop are the sorted list of the code.
- **Administration.** `AdminInv` adds to the types, to `DurableRegistry`, `DescriptorsMatch` and
  `MigrationReplacesWhatItRead` the facts about the locals of handlers amid an await that the proof needs: whoever
  migrates holds the lock, and the candidate of a migration still has its own descriptor. `DrainInv` is inductive relative to
  it: a set event means that nobody is inside, and those a migration waits for are inside. Steps that neither enter
  nor leave are shown once to keep both. Two more invariants rest on `AdminInv`. `SerialInv` is about handlers that ran one
  at a time: the registry's descriptors are those of the slots and the active version has an adapter; what a handler read
  before its call to the backend is still so; one handler at most is amid such a call; and nobody is inside a version without
  an adapter, so that a removal is never refused to a handler which takes its change back. `SerialRestartIsFaithful`
  follows from it. `ServedInv` says that the active version and every listed version have an adapter, and that a migration
  which may take its target's adapter away again has a target nobody was listed with. `SerialServed` says so of handlers that
  did not overlap, with loads, rollbacks, failing writes and restarts; it is inductive relative to `AdminInv` and
  `SerialInv` and gives `SerialRoutesServed`. The run `lost_adapter` shows that it is false of handlers that do.
- **Version switch.** `VersionRefinement` maps every step of `AdapterAdmin` to one of `VersionSwitch`. Beside `AdminInv` (the
  version replaced is the one read, a restart finds every change on disk) and `DrainInv` (the event is not set when a wait
  begins, and a wake-up finds nobody left to wait for) it needs `HolderInv`: the lock is held only for a migration under way, and
  only a wait for a drain has somebody to wait for and can be woken.
- **Stream adapters.** `SafeNeverRuns` needs to know where the bytes are when an error is raised. The inductive invariant
  ties `link` to the place in `execute`: nothing was sent before `Connected`, a result answers a request that ran, a
  rejection one that did not, and an outcome that is safe left either no bytes or a rejection. The refinement of
  `CallContract` is one lemma per action: a step of the adapter maps to `Dispatch`, `Return`, `FailSafely`, `Fail` or a
  stutter, one of the backend to `Run` or a stutter. `LateOnlyToFlush` is not inductive:
  `TimersInv` adds that only a cancelled call is late, that a cancelled call is in its `finally` clause or over, and that only TCP
  calls wait there.
- **UDP exchanges.** The invariant adds to the types that every datagram in flight or in a queue belongs to a copy that was
  sent, that an answer in flight says what the backend did with some copy of that request, and that the counted permits are those held. `PermitsExact` is proved with the cardinality of the set of holders,
  step by step; `AnswersAreTrue` is what holds of the adapter's contract. The contract itself is not a theorem: it is false
  (section 4).
- **Plugin calls.** `PluginInv` is `JobInv` (a job waits for a thread only while its caller waits for it; what is refused or
  withdrawn has not run, and a child's result is of a request that ran) and `ClockInv` (what is left to a running child, plus
  what it has overrun, is what is left to its caller plus the time that its job waited for a thread). `OverrunIsTheWait` and the refinement of `CallContract` follow.
- **Health monitor.** `MonitorInv` says who may be refreshing in which phase, that what a probe has found is no older than the
  probe has been running, and that the ages fit the backends' present state. Both action properties follow from it: at the write
  of a status the probe is at most one timeout old, and the lifespan's refresh has findings for every backend when it ends.
- **Registry file.** The invariant says for each step of persisting what the temporary file holds and whether it is
  synced, and that the file at its path is always a synced registry or absent. Hence a restart that reads it, also after a
  loss of power, loads a registry that was stored whole, and `Replace` is the one step that commits. That a commit changes one
  entry, from what the gateway answered before, is `OneApart` of the memory and the registry put by, also after a start that
  could not read.
- **Identifiers.** The last results form a run of consecutive numbers modulo the wrap that ends just before the
  counter; a run no longer than 2^bits - 1 has no repetition. Neither half of `DistinctNonZero` is inductive without it.

Six inductive invariants are checked by the runs as they stand, in place of their conjuncts one by one: `HistoryInv`
(types and every field of the breaker; `BreakerConsistent` follows from it), `RouteInv` (with `Router.TypeOK`), `AdminInv`
(with `AdapterAdmin.TypeOK`, `DurableRegistry` and `MigrationReplacesWhatItRead`), `DrainInv` (with
`AdapterAdmin.InFlightCounts` and `DrainIsReal`), `PluginInv` and `MonitorInv` (each with the types of its module). The conjuncts named
here are theorems of their own. `RequestIds.TypeOK` is proved and follows from the range of `Masked`, so no run repeats it.

Checked by TLC alone: the liveness properties (`NeverStuck`, `EveryRequestAnswered`, `LockComesBack`, `EveryExchangeEnds`,
`EventuallyKnown`, `ThreadsRecover`), which are out of the prover's reach. The three violated properties are false. Every
invariant, action property and refinement of the passing runs is a theorem.

## 7. Not modelled, and why

- Validation of requests and replies (`models/gateway_api.py`), HTTP status codes and the handlers of `main.py` that only
  translate, contents of messages, logging, settings: data or wording, without state.
- `_validate_adapter` and the loading of a plugin's module: they reject a candidate before any state changes
  (`LoadRejected`, `MigrationRejected`).
- Byte layouts of the two binary protocols: a check of a header either accepts or refuses (`Answers`, `Valid`).
- The floating-point arithmetic of the round-trip estimator (udp_reliable.py:22-30): a sample moves the timeout anywhere
  within its limits.
- Client, demo, example plugins, tests.
- Cancellation of a handler by the server: `async with` releases as on any other path; the breaker would see a call
  without an outcome, as in `Abandon`.

## 8. What is left

Nothing of the plan. What could be added: the reply texts of the admin handlers (so that the divergences of section 4 about
answers become properties), and the arithmetic of the round-trip estimator in fixed point.
