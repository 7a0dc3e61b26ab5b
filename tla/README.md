# TLA+ models of the container runtime path

This directory holds TLA+ models of the concurrent parts of this repository.
They are checked with TLC:

- the Docker daemon's create path and libcontainerd client;
- the containerd supervisor the client drives (with an abstract specification it refines);
- grpc's client stream;
- the CLI's task table.

## The system

The repository is a trimmed Docker/containerd tree (11 Go files). `docker
run` goes through the following parts:

| Part | Source | What it does |
|---|---|---|
| CLI | `src/unnamed/part_000`, `src/vendor/github.com/spf13/cobra/command.go`, `src/cli/command/task/print.go` | Registers commands, finds the command for argv, and prints task lists. Sequential. |
| Daemon create | `src/daemon/create.go` | Validates the config, creates the container object, and cleans it up on any later error. |
| libcontainerd client | `src/unnamed/part_001` (container_unix.go) | `Create` → `container.start` registers a container and calls the `CreateContainer` RPC. One goroutine reads the shim's event stream and calls `handleEvent`, which hands `StateChanged` callbacks to the per-id serial queue `clnt.q`. |
| gRPC streams | `src/vendor/google.golang.org/grpc/stream.go` | The transport of the event stream and the RPCs. |
| containerd supervisor | `src/mergeCode/containerd/supervisor/{create,add_process}.go`, `src/unnamed/part_002` (stats.go) | One loop takes tasks from `s.tasks`. `start` hands work to a pool of start workers through `startTasks`. `addProcess` runs Exec inline. `stats` answers from a goroutine. |
| build router, install script | `src/api/server/router/build/build.go`, `src/hack/dockerfile/install-binaries.sh` | Static route table; build-time script. |

The parts interact as follows:

- Daemon create calls libcontainerd `Create`.
- libcontainerd talks over gRPC to containerd, whose supervisor starts the container.
- The shim's events come back over a gRPC stream to libcontainerd's event loop.
- The event loop reports them to the daemon through `backend.StateChanged`.

## Modules

### `Libcontainerd.tla` — the libcontainerd client (part_001)

**State.**

- `lock`: the per-id locks.
- `table`: `clnt.containers`.
- `disk`: whose `config.json` is in `<root>/<id>`.
- `ctr`: container objects, each with its `oom` flag and `processes`.
- `cr`: the Create goroutines, each with a program counter.
- `ready`, `ctxDone`, `stdin`: start's channels and the stdin close goroutine.
- `stream`: the shim's event stream, FIFO.
- `loop`: the event-loop goroutine.
- `q`: `clnt.q`.
- `notified`: the history of `backend.StateChanged` per id.
- `notifier`, `enClosed`: `clnt.exitNotifiers` (id -> the current notifier) and the notifiers whose channel is closed.
- `waiter`: consumers of an exit notifier, each with the id, the notifier and the container object it waits on.
- `sig`: callers of `client.Signal`, each with the id it signals.

Every Create call allocates a *generation* `g`, which names the container object it builds. Generations tell two incarnations of one id apart.

**Actions.** Each action is one step of one goroutine, between two points where another goroutine can run:

- **`CreateCall`, `CreateLock`, `CreateCheck`** (`client.Create`, which this tree carries at `vendor/github.com/spf13/cobra/command.go:1608-1661`): take the lock, refuse an active id, and prepare the bundle. Errors of `getRootIDs`, `prepareBundleDir` and `clean()` return before the deferred rollback is set up; errors of `MkdirAllAs`, `os.Create` and `Encode` go through it.
- **`StartOpen`** (part_001:95-157): read `config.json` (an error returns nil: line 98), open the fifos, install the stdin wrapper, and `appendContainer`.
- **`StartAttach`** (159-163) and **`StartRPC`** (165-172): an error closes the fifos and rolls back. On success the shim runs the container and `ready` is closed.
- **`StartNotify`** (174-183): the synchronous `StateChanged(StateStart)`. Its error makes Create roll back (`Rollback` = `clean()` + `deleteContainer`).
- **`StdinClose`, `StdinNotify`** (121-137): the wrapper and its goroutine. The goroutine waits for `ready` or the context, then re-checks `ready`.
- **`ShimEvent`, `ShimExit`, `AddProcess`**: the environment. The shim emits events of an acknowledged container in order.
- **`LoopRecv`**: the event loop receives an event and looks the container up by id.
- **`HandleEvent`** (197-249): under the per-id lock, it
  - builds the `StateInfo` (`StateOf`);
  - sets the sticky OOM flag;
  - on an init exit, runs `clean()` + `deleteContainer(e.Id)`;
  - on a process exit, runs `cleanProcess`;
  - appends the callback to `clnt.q` (`ApplyEvent`).
- **`QueueRun`** (227-243): runs the head callback of an id's queue, which calls `StateChanged`. For an event of type exit it then looks up the id's current exit notifier and closes it (`CloseExitNotifier`, command.go:1739-1747: once, close the channel, drop the map entry if it is still this notifier).
- **`SignalCall`, `SignalLock`, `SignalReturn`** (`client.Signal`, command.go:1697-1706): take the per-id lock, send the Signal RPC with `context.Background()` (no timeout), unlock. Nothing local changes; the shim's answer is not modelled beyond releasing the caller, since whatever the signal does comes back as a shim event.
- **`WaitExit`, `Released`**: a consumer gets or creates the id's notifier (`getOrCreateExitNotifier`, not under src/, modelled from the spec) and blocks in `wait()` (command.go:1749-1751) until its channel is closed.

`MCLibcontainerd.tla` fixes the model values. It adds `Idle`, a stutter step that is enabled once every goroutine has finished, so that deadlock checking stays on: a stop anywhere else is a real deadlock.

### `Supervisor.tla` — the containerd supervisor (create.go, add_process.go, stats.go)

**State.**

- `tasks`: `s.tasks`, bounded by `TaskBuf`.
- `sv`: the loop.
- `containers`: `s.containers` plus the runtime state.
- `procs`: exec'd processes.
- `startTasks`: bounded by `StartBuf`.
- `worker`: the start workers.
- `statsRun`: stats goroutines.
- `errCh`, `resp`: each task's `ErrorCh` and `StartResponse` channels.

**Actions.**

- **`StartHandler`** (create.go:32-58): `runtime.New`, then register the container.
- **`LoopSendStart`** (59-74): a blocking send to `startTasks`, then return `errDeferredResponse`.
- **`LoopExec`**, **`ExecDone`** (add_process.go:28-52): lookup, then Exec. On success: `monitorProcess`, `StartResponse`, return nil.
- **`StatsHandler`**, **`StatsDone`** (part_002:19-37): start the goroutine that answers `ErrorCh`.
- **`LoopTake`**: `handleTask` (modelled from the spec). It answers `ErrorCh` unless the handler deferred the answer.
- **`WorkerTake`, `WorkerStart`, `WorkerSendDelete`**: the start workers (modelled from the spec). On failure they answer the error and send a `DeleteTask` back through `s.tasks`.

### `TaskFuture.tla` — what the supervisor promises (spec 9)

This is an abstract specification. Every task is a future:

- it is fulfilled once, with nil or an error;
- a nil answer carries the task's result value (`StartResponse` or `Stat`), and an error carries none;
- every submitted task is eventually fulfilled, by weak fairness on `Fulfil`.

`Supervisor.tla` instantiates it through `TF == INSTANCE TaskFuture WITH ...`. The refinement mapping is:

- `submitted` is `1..nextTask-1`;
- a task's `answer` is the one value on its `ErrorCh`, and becomes `"many"` (no state of `TaskFuture`) once a second value is sent;
- `delivered` is the number of values on its response channel.

`ImplementsTaskFuture == TF!Spec` is checked as a `PROPERTY`. It replaces three separate properties: at most one answer, a response only with nil, and every task answered.

### `TaskPrint.tla` — `docker service/node/stack ps` output (`cli/command/task/print.go`)

**State.**

- `tasks`: the list the daemon returned. Any list of up to `MaxTasks` tasks over small sets of services, slots, times and nodes.
- `call`: which of `Print` and `PrintQuiet` ran.
- `out`: the rows written, as task ids with an indent flag.
- `result`: the error returned.

**Operators and actions.**

- **`Less`**: `tasksBySlot.Less`.
- **`SiftLeft`/`SortFrom`**: `sort.Stable`, which for fewer than 20 elements is an insertion sort. They are RECURSIVE operators over `Less` and `SwapAt`.
- **`Rows`**: the indentation rule of `print`.
- **`Unresolved`**: the stop at the first node that does not resolve. The rows before it are still flushed.
- **`PrintTasks`**: `task.Print`. (`Print` is a reserved word here.)
- **`PrintQuiet`**: writes only the ids.

Names, images, error texts, ports and times are formatting and are left out.

### `DaemonCreate.tla` — `daemon/create.go`

**State.** Two concurrent create requests, each with a program counter through:

`validate → new → secopt → layer → setup → todisk → register → done`

The shared state is:

- `names`: the name index;
- `registered`: the daemon's container store;
- `label`: the process labels;
- `layers`, `roots`, `disk`: RW layers, root directories and the on-disk config;
- `volumes`: the volume store.

Two pre-existing containers (`Existing`) can be joined for IPC and PID. One of them has a label and one has none.

**Operators.** Each mirrors the Go function's checks and their order:

- `VerifyNetworkingConfig` (including the IPv4/IPv6 address checks);
- `MergeAndVerifyConfig`;
- `GenerateSecurityOpt`.

**Actions.**

- **`Validate`**: `containerCreate` and `create` up to `newContainer`. These checks touch no shared state. The checks that live outside src/ (`verifyContainerSettings`, `adaptContainerSettings`, `mergeAndVerifyLogConfig`) succeed or fail nondeterministically.
- **`NewContainer`**: reserves the name.
- **`SetSecurityOptions`**, **`SetRWLayer`** (`setRWLayer`: the image-store lookup and `CreateRWLayer`), **`Setup`** (directories, host config, platform settings), **`ToDisk`**, **`Register`**: each can fail. A failure runs the deferred `cleanupContainer` (`FailAndCleanup`). `cleanupContainer` is outside src/. With `forceRemove` it always drops the name and the registration. Removing the root directory (which holds `config.v2.json`) or releasing the RW layer can then fail. `create` only logs that failure (create.go:111-112, spec 7), so the model lets `Cleanup` leave the root, the config and the layer behind.
- **`VolumeCreate`**: a generated name for `""`, and a driver conflict refuses the request.

### `GrpcStream.tla` — grpc's client stream (`vendor/google.golang.org/grpc/stream.go`)

**State.**

- `desc`: the StreamDesc and call options (client/server streaming, failFast, tracing).
- `npc`, `attempts`: newClientStream and its retry loop.
- `puts`: how often the put func of each transport obtained was called.
- `csPut`: `cs.put`.
- `closed`, `closeCalls`: `cs.closed` and the calls of `t.CloseStream`.
- `tr`, `trOk`: `trInfo.tr` and how it was finished.
- `pc`, `todo`: three goroutines (the watcher, a sender, a receiver) and the `finish` / `closeTransportStream` calls each still has to make.
- `srv`, `msgs`, `sent`, `net`: the transport, which is the environment. The server sends messages and ends the stream with an OK or error status. The connection can fail, go away or have its context cancelled.

**Actions.**

- **`GetTransport`, `GetTransportDeadline`, `NewStream`** (111-232): the retry loop. An rpcError (the context's deadline among them) or another error is returned. A closing connection is retried unless failFast. A `NewStream` failure calls `put` and then retries or returns. The deferred trace finish runs on any error.
- **`Watch`** (209-230): the watcher's select. It takes any ready case. On a transport error it exits without clean-up.
- **`SendMsg`, `CloseSend`, `RecvMsg`, `Header`**: each method's I/O result and the clean-up calls its return makes, in the code's order. This includes the client-streaming second `recv` of `RecvMsg`.
- **`RunTodo`**: one clean-up call, either `Finish` (one step under `cs.mu`) or `CloseTransportStream`.

`finish` sets `put = nil` and `tr = nil` under `cs.mu`, and `closeTransportStream` checks and sets `closed` under it. Each is one step of the model, so no interleaving can release a put, the trace or the transport stream twice. No property restates this. `TypeOK` is not checked by `gs_stream`: beyond the code's own values it only bounds the model's counters, and no slip in stream.go could break it.

## Runs

| Run | Expect | Checks | Shows |
|---|---|---|---|
| `lc_safety` (`MCLibcontainerd.cfg`) | pass | `TypeOK`, `EventsInEmissionOrder`, `BundleOfLiveContainer`, `StdinCloseAfterAck` | With two concurrent Create callers on one id, two container objects, every error path of start and a Signal caller contending for the lock, the backend hears each container's events in emission order. A registered container owns its bundle. The stdin close is sent only after the create is acknowledged, and never dropped after it. |
| `lc_nofail` (`_nofail.cfg`) | pass | `OOMReported`, `ExitRemovesOnlyExited`, `ExitEventuallyReported`, `WaitersReleased` | When `StateChanged(start)` does not fail, an exit carries `OOMKilled` exactly when an OOM preceded it, and only an exited container is deregistered. Also, every container whose Create returned nil is eventually reported exited once its init exits, and a consumer waiting on its exit notifier is then woken. |
| `lc_generations` (`_gens.cfg`) | violation | `NotificationsFollowGenerations` | Finding: `StateChanged(start)` (part_001:179) bypasses `clnt.q`. The new container's start can overtake the previous container's queued exit. |
| `lc_stale_exit` (`_stale.cfg`) | violation | `ExitRemovesOnlyExited` | Finding: a failing `StateChanged(start)` rolls back a container the shim runs. Its later exit, looked up by id only (part_001:222), deregisters the next container of that id and removes its bundle. |
| `lc_exit_waiters` (`_waiters.cfg`) | violation | `ReleasedOnlyOnExit` | Finding: the queued callback closes the exit notifier when `e.Type == StateExit` (part_001:238). An exec'd process's exit has that type too, so a consumer waiting for the container to exit is woken while its init still runs. Spec 4.2 says the notifier is closed on Exited. |
| `sv_tasks` (`MCSupervisor.cfg`) | pass | `TypeOK`, `ImplementsTaskFuture` | The loop, the workers and the stats goroutines refine `TaskFuture`. Every task gets exactly one answer and is eventually answered. A StartResponse or Stat only goes with nil. |
| `lc_hol` (`_hol.cfg`) | violation | `OtherIdsProceed` | Finding: the single event loop takes the per-id lock in `handleEvent` (part_001:199). A Create holding one id's lock across its RPC and the 10 s sleep (175) stalls the events of every other id. So does a Signal holding it across its RPC, which has no timeout (command.go:1698-1700). Spec 5 says an RPC under the per-container lock blocks only that id. |
| `tp_sort` (`MCTaskPrint.cfg`) | pass | `TypeOK`, `ReplicatedHistoryGrouped` | Covers every task list of up to 3 tasks. In `docker service ps` of one replicated service, each slot's rows are contiguous. The most recent task is the unindented row, and the older ones are indented under it. For this, `Less`, `sort.Stable`'s insertion order and `print`'s `prevService`/`prevSlot` comparison must agree. `tp_history` shows where this stops holding. |
| `tp_history` (`_history.cfg`) | violation | `HistoryGrouped` | Finding: `tasksBySlot` ignores the service and, for global services (slot 0), the node (print.go:52). In `docker stack ps` / `node ps` one task's history is split and mis-indented. The comment at 105-106 says rows are grouped by `<ServiceName>.<Slot>`. |
| `dc_create` (`MCDaemonCreate.cfg`) | pass | `TypeOK`, `RollbackReleasesName`, `RegisteredComplete` | Two concurrent creates compete for names, and every step can fail, `cleanupContainer` included. A failed create always gives its name back and is never registered, so another request can take the name. Its layer, directory and config can stay behind when the cleanup fails, and the property does not claim otherwise. A registered container is complete. |
| `dc_labels` (`_labels.cfg`) | violation | `JoinedLabelsAgree` | Finding: when only one of the containers joined with `--ipc`/`--pid` has a label, `generateSecurityOpt` returns nil, nil (create.go:199). The new container gets a fresh label and is created. The error text at 202 says the labels must be the same. |
| `gs_stream` (`MCGrpcStream.cfg`) | pass | `NoLeakOnError`, `StreamReleased` | Every kind of streaming RPC is checked, with retries, and with the sender, the receiver and the watcher racing on the clean-ups. A failed `newClientStream` gives back every transport it obtained and finishes its trace. Once the stream ends in any way, the put and the trace are released, as long as the receiver reads until `RecvMsg` fails. |

Each property of a passing run is also checked against a mutant of the code it is about; the mutants are listed in `PROJECT.json`. They include:

- a handleEvent that does not take the lock;
- a rollback that does not deregister the container;
- a stdin goroutine that does not re-check `ready`;
- an OOM event that does not set `ctr.oom`;
- an event loop that drops an event whose id is locked (liveness);
- an exit notifier whose `close` drops the map entry but does not close the channel (liveness);
- a stats handler that also lets the loop answer, which breaks the refinement;
- a tasksBySlot that puts the oldest task of a slot first;
- a create that does not clean up after a label error;
- a setup that registers before ToDisk;
- a `NewStream` failure that does not call `put`;
- a `RecvMsg` that does not finish on a ConnectionError.

TLC finds each of them.

Two disagreements were seen while modelling but are not runs. First, `container.start` returns nil when `ctr.spec()` fails (part_001:98). Create then skips its rollback and reports success for a container it never registered, leaving its bundle on disk. The model keeps that path: `StartOpen` may take it in every run. No property is spent on it, because a unit test calling Create with an unreadable `config.json` shows it directly.

The second is in grpc. `SendMsg` calls `finish(io.EOF)` when the server has already ended the stream (stream.go:285), so the RPC's trace says OK for an RPC whose status is an error; the watcher and `RecvMsg` check `s.StatusCode()` first. `GrpcStream` keeps `trOk`, the outcome the trace was finished with, but no run checks it: the trace is debugging output.

## Bounds and why they are enough

**libcontainerd.**

- Two Create callers, one id and `MaxGen = 2` container objects. This is the smallest setting in which a second incarnation of an id can meet the leftovers of the first (a stale event, a queued callback, or a racing Create). All three findings need it.
- One exec'd process, so process exits (`exit-process`) are distinct from init exits.
- One Signal caller in `lc_safety` and `lc_hol`. It takes the lock between any two steps of Create and of the event loop; `lc_safety` then has 2.8 million states and takes 1.5 minutes. The other runs have no Signal caller, because Signal changes nothing their properties read.
- `MaxEvents = 1` extra event per container. Every interleaving of that event with Create, the lock and the queue is explored. `lc_nofail` uses one caller and the same bound. The one shim event (an OOM, a pause or a process exit) then meets the exit and the next generation's Create. One consumer of the exit notifier waits on either container object; with it the run takes about 3 minutes. `lc_exit_waiters` uses the same constants.
- That run does not reach an OOM followed by another event before the exit, so the stickiness of `ctr.oom` across events is not exercised. `MaxEvents = 2` with liveness needs over 4 minutes, and `lc_safety` with `MaxEvents = 2` passes 2.5 million states with a million still queued after one minute.

**supervisor.**

- Two ids, one exec pid and one start worker.
- Four tasks, with `s.tasks` of 2 and `startTasks` of 1. A full `startTasks` then blocks the loop while the worker is busy.
- The real buffers are 2048 and 10. The cycle in which the worker's `DeleteTask` waits on a full `s.tasks` while the loop waits on a full `startTasks` needs more queued tasks than these bounds allow. See the hazard list.

**task printing.**

- Up to 3 tasks over 2 services, slots {0, 1, 2}, 2 creation times and 2 nodes, one of which does not resolve.
- 3 tasks are enough for a history to be split by a task of another service, for ties in the sort key (stability), for a resolve failure in the middle, and for two slots of one replicated service to interleave if the sort did not keep them apart.

**daemon create.**

- Two requests and two names.
- Two existing containers, one labelled and one not.
- Five request specs:
  - a plain one;
  - one joining a name another request may hold;
  - one joining both existing containers;
  - one with an IPv4/IPv6 endpoint;
  - one with an empty entrypoint.
- One generated volume name.

These cover both requests racing for a name, a failure at every step, and the mixed-label join. The label run uses one request, which is all the finding needs.

**grpc client stream.**

- Every StreamDesc with at least one streaming side, failFast or not.
- Tracing on, which is grpc's default.
- Two getTransport attempts.
- Two server messages: the client-streaming protocol violation needs two.
- One `SendMsg`.

These cover all of the following:

- a retry after a failed `NewStream`;
- the watcher and both callers finishing at once;
- every select case;
- every I/O result of each method.

## Fairness

- **Goroutines that have started keep running.** This covers the Create steps, the event loop, the `clnt.q` goroutines, the stdin goroutines, the supervisor loop, the workers and the stats goroutines. They get weak fairness.
- **Per-id locks get strong fairness.** Go's `sync.Mutex` switches to starvation mode and hands the lock to a waiter that has waited over 1 ms. Taking the lock in Create, in handleEvent and in Signal is therefore strongly fair.
- **An RPC in flight is answered.** The Create RPC and the Signal RPC have no timeout; a run with liveness assumes the shim answers (weak fairness on `StartRPC` and `SignalReturn`). Without it, `lc_hol` shows what an unanswered RPC does to the other ids.
- **A consumer blocked on a closed channel wakes.** `Released` gets weak fairness; whether a consumer starts waiting at all (`WaitExit`) is up to the caller and is not fair.
- **The grpc receiver reads until `RecvMsg` fails.** This is the `Stream` contract (stream.go:75-80): RecvMsg returns io.EOF or an error once the stream is done. The creator, the watcher and each pending clean-up get weak fairness. The sender, the server and the network get none.
- **No fairness in `DaemonCreate` or `TaskPrint`.** Their runs check safety only.
- **No fairness for callers or the shim.** The properties must not depend on events happening.

## Not modelled

- **The cobra command tree** (`command.go` up to line 1580). `Find`, `stripFlags`, `Traverse`, `legacyArgs` and the hook order of `execute` are not modelled, for three reasons:
  - spec 1 puts the command-line layer out of scope;
  - nothing under src/ runs a command: the docker main that calls `Execute` is not in the tree, and the one user of `ExecuteCmdInFirstContainer` (part_000:49) is commented out;
  - the lookup decides by the flag kinds of pflag's `FlagSet`, which is not under src/.

  The libcontainerd client code that the same file carries (1583-1751) is modelled.
- **Composition and refinement of the lifecycle.**
  - Supervisor ↔ libcontainerd: the supervisor is containerd's end of the `CreateContainer` RPC and of the event stream. In `Libcontainerd` the shim stands in for it: it runs an acknowledged container and emits its events in a legal order, which is all the client sees.
  - An abstract container lifecycle (spec 4.2, as the backend hears it): with the shim emitting legal sequences, it would restate `EventsInEmissionOrder` and `OOMReported`, which are checked.
- **Not under src/, or with no caller there.**
  - `TriggerHandleStream` (command.go:1664): it makes up an init exit and runs `handleEvent`. Its caller is not under src/, so whether it is called only after an exit event was lost is not known; see the hazard list.
  - `pauseMonitor.handle` (part_001:236): the pause monitor and its waiters are in a file outside src/.
- **Outside src/, so only their effect is modelled.**
  - In daemon create: image deletion between `GetImage` (create.go:87) and the image-store lookup of `setRWLayer` (213); the model lets that lookup fail.
  - Also in daemon create: `newContainer`, `cleanupContainer`, `Register`, `verifyContainerSettings` and the volume store.
  - In the supervisor: `runtime.Exec`/`Stats` on a created-but-unstarted or deleted container. This is why the supervisor hazards at create.go:54 and part_002:28 have no property.
  - Daemon restore after a crash in the middle of create.
- **Not modelled in `stream.go`.**
  - `serverStream`: it only logs to its trace and writes to the transport.
  - The `after` hooks of `finish`: they copy header and trailer into the caller's variables.
- **Never.**
  - `AddCommands`, the build router and `install-binaries.sh`: static tables and a build script.
  - `discardFifos`: it has no caller under src/, and it only drains pipes into `ioutil.Discard`.
  - `portStatus.String` and the table formatting of `print`.
