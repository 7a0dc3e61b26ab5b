---- MODULE Libcontainerd ----
(* The daemon side of the runtime: libcontainerd's client and container    *)
(* objects (src/unnamed/part_001, container_unix.go).                      *)
(*                                                                         *)
(*  - Create(id) takes the per-id lock, prepares the bundle directory and  *)
(*    runs container.start: read config.json, open the fifos, register    *)
(*    the container (appendContainer), attachStdio, the CreateContainer    *)
(*    RPC, close(ready), and a synchronous StateChanged(start).  Any error *)
(*    returned rolls back: clean() the directory, deleteContainer(id).     *)
(*  - The stdin wrapper closes the pipe at once and defers "close stdin"   *)
(*    to a goroutine that waits for ready or for the start context.       *)
(*  - One event-loop goroutine reads the shim's event stream, looks the    *)
(*    container up and calls handleEvent, which takes the same per-id lock,*)
(*    updates the container and appends the StateChanged callback to the  *)
(*    per-id serial queue clnt.q.                                          *)
(*  - The shim is the environment: after an acknowledged create it emits   *)
(*    pause/resume/oom/exit events for that container, in order.           *)
(*                                                                         *)
(*  - exitNotifier: a one-shot channel per id that consumers wait on; the *)
(*    queued StateChanged callback of an exit event closes it.             *)
(*  - Signal(id) forwards a signal to the shim under the per-id lock, with *)
(*    no timeout on the RPC.                                               *)
(*                                                                         *)
(* Every Create call gets a fresh generation number g: the container      *)
(* object it builds.  Generations tell incarnations of one id apart.       *)
EXTENDS Naturals, Sequences, FiniteSets

CONSTANTS
  Ids,        \* container ids
  Creators,   \* goroutines calling Create
  Procs,      \* friendly names of exec'd (non-init) processes
  MaxGen,     \* bound on Create calls: each call is one container object
  MaxEvents,  \* bound on pause/resume/oom/process-exit events per container
  StartNotifyMayFail, \* whether backend.StateChanged(StateStart) may error
  Waiters,    \* goroutines that wait on a container's exit notifier
  Signallers, \* goroutines calling Signal
  NoOne       \* model value: nobody holds a lock; no exit notifier

ASSUME MaxGen \in Nat \ {0} /\ MaxEvents \in Nat /\ StartNotifyMayFail \in BOOLEAN

Loop    == "loop"          \* the event-stream goroutine, as a lock holder
InitPid == "init"          \* InitFriendlyName
Gens    == 1..MaxGen
NoGen   == 0
Pids    == {InitPid} \cup Procs
CreatorPcs == {"idle", "lock", "check", "start", "attach", "rpc", "notify"}
StdinStates == {"none", "open", "waiting", "sent", "dropped"}
ShimStates  == {"none", "running", "paused", "exited"}
Event  == [type : {"start-container", "exit", "pause", "resume", "oom"},
           id : Ids, pid : Pids, gen : Gens, n : Nat]
Notice == [state : {"start", "exit", "exit-process", "pause", "resume", "oom"},
           oom : BOOLEAN, pid : Pids, gen : Gens, n : Nat]

VARIABLES
  lock,       \* clnt.locks: holder of each per-id lock
  table,      \* clnt.containers: id -> generation registered, or NoGen
  disk,       \* the bundle directory <root>/<id>: generation whose config is there
  nextGen,    \* next container object to allocate
  ctr,        \* container objects: g -> [id, oom, processes]
  cr,         \* Create calls: a -> [pc, id, gen, ok: the last one returned nil]
  ready,      \* g -> start's "ready" channel is closed
  ctxDone,    \* g -> start's context is canceled (start has returned)
  stdin,      \* g -> the stdin wrapper and its close goroutine
  shim,       \* g -> state of the container at the shim
  shimProcs,  \* g -> exec'd processes alive at the shim
  emitted,    \* g -> events emitted for g so far (also their sequence numbers)
  oomSent,    \* g -> the shim has emitted an OOM event for g
  stream,     \* the event stream from the shim, FIFO
  loop,       \* the event-loop goroutine: [pc, ev, gen]
  q,          \* clnt.q: id -> StateChanged callbacks not yet run
  notified,   \* id -> history of backend.StateChanged calls
  createdOk,  \* generations whose Create call returned nil (history)
  notifier,   \* clnt.exitNotifiers: id -> the notifier (named by the waiter that made it)
  enClosed,   \* exit notifiers whose channel is closed
  waiter,     \* w -> [pc, id, en, gen: the container registered when it began]
  sig         \* Signal calls: s -> [pc, id]

vars == <<lock, table, disk, nextGen, ctr, cr, ready, ctxDone, stdin, shim,
          shimProcs, emitted, oomSent, stream, loop, q, notified, createdOk,
          notifier, enClosed, waiter, sig>>
shimVars == <<shim, shimProcs, emitted, oomSent>>
enVars   == <<notifier, enClosed, waiter>>

NoEvent == [type |-> "exit", id |-> CHOOSE i \in Ids : TRUE, pid |-> InitPid,
            gen |-> 1, n |-> 0]

TypeOK ==
  /\ lock \in [Ids -> Creators \cup Signallers \cup {Loop, NoOne}]
  /\ table \in [Ids -> Gens \cup {NoGen}]
  /\ disk \in [Ids -> Gens \cup {NoGen}]
  /\ nextGen \in 1..MaxGen + 1
  /\ ctr \in [Gens -> [id : Ids, oom : BOOLEAN, processes : SUBSET Pids]]
  /\ cr \in [Creators -> [pc : CreatorPcs, id : Ids, gen : Gens \cup {NoGen},
                           ok : BOOLEAN]]
  /\ ready \in [Gens -> BOOLEAN] /\ ctxDone \in [Gens -> BOOLEAN]
  /\ stdin \in [Gens -> StdinStates]
  /\ shim \in [Gens -> ShimStates] /\ shimProcs \in [Gens -> SUBSET Procs]
  /\ emitted \in [Gens -> Nat] /\ oomSent \in [Gens -> BOOLEAN]
  /\ stream \in Seq(Event)
  /\ loop \in [pc : {"recv", "lock"}, ev : Event, gen : Gens]
  /\ q \in [Ids -> Seq(Notice)] /\ notified \in [Ids -> Seq(Notice)]
  /\ createdOk \subseteq Gens
  /\ notifier \in [Ids -> Waiters \cup {NoOne}] /\ enClosed \subseteq Waiters
  /\ waiter \in [Waiters -> [pc : {"idle", "waiting", "released"}, id : Ids,
                             en : Waiters \cup {NoOne}, gen : Gens \cup {NoGen}]]
  /\ sig \in [Signallers -> [pc : {"idle", "lock", "rpc"}, id : Ids]]

Init ==
  /\ lock = [i \in Ids |-> NoOne]
  /\ table = [i \in Ids |-> NoGen]
  /\ disk = [i \in Ids |-> NoGen]
  /\ nextGen = 1
  /\ ctr = [g \in Gens |-> [id |-> CHOOSE i \in Ids : TRUE, oom |-> FALSE,
                            processes |-> {}]]
  /\ cr = [a \in Creators |-> [pc |-> "idle", id |-> CHOOSE i \in Ids : TRUE,
                               gen |-> NoGen, ok |-> FALSE]]
  /\ ready = [g \in Gens |-> FALSE] /\ ctxDone = [g \in Gens |-> FALSE]
  /\ stdin = [g \in Gens |-> "none"]
  /\ shim = [g \in Gens |-> "none"] /\ shimProcs = [g \in Gens |-> {}]
  /\ emitted = [g \in Gens |-> 0] /\ oomSent = [g \in Gens |-> FALSE]
  /\ stream = <<>>
  /\ loop = [pc |-> "recv", ev |-> NoEvent, gen |-> 1]
  /\ q = [i \in Ids |-> <<>>] /\ notified = [i \in Ids |-> <<>>]
  /\ createdOk = {}
  /\ notifier = [i \in Ids |-> NoOne] /\ enClosed = {}
  /\ waiter = [w \in Waiters |-> [pc |-> "idle", id |-> CHOOSE i \in Ids : TRUE,
                                  en |-> NoOne, gen |-> NoGen]]
  /\ sig = [s \in Signallers |-> [pc |-> "idle", id |-> CHOOSE i \in Ids : TRUE]]

----
(* Create and container.start                                              *)
----
Goto(a, pc) == cr' = [cr EXCEPT ![a].pc = pc]

\* Create returns nil (ok) or an error: the deferred unlock, and start's
\* deferred cancel().
Return(a, ok) ==
  /\ lock' = [lock EXCEPT ![cr[a].id] = NoOne]
  /\ ctxDone' = [ctxDone EXCEPT ![cr[a].gen] = TRUE]
  /\ cr' = [cr EXCEPT ![a].pc = "idle", ![a].ok = ok]
  /\ createdOk' = IF ok THEN createdOk \cup {cr[a].gen} ELSE createdOk

\* Fault variant of Rollback: clnt.deleteContainer(id) is missing.
RollbackNoDelete(a) ==
  /\ disk' = [disk EXCEPT ![cr[a].id] = NoGen]
  /\ table' = table

\* Create's deferred rollback on a non-nil error: container.clean() removes
\* the bundle directory, then clnt.deleteContainer(id).
Rollback(a) ==
  /\ disk' = [disk EXCEPT ![cr[a].id] = NoGen]
  /\ table' = [table EXCEPT ![cr[a].id] = NoGen]

\* closeFifos closes iopipe.Stdin, which is the wrapper: it runs the close
\* function once.
CloseStdinWrapper(g) ==
  stdin' = [stdin EXCEPT ![g] = IF @ = "open" THEN "waiting" ELSE @]

\* A caller invokes Create(id); the call is a fresh container object.
CreateCall(a, i) ==
  /\ cr[a].pc = "idle" /\ nextGen <= MaxGen
  /\ cr' = [cr EXCEPT ![a] = [pc |-> "lock", id |-> i, gen |-> nextGen, ok |-> FALSE]]
  /\ nextGen' = nextGen + 1
  /\ UNCHANGED <<enVars, sig, lock, table, disk, ctr, ready, ctxDone, stdin, shimVars,
                 stream, loop, q, notified, createdOk>>

\* clnt.lock(containerID)
CreateLock(a) ==
  /\ cr[a].pc = "lock" /\ lock[cr[a].id] = NoOne
  /\ lock' = [lock EXCEPT ![cr[a].id] = a]
  /\ Goto(a, "check")
  /\ UNCHANGED <<enVars, sig, table, disk, nextGen, ctr, ready, ctxDone, stdin, shimVars,
                 stream, loop, q, notified, createdOk>>

\* "already active" check, then the bundle: getRootIDs, prepareBundleDir,
\* newContainer, clean().  An error up to here returns before the deferred
\* rollback is installed; an error of MkdirAllAs, os.Create or the encoding
\* of config.json returns through it.
CreateCheck(a) ==
  LET i == cr[a].id  g == cr[a].gen IN
  /\ cr[a].pc = "check"
  /\ \/ /\ Return(a, FALSE)          \* already active, or fails before the defer
        /\ UNCHANGED <<table, disk, ctr>>
     \/ /\ table[i] = NoGen                       \* config.json not written
        /\ Rollback(a) /\ Return(a, FALSE) /\ UNCHANGED ctr
     \/ /\ table[i] = NoGen
        /\ ctr' = [ctr EXCEPT ![g] = [id |-> i, oom |-> FALSE, processes |-> {InitPid}]]
        /\ disk' = [disk EXCEPT ![i] = g]
        /\ Goto(a, "start")
        /\ UNCHANGED <<lock, table, ctxDone, createdOk>>
  /\ UNCHANGED <<enVars, sig, nextGen, ready, stdin, shimVars, stream, loop, q, notified>>

\* container.start up to appendContainer: read config.json, openFifos, wrap
\* stdin, register the container in clnt.containers.
StartOpen(a) ==
  LET i == cr[a].id  g == cr[a].gen IN
  /\ cr[a].pc = "start"
  /\ \/ /\ Return(a, TRUE)                        \* ctr.spec() fails: return nil
        /\ UNCHANGED <<table, disk, stdin>>
     \/ /\ Rollback(a) /\ Return(a, FALSE)        \* openFifos fails
        /\ UNCHANGED stdin
     \/ /\ stdin' = [stdin EXCEPT ![g] = "open"]
        /\ table' = [table EXCEPT ![i] = g]       \* appendContainer
        /\ Goto(a, "attach")
        /\ UNCHANGED <<lock, disk, ctxDone, createdOk>>
  /\ UNCHANGED <<enVars, sig, nextGen, ctr, ready, shimVars, stream, loop, q, notified>>

\* attachStdio(*iopipe); on error closeFifos and return the error.
StartAttach(a) ==
  /\ cr[a].pc = "attach"
  /\ \/ /\ Goto(a, "rpc")
        /\ UNCHANGED <<lock, table, disk, ctxDone, stdin, createdOk>>
     \/ /\ CloseStdinWrapper(cr[a].gen) /\ Rollback(a) /\ Return(a, FALSE)
  /\ UNCHANGED <<enVars, sig, nextGen, ctr, ready, shimVars, stream, loop, q, notified>>

\* The CreateContainer RPC.  On success the shim runs the container and
\* emits start-container; the daemon records the pid and closes ready.
StartRPC(a) ==
  LET i == cr[a].id  g == cr[a].gen IN
  /\ cr[a].pc = "rpc"
  /\ \/ /\ CloseStdinWrapper(g) /\ Rollback(a) /\ Return(a, FALSE)
        /\ UNCHANGED <<ready, shimVars, stream>>
     \/ /\ shim' = [shim EXCEPT ![g] = "running"]
        /\ emitted' = [emitted EXCEPT ![g] = 1]
        /\ stream' = Append(stream, [type |-> "start-container", id |-> i,
                                     pid |-> InitPid, gen |-> g, n |-> 1])
        /\ ready' = [ready EXCEPT ![g] = TRUE]
        /\ Goto(a, "notify")
        /\ UNCHANGED <<lock, table, disk, ctxDone, stdin, shimProcs, oomSent, createdOk>>
  /\ UNCHANGED <<enVars, sig, nextGen, ctr, loop, q, notified>>

\* After the sleep, backend.StateChanged(StateStart) is called directly, not
\* through clnt.q, still under the lock.  Its error is start's result, and
\* a non-nil one rolls Create back.
StartNotify(a) ==
  LET i == cr[a].id  g == cr[a].gen IN
  /\ cr[a].pc = "notify"
  /\ notified' = [notified EXCEPT ![i] = Append(@, [state |-> "start",
                    oom |-> FALSE, pid |-> InitPid, gen |-> g, n |-> 0])]
  /\ \/ UNCHANGED <<table, disk>> /\ Return(a, TRUE)
     \/ StartNotifyMayFail /\ Rollback(a) /\ Return(a, FALSE)
  /\ UNCHANGED <<enVars, sig, nextGen, ctr, ready, stdin, shimVars, stream, loop, q>>

----
(* The stdin wrapper                                                       *)
----
\* The attach side closes stdin: stdin.Close() at once, then a goroutine is
\* started to notify the shim later.
StdinClose(g) ==
  /\ stdin[g] = "open"
  /\ CloseStdinWrapper(g)
  /\ UNCHANGED <<enVars, sig, lock, table, disk, nextGen, ctr, cr, ready, ctxDone, shimVars,
                 stream, loop, q, notified, createdOk>>

\* Fault variant of StdinNotify: the second select (ready or default) is
\* missing, so the notification goes out whichever channel woke it.
StdinNotifyNoRecheck(g) ==
  /\ stdin[g] = "waiting" /\ (ready[g] \/ ctxDone[g])
  /\ stdin' = [stdin EXCEPT ![g] = "sent"]
  /\ UNCHANGED <<enVars, sig, lock, table, disk, nextGen, ctr, cr, ready, ctxDone, shimVars,
                 stream, loop, q, notified, createdOk>>

\* select { <-ready | <-ctx.Done() }, then select { <-ready: send | default }.
StdinNotify(g) ==
  /\ stdin[g] = "waiting" /\ (ready[g] \/ ctxDone[g])
  /\ stdin' = [stdin EXCEPT ![g] = IF ready[g] THEN "sent" ELSE "dropped"]
  /\ UNCHANGED <<enVars, sig, lock, table, disk, nextGen, ctr, cr, ready, ctxDone, shimVars,
                 stream, loop, q, notified, createdOk>>

----
(* The shim (environment) and AddProcess                                   *)
----
Emit(g, type, pid) ==
  /\ emitted' = [emitted EXCEPT ![g] = @ + 1]
  /\ stream' = Append(stream, [type |-> type, id |-> ctr[g].id, pid |-> pid,
                               gen |-> g, n |-> emitted[g] + 1])

ShimEvent(g) ==
  /\ shim[g] \in {"running", "paused"} /\ emitted[g] <= MaxEvents
  /\ \/ /\ shim[g] = "running" /\ shim' = [shim EXCEPT ![g] = "paused"]
        /\ Emit(g, "pause", InitPid) /\ UNCHANGED <<shimProcs, oomSent>>
     \/ /\ shim[g] = "paused" /\ shim' = [shim EXCEPT ![g] = "running"]
        /\ Emit(g, "resume", InitPid) /\ UNCHANGED <<shimProcs, oomSent>>
     \/ /\ oomSent' = [oomSent EXCEPT ![g] = TRUE]
        /\ Emit(g, "oom", InitPid) /\ UNCHANGED <<shim, shimProcs>>
     \/ \E p \in shimProcs[g] :
          /\ shimProcs' = [shimProcs EXCEPT ![g] = @ \ {p}]
          /\ Emit(g, "exit", p) /\ UNCHANGED <<shim, oomSent>>
  /\ UNCHANGED <<enVars, sig, lock, table, disk, nextGen, ctr, cr, ready, ctxDone, stdin,
                 loop, q, notified, createdOk>>

\* The init process exits; the shim's exec'd processes die with it.
ShimExit(g) ==
  /\ shim[g] \in {"running", "paused"}
  /\ shim' = [shim EXCEPT ![g] = "exited"]
  /\ shimProcs' = [shimProcs EXCEPT ![g] = {}]
  /\ Emit(g, "exit", InitPid)
  /\ UNCHANGED <<enVars, sig, lock, table, disk, nextGen, ctr, cr, ready, ctxDone, stdin,
                 oomSent, loop, q, notified, createdOk>>

\* client.AddProcess, under the per-id lock: register the process, start it
\* at the shim.
AddProcess(g, p) ==
  LET i == ctr[g].id IN
  /\ lock[i] = NoOne /\ table[i] = g /\ shim[g] \in {"running", "paused"}
  /\ p \notin ctr[g].processes /\ p \notin shimProcs[g]
  /\ ctr' = [ctr EXCEPT ![g].processes = @ \cup {p}]
  /\ shimProcs' = [shimProcs EXCEPT ![g] = @ \cup {p}]
  /\ UNCHANGED <<enVars, sig, lock, table, disk, nextGen, cr, ready, ctxDone, stdin, shim,
                 emitted, oomSent, stream, loop, q, notified, createdOk>>

----
(* The event loop, handleEvent and the serial queue                        *)
----
\* Fault variant of LoopRecv: the unknown-container check is missing.
LoopRecvNoLookupCheck ==
  LET e == Head(stream) IN
  /\ loop.pc = "recv" /\ stream /= <<>>
  /\ stream' = Tail(stream)
  /\ loop' = [pc |-> "lock", ev |-> e, gen |-> table[e.id]]
  /\ UNCHANGED <<enVars, sig, lock, table, disk, nextGen, ctr, cr, ready, ctxDone, stdin,
                 shimVars, q, notified, createdOk>>

\* Fault variant of LoopRecv: an event whose container is locked is dropped
\* as if unknown (a try-lock instead of waiting in handleEvent).
LoopRecvTryLock ==
  LET e == Head(stream) IN
  /\ loop.pc = "recv" /\ stream /= <<>>
  /\ stream' = Tail(stream)
  /\ \/ /\ (table[e.id] = NoGen \/ lock[e.id] /= NoOne) /\ UNCHANGED loop
     \/ /\ table[e.id] /= NoGen /\ lock[e.id] = NoOne
        /\ loop' = [pc |-> "lock", ev |-> e, gen |-> table[e.id]]
  /\ UNCHANGED <<enVars, sig, lock, table, disk, nextGen, ctr, cr, ready, ctxDone, stdin,
                 shimVars, q, notified, createdOk>>

\* events.Recv(), then getContainer(e.Id) under the map mutex only; an
\* unknown container's event is logged and dropped.
LoopRecv ==
  LET e == Head(stream) IN
  /\ loop.pc = "recv" /\ stream /= <<>>
  /\ stream' = Tail(stream)
  /\ \/ /\ table[e.id] = NoGen /\ UNCHANGED loop
     \/ /\ table[e.id] /= NoGen
        /\ loop' = [pc |-> "lock", ev |-> e, gen |-> table[e.id]]
  /\ UNCHANGED <<enVars, sig, lock, table, disk, nextGen, ctr, cr, ready, ctxDone, stdin,
                 shimVars, q, notified, createdOk>>

\* Fault variant of StateOf: an exit of any process is taken for the
\* container's exit (the e.Pid != InitFriendlyName test dropped).
StateOfNoPidCheck(e, c) ==
  [state |-> e.type, oom |-> e.type = "exit" /\ c.oom, pid |-> e.pid,
   gen |-> e.gen, n |-> e.n]

\* The StateInfo handleEvent computes for e on container object c.
StateOf(e, c) ==
  [state |-> IF e.type = "exit" /\ e.pid /= InitPid THEN "exit-process" ELSE e.type,
   oom |-> e.type = "exit" /\ c.oom, pid |-> e.pid, gen |-> e.gen, n |-> e.n]

\* Fault variant of ApplyEvent: the StateOOM case never sets ctr.oom.
ApplyEventNoOOM(c, e) ==
  [c EXCEPT !.oom = @,
            !.processes = IF StateOf(e, c).state = "exit-process"
                          THEN @ \ {e.pid} ELSE @]

\* What handleEvent does to the container object: the sticky OOM flag, and
\* cleanProcess for the exit of an exec'd process.
ApplyEvent(c, e) ==
  [c EXCEPT !.oom = @ \/ e.type = "oom",
            !.processes = IF StateOf(e, c).state = "exit-process"
                          THEN @ \ {e.pid} ELSE @]

\* Fault variant of EventLockFree: handleEvent without clnt.lock.
EventLockIgnored(g) == TRUE

\* clnt.lock(ctr.containerID) is free for handleEvent to take.
EventLockFree(g) == lock[ctr[g].id] = NoOne

\* ctr.handleEvent(e), whole, under clnt.lock(ctr.containerID).
HandleEvent ==
  LET e == loop.ev  g == loop.gen  st == StateOf(e, ctr[g]) IN
  /\ loop.pc = "lock" /\ EventLockFree(g)
  /\ \/ /\ e.type \in {"exit", "pause", "resume", "oom"}
        /\ ctr' = [ctr EXCEPT ![g] = ApplyEvent(@, e)]
        /\ disk' = IF st.state = "exit" THEN [disk EXCEPT ![ctr[g].id] = NoGen] ELSE disk
        /\ table' = IF st.state = "exit" THEN [table EXCEPT ![e.id] = NoGen] ELSE table
        /\ q' = [q EXCEPT ![e.id] = Append(@, st)]
     \/ /\ e.type \notin {"exit", "pause", "resume", "oom"}   \* unhandled
        /\ UNCHANGED <<ctr, disk, table, q>>
  /\ loop' = [loop EXCEPT !.pc = "recv"]
  /\ UNCHANGED <<enVars, sig, lock, nextGen, cr, ready, ctxDone, stdin, shimVars, stream,
                 notified, createdOk>>

\* Fault variant of CloseExitNotifier: the map entry is removed but the
\* channel is not closed.
CloseExitNotifierNoClose(en, i) ==
  /\ notifier' = IF notifier[i] = en THEN [notifier EXCEPT ![i] = NoOne] ELSE notifier
  /\ UNCHANGED enClosed

\* exitNotifier.close: once.Do(close(en.c), then under clnt.mapMutex remove
\* the map entry if it is still en); a later close does nothing.
CloseExitNotifier(en, i) ==
  \/ /\ en \in enClosed /\ UNCHANGED <<notifier, enClosed>>
  \/ /\ en \notin enClosed
     /\ enClosed' = enClosed \cup {en}
     /\ notifier' = IF notifier[i] = en THEN [notifier EXCEPT ![i] = NoOne] ELSE notifier

\* The goroutine of clnt.q for id runs the oldest callback: StateChanged,
\* then, for an event of type exit, getExitNotifier(e.Id) and its close.
\* The test is on e.Type, which is "exit" for an exec'd process too.
QueueRun(i) ==
  LET st == Head(q[i]) IN
  /\ q[i] /= <<>>
  /\ notified' = [notified EXCEPT ![i] = Append(@, st)]
  /\ q' = [q EXCEPT ![i] = Tail(@)]
  /\ IF st.state \in {"exit", "exit-process"} /\ notifier[i] /= NoOne
       THEN CloseExitNotifier(notifier[i], i)
       ELSE UNCHANGED <<notifier, enClosed>>
  /\ UNCHANGED <<lock, table, disk, nextGen, ctr, cr, ready, ctxDone, stdin,
                 shimVars, stream, loop, createdOk, waiter, sig>>

----
(* Consumers of the exit notifier                                          *)
----
\* getOrCreateExitNotifier(id) under clnt.mapMutex: the id's notifier, or a
\* new one put in the map; then the consumer blocks on en.wait().
WaitExit(w, i) ==
  LET en == IF notifier[i] = NoOne THEN w ELSE notifier[i] IN
  /\ waiter[w].pc = "idle"
  /\ notifier' = [notifier EXCEPT ![i] = en]
  /\ waiter' = [waiter EXCEPT ![w] = [pc |-> "waiting", id |-> i, en |-> en,
                                     gen |-> table[i]]]
  /\ UNCHANGED <<lock, table, disk, nextGen, ctr, cr, ready, ctxDone, stdin,
                 shimVars, stream, loop, q, notified, createdOk, enClosed, sig>>

\* <-en.wait() returns: the channel is closed.
Released(w) ==
  /\ waiter[w].pc = "waiting" /\ waiter[w].en \in enClosed
  /\ waiter' = [waiter EXCEPT ![w].pc = "released"]
  /\ UNCHANGED <<lock, table, disk, nextGen, ctr, cr, ready, ctxDone, stdin,
                 shimVars, stream, loop, q, notified, createdOk, notifier, enClosed, sig>>

----
(* client.Signal                                                           *)
----
\* A caller invokes Signal(id, sig).
SignalCall(s, i) ==
  /\ sig[s].pc = "idle"
  /\ sig' = [sig EXCEPT ![s] = [pc |-> "lock", id |-> i]]
  /\ UNCHANGED <<enVars, lock, table, disk, nextGen, ctr, cr, ready, ctxDone, stdin,
                 shimVars, stream, loop, q, notified, createdOk>>

\* clnt.lock(containerID); then the Signal RPC with context.Background().
SignalLock(s) ==
  /\ sig[s].pc = "lock" /\ lock[sig[s].id] = NoOne
  /\ lock' = [lock EXCEPT ![sig[s].id] = s]
  /\ sig' = [sig EXCEPT ![s].pc = "rpc"]
  /\ UNCHANGED <<enVars, table, disk, nextGen, ctr, cr, ready, ctxDone, stdin,
                 shimVars, stream, loop, q, notified, createdOk>>

\* The shim answers (nil or an error: Signal returns it and changes nothing
\* local; whatever the signal does comes back as an event), and the
\* deferred clnt.unlock(containerID).
SignalReturn(s) ==
  /\ sig[s].pc = "rpc"
  /\ lock' = [lock EXCEPT ![sig[s].id] = NoOne]
  /\ sig' = [sig EXCEPT ![s].pc = "idle"]
  /\ UNCHANGED <<enVars, table, disk, nextGen, ctr, cr, ready, ctxDone, stdin,
                 shimVars, stream, loop, q, notified, createdOk>>

----
Next ==
  \/ \E a \in Creators :
       \/ \E i \in Ids : CreateCall(a, i)
       \/ CreateLock(a) \/ CreateCheck(a) \/ StartOpen(a) \/ StartAttach(a)
       \/ StartRPC(a) \/ StartNotify(a)
  \/ \E g \in Gens : StdinClose(g) \/ StdinNotify(g) \/ ShimEvent(g) \/ ShimExit(g)
  \/ \E g \in Gens, p \in Procs : AddProcess(g, p)
  \/ LoopRecv \/ HandleEvent
  \/ \E i \in Ids : QueueRun(i)
  \/ \E w \in Waiters : Released(w) \/ \E i \in Ids : WaitExit(w, i)
  \/ \E s \in Signallers : SignalLock(s) \/ SignalReturn(s) \/ \E i \in Ids : SignalCall(s, i)

(* Goroutines that have started keep running: the Create calls, the event  *)
(* loop, the queue goroutines and the stdin goroutines.  sync.Mutex hands  *)
(* the lock to a waiter that has waited long (starvation mode), so taking  *)
(* a per-id lock is strongly fair.  A consumer blocked on a closed channel *)
(* wakes.  A Signal call that holds the lock gets its answer: the RPC has  *)
(* no timeout, and the model assumes the shim answers.  Callers, consumers *)
(* that have not begun and the shim are not fair.                          *)
Fairness ==
  /\ \A a \in Creators :
       /\ SF_vars(CreateLock(a))
       /\ WF_vars(CreateCheck(a) \/ StartOpen(a) \/ StartAttach(a) \/ StartRPC(a)
                  \/ StartNotify(a))
  /\ WF_vars(LoopRecv) /\ SF_vars(HandleEvent)
  /\ \A i \in Ids : WF_vars(QueueRun(i))
  /\ \A g \in Gens : WF_vars(StdinNotify(g))
  /\ \A w \in Waiters : WF_vars(Released(w))
  /\ \A s \in Signallers : SF_vars(SignalLock(s)) /\ WF_vars(SignalReturn(s))

Spec == Init /\ [][Next]_vars /\ Fairness

----
(* Properties                                                              *)
----
ExitNotified(g) ==
  \E j \in DOMAIN notified[ctr[g].id] :
     notified[ctr[g].id][j].gen = g /\ notified[ctr[g].id][j].state = "exit"

\* The backend hears about one container object in the order the shim
\* emitted its events, and hears StateStart (n = 0) before any of them: the
\* per-id lock held by Create from appendContainer to StateChanged(start),
\* the lock in handleEvent and the FIFO of clnt.q together give this.
EventsInEmissionOrder ==
  \A i \in Ids : \A j, k \in DOMAIN notified[i] :
     (j < k /\ notified[i][j].gen = notified[i][k].gen)
        => notified[i][j].n < notified[i][k].n

\* An exit reported for a container carries OOMKilled exactly when the shim
\* sent an OOM event for that container before its exit: handleEvent's
\* sticky ctr.oom flag.
OOMReported ==
  \A i \in Ids : \A j \in DOMAIN notified[i] :
     notified[i][j].state = "exit" => (notified[i][j].oom <=> oomSent[notified[i][j].gen])

\* A container registered in clnt.containers owns the bundle directory of its
\* id: the rollback of a failed Create and the exit path of handleEvent both
\* remove the directory and the registration together.
BundleOfLiveContainer ==
  \A i \in Ids : table[i] /= NoGen => disk[i] = table[i]

\* The stdin close goroutine notifies the shim only once the CreateContainer
\* call has been acknowledged (the shim rejects it before), and never drops
\* the notification of a container whose create was acknowledged.
StdinCloseAfterAck ==
  \A g \in Gens :
     /\ stdin[g] = "sent" => ready[g] /\ shim[g] /= "none"
     /\ stdin[g] = "dropped" => ~ready[g]

\* Every container whose Create returned nil is reported exited to the
\* backend once its init process exits: the event loop, handleEvent and the
\* queue never lose the exit, and never block for good on a per-id lock.
ExitEventuallyReported ==
  \A g \in Gens : (g \in createdOk /\ shim[g] = "exited") ~> ExitNotified(g)

\* handleEvent deregisters a container (without the lock held by a Create
\* rolling back) only once the shim reports that container's init exited.
ExitRemovesOnlyExited ==
  [][\A i \in Ids :
       (table[i] /= NoGen /\ table'[i] = NoGen /\ lock[i] = NoOne)
          => shim[table[i]] = "exited"]_vars

\* For one id, the backend's notifications never go back to an older
\* container object: what it hears about a container created after an exit
\* comes after everything about the one that exited (spec 4.2: events are
\* applied in order against any Create in flight for that id).
NotificationsFollowGenerations ==
  \A i \in Ids : \A j, k \in DOMAIN notified[i] :
     j < k => notified[i][j].gen <= notified[i][k].gen

\* Events of one container are not held up by a Create of another: while
\* the event loop waits in handleEvent for the lock of one id (held by a
\* Create across the RPC and the sleep of part_001:175), no event of another
\* id waits behind it (spec 5: "only operations on the same id are
\* blocked; other ids proceed").
OtherIdsProceed ==
  (loop.pc = "lock" /\ ~EventLockFree(loop.gen)) =>
     \A k \in DOMAIN stream : stream[k].id = ctr[loop.gen].id
\* A consumer waiting on the exit notifier while a container was registered
\* is woken once that container's init exits (spec 3: waiters block until
\* the Exited event closes the notifier): the exit event reaches
\* handleEvent, its queued callback finds the id's notifier and closes it.
WaitersReleased ==
  \A w \in Waiters :
     (waiter[w].pc = "waiting" /\ waiter[w].gen /= NoGen
      /\ shim[waiter[w].gen] = "exited") ~> waiter[w].pc = "released"

\* A consumer waiting on a container's exit is woken only after that
\* container's init has exited (spec 4.2: the notifier is closed on Exited).
ReleasedOnlyOnExit ==
  \A w \in Waiters :
     (waiter[w].pc = "released" /\ waiter[w].gen /= NoGen)
        => shim[waiter[w].gen] = "exited"
====
