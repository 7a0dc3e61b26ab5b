---- MODULE Supervisor ----
(* containerd's supervisor: one goroutine takes tasks from s.tasks one at *)
(* a time and dispatches them (handleTask).  The handlers of               *)
(* src/mergeCode/containerd/supervisor/{create,add_process}.go and         *)
(* src/unnamed/part_002 (stats.go):                                        *)
(*  - start: runtime.New, s.containers[id] = info, hand the startTask to  *)
(*    the worker pool over s.startTasks, return errDeferredResponse; a     *)
(*    worker starts the container and answers the caller itself;           *)
(*  - addProcess: look the container up, Exec inline (blocking the loop), *)
(*    monitorProcess, newExecSyncChannel, send StartResponse, return nil;  *)
(*  - stats: look the container up, start a goroutine that answers the     *)
(*    caller, return errDeferredResponse.                                  *)
(* handleTask answers ErrorCh itself unless the handler returned           *)
(* errDeferredResponse.  A worker whose start fails answers the error and  *)
(* sends a DeleteTask back to s.tasks.                                     *)
EXTENDS Naturals, Sequences, FiniteSets

CONSTANTS
  Ids,        \* container ids
  ExecPids,   \* exec process ids
  Workers,    \* the start worker pool
  MaxTasks,   \* bound on tasks submitted by callers
  TaskBuf,    \* capacity of s.tasks
  StartBuf    \* capacity of s.startTasks

ASSUME MaxTasks \in Nat \ {0} /\ TaskBuf \in Nat \ {0} /\ StartBuf \in Nat \ {0}

TaskIds == 1..MaxTasks
\* Entries of s.tasks: a caller's task k, or the DeleteTask for id i a
\* worker sends (k = 0; its ErrorCh is read by no one).
CallerTask(k) == [k |-> k, id |-> "-"]
Delete(i)     == [k |-> 0, id |-> i]
Ok  == "nil"
Err == "err"

\* The task structs, by the fields a handler reads: StartTask's ID (its
\* bundle, stdio paths, labels, checkpoint and runtime go to runtime.New
\* and the worker unread here), AddProcessTask's ID and PID, StatsTask's
\* ID.  Every record carries a pid; only addProcess reads it.
StartTask      == [kind : {"start"}, id : Ids, pid : ExecPids]
AddProcessTask == [kind : {"exec"}, id : Ids, pid : ExecPids]
StatsTask      == [kind : {"stats"}, id : Ids, pid : ExecPids]
Task == StartTask \cup AddProcessTask \cup StatsTask

VARIABLES
  task,        \* task k submitted by a caller: [kind, id, pid]
  nextTask,    \* next caller task to submit
  tasks,       \* s.tasks: caller task numbers and DeleteTasks, FIFO
  sv,          \* the supervisor goroutine: [pc, k]
  containers,  \* s.containers: id -> "none", "new" (runtime.New), "running"
  procs,       \* id -> exec processes started in the container
  startTasks,  \* s.startTasks: task numbers, FIFO
  worker,      \* w -> [pc, k]
  statsRun,    \* tasks whose stats goroutine has not finished
  errCh,       \* k -> values sent on task k's ErrorCh
  resp         \* k -> values sent on its StartResponse / Stat channel

vars == <<task, nextTask, tasks, sv, containers, procs, startTasks, worker,
          statsRun, errCh, resp>>

TypeOK ==
  /\ task \in [TaskIds -> Task]
  /\ nextTask \in 1..MaxTasks + 1
  /\ tasks \in Seq({CallerTask(k) : k \in TaskIds} \cup {Delete(i) : i \in Ids})
  /\ sv \in [pc : {"idle", "sendStart", "exec"}, k : TaskIds]
  /\ containers \in [Ids -> {"none", "new", "running"}]
  /\ procs \in [Ids -> SUBSET ExecPids]
  /\ startTasks \in Seq(TaskIds)
  /\ Len(tasks) <= TaskBuf /\ Len(startTasks) <= StartBuf
  /\ worker \in [Workers -> [pc : {"idle", "start", "sendDelete"}, k : TaskIds]]
  /\ statsRun \subseteq TaskIds
  /\ errCh \in [TaskIds -> Seq({Ok, Err})]
  /\ resp \in [TaskIds -> Seq({Ok})]

Init ==
  /\ task = [k \in TaskIds |-> [kind |-> "start", id |-> CHOOSE i \in Ids : TRUE,
                                pid |-> CHOOSE p \in ExecPids : TRUE]]
  /\ nextTask = 1
  /\ tasks = <<>>
  /\ sv = [pc |-> "idle", k |-> 1]
  /\ containers = [i \in Ids |-> "none"]
  /\ procs = [i \in Ids |-> {}]
  /\ startTasks = <<>>
  /\ worker = [w \in Workers |-> [pc |-> "idle", k |-> 1]]
  /\ statsRun = {}
  /\ errCh = [k \in TaskIds |-> <<>>]
  /\ resp = [k \in TaskIds |-> <<>>]

Answer(k, r) == errCh' = [errCh EXCEPT ![k] = Append(@, r)]
Respond(k)   == resp' = [resp EXCEPT ![k] = Append(@, Ok)]

----
(* Callers                                                                  *)
----
\* A caller builds a task and sends it: s.SendTask blocks while s.tasks is full.
Submit(t) ==
  /\ nextTask <= MaxTasks /\ Len(tasks) < TaskBuf
  /\ task' = [task EXCEPT ![nextTask] = t]
  /\ tasks' = Append(tasks, CallerTask(nextTask))
  /\ nextTask' = nextTask + 1
  /\ UNCHANGED <<sv, containers, procs, startTasks, worker, statsRun, errCh, resp>>

----
(* The handlers                                                             *)
----
\* Supervisor.start: runtime.New creates <state>/<id> and fails if it is
\* there already (or on any other error); on success the container is put
\* in s.containers and the startTask is handed to the workers.
StartHandler(k) ==
  LET i == task[k].id IN
  \/ /\ Answer(k, Err)
     /\ sv' = [sv EXCEPT !.pc = "idle"]
     /\ UNCHANGED containers
  \/ /\ containers[i] = "none"
     /\ containers' = [containers EXCEPT ![i] = "new"]
     /\ sv' = [pc |-> "sendStart", k |-> k]
     /\ UNCHANGED errCh

\* Fault variant of StatsHandler: it answers nil instead of
\* errDeferredResponse, so handleTask answers too.
StatsHandlerNotDeferred(k) ==
  \/ /\ containers[task[k].id] = "none"
     /\ Answer(k, Err) /\ UNCHANGED statsRun
  \/ /\ containers[task[k].id] /= "none"
     /\ statsRun' = statsRun \cup {k} /\ Answer(k, Ok)

\* Supervisor.stats: ErrContainerNotFound, or a goroutine that answers.
StatsHandler(k) ==
  \/ /\ containers[task[k].id] = "none"
     /\ Answer(k, Err) /\ UNCHANGED statsRun
  \/ /\ containers[task[k].id] /= "none"
     /\ statsRun' = statsRun \cup {k} /\ UNCHANGED errCh

\* The supervisor goroutine takes the next task and runs its handler
\* (handleTask).  addProcess looks its container up here and goes on with
\* the blocking Exec in the next step; a DeleteTask removes the container.
LoopTake ==
  LET t == Head(tasks).k IN
  /\ sv.pc = "idle" /\ tasks /= <<>>
  /\ tasks' = Tail(tasks)
  /\ IF t /= 0
     THEN \/ /\ task[t].kind = "start" /\ StartHandler(t)
             /\ UNCHANGED <<procs, statsRun>>
          \/ /\ task[t].kind = "exec" /\ containers[task[t].id] = "none"
             /\ Answer(t, Err) /\ UNCHANGED <<sv, containers, procs, statsRun>>
          \/ /\ task[t].kind = "exec" /\ containers[task[t].id] /= "none"
             /\ sv' = [pc |-> "exec", k |-> t]
             /\ UNCHANGED <<containers, procs, statsRun, errCh>>
          \/ /\ task[t].kind = "stats" /\ StatsHandler(t)
             /\ UNCHANGED <<sv, containers, procs>>
     ELSE /\ containers' = [containers EXCEPT ![Head(tasks).id] = "none"]
          /\ procs' = [procs EXCEPT ![Head(tasks).id] = {}]
          /\ UNCHANGED <<sv, statsRun, errCh>>
  /\ UNCHANGED <<task, nextTask, startTasks, worker, resp>>

\* Fault variant of LoopSendStart: the send does not wait for room.
LoopSendStartNoWait ==
  /\ sv.pc = "sendStart"
  /\ startTasks' = Append(startTasks, sv.k)
  /\ sv' = [sv EXCEPT !.pc = "idle"]
  /\ UNCHANGED <<task, nextTask, tasks, containers, procs, worker, statsRun,
                 errCh, resp>>

\* s.startTasks <- task; return errDeferredResponse.  Blocks while full.
LoopSendStart ==
  /\ sv.pc = "sendStart" /\ Len(startTasks) < StartBuf
  /\ startTasks' = Append(startTasks, sv.k)
  /\ sv' = [sv EXCEPT !.pc = "idle"]
  /\ UNCHANGED <<task, nextTask, tasks, containers, procs, worker, statsRun,
                 errCh, resp>>

\* The rest of addProcess once Exec returns: monitorProcess,
\* newExecSyncChannel, StartResponse, StateStartProcess; handleTask then
\* answers the returned error.
ExecDone(k) ==
  LET i == task[k].id IN
  \/ /\ Answer(k, Err) /\ UNCHANGED <<procs, resp>>   \* Exec or monitorProcess fails
  \/ /\ procs' = [procs EXCEPT ![i] = @ \cup {task[k].pid}]
     /\ Respond(k) /\ Answer(k, Ok)

LoopExec ==
  /\ sv.pc = "exec"
  /\ ExecDone(sv.k)
  /\ sv' = [sv EXCEPT !.pc = "idle"]
  /\ UNCHANGED <<task, nextTask, tasks, containers, startTasks, worker, statsRun>>

----
(* Workers and the stats goroutine                                          *)
----
WorkerTake(w) ==
  /\ worker[w].pc = "idle" /\ startTasks /= <<>>
  /\ worker' = [worker EXCEPT ![w] = [pc |-> "start", k |-> Head(startTasks)]]
  /\ startTasks' = Tail(startTasks)
  /\ UNCHANGED <<task, nextTask, tasks, sv, containers, procs, statsRun, errCh, resp>>

\* container.Start and the process start: on success answer nil and the
\* StartResponse; on error answer it and go on to send a DeleteTask.
WorkerStart(w) ==
  LET k == worker[w].k IN
  /\ worker[w].pc = "start"
  /\ \/ /\ containers' = [containers EXCEPT ![task[k].id] = "running"]
        /\ Answer(k, Ok) /\ Respond(k)
        /\ worker' = [worker EXCEPT ![w].pc = "idle"]
     \/ /\ Answer(k, Err)
        /\ worker' = [worker EXCEPT ![w].pc = "sendDelete"]
        /\ UNCHANGED <<containers, resp>>
  /\ UNCHANGED <<task, nextTask, tasks, sv, procs, startTasks, statsRun>>

\* w.s.SendTask(&DeleteTask{...}): blocks while s.tasks is full.
WorkerSendDelete(w) ==
  /\ worker[w].pc = "sendDelete" /\ Len(tasks) < TaskBuf
  /\ tasks' = Append(tasks, Delete(task[worker[w].k].id))
  /\ worker' = [worker EXCEPT ![w].pc = "idle"]
  /\ UNCHANGED <<task, nextTask, sv, containers, procs, startTasks, statsRun,
                 errCh, resp>>

\* The stats goroutine: i.container.Stats(); ErrorCh <- err, or ErrorCh <- nil
\* then Stat <- s.
StatsDone(k) ==
  /\ k \in statsRun
  /\ statsRun' = statsRun \ {k}
  /\ \/ Answer(k, Err) /\ UNCHANGED resp
     \/ Answer(k, Ok) /\ Respond(k)
  /\ UNCHANGED <<task, nextTask, tasks, sv, containers, procs, startTasks, worker>>

----
Next ==
  \/ \E t \in Task : Submit(t)
  \/ LoopTake \/ LoopSendStart \/ LoopExec
  \/ \E w \in Workers : WorkerTake(w) \/ WorkerStart(w) \/ WorkerSendDelete(w)
  \/ \E k \in TaskIds : StatsDone(k)

(* The supervisor goroutine, the workers and the stats goroutines all run *)
(* until they block; callers are not obliged to submit.                   *)
Fairness ==
  /\ WF_vars(LoopTake) /\ WF_vars(LoopSendStart) /\ WF_vars(LoopExec)
  /\ \A w \in Workers : WF_vars(WorkerTake(w) \/ WorkerStart(w) \/ WorkerSendDelete(w))
  /\ \A k \in TaskIds : WF_vars(StatsDone(k))

Spec == Init /\ [][Next]_vars /\ Fairness

----
(* Properties                                                              *)
----
Submitted == 1..nextTask - 1

\* The refinement mapping: a task's future is pending while its ErrorCh is
\* empty, fulfilled with the one value sent, and "many" (no state of
\* TaskFuture) once a second value is sent.
FutureAnswer(k) ==
  IF errCh[k] = <<>> THEN "none" ELSE IF Len(errCh[k]) = 1 THEN errCh[k][1] ELSE "many"

TF == INSTANCE TaskFuture WITH
        Tasks <- TaskIds, submitted <- Submitted,
        answer <- [k \in TaskIds |-> FutureAnswer(k)],
        delivered <- [k \in TaskIds |-> Len(resp[k])]

\* The supervisor implements the future contract of spec 9: the loop,
\* the start workers and the stats goroutines together answer every
\* submitted task exactly once, send the StartResponse or Stat in the same
\* step as a nil answer and never with an error, and under the fairness of
\* the goroutines every task is eventually answered.
ImplementsTaskFuture == TF!Spec

====
