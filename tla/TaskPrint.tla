---- MODULE TaskPrint ----
(* The task table of `docker service ps`, `docker node ps` and            *)
(* `docker stack ps` (src/cli/command/task/print.go).                      *)
(*                                                                         *)
(* Print sorts the tasks with sort.Stable(tasksBySlot(tasks)) and writes    *)
(* one row per task.  A row is indented (" \_ name") when the task before   *)
(* it has the same ServiceID and Slot: it shows the history of a task.     *)
(* The node of every task is resolved; the first failure ends the table    *)
(* with an error, and the deferred Flush still writes the rows so far.     *)
(* PrintQuiet sorts the same way and writes the task ids.                  *)
(*                                                                         *)
(* A task is a record; its id is its position in the list the daemon       *)
(* returned.  Names, images, errors, ports and times are formatting and    *)
(* are left out.  A global service's tasks all have Slot 0 and are told    *)
(* apart by their node.                                                    *)
EXTENDS Naturals, Sequences

Seqs == INSTANCE SequencesExt

CONSTANTS
  Services,   \* service ids
  Slots,      \* slot numbers; 0 is the slot of every task of a global service
  Times,      \* creation times (Meta.CreatedAt), as numbers
  Nodes,      \* node ids
  BadNodes,   \* nodes the id resolver fails on
  MaxTasks    \* longest task list

ASSUME Slots \subseteq Nat /\ Times \subseteq Nat /\ BadNodes \subseteq Nodes

Attrs == [service : Services, slot : Slots, created : Times, node : Nodes]
Task  == [id : 1..MaxTasks, service : Services, slot : Slots, created : Times, node : Nodes]
Row   == [id : 1..MaxTasks, indent : BOOLEAN]

VARIABLES
  tasks,    \* the []swarm.Task handed to Print
  call,     \* which of Print and PrintQuiet ran ("none" before the call)
  out,      \* rows written to the output
  result    \* the error returned: "nil" or "err"

vars == <<tasks, call, out, result>>

TypeOK ==
  /\ tasks \in Seq(Task) /\ Len(tasks) <= MaxTasks
  /\ out \in Seq(Row)
  /\ call \in {"none", "Print", "PrintQuiet"}
  /\ result \in {"nil", "err"}

(* The daemon returns any list of tasks.                                   *)
Init ==
  /\ \E n \in 0..MaxTasks : \E a \in [1..n -> Attrs] :
        tasks = [i \in 1..n |-> [id |-> i, service |-> a[i].service,
                  slot |-> a[i].slot, created |-> a[i].created, node |-> a[i].node]]
  /\ call = "none"
  /\ out = <<>>
  /\ result = "nil"

----
(* tasksBySlot                                                             *)

\* Less: by slot; within a slot the most recent first.
LessCreatedAsc(a, b) ==
  IF a.slot /= b.slot THEN a.slot < b.slot ELSE a.created < b.created
Less(a, b) ==
  IF a.slot /= b.slot THEN a.slot < b.slot ELSE b.created < a.created

SwapAt(s, i, j) == [s EXCEPT ![i] = s[j], ![j] = s[i]]

\* sort.Stable on fewer than 20 elements is insertionSort(data, 0, n):
\* each element is swapped leftwards while it is Less than its left
\* neighbour.
RECURSIVE SiftLeft(_, _)
SiftLeft(s, j) ==
  IF j > 1 /\ Less(s[j], s[j-1]) THEN SiftLeft(SwapAt(s, j, j-1), j-1) ELSE s

RECURSIVE SortFrom(_, _)
SortFrom(s, i) == IF i > Len(s) THEN s ELSE SortFrom(SiftLeft(s, i), i+1)

StableSort(s) == SortFrom(s, 2)

----
(* print                                                                   *)

\* prevService and prevSlot start as "" and 0.
NoPrev == [service |-> "", slot |-> 0]

\* The rows of print for a sorted list: indented when the previous task has
\* the same ServiceID and Slot.
Rows(s) ==
  [i \in 1..Len(s) |->
     LET prev == IF i = 1 THEN NoPrev ELSE s[i-1]
     IN  [id |-> s[i].id,
          indent |-> prev.service = s[i].service /\ prev.slot = s[i].slot]]

\* The loop stops at the first task whose node does not resolve.
Unresolved(s) == Seqs!SelectInSeq(s, LAMBDA t : t.node \in BadNodes)

\* task.Print (the name Print is reserved here).
PrintTasks ==
  /\ call = "none" /\ call' = "Print"
  /\ LET s == StableSort(tasks)
         k == Unresolved(s)
     IN  IF k = 0
           THEN out' = Rows(s) /\ result' = "nil"
           ELSE out' = SubSeq(Rows(s), 1, k-1) /\ result' = "err"
  /\ UNCHANGED tasks

PrintQuietNodeID ==
  /\ call = "none" /\ call' = "PrintQuiet"
  /\ out' = [i \in 1..Len(tasks) |-> [id |-> StableSort(tasks)[i].node, indent |-> FALSE]]
  /\ result' = "nil"
  /\ UNCHANGED tasks

\* PrintQuiet: the ids of the sorted tasks.
PrintQuiet ==
  /\ call = "none" /\ call' = "PrintQuiet"
  /\ out' = [i \in 1..Len(tasks) |-> [id |-> StableSort(tasks)[i].id, indent |-> FALSE]]
  /\ result' = "nil"
  /\ UNCHANGED tasks

Done == call /= "none" /\ UNCHANGED vars

Next == PrintTasks \/ PrintQuiet \/ Done

Spec == Init /\ [][Next]_vars

----
(* Properties                                                              *)

TaskOf(r) == tasks[r.id]

\* The task a row stands for: a replicated task is <service>.<slot>, a
\* global one (slot 0) is <service>.<node>.
Instance(t) == IF t.slot = 0 THEN <<t.service, t.node>> ELSE <<t.service, t.slot>>

\* The rows of one task instance are contiguous, only the first is not
\* indented, and a row is indented only under a row of its own instance.
Grouped ==
  \A i \in 1..Len(out) :
     /\ out[i].indent <=>
          (i > 1 /\ Instance(TaskOf(out[i-1])) = Instance(TaskOf(out[i])))
     /\ \A j \in 1..i-1 :
          Instance(TaskOf(out[j])) = Instance(TaskOf(out[i])) => out[i].indent

\* The table shows each task's history under it (print.go:103-109), for
\* every list Print is given (docker service ps, node ps, stack ps).
HistoryGrouped == call = "Print" => Grouped

\* `docker service ps` of one replicated service: the sort (slot, then most
\* recent first) and the indentation of print together show each slot's
\* history under its current task: the rows of a slot are contiguous, the
\* unindented one is the most recently created, and the older ones are
\* indented under it.  This takes Less, sort.Stable's insertion order and
\* print's prevService/prevSlot comparison to agree.
ReplicatedHistoryGrouped ==
  (call = "Print" /\ \A i, j \in DOMAIN tasks :
       tasks[i].service = tasks[j].service /\ tasks[i].slot /= 0) =>
    /\ Grouped
    /\ \A i, j \in 1..Len(out) :
          (~out[i].indent /\ i < j /\ Instance(TaskOf(out[i])) = Instance(TaskOf(out[j])))
             => TaskOf(out[j]).created <= TaskOf(out[i]).created
====
