---- MODULE MCSupervisor ----
(* Model-checking harness for Supervisor.                                  *)
EXTENDS Supervisor

CONSTANTS c1, c2, p1, w1, w2

MCIds     == {c1, c2}
MCPids    == {p1}
MCWorkers == {w1}

\* All bounded callers have sent their tasks and everything is answered and
\* drained: the supervisor waits for the next task.
Quiescent ==
  /\ nextTask > MaxTasks /\ tasks = <<>> /\ startTasks = <<>>
  /\ sv.pc = "idle" /\ statsRun = {}
  /\ \A w \in Workers : worker[w].pc = "idle"

Idle == Quiescent /\ UNCHANGED vars

MCSpec == Init /\ [][Next \/ Idle]_vars /\ Fairness
====
