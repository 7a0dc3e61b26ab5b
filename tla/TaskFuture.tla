---- MODULE TaskFuture ----
(* What the supervisor promises a caller of SendTask (spec 9): every task  *)
(* is a future.  It is fulfilled exactly once, with nil or an error; a nil *)
(* fulfilment carries the task's result value (StartResponse or Stat) and  *)
(* an error carries none.  Every submitted task is eventually fulfilled.   *)
(* Who fulfils it (handleTask, a start worker, a stats goroutine) is not   *)
(* visible at this level.                                                  *)
CONSTANTS
  Tasks,    \* task handles
  Ok,       \* the nil answer
  Err       \* an error answer

VARIABLES
  submitted,  \* the tasks sent so far
  answer,     \* task -> "none", Ok or Err
  delivered   \* task -> number of result values sent with the answer

avars == <<submitted, answer, delivered>>

TypeOK ==
  /\ submitted \subseteq Tasks
  /\ answer \in [Tasks -> {"none", Ok, Err}]
  /\ delivered \in [Tasks -> {0, 1}]

Init ==
  /\ submitted = {}
  /\ answer = [k \in Tasks |-> "none"]
  /\ delivered = [k \in Tasks |-> 0]

Send(k) ==
  /\ k \notin submitted
  /\ submitted' = submitted \cup {k}
  /\ UNCHANGED <<answer, delivered>>

\* The one fulfilment of a pending future, with its value exactly when nil.
Fulfil(k) ==
  /\ k \in submitted /\ answer[k] = "none"
  /\ \/ answer' = [answer EXCEPT ![k] = Err] /\ UNCHANGED delivered
     \/ /\ answer' = [answer EXCEPT ![k] = Ok]
        /\ delivered' = [delivered EXCEPT ![k] = 1]
  /\ UNCHANGED submitted

Next == \E k \in Tasks : Send(k) \/ Fulfil(k)

Spec == Init /\ [][Next]_avars /\ \A k \in Tasks : WF_avars(Fulfil(k))
====
