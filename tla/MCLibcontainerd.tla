---- MODULE MCLibcontainerd ----
(* Model-checking harness for Libcontainerd: small constants, and the      *)
(* idle state the daemon reaches once the bounded callers are done.        *)
EXTENDS Libcontainerd

CONSTANTS c1, c2, a1, a2, p1, w1, s1

MCIds      == {c1}
MCIds2     == {c1, c2}
MCCreators == {a1, a2}
MCCreators1 == {a1}
MCProcs    == {p1}
MCNoProcs  == {}
MCWaiters  == {w1}
MCNoWaiters == {}
MCSignallers == {s1}
MCNoSignallers == {}

\* Nothing left to do: the bounded Create calls are spent and returned, the
\* shim has no running container, every event and callback is consumed.
\* The daemon then waits for more work; this step keeps that state from
\* being reported as a deadlock while a real wait-forever still is one.
Quiescent ==
  /\ nextGen > MaxGen
  /\ \A a \in Creators : cr[a].pc = "idle"
  /\ stream = <<>> /\ loop.pc = "recv"
  /\ \A i \in Ids : q[i] = <<>>
  /\ \A g \in Gens : shim[g] \notin {"running", "paused"}
                     /\ stdin[g] \notin {"open", "waiting"}

Idle == Quiescent /\ UNCHANGED vars

MCNext == Next \/ Idle

MCSpec == Init /\ [][MCNext]_vars /\ Fairness
====
