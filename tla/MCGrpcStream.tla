---- MODULE MCGrpcStream ----
(* Model-checking harness for GrpcStream.                                  *)
EXTENDS GrpcStream

\* Nothing is left to do but wait for the server or the network, or the
\* stream could not be created.
Idle ==
  /\ npc \in {"ready", "failed"}
  /\ \A a \in Actors : todo[a] = <<>>
  /\ UNCHANGED vars

MCSpec == Init /\ [][Next \/ Idle]_vars /\ Fairness
====
