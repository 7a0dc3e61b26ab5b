---- MODULE MCDaemonCreate ----
EXTENDS DaemonCreate, TLC

CONSTANTS r1, r2, n1, n2, e1, e2, local, other

MCReqs     == {r1, r2}
MCReqs1    == {r1}
MCNames    == {n1, n2}
MCExisting == {e1, e2}
\* e1 runs with its own label, e2 with labels disabled.
MCExistingLabel == (e1 :> e1) @@ (e2 :> NoLabel)

\* A valid body: the image supplies the command.
Base == [config |-> "set", entrypoint |-> "none", cmd |-> FALSE, image |-> "present",
         endpoints |-> 0, ipv4 |-> "", ipv6 |-> "", ipc |-> "", pid |-> "",
         privileged |-> FALSE]

\* Bodies for concurrent requests: valid, joining the other request's
\* container, joining two existing containers, an IPv4-mapped address given
\* as the IPv6 address, and --entrypoint "" without a command.
MCSpecs ==
  { Base,
    [Base EXCEPT !.ipc = n1],
    [Base EXCEPT !.ipc = e1, !.pid = e2],
    [Base EXCEPT !.endpoints = 1, !.ipv4 = "dotted", !.ipv6 = "mapped"],
    [Base EXCEPT !.entrypoint = "empty"] }


MCVolumes == {"", "v1"}
MCDrivers == {local, other}
MCGenNames == <<"3f2a9c">>

Quiescent == \A r \in Reqs : req[r].pc = "done"
Idle == Quiescent /\ UNCHANGED vars
MCNext == Next \/ Idle
MCSpec == Init /\ [][MCNext]_vars
====
