---- MODULE GrpcStream ----
(* grpc's client stream (src/vendor/google.golang.org/grpc/stream.go).    *)
(*                                                                         *)
(* newClientStream gets a transport from the balancer (with its put func)  *)
(* and opens a stream on it, retrying while a non-failFast call meets a    *)
(* closing or unavailable connection.  It then starts a watcher goroutine  *)
(* that waits for the transport error, the end of the stream, a GOAWAY or  *)
(* the cancelled context.  The caller's goroutines use SendMsg, CloseSend, *)
(* RecvMsg and Header concurrently with the watcher.  Two clean-ups are    *)
(* shared by all of them:                                                  *)
(*  - finish: under cs.mu, run the after hooks, call put once (put = nil), *)
(*    and finish the trace once (tr = nil), as OK for nil and io.EOF and   *)
(*    as an error otherwise;                                               *)
(*  - closeTransportStream: under cs.mu check and set closed, then call    *)
(*    t.CloseStream.                                                       *)
(* The transport (not under src/) is the environment: the server sends     *)
(* messages and ends the stream with a status, and the connection can      *)
(* fail, go away or have its context cancelled.  A Write on a stream that  *)
(* is done returns io.EOF (the "rpc is early finished" of SendMsg).        *)
EXTENDS Naturals, Sequences

CONSTANTS
  MaxAttempts,  \* getTransport calls before the context's deadline ends the wait
  MaxMsgs,      \* messages the server sends
  MaxSends,     \* messages the sending goroutine sends
  TracingModes  \* values of EnableTracing (true by default)

Errs == {"nil", "eof", "conn", "ctx", "drain", "status", "internal"}
\* finish records the trace as OK for nil and io.EOF.
TraceOk(e) == e \in {"nil", "eof"}
Call == [op : {"finish", "close"}, err : Errs]
Actors == {"watcher", "send", "recv"}

VARIABLES
  desc,       \* StreamDesc and call info: [client, server, failFast, tracing]
  npc,        \* newClientStream: "get", "newstream", "ready", "failed"
  attempts,   \* getTransport calls so far
  puts,       \* i -> calls of the put func of the i-th transport obtained
  csPut,      \* cs.put: index into puts, 0 for nil
  closed,     \* cs.closed
  closeCalls, \* t.CloseStream calls
  tr,         \* trInfo.tr: "off" (no tracing), "live", "done"
  trOk,       \* how the trace was finished: "none", "ok", "err"
  srv,        \* the stream's end: "open", or the status "ok" / "err"
  msgs,       \* messages received by the transport, not yet read
  sent,       \* messages the server sent
  net,        \* transport events that happened: "terr", "goaway", "ctx"
  pc,         \* actor -> "off", "run", "done"
  todo,       \* actor -> the finish / closeTransportStream calls it still makes
  nsent       \* SendMsg calls that returned

vars == <<desc, npc, attempts, puts, csPut, closed, closeCalls, tr, trOk, srv,
          msgs, sent, net, pc, todo, nsent>>
env  == <<srv, msgs, sent, net>>

\* The variables' types.  No run checks it: its only bounds beyond the
\* code's own are those of the model's counters (attempts, msgs, nsent).
TypeOK ==
  /\ desc \in [client : BOOLEAN, server : BOOLEAN, failFast : BOOLEAN, tracing : BOOLEAN]
  /\ npc \in {"get", "newstream", "ready", "failed"}
  /\ attempts \in 0..MaxAttempts
  /\ puts \in Seq(Nat) /\ csPut \in 0..Len(puts)
  /\ closed \in BOOLEAN /\ closeCalls \in Nat
  /\ tr \in {"off", "live", "done"} /\ trOk \in {"none", "ok", "err"}
  /\ srv \in {"open", "ok", "err"} /\ msgs \in 0..MaxMsgs /\ sent \in 0..MaxMsgs
  /\ net \subseteq {"terr", "goaway", "ctx"}
  /\ pc \in [Actors -> {"off", "run", "done"}]
  /\ todo \in [Actors -> Seq(Call)]
  /\ nsent \in 0..MaxSends

\* At least one of ServerStreams and ClientStreams is true.  The trace is
\* created before the transport loop.
Init ==
  /\ desc \in {d \in [client : BOOLEAN, server : BOOLEAN, failFast : BOOLEAN,
                      tracing : TracingModes] : d.client \/ d.server}
  /\ npc = "get" /\ attempts = 0 /\ puts = <<>> /\ csPut = 0
  /\ closed = FALSE /\ closeCalls = 0
  /\ tr = IF desc.tracing THEN "live" ELSE "off"
  /\ trOk = "none"
  /\ srv = "open" /\ msgs = 0 /\ sent = 0 /\ net = {}
  /\ pc = [a \in Actors |-> "off"]
  /\ todo = [a \in Actors |-> <<>>]
  /\ nsent = 0

----
(* finish and closeTransportStream                                         *)

\* cs.finish(err), one step under cs.mu.  The after hooks write the call's
\* header and trailer into the caller's variables and are left out.
Finish(e) ==
  /\ puts' = IF csPut /= 0 THEN [puts EXCEPT ![csPut] = @ + 1] ELSE puts
  /\ csPut' = 0
  /\ IF tr = "live"
       THEN tr' = "done" /\ trOk' = IF TraceOk(e) THEN "ok" ELSE "err"
       ELSE UNCHANGED <<tr, trOk>>

\* cs.closeTransportStream(err): the check and set of closed under cs.mu,
\* then t.CloseStream.
CloseTransportStream ==
  IF closed THEN UNCHANGED <<closed, closeCalls>>
  ELSE closed' = TRUE /\ closeCalls' = closeCalls + 1

Fin(e) == [op |-> "finish", err |-> e]
Cls(e) == [op |-> "close", err |-> e]

\* An actor makes its next clean-up call.
RunTodo(a) ==
  /\ todo[a] /= <<>>
  /\ todo' = [todo EXCEPT ![a] = Tail(@)]
  /\ IF Head(todo[a]).op = "finish"
       THEN Finish(Head(todo[a]).err) /\ UNCHANGED <<closed, closeCalls>>
       ELSE CloseTransportStream /\ UNCHANGED <<puts, csPut, tr, trOk>>
  /\ UNCHANGED <<desc, npc, attempts, pc, nsent>> /\ UNCHANGED env

----
(* newClientStream                                                         *)

\* The deferred trace finish of newClientStream when it returns an error.
FailNew ==
  /\ npc' = "failed"
  /\ IF tr = "live" THEN tr' = "done" /\ trOk' = "err" ELSE UNCHANGED <<tr, trOk>>

\* cc.getTransport.  An rpcError (the context's deadline among them) and
\* any error but errConnClosing / errConnUnavailable are returned; those two
\* are returned for failFast and retried otherwise.
GetTransport ==
  /\ npc = "get" /\ attempts < MaxAttempts
  /\ attempts' = attempts + 1
  /\ \/ /\ puts' = Append(puts, 0) /\ npc' = "newstream"
        /\ UNCHANGED <<tr, trOk>>
     \/ FailNew /\ UNCHANGED puts                                 \* rpcError, other
     \/ /\ ~desc.failFast /\ UNCHANGED <<npc, puts, tr, trOk>>    \* closing: retry
  /\ UNCHANGED <<desc, csPut, closed, closeCalls, pc, todo, nsent>> /\ UNCHANGED env

\* The context's deadline ends a wait that is still retrying.
GetTransportDeadline ==
  /\ npc = "get" /\ attempts = MaxAttempts
  /\ FailNew
  /\ UNCHANGED <<desc, attempts, puts, csPut, closed, closeCalls, pc, todo, nsent>>
  /\ UNCHANGED env

NewStreamNoPut ==
  /\ npc = "newstream"
  /\ \/ /\ npc' = "ready" /\ csPut' = Len(puts)
        /\ pc' = [a \in Actors |-> "run"]
        /\ UNCHANGED <<puts, tr, trOk>>
     \/ /\ UNCHANGED <<puts, csPut, pc>>
        /\ \/ FailNew
           \/ ~desc.failFast /\ npc' = "get" /\ UNCHANGED <<tr, trOk>>
  /\ UNCHANGED <<desc, attempts, closed, closeCalls, todo, nsent>> /\ UNCHANGED env

\* t.NewStream.  On success the clientStream takes the put func and the
\* watcher goroutine starts.  On error put() is called and put = nil; a
\* ConnectionError or ErrStreamDrain is retried unless failFast, any other
\* error is returned.
NewStream ==
  /\ npc = "newstream"
  /\ \/ /\ npc' = "ready" /\ csPut' = Len(puts)
        /\ pc' = [a \in Actors |-> "run"]
        /\ UNCHANGED <<puts, tr, trOk>>
     \/ /\ puts' = [puts EXCEPT ![Len(puts)] = @ + 1]
        /\ UNCHANGED <<csPut, pc>>
        /\ \/ FailNew
           \/ ~desc.failFast /\ npc' = "get" /\ UNCHANGED <<tr, trOk>>
  /\ UNCHANGED <<desc, attempts, closed, closeCalls, todo, nsent>> /\ UNCHANGED env

----
(* The watcher goroutine                                                   *)

\* select over t.Error(), s.Done(), s.GoAway() and s.Context().Done(): any
\* ready case may be taken.  A transport error exits with no clean-up.
Watch ==
  /\ pc["watcher"] = "run"
  /\ pc' = [pc EXCEPT !["watcher"] = "done"]
  /\ \/ "terr" \in net /\ UNCHANGED todo
     \/ /\ srv /= "open"
        /\ todo' = [todo EXCEPT !["watcher"] =
                      <<Fin(IF srv = "ok" THEN "nil" ELSE "status"), Cls("nil")>>]
     \/ "goaway" \in net /\ todo' = [todo EXCEPT !["watcher"] = <<Fin("drain"), Cls("drain")>>]
     \/ "ctx" \in net /\ todo' = [todo EXCEPT !["watcher"] = <<Fin("ctx"), Cls("ctx")>>]
  /\ UNCHANGED <<desc, npc, attempts, puts, csPut, closed, closeCalls, tr, trOk, nsent>>
  /\ UNCHANGED env
----
(* The caller's goroutines                                                 *)

\* What recv returns from the transport; nothing while it would block.
RecvResults(m) ==
  (IF m > 0 THEN {"nil"} ELSE {}) \cup (IF m = 0 /\ srv /= "open" THEN {"eof"} ELSE {})
  \cup (IF "terr" \in net THEN {"conn"} ELSE {}) \cup (IF "ctx" \in net THEN {"ctx"} ELSE {})

\* What t.Write returns: nil on an open stream, io.EOF on a finished one.
WriteResults ==
  (IF srv = "open" /\ net \cap {"terr", "ctx"} = {} THEN {"nil"} ELSE {})
  \cup (IF srv /= "open" THEN {"eof"} ELSE {})
  \cup (IF "terr" \in net THEN {"conn"} ELSE {}) \cup (IF "ctx" \in net THEN {"ctx"} ELSE {})

\* The status a stream ended with, as RecvMsg reports it at io.EOF.
EofErr == IF srv = "ok" THEN "eof" ELSE "status"

UserCan(a) == npc = "ready" /\ pc[a] = "run" /\ todo[a] = <<>>

\* Ends a's calls with the clean-ups its return makes.
Return(a, calls) ==
  /\ pc' = [pc EXCEPT ![a] = "done"] /\ todo' = [todo EXCEPT ![a] = calls]

RecvCallsNoConnFinish(e) ==
  CASE e = "eof" -> <<Cls("eof"), Fin(EofErr)>> [] e = "conn" -> <<>> [] OTHER -> <<Cls(e), Fin(e)>>

\* The clean-ups of RecvMsg's error return: the stream is closed unless the
\* error is a ConnectionError, then the deferred finish runs with the status
\* at io.EOF and with the error otherwise.
RecvCalls(e) ==
  CASE e = "eof" -> <<Cls("eof"), Fin(EofErr)>> [] e = "conn" -> <<Fin("conn")>> [] OTHER -> <<Cls(e), Fin(e)>>

\* RecvMsg.  A message is returned, except for a client-streaming RPC,
\* which reads on: a second message is a protocol violation, io.EOF with
\* an OK status is finished explicitly and returns nil.  At io.EOF and on
\* errors other than a ConnectionError the stream is closed, and the
\* deferred finish runs with the error returned.
RecvMsg ==
  /\ UserCan("recv")
  /\ \E e \in RecvResults(msgs) :
       \/ /\ e = "nil" /\ ~(desc.client /\ ~desc.server)
          /\ msgs' = msgs - 1 /\ UNCHANGED <<pc, todo>>
       \/ /\ e = "nil" /\ desc.client /\ ~desc.server
          /\ \E e2 \in RecvResults(msgs - 1) :
               /\ msgs' = IF e2 = "nil" THEN msgs - 2 ELSE msgs - 1
               /\ Return("recv", CASE e2 = "nil" -> <<Cls("nil"), Fin("internal")>>
                                   [] e2 = "eof" -> <<Cls("eof"), Fin(EofErr)>>
                                   [] OTHER      -> <<Cls(e2), Fin(e2)>>)
       \/ e /= "nil" /\ Return("recv", RecvCalls(e)) /\ UNCHANGED msgs
  /\ UNCHANGED <<desc, npc, attempts, puts, csPut, closed, closeCalls, tr, trOk,
                 srv, sent, net, nsent>>

\* SendMsg.  Any error is finished first (deferred); io.EOF then returns,
\* as nil for a server-streaming RPC; a ConnectionError is returned as it
\* is; other errors, an encode failure among them, also close the stream.
SendMsg ==
  /\ UserCan("send") /\ nsent < MaxSends
  /\ \E e \in WriteResults \cup {"internal"} :
       \/ e = "nil" /\ nsent' = nsent + 1 /\ UNCHANGED <<pc, todo>>
       \/ /\ e = "eof" /\ ~desc.client /\ desc.server
          /\ nsent' = nsent + 1 /\ todo' = [todo EXCEPT !["send"] = <<Fin("eof")>>]
          /\ UNCHANGED pc
       \/ /\ e = "eof" /\ desc.client
          /\ Return("send", <<Fin("eof")>>) /\ UNCHANGED nsent
       \/ e = "conn" /\ Return("send", <<Fin("conn")>>) /\ UNCHANGED nsent
       \/ e \in {"ctx", "internal"} /\ Return("send", <<Fin(e), Cls(e)>>) /\ UNCHANGED nsent
  /\ UNCHANGED <<desc, npc, attempts, puts, csPut, closed, closeCalls, tr, trOk>>
  /\ UNCHANGED env

\* CloseSend: the last Write.  nil and io.EOF return nil with no clean-up.
CloseSend ==
  /\ UserCan("send")
  /\ \E e \in WriteResults :
       Return("send", CASE e \in {"nil", "eof"} -> <<>>
                        [] e = "conn"           -> <<Fin("conn")>>
                        [] OTHER                -> <<Cls(e), Fin(e)>>)
  /\ UNCHANGED <<desc, npc, attempts, puts, csPut, closed, closeCalls, tr, trOk, nsent>>
  /\ UNCHANGED env

\* Header: an error other than a ConnectionError closes the stream.
Header ==
  /\ UserCan("recv") /\ "ctx" \in net /\ ~closed
  /\ todo' = [todo EXCEPT !["recv"] = <<Cls("ctx")>>]
  /\ UNCHANGED <<desc, npc, attempts, puts, csPut, closed, closeCalls, tr, trOk,
                 pc, nsent>>
  /\ UNCHANGED env

----
(* The transport                                                           *)

ServerSend ==
  /\ npc = "ready" /\ srv = "open" /\ net \cap {"terr", "ctx"} = {} /\ sent < MaxMsgs
  /\ sent' = sent + 1 /\ msgs' = msgs + 1
  /\ UNCHANGED <<srv, net>>

ServerEnd ==
  /\ npc = "ready" /\ srv = "open" /\ "terr" \notin net
  /\ srv' \in {"ok", "err"}
  /\ UNCHANGED <<msgs, sent, net>>

NetEvent ==
  /\ npc = "ready"
  /\ \E e \in {"terr", "goaway", "ctx"} \ net : net' = net \cup {e}
  /\ UNCHANGED <<srv, msgs, sent>>

Environment ==
  /\ ServerSend \/ ServerEnd \/ NetEvent
  /\ UNCHANGED <<desc, npc, attempts, puts, csPut, closed, closeCalls, tr, trOk,
                 pc, todo, nsent>>

Next ==
  \/ GetTransport \/ GetTransportDeadline \/ NewStream
  \/ Watch \/ RecvMsg \/ SendMsg \/ CloseSend \/ Header
  \/ \E a \in Actors : RunTodo(a)
  \/ Environment

\* The caller of NewClientStream, the watcher and every clean-up in progress
\* run on; the receiving goroutine calls RecvMsg until it returns an error
\* (the Stream contract: RecvMsg returns io.EOF or an error when the stream
\* is done).  Neither the server, the network nor the sender must act.
Fairness ==
  /\ WF_vars(GetTransport \/ GetTransportDeadline \/ NewStream)
  /\ WF_vars(Watch) /\ WF_vars(RecvMsg)
  /\ \A a \in Actors : WF_vars(RunTodo(a))

Spec == Init /\ [][Next]_vars /\ Fairness

----
(* Properties                                                              *)

\* When newClientStream returns an error, every transport it obtained on
\* any attempt has been given back to the balancer and the trace is
\* finished (the deferred tr.Finish).
NoLeakOnError ==
  npc = "failed" => (\A i \in DOMAIN puts : puts[i] = 1) /\ tr /= "live"

Ended == srv /= "open" \/ net /= {}

\* Once the stream has ended in any way (status, transport error, GOAWAY,
\* cancelled context), the balancer gets its put back and the trace is
\* finished, as long as the receiver reads until RecvMsg fails.
StreamReleased ==
  (npc = "ready" /\ Ended) ~> ((\A i \in DOMAIN puts : puts[i] = 1) /\ tr /= "live")
====
