------------------------------- MODULE Session -------------------------------
(***************************************************************************)
(* One Session of ServerCore on its socket: overlapped connect, accept,     *)
(* receive, send and disconnect, the completions that the worker threads    *)
(* dequeue from the completion port, the threads that call Send, Broadcast  *)
(* and Disconnect at any time, and the session set of its Service.          *)
(*                                                                          *)
(* todo[t] is what thread t still has to do, in the order it will do it:    *)
(* the names of the steps of the functions it is in, the innermost first.   *)
(* The kernel and the peer (Winsock) are modelled as session.cpp uses them. *)
(* A definition marked "Slip" is a mistake one could make in the definition *)
(* below it, kept to see that the properties notice.                        *)
(***************************************************************************)
EXTENDS Integers, Sequences, FiniteSets, SequencesExt

CONSTANTS
  Threads,   \* the threads that work for the session or call it
  NoThread,
  MaxPackets \* bound: the SendBuffers that are ever made

ASSUME SessionAssumption ==
  /\ NoThread \notin Threads
  /\ MaxPackets \in Nat

\* The SendBuffers, numbered as they are made; each is sent once.
Packets == 1 .. MaxPackets
NoPacket == 0

VARIABLES
  connected,      \* _connected
  lock,           \* the thread inside the session's WRITE_LOCK, or NoThread
  sendQueue,      \* _send_queue
  registered,     \* _send_registered
  sendBuffers,    \* _send_event._send_buffers
  owner,          \* the events whose _owner is set
  inSessions,     \* the session is in Service::_sessions
  serviceLock,    \* the thread inside the service's WRITE_LOCK, or NoThread
  todo, arg,      \* per thread: the steps ahead, the packet it sends
  made,           \* how many packets were made
  socket,         \* the state of the socket
  pending,        \* the events of the operations the kernel is at
  completed,      \* the completions in the port: events with "ok" or "zero" bytes
  wire,           \* the packets the peer got
  pushed,         \* the packets ever put into _send_queue, in that order
  failed,         \* the calls that failed at once with an error HandleError only prints
  onDisconnected, \* how many times OnDisconnected was called
  crash           \* what stopped the process, or "no"

args == <<arg, made>>
callers == <<todo, args>>
sending == <<lock, sendQueue, registered, sendBuffers, pushed>>
service == <<inSessions, serviceLock, onDisconnected>>
kernel == <<socket, pending, completed, wire, failed>>
vars == <<connected, sending, owner, service, callers, kernel, crash>>

Events == {"connect", "accept", "disconnect", "recv", "send"}
Steps == {"push", "registerSend", "drain", "wsaSend", "sendFailed", "afterSend", "unlock",
          "serviceUnlock", "processConnect", "addSession", "onConnected", "registerRecv",
          "wsaRecv", "recvFailed", "onRecv", "disconnect", "registerDisconnect",
          "onDisconnected", "releaseSession"}

Types ==
  /\ connected \in BOOLEAN /\ registered \in BOOLEAN /\ inSessions \in BOOLEAN
  /\ lock \in Threads \cup {NoThread} /\ serviceLock \in Threads \cup {NoThread}
  /\ sendQueue \in Seq(Packets) /\ sendBuffers \in Seq(Packets)
  /\ wire \in Seq(Packets) /\ pushed \in Seq(Packets)
  /\ owner \subseteq Events /\ pending \subseteq Events
  /\ todo \in [Threads -> Seq(Steps)]
  /\ arg \in [Threads -> Packets \cup {NoPacket}] /\ made \in 0 .. MaxPackets
  /\ socket \in {"fresh", "open", "peerClosed", "reset", "closing"}
  /\ completed \subseteq Events \X {"ok", "zero"}
  /\ failed \subseteq {"connect", "recv", "send", "disconnect"}
  /\ onDisconnected \in Nat
  /\ crash \in {"no", "null owner", "ReleaseSession"}

\* A scope holds its lock to its end, and a thread has a packet exactly while it is in Send.
Scopes ==
  \A t \in Threads :
    /\ lock = t <=> "unlock" \in Range(todo[t])
    /\ serviceLock = t <=> "serviceUnlock" \in Range(todo[t])
    /\ arg[t] # NoPacket <=> "push" \in Range(todo[t])

\* Types of the variables, and the locks and arguments by the place a thread is at.
TypeOK == Types /\ Scopes

\* A client's session after ClientService::Start, a server's after RegisterAccept.
RegisterConnect == pending = {"connect"} /\ owner = {"connect"}
RegisterAccept == pending = {"accept"} /\ owner = {}

Init ==
  /\ connected = FALSE /\ registered = FALSE /\ inSessions = FALSE
  /\ lock = NoThread /\ serviceLock = NoThread
  /\ sendQueue = <<>> /\ sendBuffers = <<>> /\ wire = <<>> /\ pushed = <<>>
  /\ todo = [t \in Threads |-> <<>>]
  /\ arg = [t \in Threads |-> NoPacket] /\ made = 0
  /\ socket = "fresh"
  /\ completed = {} /\ failed = {}
  /\ onDisconnected = 0
  /\ crash = "no"
  /\ RegisterConnect \/ RegisterAccept
-----------------------------------------------------------------------------
Idle(t) == crash = "no" /\ todo[t] = <<>>
Does(t, s) == crash = "no" /\ todo[t] # <<>> /\ Head(todo[t]) = s
Then(t, steps) == todo' = [todo EXCEPT ![t] = steps \o Tail(@)]
Completed(e) == \E c \in completed : c[1] = e

\* Send looks at _connected before it takes the lock: from here on it has a packet to push.
\* On a session that is not connected it does nothing.
Send(t) ==
  /\ connected /\ made < MaxPackets
  /\ made' = made + 1
  /\ arg' = [arg EXCEPT ![t] = made']

(* Calls from outside: jobs, handlers of other sessions, the session managers *)

\* Others find the session in its service or its manager, and keep the SessionRef.
Published == inSessions \/ onDisconnected > 0

CallSend(t) ==
  /\ Idle(t) /\ Published
  /\ Send(t)
  /\ todo' = [todo EXCEPT ![t] = <<"push">>]
  /\ UNCHANGED <<connected, sending, owner, service, kernel, crash>>

CallDisconnect(t) ==
  /\ Idle(t) /\ Published
  /\ todo' = [todo EXCEPT ![t] = <<"disconnect">>]
  /\ UNCHANGED <<connected, sending, owner, service, args, kernel, crash>>

\* Service::Broadcast holds the service's lock while it sends.
Broadcast(t) ==
  /\ Idle(t) /\ serviceLock = NoThread /\ inSessions
  /\ serviceLock' = t
  /\ Send(t)
  /\ todo' = [todo EXCEPT ![t] = <<"push", "serviceUnlock">>]
  /\ UNCHANGED <<connected, sending, owner, inSessions, onDisconnected, kernel, crash>>

ServiceUnlock(t) ==
  /\ Does(t, "serviceUnlock")
  /\ serviceLock' = NoThread
  /\ Then(t, <<>>)
  /\ UNCHANGED <<connected, sending, owner, inSessions, onDisconnected, args, kernel, crash>>
-----------------------------------------------------------------------------
(* Send and RegisterSend *)

\* Slip: whoever finds the queue empty registers, whatever _send_registered says.
PushIfEmpty(t) ==
  /\ Does(t, "push") /\ lock = NoThread
  /\ sendQueue' = Append(sendQueue, arg[t])
  /\ pushed' = Append(pushed, arg[t])
  /\ arg' = [arg EXCEPT ![t] = NoPacket]
  /\ registered' = TRUE
  /\ Then(t, IF sendQueue # <<>> THEN <<>> ELSE <<"registerSend">>)
  /\ UNCHANGED <<connected, lock, sendBuffers, owner, service, made, kernel, crash>>

\* Push the buffer; the one that finds no send registered registers it.
Push(t) ==
  /\ Does(t, "push") /\ lock = NoThread
  /\ sendQueue' = Append(sendQueue, arg[t])
  /\ pushed' = Append(pushed, arg[t])
  /\ arg' = [arg EXCEPT ![t] = NoPacket]
  /\ registered' = TRUE
  /\ Then(t, IF registered THEN <<>> ELSE <<"registerSend">>)
  /\ UNCHANGED <<connected, lock, sendBuffers, owner, service, made, kernel, crash>>

\* RegisterSend gives up when the session is disconnected, and leaves the send registered.
RegisterSend(t) ==
  /\ Does(t, "registerSend")
  /\ Then(t, IF connected THEN <<"drain">> ELSE <<>>)
  /\ UNCHANGED <<connected, sending, owner, service, args, kernel, crash>>

\* Slip: the last packet comes out first.
DrainAsStack(t) ==
  /\ Does(t, "drain") /\ lock \in {NoThread, t}
  /\ owner' = owner \cup {"send"}
  /\ sendBuffers' = sendBuffers \o Reverse(sendQueue)
  /\ sendQueue' = <<>>
  /\ Then(t, <<"wsaSend">>)
  /\ UNCHANGED <<connected, lock, registered, pushed, service, args, kernel, crash>>

\* It takes the event and moves the whole queue into it.
Drain(t) ==
  /\ Does(t, "drain") /\ lock \in {NoThread, t}
  /\ owner' = owner \cup {"send"}
  /\ sendBuffers' = sendBuffers \o sendQueue
  /\ sendQueue' = <<>>
  /\ Then(t, <<"wsaSend">>)
  /\ UNCHANGED <<connected, lock, registered, pushed, service, args, kernel, crash>>

\* WSASend is under way, or fails at once; HandleError disconnects after a reset.
WsaSend(t) ==
  /\ Does(t, "wsaSend")
  /\ \/ /\ socket # "fresh"
        /\ pending' = pending \cup {"send"}
        /\ Then(t, <<>>)
        /\ UNCHANGED failed
     \/ /\ socket = "reset"
        /\ Then(t, <<"disconnect", "sendFailed">>)
        /\ UNCHANGED <<pending, failed>>
     \/ /\ failed' = failed \cup {"send"}
        /\ Then(t, <<"sendFailed">>)
        /\ UNCHANGED pending
  /\ UNCHANGED <<connected, sending, owner, service, args, socket, completed, wire, crash>>

\* The buffers of a send that failed at once are dropped.
SendFailed(t) ==
  /\ Does(t, "sendFailed")
  /\ owner' = owner \ {"send"}
  /\ sendBuffers' = <<>>
  /\ registered' = FALSE
  /\ Then(t, <<>>)
  /\ UNCHANGED <<connected, lock, sendQueue, pushed, service, args, kernel, crash>>

\* Slip: the send is unregistered even if packets were queued in the meantime.
AfterSendForgets(t) ==
  /\ Does(t, "afterSend") /\ lock = NoThread
  /\ registered' = FALSE
  /\ Then(t, <<>>)
  /\ UNCHANGED <<connected, lock, sendQueue, sendBuffers, pushed, owner, service, args, kernel,
                 crash>>

\* Slip: RegisterSend is called without the lock, which is given up all the same.
AfterSendUnlocked(t) ==
  /\ Does(t, "afterSend") /\ lock = NoThread
  /\ IF sendQueue = <<>>
     THEN registered' = FALSE /\ Then(t, <<>>)
     ELSE Then(t, <<"registerSend", "unlock">>) /\ UNCHANGED registered
  /\ UNCHANGED <<connected, lock, sendQueue, sendBuffers, pushed, owner, service, args, kernel,
                 crash>>

\* The end of ProcessSend: under the lock, until RegisterSend returns.
AfterSend(t) ==
  /\ Does(t, "afterSend") /\ lock = NoThread
  /\ IF sendQueue = <<>>
     THEN /\ registered' = FALSE
          /\ Then(t, <<>>)
          /\ UNCHANGED lock
     ELSE /\ lock' = t
          /\ Then(t, <<"registerSend", "unlock">>)
          /\ UNCHANGED registered
  /\ UNCHANGED <<connected, sendQueue, sendBuffers, pushed, owner, service, args, kernel, crash>>

Unlock(t) ==
  /\ Does(t, "unlock")
  /\ lock' = NoThread
  /\ Then(t, <<>>)
  /\ UNCHANGED <<connected, sendQueue, registered, sendBuffers, pushed, owner, service, args,
                 kernel, crash>>
-----------------------------------------------------------------------------
(* Connecting, receiving, disconnecting *)

ProcessConnect(t) ==
  /\ Does(t, "processConnect")
  /\ connected' = TRUE
  /\ Then(t, <<"addSession", "onConnected", "registerRecv">>)
  /\ UNCHANGED <<sending, owner, service, args, kernel, crash>>

AddSession(t) ==
  /\ Does(t, "addSession") /\ serviceLock = NoThread
  /\ inSessions' = TRUE
  /\ Then(t, <<>>)
  /\ UNCHANGED <<connected, sending, owner, serviceLock, onDisconnected, args, kernel, crash>>

\* OnConnected and the packet handlers of OnRecv return, send on this session, or
\* disconnect it (HandleCreateCharacter).
Handle(t) ==
  /\ Does(t, "onConnected") \/ Does(t, "onRecv")
  /\ \/ Then(t, <<>>) /\ UNCHANGED <<arg, made>>
     \/ Does(t, "onRecv") /\ Then(t, <<"disconnect">>) /\ UNCHANGED <<arg, made>>
     \/ Send(t) /\ todo' = [todo EXCEPT ![t] = <<"push">> \o @]
  /\ UNCHANGED <<connected, sending, owner, service, kernel, crash>>

RegisterRecv(t) ==
  /\ Does(t, "registerRecv")
  /\ Then(t, IF connected THEN <<"wsaRecv">> ELSE <<>>)
  /\ UNCHANGED <<connected, sending, owner, service, args, kernel, crash>>

\* The event gets its owner, then WSARecv is under way or fails at once.
WsaRecv(t) ==
  /\ Does(t, "wsaRecv")
  /\ owner' = owner \cup {"recv"}
  /\ \/ /\ socket # "fresh"
        /\ pending' = pending \cup {"recv"}
        /\ Then(t, <<>>)
        /\ UNCHANGED failed
     \/ /\ socket = "reset"
        /\ Then(t, <<"disconnect", "recvFailed">>)
        /\ UNCHANGED <<pending, failed>>
     \/ /\ failed' = failed \cup {"recv"}
        /\ Then(t, <<"recvFailed">>)
        /\ UNCHANGED pending
  /\ UNCHANGED <<connected, sending, service, args, socket, completed, wire, crash>>

RecvFailed(t) ==
  /\ Does(t, "recvFailed")
  /\ owner' = owner \ {"recv"}
  /\ Then(t, <<>>)
  /\ UNCHANGED <<connected, sending, service, args, kernel, crash>>

\* Slip: _connected is read, then written.
DisconnectReads(t) ==
  /\ Does(t, "disconnect")
  /\ \/ connected /\ Then(t, <<"registerDisconnect">>)
     \/ ~ connected /\ Then(t, <<>>)
  /\ UNCHANGED <<connected, sending, owner, service, args, kernel, crash>>

\* _connected.exchange(false): one caller goes on.
Disconnect(t) ==
  /\ Does(t, "disconnect")
  /\ connected' = FALSE
  /\ Then(t, IF connected THEN <<"registerDisconnect">> ELSE <<>>)
  /\ UNCHANGED <<sending, owner, service, args, kernel, crash>>

\* Slip: a failed DisconnectEx is not noticed, and the event of the pending receive
\* loses its owner whatever DisconnectEx returns.
RegisterDisconnectAlways(t) ==
  /\ Does(t, "registerDisconnect")
  /\ Then(t, <<>>)
  /\ owner' = (owner \cup {"disconnect"}) \ {"recv"}
  /\ pending' = pending \cup {"disconnect"}
  /\ socket' = "closing"
  /\ UNCHANGED <<connected, sending, service, args, completed, wire, failed, crash>>

\* DisconnectEx is under way, or fails at once: then the code clears the owner of
\* _recv_event, not of _disconnect_event.  (HandleError's Disconnect finds _connected
\* false.)
RegisterDisconnect(t) ==
  /\ Does(t, "registerDisconnect")
  /\ Then(t, <<>>)
  /\ \/ /\ owner' = owner \cup {"disconnect"}
        /\ pending' = pending \cup {"disconnect"}
        /\ socket' = "closing"
        /\ UNCHANGED failed
     \/ /\ owner' = (owner \cup {"disconnect"}) \ {"recv"}
        /\ failed' = failed \cup {"disconnect"}
        /\ UNCHANGED <<pending, socket>>
  /\ UNCHANGED <<connected, sending, service, args, completed, wire, crash>>

OnDisconnected(t) ==
  /\ Does(t, "onDisconnected")
  /\ onDisconnected' = onDisconnected + 1
  /\ Then(t, <<>>)
  /\ UNCHANGED <<connected, sending, owner, inSessions, serviceLock, args, kernel, crash>>

\* ASSERT_CRASH(_sessions.erase(session) != 0)
ReleaseSession(t) ==
  /\ Does(t, "releaseSession") /\ serviceLock = NoThread
  /\ inSessions' = FALSE
  /\ crash' = IF inSessions THEN crash ELSE "ReleaseSession"
  /\ Then(t, <<>>)
  /\ UNCHANGED <<connected, sending, owner, serviceLock, onDisconnected, args, kernel>>
-----------------------------------------------------------------------------
(* The completion port: IocpCore::Dispatch, Session::Dispatch, ProcessAccept *)

\* A failed accept takes a new session instead of this one.
ProcessAccept(result) == IF result = "ok" THEN <<"processConnect">> ELSE <<>>

\* Slip: the end of the stream is not taken for the end of the session.
ProcessRecvIgnoresEnd(result) == IF result = "ok" THEN <<"onRecv", "registerRecv">> ELSE <<>>

ProcessRecv(result) == IF result = "ok" THEN <<"onRecv", "registerRecv">> ELSE <<"disconnect">>
ProcessSend(result) == IF result = "ok" THEN <<"afterSend">> ELSE <<"disconnect">>
ProcessDisconnect == <<"onDisconnected", "releaseSession">>

\* What a worker does about a completion.  A failed connect is processed like a good one.
Process(e, result) ==
  CASE e = "connect" -> <<"processConnect">>
    [] e = "accept" -> ProcessAccept(result)
    [] e = "recv" -> ProcessRecv(result)
    [] e = "send" -> ProcessSend(result)
    [] e = "disconnect" -> ProcessDisconnect

\* The worker calls the owner of the event (the listener owns accept events), which
\* clears the owner and, for a send, the buffers.
Dispatch(t, e) ==
  /\ Idle(t)
  /\ \E result \in {"ok", "zero"} :
       /\ <<e, result>> \in completed
       /\ completed' = completed \ {<<e, result>>}
       /\ IF e \in owner \/ e = "accept"
          THEN todo' = [todo EXCEPT ![t] = Process(e, result)] /\ UNCHANGED crash
          ELSE crash' = "null owner" /\ UNCHANGED todo
  /\ owner' = owner \ {e}
  /\ sendBuffers' = IF e = "send" THEN <<>> ELSE sendBuffers
  /\ UNCHANGED <<connected, lock, sendQueue, registered, pushed, service, args, socket, pending,
                 wire, failed>>

\* The kernel finishes an operation.
Complete(e) ==
  /\ crash = "no" /\ e \in pending
  /\ pending' = pending \ {e}
  /\ \E result \in {"ok", "zero"} :
       /\ completed' = completed \cup {<<e, result>>}
       /\ result = "ok" => CASE e = "send" -> socket \in {"open", "peerClosed", "closing"}
                             [] e = "recv" -> socket \in {"open", "closing"}
                             [] OTHER -> TRUE
       /\ result = "zero" => (e \in {"send", "recv"} => socket # "open") /\ e # "disconnect"
       /\ wire' = IF e = "send" /\ result = "ok" THEN wire \o sendBuffers ELSE wire
       /\ socket' = IF e \in {"connect", "accept"} /\ result = "ok" THEN "open" ELSE socket
       /\ failed' = IF e = "connect" /\ result = "zero" THEN failed \cup {"connect"} ELSE failed
  /\ UNCHANGED <<connected, sending, owner, service, callers, crash>>

\* The peer closes or resets the connection.
Peer ==
  /\ crash = "no"
  /\ \/ socket = "open" /\ socket' = "peerClosed"
     \/ socket \in {"open", "peerClosed"} /\ socket' = "reset"
  /\ UNCHANGED <<connected, sending, owner, service, callers, pending, completed, wire, failed,
                 crash>>

\* A thread goes on with what it has begun.
Proceed(t) ==
  \/ Push(t) \/ RegisterSend(t) \/ Drain(t) \/ WsaSend(t) \/ SendFailed(t)
  \/ AfterSend(t) \/ Unlock(t) \/ ServiceUnlock(t)
  \/ ProcessConnect(t) \/ AddSession(t) \/ Handle(t) \/ RegisterRecv(t) \/ WsaRecv(t)
  \/ RecvFailed(t) \/ Disconnect(t) \/ RegisterDisconnect(t) \/ OnDisconnected(t)
  \/ ReleaseSession(t)

Next ==
  \/ \E t \in Threads :
       \/ CallSend(t) \/ CallDisconnect(t) \/ Broadcast(t) \/ Proceed(t)
       \/ \E e \in Events : Dispatch(t, e)
  \/ \E e \in Events : Complete(e)
  \/ Peer

Spec == Init /\ [][Next]_vars

\* Threads are scheduled; a completion that is in the port is dequeued in the end (the
\* port is a queue, and the workers return to it); the kernel finishes what it began,
\* a receive when there is something to receive or the connection ends.
Fairness ==
  /\ \A t \in Threads : WF_vars(Proceed(t))
  /\ \A e \in Events : SF_vars(\E t \in Threads : Dispatch(t, e))
  /\ \A e \in Events \ {"recv"} : WF_vars(Complete(e))
  /\ WF_vars(socket # "open" /\ Complete("recv"))

FairSpec == Spec /\ Fairness
-----------------------------------------------------------------------------
(* Properties *)

SendSteps == {"registerSend", "drain", "wsaSend", "sendFailed", "afterSend"}
SendDriver(t) == Range(todo[t]) \cap SendSteps # {}

\* At any time one party has _send_event: the thread that registered the send, the kernel
\* or the completion; with no send registered nobody has.  So the event's buffers and
\* OVERLAPPED are never reused under a send (Send and ProcessSend of any threads).
OneSend ==
  LET drivers == {t \in Threads : SendDriver(t)}
      parties == Cardinality(drivers) + (IF "send" \in pending THEN 1 ELSE 0)
                   + Cardinality({c \in completed : c[1] = "send"})
  IN /\ parties <= 1
     /\ ~ registered => parties = 0 /\ "send" \notin owner /\ sendBuffers = <<>>

\* The peer gets the packets in the order Send queued them, each once; on an open socket
\* where no WSASend failed at once, what was queued is sent, being sent or still queued.
SentInOrder ==
  /\ \A i, j \in DOMAIN wire : i < j =>
       \E k, l \in DOMAIN pushed : k < l /\ pushed[k] = wire[i] /\ pushed[l] = wire[j]
  /\ socket = "open" /\ "send" \notin failed =>
       LET inFlight == IF <<"send", "ok">> \in completed THEN <<>> ELSE sendBuffers
       IN pushed = wire \o inFlight \o sendQueue

\* A session that is connected is in its service's set, or on the way there; OnDisconnected
\* is called once and only then is the session released, so that the assertion in
\* ReleaseSession never stops the server.
CountedOnce ==
  /\ onDisconnected <= 1
  /\ connected => /\ onDisconnected = 0
                  /\ inSessions \/ \E t \in Threads : "addSession" \in Range(todo[t])
  /\ crash # "ReleaseSession"

\* The event of an operation under way owns the session, which keeps it alive and lets the
\* worker find it; only a DisconnectEx that failed at once under a pending receive breaks
\* this, because RegisterDisconnect then clears the owner of the wrong event.
EventsOwned ==
  /\ \A e \in {"connect", "recv", "send", "disconnect"} :
       e \in pending \/ Completed(e) => e \in owner \/ (e = "recv" /\ "disconnect" \in failed)
  /\ crash = "null owner" => "disconnect" \in failed

\* At most one receive is under way or being processed, so that the bytes of the stream
\* are handled in order by one thread at a time.
RecvSteps == {"onRecv", "registerRecv", "wsaRecv", "recvFailed"}
OneRecv ==
  Cardinality({t \in Threads : Range(todo[t]) \cap RecvSteps # {}})
    + (IF "recv" \in pending THEN 1 ELSE 0) + Cardinality({c \in completed : c[1] = "recv"}) <= 1

\* One send and one receive at a time, whatever threads call and whatever completes.
OneOfEach == OneSend /\ OneRecv

\* What is queued on a connection that stays up reaches the peer.
PacketsArrive ==
  (Len(wire) < Len(pushed)) ~>
    (Len(wire) = Len(pushed) \/ socket # "open" \/ ~ connected \/ "send" \in failed)

\* A session whose peer is gone, or that somebody disconnected, leaves its service, unless
\* WSARecv or DisconnectEx failed at once with an error that HandleError only prints: such
\* a session stays in Service::_sessions for good.
SessionsLeave ==
  (inSessions /\ (~ connected \/ socket \in {"peerClosed", "reset"})) ~>
    (~ inSessions \/ failed \cap {"recv", "disconnect"} # {})
=============================================================================
