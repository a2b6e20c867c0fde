---------------------------- MODULE SendBuffers -----------------------------
(***************************************************************************)
(* The sending end of the sessions of a server.  A thread writes a packet   *)
(* into the memory of its own chunk, LSendBufferChunk, and hands a          *)
(* reference to it to one session or, in a broadcast, to several; a session *)
(* queues it, gives all it has queued to one WSASend and keeps the          *)
(* references until that completes.  A chunk goes back to the manager when  *)
(* no thread and no SendBuffer refers to it any more, and its memory is     *)
(* written again by whoever pops it.                                        *)
(*                                                                          *)
(* Session has the steps of Send, RegisterSend and ProcessSend one by one;  *)
(* here each of them is one step, and what it does to memory is in it.      *)
(* A definition marked "Slip" is a mistake one could make in the definition *)
(* below it, kept to see that the properties notice.                        *)
(***************************************************************************)
EXTENDS Integers, Sequences

CONSTANTS
  Threads,     \* the threads of the server that send
  Sessions,    \* its sessions
  Packets,     \* the packets it sends, each made once
  Chunks,      \* the SendBufferChunks; a bound for TLC
  NoPacket, NoChunk,
  HeaderSize,  \* sizeof(PacketHeader)
  ChunkSize,   \* SendBufferChunk::kChunkSize
  Size         \* the size of a packet, its header included, which fits into 16 bits

ASSUME SendAssumption ==
  /\ HeaderSize \in Nat \ {0} /\ ChunkSize \in Nat
  /\ Size \in [Packets -> Nat] /\ \A p \in Packets : Size[p] >= HeaderSize
  /\ NoPacket \notin Packets /\ NoChunk \notin Chunks

VARIABLES
  chunk,      \* LSendBufferChunk of a thread
  pool,       \* SendBufferManager::_send_buffer_chunks
  usedSize,   \* SendBufferChunk::_used_size
  memory,     \* SendBufferChunk::_buffer
  place,      \* the _owner of a packet's SendBuffer and its _buffer, an offset into it
  hand,       \* the SendBuffer a thread is sending
  to,         \* the connected sessions it has yet to send it to
  sendQueue,  \* Session::_send_queue
  inFlight,   \* Session::_send_event._send_buffers
  accepted,   \* the packets that WSASend took for a session, in order
  onWire,     \* how many of them the kernel has read
  stream,     \* the bytes it has read
  crash       \* the packet at whose making the server stopped, or NoPacket

chunks == <<chunk, pool, usedSize, memory, place>>
queues == <<sendQueue, inFlight, accepted>>
kernel == <<onWire, stream>>
sendVars == <<chunks, hand, to, queues, kernel, crash>>

\* Byte i of packet p; a cell nobody has written holds a byte of no packet.
Byte == (Packets \cup {NoPacket}) \X Nat
Cells == 0 .. ChunkSize - 1

Place == [chunk : Chunks, at : 0 .. ChunkSize]
NoPlace == [chunk |-> NoChunk, at |-> 0]
Made(p) == place[p] # NoPlace

SendInit ==
  /\ chunk = [t \in Threads |-> NoChunk]
  /\ pool = {}
  /\ usedSize = [c \in Chunks |-> 0]
  /\ memory = [c \in Chunks |-> [i \in Cells |-> <<NoPacket, 0>>]]
  /\ place = [p \in Packets |-> NoPlace]
  /\ hand = [t \in Threads |-> NoPacket]
  /\ to = [t \in Threads |-> {}]
  /\ sendQueue = [s \in Sessions |-> <<>>]
  /\ inFlight = [s \in Sessions |-> {}]
  /\ accepted = [s \in Sessions |-> <<>>]
  /\ onWire = [s \in Sessions |-> 0]
  /\ stream = [s \in Sessions |-> <<>>]
  /\ crash = NoPacket

Running == crash = NoPacket
-----------------------------------------------------------------------------
(* References *)

Elements(q) == {q[i] : i \in DOMAIN q}

\* Someone has a SendBufferRef to the packet.
Held(p) ==
  \/ \E t \in Threads : hand[t] = p
  \/ \E s \in Sessions : p \in Elements(sendQueue[s]) \cup inFlight[s]

\* Someone has a SendBufferChunkRef to the chunk, apart from the manager.
Referenced(c) ==
  \/ \E t \in Threads : chunk[t] = c
  \/ \E p \in Packets : Held(p) /\ place[p].chunk = c

InUse == {c \in Chunks : Referenced(c)}

\* PushGlobal, the deleter of a chunk, runs when the last reference is dropped.
Releases == InUse \ InUse'
-----------------------------------------------------------------------------
(* MakeSendBuffer *)

FreeSize(c) == ChunkSize - usedSize[c]

\* A chunk that waits in the manager, or a new one if none does.
Pop == IF pool # {} THEN pool ELSE Chunks \ InUse

\* The chunk SendBufferManager::Open opens.
Open(t, size) ==
  IF chunk[t] # NoChunk /\ FreeSize(chunk[t]) >= size THEN {chunk[t]} ELSE Pop

\* Slip: a chunk from the manager is not reset.
OffsetUnreset(t, c) == usedSize[c]

\* Where the next buffer of chunk c begins: a chunk that was popped is Reset.
Offset(t, c) == IF c = chunk[t] THEN usedSize[c] ELSE 0

\* SerializeToArray into the buffer, with the header in front.
Written(c, at, p) ==
  [i \in Cells |-> IF i \in at .. at + Size[p] - 1 THEN <<p, i - at + 1>> ELSE memory[c][i]]

\* A handler makes packet p for the sessions in S.  The chunk's assertion that the packet
\* is no bigger than a chunk fails, or Open returns nullptr and the header is written to
\* it, when there is no room.
MakeSendBuffer(t, p, S) ==
  /\ Running /\ hand[t] = NoPacket /\ ~ Made(p)
  /\ \E c \in Open(t, Size[p]) :
       LET at == Offset(t, c) IN
       /\ chunk' = [chunk EXCEPT ![t] = c]
       /\ IF Size[p] > ChunkSize - at
          THEN crash' = p /\ UNCHANGED <<usedSize, memory, place, hand, to>>
          ELSE /\ memory' = [memory EXCEPT ![c] = Written(c, at, p)]
               /\ usedSize' = [usedSize EXCEPT ![c] = at + Size[p]]
               /\ place' = [place EXCEPT ![p] = [chunk |-> c, at |-> at]]
               /\ hand' = [hand EXCEPT ![t] = IF S = {} THEN NoPacket ELSE p]
               /\ to' = [to EXCEPT ![t] = S]
               /\ UNCHANGED crash
       /\ UNCHANGED <<queues, kernel>>
       /\ pool' = (pool \ {c}) \cup Releases
-----------------------------------------------------------------------------
(* Session::Send, RegisterSend, ProcessSend *)

\* Send to one of the sessions; the thread's own reference goes with the last.
Send(t, s) ==
  /\ Running /\ s \in to[t]
  /\ sendQueue' = [sendQueue EXCEPT ![s] = Append(@, hand[t])]
  /\ to' = [to EXCEPT ![t] = @ \ {s}]
  /\ hand' = [hand EXCEPT ![t] = IF to[t] = {s} THEN NoPacket ELSE @]
  /\ UNCHANGED <<chunk, usedSize, memory, place, inFlight, accepted, kernel, crash>>
  /\ pool' = pool \cup Releases

\* A send is registered: the queue is not empty and no send event is under way.
CanRegister(s) == Running /\ sendQueue[s] # <<>> /\ inFlight[s] = {}

\* Slip: the buffers are dropped with the queue and only the WSABUFs are kept.
RegisterSendDrops(s) ==
  /\ CanRegister(s)
  /\ accepted' = [accepted EXCEPT ![s] = @ \o sendQueue[s]]
  /\ sendQueue' = [sendQueue EXCEPT ![s] = <<>>]
  /\ UNCHANGED <<chunk, usedSize, memory, place, hand, to, inFlight, kernel, crash>>
  /\ pool' = pool \cup Releases

\* All that is queued moves to the send event and is given to WSASend.
RegisterSend(s) ==
  /\ CanRegister(s)
  /\ accepted' = [accepted EXCEPT ![s] = @ \o sendQueue[s]]
  /\ inFlight' = [inFlight EXCEPT ![s] = Elements(sendQueue[s])]
  /\ sendQueue' = [sendQueue EXCEPT ![s] = <<>>]
  /\ UNCHANGED <<chunk, usedSize, memory, place, hand, to, kernel, crash>>
  /\ pool' = pool \cup Releases

\* WSASend fails at once: the send event lets go of the buffers.
RegisterSendFails(s) ==
  /\ CanRegister(s)
  /\ sendQueue' = [sendQueue EXCEPT ![s] = <<>>]
  /\ UNCHANGED <<chunk, usedSize, memory, place, hand, to, inFlight, accepted, kernel, crash>>
  /\ pool' = pool \cup Releases

\* What the memory of a SendBuffer holds now.
Content(p) == [i \in 1 .. Size[p] |-> memory[place[p].chunk][place[p].at + i - 1]]

\* The kernel reads the next buffer of the send, at any time before it completes.
Transmit(s) ==
  /\ Running /\ onWire[s] < Len(accepted[s])
  /\ stream' = [stream EXCEPT ![s] = @ \o Content(accepted[s][onWire[s] + 1])]
  /\ onWire' = [onWire EXCEPT ![s] = @ + 1]
  /\ UNCHANGED <<chunks, hand, to, queues, crash>>

\* The send completes, and ProcessSend clears the buffers of its event.
ProcessSend(s) ==
  /\ Running /\ inFlight[s] # {} /\ onWire[s] = Len(accepted[s])
  /\ inFlight' = [inFlight EXCEPT ![s] = {}]
  /\ UNCHANGED <<chunk, usedSize, memory, place, hand, to, sendQueue, accepted, kernel, crash>>
  /\ pool' = pool \cup Releases

SendNext ==
  \/ \E t \in Threads, p \in Packets, S \in SUBSET Sessions : MakeSendBuffer(t, p, S)
  \/ \E t \in Threads, s \in Sessions : Send(t, s)
  \/ \E s \in Sessions :
       RegisterSend(s) \/ RegisterSendFails(s) \/ Transmit(s) \/ ProcessSend(s)
-----------------------------------------------------------------------------
SendTypes ==
  /\ chunk \in [Threads -> Chunks \cup {NoChunk}] /\ pool \subseteq Chunks
  /\ usedSize \in [Chunks -> 0 .. ChunkSize] /\ memory \in [Chunks -> [Cells -> Byte]]
  /\ place \in [Packets -> Place \cup {NoPlace}]
  /\ hand \in [Threads -> Packets \cup {NoPacket}] /\ to \in [Threads -> SUBSET Sessions]
  /\ sendQueue \in [Sessions -> Seq(Packets)] /\ inFlight \in [Sessions -> SUBSET Packets]
  /\ accepted \in [Sessions -> Seq(Packets)] /\ onWire \in [Sessions -> Nat]
  /\ stream \in [Sessions -> Seq(Byte)] /\ crash \in Packets \cup {NoPacket}

\* What a packet's memory should hold.
Whole(p) == [i \in 1 .. Size[p] |-> <<p, i>>]

\* The SendBuffers of a send are not changed while the kernel may still read them, nor
\* while they are queued or in a thread's hand: a chunk that is written again has no
\* reader left (SendBufferChunk::Reset and Open, Session::ProcessSend).
Intact ==
  \A p \in Packets :
    \/ ~ Held(p) /\ \A s \in Sessions :
                      \A k \in onWire[s] + 1 .. Len(accepted[s]) : accepted[s][k] # p
    \/ Content(p) = Whole(p)
=============================================================================
