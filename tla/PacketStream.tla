---------------------------- MODULE PacketStream ----------------------------
(***************************************************************************)
(* The sessions of a server with their other ends: the bytes that leave the *)
(* chunks of SendBuffers arrive in the RecvBuffer of a PacketSession of     *)
(* another server, in pieces of any size, and OnRecv cuts them into packets *)
(* again.                                                                   *)
(***************************************************************************)
EXTENDS SendBuffers

CONSTANTS
  BufferSize,  \* Session::kBufferSize
  BufferCount  \* RecvBuffer::kBufferCount

\* With two buffers only, what Clear moves could overlap where it goes.
ASSUME RecvAssumption ==
  /\ BufferSize \in Nat /\ ChunkSize < BufferSize
  /\ BufferCount \in Nat /\ BufferCount >= 3

VARIABLES
  phase,     \* of the receiving end: "posted" a WSARecv, "cutting" in OnRecv, "closed"
  taken,     \* how many bytes of the stream it got
  buffer,    \* RecvBuffer::_buffer
  readPos,   \* RecvBuffer::_read_pos
  writePos,  \* RecvBuffer::_write_pos
  processed, \* process_len in OnRecv
  handled    \* the packets given to OnRecvPacket; what is no packet is NoPacket

recvVars == <<phase, taken, buffer, readPos, writePos, processed, handled>>
vars == <<sendVars, recvVars>>

Capacity == BufferSize * BufferCount
DataSize(s) == writePos[s] - readPos[s]
RecvFreeSize(s) == Capacity - writePos[s]

Init ==
  /\ SendInit
  /\ phase = [s \in Sessions |-> "posted"]
  /\ taken = [s \in Sessions |-> 0]
  /\ buffer = [s \in Sessions |-> [i \in 0 .. Capacity - 1 |-> <<NoPacket, 0>>]]
  /\ readPos = [s \in Sessions |-> 0] /\ writePos = [s \in Sessions |-> 0]
  /\ processed = [s \in Sessions |-> 0]
  /\ handled = [s \in Sessions |-> <<>>]
-----------------------------------------------------------------------------
\* Bytes an overlapped WSARecv can complete with; a buffer without room completes with none.
Arriving(s) ==
  IF RecvFreeSize(s) = 0 /\ taken[s] < Len(stream[s]) THEN {0}
  ELSE {n \in 1 .. RecvFreeSize(s) : taken[s] + n <= Len(stream[s])}

\* ProcessRecv up to OnRecv: a completion with 0 bytes, or with more than fit, disconnects.
Receive(s, n) ==
  /\ phase[s] = "posted"
  /\ taken' = [taken EXCEPT ![s] = @ + n]
  /\ buffer' = [buffer EXCEPT ![s] =
       [i \in DOMAIN @ |-> IF i \in writePos[s] .. writePos[s] + n - 1
                           THEN stream[s][taken[s] + i - writePos[s] + 1] ELSE buffer[s][i]]]
  /\ IF n = 0 \/ n > RecvFreeSize(s)
     THEN /\ phase' = [phase EXCEPT ![s] = "closed"]
          /\ UNCHANGED writePos
     ELSE /\ writePos' = [writePos EXCEPT ![s] = @ + n]
          /\ phase' = [phase EXCEPT ![s] = "cutting"]
  /\ UNCHANGED <<sendVars, readPos, processed, handled>>

\* OnRecv: what is left of the data, and whether a whole packet is.
Here(s) == readPos[s] + processed[s]
Rest(s) == DataSize(s) - processed[s]
HeaderAt(s) == LET p == buffer[s][Here(s)][1] IN IF p \in Packets THEN Size[p] ELSE HeaderSize

\* Slip: a packet is cut as soon as its header is there.
HasPacketByHeader(s) == Rest(s) >= HeaderSize

HasPacket(s) == Rest(s) >= HeaderSize /\ Rest(s) >= HeaderAt(s)

\* The packet whose bytes these are, if they are one's: ParseFromArray.
Parsed(s) ==
  LET p == buffer[s][Here(s)][1] IN
  IF p \in Packets /\ \A i \in 1 .. Size[p] : buffer[s][Here(s) + i - 1] = <<p, i>>
  THEN p ELSE NoPacket

\* One round of the loop of OnRecv.
OnRecvPacket(s) ==
  /\ phase[s] = "cutting" /\ HasPacket(s)
  /\ handled' = [handled EXCEPT ![s] = Append(@, Parsed(s))]
  /\ processed' = [processed EXCEPT ![s] = @ + HeaderAt(s)]
  /\ UNCHANGED <<sendVars, phase, taken, buffer, readPos, writePos>>

\* memcpy to the front; where source and target overlap the result is undefined.
Moved(s, from, size) ==
  LET to_front == [i \in DOMAIN buffer[s] |-> IF i < size THEN buffer[s][from + i]
                                              ELSE buffer[s][i]]
      garbled == [i \in DOMAIN buffer[s] |-> IF i < size THEN <<NoPacket, 0>>
                                             ELSE buffer[s][i]]
  IN IF size > from THEN {to_front, garbled} ELSE {to_front}

\* Slip: whatever is left is moved at once.
NeedsRoomAlways(s) == TRUE

\* Clear makes room for one buffer at least.
NeedsRoom(s) == BufferSize > RecvFreeSize(s)

\* OnRecv returns, OnRead passes what it processed, Clear, RegisterRecv.
EndRecv(s) ==
  LET from == readPos[s] + processed[s]
      size == writePos[s] - from
      Cursors(r, w) == readPos' = [readPos EXCEPT ![s] = r] /\ writePos' = [writePos EXCEPT ![s] = w]
  IN
  /\ phase[s] = "cutting" /\ ~ HasPacket(s)
  /\ IF processed[s] > DataSize(s)
     THEN phase' = [phase EXCEPT ![s] = "closed"] /\ UNCHANGED <<buffer, readPos, writePos>>
     ELSE /\ phase' = [phase EXCEPT ![s] = "posted"]
          /\ IF size # 0 /\ NeedsRoom(s)
             THEN \E moved \in Moved(s, from, size) : buffer' = [buffer EXCEPT ![s] = moved]
             ELSE UNCHANGED buffer
          /\ IF size = 0 THEN Cursors(0, 0)
             ELSE IF NeedsRoom(s) THEN Cursors(0, size) ELSE Cursors(from, writePos[s])
  /\ processed' = [processed EXCEPT ![s] = 0]
  /\ UNCHANGED <<sendVars, taken, handled>>

RecvNext(s) == (\E n \in Arriving(s) : Receive(s, n)) \/ OnRecvPacket(s) \/ EndRecv(s)

Next ==
  \/ SendNext /\ UNCHANGED recvVars
  \/ \E s \in Sessions : RecvNext(s)

Spec == Init /\ [][Next]_vars
-----------------------------------------------------------------------------
\* Types of the variables.  The cursors of a RecvBuffer are in order and within it, and
\* OnRecv never processes more than it was given.
TypeOK ==
  /\ SendTypes
  /\ phase \in [Sessions -> {"posted", "cutting", "closed"}]
  /\ buffer \in [Sessions -> [0 .. Capacity - 1 -> Byte]]
  /\ handled \in [Sessions -> Seq(Packets \cup {NoPacket})]
  /\ taken \in [Sessions -> Nat] /\ readPos \in [Sessions -> Nat]
  /\ writePos \in [Sessions -> 0 .. Capacity] /\ processed \in [Sessions -> Nat]
  /\ \A s \in Sessions : readPos[s] + processed[s] <= writePos[s]

\* A server stops only over a packet that is bigger than a chunk, never because Open had
\* no room for it; and a receiving end never gives up a connection: its buffer always has
\* room for bytes that come, and what OnRecv processed was there (SendBufferManager::Open,
\* RecvBuffer::Clear, Session::ProcessRecv).
StopsExplained ==
  /\ crash # NoPacket => Size[crash] > ChunkSize
  /\ \A s \in Sessions : phase[s] # "closed"

\* The sessions as Channel: what was pushed into a session's queue, but for a send that
\* failed, and what its other end handled.  A packet is handled whole, once and in order,
\* however its bytes were split on the way and moved within the RecvBuffer (PacketSession::
\* OnRecv, RecvBuffer, SendBufferManager).
AsChannel == INSTANCE Channel WITH
  Messages <- Packets, sent <- [s \in Sessions |-> accepted[s] \o sendQueue[s]]
IsChannel == AsChannel!Spec
=============================================================================
