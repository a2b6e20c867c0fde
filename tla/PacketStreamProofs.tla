------------------------- MODULE PacketStreamProofs -------------------------
(***************************************************************************)
(* Proofs about SendBuffers and PacketStream, for any threads, sessions,    *)
(* packets and sizes.                                                       *)
(***************************************************************************)
EXTENDS PacketStream, SequenceTheorems, TLAPS

(* The sending end *)

\* No two threads write into one chunk.
OwnChunks ==
  \A t, u \in Threads : t # u /\ chunk[t] # NoChunk => chunk[t] # chunk[u]

\* Nobody refers to a chunk that waits to be written again.
Pooled == \A c \in pool : ~ Referenced(c)

\* A SendBuffer that is referred to is in the used part of its chunk, and unchanged.
InPlace(p) ==
  /\ Made(p)
  /\ place[p].at + Size[p] <= usedSize[place[p].chunk]
  /\ \A i \in 1 .. Size[p] : memory[place[p].chunk][place[p].at + i - 1] = <<p, i>>
Kept == \A p \in Packets : Held(p) => InPlace(p)

\* What was made fits into a chunk.
Fits == \A p \in Packets : Made(p) => Size[p] <= ChunkSize

\* The kernel reads SendBuffers the send event still has.
Underway ==
  \A s \in Sessions :
    /\ onWire[s] <= Len(accepted[s])
    /\ \A k \in 1 .. Len(accepted[s]) :
         /\ Made(accepted[s][k])
         /\ k > onWire[s] => accepted[s][k] \in inFlight[s]

\* A thread that has sessions to send to has a packet to send.
Handing == \A t \in Threads : to[t] # {} => hand[t] # NoPacket

CrashExplained == crash # NoPacket => Size[crash] > ChunkSize

SendInv ==
  /\ SendTypes /\ OwnChunks /\ Pooled /\ Kept /\ Fits /\ Underway /\ Handing /\ CrashExplained

\* At the start nothing is made, queued or under way.
LEMMA SendInitInv == SendInit => SendInv
<1> SUFFICES ASSUME SendInit PROVE SendInv
  OBVIOUS
<1> USE SendAssumption
<1>1. SendTypes
  <2>1. <<NoPacket, 0>> \in Byte
    BY DEF Byte
  <2>2. \A S : <<>> \in Seq(S)
    BY EmptySeq
  <2> QED
    BY <2>1, <2>2 DEF SendInit, SendTypes
<1>2. \A p \in Packets : ~ Held(p)
  <2>1. Elements(<<>>) = {}
    BY DEF Elements
  <2> QED
    BY <2>1 DEF SendInit, Held
<1>3. OwnChunks /\ Pooled /\ Kept /\ Fits /\ Handing /\ CrashExplained
  BY <1>2 DEF SendInit, OwnChunks, Pooled, Kept, Fits, Handing, CrashExplained, Made
<1>4. Underway
  BY DEF SendInit, Underway
<1> QED
  BY <1>1, <1>3, <1>4 DEF SendInv

\* A step that makes no packet and writes no chunk keeps what is said about chunks, if it
\* makes up no reference and releases those it drops.
LEMMA DropsInv ==
  ASSUME SendInv, \A p \in Packets : Held(p)' => Held(p),
         UNCHANGED <<chunk, usedSize, memory, place, crash>>,
         pool' = pool \cup Releases
  PROVE  /\ OwnChunks' /\ Pooled' /\ Kept' /\ Fits' /\ CrashExplained'
         /\ pool' \subseteq Chunks
<1>1. \A c : Referenced(c)' => Referenced(c)
  BY DEF Referenced
<1>2. Pooled'
  BY <1>1 DEF SendInv, Pooled, Releases, InUse
<1>3. Kept'
  BY DEF SendInv, Kept, InPlace, Made
<1>4. OwnChunks' /\ Fits' /\ CrashExplained'
  BY DEF SendInv, OwnChunks, Fits, CrashExplained, Made
<1>5. pool' \subseteq Chunks
  BY DEF SendInv, SendTypes, Releases, InUse
<1> QED
  BY <1>2, <1>3, <1>4, <1>5

\* What a queue holds after one more was queued.
LEMMA ElementsOfAppend ==
  ASSUME NEW q \in Seq(Packets), NEW p \in Packets
  PROVE  Elements(Append(q, p)) = Elements(q) \cup {p}
<1>1. /\ Len(Append(q, p)) = Len(q) + 1 /\ Len(q) \in Nat
      /\ DOMAIN q = 1 .. Len(q) /\ DOMAIN Append(q, p) = 1 .. Len(q) + 1
      /\ \A i \in 1 .. Len(q) : Append(q, p)[i] = q[i]
      /\ Append(q, p)[Len(q) + 1] = p
  BY AppendProperties, LenProperties
<1> QED
  BY <1>1 DEF Elements

\* The chunk that Open gives has nothing behind the place where the next buffer begins,
\* and there is too little room only for a packet bigger than a chunk.
LEMMA OpenedChunk ==
  ASSUME SendInv, NEW t \in Threads, NEW p \in Packets, NEW c \in Open(t, Size[p])
  PROVE  /\ c \in Chunks /\ Offset(t, c) \in 0 .. ChunkSize
         /\ \A q \in Packets : Held(q) /\ place[q].chunk = c =>
                                 place[q].at + Size[q] <= Offset(t, c)
         /\ Size[p] > ChunkSize - Offset(t, c) => Size[p] > ChunkSize
         /\ c = chunk[t] \/ ~ Referenced(c)
<1> USE SendAssumption
<1>1. CASE chunk[t] # NoChunk /\ FreeSize(chunk[t]) >= Size[p]
  <2>1. c = chunk[t] /\ c \in Chunks
    BY <1>1 DEF Open, SendInv, SendTypes
  <2>2. Offset(t, c) = usedSize[c] /\ usedSize[c] \in 0 .. ChunkSize
    BY <2>1 DEF Offset, SendInv, SendTypes
  <2>3. Size[p] \in Nat /\ Size[p] <= ChunkSize - Offset(t, c)
    BY <1>1, <2>1, <2>2 DEF FreeSize
  <2>4. \A q \in Packets : Held(q) /\ place[q].chunk = c =>
                             place[q].at + Size[q] <= Offset(t, c)
    BY <2>2 DEF SendInv, Kept, InPlace
  <2> QED
    BY <2>1, <2>2, <2>3, <2>4
<1>2. CASE ~ (chunk[t] # NoChunk /\ FreeSize(chunk[t]) >= Size[p])
  <2>1. c \in Chunks /\ ~ Referenced(c)
    BY <1>2 DEF Open, Pop, InUse, SendInv, SendTypes, Pooled
  <2>2. c # chunk[t]
    BY <2>1 DEF Referenced
  <2>3. Offset(t, c) = 0
    BY <2>2 DEF Offset
  <2> QED
    BY <2>1, <2>3 DEF Referenced
<1> QED
  BY <1>1, <1>2

\* A packet is written behind what its chunk holds, or into a chunk nobody refers to.
LEMMA MakeInv ==
  ASSUME SendInv, NEW t \in Threads, NEW p \in Packets, NEW S \in SUBSET Sessions,
         MakeSendBuffer(t, p, S)
  PROVE  SendInv'
<1> USE SendAssumption
<1> DEFINE Effect(c, at) ==
        /\ chunk' = [chunk EXCEPT ![t] = c]
        /\ IF Size[p] > ChunkSize - at
           THEN crash' = p /\ UNCHANGED <<usedSize, memory, place, hand, to>>
           ELSE /\ memory' = [memory EXCEPT ![c] = Written(c, at, p)]
                /\ usedSize' = [usedSize EXCEPT ![c] = at + Size[p]]
                /\ place' = [place EXCEPT ![p] = [chunk |-> c, at |-> at]]
                /\ hand' = [hand EXCEPT ![t] = IF S = {} THEN NoPacket ELSE p]
                /\ to' = [to EXCEPT ![t] = S]
                /\ UNCHANGED crash
        /\ UNCHANGED <<queues, kernel>>
        /\ pool' = (pool \ {c}) \cup Releases
<1>a. PICK c \in Open(t, Size[p]) : Effect(c, Offset(t, c))
  BY DEF MakeSendBuffer
<1>0. PICK at : at = Offset(t, c) /\ Effect(c, at)
  BY <1>a
<1>1. Effect(c, at)
  BY <1>0
<1>2. /\ c \in Chunks /\ at \in 0 .. ChunkSize /\ Size[p] \in Nat
      /\ \A q \in Packets : Held(q) /\ place[q].chunk = c => place[q].at + Size[q] <= at
      /\ Size[p] > ChunkSize - at => Size[p] > ChunkSize
      /\ c = chunk[t] \/ ~ Referenced(c)
  BY <1>0, OpenedChunk
<1>3. ~ Made(p) /\ hand[t] = NoPacket
  BY DEF MakeSendBuffer
<1>4. UNCHANGED <<sendQueue, inFlight, accepted, onWire, stream>>
  BY <1>1 DEF queues, kernel
<1>5. \A q \in Packets : Held(q)' => Held(q) \/ (q = p /\ Size[p] <= ChunkSize - at)
  <2>1. hand' = hand \/ (hand' = [hand EXCEPT ![t] = IF S = {} THEN NoPacket ELSE p]
                         /\ ~ (Size[p] > ChunkSize - at))
    BY <1>1
  <2>2. \A u \in Threads : hand'[u] = hand[u] \/ hand'[u] = NoPacket
                           \/ (hand'[u] = p /\ Size[p] <= ChunkSize - at)
    BY <2>1, <1>2 DEF SendInv, SendTypes
  <2> QED
    BY <2>2, <1>4 DEF Held, Elements
<1>6. \A q \in Packets : Made(q) => Made(q)' /\ place'[q] = place[q]
  BY <1>1, <1>3 DEF Made, SendInv, SendTypes
<1>7. SendTypes'
  <2>1. CASE Size[p] > ChunkSize - at
    BY <2>1, <1>1, <1>2, <1>4 DEF SendInv, SendTypes, Releases, InUse
  <2>2. CASE ~ (Size[p] > ChunkSize - at)
    <3>1. at + Size[p] \in 0 .. ChunkSize
      BY <2>2, <1>2
    <3>2. [chunk |-> c, at |-> at] \in Place
      BY <1>2 DEF Place
    <3>3. Written(c, at, p) \in [Cells -> Byte]
      BY <1>2 DEF Written, Byte, Cells, SendInv, SendTypes
    <3>4. hand' \in [Threads -> Packets \cup {NoPacket}] /\ to' \in [Threads -> SUBSET Sessions]
      <4>1. /\ hand' = [hand EXCEPT ![t] = IF S = {} THEN NoPacket ELSE p]
            /\ to' = [to EXCEPT ![t] = S]
        BY <2>2, <1>1
      <4> QED
        BY <4>1 DEF SendInv, SendTypes
    <3>5. pool' \subseteq Chunks
      BY <1>1 DEF SendInv, SendTypes, Releases, InUse
    <3>6. usedSize' = [usedSize EXCEPT ![c] = at + Size[p]] /\ crash' = crash
      BY <2>2, <1>1
    <3>7. /\ memory' = [memory EXCEPT ![c] = Written(c, at, p)]
          /\ place' = [place EXCEPT ![p] = [chunk |-> c, at |-> at]]
          /\ chunk' = [chunk EXCEPT ![t] = c]
      BY <2>2, <1>1
    <3>8. /\ chunk' \in [Threads -> Chunks \cup {NoChunk}]
          /\ usedSize' \in [Chunks -> 0 .. ChunkSize]
      BY <3>1, <3>6, <3>7, <1>2 DEF SendInv, SendTypes
    <3>9. /\ memory' \in [Chunks -> [Cells -> Byte]]
          /\ place' \in [Packets -> Place \cup {NoPlace}]
      BY <3>2, <3>3, <3>7, <1>2 DEF SendInv, SendTypes
    <3> QED
      BY <1>4, <3>4, <3>5, <3>6, <3>8, <3>9 DEF SendInv, SendTypes
  <2> QED
    BY <2>1, <2>2
<1>8. OwnChunks'
  BY <1>1, <1>2 DEF SendInv, SendTypes, OwnChunks, Referenced
<1>9. Pooled'
  <2>1. \A x \in Chunks : Referenced(x)' => Referenced(x) \/ x = c
    <3> SUFFICES ASSUME NEW x \in Chunks, Referenced(x)', x # c PROVE Referenced(x)
      OBVIOUS
    <3>1. CASE \E u \in Threads : chunk'[u] = x
      BY <3>1, <1>1 DEF SendInv, SendTypes, Referenced
    <3>2. CASE \E q \in Packets : Held(q)' /\ place'[q].chunk = x
      <4>1. PICK q \in Packets : Held(q)' /\ place'[q].chunk = x
        BY <3>2
      <4>2. CASE Held(q)
        BY <4>1, <4>2, <1>6 DEF SendInv, Kept, InPlace, Referenced
      <4>3. CASE q = p /\ Size[p] <= ChunkSize - at
        <5>1. place' = [place EXCEPT ![p] = [chunk |-> c, at |-> at]]
          BY <4>3, <1>1, <1>2
        <5> QED
          BY <5>1, <4>1, <4>3 DEF SendInv, SendTypes
      <4> QED
        BY <4>1, <4>2, <4>3, <1>5
    <3> QED
      BY <3>1, <3>2 DEF Referenced
  <2>2. pool' = (pool \ {c}) \cup (InUse \ InUse')
    BY <1>1 DEF Releases
  <2> QED
    BY <2>1, <2>2 DEF InUse, Pooled, SendInv, SendTypes
<1>10. Kept'
  <2> SUFFICES ASSUME NEW q \in Packets, Held(q)' PROVE InPlace(q)'
    BY DEF Kept
  <2>1. CASE Size[p] > ChunkSize - at
    <3>1. Held(q)
      BY <2>1, <1>5, <1>2
    <3> QED
      BY <3>1, <2>1, <1>1 DEF SendInv, Kept, InPlace, Made
  <2>2. CASE ~ (Size[p] > ChunkSize - at) /\ q = p
    <3>1. place'[p] = [chunk |-> c, at |-> at] /\ Made(p)'
      BY <2>2, <1>1, <1>2 DEF SendInv, SendTypes, Made, NoPlace
    <3>2. usedSize'[c] = at + Size[p] /\ memory'[c] = Written(c, at, p)
      BY <2>2, <1>1, <1>2 DEF SendInv, SendTypes
    <3>3. \A i \in 1 .. Size[p] : Written(c, at, p)[at + i - 1] = <<p, i>>
      BY <2>2, <1>2 DEF Written, Cells
    <3>4. place'[q].chunk = c /\ place'[q].at = at
      BY <2>2, <3>1
    <3> QED
      BY <2>2, <1>2, <3>1, <3>2, <3>3, <3>4 DEF InPlace
  <2>3. CASE ~ (Size[p] > ChunkSize - at) /\ q # p
    <3>1. Held(q) /\ InPlace(q)
      BY <2>3, <1>5 DEF SendInv, Kept
    <3>2. place'[q] = place[q] /\ Made(q)' /\ place[q] \in Place
      BY <3>1, <1>6 DEF InPlace, Made, SendInv, SendTypes
    <3>3. CASE place[q].chunk # c
      <4>1. place[q].chunk \in Chunks
        BY <3>2 DEF Place
      <4>2. /\ usedSize'[place[q].chunk] = usedSize[place[q].chunk]
            /\ memory'[place[q].chunk] = memory[place[q].chunk]
        BY <4>1, <3>3, <2>3, <1>1 DEF SendInv, SendTypes
      <4> QED
        BY <3>1, <3>2, <4>2 DEF InPlace
    <3>4. CASE place[q].chunk = c
      <4>1. usedSize'[c] = at + Size[p] /\ memory'[c] = Written(c, at, p)
        BY <2>3, <1>1, <1>2 DEF SendInv, SendTypes
      <4>2. place[q].at \in Nat /\ place[q].at + Size[q] <= at
        BY <3>1, <3>2, <3>4, <1>2 DEF Place
      <4>3. \A i \in 1 .. Size[q] :
              Written(c, at, p)[place[q].at + i - 1] = memory[c][place[q].at + i - 1]
        <5> SUFFICES ASSUME NEW i \in 1 .. Size[q]
                     PROVE Written(c, at, p)[place[q].at + i - 1] = memory[c][place[q].at + i - 1]
          OBVIOUS
        <5>1. /\ Size[q] \in Nat
              /\ place[q].at + i - 1 \in Cells /\ ~ (place[q].at + i - 1 \in at .. at + Size[p] - 1)
          BY <4>2, <1>2 DEF Cells
        <5> QED
          BY <5>1 DEF Written
      <4> QED
        BY <3>1, <3>2, <3>4, <4>1, <4>2, <4>3, <1>2 DEF InPlace
    <3> QED
      BY <3>3, <3>4
  <2> QED
    BY <2>1, <2>2, <2>3
<1>11. Fits'
  BY <1>1, <1>2 DEF SendInv, SendTypes, Fits, Made
<1>12. Underway'
  BY <1>4, <1>6 DEF SendInv, SendTypes, Underway
<1>13. Handing'
  BY <1>1 DEF SendInv, SendTypes, Handing
<1>14. CrashExplained'
  BY <1>1, <1>2 DEF SendInv, CrashExplained
<1> QED
  BY <1>7, <1>8, <1>9, <1>10, <1>11, <1>12, <1>13, <1>14 DEF SendInv

\* A session's queue takes over the thread's reference.
LEMMA SendKeepsInv ==
  ASSUME SendInv, NEW t \in Threads, NEW s \in Sessions, Send(t, s)
  PROVE  SendInv'
<1>1. hand[t] \in Packets
  BY DEF Send, SendInv, SendTypes, Handing
<1>2. /\ sendQueue' = [sendQueue EXCEPT ![s] = Append(@, hand[t])]
      /\ to' = [to EXCEPT ![t] = @ \ {s}]
      /\ hand' = [hand EXCEPT ![t] = IF to[t] = {s} THEN NoPacket ELSE @]
      /\ UNCHANGED <<chunk, usedSize, memory, place, inFlight, accepted, onWire, stream, crash>>
      /\ pool' = pool \cup Releases
  BY DEF Send, kernel
<1>3. \A p \in Packets : Held(p)' => Held(p)
  <2>1. Elements(sendQueue'[s]) = Elements(sendQueue[s]) \cup {hand[t]}
    BY <1>1, <1>2, ElementsOfAppend DEF SendInv, SendTypes
  <2>2. \A r \in Sessions : r # s => sendQueue'[r] = sendQueue[r]
    BY <1>2 DEF SendInv, SendTypes
  <2>3. \A u \in Threads : hand'[u] = hand[u] \/ hand'[u] = NoPacket
    BY <1>2 DEF SendInv, SendTypes
  <2> SUFFICES ASSUME NEW p \in Packets, Held(p)' PROVE Held(p)
    OBVIOUS
  <2>4. CASE \E u \in Threads : hand'[u] = p
    BY <2>3, <2>4, SendAssumption DEF Held
  <2>5. CASE \E r \in Sessions : p \in Elements(sendQueue'[r]) \cup inFlight'[r]
    BY <2>1, <2>2, <2>5, <1>2 DEF Held
  <2> QED
    BY <2>4, <2>5 DEF Held
<1>4. OwnChunks' /\ Pooled' /\ Kept' /\ Fits' /\ CrashExplained' /\ pool' \subseteq Chunks
  BY <1>2, <1>3, DropsInv
<1>5. SendTypes'
  <2>1. Append(sendQueue[s], hand[t]) \in Seq(Packets)
    BY <1>1, AppendProperties DEF SendInv, SendTypes
  <2> QED
    BY <1>2, <1>4, <2>1 DEF SendInv, SendTypes
<1>6. Underway'
  BY <1>2 DEF SendInv, Underway, Made
<1>7. Handing'
  BY <1>2 DEF SendInv, SendTypes, Handing
<1> QED
  BY <1>4, <1>5, <1>6, <1>7 DEF SendInv

\* The send event takes over the references of the queue, and the kernel may read them.
LEMMA RegisterSendInv ==
  ASSUME SendInv, NEW s \in Sessions, RegisterSend(s)
  PROVE  SendInv'
<1>1. /\ accepted' = [accepted EXCEPT ![s] = @ \o sendQueue[s]]
      /\ inFlight' = [inFlight EXCEPT ![s] = Elements(sendQueue[s])]
      /\ sendQueue' = [sendQueue EXCEPT ![s] = <<>>]
      /\ UNCHANGED <<chunk, usedSize, memory, place, hand, to, onWire, stream, crash>>
      /\ pool' = pool \cup Releases
      /\ inFlight[s] = {}
  BY DEF RegisterSend, CanRegister, kernel
<1>2. Elements(sendQueue[s]) \subseteq Packets /\ Elements(<<>>) = {}
  BY ElementOfSeq, LenProperties DEF Elements, SendInv, SendTypes
<1>3. \A p \in Packets : Held(p)' => Held(p)
  BY <1>1, <1>2 DEF Held, SendInv, SendTypes
<1>4. OwnChunks' /\ Pooled' /\ Kept' /\ Fits' /\ CrashExplained' /\ pool' \subseteq Chunks
  BY <1>1, <1>3, DropsInv
<1>5. /\ accepted[s] \o sendQueue[s] \in Seq(Packets)
      /\ Len(accepted[s] \o sendQueue[s]) = Len(accepted[s]) + Len(sendQueue[s])
      /\ Len(accepted[s]) \in Nat /\ Len(sendQueue[s]) \in Nat
      /\ \A i \in 1 .. Len(accepted[s]) + Len(sendQueue[s]) :
           (accepted[s] \o sendQueue[s])[i] =
             IF i <= Len(accepted[s]) THEN accepted[s][i] ELSE sendQueue[s][i - Len(accepted[s])]
  BY ConcatProperties, LenProperties DEF SendInv, SendTypes
<1>6. SendTypes'
  BY <1>1, <1>2, <1>4, <1>5, EmptySeq DEF SendInv, SendTypes
<1>7. Underway'
  <2> SUFFICES ASSUME NEW r \in Sessions
               PROVE  /\ onWire'[r] <= Len(accepted'[r])
                      /\ \A k \in 1 .. Len(accepted'[r]) :
                           /\ Made(accepted[r][k])'
                           /\ k > onWire'[r] => accepted'[r][k] \in inFlight'[r]
    BY DEF Underway
  <2>1. CASE r # s
    BY <2>1, <1>1 DEF SendInv, SendTypes, Underway, Made
  <2>2. CASE r = s
    <3>1. accepted'[s] = accepted[s] \o sendQueue[s] /\ inFlight'[s] = Elements(sendQueue[s])
      BY <1>1 DEF SendInv, SendTypes
    <3>2. onWire[s] = Len(accepted[s])
      <4>1. onWire[s] \in Nat /\ onWire[s] <= Len(accepted[s])
        BY DEF SendInv, SendTypes, Underway
      <4>2. \A k \in 1 .. Len(accepted[s]) : ~ (k > onWire[s])
        BY <1>1 DEF SendInv, Underway
      <4> QED
        BY <4>1, <4>2, <1>5
    <3> SUFFICES ASSUME NEW k \in 1 .. Len(accepted[s]) + Len(sendQueue[s])
                 PROVE  /\ Made(accepted[s][k])'
                        /\ k > Len(accepted[s]) => accepted'[s][k] \in inFlight'[s]
      <4>1. onWire'[r] = Len(accepted[s])
        BY <2>2, <3>2, <1>1
      <4>2. Len(accepted'[r]) = Len(accepted[s]) + Len(sendQueue[s])
        BY <2>2, <3>1, <1>5
      <4>3. Len(accepted[s]) <= Len(accepted[s]) + Len(sendQueue[s])
        <5>1. \A m, n \in Nat : m <= m + n
          OBVIOUS
        <5> QED
          BY <5>1, <1>5
      <4> QED
        BY <2>2, <3>2, <4>1, <4>2, <4>3
    <3>3. CASE k <= Len(accepted[s])
      BY <3>1, <3>2, <3>3, <1>1, <1>5 DEF SendInv, Underway, Made
    <3>4. CASE k > Len(accepted[s])
      <4>1. accepted'[s][k] = sendQueue[s][k - Len(accepted[s])]
        BY <3>1, <3>4, <1>5
      <4>2. accepted'[s][k] \in Elements(sendQueue[s])
        <5>1. DOMAIN sendQueue[s] = 1 .. Len(sendQueue[s])
          BY LenProperties DEF SendInv, SendTypes
        <5>2. k - Len(accepted[s]) \in 1 .. Len(sendQueue[s])
          <6>1. Len(accepted[s]) \in Nat /\ Len(sendQueue[s]) \in Nat
            BY <1>5
          <6>2. \A m, n \in Nat : \A x \in 1 .. m + n : x > m => x - m \in 1 .. n
            OBVIOUS
          <6> QED
            BY <3>4, <6>1, <6>2
        <5> QED
          BY <4>1, <5>1, <5>2 DEF Elements
      <4>3. Held(accepted'[s][k])
        BY <4>2 DEF Held
      <4> QED
        BY <4>2, <4>3, <3>1, <1>1, <1>2 DEF SendInv, Kept, InPlace, Made
    <3> QED
      BY <3>3, <3>4, <1>5
  <2> QED
    BY <2>1, <2>2
<1>8. Handing'
  BY <1>1 DEF SendInv, Handing
<1> QED
  BY <1>4, <1>6, <1>7, <1>8 DEF SendInv

\* References dropped with a failed send were not given to the kernel.
LEMMA RegisterSendFailsInv ==
  ASSUME SendInv, NEW s \in Sessions, RegisterSendFails(s)
  PROVE  SendInv'
<1>1. /\ sendQueue' = [sendQueue EXCEPT ![s] = <<>>]
      /\ UNCHANGED <<chunk, usedSize, memory, place, hand, to, inFlight, accepted, onWire,
                     stream, crash>>
      /\ pool' = pool \cup Releases
  BY DEF RegisterSendFails, kernel
<1>2. \A p \in Packets : Held(p)' => Held(p)
  <2>1. Elements(<<>>) = {}
    BY DEF Elements
  <2> QED
    BY <1>1, <2>1 DEF Held, SendInv, SendTypes
<1>3. OwnChunks' /\ Pooled' /\ Kept' /\ Fits' /\ CrashExplained' /\ pool' \subseteq Chunks
  BY <1>1, <1>2, DropsInv
<1>4. SendTypes'
  BY <1>1, <1>3, EmptySeq DEF SendInv, SendTypes
<1>5. Underway' /\ Handing'
  BY <1>1 DEF SendInv, Underway, Made, Handing
<1> QED
  BY <1>3, <1>4, <1>5 DEF SendInv

\* References are dropped once the kernel has read everything.
LEMMA ProcessSendInv ==
  ASSUME SendInv, NEW s \in Sessions, ProcessSend(s)
  PROVE  SendInv'
<1>1. /\ inFlight' = [inFlight EXCEPT ![s] = {}]
      /\ UNCHANGED <<chunk, usedSize, memory, place, hand, to, sendQueue, accepted, onWire,
                     stream, crash>>
      /\ pool' = pool \cup Releases
      /\ onWire[s] = Len(accepted[s])
  BY DEF ProcessSend, kernel
<1>2. \A p \in Packets : Held(p)' => Held(p)
  BY <1>1 DEF Held, SendInv, SendTypes
<1>3. OwnChunks' /\ Pooled' /\ Kept' /\ Fits' /\ CrashExplained' /\ pool' \subseteq Chunks
  BY <1>1, <1>2, DropsInv
<1>4. SendTypes'
  BY <1>1, <1>3 DEF SendInv, SendTypes
<1>5. Underway'
  BY <1>1 DEF SendInv, SendTypes, Underway, Made
<1>6. Handing'
  BY <1>1 DEF SendInv, Handing
<1> QED
  BY <1>3, <1>4, <1>5, <1>6 DEF SendInv

\* The kernel reads a packet as it was written.
LEMMA ReadsWhole ==
  ASSUME SendInv, NEW s \in Sessions, onWire[s] < Len(accepted[s])
  PROVE  LET p == accepted[s][onWire[s] + 1] IN
         /\ p \in Packets /\ Size[p] \in HeaderSize .. ChunkSize
         /\ Content(p) = [i \in 1 .. Size[p] |-> <<p, i>>]
         /\ Content(p) \in Seq(Byte) /\ Len(Content(p)) = Size[p]
<1> DEFINE p == accepted[s][onWire[s] + 1]
<1>1. onWire[s] + 1 \in 1 .. Len(accepted[s])
  BY LenProperties DEF SendInv, SendTypes
<1>2. p \in Packets
  BY <1>1, ElementOfSeq DEF SendInv, SendTypes
<1>3. Made(p) /\ Held(p)
  BY <1>1 DEF SendInv, SendTypes, Underway, Held
<1>4. InPlace(p) /\ Size[p] \in HeaderSize .. ChunkSize
  BY <1>2, <1>3, SendAssumption DEF SendInv, Kept, Fits
<1>5. Content(p) = [i \in 1 .. Size[p] |-> <<p, i>>]
  BY <1>4 DEF Content, InPlace
<1>6. \A i \in 1 .. Size[p] : <<p, i>> \in Byte
  BY <1>2, <1>4, SendAssumption DEF Byte
<1>7. [i \in 1 .. Size[p] |-> <<p, i>>] \in Seq(Byte)
  <2>1. Size[p] \in Nat /\ [i \in 1 .. Size[p] |-> <<p, i>>] \in [1 .. Size[p] -> Byte]
    BY <1>4, <1>6, SendAssumption
  <2> QED
    BY <2>1, SeqDef
<1>8. Len([i \in 1 .. Size[p] |-> <<p, i>>]) = Size[p]
  BY <1>4, <1>7, SendAssumption
<1> QED
  BY <1>2, <1>4, <1>5, <1>7, <1>8

\* The kernel reads a packet the send event holds, which is unchanged.
LEMMA TransmitInv ==
  ASSUME SendInv, NEW s \in Sessions, Transmit(s)
  PROVE  SendInv'
<1> DEFINE p == accepted[s][onWire[s] + 1]
<1>1. /\ stream' = [stream EXCEPT ![s] = @ \o Content(p)]
      /\ onWire' = [onWire EXCEPT ![s] = @ + 1]
      /\ UNCHANGED <<chunk, pool, usedSize, memory, place, hand, to, sendQueue, inFlight,
                     accepted, crash>>
      /\ onWire[s] < Len(accepted[s])
  BY DEF Transmit, chunks, queues
<1>2. SendTypes'
  <2>1. stream[s] \o Content(p) \in Seq(Byte)
    BY <1>1, ReadsWhole, ConcatProperties DEF SendInv, SendTypes
  <2> HIDE DEF p
  <2> QED
    BY <1>1, <2>1 DEF SendInv, SendTypes
<1>3. OwnChunks' /\ Fits' /\ Handing' /\ CrashExplained'
  BY <1>1 DEF SendInv, OwnChunks, Fits, Handing, CrashExplained, Made
<1>4. \A q : Held(q)' <=> Held(q)
  BY <1>1 DEF Held, Elements
<1>5. Pooled' /\ Kept'
  BY <1>1, <1>4 DEF SendInv, Pooled, Kept, Referenced, InPlace, Made
<1>6. Underway'
  <2>1. \A r \in Sessions : Len(accepted[r]) \in Nat
    BY LenProperties DEF SendInv, SendTypes
  <2> QED
    BY <1>1, <2>1 DEF SendInv, SendTypes, Underway, Made
<1> QED
  BY <1>2, <1>3, <1>5, <1>6 DEF SendInv

\* No step of the sending end breaks its invariant.
LEMMA SendNextInv == SendInv /\ SendNext => SendInv'
<1> SUFFICES ASSUME SendInv, SendNext PROVE SendInv'
  OBVIOUS
<1>1. ASSUME NEW t \in Threads, NEW p \in Packets, NEW S \in SUBSET Sessions,
             MakeSendBuffer(t, p, S)
      PROVE  SendInv'
  BY <1>1, MakeInv
<1>2. ASSUME NEW t \in Threads, NEW s \in Sessions, Send(t, s) PROVE SendInv'
  BY <1>2, SendKeepsInv
<1>3. ASSUME NEW s \in Sessions, RegisterSend(s) PROVE SendInv'
  BY <1>3, RegisterSendInv
<1>4. ASSUME NEW s \in Sessions, RegisterSendFails(s) PROVE SendInv'
  BY <1>4, RegisterSendFailsInv
<1>5. ASSUME NEW s \in Sessions, Transmit(s) PROVE SendInv'
  BY <1>5, TransmitInv
<1>6. ASSUME NEW s \in Sessions, ProcessSend(s) PROVE SendInv'
  BY <1>6, ProcessSendInv
<1> QED
  BY <1>1, <1>2, <1>3, <1>4, <1>5, <1>6 DEF SendNext
-----------------------------------------------------------------------------
(* The receiving end *)

\* start[k] is where packet k begins in the bytes of the stream, counted from 0; the last
\* entry is where the next one will.
Framed(s, start) ==
  /\ start \in [1 .. onWire[s] + 1 -> Nat]
  /\ start[onWire[s] + 1] = Len(stream[s])
  /\ \A k \in 1 .. onWire[s] :
       /\ start[k + 1] = start[k] + Size[accepted[s][k]]
       /\ start[k + 1] <= Len(stream[s])
       /\ \A i \in 1 .. Size[accepted[s][k]] : stream[s][start[k] + i] = <<accepted[s][k], i>>

\* The next byte OnRecv will look at begins a packet, the one after those that were handled.
AtPacket(s) ==
  \E start : /\ Framed(s, start)
             /\ taken[s] - writePos[s] + readPos[s] + processed[s] = start[Len(handled[s]) + 1]

\* What is unread in the RecvBuffer is the last of the stream that was taken.
Buffered(s) ==
  /\ taken[s] <= Len(stream[s]) /\ writePos[s] <= taken[s]
  /\ \A j \in readPos[s] .. writePos[s] - 1 :
       buffer[s][j] = stream[s][taken[s] - writePos[s] + j + 1]

\* A WSARecv that is posted has room for BufferSize bytes.
Roomy(s) ==
  /\ phase[s] # "closed"
  /\ phase[s] = "posted" => processed[s] = 0 /\ BufferSize <= Capacity - writePos[s]

HandledInOrder(s) ==
  /\ Len(handled[s]) <= onWire[s]
  /\ \A k \in 1 .. Len(handled[s]) : handled[s][k] = accepted[s][k]

RecvInv(s) == Roomy(s) /\ Buffered(s) /\ HandledInOrder(s) /\ AtPacket(s)

RecvTypes ==
  /\ phase \in [Sessions -> {"posted", "cutting", "closed"}]
  /\ buffer \in [Sessions -> [0 .. Capacity - 1 -> Byte]]
  /\ handled \in [Sessions -> Seq(Packets \cup {NoPacket})]
  /\ taken \in [Sessions -> Nat] /\ readPos \in [Sessions -> Nat]
  /\ writePos \in [Sessions -> 0 .. Capacity] /\ processed \in [Sessions -> Nat]
  /\ \A s \in Sessions : readPos[s] + processed[s] <= writePos[s]

IInv == SendInv /\ RecvTypes /\ \A s \in Sessions : RecvInv(s)

\* A RecvBuffer has room for three receives.
LEMMA CapacityBound == Capacity \in Nat /\ Capacity >= 3 * BufferSize
<1>1. BufferSize \in Nat /\ BufferCount \in Nat /\ BufferCount >= 3
  BY RecvAssumption
<1>2. \A m, n \in Nat : n >= 3 => m * n \in Nat /\ m * n >= 3 * m
  OBVIOUS
<1> QED
  BY <1>1, <1>2 DEF Capacity

\* The initial states satisfy the invariant of both ends.
LEMMA InitInv == Init => IInv
<1> SUFFICES ASSUME Init PROVE IInv
  OBVIOUS
<1>1. SendInv
  BY SendInitInv DEF Init
<1>2. RecvTypes
  <2>1. <<NoPacket, 0>> \in Byte
    BY DEF Byte
  <2> QED
    BY <2>1, EmptySeq, CapacityBound DEF Init, RecvTypes
<1>3. ASSUME NEW s \in Sessions PROVE RecvInv(s)
  <2>0. /\ onWire[s] = 0 /\ stream[s] = <<>> /\ Len(<<>>) = 0
        /\ taken[s] = 0 /\ writePos[s] = 0 /\ readPos[s] = 0 /\ processed[s] = 0
        /\ handled[s] = <<>> /\ phase[s] = "posted"
    BY EmptySeq DEF Init, SendInit
  <2>1. Roomy(s)
    BY <2>0, CapacityBound, RecvAssumption DEF Roomy
  <2>2. Buffered(s) /\ HandledInOrder(s)
    BY <2>0 DEF Buffered, HandledInOrder
  <2>3. AtPacket(s)
    <3>1. Framed(s, [k \in 1 .. 1 |-> 0])
      BY <2>0 DEF Framed
    <3> QED
      BY <2>0, <3>1 DEF AtPacket
  <2> QED
    BY <2>1, <2>2, <2>3 DEF RecvInv
<1> QED
  BY <1>1, <1>2, <1>3 DEF IInv

\* What a step of the sending end does to a stream: nothing, or one more whole packet.
Untouched(s) ==
  /\ onWire'[s] = onWire[s] /\ stream'[s] = stream[s]
  /\ \A k \in 1 .. onWire[s] : accepted'[s][k] = accepted[s][k]
Extended(s) ==
  /\ onWire'[s] = onWire[s] + 1 /\ accepted'[s] = accepted[s]
  /\ onWire[s] < Len(accepted[s])
  /\ stream'[s] = stream[s] \o Content(accepted[s][onWire[s] + 1])

\* A step of the sending end only appends to the stream, whole packets, and to what was accepted.
LEMMA SendEffect ==
  ASSUME SendInv, SendNext, NEW s \in Sessions
  PROVE  Untouched(s) \/ Extended(s)
<1>1. ASSUME UNCHANGED <<onWire, stream, accepted>> PROVE Untouched(s)
  BY <1>1 DEF Untouched
<1>2. ASSUME NEW t \in Threads, NEW p \in Packets, NEW S \in SUBSET Sessions,
             MakeSendBuffer(t, p, S)
      PROVE  Untouched(s)
  BY <1>1, <1>2 DEF MakeSendBuffer, kernel, queues
<1>3. ASSUME NEW t \in Threads, NEW r \in Sessions, Send(t, r) PROVE Untouched(s)
  BY <1>1, <1>3 DEF Send, kernel
<1>4. ASSUME NEW r \in Sessions, RegisterSend(r) PROVE Untouched(s)
  <2>1. /\ UNCHANGED <<onWire, stream>>
        /\ accepted' = [accepted EXCEPT ![r] = @ \o sendQueue[r]]
    BY <1>4 DEF RegisterSend, kernel
  <2>2. CASE r # s
    BY <2>1, <2>2 DEF Untouched, SendInv, SendTypes
  <2>3. CASE r = s
    <3>1. accepted'[s] = accepted[s] \o sendQueue[s]
      BY <2>1, <2>3 DEF SendInv, SendTypes
    <3>2. onWire[s] \in Nat /\ onWire[s] <= Len(accepted[s]) /\ Len(accepted[s]) \in Nat
      BY LenProperties DEF SendInv, SendTypes, Underway
    <3>3. \A k \in 1 .. Len(accepted[s]) :
            (accepted[s] \o sendQueue[s])[k] = accepted[s][k]
      BY ConcatProperties, LenProperties DEF SendInv, SendTypes
    <3>4. \A k \in 1 .. onWire[s] : k \in 1 .. Len(accepted[s])
      BY <3>2
    <3> QED
      BY <2>1, <3>1, <3>3, <3>4 DEF Untouched
  <2> QED
    BY <2>2, <2>3
<1>5. ASSUME NEW r \in Sessions, RegisterSendFails(r) PROVE Untouched(s)
  BY <1>1, <1>5 DEF RegisterSendFails, kernel
<1>6. ASSUME NEW r \in Sessions, ProcessSend(r) PROVE Untouched(s)
  BY <1>1, <1>6 DEF ProcessSend, kernel
<1>7. ASSUME NEW r \in Sessions, Transmit(r) PROVE Untouched(s) \/ Extended(s)
  BY <1>7 DEF Transmit, queues, Untouched, Extended, SendInv, SendTypes
<1> QED
  BY <1>2, <1>3, <1>4, <1>5, <1>6, <1>7 DEF SendNext

\* One more packet on the wire: the positions of the others stay.
LEMMA ExtendedFraming ==
  ASSUME SendInv, NEW s \in Sessions, Extended(s), NEW start, Framed(s, start)
  PROVE  \E more : Framed(s, more)' /\ \A k \in 1 .. onWire[s] + 1 : more[k] = start[k]
<1> DEFINE p == accepted[s][onWire[s] + 1]
<1>1. /\ p \in Packets /\ Size[p] \in Nat
      /\ Content(p) = [i \in 1 .. Size[p] |-> <<p, i>>]
      /\ Content(p) \in Seq(Byte) /\ Len(Content(p)) = Size[p]
  BY ReadsWhole, SendAssumption DEF Extended
<1>2. /\ stream[s] \in Seq(Byte) /\ Len(stream[s]) \in Nat /\ onWire[s] \in Nat
  BY LenProperties DEF SendInv, SendTypes
<1>3. /\ Len(stream'[s]) = Len(stream[s]) + Size[p]
      /\ \A i \in 1 .. Len(stream[s]) : stream'[s][i] = stream[s][i]
      /\ \A i \in 1 .. Size[p] : stream'[s][Len(stream[s]) + i] = <<p, i>>
  <2>1. \A i \in 1 .. Len(stream[s]) + Size[p] :
          stream'[s][i] = IF i <= Len(stream[s]) THEN stream[s][i]
                          ELSE Content(p)[i - Len(stream[s])]
    BY <1>1, <1>2, ConcatProperties DEF Extended
  <2>2. \A m, n \in Nat : /\ \A i \in 1 .. m : i \in 1 .. m + n /\ i <= m
                          /\ \A i \in 1 .. n : /\ m + i \in 1 .. m + n /\ ~ (m + i <= m)
                                               /\ m + i - m = i
    OBVIOUS
  <2>3. Len(stream'[s]) = Len(stream[s]) + Size[p]
    BY <1>1, <1>2, ConcatProperties DEF Extended
  <2> HIDE DEF p
  <2>4. \A i \in 1 .. Len(stream[s]) : stream'[s][i] = stream[s][i]
    BY <1>1, <1>2, <2>1, <2>2
  <2>5. \A i \in 1 .. Size[p] : stream'[s][Len(stream[s]) + i] = <<p, i>>
    <3> SUFFICES ASSUME NEW i \in 1 .. Size[p]
                 PROVE stream'[s][Len(stream[s]) + i] = <<p, i>>
      OBVIOUS
    <3>2. /\ Len(stream[s]) + i \in 1 .. Len(stream[s]) + Size[p]
          /\ ~ (Len(stream[s]) + i <= Len(stream[s]))
          /\ Len(stream[s]) + i - Len(stream[s]) = i
      <4>1. Size[p] \in Nat /\ Len(stream[s]) \in Nat
        BY <1>1, <1>2
      <4> QED
        BY <4>1, <2>2
    <3>1. stream'[s][Len(stream[s]) + i] = Content(p)[i]
      BY <2>1, <3>2
    <3> QED
      BY <3>1, <1>1
  <2> QED
    BY <2>3, <2>4, <2>5
<1>m. PICK more : more = [k \in 1 .. onWire[s] + 2 |->
                           IF k <= onWire[s] + 1 THEN start[k] ELSE Len(stream'[s])]
  OBVIOUS
<1>4. \A k \in 1 .. onWire[s] + 1 : more[k] = start[k]
  BY <1>m, <1>2
<1>5. Framed(s, more)'
  <2>1. onWire'[s] = onWire[s] + 1 /\ accepted'[s] = accepted[s]
    BY DEF Extended
  <2>2. more \in [1 .. onWire[s] + 2 -> Nat] /\ more[onWire[s] + 2] = Len(stream'[s])
    BY <1>m, <1>1, <1>2, <1>3 DEF Framed
  <2>3. ASSUME NEW k \in 1 .. onWire[s] + 1
        PROVE  /\ more[k + 1] = more[k] + Size[accepted[s][k]]
               /\ more[k + 1] <= Len(stream'[s])
               /\ \A i \in 1 .. Size[accepted[s][k]] :
                    stream'[s][more[k] + i] = <<accepted[s][k], i>>
    <3>1. CASE k = onWire[s] + 1
      <4>1. more[k] = Len(stream[s]) /\ more[k + 1] = Len(stream'[s])
        BY <3>1, <1>m, <1>2, <1>4 DEF Framed
      <4> QED
        BY <3>1, <4>1, <1>1, <1>2, <1>3
    <3>2. CASE k # onWire[s] + 1
      <4>1. k \in 1 .. onWire[s] /\ k + 1 \in 1 .. onWire[s] + 1
        BY <3>2, <1>2
      <4>2. more[k] = start[k] /\ more[k + 1] = start[k + 1] /\ start[k] \in Nat
        BY <4>1, <1>4, <1>2 DEF Framed
      <4> DEFINE q == accepted[s][k]
      <4>3. /\ start[k + 1] = start[k] + Size[q] /\ start[k + 1] <= Len(stream[s])
            /\ \A i \in 1 .. Size[q] : stream[s][start[k] + i] = <<q, i>>
        BY <4>1 DEF Framed
      <4>4. Size[q] \in Nat
        <5>1. k \in 1 .. Len(accepted[s])
          BY <4>1, <1>2, LenProperties DEF SendInv, SendTypes, Underway
        <5> QED
          BY <5>1, ElementOfSeq, SendAssumption DEF SendInv, SendTypes
      <4> HIDE DEF q
      <4>5. \A i \in 1 .. Size[q] : stream'[s][start[k] + i] = <<q, i>>
        <5>1. \A a, b, c \in Nat : a + b <= c => \A i \in 1 .. b : a + i \in 1 .. c
          OBVIOUS
        <5> QED
          BY <4>2, <4>3, <4>4, <5>1, <1>2, <1>3
      <4>6. start[k + 1] <= Len(stream'[s])
        BY <4>2, <4>3, <4>4, <1>1, <1>2, <1>3
      <4> QED
        BY <4>2, <4>3, <4>5, <4>6 DEF q
    <3> QED
      BY <3>1, <3>2
  <2>4. onWire'[s] + 1 = onWire[s] + 2 /\ 1 .. onWire'[s] = 1 .. onWire[s] + 1
    BY <2>1, <1>2
  <2> QED
    BY <2>1, <2>2, <2>3, <2>4 DEF Framed
<1> QED
  BY <1>4, <1>5

\* Nothing the receiving end knows of the stream is changed by the sending end.
LEMMA RecvInvKept ==
  ASSUME SendInv, RecvTypes, UNCHANGED recvVars, NEW s \in Sessions, RecvInv(s),
         Untouched(s) \/ Extended(s)
  PROVE  RecvInv(s)'
<1>0. /\ phase'[s] = phase[s] /\ taken'[s] = taken[s] /\ buffer'[s] = buffer[s]
      /\ readPos'[s] = readPos[s] /\ writePos'[s] = writePos[s]
      /\ processed'[s] = processed[s] /\ handled'[s] = handled[s]
  BY DEF recvVars
<1>1. /\ onWire[s] \in Nat /\ Len(stream[s]) \in Nat /\ Len(handled[s]) \in Nat
      /\ taken[s] \in Nat /\ writePos[s] \in Nat /\ readPos[s] \in Nat
  BY LenProperties, CapacityBound DEF SendInv, SendTypes, RecvTypes
<1>2. Roomy(s)'
  BY <1>0 DEF RecvInv, Roomy, Capacity
<1>3. CASE Untouched(s)
  <2>1. Buffered(s)'
    BY <1>3, <1>0 DEF RecvInv, Buffered, Untouched
  <2>2. HandledInOrder(s)'
    BY <1>3, <1>0, <1>1 DEF RecvInv, HandledInOrder, Untouched
  <2>3. AtPacket(s)'
    <3>1. PICK start :
            /\ Framed(s, start)
            /\ taken[s] - writePos[s] + readPos[s] + processed[s] = start[Len(handled[s]) + 1]
      BY DEF RecvInv, AtPacket
    <3>2. Framed(s, start)'
      BY <3>1, <1>3 DEF Framed, Untouched
    <3> QED
      BY <3>1, <3>2, <1>0 DEF AtPacket
  <2> QED
    BY <1>2, <2>1, <2>2, <2>3 DEF RecvInv
<1>4. CASE Extended(s)
  <2> DEFINE p == accepted[s][onWire[s] + 1]
  <2>1. /\ Content(p) \in Seq(Byte) /\ Len(Content(p)) \in Nat
    BY <1>4, ReadsWhole, LenProperties DEF Extended
  <2>2. /\ Len(stream[s]) <= Len(stream'[s])
        /\ \A i \in 1 .. Len(stream[s]) : stream'[s][i] = stream[s][i]
    <3>1. stream'[s] = stream[s] \o Content(p) /\ stream[s] \in Seq(Byte)
      BY <1>4 DEF Extended, SendInv, SendTypes
    <3> HIDE DEF p
    <3>2. /\ Len(stream'[s]) = Len(stream[s]) + Len(Content(p))
          /\ \A i \in 1 .. Len(stream[s]) + Len(Content(p)) :
               stream'[s][i] = IF i <= Len(stream[s]) THEN stream[s][i]
                               ELSE Content(p)[i - Len(stream[s])]
      BY <2>1, <3>1, ConcatProperties
    <3>3. \A m, n \in Nat : m <= m + n /\ \A i \in 1 .. m : i \in 1 .. m + n /\ i <= m
      OBVIOUS
    <3> QED
      BY <2>1, <3>2, <3>3, <1>1
  <2>3. Buffered(s)'
    <3>1. taken[s] <= Len(stream[s]) /\ writePos[s] <= taken[s]
      BY DEF RecvInv, Buffered
    <3>2. Len(stream'[s]) \in Nat
      BY <1>4, <2>1, ConcatProperties, LenProperties DEF Extended, SendInv, SendTypes
    <3>3. \A j \in readPos[s] .. writePos[s] - 1 :
            stream'[s][taken[s] - writePos[s] + j + 1] = stream[s][taken[s] - writePos[s] + j + 1]
      <4>1. \A a, w, r, n \in Nat : \A j \in r .. w - 1 :
              w <= a /\ a <= n => a - w + j + 1 \in 1 .. n
        OBVIOUS
      <4>2. \A j \in readPos[s] .. writePos[s] - 1 :
              taken[s] - writePos[s] + j + 1 \in 1 .. Len(stream[s])
        BY <4>1, <3>1, <1>1
      <4> QED
        BY <4>2, <2>2
    <3> QED
      BY <1>0, <1>1, <2>2, <3>1, <3>2, <3>3 DEF RecvInv, Buffered
  <2>4. HandledInOrder(s)'
    BY <1>4, <1>0, <1>1 DEF RecvInv, HandledInOrder, Extended
  <2>5. AtPacket(s)'
    <3>1. PICK start :
            /\ Framed(s, start)
            /\ taken[s] - writePos[s] + readPos[s] + processed[s] = start[Len(handled[s]) + 1]
      BY DEF RecvInv, AtPacket
    <3>2. PICK more : Framed(s, more)' /\ \A k \in 1 .. onWire[s] + 1 : more[k] = start[k]
      BY <3>1, <1>4, ExtendedFraming
    <3>3. Len(handled[s]) + 1 \in 1 .. onWire[s] + 1
      BY <1>1 DEF RecvInv, HandledInOrder
    <3> QED
      BY <3>1, <3>2, <3>3, <1>0 DEF AtPacket
  <2> QED
    BY <1>2, <2>3, <2>4, <2>5 DEF RecvInv
<1> QED
  BY <1>3, <1>4

\* The sending end leaves the receiving end's invariant alone.
LEMMA SendStepInv == IInv /\ SendNext /\ UNCHANGED recvVars => IInv'
<1> SUFFICES ASSUME IInv, SendNext, UNCHANGED recvVars PROVE IInv'
  OBVIOUS
<1>1. SendInv'
  BY SendNextInv DEF IInv
<1>2. RecvTypes'
  BY DEF IInv, RecvTypes, recvVars, Capacity
<1>3. \A s \in Sessions : RecvInv(s)'
  BY SendEffect, RecvInvKept DEF IInv
<1> QED
  BY <1>1, <1>2, <1>3 DEF IInv

\* A step of one receiving end keeps what holds of the others.
LEMMA OthersKept ==
  ASSUME UNCHANGED sendVars, NEW r \in Sessions, RecvInv(r),
         phase'[r] = phase[r], taken'[r] = taken[r], buffer'[r] = buffer[r],
         readPos'[r] = readPos[r], writePos'[r] = writePos[r],
         processed'[r] = processed[r], handled'[r] = handled[r]
  PROVE  RecvInv(r)'
<1>1. stream' = stream /\ onWire' = onWire /\ accepted' = accepted
  BY DEF sendVars, kernel, queues
<1>2. Roomy(r)' /\ Buffered(r)' /\ HandledInOrder(r)'
  BY <1>1 DEF RecvInv, Roomy, Capacity, Buffered, HandledInOrder
<1>3. \A start : Framed(r, start) => Framed(r, start)'
  BY <1>1 DEF Framed
<1>4. AtPacket(r)'
  BY <1>3 DEF RecvInv, AtPacket
<1> QED
  BY <1>2, <1>4 DEF RecvInv

\* The receiving end leaves the sending end's invariant alone.
LEMMA SendInvStable == SendInv /\ UNCHANGED sendVars => SendInv'
<1> SUFFICES ASSUME SendInv, UNCHANGED sendVars PROVE SendInv'
  OBVIOUS
<1>1. UNCHANGED <<chunk, pool, usedSize, memory, place, hand, to, sendQueue, inFlight,
                  accepted, onWire, stream, crash>>
  BY DEF sendVars, chunks, queues, kernel
<1>2. \A p : Held(p)' <=> Held(p)
  BY <1>1 DEF Held, Elements
<1>3. Kept' /\ Pooled'
  BY <1>1, <1>2 DEF SendInv, Kept, Pooled, Referenced, InPlace, Made
<1>4. SendTypes' /\ OwnChunks' /\ Fits' /\ Underway' /\ Handing' /\ CrashExplained'
  BY <1>1 DEF SendInv, SendTypes, OwnChunks, Fits, Underway, Handing, CrashExplained, Made
<1> QED
  BY <1>3, <1>4 DEF SendInv

\* The numbers of one receiving end.
LEMMA RecvNumbers ==
  ASSUME IInv, NEW s \in Sessions
  PROVE  /\ onWire[s] \in Nat /\ Len(stream[s]) \in Nat /\ Len(handled[s]) \in Nat
         /\ taken[s] \in Nat /\ readPos[s] \in Nat /\ processed[s] \in Nat
         /\ writePos[s] \in 0 .. Capacity /\ Capacity \in Nat
         /\ readPos[s] + processed[s] <= writePos[s]
         /\ writePos[s] <= taken[s] /\ taken[s] <= Len(stream[s])
         /\ BufferSize \in Nat /\ Capacity >= 3 * BufferSize
         /\ HeaderSize \in Nat \ {0} /\ ChunkSize \in Nat /\ ChunkSize < BufferSize
BY LenProperties, CapacityBound, SendAssumption, RecvAssumption
   DEF IInv, SendInv, SendTypes, RecvTypes, RecvInv, Buffered

\* Where OnRecv looks at a header there is one, that of the next packet of the stream; and
\* if all of the packet is there, that is the packet it finds.
LEMMA NextPacket ==
  ASSUME IInv, NEW s \in Sessions, Rest(s) >= HeaderSize
  PROVE  LET p == accepted[s][Len(handled[s]) + 1] IN
         /\ Len(handled[s]) < onWire[s]
         /\ p \in Packets /\ Size[p] \in HeaderSize .. ChunkSize
         /\ HeaderAt(s) = Size[p]
         /\ Rest(s) >= Size[p] => Parsed(s) = p
         /\ \A start : Framed(s, start) =>
              start[Len(handled[s]) + 2] = start[Len(handled[s]) + 1] + Size[p]
<1> DEFINE n == Len(handled[s])
           p == accepted[s][n + 1]
           edge == taken[s] - writePos[s] + readPos[s] + processed[s]
<1>0. /\ onWire[s] \in Nat /\ Len(stream[s]) \in Nat /\ n \in Nat
      /\ taken[s] \in Nat /\ readPos[s] \in Nat /\ processed[s] \in Nat /\ writePos[s] \in Nat
      /\ readPos[s] + processed[s] <= writePos[s]
      /\ writePos[s] <= taken[s] /\ taken[s] <= Len(stream[s])
      /\ HeaderSize \in Nat /\ HeaderSize >= 1
  BY RecvNumbers
<1>1. PICK start : Framed(s, start) /\ edge = start[n + 1]
  BY DEF IInv, RecvInv, AtPacket
<1>2. n \in Nat /\ n <= onWire[s]
  BY RecvNumbers DEF IInv, RecvInv, HandledInOrder
<1>3. writePos[s] - (readPos[s] + processed[s]) >= HeaderSize
  BY RecvNumbers DEF Rest, DataSize
<1>4. edge < Len(stream[s])
  BY <1>0, <1>3
<1>5. n < onWire[s]
  <2>1. n # onWire[s]
    <3>1. SUFFICES ASSUME n = onWire[s] PROVE FALSE
      OBVIOUS
    <3>2. edge = Len(stream[s])
      BY <3>1, <1>1 DEF Framed
    <3> QED
      BY <3>2, <1>0, <1>4
  <2> QED
    BY <1>2, <2>1, RecvNumbers
<1>6. n + 1 \in 1 .. onWire[s] /\ n + 1 \in 1 .. Len(accepted[s])
  BY <1>2, <1>5, RecvNumbers, LenProperties DEF IInv, SendInv, SendTypes, Underway
<1>7. p \in Packets /\ Size[p] \in Nat
  BY <1>6, ElementOfSeq, SendAssumption DEF IInv, SendInv, SendTypes
<1>8. Size[p] \in HeaderSize .. ChunkSize
  BY <1>6, <1>7, SendAssumption DEF IInv, SendInv, Underway, Fits
<1>9. ASSUME NEW f, Framed(s, f)
      PROVE  /\ f[n + 2] = f[n + 1] + Size[p]
             /\ \A i \in 1 .. Size[p] : stream[s][f[n + 1] + i] = <<p, i>>
  <2>1. n + 1 + 1 = n + 2
    BY <1>2
  <2> QED
    BY <1>6, <1>9, <2>1 DEF Framed
<1> HIDE DEF p
<1>10. ASSUME NEW i \in 1 .. Size[p], i <= Rest(s)
       PROVE  buffer[s][Here(s) + i - 1] = <<p, i>>
  <2> DEFINE j == Here(s) + i - 1
  <2>0. i \in Nat /\ i >= 1 /\ i <= writePos[s] - readPos[s] - processed[s]
    BY <1>7, <1>10 DEF Rest, DataSize
  <2>1. j \in readPos[s] .. writePos[s] - 1
    BY <2>0, <1>0 DEF Here
  <2>2. taken[s] - writePos[s] + j + 1 = edge + i
    BY <2>0, <1>0 DEF Here
  <2>3. buffer[s][j] = stream[s][taken[s] - writePos[s] + j + 1]
    BY <2>1 DEF IInv, RecvInv, Buffered
  <2> QED
    BY <2>2, <2>3, <1>1, <1>9
<1>11. buffer[s][Here(s)][1] = p
  <2>1. 1 \in 1 .. Size[p] /\ 1 <= Rest(s)
    BY <1>7, <1>8, RecvNumbers DEF Rest, DataSize
  <2>2. Here(s) + 1 - 1 = Here(s)
    BY RecvNumbers DEF Here
  <2>3. buffer[s][Here(s)] = <<p, 1>>
    BY <2>1, <2>2, <1>10
  <2> QED
    BY <2>3
<1>12. HeaderAt(s) = Size[p]
  BY <1>7, <1>11 DEF HeaderAt
<1>13. ASSUME Rest(s) >= Size[p] PROVE Parsed(s) = p
  <2>1. \A i \in 1 .. Size[p] : buffer[s][Here(s) + i - 1] = <<p, i>>
    <3>1. \A i \in 1 .. Size[p] : i <= Rest(s)
      BY <1>7, <1>13, RecvNumbers DEF Rest, DataSize
    <3> QED
      BY <3>1, <1>10
  <2> QED
    BY <2>1, <1>7, <1>11 DEF Parsed
<1> QED
  BY <1>5, <1>7, <1>8, <1>9, <1>12, <1>13 DEF p

\* Bytes that arrive continue those in the buffer.
LEMMA ReceiveInv ==
  ASSUME IInv, NEW s \in Sessions, NEW n \in Arriving(s), Receive(s, n)
  PROVE  IInv'
<1>0. /\ onWire[s] \in Nat /\ Len(stream[s]) \in Nat
      /\ taken[s] \in Nat /\ readPos[s] \in Nat /\ processed[s] \in Nat
      /\ writePos[s] \in 0 .. Capacity /\ writePos[s] \in Nat /\ Capacity \in Nat
      /\ readPos[s] + processed[s] <= writePos[s]
      /\ writePos[s] <= taken[s] /\ taken[s] <= Len(stream[s])
      /\ BufferSize \in Nat /\ BufferSize >= 1
  BY RecvNumbers
<1>1. phase[s] = "posted" /\ BufferSize <= Capacity - writePos[s] /\ processed[s] = 0
  BY DEF Receive, IInv, RecvInv, Roomy
<1>2. n \in Nat /\ n >= 1 /\ n <= Capacity - writePos[s] /\ taken[s] + n <= Len(stream[s])
  <2>1. RecvFreeSize(s) # 0
    BY <1>0, <1>1 DEF RecvFreeSize
  <2> QED
    BY <2>1, <1>0 DEF Arriving, RecvFreeSize
<1>3. ~ (n = 0 \/ n > RecvFreeSize(s))
  BY <1>0, <1>2 DEF RecvFreeSize
<1>4. /\ taken' = [taken EXCEPT ![s] = @ + n]
      /\ buffer' = [buffer EXCEPT ![s] =
           [i \in DOMAIN @ |-> IF i \in writePos[s] .. writePos[s] + n - 1
                               THEN stream[s][taken[s] + i - writePos[s] + 1] ELSE buffer[s][i]]]
      /\ writePos' = [writePos EXCEPT ![s] = @ + n]
      /\ phase' = [phase EXCEPT ![s] = "cutting"]
      /\ UNCHANGED <<sendVars, readPos, processed, handled>>
  BY <1>3 DEF Receive
<1>5. SendInv'
  BY <1>4, SendInvStable DEF IInv
<1>6. stream' = stream /\ onWire' = onWire /\ accepted' = accepted
  BY <1>4 DEF sendVars, kernel, queues
<1>7. /\ taken'[s] = taken[s] + n /\ writePos'[s] = writePos[s] + n /\ phase'[s] = "cutting"
      /\ readPos'[s] = readPos[s] /\ processed'[s] = processed[s] /\ handled'[s] = handled[s]
      /\ \A i \in 0 .. Capacity - 1 :
           buffer'[s][i] = IF i \in writePos[s] .. writePos[s] + n - 1
                           THEN stream[s][taken[s] + i - writePos[s] + 1] ELSE buffer[s][i]
  BY <1>4 DEF IInv, RecvTypes
<1>8. \A i \in writePos[s] .. writePos[s] + n - 1 :
        taken[s] + i - writePos[s] + 1 \in 1 .. Len(stream[s])
  <2>1. \A a, w, m, l \in Nat : \A i \in w .. w + m - 1 :
          a + m <= l => a + i - w + 1 \in 1 .. l
    OBVIOUS
  <2> QED
    BY <2>1, <1>0, <1>2
<1>9. RecvTypes'
  <2>1. \A k \in 1 .. Len(stream[s]) : stream[s][k] \in Byte
    BY ElementOfSeq DEF IInv, SendInv, SendTypes
  <2>2. DOMAIN buffer[s] = 0 .. Capacity - 1 /\ buffer[s] \in [0 .. Capacity - 1 -> Byte]
    BY DEF IInv, RecvTypes
  <2>3. buffer'[s] \in [0 .. Capacity - 1 -> Byte]
    <3>1. buffer'[s] = [i \in 0 .. Capacity - 1 |->
                          IF i \in writePos[s] .. writePos[s] + n - 1
                          THEN stream[s][taken[s] + i - writePos[s] + 1] ELSE buffer[s][i]]
      BY <1>4, <2>2 DEF IInv, RecvTypes
    <3> QED
      BY <3>1, <2>1, <2>2, <1>8
  <2>4. buffer' \in [Sessions -> [0 .. Capacity - 1 -> Byte]]
    BY <1>4, <2>3 DEF IInv, RecvTypes
  <2>5. /\ phase' \in [Sessions -> {"posted", "cutting", "closed"}]
        /\ handled' \in [Sessions -> Seq(Packets \cup {NoPacket})]
        /\ taken' \in [Sessions -> Nat] /\ readPos' \in [Sessions -> Nat]
        /\ processed' \in [Sessions -> Nat]
    <3>1. taken[s] + n \in Nat
      BY <1>0, <1>2
    <3> QED
      BY <1>4, <3>1 DEF IInv, RecvTypes
  <2>6. writePos' \in [Sessions -> 0 .. Capacity]
    <3>1. writePos[s] + n \in 0 .. Capacity
      BY <1>0, <1>2
    <3> QED
      BY <1>4, <3>1 DEF IInv, RecvTypes
  <2>7. \A r \in Sessions : readPos'[r] + processed'[r] <= writePos'[r]
    <3>1. readPos[s] + processed[s] <= writePos[s] + n
      BY <1>0, <1>2
    <3> QED
      BY <1>4, <1>7, <3>1 DEF IInv, RecvTypes
  <2> QED
    BY <2>4, <2>5, <2>6, <2>7 DEF RecvTypes, Capacity
<1>10. RecvInv(s)'
  <2>1. Roomy(s)'
    BY <1>7 DEF Roomy
  <2>2. Buffered(s)'
    <3>1. taken'[s] <= Len(stream'[s]) /\ writePos'[s] <= taken'[s]
      BY <1>0, <1>2, <1>6, <1>7
    <3>2. ASSUME NEW j \in readPos[s] .. writePos[s] + n - 1
          PROVE  buffer'[s][j] = stream[s][(taken[s] + n) - (writePos[s] + n) + j + 1]
      <4>1. /\ j \in 0 .. Capacity - 1
            /\ (taken[s] + n) - (writePos[s] + n) + j + 1 = taken[s] - writePos[s] + j + 1
            /\ taken[s] + j - writePos[s] + 1 = taken[s] - writePos[s] + j + 1
        <5>1. \A a, w, r, m, c \in Nat : \A i \in r .. w + m - 1 :
                m <= c - w => /\ i \in 0 .. c - 1
                              /\ (a + m) - (w + m) + i + 1 = a - w + i + 1
                              /\ a + i - w + 1 = a - w + i + 1
          OBVIOUS
        <5>2. /\ taken[s] \in Nat /\ writePos[s] \in Nat /\ readPos[s] \in Nat /\ n \in Nat
              /\ Capacity \in Nat /\ n <= Capacity - writePos[s]
          BY <1>0, <1>2
        <5> QED
          BY <5>1, <5>2
      <4>2. CASE j \in writePos[s] .. writePos[s] + n - 1
        BY <4>1, <4>2, <1>7
      <4>3. CASE ~ (j \in writePos[s] .. writePos[s] + n - 1)
        <5>1. j \in readPos[s] .. writePos[s] - 1
          BY <4>3, <1>0, <1>2
        <5> QED
          BY <4>1, <4>3, <5>1, <1>7 DEF IInv, RecvInv, Buffered
      <4> QED
        BY <4>2, <4>3
    <3>3. \A j \in readPos'[s] .. writePos'[s] - 1 :
            buffer'[s][j] = stream'[s][taken'[s] - writePos'[s] + j + 1]
      <4>1. /\ readPos'[s] = readPos[s] /\ writePos'[s] = writePos[s] + n
            /\ taken'[s] = taken[s] + n
        BY <1>7
      <4>2. stream'[s] = stream[s]
        BY <1>6
      <4>3. ASSUME NEW j \in readPos'[s] .. writePos'[s] - 1
            PROVE  buffer'[s][j] = stream'[s][taken'[s] - writePos'[s] + j + 1]
        <5>1. j \in readPos[s] .. writePos[s] + n - 1
          BY <4>1, <1>0, <1>2
        <5>2. buffer'[s][j] = stream[s][(taken[s] + n) - (writePos[s] + n) + j + 1]
          BY <5>1, <3>2
        <5> QED
          BY <5>2, <4>1, <4>2
      <4> QED
        BY <4>3
    <3> QED
      BY <3>1, <3>3 DEF Buffered
  <2>3. HandledInOrder(s)'
    BY <1>6, <1>7 DEF IInv, RecvInv, HandledInOrder
  <2>4. AtPacket(s)'
    <3>1. PICK start :
            /\ Framed(s, start)
            /\ taken[s] - writePos[s] + readPos[s] + processed[s] = start[Len(handled[s]) + 1]
      BY DEF IInv, RecvInv, AtPacket
    <3>2. Framed(s, start)'
      BY <3>1, <1>6 DEF Framed
    <3>3. (taken[s] + n) - (writePos[s] + n) + readPos[s] + processed[s]
            = taken[s] - writePos[s] + readPos[s] + processed[s]
      BY <1>0, <1>2
    <3> QED
      BY <3>1, <3>2, <3>3, <1>7 DEF AtPacket
  <2> QED
    BY <2>1, <2>2, <2>3, <2>4 DEF RecvInv
<1>11. ASSUME NEW r \in Sessions, r # s PROVE RecvInv(r)'
  <2>1. /\ phase'[r] = phase[r] /\ taken'[r] = taken[r] /\ buffer'[r] = buffer[r]
        /\ readPos'[r] = readPos[r] /\ writePos'[r] = writePos[r]
        /\ processed'[r] = processed[r] /\ handled'[r] = handled[r]
    BY <1>4, <1>11 DEF IInv, RecvTypes
  <2> QED
    BY <1>4, <2>1, OthersKept DEF IInv
<1> QED
  BY <1>5, <1>9, <1>10, <1>11 DEF IInv

\* What is cut off is the next packet of the stream.
LEMMA OnRecvPacketInv ==
  ASSUME IInv, NEW s \in Sessions, OnRecvPacket(s)
  PROVE  IInv'
<1> DEFINE n == Len(handled[s])
           p == accepted[s][n + 1]
<1>0. /\ onWire[s] \in Nat /\ n \in Nat
      /\ taken[s] \in Nat /\ readPos[s] \in Nat /\ processed[s] \in Nat /\ writePos[s] \in Nat
      /\ readPos[s] + processed[s] <= writePos[s] /\ HeaderSize \in Nat
  BY RecvNumbers
<1>1. phase[s] = "cutting" /\ HasPacket(s)
  BY DEF OnRecvPacket
<1>2. /\ n < onWire[s] /\ p \in Packets /\ Size[p] \in HeaderSize .. ChunkSize
      /\ HeaderAt(s) = Size[p] /\ Parsed(s) = p
      /\ \A start : Framed(s, start) => start[n + 2] = start[n + 1] + Size[p]
  BY <1>1, NextPacket DEF HasPacket
<1>3. Size[p] \in Nat /\ Size[p] <= writePos[s] - readPos[s] - processed[s]
  BY <1>0, <1>1, <1>2, SendAssumption DEF HasPacket, Rest, DataSize
<1> HIDE DEF p
<1>4. /\ handled' = [handled EXCEPT ![s] = Append(@, p)]
      /\ processed' = [processed EXCEPT ![s] = @ + Size[p]]
      /\ UNCHANGED <<sendVars, phase, taken, buffer, readPos, writePos>>
  BY <1>2 DEF OnRecvPacket
<1>5. SendInv'
  BY <1>4, SendInvStable DEF IInv
<1>6. stream' = stream /\ onWire' = onWire /\ accepted' = accepted
  BY <1>4 DEF sendVars, kernel, queues
<1>7. /\ Append(handled[s], p) \in Seq(Packets \cup {NoPacket})
      /\ Len(Append(handled[s], p)) = n + 1
      /\ \A k \in 1 .. n : Append(handled[s], p)[k] = handled[s][k]
      /\ Append(handled[s], p)[n + 1] = p
  BY <1>2, AppendProperties DEF IInv, RecvTypes
<1>8. /\ handled'[s] = Append(handled[s], p) /\ processed'[s] = processed[s] + Size[p]
      /\ UNCHANGED <<phase, taken, buffer, readPos, writePos>>
  BY <1>4 DEF IInv, RecvTypes
<1>9. RecvTypes'
  <2>1. /\ handled' \in [Sessions -> Seq(Packets \cup {NoPacket})]
        /\ processed' \in [Sessions -> Nat]
    <3>1. processed[s] + Size[p] \in Nat
      BY <1>0, <1>3
    <3> QED
      BY <1>4, <1>7, <3>1 DEF IInv, RecvTypes
  <2>2. readPos[s] + (processed[s] + Size[p]) <= writePos[s]
    BY <1>0, <1>3
  <2>3. \A r \in Sessions : readPos[r] + processed'[r] <= writePos[r]
    BY <1>4, <1>8, <2>2 DEF IInv, RecvTypes
  <2> QED
    BY <1>8, <2>1, <2>3 DEF IInv, RecvTypes, Capacity
<1>10. RecvInv(s)'
  <2>1. Roomy(s)'
    BY <1>1, <1>8 DEF Roomy
  <2>2. Buffered(s)'
    BY <1>6, <1>8 DEF IInv, RecvInv, Buffered
  <2>3. HandledInOrder(s)'
    <3>1. n + 1 <= onWire[s]
      BY <1>0, <1>2
    <3>2. \A k \in 1 .. n + 1 : k \in 1 .. n \/ k = n + 1
      BY <1>0
    <3>3. \A k \in 1 .. n + 1 : Append(handled[s], p)[k] = accepted[s][k]
      BY <3>2, <1>7 DEF IInv, RecvInv, HandledInOrder, p
    <3> QED
      BY <1>6, <1>7, <1>8, <3>1, <3>3 DEF HandledInOrder
  <2>4. AtPacket(s)'
    <3>1. PICK start :
            /\ Framed(s, start)
            /\ taken[s] - writePos[s] + readPos[s] + processed[s] = start[n + 1]
      BY DEF IInv, RecvInv, AtPacket
    <3>2. Framed(s, start)'
      BY <3>1, <1>6 DEF Framed
    <3>3. start[n + 2] = start[n + 1] + Size[p]
      BY <1>2, <3>1
    <3>4. taken[s] - writePos[s] + readPos[s] + (processed[s] + Size[p]) = start[n + 2]
      BY <3>1, <3>3, <1>0, <1>3
    <3>5. n + 1 + 1 = n + 2
      BY <1>0
    <3> QED
      BY <3>2, <3>4, <3>5, <1>7, <1>8 DEF AtPacket
  <2> QED
    BY <2>1, <2>2, <2>3, <2>4 DEF RecvInv
<1>11. ASSUME NEW r \in Sessions, r # s PROVE RecvInv(r)'
  <2>1. /\ processed'[r] = processed[r] /\ handled'[r] = handled[r]
    BY <1>4, <1>11 DEF IInv, RecvTypes
  <2> QED
    BY <1>4, <2>1, OthersKept DEF IInv
<1> QED
  BY <1>5, <1>9, <1>10, <1>11 DEF IInv

\* The bytes that are left are moved to the front unchanged, and there is room again.
LEMMA EndRecvInv ==
  ASSUME IInv, NEW s \in Sessions, EndRecv(s)
  PROVE  IInv'
<1> DEFINE from == readPos[s] + processed[s]
           size == writePos[s] - from
<1>0. /\ onWire[s] \in Nat /\ Len(stream[s]) \in Nat
      /\ taken[s] \in Nat /\ readPos[s] \in Nat /\ processed[s] \in Nat /\ writePos[s] \in Nat
      /\ writePos[s] <= Capacity /\ Capacity \in Nat
      /\ from <= writePos[s] /\ writePos[s] <= taken[s] /\ taken[s] <= Len(stream[s])
      /\ BufferSize \in Nat /\ Capacity >= 3 * BufferSize
      /\ HeaderSize \in Nat /\ HeaderSize >= 1 /\ ChunkSize \in Nat /\ ChunkSize < BufferSize
  BY RecvNumbers
<1>1. phase[s] = "cutting" /\ ~ HasPacket(s)
  BY DEF EndRecv
<1>2. size \in Nat /\ from \in Nat /\ size = Rest(s)
  BY <1>0 DEF Rest, DataSize
\* What is left is less than a packet.
<1>3. size < BufferSize
  <2>1. CASE Rest(s) >= HeaderSize
    <3>1. HeaderAt(s) \in HeaderSize .. ChunkSize
      BY <2>1, NextPacket
    <3>2. ~ (Rest(s) >= HeaderAt(s))
      BY <2>1, <1>1 DEF HasPacket
    <3> QED
      BY <3>1, <3>2, <1>0, <1>2
  <2>2. CASE ~ (Rest(s) >= HeaderSize)
    <3>1. CASE size = 0
      BY <3>1, <1>0
    <3>2. CASE size # 0
      <4> SUFFICES HeaderSize <= ChunkSize
        BY <2>2, <1>0, <1>2
      <4>1. onWire[s] # 0
        <5> SUFFICES ASSUME onWire[s] = 0 PROVE FALSE
          OBVIOUS
        <5>1. PICK start :
                /\ Framed(s, start)
                /\ taken[s] - writePos[s] + readPos[s] + processed[s] = start[Len(handled[s]) + 1]
          BY DEF IInv, RecvInv, AtPacket
        <5>2. Len(handled[s]) = 0
          BY RecvNumbers DEF IInv, RecvInv, HandledInOrder
        <5>3. taken[s] - writePos[s] + readPos[s] + processed[s] = Len(stream[s])
          BY <5>1, <5>2 DEF Framed
        <5> QED
          BY <5>3, <3>2, <1>0
      <4>2. 1 \in 1 .. Len(accepted[s])
        BY <4>1, <1>0, LenProperties DEF IInv, SendInv, SendTypes, Underway
      <4>3. accepted[s][1] \in Packets /\ Size[accepted[s][1]] <= ChunkSize
        BY <4>2, ElementOfSeq DEF IInv, SendInv, SendTypes, Underway, Fits
      <4> QED
        BY <4>3, <1>0, SendAssumption
    <3> QED
      BY <3>1, <3>2
  <2> QED
    BY <2>1, <2>2
<1>4. ~ (processed[s] > DataSize(s))
  BY <1>0 DEF DataSize
\* What is moved goes to where it was not.
<1>5. NeedsRoom(s) => ~ (size > from)
  BY <1>0, <1>3 DEF NeedsRoom, RecvFreeSize
<1> DEFINE r1 == IF size = 0 \/ NeedsRoom(s) THEN 0 ELSE from
           w1 == IF size = 0 THEN 0 ELSE IF NeedsRoom(s) THEN size ELSE writePos[s]
           moves == size # 0 /\ NeedsRoom(s)
           toFront == [i \in DOMAIN buffer[s] |-> IF i < size THEN buffer[s][from + i]
                                                  ELSE buffer[s][i]]
<1>6. /\ phase' = [phase EXCEPT ![s] = "posted"]
      /\ readPos' = [readPos EXCEPT ![s] = r1] /\ writePos' = [writePos EXCEPT ![s] = w1]
      /\ processed' = [processed EXCEPT ![s] = 0]
      /\ IF moves THEN buffer' = [buffer EXCEPT ![s] = toFront] ELSE buffer' = buffer
      /\ UNCHANGED <<sendVars, taken, handled>>
  BY <1>4, <1>5 DEF EndRecv, Moved
<1>7. /\ r1 \in Nat /\ w1 \in 0 .. Capacity /\ w1 - r1 = size /\ w1 <= writePos[s]
      /\ BufferSize <= Capacity - w1
  BY <1>0, <1>2, <1>3 DEF NeedsRoom, RecvFreeSize
<1>8. /\ \A i \in r1 .. w1 - 1 :
           /\ i \in 0 .. Capacity - 1
           /\ IF moves THEN i < size /\ from + i \in from .. writePos[s] - 1
                       ELSE i \in from .. writePos[s] - 1
           /\ taken[s] - w1 + i + 1 =
                taken[s] - writePos[s] + (IF moves THEN from + i ELSE i) + 1
  <2> SUFFICES ASSUME NEW i \in r1 .. w1 - 1
               PROVE  /\ i \in 0 .. Capacity - 1
                      /\ IF moves THEN i < size /\ from + i \in from .. writePos[s] - 1
                                  ELSE i \in from .. writePos[s] - 1
                      /\ taken[s] - w1 + i + 1 =
                           taken[s] - writePos[s] + (IF moves THEN from + i ELSE i) + 1
    OBVIOUS
  <2>1. size # 0
    BY <1>0, <1>7
  <2>2. CASE NeedsRoom(s)
    <3>1. moves /\ r1 = 0 /\ w1 = size
      BY <2>1, <2>2
    <3>2. i \in 0 .. size - 1
      BY <3>1
    <3>3. /\ i \in 0 .. Capacity - 1 /\ i < size /\ from + i \in from .. writePos[s] - 1
          /\ taken[s] - size + i + 1 = taken[s] - writePos[s] + (from + i) + 1
      <4>1. /\ size = writePos[s] - from /\ size \in Nat /\ from \in Nat
            /\ writePos[s] \in Nat /\ taken[s] \in Nat /\ Capacity \in Nat
            /\ writePos[s] <= Capacity
        BY <1>0, <1>2
      <4> HIDE DEF from, size, moves, toFront, r1, w1
      <4> QED
        BY <4>1, <3>2
    <3> HIDE DEF moves, r1, w1
    <3> QED
      BY <3>1, <3>3
  <2>3. CASE ~ NeedsRoom(s)
    <3>1. ~ moves /\ r1 = from /\ w1 = writePos[s]
      BY <2>1, <2>3
    <3> HIDE DEF moves, r1, w1
    <3> QED
      BY <3>1, <1>0
  <2> QED
    BY <2>2, <2>3
<1>9. /\ phase'[s] = "posted" /\ readPos'[s] = r1 /\ writePos'[s] = w1 /\ processed'[s] = 0
      /\ taken'[s] = taken[s] /\ handled'[s] = handled[s]
      /\ buffer'[s] = IF moves THEN toFront ELSE buffer[s]
  BY <1>6 DEF IInv, RecvTypes
<1>10. DOMAIN buffer[s] = 0 .. Capacity - 1 /\ buffer[s] \in [0 .. Capacity - 1 -> Byte]
  BY DEF IInv, RecvTypes
<1>11. \A i \in r1 .. w1 - 1 : buffer'[s][i] = stream[s][taken[s] - w1 + i + 1]
  <2> SUFFICES ASSUME NEW i \in r1 .. w1 - 1
               PROVE  buffer'[s][i] = stream[s][taken[s] - w1 + i + 1]
    OBVIOUS
  <2>1. \A j \in from .. writePos[s] - 1 :
          buffer[s][j] = stream[s][taken[s] - writePos[s] + j + 1]
    <3>1. \A j \in from .. writePos[s] - 1 : j \in readPos[s] .. writePos[s] - 1
      BY <1>0
    <3> QED
      BY <3>1 DEF IInv, RecvInv, Buffered
  <2>2. CASE moves
    BY <2>1, <2>2, <1>8, <1>9, <1>10
  <2>3. CASE ~ moves
    BY <2>1, <2>3, <1>8, <1>9
  <2> QED
    BY <2>2, <2>3
<1>12. toFront \in [0 .. Capacity - 1 -> Byte] \/ ~ moves
  <2>1. \A i \in 0 .. Capacity - 1 : moves /\ i < size => from + i \in 0 .. Capacity - 1
    BY <1>0, <1>2
  <2> QED
    BY <2>1, <1>10
<1> HIDE DEF r1, w1, moves, toFront
<1>13. SendInv'
  BY <1>6, SendInvStable DEF IInv
<1>14. stream' = stream /\ onWire' = onWire /\ accepted' = accepted
  BY <1>6 DEF sendVars, kernel, queues
<1>15. RecvTypes'
  <2>1. buffer' \in [Sessions -> [0 .. Capacity - 1 -> Byte]]
    BY <1>6, <1>12 DEF IInv, RecvTypes
  <2>2. r1 + 0 <= w1
    BY <1>2, <1>7
  <2>3. \A r \in Sessions : readPos'[r] + processed'[r] <= writePos'[r]
    BY <1>6, <1>9, <2>2 DEF IInv, RecvTypes
  <2>4. readPos' \in [Sessions -> Nat] /\ writePos' \in [Sessions -> 0 .. Capacity]
    BY <1>6, <1>7 DEF IInv, RecvTypes
  <2> QED
    BY <1>6, <2>1, <2>3, <2>4 DEF IInv, RecvTypes, Capacity
<1>16. RecvInv(s)'
  <2>1. Roomy(s)'
    BY <1>7, <1>9 DEF Roomy, Capacity
  <2>2. Buffered(s)'
    <3>1. w1 <= taken[s]
      BY <1>0, <1>7
    <3> QED
      BY <3>1, <1>0, <1>9, <1>11, <1>14 DEF Buffered
  <2>3. HandledInOrder(s)'
    BY <1>9, <1>14 DEF IInv, RecvInv, HandledInOrder
  <2>4. AtPacket(s)'
    <3>1. PICK start :
            /\ Framed(s, start)
            /\ taken[s] - writePos[s] + readPos[s] + processed[s] = start[Len(handled[s]) + 1]
      BY DEF IInv, RecvInv, AtPacket
    <3>2. Framed(s, start)'
      BY <3>1, <1>14 DEF Framed
    <3>3. taken[s] - w1 + r1 + 0 = taken[s] - writePos[s] + readPos[s] + processed[s]
      <4>1. w1 \in Nat /\ r1 \in Nat /\ w1 - r1 = writePos[s] - (readPos[s] + processed[s])
        BY <1>0, <1>7
      <4>2. \A a, w, r, v, x, y \in Nat :
              w - r = v - (x + y) => a - w + r + 0 = a - v + x + y
        OBVIOUS
      <4>3. /\ taken[s] \in Nat /\ writePos[s] \in Nat /\ readPos[s] \in Nat
            /\ processed[s] \in Nat
        BY <1>0
      <4> QED
        BY <4>1, <4>2, <4>3
    <3> QED
      BY <3>1, <3>2, <3>3, <1>9 DEF AtPacket
  <2> QED
    BY <2>1, <2>2, <2>3, <2>4 DEF RecvInv
<1>17. ASSUME NEW r \in Sessions, r # s PROVE RecvInv(r)'
  <2>1. /\ phase'[r] = phase[r] /\ taken'[r] = taken[r] /\ buffer'[r] = buffer[r]
        /\ readPos'[r] = readPos[r] /\ writePos'[r] = writePos[r]
        /\ processed'[r] = processed[r] /\ handled'[r] = handled[r]
    BY <1>6, <1>17 DEF IInv, RecvTypes
  <2> QED
    BY <1>6, <2>1, OthersKept DEF IInv
<1> QED
  BY <1>13, <1>15, <1>16, <1>17 DEF IInv

\* No step breaks the invariant.
LEMMA NextInv == IInv /\ [Next]_vars => IInv'
<1> SUFFICES ASSUME IInv, [Next]_vars PROVE IInv'
  OBVIOUS
<1>1. CASE SendNext /\ UNCHANGED recvVars
  BY <1>1, SendStepInv
<1>2. ASSUME NEW s \in Sessions, RecvNext(s) PROVE IInv'
  BY <1>2, ReceiveInv, OnRecvPacketInv, EndRecvInv DEF RecvNext
<1>3. CASE UNCHANGED vars
  <2>1. UNCHANGED sendVars /\ UNCHANGED recvVars
    BY <1>3 DEF vars
  <2>2. SendInv'
    BY <2>1, SendInvStable DEF IInv
  <2>3. RecvTypes'
    BY <2>1 DEF IInv, RecvTypes, recvVars, Capacity
  <2>4. \A s \in Sessions : RecvInv(s)'
    BY <2>1, OthersKept DEF IInv, recvVars
  <2> QED
    BY <2>2, <2>3, <2>4 DEF IInv
<1> QED
  BY <1>1, <1>2, <1>3 DEF Next

\* The invariant holds in every behaviour.
LEMMA Invariance == Spec => []IInv
<1>1. Init => IInv
  BY InitInv
<1>2. IInv /\ [Next]_vars => IInv'
  BY NextInv
<1> QED
  BY <1>1, <1>2, PTL DEF Spec
-----------------------------------------------------------------------------
\* The types, and the cursors of every RecvBuffer in order and within it, whatever the sizes
\* of the packets and of the pieces they arrive in.
THEOREM TypeCorrect == Spec => []TypeOK
<1>1. IInv => TypeOK
  BY DEF IInv, SendInv, RecvTypes, TypeOK
<1> QED
  BY <1>1, Invariance, PTL

\* No SendBuffer is overwritten while a thread, a session's queue or the kernel uses it.
THEOREM BuffersIntact == Spec => []Intact
<1>1. IInv => Intact
  <2> SUFFICES ASSUME IInv, NEW p \in Packets,
                      Held(p) \/ \E s \in Sessions :
                                   \E k \in onWire[s] + 1 .. Len(accepted[s]) : accepted[s][k] = p
               PROVE  Content(p) = Whole(p)
    BY DEF Intact
  <2>1. Held(p)
    <3> SUFFICES ASSUME NEW s \in Sessions, NEW k \in onWire[s] + 1 .. Len(accepted[s])
                 PROVE  Held(accepted[s][k])
      OBVIOUS
    <3>1. k \in 1 .. Len(accepted[s]) /\ k > onWire[s]
      BY DEF IInv, SendInv, SendTypes
    <3> QED
      BY <3>1 DEF IInv, SendInv, Underway, Held
  <2>2. InPlace(p)
    BY <2>1 DEF IInv, SendInv, Kept
  <2> QED
    BY <2>2 DEF InPlace, Content, Whole
<1> QED
  BY <1>1, Invariance, PTL

\* A server stops only over a packet that is bigger than a chunk, and no receiving end
\* gives up a connection.
THEOREM StopsAreExplained == Spec => []StopsExplained
<1>1. IInv => StopsExplained
  BY DEF IInv, SendInv, CrashExplained, RecvInv, Roomy, StopsExplained
<1> QED
  BY <1>1, Invariance, PTL

\* Two facts about a session's packets in two sequences, one after the other.
LEMMA ConcatAppend ==
  ASSUME NEW a \in Seq(Packets), NEW q \in Seq(Packets), NEW p \in Packets
  PROVE  a \o Append(q, p) = Append(a \o q, p)
<1>1. /\ a \o q \in Seq(Packets) /\ <<p>> \in Seq(Packets)
  BY ConcatProperties
<1>2. Append(q, p) = q \o <<p>> /\ Append(a \o q, p) = (a \o q) \o <<p>>
  BY <1>1, AppendIsConcat
<1>3. (a \o q) \o <<p>> = a \o (q \o <<p>>)
  BY <1>1, ConcatAssociative
<1> QED
  BY <1>2, <1>3

\* Concatenation, which the refinement's mapping is made of.
LEMMA ConcatFacts ==
  ASSUME NEW a \in Seq(Packets), NEW q \in Seq(Packets)
  PROVE  /\ a \o q \in Seq(Packets) /\ Len(a \o q) = Len(a) + Len(q)
         /\ \A i \in 1 .. Len(a) + Len(q) : i <= Len(a) => (a \o q)[i] = a[i]
  BY ConcatProperties

\* What the variable sent of Channel stands for.
Sent == [s \in Sessions |-> accepted[s] \o sendQueue[s]]

\* Each step of the sending end is a step of Channel: Send, Lose or nothing.
LEMMA SendStepIsChannel ==
  ASSUME IInv, SendNext, UNCHANGED recvVars
  PROVE  AsChannel!Next \/ UNCHANGED <<Sent, handled>>
<1>0. handled' = handled
  BY DEF recvVars
<1>1. ASSUME UNCHANGED <<accepted, sendQueue>> PROVE UNCHANGED <<Sent, handled>>
  BY <1>0, <1>1 DEF Sent
<1>2. ASSUME NEW t \in Threads, NEW p \in Packets, NEW S \in SUBSET Sessions,
             MakeSendBuffer(t, p, S)
      PROVE  UNCHANGED <<Sent, handled>>
  BY <1>1, <1>2 DEF MakeSendBuffer, queues
<1>3. ASSUME NEW s \in Sessions, Transmit(s) \/ ProcessSend(s)
      PROVE  UNCHANGED <<Sent, handled>>
  BY <1>1, <1>3 DEF Transmit, ProcessSend, queues
<1>4. ASSUME NEW t \in Threads, NEW s \in Sessions, Send(t, s) PROVE AsChannel!Next
  <2>1. hand[t] \in Packets
    BY <1>4 DEF Send, IInv, SendInv, SendTypes, Handing
  <2>2. accepted' = accepted /\ sendQueue' = [sendQueue EXCEPT ![s] = Append(@, hand[t])]
    BY <1>4 DEF Send
  <2>3. accepted[s] \o Append(sendQueue[s], hand[t]) = Append(accepted[s] \o sendQueue[s], hand[t])
    BY <2>1, ConcatAppend DEF IInv, SendInv, SendTypes
  <2>4. Sent' = [Sent EXCEPT ![s] = Append(@, hand[t])]
    BY <2>2, <2>3 DEF Sent, IInv, SendInv, SendTypes
  <2>5. PICK m \in Packets : m = hand[t]
    BY <2>1
  <2>6. AsChannel!Send(s, m)
    BY <2>4, <2>5, <1>0 DEF AsChannel!Send, Sent
  <2> QED
    BY <2>6 DEF AsChannel!Next
<1>5. ASSUME NEW s \in Sessions, RegisterSend(s) PROVE UNCHANGED <<Sent, handled>>
  <2>1. /\ accepted' = [accepted EXCEPT ![s] = @ \o sendQueue[s]]
        /\ sendQueue' = [sendQueue EXCEPT ![s] = <<>>]
    BY <1>5 DEF RegisterSend
  <2>2. (accepted[s] \o sendQueue[s]) \o <<>> = accepted[s] \o sendQueue[s]
    BY ConcatProperties, ConcatEmptySeq DEF IInv, SendInv, SendTypes
  <2>3. \A r \in Sessions : accepted'[r] \o sendQueue'[r] = accepted[r] \o sendQueue[r]
    BY <2>1, <2>2 DEF IInv, SendInv, SendTypes
  <2> QED
    BY <2>3, <1>0 DEF Sent
<1>6. ASSUME NEW s \in Sessions, RegisterSendFails(s) PROVE AsChannel!Next
  <2>1. accepted' = accepted /\ sendQueue' = [sendQueue EXCEPT ![s] = <<>>]
    BY <1>6 DEF RegisterSendFails
  <2>2. /\ accepted[s] \in Seq(Packets) /\ sendQueue[s] \in Seq(Packets)
        /\ Len(accepted[s]) \in Nat /\ Len(sendQueue[s]) \in Nat
    BY LenProperties DEF IInv, SendInv, SendTypes
  <2>3. /\ Sent[s] = accepted[s] \o sendQueue[s] /\ Sent[s] \in Seq(Packets)
        /\ Len(Sent[s]) = Len(accepted[s]) + Len(sendQueue[s])
        /\ \A i \in 1 .. Len(accepted[s]) : Sent[s][i] = accepted[s][i]
    <3>1. Sent[s] = accepted[s] \o sendQueue[s]
      BY DEF Sent
    <3>2. /\ accepted[s] \o sendQueue[s] \in Seq(Packets)
          /\ Len(accepted[s] \o sendQueue[s]) = Len(accepted[s]) + Len(sendQueue[s])
          /\ \A i \in 1 .. Len(accepted[s]) + Len(sendQueue[s]) :
               i <= Len(accepted[s]) => (accepted[s] \o sendQueue[s])[i] = accepted[s][i]
      BY <2>2, ConcatFacts
    <3>3. \A a, b \in Nat : \A i \in 1 .. a : i \in 1 .. a + b /\ i <= a
      OBVIOUS
    <3> QED
      BY <2>2, <3>1, <3>2, <3>3
  <2>4. accepted[s] \o <<>> = accepted[s]
    BY <2>2, ConcatEmptySeq
  <2>5. SubSeq(Sent[s], 1, Len(accepted[s])) = accepted[s]
    <3>1. \A i \in 1 .. Len(accepted[s]) : Sent[s][i] \in Packets
      BY <2>2, <2>3, ElementOfSeq
    <3>2. /\ SubSeq(Sent[s], 1, Len(accepted[s])) \in Seq(Packets)
          /\ Len(SubSeq(Sent[s], 1, Len(accepted[s]))) = Len(accepted[s])
          /\ \A i \in 1 .. Len(accepted[s]) :
               SubSeq(Sent[s], 1, Len(accepted[s]))[i] = Sent[s][i]
      BY <2>2, <3>1, SubSeqProperties
    <3> QED
      BY <2>2, <2>3, <3>2, SeqEqual
  <2>6. Sent' = [Sent EXCEPT ![s] = SubSeq(@, 1, Len(accepted[s]))]
    <3>1. \A r \in Sessions : Sent'[r] = accepted[r] \o sendQueue'[r]
      BY <2>1 DEF Sent
    <3>2. Sent'[s] = accepted[s]
      BY <2>1, <2>4, <3>1 DEF IInv, SendInv, SendTypes
    <3>3. \A r \in Sessions : r # s => Sent'[r] = Sent[r]
      BY <2>1, <3>1 DEF Sent, IInv, SendInv, SendTypes
    <3> QED
      BY <2>5, <3>2, <3>3 DEF Sent
  <2>7. /\ Len(accepted[s]) \in Len(handled[s]) .. Len(Sent[s])
        /\ Len(accepted[s]) \in 0 .. Len(Sent[s])
    <3>1. /\ Len(handled[s]) \in Nat /\ onWire[s] \in Nat
          /\ Len(handled[s]) <= onWire[s] /\ onWire[s] <= Len(accepted[s])
      BY RecvNumbers DEF IInv, RecvInv, HandledInOrder, SendInv, Underway
    <3>2. \A a, b, c, d \in Nat : a <= b /\ b <= c => c \in a .. c + d /\ c \in 0 .. c + d
      OBVIOUS
    <3> QED
      BY <2>2, <2>3, <3>1, <3>2
  <2>8. PICK n \in 0 .. Len(Sent[s]) : n = Len(accepted[s])
    BY <2>7
  <2>9. AsChannel!Lose(s, n)
    BY <2>6, <2>7, <2>8, <1>0 DEF AsChannel!Lose, Sent
  <2> QED
    BY <2>9 DEF AsChannel!Next, Sent
<1> QED
  BY <1>2, <1>3, <1>4, <1>5, <1>6 DEF SendNext

\* A round of OnRecv is the step Handle of Channel, and the other steps of the receiving end
\* are nothing to it.
LEMMA RecvStepIsChannel ==
  ASSUME IInv, NEW s \in Sessions, RecvNext(s)
  PROVE  AsChannel!Next \/ UNCHANGED <<Sent, handled>>
<1>0. UNCHANGED <<accepted, sendQueue>>
  BY DEF RecvNext, Receive, OnRecvPacket, EndRecv, sendVars, queues
<1>1. Sent' = Sent
  BY <1>0 DEF Sent
<1>2. ASSUME NEW n \in Arriving(s), Receive(s, n) PROVE handled' = handled
  BY <1>2 DEF Receive
<1>3. CASE EndRecv(s)
  BY <1>1, <1>3 DEF EndRecv
<1>4. CASE OnRecvPacket(s)
  <2> DEFINE n == Len(handled[s])
             p == accepted[s][n + 1]
  <2>1. n < onWire[s] /\ Parsed(s) = p
    BY <1>4, NextPacket DEF OnRecvPacket, HasPacket
  <2>2. handled' = [handled EXCEPT ![s] = Append(@, p)]
    BY <1>4, <2>1 DEF OnRecvPacket
  <2>3. /\ accepted[s] \in Seq(Packets) /\ sendQueue[s] \in Seq(Packets)
        /\ Len(accepted[s]) \in Nat /\ Len(sendQueue[s]) \in Nat
        /\ n \in Nat /\ onWire[s] \in Nat /\ onWire[s] <= Len(accepted[s])
    BY RecvNumbers, LenProperties DEF IInv, SendInv, SendTypes, Underway
  <2>4. /\ n + 1 \in 1 .. Len(accepted[s]) /\ n < Len(accepted[s]) + Len(sendQueue[s])
    <3>1. \A a, b, c, d \in Nat : a < b /\ b <= c => a + 1 \in 1 .. c /\ a < c + d
      OBVIOUS
    <3> QED
      BY <2>1, <2>3, <3>1
  <2>5. Len(Sent[s]) = Len(accepted[s]) + Len(sendQueue[s]) /\ Sent[s][n + 1] = p
    <3>1. Sent[s] = accepted[s] \o sendQueue[s]
      BY DEF Sent
    <3>2. /\ Len(accepted[s] \o sendQueue[s]) = Len(accepted[s]) + Len(sendQueue[s])
          /\ \A i \in 1 .. Len(accepted[s]) + Len(sendQueue[s]) :
               i <= Len(accepted[s]) => (accepted[s] \o sendQueue[s])[i] = accepted[s][i]
      BY <2>3, ConcatFacts
    <3>3. \A a, b \in Nat : \A i \in 1 .. a : i \in 1 .. a + b /\ i <= a
      OBVIOUS
    <3>4. n + 1 \in 1 .. Len(accepted[s]) + Len(sendQueue[s]) /\ n + 1 <= Len(accepted[s])
      BY <2>3, <2>4, <3>3
    <3> QED
      BY <3>1, <3>2, <3>4
  <2> HIDE DEF p
  <2>6. handled' = [handled EXCEPT ![s] = Append(@, Sent[s][Len(@) + 1])]
    BY <2>2, <2>5
  <2>7. AsChannel!Handle(s)
    BY <2>4, <2>5, <2>6, <1>1 DEF AsChannel!Handle, Sent
  <2> QED
    BY <2>7 DEF AsChannel!Next
<1> QED
  BY <1>1, <1>2, <1>3, <1>4 DEF RecvNext

\* Whatever the threads, the sizes and the splits: what a handler gets is what was sent.
THEOREM ImplementsChannel == Spec => IsChannel
<1>1. Init => AsChannel!Init
  BY ConcatEmptySeq, EmptySeq DEF Init, SendInit, AsChannel!Init
<1>2. IInv /\ [Next]_vars => [AsChannel!Next]_<<Sent, handled>>
  <2> SUFFICES ASSUME IInv, [Next]_vars PROVE [AsChannel!Next]_<<Sent, handled>>
    OBVIOUS
  <2>1. CASE SendNext /\ UNCHANGED recvVars
    BY <2>1, SendStepIsChannel
  <2>2. ASSUME NEW s \in Sessions, RecvNext(s)
        PROVE  AsChannel!Next \/ UNCHANGED <<Sent, handled>>
    BY <2>2, RecvStepIsChannel
  <2>3. CASE UNCHANGED vars
    BY <2>3 DEF vars, sendVars, queues, recvVars, Sent
  <2> QED
    BY <2>1, <2>2, <2>3 DEF Next
<1>3. [AsChannel!Next]_<<Sent, handled>> =>
        [AsChannel!Next]_<<[s \in Sessions |-> accepted[s] \o sendQueue[s]], handled>>
  BY DEF Sent
<1> QED
  BY <1>1, <1>2, <1>3, Invariance, PTL DEF Spec, IsChannel, AsChannel!Spec
=============================================================================
