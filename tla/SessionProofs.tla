---------------------------- MODULE SessionProofs ----------------------------
(***************************************************************************)
(* Proofs about Session, for any threads that work for a session or call    *)
(* it, and any number of packets.                                           *)
(***************************************************************************)
EXTENDS Session, FiniteSetTheorems, SequenceTheorems, TLAPS

\* What a thread still has to do, without the order.
Work == [t \in Threads |-> Range(todo[t])]

\* What may be under a step on a thread's stack.
InSend == {"unlock", "serviceUnlock", "onConnected", "onRecv", "registerRecv"}
Below == [s \in Steps |->
  CASE s = "push" -> InSend \ {"unlock"}
    [] s \in {"registerSend", "drain", "wsaSend", "sendFailed"} -> InSend
    [] s = "addSession" -> {"onConnected", "registerRecv"}
    [] s \in {"onConnected", "onRecv"} -> {"registerRecv"}
    [] s \in {"disconnect", "registerDisconnect"} -> InSend \cup {"sendFailed", "recvFailed"}
    [] s = "onDisconnected" -> {"releaseSession"}
    [] OTHER -> {}]

Stacked(q) == \A i, j \in DOMAIN q : i < j => q[j] \in Below[q[i]]
Stacks == \A t \in Threads : Stacked(todo[t])

\* A turn that is with one party at a time: a thread that has one of the steps ahead, the
\* kernel or the port that has one of the events.
Busy(steps) == {t \in Threads : Work[t] \cap steps # {}}
AtKernel(events) == pending \cap events
InPort(events) == {c \in completed : c[1] \in events}

Alone(steps, events) ==
  /\ \A t, u \in Busy(steps) : t = u
  /\ \A e, f \in AtKernel(events) : e = f
  /\ \A c, d \in InPort(events) : c = d
  /\ Busy(steps) = {} \/ AtKernel(events) = {}
  /\ Busy(steps) = {} \/ InPort(events) = {}
  /\ AtKernel(events) = {} \/ InPort(events) = {}

Nobody(steps, events) == Busy(steps) = {} /\ AtKernel(events) = {} /\ InPort(events) = {}

\* The turn to send: whoever has it has _send_event.
SendTurn ==
  /\ Alone(SendSteps, {"send"})
  /\ ~ registered => Nobody(SendSteps, {"send"}) /\ "send" \notin owner /\ sendBuffers = <<>>
  /\ Busy({"registerSend", "drain", "afterSend"}) # {} => "send" \notin owner /\ sendBuffers = <<>>
  /\ Busy({"wsaSend"}) # {} => "send" \in owner

\* The turn to receive: the connection is made, then received from, by one party at a time.
ConnectSteps == {"processConnect", "addSession", "onConnected"}
Connecting == {"connect", "accept"}
ReceiveTurn == Alone(ConnectSteps \cup RecvSteps, Connecting \cup {"recv"})

\* The turn to disconnect: it comes with the connection, and goes with Disconnect.
ReleaseSteps == {"registerDisconnect", "onDisconnected", "releaseSession"}
DisconnectTurn ==
  /\ Alone(ReleaseSteps \cup {"processConnect"}, Connecting \cup {"disconnect"})
  /\ connected => Nobody(ReleaseSteps \cup {"processConnect"}, Connecting \cup {"disconnect"})
  /\ Nobody(ReleaseSteps, {"disconnect"}) \/ inSessions
  /\ onDisconnected > 0 =>
       /\ onDisconnected = 1 /\ ~ connected
       /\ Nobody({"processConnect", "registerDisconnect", "onDisconnected"},
                 Connecting \cup {"disconnect"})
  /\ \A t \in Threads :
       "releaseSession" \in Work[t] => "onDisconnected" \in Work[t] \/ onDisconnected > 0

\* Until the session is published nobody sends, receives or disconnects.
Unpublished ==
  /\ ~ Published =>
       /\ \A t \in Threads :
            /\ Work[t] \subseteq ConnectSteps \cup {"registerRecv"}
            /\ Work[t] = {} \/ Work[t] \cap {"processConnect", "addSession"} # {}
       /\ pending \subseteq Connecting /\ InPort(Events \ Connecting) = {}
       /\ ~ registered
       /\ connected => Busy({"addSession"}) # {}
  /\ Published => Nobody({"processConnect", "addSession"}, Connecting)

NoCrash == crash # "ReleaseSession"

\* Packets that were sent, are being sent and are queued.
InFlight == IF <<"send", "ok">> \in completed THEN <<>> ELSE sendBuffers
Way == wire \o (InFlight \o sendQueue)

Precedes(x, y, q) == \E k, l \in DOMAIN q : k < l /\ q[k] = x /\ q[l] = y

\* A packet on its way was pushed, and packets keep the order they were pushed in.
InOrder ==
  /\ Range(Way) \subseteq Range(pushed)
  /\ \A x, y \in Packets : Precedes(x, y, Way) => Precedes(x, y, pushed)

\* A send fails only if the connection does, or WSASend.
Broken == socket \notin {"fresh", "open"} \/ "send" \in failed
Unbroken ==
  /\ Broken \/ pushed = Way
  /\ <<"send", "zero">> \in completed => Broken
  /\ Busy({"sendFailed"}) # {} => Broken
  /\ AtKernel(Connecting) # {} => socket = "fresh"
  /\ AtKernel({"send"}) # {} => socket # "fresh"

IInv == /\ TypeOK /\ Stacks /\ SendTurn /\ ReceiveTurn /\ DisconnectTurn /\ Unpublished /\ NoCrash
        /\ EventsOwned /\ InOrder /\ Unbroken
-----------------------------------------------------------------------------
(* Sequences and what is in them *)

\* What is in a sequence of one, two or three.
LEMMA RangeOf ==
  /\ Range(<<>>) = {}
  /\ \A a : Range(<<a>>) = {a}
  /\ \A a, b : Range(<<a, b>>) = {a, b}
  /\ \A a, b, c : Range(<<a, b, c>>) = {a, b, c}
BY DEF Range

\* What is in a queue has the queue's type.
LEMMA RangeType == ASSUME NEW S, NEW q \in Seq(S) PROVE Range(q) \subseteq S
BY LenProperties, ElementOfSeq DEF Range

\* Popping a stack.
LEMMA RangeTail ==
  ASSUME NEW S, NEW q \in Seq(S), q # <<>>
  PROVE  /\ Head(q) \in S /\ Tail(q) \in Seq(S)
         /\ Range(q) = {Head(q)} \cup Range(Tail(q))
<1>1. /\ Head(q) \in S /\ Tail(q) \in Seq(S) /\ Len(Tail(q)) = Len(q) - 1
      /\ \A i \in 1 .. Len(Tail(q)) : Tail(q)[i] = q[i + 1]
  BY HeadTailProperties
<1>2. Len(q) \in Nat \ {0} /\ DOMAIN q = 1 .. Len(q) /\ DOMAIN Tail(q) = 1 .. Len(q) - 1
  BY <1>1, EmptySeq, LenProperties
<1>3. Head(q) = q[1] /\ 1 \in DOMAIN q
  BY <1>2
<1>4. \A i \in DOMAIN Tail(q) : i + 1 \in DOMAIN q /\ Tail(q)[i] = q[i + 1]
  BY <1>1, <1>2
<1>5. \A i \in DOMAIN q : i # 1 => i - 1 \in DOMAIN Tail(q) /\ q[i] = Tail(q)[i - 1]
  <2> SUFFICES ASSUME NEW i \in DOMAIN q, i # 1
               PROVE  i - 1 \in DOMAIN Tail(q) /\ q[i] = Tail(q)[i - 1]
    OBVIOUS
  <2>1. i - 1 \in DOMAIN Tail(q) /\ (i - 1) + 1 = i
    BY <1>2
  <2>2. QED  BY <2>1, <1>4
<1>6. Range(q) \subseteq {Head(q)} \cup Range(Tail(q))
  BY <1>3, <1>5 DEF Range
<1>7. {Head(q)} \cup Range(Tail(q)) \subseteq Range(q)
  BY <1>3, <1>4 DEF Range
<1>8. QED  BY <1>1, <1>6, <1>7

\* Putting one sequence before another.
LEMMA RangeConcat ==
  ASSUME NEW S, NEW p \in Seq(S), NEW q \in Seq(S)
  PROVE  p \o q \in Seq(S) /\ Range(p \o q) = Range(p) \cup Range(q)
<1>1. /\ p \o q \in Seq(S) /\ Len(p \o q) = Len(p) + Len(q)
      /\ \A i \in 1 .. Len(p) + Len(q) : (p \o q)[i] = IF i <= Len(p) THEN p[i] ELSE q[i - Len(p)]
  BY ConcatProperties
<1>2. /\ Len(p) \in Nat /\ Len(q) \in Nat /\ DOMAIN p = 1 .. Len(p) /\ DOMAIN q = 1 .. Len(q)
      /\ DOMAIN (p \o q) = 1 .. Len(p) + Len(q)
  BY <1>1, LenProperties
<1>3. Range(p \o q) \subseteq Range(p) \cup Range(q)
  <2> SUFFICES ASSUME NEW i \in 1 .. Len(p) + Len(q)
               PROVE  (p \o q)[i] \in Range(p) \cup Range(q)
    BY <1>2 DEF Range
  <2>1. CASE i <= Len(p)
    BY <2>1, <1>1, <1>2 DEF Range
  <2>2. CASE ~ i <= Len(p)
    <3>1. i - Len(p) \in DOMAIN q /\ (p \o q)[i] = q[i - Len(p)]
      BY <2>2, <1>1, <1>2
    <3>2. QED  BY <3>1 DEF Range
  <2>3. QED  BY <2>1, <2>2
<1>4. Range(p) \subseteq Range(p \o q)
  <2>1. \A i \in DOMAIN p : i \in DOMAIN (p \o q) /\ (p \o q)[i] = p[i]
    BY <1>1, <1>2
  <2>2. QED  BY <2>1 DEF Range
<1>5. Range(q) \subseteq Range(p \o q)
  <2>1. \A i \in DOMAIN q : i + Len(p) \in DOMAIN (p \o q) /\ (p \o q)[i + Len(p)] = q[i]
    <3> SUFFICES ASSUME NEW i \in DOMAIN q
                 PROVE  i + Len(p) \in DOMAIN (p \o q) /\ (p \o q)[i + Len(p)] = q[i]
      OBVIOUS
    <3>1. /\ i + Len(p) \in 1 .. Len(p) + Len(q) /\ ~ i + Len(p) <= Len(p)
          /\ (i + Len(p)) - Len(p) = i
      BY <1>2
    <3>2. QED  BY <3>1, <1>1, <1>2
  <2>2. QED  BY <2>1 DEF Range
<1>6. QED  BY <1>1, <1>3, <1>4, <1>5

\* Who precedes whom in two sequences one after the other.
LEMMA PrecedesConcat ==
  ASSUME NEW S, NEW p \in Seq(S), NEW q \in Seq(S), NEW x, NEW y
  PROVE  Precedes(x, y, p \o q) <=>
           \/ Precedes(x, y, p) \/ Precedes(x, y, q)
           \/ x \in Range(p) /\ y \in Range(q)
<1>1. /\ Len(p) \in Nat /\ Len(q) \in Nat /\ DOMAIN p = 1 .. Len(p) /\ DOMAIN q = 1 .. Len(q)
      /\ DOMAIN (p \o q) = 1 .. Len(p) + Len(q)
      /\ \A i \in 1 .. Len(p) + Len(q) : (p \o q)[i] = IF i <= Len(p) THEN p[i] ELSE q[i - Len(p)]
  BY LenProperties, ConcatProperties
<1>2. /\ \A i \in DOMAIN p : i \in DOMAIN (p \o q) /\ (p \o q)[i] = p[i]
      /\ \A i \in DOMAIN q : i + Len(p) \in DOMAIN (p \o q) /\ (p \o q)[i + Len(p)] = q[i]
  <2>1. \A i \in DOMAIN p : i \in DOMAIN (p \o q) /\ (p \o q)[i] = p[i]
    BY <1>1
  <2>2. ASSUME NEW i \in DOMAIN q
        PROVE  i + Len(p) \in DOMAIN (p \o q) /\ (p \o q)[i + Len(p)] = q[i]
    <3>1. /\ i + Len(p) \in 1 .. Len(p) + Len(q) /\ ~ i + Len(p) <= Len(p)
          /\ (i + Len(p)) - Len(p) = i
      BY <1>1
    <3>2. QED  BY <3>1, <1>1
  <2>3. QED  BY <2>1, <2>2
<1>3. ASSUME Precedes(x, y, p) PROVE Precedes(x, y, p \o q)
  BY <1>2, <1>3 DEF Precedes
<1>4. ASSUME Precedes(x, y, q) PROVE Precedes(x, y, p \o q)
  <2>1. PICK k, l \in DOMAIN q : k < l /\ q[k] = x /\ q[l] = y
    BY <1>4 DEF Precedes
  <2>2. k + Len(p) < l + Len(p)
    BY <2>1, <1>1
  <2>3. QED  BY <2>1, <2>2, <1>2 DEF Precedes
<1>5. ASSUME x \in Range(p), y \in Range(q) PROVE Precedes(x, y, p \o q)
  <2>1. PICK k \in DOMAIN p : p[k] = x
    BY <1>5 DEF Range
  <2>2. PICK l \in DOMAIN q : q[l] = y
    BY <1>5 DEF Range
  <2>3. k < l + Len(p)
    BY <1>1
  <2>4. QED  BY <2>1, <2>2, <2>3, <1>2 DEF Precedes
<1>6. ASSUME Precedes(x, y, p \o q)
      PROVE  \/ Precedes(x, y, p) \/ Precedes(x, y, q)
             \/ x \in Range(p) /\ y \in Range(q)
  <2>1. PICK k, l \in DOMAIN (p \o q) : k < l /\ (p \o q)[k] = x /\ (p \o q)[l] = y
    BY <1>6 DEF Precedes
  <2>2. CASE l <= Len(p)
    <3>1. k \in DOMAIN p /\ l \in DOMAIN p /\ p[k] = x /\ p[l] = y
      BY <2>1, <2>2, <1>1
    <3>2. QED  BY <2>1, <3>1 DEF Precedes
  <2>3. CASE k <= Len(p) /\ ~ l <= Len(p)
    <3>1. k \in DOMAIN p /\ l - Len(p) \in DOMAIN q /\ p[k] = x /\ q[l - Len(p)] = y
      BY <2>1, <2>3, <1>1
    <3>2. QED  BY <3>1 DEF Range
  <2>4. CASE ~ k <= Len(p) /\ ~ l <= Len(p)
    <3>1. /\ k - Len(p) \in DOMAIN q /\ l - Len(p) \in DOMAIN q /\ k - Len(p) < l - Len(p)
          /\ q[k - Len(p)] = x /\ q[l - Len(p)] = y
      BY <2>1, <2>4, <1>1
    <3>2. QED  BY <3>1 DEF Precedes
  <2>5. QED  BY <2>1, <2>2, <2>3, <2>4, <1>1
<1>7. QED  BY <1>3, <1>4, <1>5, <1>6
-----------------------------------------------------------------------------
(* The threads' stacks *)

\* Work has a type.
LEMMA WorkType == ASSUME TypeOK PROVE Work \in [Threads -> SUBSET Steps]
BY RangeType DEF TypeOK, Types, Work

\* No step is on a stack twice.
LEMMA BelowIsStrict == \A s \in Steps : Below[s] \in SUBSET (Steps \ {s})
BY DEF Below, Steps, InSend

\* What may be under each step.
LEMMA BelowOf ==
  /\ Below["push"] = {"serviceUnlock", "onConnected", "onRecv", "registerRecv"}
  /\ \A s \in {"registerSend", "drain", "wsaSend", "sendFailed"} : Below[s] = InSend
  /\ Below["addSession"] = {"onConnected", "registerRecv"}
  /\ Below["onConnected"] = {"registerRecv"} /\ Below["onRecv"] = {"registerRecv"}
  /\ \A s \in {"disconnect", "registerDisconnect"} : Below[s] = InSend \cup {"sendFailed", "recvFailed"}
  /\ Below["onDisconnected"] = {"releaseSession"}
  /\ \A s \in {"afterSend", "unlock", "serviceUnlock", "processConnect", "registerRecv", "wsaRecv",
               "recvFailed", "releaseSession"} : Below[s] = {}
BY DEF Below, Steps, InSend

\* The top of a stack, and what is below it.
LEMMA TopOf ==
  ASSUME NEW q \in Seq(Steps), q # <<>>, Stacked(q)
  PROVE  /\ Head(q) \in Steps /\ Tail(q) \in Seq(Steps) /\ Stacked(Tail(q))
         /\ Head(q) \in Range(q) /\ Range(Tail(q)) = Range(q) \ {Head(q)}
         /\ Range(Tail(q)) \subseteq Below[Head(q)]
<1>1. /\ Head(q) \in Steps /\ Tail(q) \in Seq(Steps)
      /\ Range(q) = {Head(q)} \cup Range(Tail(q))
  BY RangeTail
<1>2. /\ Len(q) \in Nat \ {0} /\ DOMAIN q = 1 .. Len(q) /\ Head(q) = q[1]
      /\ DOMAIN Tail(q) = 1 .. Len(q) - 1 /\ \A i \in 1 .. Len(q) - 1 : Tail(q)[i] = q[i + 1]
  BY HeadTailProperties, EmptySeq, LenProperties
<1>3. Range(Tail(q)) \subseteq Below[Head(q)]
  <2> SUFFICES ASSUME NEW i \in 1 .. Len(q) - 1 PROVE Tail(q)[i] \in Below[q[1]]
    BY <1>2 DEF Range
  <2>1. i + 1 \in DOMAIN q /\ 1 \in DOMAIN q /\ 1 < i + 1
    BY <1>2
  <2>2. QED  BY <2>1, <1>2 DEF Stacked
<1>4. Stacked(Tail(q))
  <2> SUFFICES ASSUME NEW i \in 1 .. Len(q) - 1, NEW j \in 1 .. Len(q) - 1, i < j
               PROVE  Tail(q)[j] \in Below[Tail(q)[i]]
    BY <1>2 DEF Stacked
  <2>1. i + 1 \in DOMAIN q /\ j + 1 \in DOMAIN q /\ i + 1 < j + 1
    BY <1>2
  <2>2. QED  BY <2>1, <1>2 DEF Stacked
<1>5. Head(q) \notin Below[Head(q)]
  BY <1>1, BelowIsStrict
<1>6. QED  BY <1>1, <1>3, <1>4, <1>5

\* Putting steps on a stack under which everything may be that is.
LEMMA StackOnto ==
  ASSUME NEW p \in Seq(Steps), NEW q \in Seq(Steps), Stacked(p), Stacked(q),
         \A s \in Range(p) : Range(q) \subseteq Below[s]
  PROVE  p \o q \in Seq(Steps) /\ Stacked(p \o q) /\ Range(p \o q) = Range(p) \cup Range(q)
<1>1. p \o q \in Seq(Steps) /\ Range(p \o q) = Range(p) \cup Range(q)
  BY RangeConcat
<1>2. /\ Len(p) \in Nat /\ Len(q) \in Nat /\ DOMAIN p = 1 .. Len(p) /\ DOMAIN q = 1 .. Len(q)
      /\ Len(p \o q) = Len(p) + Len(q) /\ DOMAIN (p \o q) = 1 .. Len(p) + Len(q)
      /\ \A i \in 1 .. Len(p) + Len(q) : (p \o q)[i] = IF i <= Len(p) THEN p[i] ELSE q[i - Len(p)]
  BY <1>1, LenProperties, ConcatProperties
<1>3. Stacked(p \o q)
  <2> SUFFICES ASSUME NEW i \in 1 .. Len(p) + Len(q), NEW j \in 1 .. Len(p) + Len(q), i < j
               PROVE  (p \o q)[j] \in Below[(p \o q)[i]]
    BY <1>2 DEF Stacked
  <2>1. CASE j <= Len(p)
    <3>1. i \in DOMAIN p /\ j \in DOMAIN p /\ (p \o q)[i] = p[i] /\ (p \o q)[j] = p[j]
      BY <2>1, <1>2
    <3>2. QED  BY <3>1 DEF Stacked
  <2>2. CASE i <= Len(p) /\ ~ j <= Len(p)
    <3>1. /\ i \in DOMAIN p /\ j - Len(p) \in DOMAIN q
          /\ (p \o q)[i] = p[i] /\ (p \o q)[j] = q[j - Len(p)]
      BY <2>2, <1>2
    <3>2. p[i] \in Range(p) /\ q[j - Len(p)] \in Range(q)
      BY <3>1 DEF Range
    <3>3. QED  BY <3>1, <3>2
  <2>3. CASE ~ i <= Len(p) /\ ~ j <= Len(p)
    <3>1. /\ i - Len(p) \in DOMAIN q /\ j - Len(p) \in DOMAIN q /\ i - Len(p) < j - Len(p)
          /\ (p \o q)[i] = q[i - Len(p)] /\ (p \o q)[j] = q[j - Len(p)]
      BY <2>3, <1>2
    <3>2. QED  BY <3>1 DEF Stacked
  <2>4. QED  BY <2>1, <2>2, <2>3, <1>2
<1>4. QED  BY <1>1, <1>3

\* A thread does the step on top of its stack and finds new ones there.
LEMMA ThenWork ==
  ASSUME TypeOK, Stacks, NEW t \in Threads, NEW h, Does(t, h), NEW p \in Seq(Steps), Then(t, p),
         Stacked(p), \A s \in Range(p) : Below[h] \subseteq Below[s]
  PROVE  /\ todo' \in [Threads -> Seq(Steps)] /\ Stacks'
         /\ h \in Work[t] /\ Work[t] \ {h} \subseteq Below[h]
         /\ Work'[t] = Range(p) \cup (Work[t] \ {h})
         /\ \A u \in Threads \ {t} : Work'[u] = Work[u]
<1>1. /\ todo \in [Threads -> Seq(Steps)] /\ todo[t] # <<>> /\ h = Head(todo[t])
      /\ todo' = [todo EXCEPT ![t] = p \o Tail(todo[t])]
  BY DEF TypeOK, Types, Does, Then
<1>2. todo[t] \in Seq(Steps) /\ Stacked(todo[t])
  BY <1>1 DEF Stacks
<1>3. /\ Tail(todo[t]) \in Seq(Steps) /\ Stacked(Tail(todo[t])) /\ h \in Range(todo[t])
      /\ Range(Tail(todo[t])) = Range(todo[t]) \ {h} /\ Range(Tail(todo[t])) \subseteq Below[h]
  BY <1>1, <1>2, TopOf
<1>4. \A s \in Range(p) : Range(Tail(todo[t])) \subseteq Below[s]
  BY <1>3
<1>5. /\ p \o Tail(todo[t]) \in Seq(Steps) /\ Stacked(p \o Tail(todo[t]))
      /\ Range(p \o Tail(todo[t])) = Range(p) \cup Range(Tail(todo[t]))
  BY <1>3, <1>4, StackOnto
<1>6. todo' \in [Threads -> Seq(Steps)] /\ Stacks'
  BY <1>1, <1>5 DEF Stacks
<1>7. /\ Work'[t] = Range(p) \cup (Work[t] \ {h})
      /\ \A u \in Threads \ {t} : Work'[u] = Work[u]
  BY <1>1, <1>3, <1>5 DEF Work
<1>8. QED  BY <1>3, <1>6, <1>7 DEF Work

\* A thread with nothing to do begins something.
LEMMA BeginWork ==
  ASSUME TypeOK, Stacks, NEW t \in Threads, todo[t] = <<>>, NEW p \in Seq(Steps),
         todo' = [todo EXCEPT ![t] = p], Stacked(p)
  PROVE  /\ todo' \in [Threads -> Seq(Steps)] /\ Stacks' /\ Work[t] = {}
         /\ Work'[t] = Range(p) /\ \A u \in Threads \ {t} : Work'[u] = Work[u]
<1>1. todo \in [Threads -> Seq(Steps)]
  BY DEF TypeOK, Types
<1>2. QED  BY <1>1, RangeOf DEF Stacks, Work

\* The stacks that are begun or put on others.
LEMMA StacksOfSteps ==
  /\ <<>> \in Seq(Steps) /\ Stacked(<<>>)
  /\ \A s \in Steps : <<s>> \in Seq(Steps) /\ Stacked(<<s>>)
  /\ \A s, r \in Steps : r \in Below[s] => <<s, r>> \in Seq(Steps) /\ Stacked(<<s, r>>)
  /\ \A s, r, q \in Steps : r \in Below[s] /\ q \in Below[s] /\ q \in Below[r]
       => <<s, r, q>> \in Seq(Steps) /\ Stacked(<<s, r, q>>)
BY DEF Stacked

\* A step that is followed by none.
LEMMA ThenNothing ==
  ASSUME TypeOK, Stacks, NEW t \in Threads, NEW h, Does(t, h), Then(t, <<>>)
  PROVE  /\ todo' \in [Threads -> Seq(Steps)] /\ Stacks'
         /\ h \in Work[t] /\ Work[t] \ {h} \subseteq Below[h]
         /\ Work'[t] = Work[t] \ {h}
         /\ \A u \in Threads \ {t} : Work'[u] = Work[u]
<1>1. <<>> \in Seq(Steps) /\ Stacked(<<>>) /\ Range(<<>>) = {}
  BY StacksOfSteps, RangeOf
<1>2. \A s \in Range(<<>>) : Below[h] \subseteq Below[s]
  BY <1>1
<1>3. Work'[t] = Range(<<>>) \cup (Work[t] \ {h})
  BY <1>1, <1>2, ThenWork
<1>4. QED  BY <1>1, <1>2, <1>3, ThenWork

\* A step that is followed by another.
LEMMA ThenOne ==
  ASSUME TypeOK, Stacks, NEW t \in Threads, NEW h, Does(t, h), NEW s \in Steps, Then(t, <<s>>),
         Below[h] \subseteq Below[s]
  PROVE  /\ todo' \in [Threads -> Seq(Steps)] /\ Stacks'
         /\ h \in Work[t] /\ Work[t] \ {h} \subseteq Below[h]
         /\ Work'[t] = {s} \cup (Work[t] \ {h})
         /\ \A u \in Threads \ {t} : Work'[u] = Work[u]
<1>1. <<s>> \in Seq(Steps) /\ Stacked(<<s>>) /\ Range(<<s>>) = {s}
  BY StacksOfSteps, RangeOf
<1>2. \A r \in Range(<<s>>) : Below[h] \subseteq Below[r]
  BY <1>1
<1>3. Work'[t] = Range(<<s>>) \cup (Work[t] \ {h})
  BY <1>1, <1>2, ThenWork
<1>4. QED  BY <1>1, <1>2, <1>3, ThenWork

\* A step that is followed by two others.
LEMMA ThenTwo ==
  ASSUME TypeOK, Stacks, NEW t \in Threads, NEW h, Does(t, h), NEW s \in Steps, NEW r \in Steps,
         r \in Below[s], Then(t, <<s, r>>), Below[h] \subseteq Below[s], Below[h] \subseteq Below[r]
  PROVE  /\ todo' \in [Threads -> Seq(Steps)] /\ Stacks'
         /\ h \in Work[t] /\ Work[t] \ {h} \subseteq Below[h]
         /\ Work'[t] = {s, r} \cup (Work[t] \ {h})
         /\ \A u \in Threads \ {t} : Work'[u] = Work[u]
<1>1. <<s, r>> \in Seq(Steps) /\ Stacked(<<s, r>>) /\ Range(<<s, r>>) = {s, r}
  BY StacksOfSteps, RangeOf
<1>2. \A q \in Range(<<s, r>>) : Below[h] \subseteq Below[q]
  BY <1>1
<1>3. Work'[t] = Range(<<s, r>>) \cup (Work[t] \ {h})
  BY <1>1, <1>2, ThenWork
<1>4. QED  BY <1>1, <1>2, <1>3, ThenWork

\* A thread with nothing to do begins with one step.
LEMMA BeginOne ==
  ASSUME TypeOK, Stacks, NEW t \in Threads, todo[t] = <<>>, NEW s \in Steps,
         todo' = [todo EXCEPT ![t] = <<s>>]
  PROVE  /\ todo' \in [Threads -> Seq(Steps)] /\ Stacks' /\ Work[t] = {}
         /\ Work'[t] = {s} /\ \A u \in Threads \ {t} : Work'[u] = Work[u]
<1>1. <<s>> \in Seq(Steps) /\ Stacked(<<s>>) /\ Range(<<s>>) = {s}
  BY StacksOfSteps, RangeOf
<1>2. QED  BY <1>1, BeginWork

\* A thread with nothing to do begins with two steps.
LEMMA BeginTwo ==
  ASSUME TypeOK, Stacks, NEW t \in Threads, todo[t] = <<>>, NEW s \in Steps, NEW r \in Steps,
         r \in Below[s], todo' = [todo EXCEPT ![t] = <<s, r>>]
  PROVE  /\ todo' \in [Threads -> Seq(Steps)] /\ Stacks' /\ Work[t] = {}
         /\ Work'[t] = {s, r} /\ \A u \in Threads \ {t} : Work'[u] = Work[u]
<1>1. <<s, r>> \in Seq(Steps) /\ Stacked(<<s, r>>) /\ Range(<<s, r>>) = {s, r}
  BY StacksOfSteps, RangeOf
<1>2. QED  BY <1>1, BeginWork
-----------------------------------------------------------------------------
(* What most steps do to the parts of the invariant *)

\* The scopes by what the threads have ahead.
ScopesOfWork ==
  \A t \in Threads :
    /\ lock = t <=> "unlock" \in Work[t]
    /\ serviceLock = t <=> "serviceUnlock" \in Work[t]
    /\ arg[t] # NoPacket <=> "push" \in Work[t]

\* It says the same.
LEMMA ScopesByWork == (Scopes <=> ScopesOfWork) /\ (Scopes' <=> ScopesOfWork')
BY DEF Scopes, ScopesOfWork, Work

\* A turn that nobody takes.
LEMMA AloneKept ==
  ASSUME NEW S, NEW E, Alone(S, E), \A u \in Threads : Work'[u] \cap S \subseteq Work[u],
         pending' \cap E \subseteq pending, \A c \in completed' : c[1] \in E => c \in completed
  PROVE  Alone(S, E)'
<1>1. /\ Busy(S)' \subseteq Busy(S) /\ AtKernel(E)' \subseteq AtKernel(E)
      /\ InPort(E)' \subseteq InPort(E)
  BY DEF Busy, AtKernel, InPort
<1>2. QED  BY <1>1 DEF Alone

\* A turn that nobody has and nobody takes.
LEMMA NobodyKept ==
  ASSUME NEW S, NEW E, Nobody(S, E), \A u \in Threads : Work'[u] \cap S \subseteq Work[u],
         pending' \cap E \subseteq pending, \A c \in completed' : c[1] \in E => c \in completed
  PROVE  Nobody(S, E)'
<1>1. /\ Busy(S)' \subseteq Busy(S) /\ AtKernel(E)' \subseteq AtKernel(E)
      /\ InPort(E)' \subseteq InPort(E)
  BY DEF Busy, AtKernel, InPort
<1>2. QED  BY <1>1 DEF Nobody

\* A turn that a thread takes that nobody had.
LEMMA AloneTaken ==
  ASSUME NEW S, NEW E, NEW t \in Threads, Nobody(S, E),
         \A u \in Threads \ {t} : Work'[u] \cap S \subseteq Work[u],
         pending' \cap E \subseteq pending, \A c \in completed' : c[1] \in E => c \in completed
  PROVE  Alone(S, E)'
<1>1. Busy(S)' \subseteq {t} /\ AtKernel(E)' = {} /\ InPort(E)' = {}
  BY DEF Nobody, Busy, AtKernel, InPort
<1>2. QED  BY <1>1 DEF Alone

\* A turn that a thread has and passes on to itself or gives up.
LEMMA AlonePassed ==
  ASSUME NEW S, NEW E, NEW t \in Threads, Alone(S, E), Work[t] \cap S # {},
         \A u \in Threads \ {t} : Work'[u] \cap S \subseteq Work[u],
         pending' \cap E \subseteq pending, \A c \in completed' : c[1] \in E => c \in completed
  PROVE  /\ Alone(S, E)' /\ Busy(S) = {t} /\ AtKernel(E) = {} /\ InPort(E) = {}
         /\ Busy(S)' \subseteq {t} /\ AtKernel(E)' = {} /\ InPort(E)' = {}
<1>1. t \in Busy(S)
  BY DEF Busy
<1>2. Busy(S) = {t} /\ AtKernel(E) = {} /\ InPort(E) = {}
  BY <1>1 DEF Alone
<1>3. Busy(S)' \subseteq {t} /\ AtKernel(E)' = {} /\ InPort(E)' = {}
  BY <1>2 DEF Busy, AtKernel, InPort
<1>4. QED  BY <1>2, <1>3 DEF Alone

\* A turn that a thread has and passes on to the kernel.
LEMMA AloneStarted ==
  ASSUME NEW S, NEW E, NEW t \in Threads, Alone(S, E), Work[t] \cap S # {}, Work'[t] \cap S = {},
         \A u \in Threads \ {t} : Work'[u] \cap S \subseteq Work[u], NEW e,
         pending' \cap E \subseteq pending \cup {e},
         \A c \in completed' : c[1] \in E => c \in completed
  PROVE  /\ Alone(S, E)' /\ Busy(S) = {t} /\ AtKernel(E) = {} /\ InPort(E) = {}
         /\ Busy(S)' = {} /\ InPort(E)' = {}
<1>1. t \in Busy(S)
  BY DEF Busy
<1>2. Busy(S) = {t} /\ AtKernel(E) = {} /\ InPort(E) = {}
  BY <1>1 DEF Alone
<1>3. Busy(S)' = {} /\ AtKernel(E)' \subseteq {e} /\ InPort(E)' = {}
  BY <1>2 DEF Busy, AtKernel, InPort
<1>4. QED  BY <1>2, <1>3 DEF Alone

\* A turn that a thread takes over from the port.
LEMMA AloneDequeued ==
  ASSUME NEW S, NEW E, NEW t \in Threads, Alone(S, E), NEW c \in completed, c[1] \in E,
         completed' = completed \ {c}, \A u \in Threads \ {t} : Work'[u] \cap S \subseteq Work[u],
         pending' \cap E \subseteq pending
  PROVE  /\ Alone(S, E)' /\ Busy(S) = {} /\ AtKernel(E) = {} /\ InPort(E) = {c}
         /\ Busy(S)' \subseteq {t} /\ AtKernel(E)' = {} /\ InPort(E)' = {}
<1>1. c \in InPort(E)
  BY DEF InPort
<1>2. Busy(S) = {} /\ AtKernel(E) = {} /\ InPort(E) = {c}
  BY <1>1 DEF Alone
<1>3. Busy(S)' \subseteq {t} /\ AtKernel(E)' = {} /\ InPort(E)' = {}
  BY <1>2 DEF Busy, AtKernel, InPort
<1>4. QED  BY <1>2, <1>3 DEF Alone

\* A turn that the kernel hands over to the port.
LEMMA AloneCompleted ==
  ASSUME NEW S, NEW E, Alone(S, E), NEW e \in pending \cap E, pending' = pending \ {e}, NEW c,
         completed' = completed \cup {c}, \A u \in Threads : Work'[u] \cap S \subseteq Work[u]
  PROVE  /\ Alone(S, E)' /\ Busy(S) = {} /\ AtKernel(E) = {e} /\ InPort(E) = {}
         /\ Busy(S)' = {} /\ AtKernel(E)' = {} /\ InPort(E)' \subseteq {c}
<1>1. e \in AtKernel(E)
  BY DEF AtKernel
<1>2. Busy(S) = {} /\ AtKernel(E) = {e} /\ InPort(E) = {}
  BY <1>1 DEF Alone
<1>3. Busy(S)' = {} /\ AtKernel(E)' = {} /\ InPort(E)' \subseteq {c}
  BY <1>2 DEF Busy, AtKernel, InPort
<1>4. QED  BY <1>2, <1>3 DEF Alone

\* The order of packets does not depend on anything else.
LEMMA OrderKept ==
  ASSUME IInv, UNCHANGED <<wire, sendBuffers, sendQueue, pushed>>,
         <<"send", "ok">> \in completed' <=> <<"send", "ok">> \in completed
  PROVE  Way' = Way /\ InOrder'
<1>1. Way' = Way
  BY DEF Way, InFlight
<1>2. QED  BY <1>1 DEF IInv, InOrder, Precedes

\* Nothing happens to the turn to send.
LEMMA SendKept ==
  ASSUME IInv, UNCHANGED <<registered, sendBuffers>>, "send" \in owner' <=> "send" \in owner,
         \A u \in Threads : Work'[u] \cap SendSteps \subseteq Work[u],
         pending' \cap {"send"} \subseteq pending,
         \A c \in completed' : c[1] = "send" => c \in completed
  PROVE  SendTurn'
<1>1. SendTurn /\ \A c \in completed' : c[1] \in {"send"} => c \in completed
  BY DEF IInv
<1>2. Alone(SendSteps, {"send"})'
  BY <1>1, AloneKept DEF SendTurn
<1>3. Nobody(SendSteps, {"send"}) => Nobody(SendSteps, {"send"})'
  BY <1>1, NobodyKept
<1>4. /\ Busy({"registerSend", "drain", "afterSend"})' \subseteq Busy({"registerSend", "drain", "afterSend"})
      /\ Busy({"wsaSend"})' \subseteq Busy({"wsaSend"})
  BY DEF Busy, SendSteps
<1>5. QED  BY <1>1, <1>2, <1>3, <1>4 DEF SendTurn

\* Nothing happens to the turn to disconnect.
LEMMA DisconnectKept ==
  ASSUME IInv, UNCHANGED <<connected, onDisconnected>>, inSessions => inSessions',
         \A u \in Threads : \A s \in ReleaseSteps \cup {"processConnect"} :
           s \in Work'[u] <=> s \in Work[u],
         pending' \cap (Connecting \cup {"disconnect"}) \subseteq pending,
         \A c \in completed' : c[1] \in Connecting \cup {"disconnect"} => c \in completed
  PROVE  DisconnectTurn'
<1>1. DisconnectTurn
  BY DEF IInv
<1>2. \A S \in SUBSET (ReleaseSteps \cup {"processConnect"}) :
        \A u \in Threads : Work'[u] \cap S \subseteq Work[u]
  OBVIOUS
<1>3. Alone(ReleaseSteps \cup {"processConnect"}, Connecting \cup {"disconnect"})'
  BY <1>1, <1>2, AloneKept DEF DisconnectTurn
<1>4. Nobody(ReleaseSteps \cup {"processConnect"}, Connecting \cup {"disconnect"})
        => Nobody(ReleaseSteps \cup {"processConnect"}, Connecting \cup {"disconnect"})'
  BY <1>2, NobodyKept
<1>5. Nobody(ReleaseSteps, {"disconnect"}) => Nobody(ReleaseSteps, {"disconnect"})'
  BY <1>2, NobodyKept
<1>6. Nobody({"processConnect", "registerDisconnect", "onDisconnected"}, Connecting \cup {"disconnect"})
        => Nobody({"processConnect", "registerDisconnect", "onDisconnected"},
                  Connecting \cup {"disconnect"})'
  <2>1. {"processConnect", "registerDisconnect", "onDisconnected"}
          \in SUBSET (ReleaseSteps \cup {"processConnect"})
    BY DEF ReleaseSteps
  <2>2. QED  BY <1>2, <2>1, NobodyKept
<1>7. \A u \in Threads : "releaseSession" \in Work'[u] => "onDisconnected" \in Work'[u]
                                                          \/ onDisconnected' > 0
  BY <1>1 DEF DisconnectTurn, ReleaseSteps
<1>8. QED  BY <1>1, <1>3, <1>4, <1>5, <1>6, <1>7 DEF DisconnectTurn

\* The session is published, and nothing of the connecting is done again.
LEMMA PublishedKept ==
  ASSUME IInv, Published, Published',
         \A u \in Threads : \A s \in {"processConnect", "addSession"} :
           s \in Work'[u] => s \in Work[u],
         pending' \cap Connecting \subseteq pending,
         \A c \in completed' : c[1] \in Connecting => c \in completed
  PROVE  Unpublished'
<1>1. Nobody({"processConnect", "addSession"}, Connecting)
  BY DEF IInv, Unpublished
<1>2. \A u \in Threads : Work'[u] \cap {"processConnect", "addSession"} \subseteq Work[u]
  OBVIOUS
<1>3. Nobody({"processConnect", "addSession"}, Connecting)'
  BY <1>1, <1>2, NobodyKept
<1>4. QED  BY <1>3 DEF Unpublished

\* A thread that has anything ahead but connecting finds the session published.
LEMMA AlreadyPublished ==
  ASSUME IInv, NEW t \in Threads, Work[t] # {}, Work[t] \cap {"processConnect", "addSession"} = {}
  PROVE  Published
BY DEF IInv, Unpublished

\* A thread is at a step of an established connection.
LEMMA BusyPublished ==
  ASSUME IInv, NEW t \in Threads, NEW h \in Steps \ {"processConnect", "addSession"}, h \in Work[t],
         Work[t] \ {h} \subseteq Below[h]
  PROVE  Published
<1>1. \A s \in Steps : Below[s] \cap {"processConnect", "addSession"} = {}
  BY DEF Below, Steps, InSend
<1>2. Work[t] # {} /\ Work[t] \cap {"processConnect", "addSession"} = {}
  BY <1>1
<1>3. QED  BY <1>2, AlreadyPublished

\* Nothing happens to the owners of events under way.
LEMMA OwnedKept ==
  ASSUME IInv, UNCHANGED crash, owner \subseteq owner', failed \subseteq failed',
         pending' \subseteq pending, completed' \subseteq completed
  PROVE  EventsOwned'
BY DEF IInv, EventsOwned, Completed

\* The connection is as broken as it was, and no packet is lost unless it is.
LEMMA ConnectionKept ==
  ASSUME IInv, UNCHANGED socket, failed \subseteq failed', completed' \subseteq completed,
         pushed = Way => pushed' = Way' \/ Broken',
         pending' \cap (Connecting \cup {"send"}) \subseteq pending,
         \A u \in Threads : "sendFailed" \in Work'[u] => "sendFailed" \in Work[u] \/ Broken'
  PROVE  Unbroken'
<1>1. Broken => Broken'
  BY DEF Broken
<1>2. /\ Busy({"sendFailed"})' \subseteq Busy({"sendFailed"}) \/ Broken'
      /\ AtKernel(Connecting)' \subseteq AtKernel(Connecting)
      /\ AtKernel({"send"})' \subseteq AtKernel({"send"})
  BY DEF Busy, AtKernel
<1>3. QED  BY <1>1, <1>2 DEF IInv, Unbroken

\* Nothing happens to the packets and the connection.
LEMMA UnbrokenKept ==
  ASSUME IInv, UNCHANGED <<wire, sendBuffers, sendQueue, pushed, socket>>,
         <<"send", "ok">> \in completed' <=> <<"send", "ok">> \in completed,
         <<"send", "zero">> \in completed' => <<"send", "zero">> \in completed,
         failed \subseteq failed', pending' \cap (Connecting \cup {"send"}) \subseteq pending,
         \A u \in Threads : "sendFailed" \in Work'[u] => "sendFailed" \in Work[u]
  PROVE  InOrder' /\ Unbroken'
<1>1. Way' = Way /\ InOrder'
  BY OrderKept
<1>2. Broken => Broken'
  BY DEF Broken
<1>3. /\ Busy({"sendFailed"})' \subseteq Busy({"sendFailed"})
      /\ AtKernel(Connecting)' \subseteq AtKernel(Connecting)
      /\ AtKernel({"send"})' \subseteq AtKernel({"send"})
  BY DEF Busy, AtKernel
<1>4. QED  BY <1>1, <1>2, <1>3 DEF IInv, Unbroken

\* The steps of a thread that has none of the session's locks change neither, nor its packet.
LEMMA ScopesKept ==
  ASSUME TypeOK, UNCHANGED <<lock, serviceLock, arg>>,
         \A u \in Threads : \A s \in {"push", "unlock", "serviceUnlock"} :
           s \in Work'[u] <=> s \in Work[u]
  PROVE  Scopes'
<1>1. ScopesOfWork
  BY ScopesByWork DEF TypeOK
<1>2. ScopesOfWork'
  BY <1>1 DEF ScopesOfWork
<1>3. QED  BY <1>2, ScopesByWork
-----------------------------------------------------------------------------
(* Calls *)

\* Send makes a packet.
LEMMA SendMakes ==
  ASSUME TypeOK, NEW t \in Threads, Send(t)
  PROVE  /\ made' \in Packets /\ made' \in 0 .. MaxPackets /\ NoPacket \notin Packets
         /\ arg' \in [Threads -> Packets \cup {NoPacket}] /\ arg'[t] = made'
         /\ \A u \in Threads \ {t} : arg'[u] = arg[u]
<1>1. /\ made \in 0 .. MaxPackets /\ made < MaxPackets /\ made' = made + 1
      /\ arg' = [arg EXCEPT ![t] = made'] /\ arg \in [Threads -> Packets \cup {NoPacket}]
  BY DEF TypeOK, Types, Send
<1>2. made' \in Packets /\ made' \in 0 .. MaxPackets /\ NoPacket \notin Packets
  BY <1>1, SessionAssumption DEF Packets, NoPacket
<1>3. QED  BY <1>1, <1>2

\* A thread calls Send.
LEMMA CallSendIInv == ASSUME IInv, NEW t \in Threads, CallSend(t) PROVE IInv'
<1> USE DEF sending, service, kernel
<1>1. /\ todo[t] = <<>> /\ Published /\ Send(t) /\ todo' = [todo EXCEPT ![t] = <<"push">>]
      /\ UNCHANGED <<connected, sending, owner, service, kernel, crash>>
  BY DEF CallSend, Idle
<1>2. /\ todo' \in [Threads -> Seq(Steps)] /\ Stacks' /\ Work[t] = {}
      /\ Work'[t] = {"push"} /\ \A u \in Threads \ {t} : Work'[u] = Work[u]
  BY <1>1, BeginOne DEF IInv, Steps
<1>3. TypeOK'
  <2>1. /\ made' \in Packets /\ made' \in 0 .. MaxPackets /\ NoPacket \notin Packets
        /\ arg' \in [Threads -> Packets \cup {NoPacket}] /\ arg'[t] = made'
        /\ \A u \in Threads \ {t} : arg'[u] = arg[u]
    BY <1>1, SendMakes DEF IInv
  <2>2. Types'
    BY <1>1, <1>2, <2>1 DEF IInv, TypeOK, Types
  <2>3. ScopesOfWork'
    BY <1>1, <1>2, <2>1, ScopesByWork DEF ScopesOfWork, IInv, TypeOK
  <2>4. QED  BY <2>2, <2>3, ScopesByWork DEF TypeOK
<1>4. SendTurn'
  BY <1>1, <1>2, SendKept DEF SendSteps
<1>5. ReceiveTurn'
  BY <1>1, <1>2, AloneKept DEF IInv, ReceiveTurn, ConnectSteps, RecvSteps
<1>6. DisconnectTurn'
  BY <1>1, <1>2, DisconnectKept DEF ReleaseSteps
<1>7. Unpublished'
  BY <1>1, <1>2, PublishedKept DEF Published
<1>8. EventsOwned' /\ InOrder' /\ Unbroken' /\ NoCrash'
  BY <1>1, <1>2, OwnedKept, UnbrokenKept DEF IInv, NoCrash
<1>9. QED  BY <1>2, <1>3, <1>4, <1>5, <1>6, <1>7, <1>8 DEF IInv

\* A thread calls Disconnect.
LEMMA CallDisconnectIInv == ASSUME IInv, NEW t \in Threads, CallDisconnect(t) PROVE IInv'
<1> USE DEF sending, service, args, kernel
<1>1. /\ todo[t] = <<>> /\ Published /\ todo' = [todo EXCEPT ![t] = <<"disconnect">>]
      /\ UNCHANGED <<connected, sending, owner, service, args, kernel, crash>>
  BY DEF CallDisconnect, Idle
<1>2. /\ todo' \in [Threads -> Seq(Steps)] /\ Stacks' /\ Work[t] = {}
      /\ Work'[t] = {"disconnect"} /\ \A u \in Threads \ {t} : Work'[u] = Work[u]
  BY <1>1, BeginOne DEF IInv, Steps
<1>3. TypeOK'
  <2>1. Types'
    BY <1>1, <1>2 DEF IInv, TypeOK, Types
  <2>2. Scopes'
    BY <1>1, <1>2, ScopesKept DEF IInv
  <2>3. QED  BY <2>1, <2>2 DEF TypeOK
<1>4. SendTurn'
  BY <1>1, <1>2, SendKept DEF SendSteps
<1>5. ReceiveTurn'
  BY <1>1, <1>2, AloneKept DEF IInv, ReceiveTurn, ConnectSteps, RecvSteps
<1>6. DisconnectTurn'
  BY <1>1, <1>2, DisconnectKept DEF ReleaseSteps
<1>7. Unpublished'
  BY <1>1, <1>2, PublishedKept DEF Published
<1>8. EventsOwned' /\ InOrder' /\ Unbroken' /\ NoCrash'
  BY <1>1, <1>2, OwnedKept, UnbrokenKept DEF IInv, NoCrash
<1>9. QED  BY <1>2, <1>3, <1>4, <1>5, <1>6, <1>7, <1>8 DEF IInv

\* A thread broadcasts a packet under the service's lock.
LEMMA BroadcastIInv == ASSUME IInv, NEW t \in Threads, Broadcast(t) PROVE IInv'
<1> USE DEF sending, service, kernel
<1>1. /\ todo[t] = <<>> /\ inSessions /\ serviceLock = NoThread /\ serviceLock' = t
      /\ Send(t) /\ todo' = [todo EXCEPT ![t] = <<"push", "serviceUnlock">>]
      /\ UNCHANGED <<connected, sending, owner, inSessions, onDisconnected, kernel, crash>>
  BY DEF Broadcast, Idle
<1>2. /\ todo' \in [Threads -> Seq(Steps)] /\ Stacks' /\ Work[t] = {}
      /\ Work'[t] = {"push", "serviceUnlock"} /\ \A u \in Threads \ {t} : Work'[u] = Work[u]
  <2>1. "push" \in Steps /\ "serviceUnlock" \in Steps /\ "serviceUnlock" \in Below["push"]
    BY DEF Steps, Below, InSend
  <2>2. QED  BY <1>1, <2>1, BeginTwo DEF IInv
<1>3. TypeOK'
  <2>1. /\ made' \in Packets /\ made' \in 0 .. MaxPackets /\ NoPacket \notin Packets
        /\ arg' \in [Threads -> Packets \cup {NoPacket}] /\ arg'[t] = made'
        /\ \A u \in Threads \ {t} : arg'[u] = arg[u]
    BY <1>1, SendMakes DEF IInv
  <2>2. Types'
    BY <1>1, <1>2, <2>1 DEF IInv, TypeOK, Types
  <2>3. ScopesOfWork'
    BY <1>1, <1>2, <2>1, ScopesByWork, SessionAssumption DEF ScopesOfWork, IInv, TypeOK
  <2>4. QED  BY <2>2, <2>3, ScopesByWork DEF TypeOK
<1>4. SendTurn'
  BY <1>1, <1>2, SendKept DEF SendSteps
<1>5. ReceiveTurn'
  BY <1>1, <1>2, AloneKept DEF IInv, ReceiveTurn, ConnectSteps, RecvSteps
<1>6. DisconnectTurn'
  BY <1>1, <1>2, DisconnectKept DEF ReleaseSteps
<1>7. Unpublished'
  BY <1>1, <1>2, PublishedKept DEF Published
<1>8. EventsOwned' /\ InOrder' /\ Unbroken' /\ NoCrash'
  BY <1>1, <1>2, OwnedKept, UnbrokenKept DEF IInv, NoCrash
<1>9. QED  BY <1>2, <1>3, <1>4, <1>5, <1>6, <1>7, <1>8 DEF IInv

\* The end of a scope with the service's lock.
LEMMA ServiceUnlockIInv == ASSUME IInv, NEW t \in Threads, ServiceUnlock(t) PROVE IInv'
<1> USE DEF sending, args, kernel
<1>1. /\ Does(t, "serviceUnlock") /\ serviceLock' = NoThread /\ Then(t, <<>>)
      /\ UNCHANGED <<connected, sending, owner, inSessions, onDisconnected, args, kernel, crash>>
  BY DEF ServiceUnlock
<1>2. /\ todo' \in [Threads -> Seq(Steps)] /\ Stacks'
      /\ "serviceUnlock" \in Work[t] /\ Work[t] \ {"serviceUnlock"} \subseteq Below["serviceUnlock"]
      /\ Work'[t] = Work[t] \ {"serviceUnlock"} /\ \A u \in Threads \ {t} : Work'[u] = Work[u]
  BY <1>1, ThenNothing DEF IInv
<1>3. TypeOK'
  <2>1. Types'
    BY <1>1, <1>2 DEF IInv, TypeOK, Types
  <2>2. ScopesOfWork'
    BY <1>1, <1>2, ScopesByWork, SessionAssumption DEF ScopesOfWork, IInv, TypeOK
  <2>3. QED  BY <2>1, <2>2, ScopesByWork DEF TypeOK
<1>4. SendTurn'
  BY <1>1, <1>2, SendKept DEF SendSteps
<1>5. ReceiveTurn'
  BY <1>1, <1>2, AloneKept DEF IInv, ReceiveTurn, ConnectSteps, RecvSteps
<1>6. DisconnectTurn'
  BY <1>1, <1>2, DisconnectKept DEF ReleaseSteps
<1>7. Unpublished'
  <2>1. Published
    BY <1>2, BusyPublished DEF Steps
  <2>2. QED  BY <1>1, <1>2, <2>1, PublishedKept DEF Published
<1>8. EventsOwned' /\ InOrder' /\ Unbroken' /\ NoCrash'
  BY <1>1, <1>2, OwnedKept, UnbrokenKept DEF IInv, NoCrash
<1>9. QED  BY <1>2, <1>3, <1>4, <1>5, <1>6, <1>7, <1>8 DEF IInv
-----------------------------------------------------------------------------
(* Send and RegisterSend *)

\* What the queues hold.
LEMMA QueuesType ==
  ASSUME TypeOK
  PROVE  /\ wire \in Seq(Packets) /\ InFlight \in Seq(Packets) /\ sendQueue \in Seq(Packets)
         /\ sendBuffers \in Seq(Packets) /\ pushed \in Seq(Packets)
         /\ InFlight \o sendQueue \in Seq(Packets) /\ Way \in Seq(Packets)
<1>1. /\ wire \in Seq(Packets) /\ sendBuffers \in Seq(Packets) /\ sendQueue \in Seq(Packets)
      /\ pushed \in Seq(Packets)
  BY DEF TypeOK, Types
<1>2. InFlight \in Seq(Packets)
  BY <1>1, EmptySeq DEF InFlight
<1>3. InFlight \o sendQueue \in Seq(Packets)
  BY <1>1, <1>2, ConcatProperties
<1>4. QED  BY <1>1, <1>2, <1>3, ConcatProperties DEF Way

\* A packet is put into the queue, and is the last on its way.
LEMMA PushedLast ==
  ASSUME IInv, NEW a \in Packets, sendQueue' = Append(sendQueue, a), pushed' = Append(pushed, a),
         UNCHANGED <<wire, sendBuffers, completed>>
  PROVE  /\ sendQueue' \in Seq(Packets) /\ pushed' \in Seq(Packets)
         /\ InOrder' /\ (pushed = Way => pushed' = Way')
<1>1. /\ wire \in Seq(Packets) /\ InFlight \in Seq(Packets) /\ sendQueue \in Seq(Packets)
      /\ pushed \in Seq(Packets) /\ <<a>> \in Seq(Packets)
      /\ InFlight \o sendQueue \in Seq(Packets) /\ Way \in Seq(Packets)
  BY QueuesType DEF IInv
<1>2. sendQueue' = sendQueue \o <<a>> /\ pushed' = pushed \o <<a>>
  BY <1>1, AppendIsConcat
<1>3. sendQueue' \in Seq(Packets) /\ pushed' \in Seq(Packets)
  BY <1>1, <1>2, ConcatProperties
<1>4. Way' = Way \o <<a>>
  <2>1. InFlight' = InFlight
    BY DEF InFlight
  <2>2. InFlight \o (sendQueue \o <<a>>) = (InFlight \o sendQueue) \o <<a>>
    BY <1>1, ConcatAssociative
  <2>3. wire \o ((InFlight \o sendQueue) \o <<a>>) = (wire \o (InFlight \o sendQueue)) \o <<a>>
    BY <1>1, ConcatAssociative
  <2>4. QED  BY <1>2, <2>1, <2>2, <2>3 DEF Way
<1>5. InOrder'
  <2>1. Range(<<a>>) = {a}
    BY RangeOf
  <2>2. Range(Way \o <<a>>) = Range(Way) \cup {a} /\ Range(pushed \o <<a>>) = Range(pushed) \cup {a}
    <3>1. Range(Way \o <<a>>) = Range(Way) \cup Range(<<a>>)
      BY <1>1, RangeConcat
    <3>2. Range(pushed \o <<a>>) = Range(pushed) \cup Range(<<a>>)
      BY <1>1, RangeConcat
    <3>3. QED  BY <2>1, <3>1, <3>2
  <2>3. ASSUME NEW x \in Packets, NEW y \in Packets, Precedes(x, y, Way \o <<a>>)
        PROVE  Precedes(x, y, pushed \o <<a>>)
    <3>1. ~ Precedes(x, y, <<a>>)
      BY DEF Precedes
    <3>2. Precedes(x, y, Way) \/ (x \in Range(Way) /\ y \in Range(<<a>>))
      <4>1. Precedes(x, y, Way \o <<a>>) <=>
              \/ Precedes(x, y, Way) \/ Precedes(x, y, <<a>>)
              \/ x \in Range(Way) /\ y \in Range(<<a>>)
        BY <1>1, PrecedesConcat
      <4>2. QED  BY <2>3, <3>1, <4>1
    <3>3. Precedes(x, y, pushed) \/ (x \in Range(pushed) /\ y \in Range(<<a>>))
      BY <3>2 DEF IInv, InOrder
    <3>4. QED  BY <3>3, <1>1, PrecedesConcat
  <2>4. Range(Way') \subseteq Range(pushed')
    BY <2>2, <1>2, <1>4 DEF IInv, InOrder
  <2>5. ASSUME NEW x \in Packets, NEW y \in Packets, Precedes(x, y, Way')
        PROVE  Precedes(x, y, pushed')
    <3>1. Precedes(x, y, Way \o <<a>>)
      BY <2>5, <1>4
    <3>2. QED  BY <2>3, <3>1, <1>2
  <2>6. QED  BY <2>4, <2>5 DEF InOrder
<1>6. QED  BY <1>2, <1>3, <1>4, <1>5

\* Packets on their way are lost, between those that arrived and those in the queue.
LEMMA MiddleLost ==
  ASSUME IInv, UNCHANGED <<wire, sendQueue, pushed>>, InFlight' = <<>>
  PROVE  InOrder'
<1>1. /\ wire \in Seq(Packets) /\ InFlight \in Seq(Packets) /\ sendQueue \in Seq(Packets)
      /\ InFlight \o sendQueue \in Seq(Packets)
  BY QueuesType DEF IInv
<1>2. Way' = wire \o sendQueue
  BY <1>1, ConcatEmptySeq DEF Way
<1>3. Range(Way') \subseteq Range(Way)
  <2>1. Range(wire \o sendQueue) = Range(wire) \cup Range(sendQueue)
    BY <1>1, RangeConcat
  <2>2. Range(InFlight \o sendQueue) = Range(InFlight) \cup Range(sendQueue)
    BY <1>1, RangeConcat
  <2>3. ASSUME NEW q \in Seq(Packets) PROVE Range(wire \o q) = Range(wire) \cup Range(q)
    BY <1>1, RangeConcat
  <2>4. Range(Way) = Range(wire) \cup Range(InFlight \o sendQueue)
    BY <1>1, <2>3 DEF Way
  <2>5. QED  BY <2>1, <2>2, <2>4, <1>2
<1>4. ASSUME NEW x \in Packets, NEW y \in Packets, Precedes(x, y, Way') PROVE Precedes(x, y, Way)
  <2>1. \/ Precedes(x, y, wire) \/ Precedes(x, y, sendQueue)
        \/ x \in Range(wire) /\ y \in Range(sendQueue)
    BY <1>4, <1>1, <1>2, PrecedesConcat
  <2>2. Precedes(x, y, sendQueue) => Precedes(x, y, InFlight \o sendQueue)
    BY <1>1, PrecedesConcat
  <2>3. Range(sendQueue) \subseteq Range(InFlight \o sendQueue)
    BY <1>1, RangeConcat
  <2>4. \/ Precedes(x, y, wire) \/ Precedes(x, y, InFlight \o sendQueue)
        \/ x \in Range(wire) /\ y \in Range(InFlight \o sendQueue)
    BY <2>1, <2>2, <2>3
  <2>5. QED  BY <2>4, <1>1, PrecedesConcat DEF Way
<1>5. QED  BY <1>3, <1>4 DEF IInv, InOrder

\* A thread pushes its packet.
LEMMA PushIInv == ASSUME IInv, NEW t \in Threads, Push(t) PROVE IInv'
<1> USE DEF service, kernel
<1>1. /\ Does(t, "push") /\ sendQueue' = Append(sendQueue, arg[t])
      /\ pushed' = Append(pushed, arg[t]) /\ arg' = [arg EXCEPT ![t] = NoPacket] /\ registered' = TRUE
      /\ Then(t, IF registered THEN <<>> ELSE <<"registerSend">>)
      /\ UNCHANGED <<connected, lock, sendBuffers, owner, service, made, kernel, crash>>
  BY DEF Push
<1>2. /\ todo' \in [Threads -> Seq(Steps)] /\ Stacks'
      /\ "push" \in Work[t] /\ Work[t] \ {"push"} \subseteq Below["push"]
      /\ IF registered THEN Work'[t] = Work[t] \ {"push"}
                       ELSE Work'[t] = {"registerSend"} \cup (Work[t] \ {"push"})
      /\ \A u \in Threads \ {t} : Work'[u] = Work[u]
  <2>1. CASE registered
    BY <2>1, <1>1, ThenNothing DEF IInv
  <2>2. CASE ~ registered
    <3>1. "registerSend" \in Steps /\ Below["push"] \subseteq Below["registerSend"]
      BY DEF Steps, Below, InSend
    <3>2. QED  BY <2>2, <3>1, <1>1, ThenOne DEF IInv
  <2>3. QED  BY <2>1, <2>2
<1>3. /\ arg[t] \in Packets /\ arg'[t] = NoPacket /\ \A u \in Threads \ {t} : arg'[u] = arg[u]
      /\ arg' \in [Threads -> Packets \cup {NoPacket}]
  BY <1>1, <1>2, ScopesByWork DEF IInv, TypeOK, Types, ScopesOfWork
<1>4. /\ sendQueue' \in Seq(Packets) /\ pushed' \in Seq(Packets)
      /\ InOrder' /\ (pushed = Way => pushed' = Way')
  BY <1>1, <1>3, PushedLast
<1>5. TypeOK'
  <2>1. Types'
    BY <1>1, <1>2, <1>3, <1>4 DEF IInv, TypeOK, Types
  <2>2. ScopesOfWork'
    BY <1>1, <1>2, <1>3, ScopesByWork DEF ScopesOfWork, IInv, TypeOK
  <2>3. QED  BY <2>1, <2>2, ScopesByWork DEF TypeOK
<1>6. SendTurn'
  <2>1. CASE registered
    BY <2>1, <1>1, <1>2, SendKept DEF SendSteps
  <2>2. CASE ~ registered
    <3>1. Nobody(SendSteps, {"send"}) /\ "send" \notin owner /\ sendBuffers = <<>>
      BY <2>2 DEF IInv, SendTurn
    <3>2. Alone(SendSteps, {"send"})'
      BY <3>1, <1>1, <1>2, AloneTaken
    <3>3. Busy({"wsaSend"})' = {}
      BY <3>1, <1>2, BelowOf DEF Nobody, Busy, SendSteps
    <3>4. QED  BY <3>1, <3>2, <3>3, <1>1 DEF SendTurn
  <2>3. QED  BY <2>1, <2>2
<1>7. ReceiveTurn'
  BY <1>1, <1>2, AloneKept DEF IInv, ReceiveTurn, ConnectSteps, RecvSteps
<1>8. DisconnectTurn'
  BY <1>1, <1>2, DisconnectKept DEF ReleaseSteps
<1>9. Unpublished'
  <2>1. Published
    BY <1>2, BusyPublished DEF Steps
  <2>2. QED  BY <1>1, <1>2, <2>1, PublishedKept DEF Published
<1>10. EventsOwned' /\ Unbroken' /\ NoCrash'
  BY <1>1, <1>2, <1>4, OwnedKept, ConnectionKept DEF IInv, NoCrash
<1>11. QED  BY <1>2, <1>4, <1>5, <1>6, <1>7, <1>8, <1>9, <1>10 DEF IInv

\* The turn to send is passed on by the thread that has it.
LEMMA SendPassed ==
  ASSUME IInv, NEW t \in Threads, Work[t] \cap SendSteps # {}, UNCHANGED registered,
         \A u \in Threads \ {t} : Work'[u] = Work[u], UNCHANGED <<pending, completed>>,
         \/ "registerSend" \notin Work'[t] /\ "drain" \notin Work'[t] /\ "afterSend" \notin Work'[t]
         \/ "send" \notin owner' /\ sendBuffers' = <<>>,
         "wsaSend" \in Work'[t] => "send" \in owner'
  PROVE  SendTurn' /\ registered
<1>1. Alone(SendSteps, {"send"})' /\ Busy(SendSteps) = {t} /\ Busy(SendSteps)' \subseteq {t}
  BY AlonePassed DEF IInv, SendTurn
<1>2. registered
  BY <1>1 DEF IInv, SendTurn, Nobody
<1>3. Busy({"registerSend", "drain", "afterSend"})' \subseteq {t}
  BY <1>1 DEF Busy, SendSteps
<1>4. Busy({"registerSend", "drain", "afterSend"})' # {} => "send" \notin owner' /\ sendBuffers' = <<>>
  BY <1>3 DEF Busy
<1>5. Busy({"wsaSend"})' # {} => "send" \in owner'
  <2>1. Busy({"wsaSend"})' \subseteq {t}
    BY <1>1 DEF Busy, SendSteps
  <2>2. QED  BY <2>1 DEF Busy
<1>6. QED  BY <1>1, <1>2, <1>4, <1>5 DEF SendTurn

\* A thread that registered the send finds the session connected or not.
LEMMA RegisterSendIInv == ASSUME IInv, NEW t \in Threads, RegisterSend(t) PROVE IInv'
<1> USE DEF sending, service, args, kernel
<1>1. /\ Does(t, "registerSend") /\ Then(t, IF connected THEN <<"drain">> ELSE <<>>)
      /\ UNCHANGED <<connected, sending, owner, service, args, kernel, crash>>
  BY DEF RegisterSend
<1>2. /\ todo' \in [Threads -> Seq(Steps)] /\ Stacks'
      /\ "registerSend" \in Work[t] /\ Work[t] \ {"registerSend"} \subseteq Below["registerSend"]
      /\ \/ Work'[t] = Work[t] \ {"registerSend"}
         \/ Work'[t] = {"drain"} \cup (Work[t] \ {"registerSend"})
      /\ \A u \in Threads \ {t} : Work'[u] = Work[u]
  <2>1. CASE ~ connected
    BY <2>1, <1>1, ThenNothing DEF IInv
  <2>2. CASE connected
    <3>1. "drain" \in Steps /\ Below["registerSend"] \subseteq Below["drain"]
      BY DEF Steps, Below, InSend
    <3>2. QED  BY <2>2, <3>1, <1>1, ThenOne DEF IInv
  <2>3. QED  BY <2>1, <2>2 DEF IInv, TypeOK, Types
<1>3. TypeOK'
  <2>1. Types'
    BY <1>1, <1>2 DEF IInv, TypeOK, Types
  <2>2. Scopes'
    BY <1>1, <1>2, ScopesKept DEF IInv
  <2>3. QED  BY <2>1, <2>2 DEF TypeOK
<1>4. SendTurn'
  <2>1. "send" \notin owner /\ sendBuffers = <<>>
    BY <1>2 DEF IInv, SendTurn, Busy
  <2>2. "wsaSend" \notin Work'[t]
    BY <1>2, BelowOf DEF InSend
  <2>3. QED  BY <1>1, <1>2, <2>1, <2>2, SendPassed DEF SendSteps
<1>5. ReceiveTurn'
  BY <1>1, <1>2, AloneKept DEF IInv, ReceiveTurn, ConnectSteps, RecvSteps
<1>6. DisconnectTurn'
  BY <1>1, <1>2, DisconnectKept DEF ReleaseSteps
<1>7. Unpublished'
  <2>1. Published
    BY <1>2, BusyPublished DEF Steps
  <2>2. QED  BY <1>1, <1>2, <2>1, PublishedKept DEF Published
<1>8. EventsOwned' /\ InOrder' /\ Unbroken' /\ NoCrash'
  BY <1>1, <1>2, OwnedKept, UnbrokenKept DEF IInv, NoCrash
<1>9. QED  BY <1>2, <1>3, <1>4, <1>5, <1>6, <1>7, <1>8 DEF IInv

\* The queue is moved into the event.
LEMMA DrainIInv == ASSUME IInv, NEW t \in Threads, Drain(t) PROVE IInv'
<1> USE DEF service, args, kernel
<1>1. /\ Does(t, "drain") /\ Then(t, <<"wsaSend">>) /\ owner' = owner \cup {"send"}
      /\ sendBuffers' = sendBuffers \o sendQueue /\ sendQueue' = <<>>
      /\ UNCHANGED <<connected, lock, registered, pushed, service, args, kernel, crash>>
  BY DEF Drain
<1>2. /\ todo' \in [Threads -> Seq(Steps)] /\ Stacks'
      /\ "drain" \in Work[t] /\ Work[t] \ {"drain"} \subseteq Below["drain"]
      /\ Work'[t] = {"wsaSend"} \cup (Work[t] \ {"drain"})
      /\ \A u \in Threads \ {t} : Work'[u] = Work[u]
  <2>1. "wsaSend" \in Steps /\ Below["drain"] \subseteq Below["wsaSend"]
    BY DEF Steps, Below, InSend
  <2>2. QED  BY <2>1, <1>1, ThenOne DEF IInv
<1>3. sendBuffers = <<>> /\ InPort({"send"}) = {}
  <2>1. "send" \notin owner /\ sendBuffers = <<>>
    BY <1>2 DEF IInv, SendTurn, Busy
  <2>2. t \in Busy(SendSteps)
    BY <1>2 DEF Busy, SendSteps
  <2>3. QED  BY <2>1, <2>2 DEF IInv, SendTurn, Alone
<1>4. /\ wire \in Seq(Packets) /\ sendQueue \in Seq(Packets)
      /\ sendBuffers' = sendQueue /\ sendQueue' = <<>>
  <2>1. wire \in Seq(Packets) /\ sendQueue \in Seq(Packets)
    BY QueuesType DEF IInv
  <2>2. <<>> \o sendQueue = sendQueue
    BY <2>1, ConcatEmptySeq
  <2>3. QED  BY <2>1, <2>2, <1>1, <1>3
<1>5. Way' = Way
  <2>1. <<"send", "ok">> \notin completed
    BY <1>3 DEF InPort
  <2>2. InFlight = <<>> /\ InFlight' = sendQueue
    BY <2>1, <1>1, <1>3, <1>4 DEF InFlight
  <2>3. <<>> \o sendQueue = sendQueue /\ sendQueue \o <<>> = sendQueue
    BY <1>4, ConcatEmptySeq
  <2>4. QED  BY <2>2, <2>3, <1>1 DEF Way
<1>6. TypeOK'
  <2>1. sendBuffers' \in Seq(Packets) /\ sendQueue' \in Seq(Packets)
    BY <1>4, EmptySeq
  <2>2. owner' \subseteq Events
    BY <1>1 DEF IInv, TypeOK, Types, Events
  <2>3. Types'
    BY <1>1, <1>2, <2>1, <2>2 DEF IInv, TypeOK, Types
  <2>4. Scopes'
    BY <1>1, <1>2, ScopesKept DEF IInv
  <2>5. QED  BY <2>3, <2>4 DEF TypeOK
<1>7. UNCHANGED <<connected, registered, inSessions, onDisconnected, pending, completed>>
  BY <1>1
<1>8. SendTurn'
  <2>1. "registerSend" \notin Work'[t] /\ "drain" \notin Work'[t] /\ "afterSend" \notin Work'[t]
    BY <1>2, BelowOf DEF InSend
  <2>2. Work[t] \cap SendSteps # {}
    BY <1>2 DEF SendSteps
  <2>3. "send" \in owner'
    BY <1>1
  <2>4. QED  BY <1>2, <1>7, <2>1, <2>2, <2>3, SendPassed
<1>9. ReceiveTurn'
  BY <1>2, <1>7, AloneKept DEF IInv, ReceiveTurn, ConnectSteps, RecvSteps
<1>10. DisconnectTurn'
  BY <1>2, <1>7, DisconnectKept DEF ReleaseSteps
<1>11. Unpublished'
  <2>1. Published
    BY <1>2, BusyPublished DEF Steps
  <2>2. QED  BY <1>1, <1>2, <2>1, PublishedKept DEF Published
<1>12. InOrder'
  BY <1>1, <1>5 DEF IInv, InOrder, Precedes
<1>13. EventsOwned' /\ Unbroken' /\ NoCrash'
  BY <1>1, <1>2, <1>5, OwnedKept, ConnectionKept DEF IInv, NoCrash
<1>14. QED  BY <1>2, <1>6, <1>8, <1>9, <1>10, <1>11, <1>12, <1>13 DEF IInv

\* WSASend starts, finds the connection reset, or fails otherwise.
LEMMA WsaSendIInv == ASSUME IInv, NEW t \in Threads, WsaSend(t) PROVE IInv'
<1> USE DEF sending, service, args
<1>1. /\ Does(t, "wsaSend")
      /\ \/ socket # "fresh" /\ pending' = pending \cup {"send"} /\ Then(t, <<>>) /\ failed' = failed
         \/ /\ Then(t, <<"disconnect", "sendFailed">>) /\ socket = "reset"
            /\ pending' = pending /\ failed' = failed
         \/ Then(t, <<"sendFailed">>) /\ pending' = pending /\ failed' = failed \cup {"send"}
      /\ UNCHANGED <<connected, sending, owner, service, args, socket, completed, wire, crash>>
  BY DEF WsaSend
<1>2. /\ todo' \in [Threads -> Seq(Steps)] /\ Stacks'
      /\ "wsaSend" \in Work[t] /\ Work[t] \ {"wsaSend"} \subseteq Below["wsaSend"]
      /\ \/ /\ Work'[t] = Work[t] \ {"wsaSend"} /\ socket # "fresh"
            /\ pending' = pending \cup {"send"} /\ failed' = failed
         \/ /\ Work'[t] = {"disconnect", "sendFailed"} \cup (Work[t] \ {"wsaSend"})
            /\ socket = "reset" /\ pending' = pending /\ failed' = failed
         \/ /\ Work'[t] = {"sendFailed"} \cup (Work[t] \ {"wsaSend"})
            /\ pending' = pending /\ failed' = failed \cup {"send"}
      /\ \A u \in Threads \ {t} : Work'[u] = Work[u]
  <2>1. CASE Then(t, <<>>) /\ socket # "fresh" /\ pending' = pending \cup {"send"} /\ failed' = failed
    BY <2>1, <1>1, ThenNothing DEF IInv
  <2>2. CASE /\ Then(t, <<"disconnect", "sendFailed">>) /\ socket = "reset"
             /\ pending' = pending /\ failed' = failed
    <3>1. /\ "disconnect" \in Steps /\ "sendFailed" \in Steps /\ "sendFailed" \in Below["disconnect"]
          /\ Below["wsaSend"] \subseteq Below["disconnect"]
          /\ Below["wsaSend"] \subseteq Below["sendFailed"]
      BY DEF Steps, Below, InSend
    <3>2. QED  BY <2>2, <3>1, <1>1, ThenTwo DEF IInv
  <2>3. CASE Then(t, <<"sendFailed">>) /\ pending' = pending /\ failed' = failed \cup {"send"}
    <3>1. "sendFailed" \in Steps /\ Below["wsaSend"] \subseteq Below["sendFailed"]
      BY DEF Steps, Below, InSend
    <3>2. QED  BY <2>3, <3>1, <1>1, ThenOne DEF IInv
  <2>4. QED  BY <2>1, <2>2, <2>3, <1>1
<1>3. TypeOK'
  <2>1. Types'
    BY <1>1, <1>2 DEF IInv, TypeOK, Types, Events
  <2>2. Scopes'
    BY <1>1, <1>2, ScopesKept DEF IInv
  <2>3. QED  BY <2>1, <2>2 DEF TypeOK
<1>4. /\ Alone(SendSteps, {"send"})' /\ registered /\ "send" \in owner
      /\ Busy({"registerSend", "drain", "afterSend"})' = {} /\ Busy({"wsaSend"})' = {}
  <2>1. Work[t] \cap SendSteps # {} /\ Work[t] \cap {"wsaSend"} # {}
    BY <1>2 DEF SendSteps
  <2>2. Busy(SendSteps) = {t}
    BY <2>1, <1>1, AlonePassed DEF IInv, SendTurn, Busy, Alone
  <2>3. registered /\ "send" \in owner
    BY <2>1, <2>2 DEF IInv, SendTurn, Nobody, Busy
  <2>4. \A s \in {"registerSend", "drain", "afterSend", "wsaSend"} : s \notin Work'[t]
    BY <1>2, BelowOf DEF InSend
  <2>5. \A u \in Threads : \A s \in {"registerSend", "drain", "afterSend", "wsaSend"} : s \notin Work'[u]
    <3> SUFFICES ASSUME NEW u \in Threads, u # t
                 PROVE  \A s \in {"registerSend", "drain", "afterSend", "wsaSend"} : s \notin Work'[u]
      BY <2>4
    <3>1. u \notin Busy(SendSteps) /\ Work'[u] = Work[u]
      BY <2>2, <1>2
    <3>2. QED  BY <3>1 DEF Busy, SendSteps
  <2>6. CASE Work'[t] = Work[t] \ {"wsaSend"} /\ pending' = pending \cup {"send"}
    <3>1. Work'[t] \cap SendSteps = {}
      BY <2>6, <1>2 DEF Below, InSend, Steps, SendSteps
    <3>2. Alone(SendSteps, {"send"})'
      BY <2>1, <2>6, <3>1, <1>1, <1>2, AloneStarted DEF IInv, SendTurn
    <3>3. QED  BY <2>3, <2>5, <3>2 DEF Busy
  <2>7. CASE pending' = pending
    <3>1. Alone(SendSteps, {"send"})'
      BY <2>1, <2>7, <1>1, <1>2, AlonePassed DEF IInv, SendTurn
    <3>2. QED  BY <2>3, <2>5, <3>1 DEF Busy
  <2>8. QED  BY <2>6, <2>7, <1>2
<1>5. SendTurn'
  BY <1>1, <1>4 DEF SendTurn
<1>6. ReceiveTurn'
  <2>1. \A u \in Threads : Work'[u] \cap (ConnectSteps \cup RecvSteps) \subseteq Work[u]
    BY <1>2 DEF ConnectSteps, RecvSteps
  <2>2. pending' \cap (Connecting \cup {"recv"}) \subseteq pending /\ completed' = completed
    BY <1>1, <1>2 DEF Connecting
  <2>3. QED  BY <2>1, <2>2, AloneKept DEF IInv, ReceiveTurn
<1>7. DisconnectTurn'
  BY <1>1, <1>2, DisconnectKept DEF ReleaseSteps, Connecting
<1>8. Unpublished'
  <2>1. Published
    BY <1>2, BusyPublished DEF Steps
  <2>2. QED  BY <1>1, <1>2, <2>1, PublishedKept DEF Published, Connecting
<1>9. EventsOwned' /\ NoCrash'
  BY <1>1, <1>2, <1>4 DEF IInv, NoCrash, EventsOwned, Completed
<1>10. InOrder' /\ Way' = Way
  BY <1>1, OrderKept
<1>11. Unbroken'
  <2>1. Broken => Broken'
    BY <1>1, <1>2 DEF Broken
  <2>2. Busy({"sendFailed"})' # {} => Broken'
    <3>1. \A u \in Threads \ {t} : "sendFailed" \in Work'[u] => Broken'
      BY <2>1, <1>2 DEF IInv, Unbroken, Busy
    <3>2. "sendFailed" \in Work'[t] => Broken'
      BY <1>1, <1>2 DEF Broken, Below, InSend, Steps
    <3>3. QED  BY <3>1, <3>2 DEF Busy
  <2>3. /\ AtKernel(Connecting)' = AtKernel(Connecting)
        /\ AtKernel({"send"})' # {} => AtKernel({"send"}) # {} \/ socket # "fresh"
    BY <1>2 DEF AtKernel, Connecting
  <2>4. QED  BY <2>1, <2>2, <2>3, <1>1, <1>2, <1>10 DEF IInv, Unbroken, Broken
<1>12. QED  BY <1>2, <1>3, <1>5, <1>6, <1>7, <1>8, <1>9, <1>10, <1>11 DEF IInv

\* The packets of a send that failed at once are dropped.
LEMMA SendFailedIInv == ASSUME IInv, NEW t \in Threads, SendFailed(t) PROVE IInv'
<1> USE DEF service, args, kernel
<1>1. /\ Does(t, "sendFailed") /\ owner' = owner \ {"send"} /\ sendBuffers' = <<>>
      /\ registered' = FALSE /\ Then(t, <<>>)
      /\ UNCHANGED <<connected, lock, sendQueue, pushed, service, args, kernel, crash>>
  BY DEF SendFailed
<1>2. /\ todo' \in [Threads -> Seq(Steps)] /\ Stacks'
      /\ "sendFailed" \in Work[t] /\ Work[t] \ {"sendFailed"} \subseteq Below["sendFailed"]
      /\ Work'[t] = Work[t] \ {"sendFailed"} /\ \A u \in Threads \ {t} : Work'[u] = Work[u]
  BY <1>1, ThenNothing DEF IInv
<1>3. TypeOK'
  <2>1. Types'
    BY <1>1, <1>2, EmptySeq DEF IInv, TypeOK, Types
  <2>2. Scopes'
    BY <1>1, <1>2, ScopesKept DEF IInv
  <2>3. QED  BY <2>1, <2>2 DEF TypeOK
<1>4. Nobody(SendSteps, {"send"})' /\ AtKernel({"send"}) = {} /\ InPort({"send"}) = {}
  <2>1. /\ Busy(SendSteps)' \subseteq {t} /\ AtKernel({"send"})' = {} /\ InPort({"send"})' = {}
        /\ AtKernel({"send"}) = {} /\ InPort({"send"}) = {}
    BY <1>1, <1>2, AlonePassed DEF IInv, SendTurn, SendSteps
  <2>2. Work'[t] \cap SendSteps = {}
    BY <1>2 DEF Below, InSend, Steps, SendSteps
  <2>3. QED  BY <2>1, <2>2 DEF Nobody, Busy
<1>5. SendTurn'
  <2>1. Busy({"registerSend", "drain", "afterSend"})' = {} /\ Busy({"wsaSend"})' = {}
    BY <1>4 DEF Nobody, Busy, SendSteps
  <2>2. Alone(SendSteps, {"send"})'
    BY <1>4 DEF Nobody, Alone
  <2>3. QED  BY <2>1, <2>2, <1>1, <1>4 DEF SendTurn
<1>6. ReceiveTurn'
  BY <1>1, <1>2, AloneKept DEF IInv, ReceiveTurn, ConnectSteps, RecvSteps
<1>7. DisconnectTurn'
  BY <1>1, <1>2, DisconnectKept DEF ReleaseSteps
<1>8. Unpublished'
  <2>1. Published
    BY <1>2, BusyPublished DEF Steps
  <2>2. QED  BY <1>1, <1>2, <2>1, PublishedKept DEF Published
<1>9. EventsOwned'
  <2>1. "send" \notin pending /\ ~ Completed("send")
    BY <1>4 DEF AtKernel, InPort, Completed
  <2>2. QED  BY <1>1, <2>1 DEF IInv, EventsOwned, Completed
<1>10. InOrder'
  BY <1>1, MiddleLost DEF InFlight
<1>11. Unbroken'
  <2>1. Broken /\ Broken'
    BY <1>1, <1>2 DEF IInv, Unbroken, Busy, Broken
  <2>2. QED  BY <1>1, <1>2, <2>1, ConnectionKept
<1>12. QED  BY <1>1, <1>2, <1>3, <1>5, <1>6, <1>7, <1>8, <1>9, <1>10, <1>11 DEF IInv, NoCrash

\* A send is done: there is nothing to send, or the next one begins under the lock.
LEMMA AfterSendIInv == ASSUME IInv, NEW t \in Threads, AfterSend(t) PROVE IInv'
<1> USE DEF service, args, kernel
<1>1. /\ Does(t, "afterSend") /\ lock = NoThread
      /\ \/ registered' = FALSE /\ Then(t, <<>>) /\ lock' = lock
         \/ lock' = t /\ Then(t, <<"registerSend", "unlock">>) /\ registered' = registered
      /\ UNCHANGED <<connected, sendQueue, sendBuffers, pushed, owner, service, args, kernel, crash>>
  BY DEF AfterSend
<1>2. /\ todo' \in [Threads -> Seq(Steps)] /\ Stacks'
      /\ "afterSend" \in Work[t] /\ Work[t] \ {"afterSend"} \subseteq Below["afterSend"]
      /\ \/ Work'[t] = Work[t] \ {"afterSend"} /\ registered' = FALSE /\ lock' = lock
         \/ /\ Work'[t] = {"registerSend", "unlock"} \cup (Work[t] \ {"afterSend"})
            /\ registered' = registered /\ lock' = t
      /\ \A u \in Threads \ {t} : Work'[u] = Work[u]
  <2>1. CASE registered' = FALSE /\ Then(t, <<>>) /\ lock' = lock
    BY <2>1, <1>1, ThenNothing DEF IInv
  <2>2. CASE lock' = t /\ Then(t, <<"registerSend", "unlock">>) /\ registered' = registered
    <3>1. /\ "registerSend" \in Steps /\ "unlock" \in Steps /\ "unlock" \in Below["registerSend"]
          /\ Below["afterSend"] \subseteq Below["registerSend"]
          /\ Below["afterSend"] \subseteq Below["unlock"]
      BY DEF Steps, Below, InSend
    <3>2. QED  BY <2>2, <3>1, <1>1, ThenTwo DEF IInv
  <2>3. QED  BY <2>1, <2>2, <1>1
<1>3. /\ Work[t] = {"afterSend"}
      /\ \/ Work'[t] = {} /\ registered' = FALSE /\ lock' = lock
         \/ Work'[t] = {"registerSend", "unlock"} /\ registered' = registered /\ lock' = t
  BY <1>2, BelowOf
<1>4. TypeOK'
  <2>1. Types'
    BY <1>1, <1>2 DEF IInv, TypeOK, Types
  <2>2. ScopesOfWork'
    <3>1. ScopesOfWork
      BY ScopesByWork DEF IInv, TypeOK
    <3>2. \A u \in Threads : "unlock" \notin Work[u]
      BY <3>1, <1>1, SessionAssumption DEF ScopesOfWork
    <3>3. \A u \in Threads : lock' = u <=> "unlock" \in Work'[u]
      BY <3>2, <1>1, <1>2, <1>3, SessionAssumption
    <3>4. \A u \in Threads : \A s \in {"push", "serviceUnlock"} : s \in Work'[u] <=> s \in Work[u]
      BY <1>2, <1>3
    <3>5. serviceLock' = serviceLock /\ arg' = arg
      BY <1>1
    <3>6. QED  BY <3>1, <3>3, <3>4, <3>5 DEF ScopesOfWork
  <2>3. QED  BY <2>1, <2>2, ScopesByWork DEF TypeOK
<1>5. SendTurn'
  <2>1. /\ Alone(SendSteps, {"send"})' /\ Busy(SendSteps)' \subseteq {t}
        /\ Busy(SendSteps) = {t} /\ AtKernel({"send"})' = {} /\ InPort({"send"})' = {}
    BY <1>1, <1>2, AlonePassed DEF IInv, SendTurn, SendSteps
  <2>2. registered /\ "send" \notin owner /\ sendBuffers = <<>>
    BY <2>1, <1>2 DEF IInv, SendTurn, Nobody, Busy
  <2>3. Busy({"wsaSend"})' = {}
    <3>1. "wsaSend" \notin Work'[t]
      BY <1>3
    <3>2. \A u \in Threads \ {t} : "wsaSend" \notin Work'[u]
      BY <2>1 DEF Busy, SendSteps
    <3>3. QED  BY <3>1, <3>2 DEF Busy
  <2>4. ~ registered' => Busy(SendSteps)' = {}
    <3>1. ~ registered' => t \notin Busy(SendSteps)'
      BY <2>2, <1>3 DEF Busy
    <3>2. QED  BY <2>1, <3>1
  <2>5. QED  BY <2>1, <2>2, <2>3, <2>4, <1>1 DEF SendTurn, Nobody
<1>6. ReceiveTurn'
  BY <1>1, <1>2, AloneKept DEF IInv, ReceiveTurn, ConnectSteps, RecvSteps
<1>7. DisconnectTurn'
  BY <1>1, <1>2, DisconnectKept DEF ReleaseSteps
<1>8. Unpublished'
  <2>1. Published
    BY <1>2, BusyPublished DEF Steps
  <2>2. QED  BY <1>1, <1>2, <2>1, PublishedKept DEF Published
<1>9. EventsOwned' /\ InOrder' /\ Unbroken' /\ NoCrash'
  BY <1>1, <1>2, OwnedKept, UnbrokenKept DEF IInv, NoCrash
<1>10. QED  BY <1>2, <1>4, <1>5, <1>6, <1>7, <1>8, <1>9 DEF IInv

\* The end of a scope with the session's lock.
LEMMA UnlockIInv == ASSUME IInv, NEW t \in Threads, Unlock(t) PROVE IInv'
<1> USE DEF service, args, kernel
<1>1. /\ Does(t, "unlock") /\ lock' = NoThread /\ Then(t, <<>>)
      /\ UNCHANGED <<connected, sendQueue, registered, sendBuffers, pushed, owner, service, args,
                     kernel, crash>>
  BY DEF Unlock
<1>2. /\ todo' \in [Threads -> Seq(Steps)] /\ Stacks'
      /\ "unlock" \in Work[t] /\ Work[t] \ {"unlock"} \subseteq Below["unlock"]
      /\ Work'[t] = Work[t] \ {"unlock"} /\ \A u \in Threads \ {t} : Work'[u] = Work[u]
  BY <1>1, ThenNothing DEF IInv
<1>3. TypeOK'
  <2>1. Types'
    BY <1>1, <1>2 DEF IInv, TypeOK, Types
  <2>2. ScopesOfWork'
    BY <1>1, <1>2, ScopesByWork, SessionAssumption DEF ScopesOfWork, IInv, TypeOK
  <2>3. QED  BY <2>1, <2>2, ScopesByWork DEF TypeOK
<1>4. SendTurn'
  BY <1>1, <1>2, SendKept DEF SendSteps
<1>5. ReceiveTurn'
  BY <1>1, <1>2, AloneKept DEF IInv, ReceiveTurn, ConnectSteps, RecvSteps
<1>6. DisconnectTurn'
  BY <1>1, <1>2, DisconnectKept DEF ReleaseSteps
<1>7. Unpublished'
  <2>1. Published
    BY <1>2, BusyPublished DEF Steps
  <2>2. QED  BY <1>1, <1>2, <2>1, PublishedKept DEF Published
<1>8. EventsOwned' /\ InOrder' /\ Unbroken' /\ NoCrash'
  BY <1>1, <1>2, OwnedKept, UnbrokenKept DEF IInv, NoCrash
<1>9. QED  BY <1>2, <1>3, <1>4, <1>5, <1>6, <1>7, <1>8 DEF IInv
-----------------------------------------------------------------------------
(* Connecting *)

\* A worker makes the connection.
LEMMA ProcessConnectIInv == ASSUME IInv, NEW t \in Threads, ProcessConnect(t) PROVE IInv'
<1> USE DEF sending, service, args, kernel
<1>1. /\ Does(t, "processConnect") /\ connected' = TRUE
      /\ Then(t, <<"addSession", "onConnected", "registerRecv">>)
      /\ UNCHANGED <<sending, owner, service, args, kernel, crash>>
  BY DEF ProcessConnect
<1>2. /\ todo' \in [Threads -> Seq(Steps)] /\ Stacks'
      /\ Work[t] = {"processConnect"} /\ Work'[t] = {"addSession", "onConnected", "registerRecv"}
      /\ \A u \in Threads \ {t} : Work'[u] = Work[u]
  <2> DEFINE p == <<"addSession", "onConnected", "registerRecv">>
  <2>1. p \in Seq(Steps) /\ Stacked(p) /\ Range(p) = {"addSession", "onConnected", "registerRecv"}
    <3>1. /\ "addSession" \in Steps /\ "onConnected" \in Steps /\ "registerRecv" \in Steps
          /\ "onConnected" \in Below["addSession"] /\ "registerRecv" \in Below["addSession"]
          /\ "registerRecv" \in Below["onConnected"]
      BY BelowOf DEF Steps
    <3>2. QED  BY <3>1, StacksOfSteps, RangeOf
  <2>2. \A s \in Range(p) : Below["processConnect"] \subseteq Below[s]
    BY BelowOf
  <2> HIDE DEF p
  <2>3. Then(t, p)
    BY <1>1 DEF p
  <2>4. /\ todo' \in [Threads -> Seq(Steps)] /\ Stacks'
        /\ "processConnect" \in Work[t] /\ Work[t] \ {"processConnect"} \subseteq Below["processConnect"]
        /\ Work'[t] = Range(p) \cup (Work[t] \ {"processConnect"})
        /\ \A u \in Threads \ {t} : Work'[u] = Work[u]
    BY <2>1, <2>2, <2>3, <1>1, ThenWork DEF IInv
  <2>5. QED  BY <2>1, <2>4, BelowOf
<1>3. TypeOK'
  <2>1. Types'
    BY <1>1, <1>2 DEF IInv, TypeOK, Types
  <2>2. Scopes'
    BY <1>1, <1>2, ScopesKept DEF IInv
  <2>3. QED  BY <2>1, <2>2 DEF TypeOK
<1>4. ~ Published
  BY <1>2 DEF IInv, Unpublished, Nobody, Busy
<1>5. SendTurn'
  BY <1>1, <1>2, SendKept DEF SendSteps
<1>6. ReceiveTurn'
  BY <1>1, <1>2, AlonePassed DEF IInv, ReceiveTurn, ConnectSteps, RecvSteps
<1>7. DisconnectTurn'
  <2>1. /\ Busy(ReleaseSteps \cup {"processConnect"})' \subseteq {t}
        /\ AtKernel(Connecting \cup {"disconnect"})' = {} /\ InPort(Connecting \cup {"disconnect"})' = {}
    <3>1. Work[t] \cap (ReleaseSteps \cup {"processConnect"}) # {}
      BY <1>2
    <3>2. \A u \in Threads \ {t} : Work'[u] \cap (ReleaseSteps \cup {"processConnect"}) \subseteq Work[u]
      BY <1>2
    <3>3. /\ pending' \cap (Connecting \cup {"disconnect"}) \subseteq pending
          /\ \A c \in completed' : c[1] \in Connecting \cup {"disconnect"} => c \in completed
      BY <1>1
    <3>4. Alone(ReleaseSteps \cup {"processConnect"}, Connecting \cup {"disconnect"})
      BY DEF IInv, DisconnectTurn
    <3>5. QED  BY <3>1, <3>2, <3>3, <3>4, AlonePassed
  <2>2. \A u \in Threads : Work'[u] \cap (ReleaseSteps \cup {"processConnect"}) = {}
    BY <2>1, <1>2 DEF Busy, ReleaseSteps
  <2>3. Nobody(ReleaseSteps \cup {"processConnect"}, Connecting \cup {"disconnect"})'
    BY <2>1, <2>2 DEF Nobody, Busy
  <2>4. Nobody(ReleaseSteps, {"disconnect"})'
    BY <2>1, <2>2 DEF Nobody, Busy, AtKernel, InPort
  <2>5. onDisconnected' = 0
    <3>1. onDisconnected \in Nat
      BY DEF IInv, TypeOK, Types
    <3>2. QED  BY <3>1, <1>1, <1>4 DEF Published
  <2>6. QED  BY <2>2, <2>3, <2>4, <2>5 DEF DisconnectTurn, Nobody, Alone, ReleaseSteps
<1>8. Unpublished'
  <2>1. ~ Published'
    BY <1>1, <1>4 DEF Published
  <2>2. t \in Busy({"addSession"})'
    BY <1>2 DEF Busy
  <2>3. QED  BY <2>1, <2>2, <1>1, <1>2, <1>4 DEF IInv, Unpublished, ConnectSteps, InPort
<1>9. EventsOwned' /\ InOrder' /\ Unbroken' /\ NoCrash'
  <2>1. \A u \in Threads : "sendFailed" \in Work'[u] => "sendFailed" \in Work[u]
    BY <1>2
  <2>2. UNCHANGED <<owner, failed, pending, completed, socket, wire, crash>>
    BY <1>1
  <2>3. UNCHANGED <<sendBuffers, sendQueue, pushed>>
    BY <1>1
  <2>4. EventsOwned' /\ NoCrash'
    BY <2>2, OwnedKept DEF IInv, NoCrash
  <2>5. QED  BY <2>1, <2>2, <2>3, <2>4, UnbrokenKept
<1>10. QED  BY <1>2, <1>3, <1>5, <1>6, <1>7, <1>8, <1>9 DEF IInv

\* The session gets into its service.
LEMMA AddSessionIInv == ASSUME IInv, NEW t \in Threads, AddSession(t) PROVE IInv'
<1> USE DEF sending, args, kernel
<1>1. /\ Does(t, "addSession") /\ inSessions' = TRUE /\ Then(t, <<>>)
      /\ UNCHANGED <<connected, sending, owner, serviceLock, onDisconnected, args, kernel, crash>>
  BY DEF AddSession
<1>2. /\ todo' \in [Threads -> Seq(Steps)] /\ Stacks'
      /\ "addSession" \in Work[t] /\ Work[t] \ {"addSession"} \subseteq Below["addSession"]
      /\ Work'[t] = Work[t] \ {"addSession"} /\ \A u \in Threads \ {t} : Work'[u] = Work[u]
  BY <1>1, ThenNothing DEF IInv
<1>3. TypeOK'
  <2>1. Types'
    BY <1>1, <1>2 DEF IInv, TypeOK, Types
  <2>2. Scopes'
    BY <1>1, <1>2, ScopesKept DEF IInv
  <2>3. QED  BY <2>1, <2>2 DEF TypeOK
<1>4. SendTurn'
  BY <1>1, <1>2, SendKept DEF SendSteps
<1>5. ReceiveTurn'
  BY <1>1, <1>2, AloneKept DEF IInv, ReceiveTurn, ConnectSteps, RecvSteps
<1>6. DisconnectTurn'
  BY <1>1, <1>2, DisconnectKept DEF ReleaseSteps
<1>7. Unpublished'
  <2>1. /\ Busy(ConnectSteps \cup RecvSteps)' \subseteq {t}
        /\ AtKernel(Connecting \cup {"recv"})' = {} /\ InPort(Connecting \cup {"recv"})' = {}
    <3>1. Work[t] \cap (ConnectSteps \cup RecvSteps) # {}
      BY <1>2 DEF ConnectSteps
    <3>2. \A u \in Threads \ {t} : Work'[u] \cap (ConnectSteps \cup RecvSteps) \subseteq Work[u]
      BY <1>2
    <3>3. /\ pending' \cap (Connecting \cup {"recv"}) \subseteq pending
          /\ \A c \in completed' : c[1] \in Connecting \cup {"recv"} => c \in completed
      BY <1>1
    <3>4. Alone(ConnectSteps \cup RecvSteps, Connecting \cup {"recv"})
      BY DEF IInv, ReceiveTurn
    <3>5. QED  BY <3>1, <3>2, <3>3, <3>4, AlonePassed
  <2>2. "addSession" \notin Work'[t] /\ "processConnect" \notin Work'[t]
    BY <1>2, BelowOf
  <2>3. Busy({"processConnect", "addSession"})' = {}
    BY <2>1, <2>2 DEF Busy, ConnectSteps
  <2>4. Nobody({"processConnect", "addSession"}, Connecting)'
    BY <2>1, <2>3 DEF Nobody, AtKernel, InPort
  <2>5. QED  BY <2>4, <1>1 DEF Unpublished, Published
<1>8. EventsOwned' /\ InOrder' /\ Unbroken' /\ NoCrash'
  BY <1>1, <1>2, OwnedKept, UnbrokenKept DEF IInv, NoCrash
<1>9. QED  BY <1>2, <1>3, <1>4, <1>5, <1>6, <1>7, <1>8 DEF IInv

\* A handler returns, disconnects the session, or sends on it.
LEMMA HandleIInv == ASSUME IInv, NEW t \in Threads, Handle(t) PROVE IInv'
<1> USE DEF sending, service, kernel
<1>1. PICK h \in {"onConnected", "onRecv"} :
        /\ Does(t, h)
        /\ \/ Then(t, <<>>) /\ UNCHANGED <<arg, made>>
           \/ h = "onRecv" /\ Then(t, <<"disconnect">>) /\ UNCHANGED <<arg, made>>
           \/ Send(t) /\ todo' = [todo EXCEPT ![t] = <<"push">> \o todo[t]]
  BY DEF Handle
<1>2. UNCHANGED <<connected, sending, owner, service, kernel, crash>>
  BY DEF Handle
<1>3. /\ todo' \in [Threads -> Seq(Steps)] /\ Stacks'
      /\ h \in Work[t] /\ Work[t] \ {h} \subseteq Below[h]
      /\ \/ Work'[t] = Work[t] \ {h} /\ UNCHANGED <<arg, made>>
         \/ Work'[t] = {"disconnect"} \cup (Work[t] \ {h}) /\ UNCHANGED <<arg, made>>
         \/ Work'[t] = {"push"} \cup Work[t] /\ Send(t)
      /\ \A u \in Threads \ {t} : Work'[u] = Work[u]
  <2>1. CASE Then(t, <<>>) /\ UNCHANGED <<arg, made>>
    BY <2>1, <1>1, ThenNothing DEF IInv
  <2>2. CASE Then(t, <<"disconnect">>) /\ UNCHANGED <<arg, made>>
    <3>1. "disconnect" \in Steps /\ Below[h] \subseteq Below["disconnect"]
      BY BelowOf DEF Steps, InSend
    <3>2. QED  BY <2>2, <3>1, <1>1, ThenOne DEF IInv
  <2>3. CASE Send(t) /\ todo' = [todo EXCEPT ![t] = <<"push">> \o todo[t]]
    <3>1. /\ todo \in [Threads -> Seq(Steps)] /\ todo[t] \in Seq(Steps) /\ Stacked(todo[t])
          /\ todo[t] # <<>> /\ h = Head(todo[t])
      BY <1>1 DEF IInv, TypeOK, Types, Stacks, Does
    <3>2. /\ h \in Range(todo[t]) /\ Range(Tail(todo[t])) = Range(todo[t]) \ {h}
          /\ Range(Tail(todo[t])) \subseteq Below[h]
      BY <3>1, TopOf
    <3>3. Range(todo[t]) \subseteq Below["push"]
      BY <3>2, BelowOf
    <3>4. <<"push">> \in Seq(Steps) /\ Stacked(<<"push">>) /\ Range(<<"push">>) = {"push"}
      <4>1. "push" \in Steps
        BY DEF Steps
      <4>2. QED  BY <4>1, StacksOfSteps, RangeOf
    <3>5. \A s \in Range(<<"push">>) : Range(todo[t]) \subseteq Below[s]
      BY <3>3, <3>4
    <3>6. /\ <<"push">> \o todo[t] \in Seq(Steps) /\ Stacked(<<"push">> \o todo[t])
          /\ Range(<<"push">> \o todo[t]) = Range(<<"push">>) \cup Range(todo[t])
      BY <3>1, <3>4, <3>5, StackOnto
    <3>7. todo' \in [Threads -> Seq(Steps)] /\ Stacks'
      BY <2>3, <3>1, <3>6 DEF IInv, Stacks
    <3>8. /\ Work[t] = Range(todo[t]) /\ Work'[t] = {"push"} \cup Work[t]
          /\ \A u \in Threads \ {t} : Work'[u] = Work[u]
      BY <2>3, <3>1, <3>4, <3>6 DEF Work
    <3>9. QED  BY <2>3, <3>2, <3>7, <3>8
  <2>4. QED  BY <2>1, <2>2, <2>3, <1>1
<1>4. Work[t] \subseteq {h, "registerRecv"}
  BY <1>3, BelowOf
<1>5. TypeOK'
  <2>1. CASE /\ Work'[t] = Work[t] \ {h} \/ Work'[t] = {"disconnect"} \cup (Work[t] \ {h})
             /\ UNCHANGED <<arg, made>>
    <3>1. \A s \in {"push", "unlock", "serviceUnlock"} : s \in Work'[t] <=> s \in Work[t]
      BY <2>1, <1>4
    <3>2. Types'
      BY <2>1, <1>2, <1>3 DEF IInv, TypeOK, Types
    <3>3. Scopes'
      BY <2>1, <3>1, <1>2, <1>3, ScopesKept DEF IInv
    <3>4. QED  BY <3>2, <3>3 DEF TypeOK
  <2>2. CASE Send(t) /\ Work'[t] = {"push"} \cup Work[t]
    <3>1. /\ made' \in Packets /\ made' \in 0 .. MaxPackets /\ NoPacket \notin Packets
          /\ arg' \in [Threads -> Packets \cup {NoPacket}] /\ arg'[t] = made'
          /\ \A u \in Threads \ {t} : arg'[u] = arg[u]
      BY <2>2, SendMakes DEF IInv
    <3>2. Types'
      BY <3>1, <1>2, <1>3 DEF IInv, TypeOK, Types
    <3>3. ScopesOfWork'
      BY <2>2, <3>1, <1>2, <1>3, ScopesByWork DEF ScopesOfWork, IInv, TypeOK
    <3>4. QED  BY <3>2, <3>3, ScopesByWork DEF TypeOK
  <2>3. QED  BY <2>1, <2>2, <1>3
<1>6. SendTurn'
  BY <1>2, <1>3, SendKept DEF SendSteps
<1>7. ReceiveTurn'
  <2>1. \A u \in Threads : Work'[u] \cap (ConnectSteps \cup RecvSteps) \subseteq Work[u]
    BY <1>3 DEF ConnectSteps, RecvSteps
  <2>2. QED  BY <2>1, <1>2, AloneKept DEF IInv, ReceiveTurn
<1>8. DisconnectTurn'
  <2>1. \A u \in Threads : \A s \in ReleaseSteps \cup {"processConnect"} :
          s \in Work'[u] <=> s \in Work[u]
    BY <1>3 DEF ReleaseSteps
  <2>2. QED  BY <2>1, <1>2, DisconnectKept
<1>9. Unpublished'
  <2>1. Published
    BY <1>3, BusyPublished DEF Steps
  <2>2. QED  BY <1>2, <1>3, <2>1, PublishedKept DEF Published
<1>10. EventsOwned' /\ InOrder' /\ Unbroken' /\ NoCrash'
  BY <1>2, <1>3, OwnedKept, UnbrokenKept DEF IInv, NoCrash
<1>11. QED  BY <1>3, <1>5, <1>6, <1>7, <1>8, <1>9, <1>10 DEF IInv
-----------------------------------------------------------------------------
(* Receiving *)

\* The turn to receive is with the thread that has it, which passes it on.
LEMMA ReceivePassed ==
  ASSUME IInv, NEW t \in Threads, Work[t] \cap RecvSteps # {}, UNCHANGED <<pending, completed>>,
         \A u \in Threads \ {t} : Work'[u] = Work[u]
  PROVE  ReceiveTurn' /\ "recv" \notin pending /\ ~ Completed("recv")
<1>1. Work[t] \cap (ConnectSteps \cup RecvSteps) # {}
  OBVIOUS
<1>2. \A u \in Threads \ {t} : Work'[u] \cap (ConnectSteps \cup RecvSteps) \subseteq Work[u]
  OBVIOUS
<1>3. /\ pending' \cap (Connecting \cup {"recv"}) \subseteq pending
      /\ \A c \in completed' : c[1] \in Connecting \cup {"recv"} => c \in completed
  OBVIOUS
<1>4. Alone(ConnectSteps \cup RecvSteps, Connecting \cup {"recv"})
  BY DEF IInv, ReceiveTurn
<1>5. Alone(ConnectSteps \cup RecvSteps, Connecting \cup {"recv"})'
  BY <1>1, <1>2, <1>3, <1>4, AlonePassed
<1>6. t \in Busy(ConnectSteps \cup RecvSteps)
  BY <1>1 DEF Busy
<1>7. AtKernel(Connecting \cup {"recv"}) = {} /\ InPort(Connecting \cup {"recv"}) = {}
  BY <1>4, <1>6 DEF Alone
<1>8. "recv" \notin pending /\ ~ Completed("recv")
  BY <1>7 DEF AtKernel, InPort, Completed
<1>9. QED  BY <1>5, <1>8 DEF ReceiveTurn

\* RegisterRecv finds the session connected or not.
LEMMA RegisterRecvIInv == ASSUME IInv, NEW t \in Threads, RegisterRecv(t) PROVE IInv'
<1> USE DEF sending, service, args, kernel
<1>1. /\ Does(t, "registerRecv") /\ Then(t, IF connected THEN <<"wsaRecv">> ELSE <<>>)
      /\ UNCHANGED <<connected, sending, owner, service, args, kernel, crash>>
  BY DEF RegisterRecv
<1>2. /\ todo' \in [Threads -> Seq(Steps)] /\ Stacks'
      /\ Work[t] = {"registerRecv"}
      /\ Work'[t] = {} \/ Work'[t] = {"wsaRecv"}
      /\ \A u \in Threads \ {t} : Work'[u] = Work[u]
  <2>1. CASE ~ connected
    BY <2>1, <1>1, ThenNothing, BelowOf DEF IInv
  <2>2. CASE connected
    <3>1. "wsaRecv" \in Steps /\ Below["registerRecv"] \subseteq Below["wsaRecv"]
      BY BelowOf DEF Steps
    <3>2. QED  BY <2>2, <3>1, <1>1, ThenOne, BelowOf DEF IInv
  <2>3. QED  BY <2>1, <2>2 DEF IInv, TypeOK, Types
<1>3. TypeOK'
  <2>1. Types'
    BY <1>1, <1>2 DEF IInv, TypeOK, Types
  <2>2. Scopes'
    BY <1>1, <1>2, ScopesKept DEF IInv
  <2>3. QED  BY <2>1, <2>2 DEF TypeOK
<1>4. SendTurn'
  BY <1>1, <1>2, SendKept DEF SendSteps
<1>5. ReceiveTurn'
  <2>1. Work[t] \cap RecvSteps # {}
    BY <1>2 DEF RecvSteps
  <2>2. QED  BY <2>1, <1>1, <1>2, ReceivePassed
<1>6. DisconnectTurn'
  BY <1>1, <1>2, DisconnectKept DEF ReleaseSteps
<1>7. Unpublished'
  <2>1. Published
    BY <1>2, AlreadyPublished
  <2>2. QED  BY <1>1, <1>2, <2>1, PublishedKept DEF Published
<1>8. EventsOwned' /\ InOrder' /\ Unbroken' /\ NoCrash'
  BY <1>1, <1>2, OwnedKept, UnbrokenKept DEF IInv, NoCrash
<1>9. QED  BY <1>2, <1>3, <1>4, <1>5, <1>6, <1>7, <1>8 DEF IInv

\* WSARecv starts, finds the connection reset, or fails otherwise.
LEMMA WsaRecvIInv == ASSUME IInv, NEW t \in Threads, WsaRecv(t) PROVE IInv'
<1> USE DEF sending, service, args
<1>1. /\ Does(t, "wsaRecv") /\ owner' = owner \cup {"recv"}
      /\ \/ socket # "fresh" /\ pending' = pending \cup {"recv"} /\ Then(t, <<>>) /\ failed' = failed
         \/ Then(t, <<"disconnect", "recvFailed">>) /\ pending' = pending /\ failed' = failed
         \/ Then(t, <<"recvFailed">>) /\ pending' = pending /\ failed' = failed \cup {"recv"}
      /\ UNCHANGED <<connected, sending, service, args, socket, completed, wire, crash>>
  BY DEF WsaRecv
<1>2. /\ todo' \in [Threads -> Seq(Steps)] /\ Stacks'
      /\ Work[t] = {"wsaRecv"}
      /\ \/ Work'[t] = {} /\ pending' = pending \cup {"recv"}
         \/ Work'[t] = {"disconnect", "recvFailed"} /\ pending' = pending
         \/ Work'[t] = {"recvFailed"} /\ pending' = pending
      /\ \A u \in Threads \ {t} : Work'[u] = Work[u]
  <2>1. CASE pending' = pending \cup {"recv"} /\ Then(t, <<>>)
    <3>1. /\ todo' \in [Threads -> Seq(Steps)] /\ Stacks'
          /\ "wsaRecv" \in Work[t] /\ Work[t] \ {"wsaRecv"} \subseteq Below["wsaRecv"]
          /\ Work'[t] = Work[t] \ {"wsaRecv"} /\ \A u \in Threads \ {t} : Work'[u] = Work[u]
      BY <2>1, <1>1, ThenNothing DEF IInv
    <3>2. QED  BY <2>1, <3>1, BelowOf
  <2>2. CASE Then(t, <<"disconnect", "recvFailed">>) /\ pending' = pending
    <3>1. /\ "disconnect" \in Steps /\ "recvFailed" \in Steps /\ "recvFailed" \in Below["disconnect"]
          /\ Below["wsaRecv"] \subseteq Below["disconnect"]
          /\ Below["wsaRecv"] \subseteq Below["recvFailed"]
      BY BelowOf DEF Steps
    <3>2. QED  BY <2>2, <3>1, <1>1, ThenTwo, BelowOf DEF IInv
  <2>3. CASE Then(t, <<"recvFailed">>) /\ pending' = pending
    <3>1. "recvFailed" \in Steps /\ Below["wsaRecv"] \subseteq Below["recvFailed"]
      BY BelowOf DEF Steps
    <3>2. QED  BY <2>3, <3>1, <1>1, ThenOne, BelowOf DEF IInv
  <2>4. QED  BY <2>1, <2>2, <2>3, <1>1
<1>3. failed \subseteq failed' /\ failed' \subseteq failed \cup {"recv"}
  BY <1>1
<1>4. TypeOK'
  <2>1. Types'
    BY <1>1, <1>2, <1>3 DEF IInv, TypeOK, Types, Events
  <2>2. Scopes'
    BY <1>1, <1>2, ScopesKept DEF IInv
  <2>3. QED  BY <2>1, <2>2 DEF TypeOK
<1>5. SendTurn'
  <2>1. /\ \A u \in Threads : Work'[u] \cap SendSteps \subseteq Work[u]
        /\ pending' \cap {"send"} \subseteq pending
    BY <1>2 DEF SendSteps
  <2>2. QED  BY <2>1, <1>1, SendKept
<1>6. ReceiveTurn'
  <2>1. Work[t] \cap (ConnectSteps \cup RecvSteps) # {}
    BY <1>2 DEF RecvSteps
  <2>2. \A u \in Threads \ {t} : Work'[u] \cap (ConnectSteps \cup RecvSteps) \subseteq Work[u]
    BY <1>2
  <2>3. \A c \in completed' : c[1] \in Connecting \cup {"recv"} => c \in completed
    BY <1>1
  <2>4. Alone(ConnectSteps \cup RecvSteps, Connecting \cup {"recv"})
    BY DEF IInv, ReceiveTurn
  <2>5. CASE Work'[t] = {} /\ pending' = pending \cup {"recv"}
    <3>1. /\ Work'[t] \cap (ConnectSteps \cup RecvSteps) = {}
          /\ pending' \cap (Connecting \cup {"recv"}) \subseteq pending \cup {"recv"}
      BY <2>5
    <3>2. QED  BY <2>1, <2>2, <2>3, <2>4, <3>1, AloneStarted DEF ReceiveTurn
  <2>6. CASE pending' = pending
    <3>1. pending' \cap (Connecting \cup {"recv"}) \subseteq pending
      BY <2>6
    <3>2. QED  BY <2>1, <2>2, <2>3, <2>4, <3>1, AlonePassed DEF ReceiveTurn
  <2>7. QED  BY <2>5, <2>6, <1>2
<1>7. DisconnectTurn'
  <2>1. /\ \A u \in Threads : \A s \in ReleaseSteps \cup {"processConnect"} :
             s \in Work'[u] <=> s \in Work[u]
        /\ pending' \cap (Connecting \cup {"disconnect"}) \subseteq pending
    BY <1>2 DEF ReleaseSteps, Connecting
  <2>2. QED  BY <2>1, <1>1, DisconnectKept
<1>8. Unpublished'
  <2>1. Published
    BY <1>2, AlreadyPublished
  <2>2. pending' \cap Connecting \subseteq pending
    BY <1>2 DEF Connecting
  <2>3. QED  BY <1>1, <1>2, <2>1, <2>2, PublishedKept DEF Published
<1>9. EventsOwned' /\ NoCrash'
  BY <1>1, <1>2, <1>3 DEF IInv, NoCrash, EventsOwned, Completed
<1>10. InOrder' /\ Unbroken'
  <2>1. pending' \cap (Connecting \cup {"send"}) \subseteq pending
    BY <1>2 DEF Connecting
  <2>2. \A u \in Threads : "sendFailed" \in Work'[u] => "sendFailed" \in Work[u]
    BY <1>2
  <2>3. QED  BY <2>1, <2>2, <1>1, <1>3, UnbrokenKept
<1>11. QED  BY <1>2, <1>4, <1>5, <1>6, <1>7, <1>8, <1>9, <1>10 DEF IInv

\* The event of a receive that failed at once loses its owner.
LEMMA RecvFailedIInv == ASSUME IInv, NEW t \in Threads, RecvFailed(t) PROVE IInv'
<1> USE DEF sending, service, args, kernel
<1>1. /\ Does(t, "recvFailed") /\ owner' = owner \ {"recv"} /\ Then(t, <<>>)
      /\ UNCHANGED <<connected, sending, service, args, kernel, crash>>
  BY DEF RecvFailed
<1>2. /\ todo' \in [Threads -> Seq(Steps)] /\ Stacks'
      /\ Work[t] = {"recvFailed"} /\ Work'[t] = {} /\ \A u \in Threads \ {t} : Work'[u] = Work[u]
  BY <1>1, ThenNothing, BelowOf DEF IInv
<1>3. TypeOK'
  <2>1. Types'
    BY <1>1, <1>2 DEF IInv, TypeOK, Types
  <2>2. Scopes'
    BY <1>1, <1>2, ScopesKept DEF IInv
  <2>3. QED  BY <2>1, <2>2 DEF TypeOK
<1>4. SendTurn'
  <2>1. "send" \in owner' <=> "send" \in owner
    BY <1>1
  <2>2. QED  BY <1>1, <1>2, <2>1, SendKept DEF SendSteps
<1>5. ReceiveTurn' /\ "recv" \notin pending /\ ~ Completed("recv")
  <2>1. Work[t] \cap RecvSteps # {}
    BY <1>2 DEF RecvSteps
  <2>2. QED  BY <2>1, <1>1, <1>2, ReceivePassed
<1>6. DisconnectTurn'
  BY <1>1, <1>2, DisconnectKept DEF ReleaseSteps
<1>7. Unpublished'
  <2>1. Published
    BY <1>2, AlreadyPublished
  <2>2. QED  BY <1>1, <1>2, <2>1, PublishedKept DEF Published
<1>8. EventsOwned'
  BY <1>1, <1>5 DEF IInv, EventsOwned, Completed
<1>9. InOrder' /\ Unbroken' /\ NoCrash'
  BY <1>1, <1>2, UnbrokenKept DEF IInv, NoCrash
<1>10. QED  BY <1>2, <1>3, <1>4, <1>5, <1>6, <1>7, <1>8, <1>9 DEF IInv
-----------------------------------------------------------------------------
(* Disconnecting *)

\* A thread that has the turn to disconnect.
LEMMA ReleaseHeld ==
  ASSUME IInv, NEW t \in Threads, Work[t] \cap ReleaseSteps # {}
  PROVE  /\ ~ connected /\ inSessions /\ Busy(ReleaseSteps \cup {"processConnect"}) = {t}
         /\ AtKernel(Connecting \cup {"disconnect"}) = {} /\ InPort(Connecting \cup {"disconnect"}) = {}
         /\ Work[t] \cap {"registerDisconnect", "onDisconnected"} # {} => onDisconnected = 0
<1>1. t \in Busy(ReleaseSteps \cup {"processConnect"}) /\ t \in Busy(ReleaseSteps)
  BY DEF Busy
<1>2. DisconnectTurn
  BY DEF IInv
<1>3. ~ connected /\ inSessions
  BY <1>1, <1>2 DEF DisconnectTurn, Nobody
<1>4. /\ Busy(ReleaseSteps \cup {"processConnect"}) = {t}
      /\ AtKernel(Connecting \cup {"disconnect"}) = {} /\ InPort(Connecting \cup {"disconnect"}) = {}
  BY <1>1, <1>2 DEF DisconnectTurn, Alone
<1>5. ASSUME Work[t] \cap {"registerDisconnect", "onDisconnected"} # {} PROVE onDisconnected = 0
  <2>1. t \in Busy({"processConnect", "registerDisconnect", "onDisconnected"})
    BY <1>5 DEF Busy
  <2>2. ~ onDisconnected > 0
    BY <2>1, <1>2 DEF DisconnectTurn, Nobody
  <2>3. onDisconnected \in Nat
    BY DEF IInv, TypeOK, Types
  <2>4. QED  BY <2>2, <2>3
<1>6. QED  BY <1>3, <1>4, <1>5

\* One caller of Disconnect goes on.
LEMMA DisconnectIInv == ASSUME IInv, NEW t \in Threads, Disconnect(t) PROVE IInv'
<1> USE DEF sending, service, args, kernel
<1>1. /\ Does(t, "disconnect") /\ connected' = FALSE
      /\ Then(t, IF connected THEN <<"registerDisconnect">> ELSE <<>>)
      /\ UNCHANGED <<sending, owner, service, args, kernel, crash>>
  BY DEF Disconnect
<1>2. /\ todo' \in [Threads -> Seq(Steps)] /\ Stacks'
      /\ "disconnect" \in Work[t] /\ Work[t] \ {"disconnect"} \subseteq Below["disconnect"]
      /\ \/ ~ connected /\ Work'[t] = Work[t] \ {"disconnect"}
         \/ connected /\ Work'[t] = {"registerDisconnect"} \cup (Work[t] \ {"disconnect"})
      /\ \A u \in Threads \ {t} : Work'[u] = Work[u]
  <2>1. CASE ~ connected
    BY <2>1, <1>1, ThenNothing DEF IInv
  <2>2. CASE connected
    <3>1. "registerDisconnect" \in Steps /\ Below["disconnect"] \subseteq Below["registerDisconnect"]
      BY BelowOf DEF Steps
    <3>2. QED  BY <2>2, <3>1, <1>1, ThenOne DEF IInv
  <2>3. QED  BY <2>1, <2>2
<1>3. TypeOK'
  <2>1. Types'
    BY <1>1, <1>2 DEF IInv, TypeOK, Types
  <2>2. Scopes'
    BY <1>1, <1>2, ScopesKept DEF IInv
  <2>3. QED  BY <2>1, <2>2 DEF TypeOK
<1>4. SendTurn'
  BY <1>1, <1>2, SendKept DEF SendSteps
<1>5. ReceiveTurn'
  BY <1>1, <1>2, AloneKept DEF IInv, ReceiveTurn, ConnectSteps, RecvSteps
<1>6. Published
  BY <1>2, BusyPublished DEF Steps
<1>7. DisconnectTurn'
  <2>1. CASE ~ connected
    BY <2>1, <1>1, <1>2, DisconnectKept DEF ReleaseSteps, IInv, TypeOK, Types
  <2>2. CASE connected
    <3>1. /\ Nobody(ReleaseSteps \cup {"processConnect"}, Connecting \cup {"disconnect"})
          /\ ~ onDisconnected > 0
      BY <2>2 DEF IInv, DisconnectTurn
    <3>2. inSessions
      BY <3>1, <1>6 DEF Published
    <3>3. \A u \in Threads \ {t} : Work'[u] \cap (ReleaseSteps \cup {"processConnect"}) \subseteq Work[u]
      BY <1>2
    <3>4. UNCHANGED <<pending, completed, onDisconnected, inSessions>>
      BY <1>1
    <3>5. Alone(ReleaseSteps \cup {"processConnect"}, Connecting \cup {"disconnect"})'
      BY <3>1, <3>3, <3>4, AloneTaken
    <3>6. \A u \in Threads : "releaseSession" \notin Work'[u]
      <4>1. \A u \in Threads : "releaseSession" \notin Work[u]
        BY <3>1 DEF Nobody, Busy, ReleaseSteps
      <4>2. QED  BY <4>1, <1>2
    <3>7. QED  BY <3>1, <3>2, <3>4, <3>5, <3>6, <1>1 DEF DisconnectTurn
  <2>3. QED  BY <2>1, <2>2
<1>8. Unpublished'
  BY <1>1, <1>2, <1>6, PublishedKept DEF Published
<1>9. EventsOwned' /\ InOrder' /\ Unbroken' /\ NoCrash'
  BY <1>1, <1>2, OwnedKept, UnbrokenKept DEF IInv, NoCrash
<1>10. QED  BY <1>2, <1>3, <1>4, <1>5, <1>7, <1>8, <1>9 DEF IInv

\* DisconnectEx starts or fails at once.
LEMMA RegisterDisconnectIInv == ASSUME IInv, NEW t \in Threads, RegisterDisconnect(t) PROVE IInv'
<1> USE DEF sending, service, args
<1>1. /\ Does(t, "registerDisconnect") /\ Then(t, <<>>)
      /\ \/ /\ owner' = owner \cup {"disconnect"} /\ pending' = pending \cup {"disconnect"}
            /\ socket' = "closing" /\ failed' = failed
         \/ /\ owner' = (owner \cup {"disconnect"}) \ {"recv"} /\ pending' = pending
            /\ socket' = socket /\ failed' = failed \cup {"disconnect"}
      /\ UNCHANGED <<connected, sending, service, args, completed, wire, crash>>
  BY DEF RegisterDisconnect
<1>2. /\ todo' \in [Threads -> Seq(Steps)] /\ Stacks'
      /\ "registerDisconnect" \in Work[t]
      /\ Work[t] \ {"registerDisconnect"} \subseteq Below["registerDisconnect"]
      /\ Work'[t] = Work[t] \ {"registerDisconnect"} /\ \A u \in Threads \ {t} : Work'[u] = Work[u]
  BY <1>1, ThenNothing DEF IInv
<1>3. Published
  BY <1>2, BusyPublished DEF Steps
<1>4. /\ ~ connected /\ inSessions /\ Busy(ReleaseSteps \cup {"processConnect"}) = {t}
      /\ AtKernel(Connecting \cup {"disconnect"}) = {} /\ InPort(Connecting \cup {"disconnect"}) = {}
      /\ onDisconnected = 0
  <2>1. /\ Work[t] \cap ReleaseSteps # {}
        /\ Work[t] \cap {"registerDisconnect", "onDisconnected"} # {}
    BY <1>2 DEF ReleaseSteps
  <2>2. QED  BY <2>1, ReleaseHeld
<1>5. /\ pending' \subseteq pending \cup {"disconnect"} /\ completed' = completed
      /\ failed \subseteq failed'
  BY <1>1
<1>6. TypeOK'
  <2>1. Types'
    BY <1>1, <1>2 DEF IInv, TypeOK, Types, Events
  <2>2. Scopes'
    BY <1>1, <1>2, ScopesKept DEF IInv
  <2>3. QED  BY <2>1, <2>2 DEF TypeOK
<1>7. SendTurn'
  <2>1. "send" \in owner' <=> "send" \in owner
    BY <1>1
  <2>2. pending' \cap {"send"} \subseteq pending
    BY <1>5
  <2>3. \A u \in Threads : Work'[u] \cap SendSteps \subseteq Work[u]
    BY <1>2
  <2>4. QED  BY <1>1, <2>1, <2>2, <2>3, SendKept
<1>8. ReceiveTurn'
  <2>1. /\ \A u \in Threads : Work'[u] \cap (ConnectSteps \cup RecvSteps) \subseteq Work[u]
        /\ pending' \cap (Connecting \cup {"recv"}) \subseteq pending
    BY <1>2, <1>5 DEF Connecting
  <2>2. QED  BY <1>5, <2>1, AloneKept DEF IInv, ReceiveTurn
<1>9. DisconnectTurn'
  <2>1. Work'[t] \cap (ReleaseSteps \cup {"processConnect"}) = {}
    BY <1>2, BelowOf DEF InSend, ReleaseSteps
  <2>2. \A u \in Threads : Work'[u] \cap (ReleaseSteps \cup {"processConnect"}) = {}
    <3>1. \A u \in Threads \ {t} : Work[u] \cap (ReleaseSteps \cup {"processConnect"}) = {}
      BY <1>4 DEF Busy
    <3>2. QED  BY <2>1, <3>1, <1>2
  <2>3. Busy(ReleaseSteps \cup {"processConnect"})' = {}
    BY <2>2 DEF Busy
  <2>4. /\ AtKernel(Connecting \cup {"disconnect"})' \subseteq {"disconnect"}
        /\ InPort(Connecting \cup {"disconnect"})' = {}
    BY <1>4, <1>5 DEF AtKernel, InPort
  <2>5. Alone(ReleaseSteps \cup {"processConnect"}, Connecting \cup {"disconnect"})'
    BY <2>3, <2>4 DEF Alone
  <2>6. \A u \in Threads : "releaseSession" \notin Work'[u]
    BY <2>2 DEF ReleaseSteps
  <2>7. UNCHANGED <<connected, inSessions, onDisconnected>>
    BY <1>1
  <2>8. QED  BY <1>4, <2>5, <2>6, <2>7 DEF DisconnectTurn
<1>10. Unpublished'
  <2>1. pending' \cap Connecting \subseteq pending
    BY <1>5 DEF Connecting
  <2>2. QED  BY <1>1, <1>2, <1>3, <2>1, PublishedKept DEF Published
<1>11. EventsOwned' /\ NoCrash'
  BY <1>1 DEF IInv, NoCrash, EventsOwned, Completed
<1>12. InOrder' /\ Way' = Way
  BY <1>1, OrderKept
<1>13. Unbroken'
  <2>1. Broken => Broken'
    BY <1>1 DEF Broken
  <2>2. Busy({"sendFailed"})' \subseteq Busy({"sendFailed"})
    BY <1>2 DEF Busy
  <2>3. AtKernel(Connecting)' = {}
    BY <1>4, <1>5 DEF AtKernel, Connecting
  <2>4. AtKernel({"send"})' \subseteq AtKernel({"send"}) /\ (socket' = "fresh" => socket = "fresh")
    BY <1>1 DEF AtKernel
  <2>5. QED  BY <2>1, <2>2, <2>3, <2>4, <1>1, <1>12 DEF IInv, Unbroken
<1>14. QED  BY <1>2, <1>6, <1>7, <1>8, <1>9, <1>10, <1>11, <1>12, <1>13 DEF IInv

\* The session is told that it is disconnected.
LEMMA OnDisconnectedIInv == ASSUME IInv, NEW t \in Threads, OnDisconnected(t) PROVE IInv'
<1> USE DEF sending, args, kernel
<1>1. /\ Does(t, "onDisconnected") /\ onDisconnected' = onDisconnected + 1 /\ Then(t, <<>>)
      /\ UNCHANGED <<connected, sending, owner, inSessions, serviceLock, args, kernel, crash>>
  BY DEF OnDisconnected
<1>2. /\ todo' \in [Threads -> Seq(Steps)] /\ Stacks'
      /\ "onDisconnected" \in Work[t] /\ Work[t] \subseteq {"onDisconnected", "releaseSession"}
      /\ Work'[t] = Work[t] \ {"onDisconnected"} /\ \A u \in Threads \ {t} : Work'[u] = Work[u]
  BY <1>1, ThenNothing, BelowOf DEF IInv
<1>3. Published
  BY <1>2, AlreadyPublished
<1>4. /\ ~ connected /\ inSessions /\ Busy(ReleaseSteps \cup {"processConnect"}) = {t}
      /\ AtKernel(Connecting \cup {"disconnect"}) = {} /\ InPort(Connecting \cup {"disconnect"}) = {}
      /\ onDisconnected = 0
  <2>1. /\ Work[t] \cap ReleaseSteps # {}
        /\ Work[t] \cap {"registerDisconnect", "onDisconnected"} # {}
    BY <1>2 DEF ReleaseSteps
  <2>2. QED  BY <2>1, ReleaseHeld
<1>5. onDisconnected' = 1 /\ onDisconnected' \in Nat /\ onDisconnected' > 0
  BY <1>1, <1>4
<1>6. TypeOK'
  <2>1. Types'
    BY <1>1, <1>2, <1>5 DEF IInv, TypeOK, Types
  <2>2. Scopes'
    BY <1>1, <1>2, ScopesKept DEF IInv
  <2>3. QED  BY <2>1, <2>2 DEF TypeOK
<1>7. SendTurn'
  BY <1>1, <1>2, SendKept DEF SendSteps
<1>8. ReceiveTurn'
  BY <1>1, <1>2, AloneKept DEF IInv, ReceiveTurn, ConnectSteps, RecvSteps
<1>9. DisconnectTurn'
  <2>1. UNCHANGED <<connected, inSessions, pending, completed>>
    BY <1>1
  <2>2. Busy(ReleaseSteps \cup {"processConnect"})' \subseteq {t}
    <3>1. \A u \in Threads \ {t} : Work[u] \cap (ReleaseSteps \cup {"processConnect"}) = {}
      BY <1>4 DEF Busy
    <3>2. QED  BY <3>1, <1>2 DEF Busy
  <2>3. AtKernel(Connecting \cup {"disconnect"})' = {} /\ InPort(Connecting \cup {"disconnect"})' = {}
    BY <2>1, <1>4 DEF AtKernel, InPort
  <2>4. Alone(ReleaseSteps \cup {"processConnect"}, Connecting \cup {"disconnect"})'
    BY <2>2, <2>3 DEF Alone
  <2>5. Busy({"processConnect", "registerDisconnect", "onDisconnected"})' = {}
    <3>1. Busy({"processConnect", "registerDisconnect", "onDisconnected"})' \subseteq {t}
      BY <2>2 DEF Busy, ReleaseSteps
    <3>2. Work'[t] \cap {"processConnect", "registerDisconnect", "onDisconnected"} = {}
      BY <1>2
    <3>3. QED  BY <3>1, <3>2 DEF Busy
  <2>6. Nobody({"processConnect", "registerDisconnect", "onDisconnected"}, Connecting \cup {"disconnect"})'
    BY <2>3, <2>5 DEF Nobody
  <2>7. QED  BY <2>1, <2>4, <2>6, <1>4, <1>5 DEF DisconnectTurn
<1>10. Unpublished'
  BY <1>1, <1>2, <1>3, <1>5, PublishedKept DEF Published
<1>11. EventsOwned' /\ InOrder' /\ Unbroken' /\ NoCrash'
  BY <1>1, <1>2, OwnedKept, UnbrokenKept DEF IInv, NoCrash
<1>12. QED  BY <1>2, <1>6, <1>7, <1>8, <1>9, <1>10, <1>11 DEF IInv

\* The service lets the session go.
LEMMA ReleaseSessionIInv == ASSUME IInv, NEW t \in Threads, ReleaseSession(t) PROVE IInv'
<1> USE DEF sending, args, kernel
<1>1. /\ Does(t, "releaseSession") /\ Then(t, <<>>)
      /\ inSessions' = FALSE /\ crash' = IF inSessions THEN crash ELSE "ReleaseSession"
      /\ UNCHANGED <<connected, sending, owner, serviceLock, onDisconnected, args, kernel>>
  BY DEF ReleaseSession
<1>2. /\ todo' \in [Threads -> Seq(Steps)] /\ Stacks'
      /\ Work[t] = {"releaseSession"} /\ Work'[t] = {} /\ \A u \in Threads \ {t} : Work'[u] = Work[u]
  BY <1>1, ThenNothing, BelowOf DEF IInv
<1>3. Published
  BY <1>2, AlreadyPublished
<1>4. /\ ~ connected /\ inSessions /\ Busy(ReleaseSteps \cup {"processConnect"}) = {t}
      /\ AtKernel(Connecting \cup {"disconnect"}) = {} /\ InPort(Connecting \cup {"disconnect"}) = {}
      /\ onDisconnected > 0
  <2>1. Work[t] \cap ReleaseSteps # {}
    BY <1>2 DEF ReleaseSteps
  <2>2. onDisconnected > 0
    BY <1>2 DEF IInv, DisconnectTurn
  <2>3. QED  BY <2>1, <2>2, ReleaseHeld
<1>5. crash' = crash
  BY <1>1, <1>4
<1>6. TypeOK'
  <2>1. Types'
    BY <1>1, <1>2, <1>5 DEF IInv, TypeOK, Types
  <2>2. Scopes'
    BY <1>1, <1>2, ScopesKept DEF IInv
  <2>3. QED  BY <2>1, <2>2 DEF TypeOK
<1>7. SendTurn'
  BY <1>1, <1>2, SendKept DEF SendSteps
<1>8. ReceiveTurn'
  BY <1>1, <1>2, AloneKept DEF IInv, ReceiveTurn, ConnectSteps, RecvSteps
<1>9. DisconnectTurn'
  <2>1. UNCHANGED <<connected, onDisconnected, pending, completed>>
    BY <1>1
  <2>2. \A u \in Threads : Work'[u] \cap (ReleaseSteps \cup {"processConnect"}) = {}
    <3>1. \A u \in Threads \ {t} : Work[u] \cap (ReleaseSteps \cup {"processConnect"}) = {}
      BY <1>4 DEF Busy
    <3>2. QED  BY <3>1, <1>2
  <2>3. /\ Busy(ReleaseSteps \cup {"processConnect"})' = {} /\ Busy(ReleaseSteps)' = {}
        /\ Busy({"processConnect", "registerDisconnect", "onDisconnected"})' = {}
    BY <2>2 DEF Busy, ReleaseSteps
  <2>4. /\ AtKernel(Connecting \cup {"disconnect"})' = {} /\ InPort(Connecting \cup {"disconnect"})' = {}
        /\ AtKernel({"disconnect"})' = {} /\ InPort({"disconnect"})' = {}
    BY <2>1, <1>4 DEF AtKernel, InPort
  <2>5. Alone(ReleaseSteps \cup {"processConnect"}, Connecting \cup {"disconnect"})'
    BY <2>3, <2>4 DEF Alone
  <2>6. onDisconnected = 1
    BY <1>4 DEF IInv, DisconnectTurn
  <2>7. QED  BY <2>1, <2>3, <2>4, <2>5, <2>6, <1>4 DEF DisconnectTurn, Nobody
<1>10. Unpublished'
  BY <1>1, <1>2, <1>3, <1>4, PublishedKept DEF Published
<1>11. EventsOwned' /\ InOrder' /\ Unbroken' /\ NoCrash'
  BY <1>1, <1>2, <1>5, OwnedKept, UnbrokenKept DEF IInv, NoCrash
<1>12. QED  BY <1>2, <1>6, <1>7, <1>8, <1>9, <1>10, <1>11 DEF IInv
-----------------------------------------------------------------------------
(* The completion port *)

\* What a worker has ahead that dequeued a completion.
Ahead(e, result) ==
  CASE e \in Connecting -> IF e = "connect" \/ result = "ok" THEN {"processConnect"} ELSE {}
    [] e = "recv" -> IF result = "ok" THEN {"onRecv", "registerRecv"} ELSE {"disconnect"}
    [] e = "send" -> IF result = "ok" THEN {"afterSend"} ELSE {"disconnect"}
    [] OTHER -> {"onDisconnected", "releaseSession"}

\* It is a stack.
LEMMA ProcessIsStack ==
  ASSUME NEW e \in Events, NEW result \in {"ok", "zero"}
  PROVE  /\ Process(e, result) \in Seq(Steps) /\ Stacked(Process(e, result))
         /\ Range(Process(e, result)) = Ahead(e, result)
<1>1. /\ "registerRecv" \in Below["onRecv"] /\ "releaseSession" \in Below["onDisconnected"]
      /\ {"processConnect", "onRecv", "registerRecv", "disconnect", "afterSend", "onDisconnected",
          "releaseSession"} \subseteq Steps
  BY BelowOf DEF Steps
<1> DEFINE Fits(q, S) == q \in Seq(Steps) /\ Stacked(q) /\ Range(q) = S
<1>2. /\ Fits(<<>>, {}) /\ Fits(<<"processConnect">>, {"processConnect"})
      /\ Fits(<<"disconnect">>, {"disconnect"}) /\ Fits(<<"afterSend">>, {"afterSend"})
  BY <1>1, StacksOfSteps, RangeOf
<1>3. /\ Fits(<<"onRecv", "registerRecv">>, {"onRecv", "registerRecv"})
      /\ Fits(<<"onDisconnected", "releaseSession">>, {"onDisconnected", "releaseSession"})
  BY <1>1, StacksOfSteps, RangeOf
<1> HIDE DEF Fits
<1>4. CASE e \in Connecting
  BY <1>2, <1>4 DEF Process, ProcessAccept, Ahead, Connecting, Fits
<1>5. CASE e = "recv"
  BY <1>2, <1>3, <1>5 DEF Process, ProcessRecv, Ahead, Connecting, Fits
<1>6. CASE e = "send"
  BY <1>2, <1>6 DEF Process, ProcessSend, Ahead, Connecting, Fits
<1>7. CASE e = "disconnect"
  BY <1>3, <1>7 DEF Process, ProcessDisconnect, Ahead, Connecting, Fits
<1>8. QED  BY <1>4, <1>5, <1>6, <1>7 DEF Events, Connecting

\* A worker dequeues a completion, and goes on with it if the event has an owner.
LEMMA DispatchWork ==
  ASSUME IInv, NEW t \in Threads, NEW e \in Events, Dispatch(t, e)
  PROVE  \E result \in {"ok", "zero"} :
           /\ <<e, result>> \in completed /\ completed' = completed \ {<<e, result>>}
           /\ todo' \in [Threads -> Seq(Steps)] /\ Stacks' /\ Work[t] = {}
           /\ \/ Work'[t] = Ahead(e, result) /\ crash' = crash
              \/ /\ Work'[t] = {} /\ crash' = "null owner"
                 /\ e = "recv" /\ "disconnect" \in failed
           /\ \A u \in Threads \ {t} : Work'[u] = Work[u]
<1>1. PICK result \in {"ok", "zero"} :
        /\ <<e, result>> \in completed /\ completed' = completed \ {<<e, result>>}
        /\ IF e \in owner \/ e = "accept"
           THEN todo' = [todo EXCEPT ![t] = Process(e, result)] /\ UNCHANGED crash
           ELSE crash' = "null owner" /\ UNCHANGED todo
  BY DEF Dispatch
<1>2. todo[t] = <<>>
  BY DEF Dispatch, Idle
<1>3. CASE todo' = [todo EXCEPT ![t] = Process(e, result)] /\ UNCHANGED crash
  <2>1. /\ Process(e, result) \in Seq(Steps) /\ Stacked(Process(e, result))
        /\ Range(Process(e, result)) = Ahead(e, result)
    BY ProcessIsStack
  <2>2. /\ todo' \in [Threads -> Seq(Steps)] /\ Stacks' /\ Work[t] = {}
        /\ Work'[t] = Range(Process(e, result)) /\ \A u \in Threads \ {t} : Work'[u] = Work[u]
    BY <2>1, <1>2, <1>3, BeginWork DEF IInv
  <2>3. QED  BY <2>1, <2>2, <1>1, <1>3
<1>4. CASE e \notin owner /\ e # "accept" /\ crash' = "null owner" /\ UNCHANGED todo
  <2>1. e = "recv" /\ "disconnect" \in failed
    <3>1. Completed(e)
      BY <1>1 DEF Completed
    <3>2. QED  BY <3>1, <1>4 DEF IInv, EventsOwned, Events
  <2>2. Work[t] = {} /\ Work' = Work /\ Stacks' /\ todo' \in [Threads -> Seq(Steps)]
    BY <1>2, <1>4, RangeOf DEF Work, Stacks, IInv, TypeOK, Types
  <2>3. QED  BY <2>1, <2>2, <1>1, <1>4
<1>5. QED  BY <1>1, <1>3, <1>4

\* What a dequeued completion does to the types and the owners.
LEMMA DispatchKeeps ==
  ASSUME IInv, NEW t \in Threads, NEW e \in Events, Dispatch(t, e),
         e \notin pending, \A c \in completed' : c[1] # e
  PROVE  TypeOK' /\ EventsOwned' /\ NoCrash'
<1>1. PICK result \in {"ok", "zero"} :
        /\ <<e, result>> \in completed /\ completed' = completed \ {<<e, result>>}
        /\ todo' \in [Threads -> Seq(Steps)] /\ Work[t] = {}
        /\ \/ Work'[t] = Ahead(e, result) /\ crash' = crash
           \/ Work'[t] = {} /\ crash' = "null owner" /\ "disconnect" \in failed
        /\ \A u \in Threads \ {t} : Work'[u] = Work[u]
  BY DispatchWork
<1>2. /\ owner' = owner \ {e} /\ (sendBuffers' = <<>> \/ sendBuffers' = sendBuffers)
      /\ UNCHANGED <<connected, lock, sendQueue, registered, pushed, inSessions, serviceLock,
                     onDisconnected, arg, made, socket, pending, wire, failed>>
  BY DEF Dispatch, service, args
<1>3. Types'
  <2>1. sendBuffers' \in Seq(Packets)
    BY <1>2, EmptySeq DEF IInv, TypeOK, Types
  <2>2. owner' \subseteq Events /\ completed' \subseteq Events \X {"ok", "zero"}
    BY <1>1, <1>2 DEF IInv, TypeOK, Types
  <2>3. crash' \in {"no", "null owner", "ReleaseSession"}
    BY <1>1 DEF IInv, TypeOK, Types
  <2>4. QED  BY <1>1, <1>2, <2>1, <2>2, <2>3 DEF IInv, TypeOK, Types
<1>4. Scopes'
  <2>1. \A s \in {"push", "unlock", "serviceUnlock"} : s \notin Work'[t]
    BY <1>1 DEF Ahead
  <2>2. QED  BY <2>1, <1>1, <1>2, ScopesKept DEF IInv
<1>5. EventsOwned' /\ NoCrash'
  <2>1. \A f : Completed(f)' => Completed(f) /\ f # e
    BY <1>1 DEF Completed
  <2>2. \A f \in {"connect", "recv", "send", "disconnect"} : f \in pending \/ Completed(f)
          => f \in owner \/ (f = "recv" /\ "disconnect" \in failed)
    BY DEF IInv, EventsOwned
  <2>3. ASSUME NEW f \in {"connect", "recv", "send", "disconnect"}, f \in pending' \/ Completed(f)'
        PROVE  f \in owner' \/ (f = "recv" /\ "disconnect" \in failed')
    BY <2>1, <2>2, <2>3, <1>2
  <2>4. NoCrash' /\ (crash' = "null owner" => "disconnect" \in failed')
    BY <1>1, <1>2 DEF IInv, EventsOwned, NoCrash
  <2>5. QED  BY <2>3, <2>4 DEF EventsOwned
<1>6. QED  BY <1>3, <1>4, <1>5 DEF TypeOK

\* The connection is made, or is not.
LEMMA DispatchConnect ==
  ASSUME IInv, NEW t \in Threads, NEW e \in Connecting, Dispatch(t, e) PROVE IInv'
<1> USE DEF service, args
<1>1. PICK result \in {"ok", "zero"} :
        /\ <<e, result>> \in completed /\ completed' = completed \ {<<e, result>>}
        /\ todo' \in [Threads -> Seq(Steps)] /\ Stacks' /\ Work[t] = {}
        /\ Work'[t] = {} \/ Work'[t] = {"processConnect"}
        /\ \A u \in Threads \ {t} : Work'[u] = Work[u]
  <2>1. e \in Events
    BY DEF Events, Connecting
  <2>2. ASSUME NEW r PROVE Ahead(e, r) = {} \/ Ahead(e, r) = {"processConnect"}
    <3>1. Ahead(e, r) = IF e = "connect" \/ r = "ok" THEN {"processConnect"} ELSE {}
      BY DEF Ahead, Connecting
    <3>2. QED  BY <3>1
  <2>3. PICK result \in {"ok", "zero"} :
          /\ <<e, result>> \in completed /\ completed' = completed \ {<<e, result>>}
          /\ todo' \in [Threads -> Seq(Steps)] /\ Stacks' /\ Work[t] = {}
          /\ Work'[t] = Ahead(e, result) \/ Work'[t] = {}
          /\ \A u \in Threads \ {t} : Work'[u] = Work[u]
    BY <2>1, DispatchWork
  <2>4. QED  BY <2>2, <2>3
<1>2. /\ owner' = owner \ {e} /\ sendBuffers' = sendBuffers
      /\ UNCHANGED <<connected, lock, sendQueue, registered, pushed, service, args, socket, pending,
                     wire, failed>>
  BY DEF Dispatch, Connecting
<1> DEFINE c == <<e, result>>
<1>3. c \in completed /\ c[1] = e /\ completed' = completed \ {c}
  BY <1>1
<1> HIDE DEF c
<1>4. /\ Alone(ConnectSteps \cup RecvSteps, Connecting \cup {"recv"})'
  <2>1. c[1] \in Connecting \cup {"recv"}
    BY <1>3
  <2>2. \A u \in Threads \ {t} : Work'[u] \cap (ConnectSteps \cup RecvSteps) \subseteq Work[u]
    BY <1>1
  <2>3. pending' \cap (Connecting \cup {"recv"}) \subseteq pending
    BY <1>2
  <2>4. Alone(ConnectSteps \cup RecvSteps, Connecting \cup {"recv"})
    BY DEF IInv, ReceiveTurn
  <2>5. QED  BY <1>3, <2>1, <2>2, <2>3, <2>4, AloneDequeued
<1>5. /\ Alone(ReleaseSteps \cup {"processConnect"}, Connecting \cup {"disconnect"})
      /\ c \in InPort(Connecting \cup {"disconnect"})
  BY <1>3 DEF IInv, DisconnectTurn, InPort
<1>6. /\ Busy(ReleaseSteps \cup {"processConnect"}) = {}
      /\ AtKernel(Connecting \cup {"disconnect"}) = {} /\ InPort(Connecting \cup {"disconnect"}) = {c}
  BY <1>5 DEF Alone
<1>7. /\ Busy(ReleaseSteps \cup {"processConnect"})' \subseteq {t}
      /\ AtKernel(Connecting \cup {"disconnect"})' = {} /\ InPort(Connecting \cup {"disconnect"})' = {}
  BY <1>1, <1>2, <1>3, <1>6 DEF Busy, AtKernel, InPort
<1>8. e \notin pending /\ \A d \in completed' : d[1] # e
  BY <1>6, <1>7 DEF AtKernel, InPort
<1>9. ~ connected /\ ~ onDisconnected > 0 /\ ~ Published
  <2>1. ~ connected /\ ~ onDisconnected > 0
    BY <1>5 DEF IInv, DisconnectTurn, Nobody
  <2>2. c \in InPort(Connecting)
    BY <1>3 DEF InPort
  <2>3. QED  BY <2>1, <2>2 DEF IInv, Unpublished, Nobody
<1>10. TypeOK' /\ EventsOwned' /\ NoCrash'
  <2>1. e \in Events
    BY DEF Events, Connecting
  <2>2. QED  BY <2>1, <1>8, DispatchKeeps
<1>11. SendTurn'
  <2>1. "send" \in owner' <=> "send" \in owner
    BY <1>2 DEF Connecting
  <2>2. /\ \A d \in completed' : d[1] = "send" => d \in completed
        /\ \A u \in Threads : Work'[u] \cap SendSteps \subseteq Work[u]
    BY <1>1 DEF SendSteps
  <2>3. QED  BY <2>1, <2>2, <1>2, SendKept
<1>12. DisconnectTurn'
  <2>1. Alone(ReleaseSteps \cup {"processConnect"}, Connecting \cup {"disconnect"})'
    BY <1>7 DEF Alone
  <2>2. Work'[t] \cap ReleaseSteps = {}
    BY <1>1 DEF ReleaseSteps
  <2>3. Busy(ReleaseSteps)' = {} /\ AtKernel({"disconnect"})' = {} /\ InPort({"disconnect"})' = {}
    BY <1>7, <2>2 DEF Busy, AtKernel, InPort
  <2>4. \A u \in Threads : "releaseSession" \notin Work'[u]
    BY <2>3 DEF Busy, ReleaseSteps
  <2>5. QED  BY <2>1, <2>3, <2>4, <1>2, <1>9 DEF DisconnectTurn, Nobody
<1>13. Unpublished'
  <2>1. ~ Published' /\ ~ connected'
    BY <1>2, <1>9 DEF Published
  <2>2. InPort(Events \ Connecting)' \subseteq InPort(Events \ Connecting)
    BY <1>1 DEF InPort
  <2>3. QED  BY <2>1, <2>2, <1>1, <1>2, <1>9 DEF IInv, Unpublished, ConnectSteps
<1>14. InOrder' /\ Unbroken'
  <2>1. /\ <<"send", "ok">> \in completed' <=> <<"send", "ok">> \in completed
        /\ <<"send", "zero">> \in completed' => <<"send", "zero">> \in completed
    BY <1>1 DEF Connecting
  <2>2. \A u \in Threads : "sendFailed" \in Work'[u] => "sendFailed" \in Work[u]
    BY <1>1
  <2>3. QED  BY <2>1, <2>2, <1>2, UnbrokenKept
<1>15. QED  BY <1>1, <1>4, <1>10, <1>11, <1>12, <1>13, <1>14 DEF IInv, ReceiveTurn

\* A receive is done.
LEMMA DispatchRecv == ASSUME IInv, NEW t \in Threads, Dispatch(t, "recv") PROVE IInv'
<1> USE DEF service, args
<1>1. PICK result \in {"ok", "zero"} :
        /\ <<"recv", result>> \in completed /\ completed' = completed \ {<<"recv", result>>}
        /\ todo' \in [Threads -> Seq(Steps)] /\ Stacks' /\ Work[t] = {}
        /\ Work'[t] \subseteq {"onRecv", "registerRecv", "disconnect"}
        /\ \A u \in Threads \ {t} : Work'[u] = Work[u]
  <2>1. "recv" \in Events
    BY DEF Events
  <2>2. \A r : Ahead("recv", r) \subseteq {"onRecv", "registerRecv", "disconnect"}
    BY DEF Ahead, Connecting
  <2>3. PICK result \in {"ok", "zero"} :
          /\ <<"recv", result>> \in completed /\ completed' = completed \ {<<"recv", result>>}
          /\ todo' \in [Threads -> Seq(Steps)] /\ Stacks' /\ Work[t] = {}
          /\ Work'[t] = Ahead("recv", result) \/ Work'[t] = {}
          /\ \A u \in Threads \ {t} : Work'[u] = Work[u]
    BY <2>1, DispatchWork
  <2>4. QED  BY <2>2, <2>3
<1>2. /\ owner' = owner \ {"recv"} /\ sendBuffers' = sendBuffers
      /\ UNCHANGED <<connected, lock, sendQueue, registered, pushed, service, args, socket, pending,
                     wire, failed>>
  BY DEF Dispatch
<1> DEFINE c == <<"recv", result>>
<1>3. c \in completed /\ c[1] = "recv" /\ completed' = completed \ {c}
  BY <1>1
<1> HIDE DEF c
<1>4. /\ Alone(ConnectSteps \cup RecvSteps, Connecting \cup {"recv"})
      /\ c \in InPort(Connecting \cup {"recv"})
  BY <1>3 DEF IInv, ReceiveTurn, InPort
<1>5. /\ Busy(ConnectSteps \cup RecvSteps) = {}
      /\ AtKernel(Connecting \cup {"recv"}) = {} /\ InPort(Connecting \cup {"recv"}) = {c}
  BY <1>4 DEF Alone
<1>6. /\ Busy(ConnectSteps \cup RecvSteps)' \subseteq {t}
      /\ AtKernel(Connecting \cup {"recv"})' = {} /\ InPort(Connecting \cup {"recv"})' = {}
  BY <1>1, <1>2, <1>3, <1>5 DEF Busy, AtKernel, InPort
<1>7. ReceiveTurn'
  BY <1>6 DEF ReceiveTurn, Alone
<1>8. TypeOK' /\ EventsOwned' /\ NoCrash'
  <2>1. "recv" \notin pending /\ \A d \in completed' : d[1] # "recv"
    BY <1>5, <1>6 DEF AtKernel, InPort
  <2>2. "recv" \in Events
    BY DEF Events
  <2>3. QED  BY <2>1, <2>2, DispatchKeeps
<1>9. Published
  <2>1. c \in InPort(Events \ Connecting)
    BY <1>3 DEF InPort, Events, Connecting
  <2>2. QED  BY <2>1 DEF IInv, Unpublished
<1>10. SendTurn'
  <2>1. "send" \in owner' <=> "send" \in owner
    BY <1>2
  <2>2. /\ \A d \in completed' : d[1] = "send" => d \in completed
        /\ \A u \in Threads : Work'[u] \cap SendSteps \subseteq Work[u]
    BY <1>1 DEF SendSteps
  <2>3. QED  BY <2>1, <2>2, <1>2, SendKept
<1>11. DisconnectTurn'
  <2>1. \A u \in Threads : \A s \in ReleaseSteps \cup {"processConnect"} :
          s \in Work'[u] <=> s \in Work[u]
    BY <1>1 DEF ReleaseSteps
  <2>2. \A d \in completed' : d[1] \in Connecting \cup {"disconnect"} => d \in completed
    BY <1>1
  <2>3. QED  BY <2>1, <2>2, <1>2, DisconnectKept
<1>12. Unpublished'
  <2>1. \A u \in Threads : \A s \in {"processConnect", "addSession"} : s \in Work'[u] => s \in Work[u]
    BY <1>1
  <2>2. \A d \in completed' : d[1] \in Connecting => d \in completed
    BY <1>1
  <2>3. Published'
    BY <1>2, <1>9 DEF Published
  <2>4. pending' \cap Connecting \subseteq pending
    BY <1>2
  <2>5. QED  BY <2>1, <2>2, <2>3, <2>4, <1>9, PublishedKept
<1>13. InOrder' /\ Unbroken'
  <2>1. /\ <<"send", "ok">> \in completed' <=> <<"send", "ok">> \in completed
        /\ <<"send", "zero">> \in completed' => <<"send", "zero">> \in completed
    <3>1. <<"send", "ok">>[1] = "send" /\ <<"send", "zero">>[1] = "send"
      OBVIOUS
    <3>2. <<"send", "ok">> # c /\ <<"send", "zero">> # c
      BY <3>1, <1>3
    <3>3. QED  BY <3>2, <1>3
  <2>2. \A u \in Threads : "sendFailed" \in Work'[u] => "sendFailed" \in Work[u]
    <3>1. "sendFailed" \notin Work'[t]
      BY <1>1
    <3>2. \A u \in Threads \ {t} : Work'[u] = Work[u]
      BY <1>1
    <3>3. QED  BY <3>1, <3>2
  <2>3. QED  BY <2>1, <2>2, <1>2, UnbrokenKept
<1>14. QED  BY <1>1, <1>7, <1>8, <1>10, <1>11, <1>12, <1>13 DEF IInv

\* A send is done.
LEMMA DispatchSend == ASSUME IInv, NEW t \in Threads, Dispatch(t, "send") PROVE IInv'
<1> USE DEF service, args
<1>1. PICK result \in {"ok", "zero"} :
        /\ <<"send", result>> \in completed /\ completed' = completed \ {<<"send", result>>}
        /\ todo' \in [Threads -> Seq(Steps)] /\ Stacks' /\ Work[t] = {}
        /\ Work'[t] \subseteq {"afterSend", "disconnect"}
        /\ \A u \in Threads \ {t} : Work'[u] = Work[u]
  <2>1. "send" \in Events
    BY DEF Events
  <2>2. \A r : Ahead("send", r) \subseteq {"afterSend", "disconnect"}
    BY DEF Ahead, Connecting
  <2>3. PICK result \in {"ok", "zero"} :
          /\ <<"send", result>> \in completed /\ completed' = completed \ {<<"send", result>>}
          /\ todo' \in [Threads -> Seq(Steps)] /\ Stacks' /\ Work[t] = {}
          /\ \/ Work'[t] = Ahead("send", result) /\ crash' = crash
             \/ /\ Work'[t] = {} /\ crash' = "null owner"
                /\ "send" = "recv" /\ "disconnect" \in failed
          /\ \A u \in Threads \ {t} : Work'[u] = Work[u]
    BY <2>1, DispatchWork
  <2>4. QED  BY <2>2, <2>3
<1>2. /\ owner' = owner \ {"send"} /\ sendBuffers' = <<>>
      /\ UNCHANGED <<connected, lock, sendQueue, registered, pushed, service, args, socket, pending,
                     wire, failed>>
  BY DEF Dispatch
<1> DEFINE c == <<"send", result>>
<1>3. c \in completed /\ c[1] = "send" /\ completed' = completed \ {c}
  BY <1>1
<1>4. result = "zero" => Broken
  BY <1>1 DEF IInv, Unbroken
<1>5. result = "ok" => <<"send", "ok">> \in completed
  BY <1>1
<1> HIDE DEF c
<1>6. Alone(SendSteps, {"send"}) /\ c \in InPort({"send"})
  BY <1>3 DEF IInv, SendTurn, InPort
<1>7. /\ Busy(SendSteps) = {} /\ AtKernel({"send"}) = {} /\ InPort({"send"}) = {c} /\ registered
  BY <1>6 DEF Alone, IInv, SendTurn, Nobody
<1>8. Busy(SendSteps)' \subseteq {t} /\ AtKernel({"send"})' = {} /\ InPort({"send"})' = {}
  BY <1>1, <1>2, <1>3, <1>7 DEF Busy, AtKernel, InPort
<1>9. \A d \in completed' : d[1] # "send"
  BY <1>8 DEF InPort
<1>10. SendTurn'
  <2>1. Busy({"wsaSend"})' = {}
    <3>1. \A u \in Threads \ {t} : "wsaSend" \notin Work'[u]
      BY <1>8 DEF Busy, SendSteps
    <3>2. QED  BY <3>1, <1>1 DEF Busy
  <2>2. "send" \notin owner' /\ registered'
    BY <1>2, <1>7
  <2>3. QED  BY <2>1, <2>2, <1>2, <1>8 DEF SendTurn, Alone
<1>11. TypeOK' /\ EventsOwned' /\ NoCrash'
  <2>1. "send" \notin pending /\ "send" \in Events
    BY <1>7 DEF AtKernel, Events
  <2>2. QED  BY <2>1, <1>9, DispatchKeeps
<1>12. Published
  <2>1. c \in InPort(Events \ Connecting)
    BY <1>3 DEF InPort, Events, Connecting
  <2>2. QED  BY <2>1 DEF IInv, Unpublished
<1>13. ReceiveTurn'
  <2>1. \A u \in Threads : Work'[u] \cap (ConnectSteps \cup RecvSteps) \subseteq Work[u]
    BY <1>1 DEF ConnectSteps, RecvSteps
  <2>2. /\ \A d \in completed' : d[1] \in Connecting \cup {"recv"} => d \in completed
        /\ pending' \cap (Connecting \cup {"recv"}) \subseteq pending
    BY <1>2, <1>3
  <2>3. QED  BY <2>1, <2>2, AloneKept DEF IInv, ReceiveTurn
<1>14. DisconnectTurn'
  <2>1. \A u \in Threads : \A s \in ReleaseSteps \cup {"processConnect"} :
          s \in Work'[u] <=> s \in Work[u]
    BY <1>1 DEF ReleaseSteps
  <2>2. \A d \in completed' : d[1] \in Connecting \cup {"disconnect"} => d \in completed
    BY <1>3
  <2>3. QED  BY <2>1, <2>2, <1>2, DisconnectKept
<1>15. Unpublished'
  <2>1. \A u \in Threads : \A s \in {"processConnect", "addSession"} : s \in Work'[u] => s \in Work[u]
    BY <1>1
  <2>2. /\ \A d \in completed' : d[1] \in Connecting => d \in completed
        /\ pending' \cap Connecting \subseteq pending
    BY <1>2, <1>3
  <2>3. Published'
    BY <1>2, <1>12 DEF Published
  <2>4. QED  BY <2>1, <2>2, <2>3, <1>12, PublishedKept
<1>16. InFlight' = <<>>
  BY <1>2 DEF InFlight
<1>17. InOrder'
  BY <1>2, <1>16, MiddleLost
<1>18. Unbroken'
  <2>1. result = "ok" => Way' = Way
    BY <1>2, <1>5, <1>16 DEF Way, InFlight
  <2>2. \A u \in Threads : "sendFailed" \in Work'[u] => "sendFailed" \in Work[u]
    BY <1>1
  <2>3. Broken => Broken'
    BY <1>2 DEF Broken
  <2>4. completed' \subseteq completed /\ pending' \cap (Connecting \cup {"send"}) \subseteq pending
    BY <1>2, <1>3
  <2>5. QED  BY <2>1, <2>2, <2>3, <2>4, <1>2, <1>4, ConnectionKept
<1>19. QED  BY <1>1, <1>10, <1>11, <1>13, <1>14, <1>15, <1>17, <1>18 DEF IInv

\* The connection is down.
LEMMA DispatchDisconnect == ASSUME IInv, NEW t \in Threads, Dispatch(t, "disconnect") PROVE IInv'
<1> USE DEF service, args
<1>1. PICK result \in {"ok", "zero"} :
        /\ <<"disconnect", result>> \in completed
        /\ completed' = completed \ {<<"disconnect", result>>}
        /\ todo' \in [Threads -> Seq(Steps)] /\ Stacks' /\ Work[t] = {}
        /\ Work'[t] = {"onDisconnected", "releaseSession"}
        /\ \A u \in Threads \ {t} : Work'[u] = Work[u]
  <2>1. "disconnect" \in Events
    BY DEF Events
  <2>2. \A r : Ahead("disconnect", r) = {"onDisconnected", "releaseSession"}
    BY DEF Ahead, Connecting
  <2>3. PICK result \in {"ok", "zero"} :
          /\ <<"disconnect", result>> \in completed
          /\ completed' = completed \ {<<"disconnect", result>>}
          /\ todo' \in [Threads -> Seq(Steps)] /\ Stacks' /\ Work[t] = {}
          /\ \/ Work'[t] = Ahead("disconnect", result) /\ crash' = crash
             \/ /\ Work'[t] = {} /\ crash' = "null owner"
                /\ "disconnect" = "recv" /\ "disconnect" \in failed
          /\ \A u \in Threads \ {t} : Work'[u] = Work[u]
    <3>1. ASSUME NEW e \in Events, Dispatch(t, e)
          PROVE  \E result \in {"ok", "zero"} :
                   /\ <<e, result>> \in completed
                   /\ completed' = completed \ {<<e, result>>}
                   /\ todo' \in [Threads -> Seq(Steps)] /\ Stacks' /\ Work[t] = {}
                   /\ \/ Work'[t] = Ahead(e, result) /\ crash' = crash
                      \/ /\ Work'[t] = {} /\ crash' = "null owner"
                         /\ e = "recv" /\ "disconnect" \in failed
                   /\ \A u \in Threads \ {t} : Work'[u] = Work[u]
      BY <3>1, DispatchWork
    <3>2. QED  BY <2>1, <3>1
  <2>4. QED  BY <2>2, <2>3
<1>2. /\ owner' = owner \ {"disconnect"} /\ sendBuffers' = sendBuffers
      /\ UNCHANGED <<connected, lock, sendQueue, registered, pushed, service, args, socket, pending,
                     wire, failed>>
  BY DEF Dispatch
<1> DEFINE c == <<"disconnect", result>>
<1>3. c \in completed /\ c[1] = "disconnect" /\ completed' = completed \ {c}
  BY <1>1
<1> HIDE DEF c
<1>4. /\ Alone(ReleaseSteps \cup {"processConnect"}, Connecting \cup {"disconnect"})
      /\ c \in InPort(Connecting \cup {"disconnect"}) /\ c \in InPort({"disconnect"})
  BY <1>3 DEF IInv, DisconnectTurn, InPort
<1>5. /\ Busy(ReleaseSteps \cup {"processConnect"}) = {}
      /\ AtKernel(Connecting \cup {"disconnect"}) = {} /\ InPort(Connecting \cup {"disconnect"}) = {c}
  BY <1>4 DEF Alone
<1>6. /\ Busy(ReleaseSteps \cup {"processConnect"})' \subseteq {t}
      /\ AtKernel(Connecting \cup {"disconnect"})' = {} /\ InPort(Connecting \cup {"disconnect"})' = {}
  BY <1>1, <1>2, <1>3, <1>5 DEF Busy, AtKernel, InPort
<1>7. ~ connected /\ inSessions /\ ~ onDisconnected > 0
  BY <1>4 DEF IInv, DisconnectTurn, Nobody
<1>8. TypeOK' /\ EventsOwned' /\ NoCrash'
  <2>1. "disconnect" \notin pending /\ \A d \in completed' : d[1] # "disconnect"
    BY <1>5, <1>6 DEF AtKernel, InPort
  <2>2. "disconnect" \in Events
    BY DEF Events
  <2>3. QED  BY <2>1, <2>2, DispatchKeeps
<1>9. SendTurn'
  <2>1. "send" \in owner' <=> "send" \in owner
    BY <1>2
  <2>2. /\ \A d \in completed' : d[1] = "send" => d \in completed
        /\ \A u \in Threads : Work'[u] \cap SendSteps \subseteq Work[u]
    BY <1>1 DEF SendSteps
  <2>3. QED  BY <2>1, <2>2, <1>2, SendKept
<1>10. ReceiveTurn'
  <2>1. \A u \in Threads : Work'[u] \cap (ConnectSteps \cup RecvSteps) \subseteq Work[u]
    BY <1>1 DEF ConnectSteps, RecvSteps
  <2>2. /\ \A d \in completed' : d[1] \in Connecting \cup {"recv"} => d \in completed
        /\ pending' \cap (Connecting \cup {"recv"}) \subseteq pending
    BY <1>2, <1>3
  <2>3. QED  BY <2>1, <2>2, AloneKept DEF IInv, ReceiveTurn
<1>11. DisconnectTurn'
  <2>1. Alone(ReleaseSteps \cup {"processConnect"}, Connecting \cup {"disconnect"})'
    BY <1>6 DEF Alone
  <2>2. \A u \in Threads \ {t} : Work'[u] \cap (ReleaseSteps \cup {"processConnect"}) = {}
    BY <1>6 DEF Busy
  <2>3. \A u \in Threads : "releaseSession" \in Work'[u] => "onDisconnected" \in Work'[u]
    BY <2>2, <1>1 DEF ReleaseSteps
  <2>4. QED  BY <2>1, <2>3, <1>2, <1>7 DEF DisconnectTurn
<1>12. Unpublished'
  <2>1. \A u \in Threads : \A s \in {"processConnect", "addSession"} : s \in Work'[u] => s \in Work[u]
    BY <1>1
  <2>2. /\ \A d \in completed' : d[1] \in Connecting => d \in completed
        /\ pending' \cap Connecting \subseteq pending
    BY <1>2, <1>3
  <2>3. Published /\ Published'
    BY <1>2, <1>7 DEF Published
  <2>4. QED  BY <2>1, <2>2, <2>3, PublishedKept
<1>13. InOrder' /\ Unbroken'
  <2>1. /\ <<"send", "ok">> \in completed' <=> <<"send", "ok">> \in completed
        /\ <<"send", "zero">> \in completed' => <<"send", "zero">> \in completed
    <3>1. <<"send", "ok">>[1] = "send" /\ <<"send", "zero">>[1] = "send"
      OBVIOUS
    <3>2. <<"send", "ok">> # c /\ <<"send", "zero">> # c
      BY <3>1, <1>3
    <3>3. QED  BY <3>2, <1>3
  <2>2. \A u \in Threads : "sendFailed" \in Work'[u] => "sendFailed" \in Work[u]
    BY <1>1
  <2>3. QED  BY <2>1, <2>2, <1>2, UnbrokenKept
<1>14. QED  BY <1>1, <1>8, <1>9, <1>10, <1>11, <1>12, <1>13 DEF IInv
-----------------------------------------------------------------------------
(* The kernel and the peer *)

\* What the kernel does to the types, the owners and the threads.
LEMMA CompleteKeeps ==
  ASSUME IInv, NEW e \in Events, Complete(e)
  PROVE  TypeOK' /\ Stacks' /\ EventsOwned' /\ NoCrash' /\ \A u \in Threads : Work'[u] = Work[u]
<1> USE DEF sending, service, callers, args
<1>1. PICK result \in {"ok", "zero"} :
        /\ completed' = completed \cup {<<e, result>>}
        /\ wire' = IF e = "send" /\ result = "ok" THEN wire \o sendBuffers ELSE wire
        /\ socket' = IF e \in {"connect", "accept"} /\ result = "ok" THEN "open" ELSE socket
        /\ failed' = IF e = "connect" /\ result = "zero" THEN failed \cup {"connect"} ELSE failed
  BY DEF Complete
<1>2. /\ e \in pending /\ pending' = pending \ {e}
      /\ UNCHANGED <<connected, sending, owner, service, callers, crash>>
  BY DEF Complete
<1>3. Work' = Work /\ Stacks' /\ Scopes'
  BY <1>2 DEF Work, Stacks, Scopes, IInv, TypeOK
<1>4. Types'
  <2>1. wire' \in Seq(Packets)
    <3>1. wire \in Seq(Packets) /\ sendBuffers \in Seq(Packets)
      BY QueuesType DEF IInv
    <3>2. wire \o sendBuffers \in Seq(Packets)
      BY <3>1, ConcatProperties
    <3>3. QED  BY <3>1, <3>2, <1>1
  <2>2. completed' \subseteq Events \X {"ok", "zero"} /\ pending' \subseteq Events
    <3>1. completed \subseteq Events \X {"ok", "zero"} /\ pending \subseteq Events
      BY DEF IInv, TypeOK, Types
    <3>2. <<e, result>> \in Events \X {"ok", "zero"}
      OBVIOUS
    <3>3. QED  BY <3>1, <3>2, <1>1, <1>2
  <2>3. /\ socket' \in {"fresh", "open", "peerClosed", "reset", "closing"}
        /\ failed' \subseteq {"connect", "recv", "send", "disconnect"}
    BY <1>1 DEF IInv, TypeOK, Types
  <2>4. QED  BY <1>2, <2>1, <2>2, <2>3 DEF IInv, TypeOK, Types
<1>5. EventsOwned' /\ NoCrash'
  <2>1. \A f : Completed(f)' => Completed(f) \/ f = e
    BY <1>1 DEF Completed
  <2>2. \A f : f \in pending' => f \in pending
    BY <1>2
  <2>3. failed \subseteq failed' /\ owner' = owner /\ crash' = crash
    BY <1>1, <1>2
  <2>4. QED  BY <2>1, <2>2, <2>3, <1>2 DEF IInv, EventsOwned, NoCrash
<1>6. QED  BY <1>3, <1>4, <1>5 DEF TypeOK

\* The kernel connects or accepts.
LEMMA CompleteConnect == ASSUME IInv, NEW e \in Connecting, Complete(e) PROVE IInv'
<1> USE DEF sending, service, callers, args
<1>1. PICK result \in {"ok", "zero"} :
        /\ completed' = completed \cup {<<e, result>>} /\ wire' = wire
        /\ socket' = "open" \/ socket' = socket
        /\ failed' = failed \/ failed' = failed \cup {"connect"}
  BY DEF Complete, Connecting
<1>2. /\ e \in pending /\ pending' = pending \ {e}
      /\ UNCHANGED <<connected, sending, owner, service, callers, crash>>
  BY DEF Complete
<1> DEFINE c == <<e, result>>
<1>3. c[1] = e /\ completed' = completed \cup {c}
  BY <1>1
<1> HIDE DEF c
<1>4. TypeOK' /\ Stacks' /\ EventsOwned' /\ NoCrash' /\ \A u \in Threads : Work'[u] = Work[u]
  <2>1. e \in Events
    BY DEF Connecting, Events
  <2>2. QED  BY <2>1, CompleteKeeps
<1>5. SendTurn'
  <2>1. \A d \in completed' : d[1] = "send" => d \in completed
    BY <1>3 DEF Connecting
  <2>2. QED  BY <2>1, <1>2, <1>4, SendKept
<1>6. ReceiveTurn'
  <2>1. /\ Alone(ConnectSteps \cup RecvSteps, Connecting \cup {"recv"})
        /\ e \in pending \cap (Connecting \cup {"recv"})
        /\ \A u \in Threads : Work'[u] \cap (ConnectSteps \cup RecvSteps) \subseteq Work[u]
    BY <1>2, <1>4 DEF IInv, ReceiveTurn
  <2>2. QED  BY <2>1, <1>2, <1>3, AloneCompleted DEF ReceiveTurn
<1>7. /\ Alone(ReleaseSteps \cup {"processConnect"}, Connecting \cup {"disconnect"})
      /\ e \in AtKernel(Connecting \cup {"disconnect"}) /\ e \in AtKernel(Connecting)
  BY <1>2 DEF IInv, DisconnectTurn, AtKernel
<1>8. /\ Busy(ReleaseSteps \cup {"processConnect"}) = {}
      /\ AtKernel(Connecting \cup {"disconnect"}) = {e} /\ InPort(Connecting \cup {"disconnect"}) = {}
  BY <1>7 DEF Alone
<1>9. /\ Busy(ReleaseSteps \cup {"processConnect"})' = {}
      /\ AtKernel(Connecting \cup {"disconnect"})' = {}
      /\ InPort(Connecting \cup {"disconnect"})' \subseteq {c}
  BY <1>2, <1>3, <1>4, <1>8 DEF Busy, AtKernel, InPort
<1>10. ~ connected /\ ~ onDisconnected > 0 /\ ~ Published /\ socket = "fresh"
  BY <1>7 DEF IInv, DisconnectTurn, Unpublished, Unbroken, Nobody
<1>11. DisconnectTurn'
  <2>1. Alone(ReleaseSteps \cup {"processConnect"}, Connecting \cup {"disconnect"})'
    BY <1>9 DEF Alone
  <2>2. Busy(ReleaseSteps)' = {} /\ AtKernel({"disconnect"})' = {}
    BY <1>9 DEF Busy, AtKernel
  <2>3. InPort({"disconnect"})' = {}
    BY <1>3, <1>8 DEF InPort, Connecting
  <2>4. \A u \in Threads : "releaseSession" \notin Work'[u]
    BY <2>2 DEF Busy, ReleaseSteps
  <2>5. QED  BY <2>1, <2>2, <2>3, <2>4, <1>2, <1>10 DEF DisconnectTurn, Nobody
<1>12. Unpublished'
  <2>1. ~ Published' /\ ~ connected'
    BY <1>2, <1>10 DEF Published
  <2>2. InPort(Events \ Connecting)' \subseteq InPort(Events \ Connecting)
    BY <1>3 DEF InPort
  <2>3. QED  BY <2>1, <2>2, <1>2, <1>4, <1>10 DEF IInv, Unpublished
<1>13. /\ <<"send", "ok">> \in completed' <=> <<"send", "ok">> \in completed
       /\ <<"send", "zero">> \in completed' => <<"send", "zero">> \in completed
  <2>1. <<"send", "ok">>[1] = "send" /\ <<"send", "zero">>[1] = "send"
    OBVIOUS
  <2>2. <<"send", "ok">> # c /\ <<"send", "zero">> # c
    BY <2>1, <1>3 DEF Connecting
  <2>3. QED  BY <2>2, <1>3
<1>14. InOrder' /\ Way' = Way
  BY <1>1, <1>2, <1>13, OrderKept
<1>15. Unbroken'
  <2>1. Broken => Broken'
    BY <1>1, <1>10 DEF Broken
  <2>2. AtKernel(Connecting)' = {} /\ AtKernel({"send"}) = {} /\ AtKernel({"send"})' = {}
    <3>1. AtKernel(Connecting)' = {}
      BY <1>9 DEF AtKernel
    <3>2. AtKernel({"send"}) = {}
      BY <1>10 DEF IInv, Unbroken
    <3>3. QED  BY <3>1, <3>2, <1>2 DEF AtKernel
  <2>3. Busy({"sendFailed"})' = Busy({"sendFailed"})
    BY <1>4 DEF Busy
  <2>4. QED  BY <2>1, <2>2, <2>3, <1>2, <1>13, <1>14 DEF IInv, Unbroken
<1>16. QED  BY <1>4, <1>5, <1>6, <1>11, <1>12, <1>14, <1>15 DEF IInv

\* The kernel is done with a receive or a disconnect.
LEMMA CompleteOther == ASSUME IInv, NEW e \in {"recv", "disconnect"}, Complete(e) PROVE IInv'
<1> USE DEF sending, service, callers, args
<1>1. PICK result \in {"ok", "zero"} : completed' = completed \cup {<<e, result>>}
  BY DEF Complete
<1>2. /\ e \in pending /\ pending' = pending \ {e}
      /\ UNCHANGED <<connected, sending, owner, service, callers, crash, wire, socket, failed>>
  BY DEF Complete
<1> DEFINE c == <<e, result>>
<1>3. c[1] = e /\ completed' = completed \cup {c}
  BY <1>1
<1> HIDE DEF c
<1>4. TypeOK' /\ Stacks' /\ EventsOwned' /\ NoCrash' /\ \A u \in Threads : Work'[u] = Work[u]
  <2>1. e \in Events
    BY DEF Events
  <2>2. QED  BY <2>1, CompleteKeeps
<1>5. SendTurn'
  <2>1. \A d \in completed' : d[1] = "send" => d \in completed
    BY <1>3
  <2>2. QED  BY <2>1, <1>2, <1>4, SendKept
<1>6. ReceiveTurn'
  <2>1. Alone(ConnectSteps \cup RecvSteps, Connecting \cup {"recv"})
    BY DEF IInv, ReceiveTurn
  <2>2. \A u \in Threads : Work'[u] \cap (ConnectSteps \cup RecvSteps) \subseteq Work[u]
    BY <1>4
  <2>3. CASE e = "recv"
    <3>1. e \in pending \cap (Connecting \cup {"recv"})
      BY <2>3, <1>2
    <3>2. QED  BY <2>1, <2>2, <3>1, <1>2, <1>3, AloneCompleted DEF ReceiveTurn
  <2>4. CASE e = "disconnect"
    <3>1. /\ pending' \cap (Connecting \cup {"recv"}) \subseteq pending
          /\ \A d \in completed' : d[1] \in Connecting \cup {"recv"} => d \in completed
      BY <2>4, <1>2, <1>3 DEF Connecting
    <3>2. QED  BY <2>1, <2>2, <3>1, AloneKept DEF ReceiveTurn
  <2>5. QED  BY <2>3, <2>4
<1>7. DisconnectTurn'
  <2>1. CASE e = "recv"
    <3>1. \A d \in completed' : d[1] \in Connecting \cup {"disconnect"} => d \in completed
      BY <2>1, <1>3 DEF Connecting
    <3>2. QED  BY <3>1, <1>2, <1>4, DisconnectKept
  <2>2. CASE e = "disconnect"
    <3>1. /\ Alone(ReleaseSteps \cup {"processConnect"}, Connecting \cup {"disconnect"})
          /\ e \in pending \cap (Connecting \cup {"disconnect"})
          /\ \A u \in Threads : Work'[u] \cap (ReleaseSteps \cup {"processConnect"}) \subseteq Work[u]
      BY <2>2, <1>2, <1>4 DEF IInv, DisconnectTurn
    <3>2. Alone(ReleaseSteps \cup {"processConnect"}, Connecting \cup {"disconnect"})'
      BY <3>1, <1>2, <1>3, AloneCompleted
    <3>3. e \in AtKernel({"disconnect"}) /\ e \in AtKernel(Connecting \cup {"disconnect"})
      BY <2>2, <1>2 DEF AtKernel
    <3>4. ~ connected /\ inSessions /\ ~ onDisconnected > 0
      BY <3>3 DEF IInv, DisconnectTurn, Nobody
    <3>5. \A u \in Threads : "releaseSession" \in Work'[u] => "onDisconnected" \in Work'[u]
      BY <3>4, <1>4 DEF IInv, DisconnectTurn
    <3>6. QED  BY <3>2, <3>4, <3>5, <1>2 DEF DisconnectTurn
  <2>3. QED  BY <2>1, <2>2
<1>8. Unpublished'
  <2>1. Published
    BY <1>2 DEF IInv, Unpublished, Connecting
  <2>2. \A d \in completed' : d[1] \in Connecting => d \in completed
    BY <1>3 DEF Connecting
  <2>3. QED  BY <2>1, <2>2, <1>2, <1>4, PublishedKept DEF Published
<1>9. InOrder' /\ Unbroken'
  <2>1. /\ <<"send", "ok">> \in completed' <=> <<"send", "ok">> \in completed
        /\ <<"send", "zero">> \in completed' => <<"send", "zero">> \in completed
    <3>1. <<"send", "ok">>[1] = "send" /\ <<"send", "zero">>[1] = "send"
      OBVIOUS
    <3>2. <<"send", "ok">> # c /\ <<"send", "zero">> # c
      BY <3>1, <1>3
    <3>3. QED  BY <3>2, <1>3
  <2>2. QED  BY <2>1, <1>2, <1>4, UnbrokenKept
<1>10. QED  BY <1>4, <1>5, <1>6, <1>7, <1>8, <1>9 DEF IInv

\* The kernel is done with a send: the peer has the packets, or the connection is gone.
LEMMA CompleteSend == ASSUME IInv, Complete("send") PROVE IInv'
<1> USE DEF sending, service, callers, args
<1>1. PICK result \in {"ok", "zero"} :
        /\ completed' = completed \cup {<<"send", result>>}
        /\ result = "zero" => socket # "open"
        /\ wire' = IF result = "ok" THEN wire \o sendBuffers ELSE wire
  BY DEF Complete
<1>2. /\ "send" \in pending /\ pending' = pending \ {"send"} /\ socket' = socket /\ failed' = failed
      /\ UNCHANGED <<connected, sending, owner, service, callers, crash>>
  BY DEF Complete
<1> DEFINE c == <<"send", result>>
<1>3. c[1] = "send" /\ completed' = completed \cup {c}
  BY <1>1
<1>4. /\ result = "ok" => <<"send", "ok">> \in completed'
      /\ result = "zero" => c # <<"send", "ok">> /\ ~ (<<"send", "zero">> \in completed)
  <2>1. result = "zero" => c # <<"send", "ok">>
    OBVIOUS
  <2>2. "send" \in AtKernel({"send"})
    BY <1>2 DEF AtKernel
  <2>3. InPort({"send"}) = {}
    BY <2>2 DEF IInv, SendTurn, Alone
  <2>4. <<"send", "zero">>[1] = "send"
    OBVIOUS
  <2>5. <<"send", "zero">> \notin completed
    BY <2>3, <2>4 DEF InPort
  <2>6. QED  BY <2>1, <2>5, <1>1
<1> HIDE DEF c
<1>5. TypeOK' /\ Stacks' /\ EventsOwned' /\ NoCrash' /\ \A u \in Threads : Work'[u] = Work[u]
  <2>1. "send" \in Events
    BY DEF Events
  <2>2. QED  BY <2>1, CompleteKeeps
<1>6. Alone(SendSteps, {"send"}) /\ "send" \in AtKernel({"send"})
  BY <1>2 DEF IInv, SendTurn, AtKernel
<1>7. Busy(SendSteps) = {} /\ InPort({"send"}) = {} /\ registered /\ socket # "fresh"
  BY <1>6 DEF Alone, IInv, SendTurn, Nobody, Unbroken
<1>8. <<"send", "ok">> \notin completed
  <2>1. <<"send", "ok">>[1] = "send"
    OBVIOUS
  <2>2. QED  BY <2>1, <1>7 DEF InPort
<1>9. SendTurn'
  <2>1. \A u \in Threads : Work'[u] \cap SendSteps = {}
    BY <1>5, <1>7 DEF Busy
  <2>2. /\ Busy(SendSteps)' = {} /\ Busy({"registerSend", "drain", "afterSend"})' = {}
        /\ Busy({"wsaSend"})' = {}
    BY <2>1 DEF Busy, SendSteps
  <2>3. AtKernel({"send"})' = {} /\ InPort({"send"})' \subseteq {c}
    BY <1>2, <1>3, <1>7 DEF AtKernel, InPort
  <2>4. QED  BY <2>2, <2>3, <1>2, <1>7 DEF SendTurn, Alone
<1>10. ReceiveTurn'
  <2>1. \A u \in Threads : Work'[u] \cap (ConnectSteps \cup RecvSteps) \subseteq Work[u]
    BY <1>5
  <2>2. /\ pending' \cap (Connecting \cup {"recv"}) \subseteq pending
        /\ \A d \in completed' : d[1] \in Connecting \cup {"recv"} => d \in completed
    BY <1>2, <1>3 DEF Connecting
  <2>3. QED  BY <2>1, <2>2, AloneKept DEF IInv, ReceiveTurn
<1>11. DisconnectTurn'
  <2>1. \A d \in completed' : d[1] \in Connecting \cup {"disconnect"} => d \in completed
    BY <1>3 DEF Connecting
  <2>2. QED  BY <2>1, <1>2, <1>5, DisconnectKept
<1>12. Unpublished'
  <2>1. Published
    BY <1>2 DEF IInv, Unpublished, Connecting
  <2>2. \A d \in completed' : d[1] \in Connecting => d \in completed
    BY <1>3 DEF Connecting
  <2>3. QED  BY <2>1, <2>2, <1>2, <1>5, PublishedKept DEF Published
<1>13. Way' = Way
  <2>1. InFlight = sendBuffers
    BY <1>8 DEF InFlight
  <2>2. /\ wire \in Seq(Packets) /\ sendBuffers \in Seq(Packets) /\ sendQueue \in Seq(Packets)
    BY QueuesType DEF IInv
  <2>3. CASE result = "ok"
    <3>1. InFlight' = <<>> /\ wire' = wire \o sendBuffers
      BY <2>3, <1>1, <1>4 DEF InFlight
    <3>2. <<>> \o sendQueue = sendQueue
      BY <2>2, ConcatEmptySeq
    <3>3. (wire \o sendBuffers) \o sendQueue = wire \o (sendBuffers \o sendQueue)
      BY <2>2, ConcatAssociative
    <3>4. QED  BY <2>1, <3>1, <3>2, <3>3, <1>2 DEF Way
  <2>4. CASE result = "zero"
    <3>1. <<"send", "ok">> \notin completed'
      BY <2>4, <1>3, <1>4, <1>8
    <3>2. InFlight' = sendBuffers /\ wire' = wire
      BY <2>4, <3>1, <1>1, <1>2 DEF InFlight
    <3>3. QED  BY <2>1, <3>2, <1>2 DEF Way
  <2>5. QED  BY <2>3, <2>4
<1>14. InOrder'
  BY <1>2, <1>13 DEF IInv, InOrder, Precedes
<1>15. Unbroken'
  <2>1. Broken' <=> Broken
    BY <1>2 DEF Broken
  <2>2. <<"send", "zero">> \in completed' => Broken
    <3>1. result = "zero" => Broken
      BY <1>1, <1>7 DEF Broken
    <3>2. result = "ok" => <<"send", "zero">> # c
      BY DEF c
    <3>3. QED  BY <3>1, <3>2, <1>3 DEF IInv, Unbroken
  <2>3. Busy({"sendFailed"})' = Busy({"sendFailed"})
    BY <1>5 DEF Busy
  <2>4. AtKernel(Connecting)' = AtKernel(Connecting) /\ AtKernel({"send"})' = {}
    BY <1>2 DEF AtKernel, Connecting
  <2>5. QED  BY <2>1, <2>2, <2>3, <2>4, <1>2, <1>13 DEF IInv, Unbroken
<1>16. QED  BY <1>5, <1>9, <1>10, <1>11, <1>12, <1>14, <1>15 DEF IInv

\* Nothing happens but to the socket.
LEMMA ElseUnchanged ==
  ASSUME IInv, UNCHANGED <<connected, sending, owner, service, callers, pending, completed, wire,
                           failed, crash>>
  PROVE  /\ Stacks' /\ SendTurn' /\ ReceiveTurn' /\ DisconnectTurn' /\ Unpublished' /\ NoCrash'
         /\ EventsOwned' /\ InOrder' /\ Way' = Way /\ \A u \in Threads : Work'[u] = Work[u]
<1> USE DEF sending, service, callers, args
<1>1. Work' = Work /\ Stacks' /\ NoCrash'
  BY DEF Work, Stacks, IInv, NoCrash
<1>2. SendTurn'
  BY <1>1, SendKept
<1>3. ReceiveTurn'
  BY <1>1, AloneKept DEF IInv, ReceiveTurn
<1>4. DisconnectTurn'
  BY <1>1, DisconnectKept
<1>5. Unpublished'
  BY <1>1 DEF IInv, Unpublished, Published, Nobody, Busy, AtKernel, InPort
<1>6. EventsOwned'
  BY OwnedKept
<1>7. InOrder' /\ Way' = Way
  BY OrderKept
<1>8. QED  BY <1>1, <1>2, <1>3, <1>4, <1>5, <1>6, <1>7

\* The peer closes or resets the connection.
LEMMA PeerIInv == ASSUME IInv, Peer PROVE IInv'
<1>1. /\ socket # "fresh" /\ socket' \in {"peerClosed", "reset"}
      /\ UNCHANGED <<connected, sending, owner, service, callers, pending, completed, wire, failed,
                     crash>>
  BY DEF Peer
<1>2. /\ Stacks' /\ SendTurn' /\ ReceiveTurn' /\ DisconnectTurn' /\ Unpublished' /\ NoCrash'
      /\ EventsOwned' /\ InOrder' /\ Way' = Way /\ \A u \in Threads : Work'[u] = Work[u]
  BY <1>1, ElseUnchanged
<1>3. TypeOK'
  BY <1>1 DEF IInv, TypeOK, Types, Scopes, sending, service, callers, args
<1>4. Unbroken'
  <2>1. AtKernel(Connecting)' = {} /\ socket' # "fresh" /\ Broken'
    BY <1>1 DEF IInv, Unbroken, AtKernel, Broken
  <2>2. QED  BY <2>1 DEF Unbroken
<1>5. QED  BY <1>2, <1>3, <1>4 DEF IInv

\* Nothing happens at all.
LEMMA StutterIInv == ASSUME IInv, UNCHANGED vars PROVE IInv'
<1>1. /\ UNCHANGED <<connected, sending, owner, service, callers, pending, completed, wire, failed,
                     crash>>
      /\ socket' = socket
  BY DEF vars, kernel
<1>2. /\ Stacks' /\ SendTurn' /\ ReceiveTurn' /\ DisconnectTurn' /\ Unpublished' /\ NoCrash'
      /\ EventsOwned' /\ InOrder' /\ Way' = Way /\ \A u \in Threads : Work'[u] = Work[u]
  BY <1>1, ElseUnchanged
<1>3. TypeOK'
  BY <1>1 DEF IInv, TypeOK, Types, Scopes, sending, service, callers, args
<1>4. Unbroken'
  <2>1. /\ Broken' <=> Broken
        /\ Busy({"sendFailed"})' = Busy({"sendFailed"})
        /\ AtKernel(Connecting)' = AtKernel(Connecting) /\ AtKernel({"send"})' = AtKernel({"send"})
    BY <1>1, <1>2 DEF Broken, Busy, AtKernel
  <2>2. QED  BY <2>1, <1>1, <1>2 DEF IInv, Unbroken, sending
<1>5. QED  BY <1>2, <1>3, <1>4 DEF IInv
-----------------------------------------------------------------------------
(* The invariant *)

\* It holds of a session on which connect or accept is pending.
LEMMA InitIInv == Init => IInv
<1> SUFFICES ASSUME Init PROVE IInv
  OBVIOUS
<1>1. /\ todo = [t \in Threads |-> <<>>] /\ Work = [t \in Threads |-> {}]
      /\ completed = {} /\ pending \subseteq Connecting /\ owner \subseteq {"connect"}
      /\ "connect" \in pending => "connect" \in owner
      /\ \A e, f \in pending : e = f
  BY RangeOf DEF Init, Work, RegisterConnect, RegisterAccept, Connecting
<1>2. /\ \A S : Busy(S) = {} /\ InPort(S) = {}
      /\ \A E : AtKernel(E) \subseteq pending
      /\ AtKernel({"send"}) = {} /\ AtKernel({"disconnect"}) = {}
  BY <1>1 DEF Busy, InPort, AtKernel, Connecting
<1>3. TypeOK
  <2>1. Types
    <3>1. made \in 0 .. MaxPackets /\ onDisconnected \in Nat
      BY SessionAssumption DEF Init
    <3>2. todo \in [Threads -> Seq(Steps)] /\ arg \in [Threads -> Packets \cup {NoPacket}]
      BY <1>1, EmptySeq DEF Init
    <3>3. /\ sendQueue \in Seq(Packets) /\ sendBuffers \in Seq(Packets)
          /\ wire \in Seq(Packets) /\ pushed \in Seq(Packets)
      BY EmptySeq DEF Init
    <3>4. owner \subseteq Events /\ pending \subseteq Events
      BY <1>1 DEF Events, Connecting
    <3>5. QED  BY <3>1, <3>2, <3>3, <3>4 DEF Init, Types
  <2>2. ScopesOfWork
    BY <1>1, SessionAssumption DEF Init, ScopesOfWork, NoPacket
  <2>3. QED  BY <2>1, <2>2, ScopesByWork DEF TypeOK
<1>4. Stacks
  BY <1>1, StacksOfSteps DEF Stacks
<1>5. \A S, E : Alone(S, E)
  BY <1>1, <1>2 DEF Alone
<1>6. SendTurn
  BY <1>1, <1>2, <1>5 DEF Init, SendTurn, Nobody
<1>7. ReceiveTurn
  BY <1>5 DEF ReceiveTurn
<1>8. DisconnectTurn
  BY <1>1, <1>2, <1>5 DEF Init, DisconnectTurn, Nobody
<1>9. Unpublished
  BY <1>1, <1>2 DEF Init, Unpublished, Published
<1>10. NoCrash /\ EventsOwned
  BY <1>1 DEF Init, NoCrash, EventsOwned, Completed, Connecting
<1>11. Way = <<>> /\ pushed = <<>> /\ InFlight = <<>>
  BY <1>1 DEF Init, Way, InFlight
<1>12. InOrder
  BY <1>11 DEF InOrder
<1>13. Unbroken
  BY <1>1, <1>2, <1>11 DEF Init, Unbroken
<1>14. QED  BY <1>3, <1>4, <1>6, <1>7, <1>8, <1>9, <1>10, <1>12, <1>13 DEF IInv

\* Every step keeps it.
LEMMA NextIInv == ASSUME IInv, [Next]_vars PROVE IInv'
<1>1. ASSUME NEW t \in Threads, CallSend(t) \/ CallDisconnect(t) \/ Broadcast(t) PROVE IInv'
  BY <1>1, CallSendIInv, CallDisconnectIInv, BroadcastIInv
<1>2. ASSUME NEW t \in Threads, Proceed(t) PROVE IInv'
  BY <1>2, PushIInv, RegisterSendIInv, DrainIInv, WsaSendIInv, SendFailedIInv, AfterSendIInv,
     UnlockIInv, ServiceUnlockIInv, ProcessConnectIInv, AddSessionIInv, HandleIInv,
     RegisterRecvIInv, WsaRecvIInv, RecvFailedIInv, DisconnectIInv, RegisterDisconnectIInv,
     OnDisconnectedIInv, ReleaseSessionIInv DEF Proceed
<1>3. ASSUME NEW t \in Threads, NEW e \in Events, Dispatch(t, e) PROVE IInv'
  <2>1. e \in Connecting \/ e = "recv" \/ e = "send" \/ e = "disconnect"
    BY DEF Events, Connecting
  <2>2. QED  BY <2>1, <1>3, DispatchConnect, DispatchRecv, DispatchSend, DispatchDisconnect
<1>4. ASSUME NEW e \in Events, Complete(e) PROVE IInv'
  <2>1. e \in Connecting \/ e \in {"recv", "disconnect"} \/ e = "send"
    BY DEF Events, Connecting
  <2>2. QED  BY <2>1, <1>4, CompleteConnect, CompleteOther, CompleteSend
<1>5. QED  BY <1>1, <1>2, <1>3, <1>4, PeerIInv, StutterIInv DEF Next

\* It always holds.
LEMMA Invariance == Spec => []IInv
<1>1. Init => IInv
  BY InitIInv
<1>2. IInv /\ [Next]_vars => IInv'
  BY NextIInv
<1>3. QED  BY <1>1, <1>2, PTL DEF Spec

\* The variables keep their types, and the locks and packets belong to the threads that
\* are in the scopes and calls they are for.
THEOREM TypeCorrect == Spec => []TypeOK
<1>1. IInv => TypeOK
  BY DEF IInv
<1>2. QED  BY <1>1, Invariance, PTL

\* The event of an operation under way owns the session, unless DisconnectEx failed at
\* once under a pending receive (RegisterDisconnect clears the owner of the wrong event).
THEOREM EventsAreOwned == Spec => []EventsOwned
<1>1. IInv => EventsOwned
  BY DEF IInv
<1>2. QED  BY <1>1, Invariance, PTL

\* How many parties have a turn that one has at a time.
LEMMA AloneCount ==
  ASSUME NEW S, NEW e, Alone(S, {e})
  PROVE  /\ Cardinality(Busy(S)) + (IF e \in pending THEN 1 ELSE 0) + Cardinality(InPort({e})) <= 1
         /\ Nobody(S, {e}) =>
              Cardinality(Busy(S)) + (IF e \in pending THEN 1 ELSE 0) + Cardinality(InPort({e})) = 0
<1>1. Cardinality({}) = 0 /\ \A x : Cardinality({x}) = 1
  BY FS_EmptySet, FS_Singleton
<1>2. Busy(S) = {} \/ \E t : Busy(S) = {t}
  BY DEF Alone
<1>3. InPort({e}) = {} \/ \E c : InPort({e}) = {c}
  BY DEF Alone
<1>4. e \in pending <=> AtKernel({e}) # {}
  BY DEF AtKernel
<1>5. /\ Busy(S) = {} \/ AtKernel({e}) = {}
      /\ Busy(S) = {} \/ InPort({e}) = {}
      /\ AtKernel({e}) = {} \/ InPort({e}) = {}
  BY DEF Alone
<1>6. Cardinality(Busy(S)) = IF Busy(S) = {} THEN 0 ELSE 1
  BY <1>1, <1>2
<1>7. Cardinality(InPort({e})) = IF InPort({e}) = {} THEN 0 ELSE 1
  BY <1>1, <1>3
<1>8. CASE Nobody(S, {e})
  BY <1>4, <1>6, <1>7, <1>8 DEF Nobody
<1>9. CASE ~ Nobody(S, {e})
  BY <1>4, <1>5, <1>6, <1>7, <1>9 DEF Nobody
<1>10. QED  BY <1>8, <1>9

\* One send and one receive at a time, whatever threads call and whatever completes: the
\* event and the buffers of a send are never reused under it.
THEOREM OneAtATime == Spec => []OneOfEach
<1>1. ASSUME IInv PROVE OneOfEach
  <2>1. \A e : InPort({e}) = {c \in completed : c[1] = e}
    BY DEF InPort
  <2>2. Busy(SendSteps) = {t \in Threads : SendDriver(t)}
    BY DEF Busy, SendDriver, Work
  <2>3. Busy(RecvSteps) = {t \in Threads : Range(todo[t]) \cap RecvSteps # {}}
    BY DEF Busy, Work
  <2>4. OneSend
    <3>1. /\ Alone(SendSteps, {"send"})
          /\ ~ registered => Nobody(SendSteps, {"send"}) /\ "send" \notin owner /\ sendBuffers = <<>>
      BY <1>1 DEF IInv, SendTurn
    <3>2. /\ Cardinality(Busy(SendSteps)) + (IF "send" \in pending THEN 1 ELSE 0)
               + Cardinality(InPort({"send"})) <= 1
          /\ Nobody(SendSteps, {"send"}) =>
               Cardinality(Busy(SendSteps)) + (IF "send" \in pending THEN 1 ELSE 0)
                 + Cardinality(InPort({"send"})) = 0
      BY <3>1, AloneCount
    <3>3. QED  BY <2>1, <2>2, <3>1, <3>2 DEF OneSend
  <2>5. OneRecv
    <3>1. Alone(ConnectSteps \cup RecvSteps, Connecting \cup {"recv"})
      BY <1>1 DEF IInv, ReceiveTurn
    <3>2. /\ Busy(RecvSteps) \subseteq Busy(ConnectSteps \cup RecvSteps)
          /\ AtKernel({"recv"}) \subseteq AtKernel(Connecting \cup {"recv"})
          /\ InPort({"recv"}) \subseteq InPort(Connecting \cup {"recv"})
      BY DEF Busy, AtKernel, InPort
    <3>3. Alone(RecvSteps, {"recv"})
      BY <3>1, <3>2 DEF Alone
    <3>4. Cardinality(Busy(RecvSteps)) + (IF "recv" \in pending THEN 1 ELSE 0)
            + Cardinality(InPort({"recv"})) <= 1
      BY <3>3, AloneCount
    <3>5. QED  BY <2>1, <2>3, <3>4 DEF OneRecv
  <2>6. QED  BY <2>4, <2>5 DEF OneOfEach
<1>2. QED  BY <1>1, Invariance, PTL

\* The peer gets the packets in the order they were queued; on an open socket where no
\* WSASend failed at once none of them is missing.
THEOREM SendsInOrder == Spec => []SentInOrder
<1>1. ASSUME IInv PROVE SentInOrder
  <2>1. /\ wire \in Seq(Packets) /\ InFlight \in Seq(Packets) /\ sendQueue \in Seq(Packets)
        /\ InFlight \o sendQueue \in Seq(Packets)
    BY <1>1, QueuesType DEF IInv
  <2>2. ASSUME NEW i \in DOMAIN wire, NEW j \in DOMAIN wire, i < j
        PROVE  \E k, l \in DOMAIN pushed : k < l /\ pushed[k] = wire[i] /\ pushed[l] = wire[j]
    <3>1. wire[i] \in Packets /\ wire[j] \in Packets
      BY <2>1, LenProperties, ElementOfSeq
    <3>2. Precedes(wire[i], wire[j], wire)
      BY <2>2 DEF Precedes
    <3>3. Precedes(wire[i], wire[j], wire \o (InFlight \o sendQueue))
      BY <2>1, <3>2, PrecedesConcat
    <3>4. Precedes(wire[i], wire[j], pushed)
      BY <3>1, <3>3, <1>1 DEF IInv, InOrder, Way
    <3>5. QED  BY <3>4 DEF Precedes
  <2>3. ASSUME socket = "open", "send" \notin failed PROVE pushed = wire \o InFlight \o sendQueue
    <3>1. pushed = wire \o (InFlight \o sendQueue)
      BY <2>3, <1>1 DEF IInv, Unbroken, Broken, Way
    <3>2. QED  BY <2>1, <3>1, ConcatAssociative
  <2>4. QED  BY <2>2, <2>3 DEF SentInOrder, InFlight
<1>2. QED  BY <1>1, Invariance, PTL

\* A connected session is in its service's set or on the way there; it is released once,
\* after OnDisconnected, and the assertion in ReleaseSession never fails.
THEOREM CountsOnce == Spec => []CountedOnce
<1>1. ASSUME IInv PROVE CountedOnce
  <2>1. onDisconnected \in Nat /\ (onDisconnected > 0 => onDisconnected = 1 /\ ~ connected)
    BY <1>1 DEF IInv, TypeOK, Types, DisconnectTurn
  <2>2. onDisconnected <= 1 /\ (connected => onDisconnected = 0)
    BY <2>1
  <2>3. ASSUME connected PROVE inSessions \/ \E t \in Threads : "addSession" \in Range(todo[t])
    <3>1. CASE Published
      BY <2>2, <2>3, <3>1 DEF Published
    <3>2. CASE ~ Published
      <4>1. Busy({"addSession"}) # {}
        BY <2>3, <3>2, <1>1 DEF IInv, Unpublished
      <4>2. QED  BY <4>1 DEF Busy, Work
    <3>3. QED  BY <3>1, <3>2
  <2>4. QED  BY <2>2, <2>3, <1>1 DEF CountedOnce, IInv, NoCrash
<1>2. QED  BY <1>1, Invariance, PTL
=============================================================================
