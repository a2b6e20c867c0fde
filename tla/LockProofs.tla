----------------------------- MODULE LockProofs -----------------------------
(***************************************************************************)
(* Proofs about Lock, for any number of threads and any depth of guards.    *)
(***************************************************************************)
EXTENDS Lock, SequenceTheorems, FiniteSetTheorems, TLAPS

\* The last guard of a sequence goes on, or off, its end.
LEMMA AppendGuard ==
  ASSUME NEW s \in Seq(Kind), NEW k \in Kind
  PROVE  /\ Append(s, k) \in Seq(Kind)
         /\ Len(Append(s, k)) = Len(s) + 1
         /\ Append(s, k)[Len(s) + 1] = k
         /\ \A i \in DOMAIN s : Append(s, k)[i] = s[i]
         /\ DOMAIN Append(s, k) = DOMAIN s \cup {Len(s) + 1}
         /\ Len(s) + 1 \notin DOMAIN s
<1>1. Len(s) \in Nat /\ DOMAIN s = 1 .. Len(s)
  BY LenProperties
<1>2. /\ Append(s, k) \in Seq(Kind)
      /\ Len(Append(s, k)) = Len(s) + 1
      /\ \A i \in 1 .. Len(s) : Append(s, k)[i] = s[i]
      /\ Append(s, k)[Len(s) + 1] = k
  BY AppendProperties
<1>3. DOMAIN Append(s, k) = 1 .. Len(s) + 1
  BY <1>2, LenProperties
<1>4. 1 .. Len(s) + 1 = 1 .. Len(s) \cup {Len(s) + 1} /\ Len(s) + 1 \notin 1 .. Len(s)
  BY <1>1
<1>5. QED  BY ONLY <1>1, <1>2, <1>3, <1>4

\* What is left of a stack of guards without its last.
LEMMA DropGuard ==
  ASSUME NEW s \in Seq(Kind), s # <<>>
  PROVE  LET d == SubSeq(s, 1, Len(s) - 1) IN
         /\ d \in Seq(Kind)
         /\ s[Len(s)] \in Kind
         /\ Len(s) \in DOMAIN s
         /\ DOMAIN d = DOMAIN s \ {Len(s)}
         /\ \A i \in DOMAIN d : d[i] = s[i]
<1> DEFINE d == SubSeq(s, 1, Len(s) - 1)
<1>1. Len(s) \in Nat \ {0} /\ DOMAIN s = 1 .. Len(s)
  BY LenProperties, EmptySeq
<1>2. /\ d \in Seq(Kind) /\ Len(d) = Len(s) - 1
      /\ \A i \in 1 .. Len(s) - 1 : d[i] = s[i]
  <2>1. 1 \in 1 .. Len(s) + 1 /\ Len(s) - 1 \in 1 - 1 .. Len(s)
    BY <1>1
  <2>2. QED  BY <1>1, <2>1, SubSeqProperties
<1>3. DOMAIN d = 1 .. Len(s) - 1
  BY <1>2, LenProperties
<1>4. 1 .. Len(s) - 1 = (1 .. Len(s)) \ {Len(s)} /\ Len(s) \in 1 .. Len(s)
  BY <1>1
<1>5. s[Len(s)] \in Kind
  BY <1>1, ElementOfSeq
<1>6. QED  BY ONLY <1>1, <1>2, <1>3, <1>4, <1>5

\* What the threads hold and want fits the bound on nesting.
Bounded ==
  \A t \in Threads :
    /\ Len(guards[t]) <= MaxGuards
    /\ want[t] # "none" => Len(guards[t]) < MaxGuards

\* A thread becomes the writer with its first guard only.
WriterFirst == \A t \in Threads : Holds(t, "W") => guards[t][1] = "W"

\* The inductive invariant.
IInv ==
  /\ TypeOK /\ Bounded /\ WriterFirst
  /\ MutualExclusion /\ FlagTellsGuards /\ CrashesExplained

\* The free lock satisfies the invariant.
LEMMA InitIInv == Init => IInv
<1> SUFFICES ASSUME Init PROVE IInv
  OBVIOUS
<1>1. \A t \in Threads : guards[t] = <<>> /\ want[t] = "none"
  BY DEF Init
<1>2. TypeOK
  <2>1. guards \in [Threads -> Seq(Kind)]
    BY EmptySeq DEF Init
  <2>2. QED  BY <2>1 DEF Init, TypeOK
<1>3. DOMAIN <<>> = {} /\ Len(<<>>) = 0
  BY EmptySeq
<1>4. Bounded
  BY <1>1, <1>3, LockAssumption DEF Bounded
<1>5. GuardsOf("R") = {} /\ GuardsOf("W") = {}
  BY <1>1, <1>3 DEF GuardsOf
<1>6. \A t \in Threads : ~ Holds(t, "W")
  BY <1>1, <1>3 DEF Holds
<1>7. FlagTellsGuards
  BY <1>5, <1>6, FS_EmptySet, LockAssumption DEF FlagTellsGuards, Init
<1>8. MutualExclusion /\ WriterFirst
  BY <1>6 DEF MutualExclusion, WriterFirst
<1>9. CrashesExplained
  BY DEF CrashesExplained, Init
<1>10. QED  BY <1>2, <1>4, <1>7, <1>8, <1>9 DEF IInv

\* There are finitely many guards.
LEMMA GuardsFinite ==
  ASSUME NEW k \in Kind
  PROVE  IsFiniteSet(GuardsOf(k)) /\ Cardinality(GuardsOf(k)) \in Nat
<1>1. IsFiniteSet(1 .. MaxGuards)
  BY FS_Interval, LockAssumption
<1>2. IsFiniteSet(Threads \X (1 .. MaxGuards))
  BY <1>1, FS_Product, LockAssumption
<1>3. GuardsOf(k) \subseteq Threads \X (1 .. MaxGuards)
  BY DEF GuardsOf
<1>4. QED  BY <1>2, <1>3, FS_Subset, FS_CardinalityType

\* Taking a guard adds one to the guards of its kind and none to the other.
LEMMA TakenGuards ==
  ASSUME TypeOK, NEW t \in Threads, NEW k \in Kind, Taken(t, k), Len(guards[t]) < MaxGuards
  PROVE  /\ guards' \in [Threads -> Seq(Kind)]
         /\ guards'[t] = Append(guards[t], k)
         /\ \A u \in Threads : u # t => guards'[u] = guards[u]
         /\ Cardinality(GuardsOf(k))' = Cardinality(GuardsOf(k)) + 1
         /\ \A o \in Kind : o # k => Cardinality(GuardsOf(o))' = Cardinality(GuardsOf(o))
         /\ \A u \in Threads, o \in Kind :
              Holds(u, o)' <=> Holds(u, o) \/ (u = t /\ o = k)
<1> DEFINE n == Len(guards[t]) + 1
           g == <<t, n>>
<1>1. guards \in [Threads -> Seq(Kind)] /\ guards[t] \in Seq(Kind)
  BY DEF TypeOK
<1>2. /\ guards' \in [Threads -> Seq(Kind)]
      /\ guards'[t] = Append(guards[t], k)
      /\ \A u \in Threads : u # t => guards'[u] = guards[u]
  BY <1>1, AppendGuard DEF Taken
<1>3. /\ guards'[t][n] = k
      /\ \A i \in DOMAIN guards[t] : guards'[t][i] = guards[t][i]
      /\ DOMAIN guards'[t] = DOMAIN guards[t] \cup {n}
      /\ n \notin DOMAIN guards[t]
  BY <1>1, <1>2, AppendGuard
<1>4. n \in 1 .. MaxGuards
  BY <1>1, LenProperties, LockAssumption
<1>5. GuardsOf(k)' = GuardsOf(k) \cup {g} /\ g \notin GuardsOf(k)
  BY <1>2, <1>3, <1>4 DEF GuardsOf
<1>6. \A o \in Kind : o # k => GuardsOf(o)' = GuardsOf(o)
  BY <1>2, <1>3, <1>4 DEF GuardsOf
<1>7. Cardinality(GuardsOf(k) \cup {g}) = Cardinality(GuardsOf(k)) + 1
  BY <1>5, GuardsFinite, FS_AddElement
<1>8. \A u \in Threads, o \in Kind : Holds(u, o)' <=> Holds(u, o) \/ (u = t /\ o = k)
  BY <1>2, <1>3 DEF Holds
<1>9. QED  BY <1>2, <1>5, <1>6, <1>7, <1>8

\* Dropping the innermost guard takes one away from the guards of its kind.
LEMMA DroppedGuards ==
  ASSUME TypeOK, Bounded, NEW t \in Threads, Dropped(t), guards[t] # <<>>,
         NEW k \in Kind, k = Innermost(t)
  PROVE  LET d == guards'[t] IN
         /\ guards' \in [Threads -> Seq(Kind)]
         /\ \A u \in Threads : u # t => guards'[u] = guards[u]
         /\ DOMAIN d \subseteq DOMAIN guards[t]
         /\ \A i \in DOMAIN d : d[i] = guards[t][i]
         /\ \A i \in DOMAIN guards[t] : i # Len(guards[t]) => i \in DOMAIN d
         /\ Len(guards[t]) \in DOMAIN guards[t]
         /\ Len(d) <= Len(guards[t])
         /\ Cardinality(GuardsOf(k)) \in Nat \ {0}
         /\ Cardinality(GuardsOf(k))' = Cardinality(GuardsOf(k)) - 1
         /\ \A o \in Kind : o # k => Cardinality(GuardsOf(o))' = Cardinality(GuardsOf(o))
<1> DEFINE n == Len(guards[t])
           g == <<t, n>>
           d == SubSeq(guards[t], 1, n - 1)
<1>1. guards \in [Threads -> Seq(Kind)] /\ guards[t] \in Seq(Kind)
  BY DEF TypeOK
<1>2. /\ d \in Seq(Kind) /\ n \in DOMAIN guards[t]
      /\ DOMAIN d = DOMAIN guards[t] \ {n}
      /\ \A i \in DOMAIN d : d[i] = guards[t][i]
  BY <1>1, DropGuard DEF Innermost
<1>3. /\ guards' \in [Threads -> Seq(Kind)]
      /\ guards'[t] = d
      /\ \A u \in Threads : u # t => guards'[u] = guards[u]
  BY <1>1, <1>2 DEF Dropped
<1>4. n \in 1 .. MaxGuards
  BY <1>1, <1>2, LenProperties, LockAssumption DEF Bounded
<1>5. /\ DOMAIN guards'[t] = DOMAIN guards[t] \ {n} /\ n \in DOMAIN guards[t]
      /\ \A i \in DOMAIN guards'[t] : guards'[t][i] = guards[t][i]
      /\ guards[t][n] = k
  BY <1>2, <1>3 DEF Innermost
<1>6. /\ GuardsOf(k)' = GuardsOf(k) \ {g} /\ g \in GuardsOf(k)
      /\ \A o \in Kind : o # k => GuardsOf(o)' = GuardsOf(o)
  <2> HIDE DEF n, d
  <2>1. ASSUME NEW h \in Threads \X (1 .. MaxGuards), NEW o \in Kind
        PROVE  h \in GuardsOf(o)' <=> h \in GuardsOf(o) /\ h # g
    <3>1. h = <<h[1], h[2]>> /\ h[1] \in Threads
      OBVIOUS
    <3>2. h = g <=> h[1] = t /\ h[2] = n
      BY <3>1
    <3>3. CASE h[1] = t
      BY <1>5, <3>2, <3>3 DEF GuardsOf
    <3>4. CASE h[1] # t
      BY <1>3, <3>1, <3>2, <3>4 DEF GuardsOf
    <3>5. QED  BY <3>3, <3>4
  <2>2. \A o \in Kind : /\ GuardsOf(o) \subseteq Threads \X (1 .. MaxGuards)
                        /\ GuardsOf(o)' \subseteq Threads \X (1 .. MaxGuards)
    BY DEF GuardsOf
  <2>3. g \in GuardsOf(k) /\ \A o \in Kind : o # k => g \notin GuardsOf(o)
    BY <1>4, <1>5 DEF GuardsOf
  <2>5. \A h : h \in GuardsOf(k)' <=> h \in GuardsOf(k) \ {g}
    BY <2>1, <2>2
  <2>6. ASSUME NEW o \in Kind, o # k PROVE GuardsOf(o)' = GuardsOf(o)
    <3>1. \A h : h \in GuardsOf(o)' <=> h \in GuardsOf(o)
      BY <2>1, <2>2, <2>3, <2>6
    <3>2. QED  BY <3>1
  <2>7. GuardsOf(k)' = GuardsOf(k) \ {g}
    BY <2>5
  <2>8. QED  BY <2>3, <2>6, <2>7
<1>7. /\ Cardinality(GuardsOf(k)) \in Nat \ {0}
      /\ Cardinality(GuardsOf(k) \ {g}) = Cardinality(GuardsOf(k)) - 1
  <2>1. IsFiniteSet(GuardsOf(k)) /\ Cardinality(GuardsOf(k)) \in Nat
    BY <1>2, GuardsFinite
  <2>2. Cardinality(GuardsOf(k)) # 0
    BY <1>6, <2>1, FS_EmptySet
  <2>3. Cardinality(GuardsOf(k) \ {g}) = Cardinality(GuardsOf(k)) - 1
    BY <1>6, <2>1, FS_RemoveElement
  <2>4. QED  BY <2>1, <2>2, <2>3
<1>8. Len(d) <= Len(guards[t])
  BY <1>1, <1>2, <1>4, LenProperties, DropGuard
<1>9. QED  BY <1>2, <1>3, <1>5, <1>6, <1>7, <1>8

-----------------------------------------------------------------------------
(* IInv is inductive *)

\* Every guard in a stack is a read or a write guard, so a thread without either has none.
LEMMA NoGuards ==
  ASSUME TypeOK, NEW t \in Threads, ~ Holds(t, "W"), ~ Holds(t, "R")
  PROVE  guards[t] = <<>>
<1>1. guards[t] \in Seq(Kind)
  BY DEF TypeOK
<1>2. \A i \in DOMAIN guards[t] : guards[t][i] \in Kind
  BY <1>1, LenProperties, ElementOfSeq
<1>3. 1 \notin DOMAIN guards[t]
  BY <1>2 DEF Holds, Kind
<1>4. Len(guards[t]) = 0
  BY <1>1, <1>3, LenProperties
<1>5. QED  BY <1>1, <1>4, EmptySeq

\* A thread that holds a read guard makes the read count positive.
LEMMA HeldIsCounted ==
  ASSUME IInv, NEW t \in Threads, NEW k \in Kind, Holds(t, k)
  PROVE  Cardinality(GuardsOf(k)) # 0
<1>1. guards[t] \in Seq(Kind) /\ Len(guards[t]) \in Nat /\ Len(guards[t]) <= MaxGuards
  BY LenProperties DEF IInv, TypeOK, Bounded
<1>2. PICK i \in DOMAIN guards[t] : guards[t][i] = k
  BY DEF Holds
<1>3. i \in 1 .. MaxGuards
  BY <1>1, <1>2, LenProperties, LockAssumption
<1>4. <<t, i>> \in GuardsOf(k)
  BY <1>2, <1>3 DEF GuardsOf
<1>5. QED  BY <1>4, GuardsFinite, FS_EmptySet

\* Taking a guard: the first one on a lock without a writer, or any one as the writer.
LEMMA TakeIInv ==
  ASSUME IInv, NEW t \in Threads, NEW k \in Kind, Taken(t, k), Len(guards[t]) < MaxGuards,
         crash = "no", crash' = crash,
         want' = want \/ want' = [want EXCEPT ![t] = "none"], want'[t] = "none",
         writer = t \/ (writer = NoThread /\ (k = "W" => readers = 0)),
         writer' = IF k = "W" THEN t ELSE writer,
         readers' = IF k = "R" THEN readers + 1 ELSE readers,
         writeCount' = IF k = "W" THEN writeCount + 1 ELSE writeCount
  PROVE  IInv'
<1>1. /\ TypeOK /\ Bounded /\ WriterFirst /\ MutualExclusion /\ FlagTellsGuards
      /\ "R" \in Kind /\ "W" \in Kind
  BY DEF IInv, Kind
<1>2. /\ guards' \in [Threads -> Seq(Kind)]
      /\ guards'[t] = Append(guards[t], k)
      /\ \A u \in Threads : u # t => guards'[u] = guards[u]
      /\ Cardinality(GuardsOf(k))' = Cardinality(GuardsOf(k)) + 1
      /\ \A o \in Kind : o # k => Cardinality(GuardsOf(o))' = Cardinality(GuardsOf(o))
      /\ \A u \in Threads, o \in Kind : Holds(u, o)' <=> Holds(u, o) \/ (u = t /\ o = k)
  BY <1>1, TakenGuards
<1>3. guards[t] \in Seq(Kind) /\ Len(guards[t]) \in Nat
  BY <1>1, LenProperties DEF TypeOK
<1>4. TypeOK'
  BY <1>1, <1>2 DEF TypeOK
<1>5. Bounded'
  <2>1. Len(guards'[t]) = Len(guards[t]) + 1
    BY <1>2, <1>3, AppendGuard
  <2>2. ASSUME NEW u \in Threads
        PROVE  Len(guards'[u]) <= MaxGuards /\ (want'[u] # "none" => Len(guards'[u]) < MaxGuards)
    <3>1. CASE u = t
      BY <1>3, <2>1, <3>1, LockAssumption
    <3>2. CASE u # t
      <4>1. want'[u] = want[u]
        BY <1>1, <3>2 DEF TypeOK
      <4>2. QED  BY <1>1, <1>2, <3>2, <4>1 DEF Bounded
    <3>3. QED  BY <3>1, <3>2
  <2>3. QED  BY <2>2 DEF Bounded
<1>6. \A u \in Threads : Holds(u, "W") <=> writer = u
  BY <1>1 DEF FlagTellsGuards
<1>7. FlagTellsGuards'
  <2>1. \A u \in Threads : writer' = u <=> Holds(u, "W")'
    BY <1>1, <1>2, <1>6, LockAssumption
  <2>2. readers' = Cardinality(GuardsOf("R"))' /\ writeCount' = Cardinality(GuardsOf("W"))'
    BY <1>1, <1>2 DEF FlagTellsGuards, Kind
  <2>3. QED  BY <2>1, <2>2 DEF FlagTellsGuards
<1>8. k = "W" /\ writer # t => \A u \in Threads : guards[u] = <<>>
  <2> SUFFICES ASSUME k = "W", writer # t, NEW u \in Threads PROVE guards[u] = <<>>
    OBVIOUS
  <2>1. ~ Holds(u, "R")
    BY <1>1, HeldIsCounted DEF FlagTellsGuards
  <2>2. ~ Holds(u, "W")
    BY <1>6, LockAssumption
  <2>3. QED  BY <1>1, <2>1, <2>2, NoGuards
<1>9. MutualExclusion'
  <2> SUFFICES ASSUME NEW u \in Threads, NEW v \in Threads, u # v, Holds(u, "W")'
               PROVE  guards'[v] = <<>>
    BY DEF MutualExclusion
  <2>1. CASE writer = t
    <3>1. u = t /\ Holds(t, "W")
      BY <1>1, <1>2, <1>6, <2>1
    <3>2. QED  BY <1>1, <1>2, <3>1 DEF MutualExclusion
  <2>2. CASE writer # t
    <3>1. u = t /\ k = "W"
      BY <1>1, <1>2, <1>6, <2>2, LockAssumption
    <3>2. QED  BY <1>2, <1>8, <2>2, <3>1
  <2>3. QED  BY <2>1, <2>2
<1>10. WriterFirst'
  <2> SUFFICES ASSUME NEW u \in Threads, Holds(u, "W")' PROVE guards'[u][1] = "W"
    BY DEF WriterFirst
  <2>1. CASE u # t
    BY <1>1, <1>2, <2>1 DEF WriterFirst
  <2>2. CASE u = t /\ Holds(t, "W")
    <3>1. guards[t][1] = "W" /\ 1 \in DOMAIN guards[t]
      BY <1>1, <1>3, <2>2, LenProperties DEF WriterFirst, Holds
    <3>2. QED  BY <1>2, <1>3, <2>2, <3>1, AppendGuard
  <2>3. CASE u = t /\ ~ Holds(t, "W")
    <3>1. k = "W" /\ writer # t
      BY <1>1, <1>2, <1>6, <2>3
    <3>2. guards[t] = <<>> /\ Len(guards[t]) = 0
      BY <1>8, <3>1, EmptySeq
    <3>3. QED  BY <1>2, <1>3, <2>3, <3>1, <3>2, AppendGuard
  <2>4. QED  BY <2>1, <2>2, <2>3
<1>11. CrashesExplained'
  BY DEF CrashesExplained
<1>12. QED  BY <1>4, <1>5, <1>7, <1>9, <1>10, <1>11 DEF IInv

\* A thread that starts to spin, and a timeout, leave the guards as they are.
LEMMA WaitIInv ==
  ASSUME IInv, NEW t \in Threads, UNCHANGED <<flag, guards>>,
         \/ /\ Len(guards[t]) < MaxGuards /\ crash' = crash
            /\ \E k \in Kind : want' = [want EXCEPT ![t] = k]
         \/ crash' = "LOCK_TIMEOUT" /\ want' = want
         \/ crash' = crash /\ want' = want
  PROVE  IInv'
<1>1. TypeOK' /\ Bounded'
  BY DEF IInv, TypeOK, Bounded, flag
<1>2. /\ \A k \in Kind : GuardsOf(k)' = GuardsOf(k)
      /\ \A u \in Threads, k \in Kind : Holds(u, k)' <=> Holds(u, k)
  BY DEF GuardsOf, Holds
<1>3. WriterFirst' /\ MutualExclusion'
  BY <1>2 DEF IInv, WriterFirst, MutualExclusion, Kind
<1>4. FlagTellsGuards'
  BY <1>2 DEF IInv, FlagTellsGuards, Kind, flag
<1>5. CrashesExplained'
  BY DEF IInv, CrashesExplained
<1>6. QED  BY <1>1, <1>3, <1>4, <1>5 DEF IInv

\* Dropping a guard: the last write guard frees the lock.
LEMMA DropIInv ==
  ASSUME IInv, NEW t \in Threads, Dropped(t), guards[t] # <<>>, crash = "no", crash' = crash,
         want' = want, NEW k \in Kind, k = Innermost(t),
         writer' = IF k = "W" /\ writeCount = 1 THEN NoThread ELSE writer,
         readers' = IF k = "R" THEN readers - 1 ELSE readers,
         writeCount' = IF k = "W" THEN writeCount - 1 ELSE writeCount
  PROVE  IInv'
<1>1. TypeOK /\ Bounded /\ WriterFirst /\ MutualExclusion /\ FlagTellsGuards
  BY DEF IInv
<1>2. /\ guards' \in [Threads -> Seq(Kind)]
      /\ \A u \in Threads : u # t => guards'[u] = guards[u]
      /\ DOMAIN guards'[t] \subseteq DOMAIN guards[t]
      /\ \A i \in DOMAIN guards'[t] : guards'[t][i] = guards[t][i]
      /\ \A i \in DOMAIN guards[t] : i # Len(guards[t]) => i \in DOMAIN guards'[t]
      /\ Len(guards[t]) \in DOMAIN guards[t]
      /\ Len(guards'[t]) <= Len(guards[t])
      /\ Cardinality(GuardsOf(k)) \in Nat \ {0}
      /\ Cardinality(GuardsOf(k))' = Cardinality(GuardsOf(k)) - 1
      /\ \A o \in Kind : o # k => Cardinality(GuardsOf(o))' = Cardinality(GuardsOf(o))
  BY <1>1, DroppedGuards
<1>3. /\ readers' = Cardinality(GuardsOf("R"))' /\ writeCount' = Cardinality(GuardsOf("W"))'
      /\ readers' \in Nat /\ writeCount' \in Nat
  BY <1>1, <1>2 DEF FlagTellsGuards, TypeOK, Kind
<1>4. TypeOK'
  BY <1>1, <1>2, <1>3 DEF TypeOK
<1>5. Bounded'
  <2>1. Len(guards[t]) \in Nat /\ Len(guards'[t]) \in Nat
    BY <1>1, <1>2, LenProperties DEF TypeOK
  <2>2. ASSUME NEW u \in Threads
        PROVE  Len(guards'[u]) <= MaxGuards /\ (want'[u] # "none" => Len(guards'[u]) < MaxGuards)
    <3>1. CASE u = t
      BY <1>1, <1>2, <2>1, <3>1, LockAssumption DEF Bounded
    <3>2. CASE u # t
      BY <1>1, <1>2, <3>2 DEF Bounded
    <3>3. QED  BY <3>1, <3>2
  <2>3. QED  BY <2>2 DEF Bounded
<1>6. \A u \in Threads, o \in Kind : Holds(u, o)' => Holds(u, o)
  BY <1>2 DEF Holds
<1>7. \A u \in Threads : Holds(u, "W") <=> writer = u
  BY <1>1 DEF FlagTellsGuards
<1>8. Holds(t, k)
  BY <1>2 DEF Holds, Innermost
<1>9. FlagTellsGuards'
  <2>1. CASE k = "R"
    <3>1. Holds(t, "W")' <=> Holds(t, "W")
      BY <1>2, <1>6, <2>1 DEF Holds, Innermost, Kind
    <3>2. \A u \in Threads : Holds(u, "W")' <=> Holds(u, "W")
      BY <1>2, <3>1 DEF Holds
    <3>3. QED  BY <1>3, <1>7, <2>1, <3>2 DEF FlagTellsGuards
  <2>2. CASE k = "W" /\ writeCount = 1
    <3>1. Cardinality(GuardsOf("W"))' = 0
      BY <1>1, <1>2, <2>2 DEF FlagTellsGuards
    <3>2. GuardsOf("W")' = {}
      <4>1. IsFiniteSet(GuardsOf("W"))'
        <5>1. IsFiniteSet(1 .. MaxGuards)
          BY FS_Interval, LockAssumption
        <5>2. GuardsOf("W")' \subseteq Threads \X (1 .. MaxGuards)
          BY DEF GuardsOf
        <5>3. IsFiniteSet(Threads \X (1 .. MaxGuards))
          BY <5>1, FS_Product, LockAssumption
        <5>4. QED  BY <5>2, <5>3, FS_Subset
      <4>2. QED  BY <3>1, <4>1, FS_EmptySet
    <3>3. \A u \in Threads : ~ Holds(u, "W")'
      <4> SUFFICES ASSUME NEW u \in Threads, Holds(u, "W")' PROVE FALSE
        OBVIOUS
      <4>1. PICK i \in DOMAIN guards'[u] : guards'[u][i] = "W"
        BY DEF Holds
      <4>2. i \in 1 .. MaxGuards
        BY <1>4, <1>5, <4>1, LenProperties, LockAssumption DEF TypeOK, Bounded
      <4>3. <<u, i>> \in GuardsOf("W")'
        BY <4>1, <4>2 DEF GuardsOf
      <4>4. QED  BY <3>2, <4>3
    <3>4. QED  BY <1>3, <2>2, <3>3, LockAssumption DEF FlagTellsGuards
  <2>3. CASE k = "W" /\ writeCount # 1
    <3>1. writer = t
      BY <1>7, <1>8, <2>3
    <3>2. Holds(t, "W")'
      <4>1. Cardinality(GuardsOf("W"))' # 0
        BY <1>1, <1>2, <2>3 DEF FlagTellsGuards
      <4>2. GuardsOf("W")' # {}
        BY <4>1, FS_EmptySet
      <4>3. PICK g \in GuardsOf("W")' : TRUE
        BY <4>2
      <4>4. g[1] \in Threads /\ Holds(g[1], "W")'
        BY <4>3 DEF GuardsOf, Holds
      <4>5. g[1] = t
        BY <1>6, <1>7, <3>1, <4>4 DEF Kind
      <4>6. QED  BY <4>4, <4>5
    <3>3. \A u \in Threads : u # t => ~ Holds(u, "W")'
      BY <1>6, <1>7, <3>1 DEF Kind
    <3>4. QED  BY <1>3, <2>3, <3>1, <3>2, <3>3 DEF FlagTellsGuards
  <2>4. QED  BY <2>1, <2>2, <2>3 DEF Kind
<1>10. MutualExclusion'
  <2> SUFFICES ASSUME NEW u \in Threads, NEW v \in Threads, u # v, Holds(u, "W")'
               PROVE  guards'[v] = <<>>
    BY DEF MutualExclusion
  <2>1. Holds(u, "W") /\ guards[v] = <<>>
    BY <1>1, <1>6 DEF MutualExclusion, Kind
  <2>2. v # t
    BY <2>1
  <2>3. QED  BY <1>2, <2>1, <2>2
<1>11. WriterFirst'
  <2> SUFFICES ASSUME NEW u \in Threads, Holds(u, "W")' PROVE guards'[u][1] = "W"
    BY DEF WriterFirst
  <2>1. guards[u][1] = "W"
    BY <1>1, <1>6 DEF WriterFirst, Kind
  <2>2. CASE u = t
    <3>1. 1 \in DOMAIN guards'[t]
      BY <1>4, <2>2, LenProperties DEF Holds, TypeOK
    <3>2. QED  BY <1>2, <2>1, <2>2, <3>1
  <2>3. CASE u # t
    BY <1>2, <2>1, <2>3
  <2>4. QED  BY <2>2, <2>3
<1>12. CrashesExplained'
  BY DEF CrashesExplained
<1>13. QED  BY <1>4, <1>5, <1>9, <1>10, <1>11, <1>12 DEF IInv

\* The CRASH of WriteUnlock finds a write guard inside a read guard inside a write guard.
LEMMA OrderIInv ==
  ASSUME IInv, NEW t \in Threads, guards[t] # <<>>, Innermost(t) = "W", readers # 0,
         crash' = "INVALID_UNLOCK_ORDER", UNCHANGED <<flag, guards, want>>
  PROVE  IInv'
<1>1. TypeOK /\ Bounded /\ WriterFirst /\ MutualExclusion /\ FlagTellsGuards
  BY DEF IInv
<1>2. TypeOK' /\ Bounded'
  BY <1>1 DEF TypeOK, Bounded, flag
<1>3. /\ \A k \in Kind : GuardsOf(k)' = GuardsOf(k)
      /\ \A u \in Threads, k \in Kind : Holds(u, k)' <=> Holds(u, k)
  BY DEF GuardsOf, Holds
<1>4. WriterFirst' /\ MutualExclusion'
  BY <1>1, <1>3 DEF WriterFirst, MutualExclusion, Kind
<1>5. FlagTellsGuards'
  BY <1>1, <1>3 DEF FlagTellsGuards, Kind, flag
<1>6. CrashesExplained'
  <2>1. guards[t] \in Seq(Kind) /\ Len(guards[t]) \in DOMAIN guards[t]
    BY <1>1, DropGuard DEF TypeOK
  <2>2. guards[t][Len(guards[t])] = "W" /\ guards[t][1] = "W" /\ Holds(t, "W")
    BY <1>1, <2>1 DEF Innermost, Holds, WriterFirst
  <2>3. GuardsOf("R") # {}
    BY <1>1, FS_EmptySet DEF FlagTellsGuards
  <2>4. PICK g \in GuardsOf("R") : TRUE
    BY <2>3
  <2>5. g[1] \in Threads /\ g[2] \in DOMAIN guards[g[1]] /\ guards[g[1]][g[2]] = "R"
    BY <2>4 DEF GuardsOf
  <2>6. g[1] = t
    <3>1. guards[g[1]] # <<>>
      BY <2>5, EmptySeq
    <3>2. QED  BY <1>1, <2>2, <2>5, <3>1 DEF MutualExclusion
  <2>7. /\ 1 \in DOMAIN guards[t] /\ 1 < g[2] /\ g[2] < Len(guards[t])
        /\ g[2] \in DOMAIN guards[t] /\ guards[t][g[2]] = "R"
    BY <2>1, <2>2, <2>5, <2>6, LenProperties
  <2>8. QED  BY <2>1, <2>2, <2>7 DEF CrashesExplained
<1>7. QED  BY <1>2, <1>4, <1>5, <1>6 DEF IInv

\* Every step keeps the invariant.
LEMMA NextIInv == IInv /\ [Next]_vars => IInv'
<1> SUFFICES ASSUME IInv, [Next]_vars PROVE IInv'
  OBVIOUS
<1>1. TypeOK /\ Bounded /\ FlagTellsGuards /\ "R" \in Kind /\ "W" \in Kind
  BY DEF IInv, Kind
<1>2. ASSUME NEW t \in Threads, WriteLock(t) PROVE IInv'
  <2>1. CASE writer = t
    BY <1>1, <1>2, <2>1, TakeIInv DEF WriteLock, Runs
  <2>2. CASE writer # t
    BY <1>1, <1>2, <2>2, WaitIInv DEF WriteLock, flag
  <2>3. QED  BY <2>1, <2>2
<1>3. ASSUME NEW t \in Threads, ReadLock(t) PROVE IInv'
  <2>1. CASE writer = t
    BY <1>1, <1>3, <2>1, TakeIInv DEF ReadLock, Runs
  <2>2. CASE writer # t
    BY <1>1, <1>3, <2>2, WaitIInv DEF ReadLock, flag
  <2>3. QED  BY <2>1, <2>2
<1>4. ASSUME NEW t \in Threads, AcquireWrite(t) PROVE IInv'
  <2>1. Len(guards[t]) < MaxGuards /\ want'[t] = "none"
    BY <1>1, <1>4 DEF AcquireWrite, Spins, Bounded, TypeOK
  <2>2. QED  BY <1>1, <1>4, <2>1, TakeIInv DEF AcquireWrite, Spins
<1>5. ASSUME NEW t \in Threads, AcquireRead(t) PROVE IInv'
  <2>1. Len(guards[t]) < MaxGuards /\ want'[t] = "none"
    BY <1>1, <1>5 DEF AcquireRead, Spins, Bounded, TypeOK
  <2>2. QED  BY <1>1, <1>5, <2>1, TakeIInv DEF AcquireRead, Spins
<1>6. ASSUME NEW t \in Threads, WriteUnlock(t) PROVE IInv'
  <2>1. CASE readers # 0
    BY <1>6, <2>1, OrderIInv DEF WriteUnlock, flag
  <2>2. CASE readers = 0
    BY <1>1, <1>6, <2>2, DropIInv DEF WriteUnlock, Runs
  <2>3. QED  BY <2>1, <2>2
<1>7. ASSUME NEW t \in Threads, ReadUnlock(t) PROVE IInv'
  <2>1. Holds(t, "R")
    BY <1>1, <1>7, DropGuard DEF ReadUnlock, Holds, Innermost, TypeOK
  <2>2. readers # 0
    BY <1>1, <2>1, HeldIsCounted DEF FlagTellsGuards
  <2>3. QED  BY <1>1, <1>7, <2>2, DropIInv DEF ReadUnlock, Runs
<1>8. ASSUME NEW t \in Threads, Timeout(t) PROVE IInv'
  BY <1>8, WaitIInv DEF Timeout
<1>9. CASE UNCHANGED vars
  <2>1. UNCHANGED <<flag, guards, want, crash>>
    BY <1>9 DEF vars
  <2>2. CASE Threads = {}
    BY <2>1, <2>2, <1>9 DEF IInv, TypeOK, Bounded, WriterFirst, MutualExclusion, FlagTellsGuards,
       CrashesExplained, GuardsOf, vars, flag
  <2>3. CASE Threads # {}
    BY <2>1, <2>3, WaitIInv
  <2>4. QED  BY <2>2, <2>3
<1>10. QED
  BY <1>2, <1>3, <1>4, <1>5, <1>6, <1>7, <1>8, <1>9 DEF Next

\* The lock excludes: a thread in a WRITE_LOCK scope is alone, and the flag always tells who
\* holds what.
THEOREM LockIsCorrect == Spec => []GuardsExclude
<1>1. Spec => []IInv
  BY InitIInv, NextIInv, PTL DEF Spec
<1>2. IInv => GuardsExclude
  BY DEF IInv, GuardsExclude
<1>3. QED  BY <1>1, <1>2, PTL

\* The check of ReadUnlock never fires, and that of WriteUnlock only for a write scope in a
\* read scope in a write scope of the thread.
THEOREM CrashesAreExplained == Spec => []CrashesExplained
<1>1. Spec => []IInv
  BY InitIInv, NextIInv, PTL DEF Spec
<1>2. IInv => CrashesExplained
  BY DEF IInv
<1>3. QED  BY <1>1, <1>2, PTL

\* The variables of the lock keep their types.
THEOREM LockTypes == Spec => []TypeOK
<1>1. Spec => []IInv
  BY InitIInv, NextIInv, PTL DEF Spec
<1>2. IInv => TypeOK
  BY DEF IInv
<1>3. QED  BY <1>1, <1>2, PTL
=============================================================================
