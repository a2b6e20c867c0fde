-------------------------- MODULE MigrationProofs ---------------------------
(***************************************************************************)
(* Proofs about Migration, for any clients and characters, any number of    *)
(* selections, crashes and restarts.                                        *)
(***************************************************************************)
EXTENDS Migration, SequenceTheorems, FiniteSetTheorems, TLAPS

\* A character and a key that the game server told and that has not come to nothing.
Told == {m \in Characters \X Keys :
           \/ [character |-> m[1], key |-> m[2]] \in Replies
           \/ \E s \in Sessions : <<s, m[1], m[2]>> \in told}

\* Every key, and every request for one, was asked for by a selection.
Budget == Len(jobs) + Len(toCenter) + Len(toGame) + issued <= selects

\* The key of a character in AuthStorage is its own, was made since the server's start and
\* was not used.
AuthKeys ==
  /\ \A c \in Characters :
       auth[c] # NoKey => voided < auth[c] /\ auth[c] <= issued /\ entries[auth[c]] = 0
  /\ \A c, d \in Characters : auth[c] = auth[d] /\ auth[c] # NoKey => c = d

\* Nobody knows or uses a key that was not made.
KeysMade ==
  /\ \A m \in Told : m[2] <= issued
  /\ \A k \in Keys : k > issued => entries[k] = 0

KeysWork == \A m \in Told : m[2] > voided => auth[m[1]] = m[2] \/ entries[m[2]] > 0

KeyInv == AuthKeys /\ KeysMade /\ OneEntry /\ KeysWork

\* OnDisconnected has run for the session.
Left(s) == state[s] \in {"gone", "over"}

\* Why such a session may have an entry.
Excused(s, c) == (\E d \in Characters \ {c} : <<s, d>> \in asked) \/ c \in late

\* An entry of the storage, and a job, is of a selection that was made, and if OnDisconnected
\* has run for its session that had another one, or the job was still to be run.
EntryInv ==
  /\ \A c \in Characters :
       loginStorage[c] # None =>
         /\ <<loginStorage[c], c>> \in asked
         /\ Left(loginStorage[c]) => Excused(loginStorage[c], c)
  /\ \A j \in Range(jobs) : j \in asked /\ (Left(j[1]) => j[2] \in late)
  /\ \A w \in asked : state[w[1]] # "new"

IInv == TypeOK /\ Budget /\ KeyInv /\ EntryInv
-----------------------------------------------------------------------------
(* Sequences and what is in them *)

\* Popping a queue.
LEMMA RangeTail ==
  ASSUME NEW S, NEW q \in Seq(S), q # <<>>
  PROVE  /\ Head(q) \in S /\ Tail(q) \in Seq(S) /\ Len(Tail(q)) = Len(q) - 1
         /\ Head(q) \in Range(q) /\ Range(Tail(q)) \subseteq Range(q)
<1>1. /\ Head(q) \in S /\ Tail(q) \in Seq(S) /\ Len(Tail(q)) = Len(q) - 1
      /\ \A i \in 1 .. Len(Tail(q)) : Tail(q)[i] = q[i + 1]
  BY HeadTailProperties
<1>2. Len(q) \in Nat \ {0} /\ DOMAIN q = 1 .. Len(q) /\ DOMAIN Tail(q) = 1 .. Len(Tail(q))
  BY <1>1, EmptySeq, LenProperties
<1>3. Head(q) = q[1] /\ 1 \in DOMAIN q
  BY <1>2
<1>4. \A i \in DOMAIN Tail(q) : i + 1 \in DOMAIN q /\ Tail(q)[i] = q[i + 1]
  BY <1>1, <1>2
<1>5. QED
  BY <1>1, <1>3, <1>4 DEF Range

\* Pushing into a queue.
LEMMA RangeAppend ==
  ASSUME NEW S, NEW q \in Seq(S), NEW e \in S
  PROVE  /\ Append(q, e) \in Seq(S) /\ Len(Append(q, e)) = Len(q) + 1
         /\ Range(Append(q, e)) = Range(q) \cup {e}
<1>1. /\ Append(q, e) \in Seq(S) /\ Len(Append(q, e)) = Len(q) + 1 /\ Len(q) \in Nat
      /\ \A i \in 1 .. Len(q) : Append(q, e)[i] = q[i]
      /\ Append(q, e)[Len(q) + 1] = e
  BY LenProperties, AppendProperties
<1>2. DOMAIN q = 1 .. Len(q) /\ DOMAIN Append(q, e) = 1 .. Len(q) + 1
  BY <1>1, LenProperties
<1>3. DOMAIN Append(q, e) = DOMAIN q \cup {Len(q) + 1}
  BY <1>1, <1>2
<1>4. QED
  BY <1>1, <1>2, <1>3 DEF Range

\* The first messages of a queue.
LEMMA RangeFront ==
  ASSUME NEW S, NEW q \in Seq(S), NEW n \in 0 .. Len(q)
  PROVE  /\ SubSeq(q, 1, n) \in Seq(S) /\ Len(SubSeq(q, 1, n)) <= Len(q)
         /\ Range(SubSeq(q, 1, n)) \subseteq Range(q)
<1>1. Len(q) \in Nat /\ DOMAIN q = 1 .. Len(q) /\ \A i \in 1 .. Len(q) : q[i] \in S
  BY LenProperties, ElementOfSeq
<1>2. \A i \in 1 .. n : q[i] \in S /\ i \in DOMAIN q
  BY <1>1
<1>3. /\ SubSeq(q, 1, n) \in Seq(S) /\ Len(SubSeq(q, 1, n)) = IF 1 <= n THEN n - 1 + 1 ELSE 0
      /\ \A i \in 1 .. n - 1 + 1 : SubSeq(q, 1, n)[i] = q[1 + i - 1]
  BY <1>1, <1>2, SubSeqProperties
<1>4. Len(SubSeq(q, 1, n)) = n /\ \A i \in 1 .. n : SubSeq(q, 1, n)[i] = q[i]
  BY <1>1, <1>3
<1>5. DOMAIN SubSeq(q, 1, n) = 1 .. n
  BY <1>3, <1>4, LenProperties
<1>6. QED
  BY <1>1, <1>2, <1>3, <1>4, <1>5 DEF Range

\* An empty queue.
LEMMA RangeEmpty == Range(<<>>) = {}
BY DEF Range

\* The lengths of the queues are numbers.
LEMMA Lengths ==
  ASSUME TypeOK
  PROVE  /\ Len(jobs) \in Nat /\ Len(toCenter) \in Nat /\ Len(toGame) \in Nat
         /\ issued \in Nat /\ voided \in Nat /\ selects \in Nat /\ MaxSelects \in Nat
         /\ issued <= MaxSelects /\ selects <= MaxSelects /\ voided <= issued
BY LenProperties, MigrationAssumption DEF TypeOK
-----------------------------------------------------------------------------
(* What most steps do to the parts of the invariant *)

\* Nothing happens to keys but that some are not told any more, or told to somebody else.
LEMMA KeysKept ==
  ASSUME IInv, UNCHANGED <<auth, issued, voided, entries>>, Told' \subseteq Told
  PROVE  KeyInv'
BY DEF IInv, KeyInv, AuthKeys, KeysMade, OneEntry, KeysWork

\* What is told depends on the replies underway and on what clients know.
LEMMA ToldMade ==
  ASSUME \A r \in Replies' : r.key # NoKey => r \in Replies,
         Replies' \subseteq Reply,
         \A x \in told' \ told : [character |-> x[2], key |-> x[3]] \in Replies
  PROVE  Told' \subseteq Told
<1> SUFFICES ASSUME NEW m \in Characters \X Keys, m \in Told' PROVE m \in Told
  BY DEF Told
<1>1. CASE [character |-> m[1], key |-> m[2]] \in Replies'
  <2>1. m[2] # NoKey
    BY MigrationAssumption DEF Keys, NoKey
  <2>2. QED  BY <1>1, <2>1 DEF Told
<1>2. CASE \E s \in Sessions : <<s, m[1], m[2]>> \in told'
  <2>1. PICK s \in Sessions : <<s, m[1], m[2]>> \in told'
    BY <1>2
  <2>2. CASE <<s, m[1], m[2]>> \in told
    BY <2>2 DEF Told
  <2>3. CASE <<s, m[1], m[2]>> \notin told
    <3>1. [character |-> <<s, m[1], m[2]>>[2], key |-> <<s, m[1], m[2]>>[3]] \in Replies
      BY <2>1, <2>3
    <3>2. QED  BY <3>1 DEF Told
  <2>4. QED  BY <2>2, <2>3
<1>3. QED  BY <1>1, <1>2 DEF Told

\* A session comes, or goes without an OnDisconnected; jobs and entries only go.
LEMMA SessionsMove ==
  ASSUME IInv, UNCHANGED <<asked, late>>, Range(jobs') \subseteq Range(jobs),
         \A c \in Characters : loginStorage'[c] \in {loginStorage[c], None},
         \A t \in Sessions :
           /\ state'[t] \in {"gone", "over"} => state[t] \in {"gone", "over"}
           /\ state'[t] = "new" => state[t] = "new"
  PROVE  EntryInv'
<1>1. \A c \in Characters : loginStorage'[c] # None => loginStorage'[c] = loginStorage[c]
  OBVIOUS
<1>2. EntryInv
  BY DEF IInv
<1>3. \A c \in Characters : loginStorage[c] # None => loginStorage[c] \in Sessions
  BY DEF IInv, TypeOK
<1>4. \A w \in asked : w[1] \in Sessions
  BY DEF IInv, TypeOK
<1>5. \A c \in Characters :
        loginStorage'[c] # None =>
          /\ <<loginStorage'[c], c>> \in asked
          /\ state'[loginStorage'[c]] \in {"gone", "over"} => Excused(loginStorage'[c], c)
  BY <1>1, <1>2, <1>3 DEF EntryInv, Left
<1>6. \A j \in Range(jobs') : j \in asked /\ (state'[j[1]] \in {"gone", "over"} => j[2] \in late)
  BY <1>2, <1>4 DEF EntryInv, Left
<1>7. \A w \in asked : state'[w[1]] # "new"
  BY <1>2, <1>4 DEF EntryInv
<1> QED BY <1>5, <1>6, <1>7 DEF EntryInv, Excused, Left

\* The login server's sessions stay, and jobs and entries only go.
LEMMA EntriesKept ==
  ASSUME IInv, UNCHANGED <<asked, late, state>>, Range(jobs') \subseteq Range(jobs),
         \A c \in Characters : loginStorage'[c] \in {loginStorage[c], None}
  PROVE  EntryInv'
BY SessionsMove
-----------------------------------------------------------------------------
(* The initial state *)

\* Nobody is told anything at the start.
LEMMA InitIInv == Init => IInv
<1> SUFFICES ASSUME Init PROVE IInv
  OBVIOUS
<1> USE MigrationAssumption DEF Init
<1>1. TypeOK
  <2>1. \A S : <<>> \in Seq(S)
    BY EmptySeq
  <2>2. /\ running \subseteq Servers /\ linked \subseteq running /\ seen \subseteq Servers
        /\ linked \subseteq seen /\ session \in [Servers -> Nat] /\ failures \in 0 .. MaxFailures
        /\ state \in [Sessions -> {"new", "in", "closing", "gone", "over"}]
        /\ waiting \in [Sessions \X Characters -> Nat] /\ asked \subseteq Sessions \X Characters
        /\ loginStorage \in [Characters -> Sessions \cup {None}]
        /\ centerStorage \in [Characters -> [from : Nat, to : Nat]]
        /\ auth \in [Characters -> Keys \cup {NoKey}] /\ entries \in [Keys -> Nat]
        /\ issued \in 0 .. MaxSelects /\ voided \in 0 .. issued /\ selects \in 0 .. MaxSelects
    BY DEF NoEntry, NoKey
  <2>3. QED  BY <2>1, <2>2 DEF TypeOK
<1>2. Budget
  BY DEF Budget
<1>3. Told = {}
  BY RangeEmpty DEF Told, Replies
<1>4. KeyInv
  BY <1>3 DEF KeyInv, AuthKeys, KeysMade, OneEntry, KeysWork, Keys, NoKey
<1>5. EntryInv
  BY RangeEmpty DEF EntryInv
<1>6. QED  BY <1>1, <1>2, <1>4, <1>5 DEF IInv
-----------------------------------------------------------------------------
(* The client and the login server *)

\* A client connects.
LEMMA ConnectIInv == ASSUME IInv, NEW s \in Sessions, Connect(s) PROVE IInv'
<1> USE DEF servers, login, center, game, leaving, history
<1>1. TypeOK'
  BY DEF IInv, TypeOK, Connect
<1>2. Budget'
  BY DEF IInv, Budget, Connect
<1>3. Told' = Told
  BY DEF Told, Replies, Connect
<1>4. KeyInv'
  BY <1>3, KeysKept DEF Connect
<1>5. EntryInv'
  <2>1. \A t \in Sessions : /\ state'[t] \in {"gone", "over"} => state[t] \in {"gone", "over"}
                            /\ state'[t] = "new" => state[t] = "new"
    BY DEF IInv, TypeOK, Connect
  <2>2. \A c \in Characters : loginStorage'[c] \in {loginStorage[c], None}
    BY DEF Connect
  <2>3. UNCHANGED <<asked, late>> /\ Range(jobs') \subseteq Range(jobs)
    BY DEF Connect
  <2>4. QED  BY <2>1, <2>2, <2>3, SessionsMove
<1>6. QED  BY <1>1, <1>2, <1>4, <1>5 DEF IInv

\* A client selects a character.
LEMMA SelectIInv ==
  ASSUME IInv, NEW s \in Sessions, NEW c \in Characters, SelectCharacter(s, c)
  PROVE  IInv'
<1> USE DEF servers, login, center, game, leaving, history
<1>1. /\ jobs' \in Seq(Sessions \X Characters) /\ Len(jobs') = Len(jobs) + 1
      /\ Range(jobs') = Range(jobs) \cup {<<s, c>>}
  <2>1. jobs \in Seq(Sessions \X Characters) /\ <<s, c>> \in Sessions \X Characters
    BY DEF IInv, TypeOK
  <2>2. jobs' = Append(jobs, <<s, c>>)
    BY DEF SelectCharacter
  <2>3. /\ Append(jobs, <<s, c>>) \in Seq(Sessions \X Characters)
        /\ Len(Append(jobs, <<s, c>>)) = Len(jobs) + 1
        /\ Range(Append(jobs, <<s, c>>)) = Range(jobs) \cup {<<s, c>>}
    BY <2>1, RangeAppend
  <2>4. QED  BY <2>2, <2>3
<1>2. TypeOK'
  <2>1. waiting \in [Sessions \X Characters -> Nat] /\ <<s, c>> \in Sessions \X Characters
    BY DEF IInv, TypeOK
  <2>2. waiting' \in [Sessions \X Characters -> Nat]
    <3>1. waiting' = [waiting EXCEPT ![<<s, c>>] = waiting[<<s, c>>] + 1] \/ UNCHANGED waiting
      BY DEF SelectCharacter
    <3>2. waiting[<<s, c>>] + 1 \in Nat
      BY <2>1
    <3>3. QED  BY <2>1, <3>1, <3>2
  <2>3. /\ selects' \in 0 .. MaxSelects /\ contested' \subseteq Characters
        /\ abandoned' \subseteq Characters /\ late' \subseteq Characters
    BY MigrationAssumption DEF IInv, TypeOK, SelectCharacter
  <2>4. asked' \subseteq Sessions \X Characters
    BY <2>1 DEF IInv, TypeOK, SelectCharacter
  <2>5. QED  BY <1>1, <2>2, <2>3, <2>4 DEF IInv, TypeOK, SelectCharacter
<1>3. Budget'
  BY <1>1, Lengths DEF IInv, Budget, SelectCharacter
<1>4. Told' = Told
  BY DEF Told, Replies, SelectCharacter
<1>5. KeyInv'
  BY <1>4, KeysKept DEF SelectCharacter
<1>6. EntryInv'
  <2>1. /\ asked' = asked \cup {<<s, c>>} /\ state[s] \in {"in", "closing", "gone"}
        /\ late \subseteq late' /\ (state[s] = "gone" => c \in late')
        /\ UNCHANGED <<state, loginStorage>>
    BY DEF SelectCharacter
  <2>2. \A t, d : Excused(t, d) => Excused(t, d)'
    BY <2>1 DEF Excused
  <2>3. \A d \in Characters :
          loginStorage[d] # None =>
            /\ <<loginStorage[d], d>> \in asked'
            /\ Left(loginStorage[d]) => Excused(loginStorage[d], d)'
    BY <2>1, <2>2 DEF IInv, EntryInv
  <2>4. Left(s) => c \in late'
    BY <2>1 DEF Left
  <2>5. \A j \in Range(jobs') : j \in asked' /\ (Left(j[1]) => j[2] \in late')
    BY <1>1, <2>1, <2>4 DEF IInv, EntryInv
  <2>6. \A w \in asked' : state[w[1]] # "new"
    BY <2>1 DEF IInv, EntryInv
  <2>7. QED  BY <2>1, <2>3, <2>5, <2>6 DEF EntryInv, Excused, Left
<1>7. QED  BY <1>2, <1>3, <1>5, <1>6 DEF IInv

\* The login server refuses a selection, or remembers it and asks the center.
LEMMA HandleSelectIInv == ASSUME IInv, HandleSelectCharacter PROVE IInv'
<1> USE DEF servers, login, center, game, leaving, history
<1> DEFINE s == Head(jobs)[1]
           c == Head(jobs)[2]
           request == [character |-> c, from |-> session["login"]]
<1>1. /\ jobs' \in Seq(Sessions \X Characters) /\ Len(jobs') = Len(jobs) - 1
      /\ Range(jobs') \subseteq Range(jobs)
      /\ Head(jobs) \in Range(jobs) /\ Head(jobs) = <<s, c>> /\ s \in Sessions /\ c \in Characters
  <2>1. jobs \in Seq(Sessions \X Characters) /\ jobs # <<>> /\ jobs' = Tail(jobs)
    BY DEF IInv, TypeOK, HandleSelectCharacter
  <2>2. /\ Head(jobs) \in Sessions \X Characters /\ Tail(jobs) \in Seq(Sessions \X Characters)
        /\ Len(Tail(jobs)) = Len(jobs) - 1
        /\ Head(jobs) \in Range(jobs) /\ Range(Tail(jobs)) \subseteq Range(jobs)
    BY <2>1, RangeTail
  <2>3. Head(jobs) = <<s, c>> /\ s \in Sessions /\ c \in Characters
    BY <2>2
  <2>4. QED  BY <2>1, <2>2, <2>3
<1>2. /\ toCenter' \in Seq([character : Characters, from : Nat])
      /\ Len(toCenter') <= Len(toCenter) + 1
  <2>1. request \in [character : Characters, from : Nat]
    BY <1>1 DEF IInv, TypeOK, Servers
  <2>2. CASE toCenter' = toCenter
    BY <2>2, Lengths DEF IInv, TypeOK
  <2>3. CASE toCenter' = Append(toCenter, request)
    BY <2>1, <2>3, Lengths, RangeAppend DEF IInv, TypeOK
  <2>4. QED  BY <2>2, <2>3 DEF HandleSelectCharacter
<1>3. waiting' \in [Sessions \X Characters -> Nat]
  <2>1. waiting \in [Sessions \X Characters -> Nat]
    BY DEF IInv, TypeOK
  <2>2. UNCHANGED waiting \/ Answered(s, c)
    BY DEF HandleSelectCharacter
  <2>3. <<s, c>> \in Sessions \X Characters /\ waiting[<<s, c>>] \in Nat
    BY <1>1, <2>1
  <2>4. ASSUME Answered(s, c) PROVE waiting' \in [Sessions \X Characters -> Nat]
    <3>1. (IF waiting[<<s, c>>] > 0 THEN waiting[<<s, c>>] - 1 ELSE 0) \in Nat
      BY <2>3
    <3>2. QED  BY <2>1, <2>3, <2>4, <3>1 DEF Answered
  <2>5. QED  BY <2>1, <2>2, <2>4
<1>4. loginStorage' = loginStorage
        \/ loginStorage' = [loginStorage EXCEPT ![c] = IF @ = None THEN s ELSE @]
  BY DEF HandleSelectCharacter
<1>5. loginStorage' \in [Characters -> Sessions \cup {None}]
  BY <1>1, <1>4 DEF IInv, TypeOK
<1>6. /\ UNCHANGED <<servers, state, leaving, history, centerStorage, toGame, game, fromGame>>
      /\ UNCHANGED <<toLogin, told>>
  BY DEF HandleSelectCharacter
<1>7. TypeOK'
  BY <1>1, <1>2, <1>3, <1>5, <1>6 DEF IInv, TypeOK
<1>8. Budget'
  BY <1>1, <1>2, <1>6, <1>7, Lengths, LenProperties DEF IInv, Budget, TypeOK
<1>9. KeyInv'
  <2>1. Told' = Told
    BY <1>6 DEF Told, Replies
  <2>2. QED  BY <2>1, <1>6, KeysKept
<1>10. EntryInv'
  <2>1. Head(jobs) \in asked /\ (Left(s) => c \in late)
    BY <1>1 DEF IInv, EntryInv
  <2>2. \A d \in Characters :
          loginStorage'[d] = loginStorage[d] \/ (d = c /\ loginStorage'[d] = s)
    <3>1. loginStorage \in [Characters -> Sessions \cup {None}]
      BY DEF IInv, TypeOK
    <3>2. QED  BY <1>1, <1>4, <3>1
  <2>3. \A t, d : Excused(t, d)' <=> Excused(t, d)
    BY <1>6 DEF Excused
  <2>4. Left(s) => Excused(s, c)
    BY <2>1 DEF Excused
  <2>5. \A d \in Characters : loginStorage'[d] # None =>
          /\ <<loginStorage'[d], d>> \in asked
          /\ state[loginStorage'[d]] \in {"gone", "over"} => Excused(loginStorage'[d], d)
    <3> SUFFICES ASSUME NEW d \in Characters, loginStorage'[d] # None
                 PROVE  /\ <<loginStorage'[d], d>> \in asked
                        /\ state[loginStorage'[d]] \in {"gone", "over"} => Excused(loginStorage'[d], d)
      OBVIOUS
    <3>1. CASE loginStorage'[d] = loginStorage[d]
      BY <3>1 DEF IInv, EntryInv, Left
    <3>2. CASE d = c /\ loginStorage'[d] = s
      BY <3>2, <2>1, <2>4, <1>1 DEF Left
    <3>3. QED  BY <2>2, <3>1, <3>2
  <2>6. QED  BY <1>1, <1>6, <2>3, <2>5 DEF IInv, EntryInv, Left
<1>11. QED  BY <1>7, <1>8, <1>9, <1>10 DEF IInv

\* An answer reaches the login server: its entry goes, and a key is told to the entry's session.
LEMMA HandleResponseIInv == ASSUME IInv, HandleMigrationResponse PROVE IInv'
<1> USE DEF servers, login, center, game, leaving, history
<1> DEFINE h == Head(toLogin)
           c == h.character
           s == loginStorage[c]
           k == h.key
<1>1. /\ toLogin \in Seq(Reply) /\ toLogin # <<>> /\ toLogin' = Tail(toLogin)
      /\ fromGame \in Seq(Reply)
  BY DEF IInv, TypeOK, HandleMigrationResponse
<1>2. /\ h \in Reply /\ toLogin' \in Seq(Reply)
      /\ h \in Range(toLogin) /\ Range(toLogin') \subseteq Range(toLogin)
  BY <1>1, RangeTail
<1>3. /\ c \in Characters /\ k \in Keys \cup {NoKey} /\ h = [character |-> c, key |-> k]
      /\ s \in Sessions \cup {None}
  <2>1. c \in Characters /\ k \in Keys \cup {NoKey} /\ h = [character |-> c, key |-> k]
    BY <1>2 DEF Reply
  <2>2. QED  BY <2>1 DEF IInv, TypeOK
<1>4. /\ loginStorage' = [loginStorage EXCEPT ![c] = None]
      /\ UNCHANGED <<servers, state, jobs, leaving, history, center, toGame, game, fromGame>>
      /\ UNCHANGED <<waiting, told>>
           \/ /\ s # None /\ Answered(s, c)
              /\ told' = IF k = NoKey THEN told ELSE told \cup {<<s, c, k>>}
  BY DEF HandleMigrationResponse
<1>5. waiting' \in [Sessions \X Characters -> Nat]
  <2>1. waiting \in [Sessions \X Characters -> Nat]
    BY DEF IInv, TypeOK
  <2>2. ASSUME s # None, Answered(s, c) PROVE waiting' \in [Sessions \X Characters -> Nat]
    <3>1. <<s, c>> \in Sessions \X Characters /\ waiting[<<s, c>>] \in Nat
      BY <1>3, <2>1, <2>2
    <3>2. (IF waiting[<<s, c>>] > 0 THEN waiting[<<s, c>>] - 1 ELSE 0) \in Nat
      BY <3>1
    <3>3. QED  BY <2>1, <2>2, <3>1, <3>2 DEF Answered
  <2>3. QED  BY <1>4, <2>1, <2>2
<1>6. told' \subseteq Sessions \X Characters \X Keys
  BY <1>3, <1>4 DEF IInv, TypeOK
<1>7. loginStorage' \in [Characters -> Sessions \cup {None}]
  BY <1>4 DEF IInv, TypeOK
<1>8. TypeOK'
  BY <1>2, <1>4, <1>5, <1>6, <1>7 DEF IInv, TypeOK
<1>9. Budget'
  BY <1>4 DEF IInv, Budget
<1>10. KeyInv'
  <2>1. Replies' \subseteq Replies /\ Replies \subseteq Reply
    <3>1. Range(fromGame) \subseteq Reply /\ Range(toLogin) \subseteq Reply
      BY <1>1, LenProperties, ElementOfSeq DEF Range
    <3>2. QED  BY <3>1, <1>2, <1>4 DEF Replies
  <2>2. \A x \in told' \ told : [character |-> x[2], key |-> x[3]] \in Replies
    BY <1>2, <1>3, <1>4 DEF Replies
  <2>3. Told' \subseteq Told
    BY <2>1, <2>2, ToldMade
  <2>4. QED  BY <2>3, <1>4, KeysKept
<1>11. EntryInv'
  BY <1>4, EntriesKept DEF IInv, TypeOK
<1>12. QED  BY <1>8, <1>9, <1>10, <1>11 DEF IInv

\* A client leaves the login server.
LEMMA DisconnectIInv == ASSUME IInv, NEW s \in Sessions, Disconnect(s) PROVE IInv'
<1> USE DEF servers, login, center, game, leaving, history
<1>1. /\ state' = [state EXCEPT ![s] = "closing"] /\ state[s] = "in"
      /\ waiting' = [w \in DOMAIN waiting |-> IF w[1] = s THEN 0 ELSE waiting[w]]
      /\ abandoned' = abandoned \cup WaitedFor(s)
      /\ UNCHANGED <<servers, jobs, loginStorage, late, history, center, toGame, game, fromGame>>
      /\ UNCHANGED <<toLogin, told>>
  BY DEF Disconnect
<1>2. TypeOK'
  <2>1. /\ waiting' \in [Sessions \X Characters -> Nat]
        /\ state' \in [Sessions -> {"new", "in", "closing", "gone", "over"}]
    BY <1>1 DEF IInv, TypeOK
  <2>2. abandoned' \subseteq Characters
    BY <1>1 DEF WaitedFor, IInv, TypeOK
  <2>3. QED  BY <1>1, <2>1, <2>2 DEF IInv, TypeOK
<1>3. Budget'
  BY <1>1 DEF IInv, Budget
<1>4. KeyInv'
  <2>1. Told' = Told
    BY <1>1 DEF Told, Replies
  <2>2. QED  BY <2>1, <1>1, KeysKept
<1>5. EntryInv'
  <2>1. \A t \in Sessions : /\ state'[t] \in {"gone", "over"} => state[t] \in {"gone", "over"}
                            /\ state'[t] = "new" => state[t] = "new"
    BY <1>1 DEF IInv, TypeOK
  <2>2. QED  BY <1>1, <2>1, SessionsMove
<1>6. QED  BY <1>2, <1>3, <1>4, <1>5 DEF IInv

\* Nothing more of what a session had received is to be handled.
LEMMA OnRecvEndsIInv == ASSUME IInv, NEW s \in Sessions, OnRecvEnds(s) PROVE IInv'
<1> USE DEF servers, login, center, game, leaving, history
<1>1. /\ state' = [state EXCEPT ![s] = "over"] /\ state[s] = "gone"
      /\ UNCHANGED <<servers, jobs, waiting, loginStorage, leaving, history, center, toGame, game>>
      /\ UNCHANGED <<fromGame, toLogin, told>>
  BY DEF OnRecvEnds
<1>2. TypeOK'
  BY <1>1 DEF IInv, TypeOK
<1>3. Budget'
  BY <1>1 DEF IInv, Budget
<1>4. KeyInv'
  <2>1. Told' = Told
    BY <1>1 DEF Told, Replies
  <2>2. QED  BY <2>1, <1>1, KeysKept
<1>5. EntryInv'
  <2>1. \A t \in Sessions : /\ state'[t] \in {"gone", "over"} => state[t] \in {"gone", "over"}
                            /\ state'[t] = "new" => state[t] = "new"
    BY <1>1 DEF IInv, TypeOK
  <2>2. QED  BY <1>1, <2>1, SessionsMove
<1>6. QED  BY <1>2, <1>3, <1>4, <1>5 DEF IInv

\* OnDisconnected runs: the session keeps its entries but one, and its jobs.
LEMMA LeaveIInv == ASSUME IInv, NEW s \in Sessions, OnDisconnected(s) PROVE IInv'
<1> USE DEF servers, login, center, game, leaving, history
<1>1. /\ state' = [state EXCEPT ![s] = "gone"] /\ state[s] = "closing"
      /\ late' = late \cup {j[2] : j \in {i \in Range(jobs) : i[1] = s}}
      /\ UNCHANGED <<servers, jobs, waiting, abandoned, history, center, toGame, game, fromGame>>
      /\ UNCHANGED <<toLogin, told>>
  BY DEF OnDisconnected, Leave
<1>2. \/ \E c \in EntriesOf(s) : loginStorage' = [loginStorage EXCEPT ![c] = None]
      \/ EntriesOf(s) = {} /\ UNCHANGED loginStorage
  BY DEF OnDisconnected
<1>3. /\ state \in [Sessions -> {"new", "in", "closing", "gone", "over"}]
      /\ loginStorage \in [Characters -> Sessions \cup {None}]
      /\ asked \subseteq Sessions \X Characters /\ Range(jobs) \subseteq asked
  BY DEF IInv, TypeOK, EntryInv
<1>4. TypeOK'
  <2>1. state' \in [Sessions -> {"new", "in", "closing", "gone", "over"}]
    BY <1>1, <1>3
  <2>2. loginStorage' \in [Characters -> Sessions \cup {None}]
    BY <1>2, <1>3 DEF EntriesOf
  <2>3. late' \subseteq Characters
    BY <1>1, <1>3 DEF IInv, TypeOK
  <2>4. QED  BY <1>1, <2>1, <2>2, <2>3 DEF IInv, TypeOK
<1>5. Budget'
  BY <1>1 DEF IInv, Budget
<1>6. KeyInv'
  <2>1. Told' = Told
    BY <1>1 DEF Told, Replies
  <2>2. QED  BY <2>1, <1>1, KeysKept
<1>7. EntryInv'
  <2>1. \A t, d : Excused(t, d) => Excused(t, d)'
    BY <1>1 DEF Excused
  <2>2. \A t \in Sessions : t # s => state'[t] = state[t]
    BY <1>1, <1>3
  <2>3. \A c \in Characters : loginStorage'[c] \in {loginStorage[c], None}
    BY <1>2, <1>3 DEF EntriesOf
  <2>4. \A c \in Characters : loginStorage'[c] = s => Excused(s, c)'
    <3> SUFFICES ASSUME NEW c \in Characters, loginStorage'[c] = s PROVE Excused(s, c)'
      OBVIOUS
    <3>1. loginStorage[c] = s
      BY <2>3, MigrationAssumption
    <3>2. PICK d \in EntriesOf(s) : loginStorage' = [loginStorage EXCEPT ![d] = None]
      BY <1>2, <3>1 DEF EntriesOf
    <3>3. d # c /\ d \in Characters /\ loginStorage[d] = s
      BY <3>2, <1>3, MigrationAssumption DEF EntriesOf
    <3>4. <<s, d>> \in asked
      BY <3>3, MigrationAssumption DEF IInv, EntryInv
    <3>5. QED  BY <3>3, <3>4, <2>1 DEF Excused
  <2>5. \A c \in Characters, t \in Sessions :
          loginStorage'[c] = t => <<t, c>> \in asked /\ (state'[t] \in {"gone", "over"} => Excused(t, c)')
    <3> SUFFICES ASSUME NEW c \in Characters, NEW t \in Sessions, loginStorage'[c] = t
                 PROVE  <<t, c>> \in asked /\ (state'[t] \in {"gone", "over"} => Excused(t, c)')
      OBVIOUS
    <3>1. loginStorage[c] = t /\ t # None
      BY <2>3, MigrationAssumption
    <3>2. <<t, c>> \in asked /\ (state[t] \in {"gone", "over"} => Excused(t, c))
      BY <3>1 DEF IInv, EntryInv, Left
    <3>3. QED  BY <3>2, <2>1, <2>2, <2>4
  <2>6. \A j \in Range(jobs) : j \in asked /\ (state'[j[1]] \in {"gone", "over"} => j[2] \in late')
    <3> SUFFICES ASSUME NEW j \in Range(jobs)
                 PROVE  j \in asked /\ (state'[j[1]] \in {"gone", "over"} => j[2] \in late')
      OBVIOUS
    <3>1. j \in asked /\ j[1] \in Sessions /\ (state[j[1]] \in {"gone", "over"} => j[2] \in late)
      BY <1>3 DEF IInv, EntryInv, Left
    <3>2. CASE j[1] = s
      BY <3>1, <3>2, <1>1
    <3>3. CASE j[1] # s
      BY <3>1, <3>3, <2>2, <1>1
    <3>4. QED  BY <3>2, <3>3
  <2>7. \A w \in asked : state'[w[1]] # "new"
    BY <1>1, <1>3 DEF IInv, EntryInv
  <2>8. \A c \in Characters : loginStorage'[c] # None => loginStorage'[c] \in Sessions
    BY <1>4 DEF TypeOK
  <2>9. QED  BY <1>1, <2>5, <2>6, <2>7, <2>8 DEF EntryInv, Excused, Left
<1>8. QED  BY <1>4, <1>5, <1>6, <1>7 DEF IInv

\* The login server's process ends.
LEMMA LoginEndsIInv ==
  ASSUME IInv, LoginEnds, failures' = failures + 1, failures < MaxFailures
  PROVE  IInv'
<1> USE DEF servers, login, center, game, leaving, history
<1>1. /\ running' = running \ {"login"} /\ linked' = linked \ {"login"}
      /\ state' = [t \in Sessions |-> IF state[t] = "new" THEN "new" ELSE "over"]
      /\ jobs' = <<>> /\ toLogin' = <<>>
      /\ waiting' = [w \in Sessions \X Characters |-> 0]
      /\ abandoned' = abandoned \cup UNION {WaitedFor(t) : t \in Sessions}
      /\ loginStorage' = [c \in Characters |-> None]
      /\ UNCHANGED <<seen, session, late, history, centerStorage, toGame, game, fromGame, told>>
  BY DEF LoginEnds
<1>2. /\ toCenter' \in Seq([character : Characters, from : Nat])
      /\ Len(toCenter') <= Len(toCenter) /\ Len(toCenter') \in Nat
  <2>1. PICK i \in 0 .. Len(toCenter) : toCenter' = SubSeq(toCenter, 1, i)
    BY DEF LoginEnds
  <2>2. toCenter \in Seq([character : Characters, from : Nat])
    BY DEF IInv, TypeOK
  <2>3. QED  BY <2>1, <2>2, RangeFront, LenProperties
<1>3. jobs' \in Seq(Sessions \X Characters) /\ toLogin' \in Seq(Reply) /\ Len(jobs') = 0
  BY <1>1, EmptySeq
<1>4. TypeOK'
  <2>1. abandoned' \subseteq Characters
    BY <1>1 DEF WaitedFor, IInv, TypeOK
  <2>2. state' \in [Sessions -> {"new", "in", "closing", "gone", "over"}] /\ waiting' \in [Sessions \X Characters -> Nat]
    BY <1>1
  <2>3. failures' \in 0 .. MaxFailures
    BY MigrationAssumption DEF IInv, TypeOK
  <2>4. QED  BY <1>1, <1>2, <1>3, <2>1, <2>2, <2>3 DEF IInv, TypeOK
<1>5. Budget'
  BY <1>1, <1>2, <1>3, Lengths DEF IInv, Budget
<1>6. KeyInv'
  <2>1. Replies' \subseteq Replies
    BY <1>1, RangeEmpty DEF Replies
  <2>2. Told' \subseteq Told
    BY <2>1, <1>1 DEF Told
  <2>3. QED  BY <2>2, <1>1, KeysKept
<1>7. EntryInv'
  <2>1. Range(jobs') = {}
    BY <1>1, RangeEmpty
  <2>2. \A w \in asked : w[1] \in Sessions /\ state'[w[1]] # "new"
    BY <1>1 DEF IInv, TypeOK, EntryInv
  <2>3. QED  BY <1>1, <2>1, <2>2 DEF EntryInv
<1>8. QED  BY <1>4, <1>5, <1>6, <1>7 DEF IInv
-----------------------------------------------------------------------------
(* The center server *)

\* A reply the center passes on to the login server, or loses.
LEMMA SendToLoginKeeps ==
  ASSUME IInv, NEW n, NEW r \in Reply, SendToLogin(n, r)
  PROVE  toLogin' \in Seq(Reply) /\ Range(toLogin') \subseteq Range(toLogin) \cup {r}
<1>1. toLogin \in Seq(Reply) /\ (toLogin' = toLogin \/ toLogin' = Append(toLogin, r))
  BY DEF IInv, TypeOK, SendToLogin
<1>2. Append(toLogin, r) \in Seq(Reply) /\ Range(Append(toLogin, r)) = Range(toLogin) \cup {r}
  BY <1>1, RangeAppend
<1>3. QED  BY <1>1, <1>2

\* What is in a queue has the queue's type.
LEMMA RangeType == ASSUME NEW S, NEW q \in Seq(S) PROVE Range(q) \subseteq S
BY LenProperties, ElementOfSeq DEF Range

\* The center asks the game server, or refuses.
LEMMA ServerRequestIInv == ASSUME IInv, HandleServerMigrationRequest PROVE IInv'
<1> USE DEF servers, login, center, game, leaving, history
<1> DEFINE h == Head(toCenter)
           c == h.character
           from == h.from
           Q == [character : Characters, from : Nat]
           refusal == [character |-> c, key |-> NoKey]
<1>1. toCenter \in Seq(Q) /\ toCenter # <<>> /\ toCenter' = Tail(toCenter)
  BY DEF IInv, TypeOK, HandleServerMigrationRequest
<1>2. h \in Q /\ toCenter' \in Seq(Q) /\ Len(toCenter') = Len(toCenter) - 1
  BY <1>1, RangeTail
<1>3. c \in Characters /\ from \in Nat /\ refusal \in Reply
  BY <1>2 DEF Reply
<1>4. UNCHANGED <<servers, login, game, fromGame, told>>
  BY DEF HandleServerMigrationRequest
<1>5. \/ SendToLogin(from, refusal) /\ UNCHANGED <<centerStorage, toGame>>
      \/ /\ centerStorage' = [centerStorage EXCEPT ![c] =
                                IF @ = NoEntry THEN [from |-> from, to |-> session["game"]] ELSE @]
         /\ toGame' = toGame \/ toGame' = Append(toGame, c)
         /\ UNCHANGED toLogin
  BY DEF HandleServerMigrationRequest
<1>6. toLogin' \in Seq(Reply) /\ Range(toLogin') \subseteq Range(toLogin) \cup {refusal}
  <2>1. ASSUME SendToLogin(from, refusal)
        PROVE  toLogin' \in Seq(Reply) /\ Range(toLogin') \subseteq Range(toLogin) \cup {refusal}
    BY <2>1, <1>3, SendToLoginKeeps
  <2>2. ASSUME UNCHANGED toLogin
        PROVE  toLogin' \in Seq(Reply) /\ Range(toLogin') \subseteq Range(toLogin) \cup {refusal}
    BY <2>2 DEF IInv, TypeOK
  <2>3. QED  BY <1>5, <2>1, <2>2
<1>7. toGame' \in Seq(Characters) /\ Len(toGame') <= Len(toGame) + 1 /\ Len(toGame') \in Nat
  <2>1. toGame \in Seq(Characters) /\ Len(toGame) \in Nat
    BY LenProperties DEF IInv, TypeOK
  <2>2. Append(toGame, c) \in Seq(Characters) /\ Len(Append(toGame, c)) = Len(toGame) + 1
    BY <1>3, <2>1, RangeAppend
  <2>3. toGame' = toGame \/ toGame' = Append(toGame, c)
    BY <1>5
  <2>4. CASE toGame' = toGame
    BY <2>1, <2>4
  <2>5. CASE toGame' = Append(toGame, c)
    BY <2>1, <2>2, <2>5
  <2>6. QED  BY <2>3, <2>4, <2>5
<1>8. centerStorage' \in [Characters -> [from : Nat, to : Nat]]
  <2>1. session["game"] \in Nat
    BY DEF IInv, TypeOK, Servers
  <2>2. [from |-> from, to |-> session["game"]] \in [from : Nat, to : Nat]
    BY <1>3, <2>1
  <2>3. QED  BY <1>3, <1>5, <2>2 DEF IInv, TypeOK
<1>9. TypeOK'
  BY <1>2, <1>4, <1>6, <1>7, <1>8 DEF IInv, TypeOK
<1>10. Budget'
  BY <1>2, <1>4, <1>7, Lengths DEF IInv, Budget
<1>11. KeyInv'
  <2>1. Replies' \subseteq Reply
    BY <1>9, RangeType DEF Replies, TypeOK
  <2>2. \A r \in Replies' : r.key # NoKey => r \in Replies
    BY <1>4, <1>6 DEF Replies
  <2>3. Told' \subseteq Told
    BY <2>1, <2>2, <1>4, ToldMade
  <2>4. QED  BY <2>3, <1>4, KeysKept
<1>12. EntryInv'
  BY <1>4, EntriesKept DEF IInv, TypeOK
<1>13. QED  BY <1>9, <1>10, <1>11, <1>12 DEF IInv

\* The center passes the game server's reply on, or drops it.
LEMMA ServerResponseIInv == ASSUME IInv, HandleServerMigrationResponse PROVE IInv'
<1> USE DEF servers, login, center, game, leaving, history
<1> DEFINE h == Head(fromGame)
           c == h.character
           n == centerStorage[c].from
<1>1. fromGame \in Seq(Reply) /\ fromGame # <<>> /\ fromGame' = Tail(fromGame)
  BY DEF IInv, TypeOK, HandleServerMigrationResponse
<1>2. /\ h \in Reply /\ fromGame' \in Seq(Reply)
      /\ h \in Range(fromGame) /\ Range(fromGame') \subseteq Range(fromGame)
  BY <1>1, RangeTail
<1>3. UNCHANGED <<servers, login, toCenter, toGame, game, told>>
  BY DEF HandleServerMigrationResponse
<1>4. \/ SendToLogin(n, h) /\ UNCHANGED centerStorage
      \/ centerStorage' = [centerStorage EXCEPT ![c] = NoEntry] /\ UNCHANGED toLogin
  BY DEF HandleServerMigrationResponse
<1>5. toLogin' \in Seq(Reply) /\ Range(toLogin') \subseteq Range(toLogin) \cup {h}
  BY <1>2, <1>4, SendToLoginKeeps DEF IInv, TypeOK
<1>6. centerStorage' \in [Characters -> [from : Nat, to : Nat]]
  <2>1. NoEntry \in [from : Nat, to : Nat]
    BY DEF NoEntry
  <2>2. QED  BY <1>4, <2>1 DEF IInv, TypeOK
<1>7. TypeOK'
  BY <1>2, <1>3, <1>5, <1>6 DEF IInv, TypeOK
<1>8. Budget'
  BY <1>3 DEF IInv, Budget
<1>9. KeyInv'
  <2>1. Replies' \subseteq Reply
    BY <1>7, RangeType DEF Replies, TypeOK
  <2>2. Replies' \subseteq Replies
    BY <1>2, <1>5 DEF Replies
  <2>3. Told' \subseteq Told
    BY <2>1, <2>2, <1>3, ToldMade
  <2>4. QED  BY <2>3, <1>3, KeysKept
<1>10. EntryInv'
  BY <1>3, EntriesKept DEF IInv, TypeOK
<1>11. QED  BY <1>7, <1>8, <1>9, <1>10 DEF IInv
-----------------------------------------------------------------------------
(* The game server *)

\* The game server's reply reaches its queue, or is lost.
LEMMA AnswerKeeps ==
  ASSUME IInv, NEW r \in Reply, fromGame' = fromGame \/ fromGame' = Append(fromGame, r)
  PROVE  fromGame' \in Seq(Reply) /\ Range(fromGame') \subseteq Range(fromGame) \cup {r}
<1>1. fromGame \in Seq(Reply)
  BY DEF IInv, TypeOK
<1>2. Append(fromGame, r) \in Seq(Reply) /\ Range(Append(fromGame, r)) = Range(fromGame) \cup {r}
  BY <1>1, RangeAppend
<1>3. QED  BY <1>1, <1>2

\* A key is made while nobody knows it.
LEMMA NewKey ==
  ASSUME IInv, NEW c \in Characters, auth[c] = NoKey, issued' = issued + 1, issued' \in Keys,
         auth' = [auth EXCEPT ![c] = issued'], UNCHANGED <<voided, entries>>,
         Told' \subseteq Told \cup {<<c, issued'>>}
  PROVE  KeyInv'
<1>1. /\ auth \in [Characters -> Keys \cup {NoKey}] /\ entries \in [Keys -> Nat]
      /\ issued \in Nat /\ voided \in Nat /\ voided <= issued /\ Keys \subseteq Nat \ {0}
  <2>1. Keys \subseteq Nat \ {0}
    BY MigrationAssumption DEF Keys
  <2>2. QED  BY <2>1, Lengths DEF IInv, TypeOK
<1>2. AuthKeys /\ KeysMade /\ OneEntry /\ KeysWork
  BY DEF IInv, KeyInv
<1>3. auth'[c] = issued' /\ \A d \in Characters : d # c => auth'[d] = auth[d]
  BY <1>1
<1>4. entries[issued'] = 0
  BY <1>1, <1>2 DEF KeysMade
<1>5. AuthKeys'
  <2>1. ASSUME NEW d \in Characters, auth'[d] # NoKey
        PROVE  voided' < auth'[d] /\ auth'[d] <= issued' /\ entries'[auth'[d]] = 0
    <3>1. CASE d = c
      BY <3>1, <1>1, <1>3, <1>4
    <3>2. CASE d # c
      <4>1. auth'[d] = auth[d] /\ auth[d] \in Keys
        BY <3>2, <2>1, <1>1, <1>3
      <4>2. voided < auth[d] /\ auth[d] <= issued /\ entries[auth[d]] = 0
        BY <2>1, <4>1, <1>2 DEF AuthKeys
      <4>3. auth[d] <= issued'
        <5>1. \A a, b \in Nat : a <= b => a <= b + 1
          OBVIOUS
        <5>2. auth[d] \in Nat /\ issued \in Nat /\ issued' = issued + 1
          BY <4>1, <1>1
        <5>3. QED  BY <5>1, <5>2, <4>2
      <4>4. QED  BY <4>1, <4>2, <4>3
    <3>3. QED  BY <3>1, <3>2
  <2>2. \A d \in Characters : d # c => auth'[d] # issued'
    <3> SUFFICES ASSUME NEW d \in Characters, d # c PROVE auth[d] # issued'
      BY <1>3
    <3>1. auth[d] # NoKey => auth[d] <= issued
      BY <1>2 DEF AuthKeys
    <3>2. QED  BY <3>1, <1>1 DEF NoKey
  <2>3. \A d, e \in Characters : auth'[d] = auth'[e] /\ auth'[d] # NoKey => d = e
    BY <2>2, <1>2, <1>3 DEF AuthKeys
  <2>4. QED  BY <2>1, <2>3 DEF AuthKeys
<1>6. KeysMade'
  <2>1. \A m \in Told' : m[2] <= issued'
    <3> SUFFICES ASSUME NEW m \in Told' PROVE m[2] <= issued'
      OBVIOUS
    <3>1. CASE m \in Told
      <4>1. m[2] <= issued /\ m[2] \in Nat
        BY <3>1, <1>1, <1>2 DEF KeysMade, Told
      <4>2. QED  BY <4>1, <1>1
    <3>2. CASE m = <<c, issued'>>
      BY <3>2, <1>1
    <3>3. QED  BY <3>1, <3>2
  <2>2. \A k \in Keys : k > issued' => entries[k] = 0
    BY <1>1, <1>2 DEF KeysMade
  <2>3. QED  BY <2>1, <2>2 DEF KeysMade
<1>7. KeysWork'
  <2> SUFFICES ASSUME NEW m \in Told', m[2] > voided
               PROVE  auth'[m[1]] = m[2] \/ entries[m[2]] > 0
    BY DEF KeysWork
  <2>1. CASE m = <<c, issued'>>
    BY <2>1, <1>3
  <2>2. CASE m \in Told
    <3>1. m[1] \in Characters /\ m[2] \in Keys /\ (auth[m[1]] = m[2] \/ entries[m[2]] > 0)
      BY <2>2, <1>2 DEF KeysWork, Told
    <3>2. QED  BY <3>1, <1>1, <1>3 DEF NoKey
  <2>3. QED  BY <2>1, <2>2
<1>8. QED  BY <1>2, <1>5, <1>6, <1>7 DEF KeyInv, OneEntry

\* The game server makes a key, or says that the character has one.
LEMMA HandleRequestIInv == ASSUME IInv, HandleMigrationRequest PROVE IInv'
<1> USE DEF servers, login, center, game, leaving, history
<1> DEFINE c == Head(toGame)
           reply(k) == [character |-> c, key |-> k]
           Sent(k) == fromGame' = fromGame \/ fromGame' = Append(fromGame, reply(k))
<1>1. toGame \in Seq(Characters) /\ toGame # <<>> /\ toGame' = Tail(toGame)
  BY DEF IInv, TypeOK, HandleMigrationRequest
<1>2. /\ c \in Characters /\ toGame' \in Seq(Characters) /\ Len(toGame') = Len(toGame) - 1
      /\ Len(toGame') \in Nat
  BY <1>1, RangeTail, LenProperties
<1>3. UNCHANGED <<servers, login, center, voided, entries, toLogin, told>>
  BY DEF HandleMigrationRequest
<1>4. \/ Sent(NoKey) /\ UNCHANGED <<auth, issued>>
      \/ /\ auth[c] = NoKey /\ issued' = issued + 1 /\ auth' = [auth EXCEPT ![c] = issued']
         /\ Sent(issued')
  BY DEF HandleMigrationRequest
<1>5. issued + 1 \in Keys /\ issued + 1 <= MaxSelects
  BY <1>2, Lengths DEF IInv, Budget, Keys
<1>6. issued' = issued \/ issued' = issued + 1
  BY <1>4
<1>7. \A k \in Keys \cup {NoKey} :
        Sent(k) => /\ fromGame' \in Seq(Reply)
                   /\ Range(fromGame') \subseteq Range(fromGame) \cup {reply(k)}
  <2> SUFFICES ASSUME NEW k \in Keys \cup {NoKey}, Sent(k)
               PROVE  /\ fromGame' \in Seq(Reply)
                      /\ Range(fromGame') \subseteq Range(fromGame) \cup {reply(k)}
    OBVIOUS
  <2>1. reply(k) \in Reply
    BY <1>2 DEF Reply
  <2>2. QED  BY <2>1, AnswerKeeps
<1>8. TypeOK'
  <2>1. fromGame' \in Seq(Reply)
    BY <1>4, <1>5, <1>7
  <2>2. auth' \in [Characters -> Keys \cup {NoKey}]
    BY <1>4, <1>5 DEF IInv, TypeOK
  <2>3. issued' \in 0 .. MaxSelects /\ voided' \in 0 .. issued'
    <3>1. /\ issued \in Nat /\ voided \in Nat /\ MaxSelects \in Nat
          /\ voided <= issued /\ issued <= MaxSelects
      BY Lengths DEF IInv
    <3>2. voided' = voided
      BY <1>3
    <3>3. issued' = issued \/ (issued' = issued + 1 /\ issued + 1 <= MaxSelects)
      BY <1>5, <1>6
    <3>4. QED  BY ONLY <3>1, <3>2, <3>3
  <2>4. QED  BY <1>2, <1>3, <2>1, <2>2, <2>3 DEF IInv, TypeOK
<1>9. Budget'
  BY <1>2, <1>3, <1>6, Lengths DEF IInv, Budget
<1>10. KeyInv'
  <2>1. Replies' \subseteq Reply
    BY <1>8, RangeType DEF Replies, TypeOK
  <2>2. CASE Sent(NoKey) /\ UNCHANGED <<auth, issued>>
    <3>1. \A r \in Replies' : r.key # NoKey => r \in Replies
      <4>1. Replies' \subseteq Replies \cup {reply(NoKey)}
        BY <2>2, <1>3, <1>7 DEF Replies
      <4>2. QED  BY <4>1
    <3>2. Told' \subseteq Told
      BY <2>1, <3>1, <1>3, ToldMade
    <3>3. QED  BY <2>2, <3>2, <1>3, KeysKept
  <2>3. CASE /\ auth[c] = NoKey /\ issued' = issued + 1 /\ auth' = [auth EXCEPT ![c] = issued']
             /\ Sent(issued')
    <3>1. Replies' \subseteq Replies \cup {reply(issued')}
      BY <2>3, <1>3, <1>5, <1>7 DEF Replies
    <3>2. Told' \subseteq Told \cup {<<c, issued'>>}
      <4> SUFFICES ASSUME NEW m \in Characters \X Keys, m \in Told'
                   PROVE  m \in Told \cup {<<c, issued'>>}
        BY DEF Told
      <4>1. CASE \E s \in Sessions : <<s, m[1], m[2]>> \in told
        BY <4>1 DEF Told
      <4>2. CASE [character |-> m[1], key |-> m[2]] \in Replies
        BY <4>2 DEF Told
      <4>3. CASE [character |-> m[1], key |-> m[2]] = reply(issued')
        BY <4>3
      <4>4. QED  BY <4>1, <4>2, <4>3, <3>1, <1>3 DEF Told
    <3>3. QED  BY <2>3, <3>2, <1>2, <1>3, <1>5, NewKey
  <2>4. QED  BY <1>4, <2>2, <2>3
<1>11. EntryInv'
  BY <1>3, EntriesKept DEF IInv, TypeOK
<1>12. QED  BY <1>8, <1>9, <1>10, <1>11 DEF IInv

\* A client enters the game: its key is used, and nobody has it any more.
LEMMA EnterIInv ==
  ASSUME IInv, NEW s \in Sessions, NEW c \in Characters, NEW k \in Keys,
         HandleClientEnter(s, c, k)
  PROVE  IInv'
<1> USE DEF servers, login, center, game, leaving, history
<1>1. /\ auth[c] = k /\ auth' = [auth EXCEPT ![c] = NoKey]
      /\ entries' = [entries EXCEPT ![k] = @ + 1]
      /\ UNCHANGED <<servers, login, center, toGame, issued, voided, fromGame, toLogin, told>>
  BY DEF HandleClientEnter
<1>2. /\ auth \in [Characters -> Keys \cup {NoKey}] /\ entries \in [Keys -> Nat]
      /\ issued \in Nat /\ voided \in Nat /\ Keys \subseteq Nat \ {0}
  <2>1. Keys \subseteq Nat \ {0}
    BY MigrationAssumption DEF Keys
  <2>2. QED  BY <2>1, Lengths DEF IInv, TypeOK
<1>3. AuthKeys /\ KeysMade /\ OneEntry /\ KeysWork
  BY DEF IInv, KeyInv
<1>4. k # NoKey /\ entries[k] = 0 /\ k <= issued
  BY <1>1, <1>2, <1>3 DEF AuthKeys, NoKey
<1>5. /\ entries'[k] = 1 /\ \A l \in Keys : l # k => entries'[l] = entries[l]
      /\ auth'[c] = NoKey /\ \A d \in Characters : d # c => auth'[d] = auth[d] /\ auth[d] # k
  BY <1>1, <1>2, <1>3, <1>4 DEF AuthKeys
<1>6. Told' = Told
  BY <1>1 DEF Told, Replies
<1>7. TypeOK'
  <2>1. auth' \in [Characters -> Keys \cup {NoKey}]
    BY <1>1, <1>2
  <2>2. entries' \in [Keys -> Nat]
    BY <1>1, <1>2, <1>4
  <2>3. QED  BY <1>1, <2>1, <2>2 DEF IInv, TypeOK
<1>8. Budget'
  BY <1>1 DEF IInv, Budget
<1>9. AuthKeys'
  <2>1. ASSUME NEW d \in Characters, auth'[d] # NoKey
        PROVE  voided' < auth'[d] /\ auth'[d] <= issued' /\ entries'[auth'[d]] = 0
    <3>1. d # c /\ auth'[d] = auth[d] /\ auth[d] # k /\ auth[d] \in Keys
      BY <2>1, <1>2, <1>5
    <3>2. voided < auth[d] /\ auth[d] <= issued /\ entries[auth[d]] = 0
      BY <2>1, <3>1, <1>3 DEF AuthKeys
    <3>3. QED  BY <3>1, <3>2, <1>1, <1>5
  <2>2. \A d, e \in Characters : auth'[d] = auth'[e] /\ auth'[d] # NoKey => d = e
    BY <1>3, <1>5 DEF AuthKeys
  <2>3. QED  BY <2>1, <2>2 DEF AuthKeys
<1>10. KeysMade'
  BY <1>1, <1>2, <1>3, <1>4, <1>5, <1>6 DEF KeysMade
<1>11. OneEntry'
  BY <1>3, <1>5 DEF OneEntry
<1>12. KeysWork'
  <2> SUFFICES ASSUME NEW m \in Told, m[2] > voided
               PROVE  auth'[m[1]] = m[2] \/ entries'[m[2]] > 0
    BY <1>1, <1>6 DEF KeysWork
  <2>1. m[1] \in Characters /\ m[2] \in Keys /\ (auth[m[1]] = m[2] \/ entries[m[2]] > 0)
    BY <1>3 DEF KeysWork, Told
  <2>2. QED  BY <2>1, <1>1, <1>4, <1>5
<1>13. EntryInv'
  BY <1>1, EntriesKept DEF IInv, TypeOK
<1>14. QED  BY <1>7, <1>8, <1>9, <1>10, <1>11, <1>12, <1>13 DEF IInv, KeyInv
-----------------------------------------------------------------------------
(* Failures *)

\* The game server crashes: no key that was made is true any more.
LEMMA GameCrashIInv == ASSUME IInv, GameCrash PROVE IInv'
<1> USE DEF servers, login, center, game, leaving, history
<1>1. /\ failures < MaxFailures /\ failures' = failures + 1
      /\ running' = running \ {"game"} /\ linked' = linked \ {"game"}
      /\ auth' = [c \in Characters |-> NoKey] /\ voided' = issued /\ toGame' = <<>>
      /\ UNCHANGED <<seen, session, login, center, issued, entries, toLogin, told>>
  BY DEF GameCrash
<1>2. fromGame' \in Seq(Reply) /\ Range(fromGame') \subseteq Range(fromGame)
  <2>1. PICK i \in 0 .. Len(fromGame) : fromGame' = SubSeq(fromGame, 1, i)
    BY DEF GameCrash
  <2>2. fromGame \in Seq(Reply)
    BY DEF IInv, TypeOK
  <2>3. QED  BY <2>1, <2>2, RangeFront
<1>3. toGame' \in Seq(Characters) /\ Len(toGame') = 0
  BY <1>1, EmptySeq
<1>4. TypeOK'
  <2>1. failures' \in 0 .. MaxFailures
    BY <1>1, MigrationAssumption DEF IInv, TypeOK
  <2>2. voided' \in 0 .. issued'
    BY <1>1, Lengths DEF IInv
  <2>3. QED  BY <1>1, <1>2, <1>3, <2>1, <2>2 DEF IInv, TypeOK
<1>5. Budget'
  BY <1>1, <1>3, Lengths DEF IInv, Budget
<1>6. KeyInv'
  <2>1. Told' \subseteq Told
    BY <1>1, <1>2 DEF Told, Replies
  <2>2. AuthKeys'
    BY <1>1 DEF AuthKeys
  <2>3. KeysMade' /\ OneEntry'
    BY <1>1, <2>1 DEF IInv, KeyInv, KeysMade, OneEntry
  <2>4. KeysWork'
    <3> SUFFICES ASSUME NEW m \in Told PROVE ~ m[2] > issued
      BY <1>1, <2>1 DEF KeysWork
    <3>1. m[2] <= issued /\ m[2] \in Nat /\ issued \in Nat
      BY Lengths DEF IInv, KeyInv, KeysMade, Told, Keys
    <3>2. QED  BY <3>1
  <2>5. QED  BY <2>2, <2>3, <2>4 DEF KeyInv
<1>7. EntryInv'
  BY <1>1, EntriesKept DEF IInv, TypeOK
<1>8. QED  BY <1>4, <1>5, <1>6, <1>7 DEF IInv

\* The center crashes: what the servers have not got of its packets is lost.
LEMMA CenterCrashIInv == ASSUME IInv, CenterCrash PROVE IInv'
<1> USE DEF servers, login, center, game, leaving, history
<1>1. /\ failures < MaxFailures /\ failures' = failures + 1 /\ linked' = {} /\ seen' = {}
      /\ centerStorage' = [c \in Characters |-> NoEntry]
      /\ toCenter' = <<>> /\ fromGame' = <<>>
      /\ UNCHANGED <<running, session, login, game, told>>
  BY DEF CenterCrash
<1>2. toGame' \in Seq(Characters) /\ Len(toGame') <= Len(toGame) /\ Len(toGame') \in Nat
  <2>1. PICK i \in 0 .. Len(toGame) : toGame' = SubSeq(toGame, 1, i)
    BY DEF CenterCrash
  <2>2. toGame \in Seq(Characters)
    BY DEF IInv, TypeOK
  <2>3. QED  BY <2>1, <2>2, RangeFront, LenProperties
<1>3. toLogin' \in Seq(Reply) /\ Range(toLogin') \subseteq Range(toLogin)
  <2>1. PICK i \in 0 .. Len(toLogin) : toLogin' = SubSeq(toLogin, 1, i)
    BY DEF CenterCrash
  <2>2. toLogin \in Seq(Reply)
    BY DEF IInv, TypeOK
  <2>3. QED  BY <2>1, <2>2, RangeFront
<1>4. TypeOK'
  <2>1. \A S : <<>> \in Seq(S)
    BY EmptySeq
  <2>2. failures' \in 0 .. MaxFailures
    BY <1>1, MigrationAssumption DEF IInv, TypeOK
  <2>3. centerStorage' \in [Characters -> [from : Nat, to : Nat]]
    BY <1>1 DEF NoEntry
  <2>4. QED  BY <1>1, <1>2, <1>3, <2>1, <2>2, <2>3 DEF IInv, TypeOK
<1>5. Budget'
  <2>1. Len(toCenter') = 0
    BY <1>1
  <2>2. QED  BY <1>1, <1>2, <2>1, Lengths DEF IInv, Budget
<1>6. KeyInv'
  <2>1. Told' \subseteq Told
    BY <1>1, <1>3, RangeEmpty DEF Told, Replies
  <2>2. QED  BY <1>1, <2>1, KeysKept
<1>7. EntryInv'
  BY <1>1, EntriesKept DEF IInv, TypeOK
<1>8. QED  BY <1>4, <1>5, <1>6, <1>7 DEF IInv

\* The center notices that a server is gone, or a server is started.
LEMMA RegistrationIInv ==
  ASSUME IInv, NEW x \in Servers, CenterNotices(x) \/ Start(x)
  PROVE  IInv'
<1> USE DEF servers, login, center, game, leaving, history
<1>1. UNCHANGED <<failures, login, center, toGame, game, fromGame, toLogin, told>>
  BY DEF CenterNotices, Start
<1>2. TypeOK'
  <2>1. /\ running \subseteq Servers /\ linked \subseteq running /\ linked \subseteq seen
        /\ seen \subseteq Servers /\ session \in [Servers -> Nat]
    BY DEF IInv, TypeOK
  <2>2. CASE CenterNotices(x)
    BY <1>1, <2>1, <2>2 DEF IInv, TypeOK, CenterNotices
  <2>3. CASE Start(x)
    <3>1. /\ running' = running \cup {x} /\ linked' = linked \cup {x} /\ seen' = seen \cup {x}
          /\ session' = [session EXCEPT ![x] = @ + 1]
      BY <2>3 DEF Start, HandleServerRegisterRequest
    <3>2. session' \in [Servers -> Nat]
      BY <2>1, <3>1
    <3>3. QED  BY <1>1, <2>1, <3>1, <3>2 DEF IInv, TypeOK
  <2>4. QED  BY <2>2, <2>3
<1>3. Budget'
  BY <1>1 DEF IInv, Budget
<1>4. KeyInv'
  <2>1. Told' = Told
    BY <1>1 DEF Told, Replies
  <2>2. QED  BY <1>1, <2>1, KeysKept
<1>5. EntryInv'
  BY <1>1, EntriesKept DEF IInv, TypeOK
<1>6. QED  BY <1>2, <1>3, <1>4, <1>5 DEF IInv
-----------------------------------------------------------------------------
(* The invariant and what follows from it *)

\* Every step of the servers and the clients keeps the invariant.
LEMMA NextIInv == IInv /\ [Next]_vars => IInv'
<1> SUFFICES ASSUME IInv, [Next]_vars PROVE IInv'
  OBVIOUS
<1>1. ASSUME NEW s \in Sessions, Connect(s) PROVE IInv'
  BY <1>1, ConnectIInv
<1>2. ASSUME NEW s \in Sessions, Disconnect(s) \/ OnDisconnected(s) \/ OnRecvEnds(s) PROVE IInv'
  BY <1>2, DisconnectIInv, LeaveIInv, OnRecvEndsIInv
<1>3. ASSUME NEW s \in Sessions, OnDisconnectedCrashes(s) PROVE IInv'
  BY <1>3, LoginEndsIInv DEF OnDisconnectedCrashes
<1>4. ASSUME NEW s \in Sessions, NEW c \in Characters, SelectCharacter(s, c) PROVE IInv'
  BY <1>4, SelectIInv
<1>5. ASSUME NEW s \in Sessions, NEW c \in Characters, NEW k \in Keys, HandleClientEnter(s, c, k)
      PROVE  IInv'
  BY <1>5, EnterIInv
<1>6. CASE Handle
  BY <1>6, HandleSelectIInv, HandleResponseIInv, ServerRequestIInv, ServerResponseIInv,
     HandleRequestIInv DEF Handle
<1>7. CASE LoginCrash
  BY <1>7, LoginEndsIInv DEF LoginCrash
<1>8. CASE GameCrash
  BY <1>8, GameCrashIInv
<1>9. CASE CenterCrash
  BY <1>9, CenterCrashIInv
<1>10. ASSUME NEW x \in Servers, CenterNotices(x) \/ Start(x) PROVE IInv'
  BY <1>10, RegistrationIInv
<1>11. CASE UNCHANGED vars
  <2>1. UNCHANGED <<running, linked, seen, session, failures, state, jobs, waiting, loginStorage,
                    abandoned, late, asked, contested, selects, toCenter, centerStorage, toGame,
                    auth, issued, voided, entries, fromGame, toLogin, told>>
    BY <1>11 DEF vars, servers, login, center, game, leaving, history
  <2>2. Told' = Told /\ TypeOK' /\ Budget' /\ EntryInv'
    BY <2>1 DEF IInv, TypeOK, Budget, EntryInv, Excused, Left, Told, Replies
  <2>3. KeyInv'
    BY <2>1, <2>2, KeysKept
  <2>4. QED  BY <2>2, <2>3 DEF IInv
<1>12. QED
  BY <1>1, <1>2, <1>3, <1>4, <1>5, <1>6, <1>7, <1>8, <1>9, <1>10, <1>11 DEF Next

\* The invariant holds always.
LEMMA Invariance == Spec => []IInv
<1>1. QED  BY InitIInv, NextIInv, PTL DEF Spec

\* The servers' storages, queues and keys have their types, whatever crashes when.
THEOREM TypeCorrect == Spec => []TypeOK
<1>1. IInv => TypeOK
  BY DEF IInv
<1>2. QED  BY <1>1, Invariance, PTL

\* The game server lets a client in at most once with a key.
THEOREM KeysOpenOnce == Spec => []OneEntry
<1>1. IInv => OneEntry
  BY DEF IInv, KeyInv
<1>2. QED  BY <1>1, Invariance, PTL

\* A key that was told opens the game until it was used or the game server is started again.
THEOREM ToldKeysOpen == Spec => []KeysAreTrue
<1>1. IInv => KeysAreTrue
  <2> SUFFICES ASSUME IInv, NEW c \in Characters, NEW k \in Keys, k > voided,
                      \/ [character |-> c, key |-> k] \in Replies
                      \/ \E s \in Sessions : <<s, c, k>> \in told
               PROVE  auth[c] = k \/ entries[k] > 0
    BY DEF KeysAreTrue
  <2>1. <<c, k>> \in Told
    BY DEF Told
  <2>2. <<c, k>>[2] > voided => auth[<<c, k>>[1]] = <<c, k>>[2] \/ entries[<<c, k>>[2]] > 0
    BY <2>1 DEF IInv, KeyInv, KeysWork
  <2>3. QED  BY <2>2
<1>2. QED  BY <1>1, Invariance, PTL

\* An entry outlives its session only if the session had selected another character or its
\* OnDisconnected ran before the selection was handled.
THEOREM StaleEntriesHaveReasons == Spec => []StaleEntriesExplained
<1>1. IInv => StaleEntriesExplained
  BY DEF IInv, EntryInv, Excused, Left, StaleEntriesExplained, Expired
<1>2. QED  BY <1>1, Invariance, PTL
-----------------------------------------------------------------------------
(* A character is not locked out, and answers are awaited: a second invariant *)

\* How many messages of a queue are of a kind.
CountIn(q, M) == Cardinality({i \in DOMAIN q : q[i] \in M})

\* The selections of a character in the login server's queue, and those beyond it.
Queued(c) == CountIn(jobs, Sessions \X {c})
AtCenter(c) == CountIn(toCenter, [character : {c}, from : Nat])
AtGame(c) == CountIn(toGame, {c})
Back(c) == CountIn(fromGame, [character : {c}, key : Keys \cup {NoKey}])
AtLogin(c) == CountIn(toLogin, [character : {c}, key : Keys \cup {NoKey}])
Beyond(c) == AtCenter(c) + AtGame(c) + Back(c) + AtLogin(c)

\* Until the first failure the three servers are connected as they were at the start, and
\* the center knows the way of every answer underway.
Calm ==
  failures = 0 =>
    /\ running = Servers /\ linked = Servers /\ seen = Servers
    /\ session = [x \in Servers |-> 1]
    /\ \A r \in Range(toCenter) : r.from = 1
    /\ \A c \in Range(toGame) : centerStorage[c] = [from |-> 1, to |-> 1]
    /\ \A r \in Range(fromGame) : centerStorage[r.character] = [from |-> 1, to |-> 1]
    /\ \A c \in Characters : centerStorage[c] \in {NoEntry, [from |-> 1, to |-> 1]}

\* A client that is there waits for each of its queued selections, and for the one that is
\* remembered.
Waits ==
  \A s \in Sessions, c \in Characters :
    state[s] = "in" =>
      waiting[<<s, c>>] >= CountIn(jobs, {<<s, c>>}) + (IF loginStorage[c] = s THEN 1 ELSE 0)

\* There is one selection of the character at most, remembered while it is beyond the login
\* server, and its client is there.
Alone(c) ==
  /\ Queued(c) + Beyond(c) <= 1
  /\ Beyond(c) > 0 <=> loginStorage[c] # None
  /\ loginStorage[c] # None => state[loginStorage[c]] = "in"
  /\ \A s \in Sessions : <<s, c>> \in Range(jobs) => state[s] = "in"
OnesAlone == failures = 0 => \A c \in Characters \ (abandoned \cup contested) : Alone(c)

JInv == Calm /\ Waits /\ OnesAlone /\ NoLockout

\* The messages of a kind are counted.
LEMMA CountIsNat ==
  ASSUME NEW S, NEW q \in Seq(S), NEW M
  PROVE  /\ IsFiniteSet({i \in DOMAIN q : q[i] \in M}) /\ CountIn(q, M) \in Nat
         /\ CountIn(q, M) > 0 <=> \E x \in Range(q) : x \in M
<1> DEFINE I == {i \in DOMAIN q : q[i] \in M}
<1>1. Len(q) \in Nat /\ DOMAIN q = 1 .. Len(q)
  BY LenProperties
<1>2. IsFiniteSet(I)
  <2>1. IsFiniteSet(1 .. Len(q))
    BY <1>1, FS_Interval
  <2>2. I \subseteq 1 .. Len(q)
    BY <1>1
  <2> QED BY <2>1, <2>2, FS_Subset
<1>3. Cardinality(I) \in Nat /\ (Cardinality(I) = 0 <=> I = {})
  BY <1>2, FS_CardinalityType, FS_EmptySet
<1>4. I # {} <=> \E x \in Range(q) : x \in M
  BY DEF Range
<1> HIDE DEF I
<1>5. CountIn(q, M) = Cardinality(I)
  BY DEF CountIn, I
<1>6. CountIn(q, M) > 0 <=> I # {}
  BY <1>3, <1>5
<1> QED BY <1>2, <1>3, <1>4, <1>5, <1>6 DEF I

\* A message more.
LEMMA CountAppend ==
  ASSUME NEW S, NEW q \in Seq(S), NEW e \in S, NEW M
  PROVE  /\ CountIn(q, M) \in Nat
         /\ CountIn(Append(q, e), M) = CountIn(q, M) + (IF e \in M THEN 1 ELSE 0)
<1> DEFINE I == {i \in DOMAIN q : q[i] \in M}
           J == {i \in DOMAIN Append(q, e) : Append(q, e)[i] \in M}
<1>1. Len(q) \in Nat /\ DOMAIN q = 1 .. Len(q)
  BY LenProperties
<1>2. /\ Append(q, e) \in Seq(S) /\ Len(Append(q, e)) = Len(q) + 1
      /\ \A i \in 1 .. Len(q) : Append(q, e)[i] = q[i]
      /\ Append(q, e)[Len(q) + 1] = e
  BY AppendProperties
<1>3. DOMAIN Append(q, e) = 1 .. Len(q) + 1
  BY <1>2, LenProperties
<1>4. IsFiniteSet(I) /\ Cardinality(I) \in Nat /\ Len(q) + 1 \notin I
  <2>1. IsFiniteSet(I) /\ Cardinality(I) \in Nat
    BY CountIsNat DEF CountIn
  <2>2. Len(q) + 1 \notin I
    BY <1>1
  <2> QED BY <2>1, <2>2
<1>5. J = IF e \in M THEN I \cup {Len(q) + 1} ELSE I
  BY <1>1, <1>2, <1>3
<1> HIDE DEF I, J
<1>6. Cardinality(I \cup {Len(q) + 1}) = Cardinality(I) + 1
  BY <1>4, FS_AddElement
<1>7. Cardinality(J) = Cardinality(I) + (IF e \in M THEN 1 ELSE 0)
  BY <1>4, <1>5, <1>6
<1> QED BY <1>4, <1>7 DEF CountIn, I, J

\* A message less.
LEMMA CountTail ==
  ASSUME NEW S, NEW q \in Seq(S), q # <<>>, NEW M
  PROVE  /\ CountIn(q, M) \in Nat /\ CountIn(Tail(q), M) \in Nat
         /\ CountIn(q, M) = CountIn(Tail(q), M) + (IF Head(q) \in M THEN 1 ELSE 0)
<1> DEFINE I == {i \in DOMAIN q : q[i] \in M}
           J == {i \in DOMAIN Tail(q) : Tail(q)[i] \in M}
           K == I \ {1}
           f == [i \in J |-> i + 1]
<1>1. /\ Head(q) \in S /\ Tail(q) \in Seq(S) /\ Len(Tail(q)) = Len(q) - 1
      /\ \A i \in 1 .. Len(Tail(q)) : Tail(q)[i] = q[i + 1]
  BY HeadTailProperties
<1>2. /\ Len(q) \in Nat \ {0} /\ DOMAIN q = 1 .. Len(q) /\ DOMAIN Tail(q) = 1 .. Len(q) - 1
      /\ Head(q) = q[1]
  BY <1>1, EmptySeq, LenProperties
<1>3. /\ IsFiniteSet(I) /\ Cardinality(I) \in Nat /\ IsFiniteSet(J) /\ Cardinality(J) \in Nat
  BY <1>1, CountIsNat DEF CountIn
<1>4. \A i \in J : i + 1 \in K
  BY <1>1, <1>2
<1>5. \A i \in K : i - 1 \in J /\ (i - 1) + 1 = i
  BY <1>1, <1>2
<1>6. J \subseteq Nat
  BY <1>2
<1>7. (1 \in I <=> Head(q) \in M) /\ I = IF Head(q) \in M THEN K \cup {1} ELSE K
  BY <1>2
<1> HIDE DEF I, J, K
<1>8. f \in Bijection(J, K)
  <2>1. f \in [J -> K]
    BY <1>4
  <2>2. \A a, b \in J : f[a] = f[b] => a = b
    BY <1>6
  <2>3. \A k \in K : \E j \in J : f[j] = k
    BY <1>5
  <2> HIDE DEF f
  <2> QED BY <2>1, <2>2, <2>3 DEF Bijection, Injection, Surjection, IsInjective
<1>9. IsFiniteSet(K) /\ Cardinality(K) = Cardinality(J)
  <2>1. ExistsBijection(J, K)
    BY <1>8 DEF ExistsBijection
  <2> QED BY <1>3, <2>1, FS_Bijection
<1>10. Cardinality(K \cup {1}) = Cardinality(K) + 1
  BY <1>9, FS_AddElement DEF K
<1>11. Cardinality(I) = Cardinality(J) + (IF Head(q) \in M THEN 1 ELSE 0)
  BY <1>3, <1>7, <1>9, <1>10
<1> QED BY <1>3, <1>11 DEF CountIn, I, J

\* An empty queue.
LEMMA CountEmpty == ASSUME NEW M PROVE CountIn(<<>>, M) = 0
<1>1. DOMAIN <<>> = {}
  BY EmptySeq
<1>2. {i \in DOMAIN <<>> : <<>>[i] \in M} = {}
  BY <1>1
<1> QED BY <1>2, FS_EmptySet DEF CountIn

\* The kinds of messages.
LEMMA KindsOf ==
  ASSUME NEW c \in Characters
  PROVE  /\ \A w \in Sessions \X Characters : w \in Sessions \X {c} <=> w[2] = c
         /\ \A m \in [character : Characters, from : Nat] :
              m \in [character : {c}, from : Nat] <=> m.character = c
         /\ \A m \in Reply :
              m \in [character : {c}, key : Keys \cup {NoKey}] <=> m.character = c
BY DEF Reply

\* The numbers of a character's selections.
LEMMA Numbers ==
  ASSUME IInv, NEW c \in Characters
  PROVE  /\ Queued(c) \in Nat /\ AtCenter(c) \in Nat /\ AtGame(c) \in Nat
         /\ Back(c) \in Nat /\ AtLogin(c) \in Nat
         /\ Queued(c) > 0 <=> \E j \in Range(jobs) : j[2] = c
         /\ AtCenter(c) > 0 <=> \E m \in Range(toCenter) : m.character = c
         /\ AtGame(c) > 0 <=> c \in Range(toGame)
         /\ Back(c) > 0 <=> \E m \in Range(fromGame) : m.character = c
         /\ AtLogin(c) > 0 <=> \E m \in Range(toLogin) : m.character = c
<1>1. /\ jobs \in Seq(Sessions \X Characters) /\ toGame \in Seq(Characters)
      /\ toCenter \in Seq([character : Characters, from : Nat])
      /\ fromGame \in Seq(Reply) /\ toLogin \in Seq(Reply)
  BY DEF IInv, TypeOK
<1>2. /\ Range(jobs) \subseteq Sessions \X Characters
      /\ Range(toCenter) \subseteq [character : Characters, from : Nat]
      /\ Range(fromGame) \subseteq Reply /\ Range(toLogin) \subseteq Reply
  BY <1>1, RangeType
<1>3. Queued(c) \in Nat /\ (Queued(c) > 0 <=> \E j \in Range(jobs) : j \in Sessions \X {c})
  BY <1>1, CountIsNat DEF Queued
<1>4. /\ AtCenter(c) \in Nat
      /\ AtCenter(c) > 0 <=> \E m \in Range(toCenter) : m \in [character : {c}, from : Nat]
  BY <1>1, CountIsNat DEF AtCenter
<1>5. AtGame(c) \in Nat /\ (AtGame(c) > 0 <=> \E m \in Range(toGame) : m \in {c})
  BY <1>1, CountIsNat DEF AtGame
<1>6. /\ Back(c) \in Nat
      /\ Back(c) > 0 <=> \E m \in Range(fromGame) : m \in [character : {c}, key : Keys \cup {NoKey}]
  BY <1>1, CountIsNat DEF Back
<1>7. /\ AtLogin(c) \in Nat
      /\ AtLogin(c) > 0 <=>
           \E m \in Range(toLogin) : m \in [character : {c}, key : Keys \cup {NoKey}]
  BY <1>1, CountIsNat DEF AtLogin
<1>8. Queued(c) > 0 <=> \E j \in Range(jobs) : j[2] = c
  BY <1>2, <1>3, KindsOf
<1>9. AtCenter(c) > 0 <=> \E m \in Range(toCenter) : m.character = c
  BY <1>2, <1>4, KindsOf
<1>10. Back(c) > 0 <=> \E m \in Range(fromGame) : m.character = c
  BY <1>2, <1>6, KindsOf
<1>11. AtLogin(c) > 0 <=> \E m \in Range(toLogin) : m.character = c
  BY <1>2, <1>7, KindsOf
<1> QED BY <1>3, <1>4, <1>5, <1>6, <1>7, <1>8, <1>9, <1>10, <1>11

\* The selection stays where it is, or moves on beyond the login server.
LEMMA AloneKept ==
  ASSUME IInv, IInv', NEW c \in Characters, Alone(c),
         \A s \in Sessions : state[s] = "in" /\ <<s, c>> \in Range(jobs') => state'[s] = "in",
         loginStorage'[c] = loginStorage[c],
         loginStorage[c] # None => state'[loginStorage[c]] = state[loginStorage[c]],
         \A s \in Sessions : <<s, c>> \in Range(jobs') => <<s, c>> \in Range(jobs),
         Queued(c)' <= Queued(c), Beyond(c)' = Beyond(c)
  PROVE  Alone(c)'
<1>1. /\ Queued(c) \in Nat /\ Beyond(c) \in Nat
  BY Numbers DEF Beyond
<1>2. Queued(c)' \in Nat
  <2>1. jobs' \in Seq(Sessions \X Characters)
    BY DEF IInv, TypeOK
  <2>2. CountIn(jobs', Sessions \X {c}) \in Nat
    BY <2>1, CountIsNat
  <2> QED BY <2>2 DEF Queued
<1>3. Queued(c)' + Beyond(c)' <= 1
  BY <1>1, <1>2 DEF Alone
<1> QED BY <1>3 DEF Alone

\* After a failure there is not much to show.
LEMMA AfterFailure ==
  ASSUME failures' \in Nat \ {0}, Waits'
  PROVE  JInv'
BY DEF JInv, Calm, OnesAlone, NoLockout

\* At the start nothing is underway.
LEMMA InitJInv == Init => JInv
<1> SUFFICES ASSUME Init PROVE JInv
  OBVIOUS
<1>1. /\ jobs = <<>> /\ toCenter = <<>> /\ toGame = <<>> /\ fromGame = <<>> /\ toLogin = <<>>
      /\ \A c \in Characters : loginStorage[c] = None /\ auth[c] = NoKey /\ centerStorage[c] = NoEntry
      /\ \A s \in Sessions : state[s] = "new"
      /\ running = Servers /\ linked = Servers /\ seen = Servers /\ session = [x \in Servers |-> 1]
  BY DEF Init
<1>2. Calm
  BY <1>1, RangeEmpty DEF Calm
<1>3. Waits
  BY <1>1 DEF Waits
<1>4. ASSUME NEW c \in Characters PROVE Alone(c)
  <2>1. /\ Queued(c) = 0 /\ AtCenter(c) = 0 /\ AtGame(c) = 0 /\ Back(c) = 0 /\ AtLogin(c) = 0
    BY <1>1, CountEmpty DEF Queued, AtCenter, AtGame, Back, AtLogin
  <2>2. Beyond(c) = 0
    BY <2>1 DEF Beyond
  <2> QED BY <1>1, <2>1, <2>2, RangeEmpty DEF Alone
<1>5. NoLockout
  BY <1>1 DEF NoLockout
<1> QED BY <1>2, <1>3, <1>4, <1>5 DEF JInv, OnesAlone

\* A client connects: it has not selected anything.
LEMMA ConnectJInv == ASSUME IInv, JInv, IInv', NEW s \in Sessions, Connect(s) PROVE JInv'
<1> USE DEF servers, login, center, game, leaving, history
<1>1. /\ state[s] = "new" /\ state' = [state EXCEPT ![s] = "in"]
      /\ UNCHANGED <<servers, jobs, waiting, loginStorage, abandoned, late, asked, contested, selects,
                     center, toGame, game, fromGame, toLogin, told>>
  BY DEF Connect
<1>2. state \in [Sessions -> {"new", "in", "closing", "gone", "over"}]
      /\ loginStorage \in [Characters -> Sessions \cup {None}]
      /\ waiting \in [Sessions \X Characters -> Nat] /\ jobs \in Seq(Sessions \X Characters)
  BY DEF IInv, TypeOK
<1>3. state'[s] = "in" /\ \A t \in Sessions \ {s} : state'[t] = state[t]
  BY <1>1, <1>2
<1>4. Calm' /\ NoLockout'
  BY <1>1 DEF JInv, Calm, NoLockout, Replies
<1>5. Waits'
  <2> SUFFICES ASSUME NEW t \in Sessions, NEW c \in Characters, state'[t] = "in"
               PROVE  waiting[<<t, c>>] >= CountIn(jobs, {<<t, c>>})
                                             + (IF loginStorage[c] = t THEN 1 ELSE 0)
    BY <1>1 DEF Waits
  <2>1. CASE t # s
    BY <2>1, <1>3 DEF JInv, Waits
  <2>2. CASE t = s
    <3>1. <<s, c>> \notin asked
      <4>1. \A w \in asked : state[w[1]] # "new"
        BY DEF IInv, EntryInv
      <4>2. <<s, c>>[1] = s
        OBVIOUS
      <4> QED BY <1>1, <4>1, <4>2
    <3>2. <<s, c>> \notin Range(jobs) /\ loginStorage[c] # s
      BY <3>1, MigrationAssumption DEF IInv, EntryInv
    <3>3. CountIn(jobs, {<<s, c>>}) = 0
      <4>1. jobs \in Seq(Sessions \X Characters)
        BY <1>2
      <4>2. /\ CountIn(jobs, {<<s, c>>}) \in Nat
            /\ CountIn(jobs, {<<s, c>>}) > 0 <=> \E x \in Range(jobs) : x \in {<<s, c>>}
        BY <4>1, CountIsNat
      <4> QED BY <3>2, <4>2
    <3>4. waiting[<<s, c>>] \in Nat
      BY <1>2
    <3> QED BY <2>2, <3>2, <3>3, <3>4
  <2> QED BY <2>1, <2>2
<1>6. OnesAlone'
  <2> SUFFICES ASSUME failures' = 0, NEW c \in Characters \ (abandoned' \cup contested')
               PROVE  Alone(c)'
    BY DEF OnesAlone
  <2>1. Alone(c)
    BY <1>1 DEF JInv, OnesAlone
  <2>2. Queued(c)' = Queued(c) /\ Beyond(c)' = Beyond(c)
    BY <1>1 DEF Queued, Beyond, AtCenter, AtGame, Back, AtLogin
  <2>3. loginStorage[c] # None => state'[loginStorage[c]] = state[loginStorage[c]]
    <3>1. loginStorage[c] # None => state[loginStorage[c]] = "in" /\ loginStorage[c] \in Sessions
      BY <2>1, <1>2 DEF Alone
    <3> QED BY <3>1, <1>1, <1>3
  <2>4. Queued(c) \in Nat
    BY Numbers
  <2>5. \A t \in Sessions : state[t] = "in" => state'[t] = "in"
    BY <1>3
  <2> QED BY <1>1, <2>1, <2>2, <2>3, <2>4, <2>5, AloneKept
<1> QED BY <1>4, <1>5, <1>6 DEF JInv

\* A client selects a character: if nothing about it is underway, the selection is alone.
LEMMA SelectJInv ==
  ASSUME IInv, JInv, IInv', NEW s \in Sessions, NEW c \in Characters, SelectCharacter(s, c)
  PROVE  JInv'
<1> USE DEF servers, login, center, game, leaving, history
<1>1. /\ jobs' = Append(jobs, <<s, c>>)
      /\ IF state[s] = "in"
         THEN waiting' = [waiting EXCEPT ![<<s, c>>] = @ + 1] /\ UNCHANGED abandoned
         ELSE abandoned' = abandoned \cup {c} /\ UNCHANGED waiting
      /\ contested' = IF Underway(c) THEN contested \cup {c} ELSE contested
      /\ UNCHANGED <<servers, state, loginStorage, center, toGame, game, fromGame, toLogin, told>>
  BY DEF SelectCharacter
<1>2. /\ waiting \in [Sessions \X Characters -> Nat] /\ jobs \in Seq(Sessions \X Characters)
      /\ <<s, c>> \in Sessions \X Characters
  BY DEF IInv, TypeOK
<1>3. ASSUME NEW M
      PROVE  /\ CountIn(jobs, M) \in Nat
             /\ CountIn(jobs', M) = CountIn(jobs, M) + (IF <<s, c>> \in M THEN 1 ELSE 0)
  <2>1. jobs \in Seq(Sessions \X Characters) /\ <<s, c>> \in Sessions \X Characters
    BY <1>2
  <2>2. ASSUME NEW w \in Sessions \X Characters
        PROVE  /\ CountIn(jobs, M) \in Nat
               /\ CountIn(Append(jobs, w), M) = CountIn(jobs, M) + (IF w \in M THEN 1 ELSE 0)
    BY <2>1, CountAppend
  <2> QED BY <2>1, <2>2, <1>1
<1>4. Range(jobs') = Range(jobs) \cup {<<s, c>>}
  <2>1. jobs \in Seq(Sessions \X Characters) /\ <<s, c>> \in Sessions \X Characters
    BY <1>2
  <2>2. Range(Append(jobs, <<s, c>>)) = Range(jobs) \cup {<<s, c>>}
    BY <2>1, RangeAppend
  <2> QED BY <2>2, <1>1
<1>5. abandoned \cup contested \subseteq abandoned' \cup contested'
  BY <1>1
<1>6. Calm' /\ NoLockout'
  BY <1>1, <1>5 DEF JInv, Calm, NoLockout, Replies
<1>7. Waits'
  <2> SUFFICES ASSUME NEW t \in Sessions, NEW d \in Characters, state[t] = "in"
               PROVE  waiting'[<<t, d>>] >= CountIn(jobs', {<<t, d>>})
                                              + (IF loginStorage[d] = t THEN 1 ELSE 0)
    BY <1>1 DEF Waits
  <2>1. waiting[<<t, d>>] >= CountIn(jobs, {<<t, d>>}) + (IF loginStorage[d] = t THEN 1 ELSE 0)
    BY DEF JInv, Waits
  <2>2. waiting'[<<t, d>>] = waiting[<<t, d>>] + (IF <<s, c>> = <<t, d>> THEN 1 ELSE 0)
        /\ waiting[<<t, d>>] \in Nat
    <3>1. /\ waiting \in [Sessions \X Characters -> Nat] /\ <<t, d>> \in Sessions \X Characters
          /\ <<s, c>> \in Sessions \X Characters /\ waiting[<<t, d>>] \in Nat
      BY <1>2
    <3>2. CASE state[s] = "in"
      <4>1. waiting' = [waiting EXCEPT ![<<s, c>>] = waiting[<<s, c>>] + 1]
        BY <1>1, <3>2
      <4>2. waiting'[<<t, d>>] = IF <<t, d>> = <<s, c>> THEN waiting[<<s, c>>] + 1
                                 ELSE waiting[<<t, d>>]
        BY <3>1, <4>1
      <4> QED BY <3>1, <4>2
    <3>3. CASE state[s] # "in"
      <4>1. waiting' = waiting /\ t # s
        BY <1>1, <3>3
      <4> QED BY <3>1, <4>1
    <3> QED BY <3>2, <3>3
  <2>3. /\ CountIn(jobs, {<<t, d>>}) \in Nat
        /\ CountIn(jobs', {<<t, d>>}) = CountIn(jobs, {<<t, d>>})
                                          + (IF <<s, c>> = <<t, d>> THEN 1 ELSE 0)
    BY <1>3
  <2> QED BY <2>1, <2>2, <2>3
<1>8. OnesAlone'
  <2> SUFFICES ASSUME failures' = 0, NEW d \in Characters \ (abandoned' \cup contested')
               PROVE  Alone(d)'
    BY DEF OnesAlone
  <2>1. Alone(d)
    BY <1>1, <1>5 DEF JInv, OnesAlone
  <2>2. Beyond(d)' = Beyond(d)
    BY <1>1 DEF Beyond, AtCenter, AtGame, Back, AtLogin
  <2>3. Queued(d)' = Queued(d) + (IF d = c THEN 1 ELSE 0) /\ Queued(d) \in Nat
    BY <1>3 DEF Queued
  <2>4. CASE d # c
    <3>1. \A t \in Sessions : <<t, d>> \in Range(jobs') => <<t, d>> \in Range(jobs)
      BY <1>4, <2>4
    <3> QED BY <1>1, <2>1, <2>2, <2>3, <2>4, <3>1, AloneKept
  <2>5. CASE d = c
    <3>1. ~ Underway(c) /\ state[s] = "in"
      BY <1>1, <2>5
    <3>2. Queued(c) = 0 /\ Beyond(c) = 0
      <4>1. ~ Queued(c) > 0 /\ ~ AtCenter(c) > 0 /\ ~ AtGame(c) > 0 /\ ~ Back(c) > 0
            /\ ~ AtLogin(c) > 0
        BY <3>1, Numbers DEF Underway
      <4> QED BY <4>1, Numbers DEF Beyond
    <3>3. Queued(c)' = 1 /\ Beyond(c)' = 0 /\ loginStorage'[c] = None
      BY <1>1, <2>1, <2>2, <2>3, <2>5, <3>2 DEF Alone
    <3>4. \A t \in Sessions : <<t, c>> \in Range(jobs') => state'[t] = "in"
      BY <1>1, <1>4, <2>1, <2>5, <3>1 DEF Alone
    <3> QED BY <2>5, <3>3, <3>4 DEF Alone
  <2> QED BY <2>4, <2>5
<1> QED BY <1>6, <1>7, <1>8 DEF JInv

\* A selection leaves, or reaches, the center.
LEMMA CenterTail ==
  ASSUME toCenter \in Seq([character : Characters, from : Nat]), toCenter # <<>>, toCenter' = Tail(toCenter), NEW c \in Characters
  PROVE  /\ AtCenter(c) \in Nat /\ AtCenter(c)' \in Nat
         /\ AtCenter(c) = AtCenter(c)' + (IF Head(toCenter).character = c THEN 1 ELSE 0)
<1>1. /\ CountIn(toCenter, [character : {c}, from : Nat]) \in Nat
      /\ CountIn(Tail(toCenter), [character : {c}, from : Nat]) \in Nat
      /\ CountIn(toCenter, [character : {c}, from : Nat])
           = CountIn(Tail(toCenter), [character : {c}, from : Nat])
               + (IF Head(toCenter) \in [character : {c}, from : Nat] THEN 1 ELSE 0)
  BY CountTail
<1>2. Head(toCenter) \in [character : Characters, from : Nat]
  BY HeadTailProperties
<1>3. ASSUME NEW e \in [character : Characters, from : Nat] PROVE e \in [character : {c}, from : Nat] <=> e.character = c
  BY KindsOf
<1> QED BY <1>1, <1>2, <1>3 DEF AtCenter

\* The same at the other end of the queue.
LEMMA CenterAppend ==
  ASSUME toCenter \in Seq([character : Characters, from : Nat]), NEW e \in [character : Characters, from : Nat], toCenter' = Append(toCenter, e),
         NEW c \in Characters
  PROVE  /\ AtCenter(c) \in Nat
         /\ AtCenter(c)' = AtCenter(c) + (IF e.character = c THEN 1 ELSE 0)
<1> DEFINE M == [character : {c}, from : Nat]
           S == [character : Characters, from : Nat]
<1>1. e \in M <=> e.character = c
  BY KindsOf
<1>2. AtCenter(c) = CountIn(toCenter, M) /\ AtCenter(c)' = CountIn(toCenter', M)
  BY DEF AtCenter
<1>3. toCenter \in Seq(S) /\ e \in S
  OBVIOUS
<1> HIDE DEF M, S
<1>4. /\ CountIn(toCenter, M) \in Nat
      /\ CountIn(Append(toCenter, e), M) = CountIn(toCenter, M) + (IF e \in M THEN 1 ELSE 0)
  BY <1>3, CountAppend
<1> QED BY <1>1, <1>2, <1>4

\* A selection leaves, or reaches, the game server.
LEMMA GameTail ==
  ASSUME toGame \in Seq(Characters), toGame # <<>>, toGame' = Tail(toGame), NEW c \in Characters
  PROVE  /\ AtGame(c) \in Nat /\ AtGame(c)' \in Nat
         /\ AtGame(c) = AtGame(c)' + (IF Head(toGame) = c THEN 1 ELSE 0)
<1>1. /\ CountIn(toGame, {c}) \in Nat
      /\ CountIn(Tail(toGame), {c}) \in Nat
      /\ CountIn(toGame, {c})
           = CountIn(Tail(toGame), {c})
               + (IF Head(toGame) \in {c} THEN 1 ELSE 0)
  BY CountTail
<1>2. Head(toGame) \in Characters
  BY HeadTailProperties
<1>3. ASSUME NEW e \in Characters PROVE e \in {c} <=> e = c
  BY KindsOf
<1> QED BY <1>1, <1>2, <1>3 DEF AtGame

\* The same at the other end of the queue.
LEMMA GameAppend ==
  ASSUME toGame \in Seq(Characters), NEW e \in Characters, toGame' = Append(toGame, e),
         NEW c \in Characters
  PROVE  /\ AtGame(c) \in Nat
         /\ AtGame(c)' = AtGame(c) + (IF e = c THEN 1 ELSE 0)
<1> DEFINE M == {c}
<1>1. e \in M <=> e = c
  BY KindsOf
<1>2. AtGame(c) = CountIn(toGame, M) /\ AtGame(c)' = CountIn(toGame', M)
  BY DEF AtGame
<1> HIDE DEF M
<1>3. /\ CountIn(toGame, M) \in Nat
      /\ CountIn(Append(toGame, e), M) = CountIn(toGame, M) + (IF e \in M THEN 1 ELSE 0)
  BY CountAppend
<1> QED BY <1>1, <1>2, <1>3

\* A selection leaves, or reaches, the way back.
LEMMA BackTail ==
  ASSUME fromGame \in Seq(Reply), fromGame # <<>>, fromGame' = Tail(fromGame), NEW c \in Characters
  PROVE  /\ Back(c) \in Nat /\ Back(c)' \in Nat
         /\ Back(c) = Back(c)' + (IF Head(fromGame).character = c THEN 1 ELSE 0)
<1>1. /\ CountIn(fromGame, [character : {c}, key : Keys \cup {NoKey}]) \in Nat
      /\ CountIn(Tail(fromGame), [character : {c}, key : Keys \cup {NoKey}]) \in Nat
      /\ CountIn(fromGame, [character : {c}, key : Keys \cup {NoKey}])
           = CountIn(Tail(fromGame), [character : {c}, key : Keys \cup {NoKey}])
               + (IF Head(fromGame) \in [character : {c}, key : Keys \cup {NoKey}] THEN 1 ELSE 0)
  BY CountTail
<1>2. Head(fromGame) \in Reply
  BY HeadTailProperties
<1>3. ASSUME NEW e \in Reply PROVE e \in [character : {c}, key : Keys \cup {NoKey}] <=> e.character = c
  BY KindsOf
<1> QED BY <1>1, <1>2, <1>3 DEF Back

\* The same at the other end of the queue.
LEMMA BackAppend ==
  ASSUME fromGame \in Seq(Reply), NEW e \in Reply, fromGame' = Append(fromGame, e),
         NEW c \in Characters
  PROVE  /\ Back(c) \in Nat
         /\ Back(c)' = Back(c) + (IF e.character = c THEN 1 ELSE 0)
<1> DEFINE M == [character : {c}, key : Keys \cup {NoKey}]
<1>1. e \in M <=> e.character = c
  BY KindsOf
<1>2. Back(c) = CountIn(fromGame, M) /\ Back(c)' = CountIn(fromGame', M)
  BY DEF Back
<1> HIDE DEF M
<1>3. /\ CountIn(fromGame, M) \in Nat
      /\ CountIn(Append(fromGame, e), M) = CountIn(fromGame, M) + (IF e \in M THEN 1 ELSE 0)
  BY CountAppend
<1> QED BY <1>1, <1>2, <1>3

\* A selection leaves, or reaches, the login server again.
LEMMA LoginTail ==
  ASSUME toLogin \in Seq(Reply), toLogin # <<>>, toLogin' = Tail(toLogin), NEW c \in Characters
  PROVE  /\ AtLogin(c) \in Nat /\ AtLogin(c)' \in Nat
         /\ AtLogin(c) = AtLogin(c)' + (IF Head(toLogin).character = c THEN 1 ELSE 0)
<1>1. /\ CountIn(toLogin, [character : {c}, key : Keys \cup {NoKey}]) \in Nat
      /\ CountIn(Tail(toLogin), [character : {c}, key : Keys \cup {NoKey}]) \in Nat
      /\ CountIn(toLogin, [character : {c}, key : Keys \cup {NoKey}])
           = CountIn(Tail(toLogin), [character : {c}, key : Keys \cup {NoKey}])
               + (IF Head(toLogin) \in [character : {c}, key : Keys \cup {NoKey}] THEN 1 ELSE 0)
  BY CountTail
<1>2. Head(toLogin) \in Reply
  BY HeadTailProperties
<1>3. ASSUME NEW e \in Reply PROVE e \in [character : {c}, key : Keys \cup {NoKey}] <=> e.character = c
  BY KindsOf
<1> QED BY <1>1, <1>2, <1>3 DEF AtLogin

\* The same at the other end of the queue.
LEMMA LoginAppend ==
  ASSUME toLogin \in Seq(Reply), NEW e \in Reply, toLogin' = Append(toLogin, e),
         NEW c \in Characters
  PROVE  /\ AtLogin(c) \in Nat
         /\ AtLogin(c)' = AtLogin(c) + (IF e.character = c THEN 1 ELSE 0)
<1> DEFINE M == [character : {c}, key : Keys \cup {NoKey}]
<1>1. e \in M <=> e.character = c
  BY KindsOf
<1>2. AtLogin(c) = CountIn(toLogin, M) /\ AtLogin(c)' = CountIn(toLogin', M)
  BY DEF AtLogin
<1> HIDE DEF M
<1>3. /\ CountIn(toLogin, M) \in Nat
      /\ CountIn(Append(toLogin, e), M) = CountIn(toLogin, M) + (IF e \in M THEN 1 ELSE 0)
  BY CountAppend
<1> QED BY <1>1, <1>2, <1>3

\* A selection leaves the login server's queue.
LEMMA JobsTail ==
  ASSUME TypeOK, jobs # <<>>, jobs' = Tail(jobs)
  PROVE  /\ Head(jobs) \in Sessions \X Characters /\ Head(jobs) \in Range(jobs)
         /\ Range(jobs') \subseteq Range(jobs)
         /\ \A s \in Sessions, c \in Characters :
              /\ CountIn(jobs, {<<s, c>>}) \in Nat /\ CountIn(jobs', {<<s, c>>}) \in Nat
              /\ CountIn(jobs, {<<s, c>>}) = CountIn(jobs', {<<s, c>>})
                                               + (IF Head(jobs) = <<s, c>> THEN 1 ELSE 0)
         /\ \A c \in Characters :
              /\ Queued(c) \in Nat /\ Queued(c)' \in Nat
              /\ Queued(c) = Queued(c)' + (IF Head(jobs)[2] = c THEN 1 ELSE 0)
<1>1. jobs \in Seq(Sessions \X Characters)
  BY DEF TypeOK
<1>2. /\ Head(jobs) \in Sessions \X Characters /\ Head(jobs) \in Range(jobs)
      /\ Range(Tail(jobs)) \subseteq Range(jobs)
  BY <1>1, RangeTail
<1>3. ASSUME NEW M
      PROVE  /\ CountIn(jobs, M) \in Nat /\ CountIn(jobs', M) \in Nat
             /\ CountIn(jobs, M) = CountIn(jobs', M) + (IF Head(jobs) \in M THEN 1 ELSE 0)
  <2>1. /\ CountIn(jobs, M) \in Nat /\ CountIn(Tail(jobs), M) \in Nat
        /\ CountIn(jobs, M) = CountIn(Tail(jobs), M) + (IF Head(jobs) \in M THEN 1 ELSE 0)
    BY <1>1, CountTail
  <2> QED BY <2>1
<1>4. ASSUME NEW s \in Sessions, NEW c \in Characters
      PROVE  /\ CountIn(jobs, {<<s, c>>}) \in Nat /\ CountIn(jobs', {<<s, c>>}) \in Nat
             /\ CountIn(jobs, {<<s, c>>}) = CountIn(jobs', {<<s, c>>})
                                              + (IF Head(jobs) = <<s, c>> THEN 1 ELSE 0)
  BY <1>3
<1>5. ASSUME NEW c \in Characters
      PROVE  /\ Queued(c) \in Nat /\ Queued(c)' \in Nat
             /\ Queued(c) = Queued(c)' + (IF Head(jobs)[2] = c THEN 1 ELSE 0)
  BY <1>2, <1>3, KindsOf DEF Queued
<1> QED BY <1>2, <1>4, <1>5

\* One selection that waits in the login server's queue is not beyond it.
LEMMA AloneQueued ==
  ASSUME IInv, NEW c \in Characters, Alone(c), Head(jobs)[2] = c,
         jobs # <<>>, jobs' = Tail(jobs)
  PROVE  /\ Queued(c)' = 0 /\ Beyond(c) = 0 /\ loginStorage[c] = None
         /\ state[Head(jobs)[1]] = "in"
         /\ \A s \in Sessions : <<s, c>> \notin Range(jobs')
<1>1. TypeOK
  BY DEF IInv
<1>2. /\ Queued(c) \in Nat /\ Queued(c)' \in Nat /\ Queued(c) = Queued(c)' + 1
  BY <1>1, JobsTail
<1>3. Beyond(c) \in Nat
  BY Numbers DEF Beyond
<1>4. Queued(c)' = 0 /\ Beyond(c) = 0
  BY <1>2, <1>3 DEF Alone
<1>5. loginStorage[c] = None
  BY <1>4 DEF Alone
<1>6. Head(jobs) \in Sessions \X Characters /\ Head(jobs) \in Range(jobs)
  BY <1>1, JobsTail
<1>7. Head(jobs) = <<Head(jobs)[1], c>> /\ Head(jobs)[1] \in Sessions
  BY <1>6
<1>8. state[Head(jobs)[1]] = "in"
  <2>1. \A s \in Sessions : <<s, c>> \in Range(jobs) => state[s] = "in"
    BY DEF Alone
  <2> QED BY <2>1, <1>6, <1>7
<1>9. ASSUME NEW s \in Sessions PROVE <<s, c>> \notin Range(jobs')
  <2>1. Tail(jobs) \in Seq(Sessions \X Characters)
    BY <1>1, HeadTailProperties DEF TypeOK
  <2>2. CountIn(Tail(jobs), Sessions \X {c}) > 0
          <=> \E x \in Range(Tail(jobs)) : x \in Sessions \X {c}
    BY <2>1, CountIsNat
  <2>3. Queued(c)' = CountIn(Tail(jobs), Sessions \X {c})
    BY DEF Queued
  <2>4. <<s, c>> \in Sessions \X {c}
    OBVIOUS
  <2> QED BY <2>2, <2>3, <2>4, <1>4
<1> QED BY <1>4, <1>5, <1>8, <1>9

\* The login server handles a selection: it refuses it, or remembers it and asks the center.
LEMMA HandleSelectJInv == ASSUME IInv, JInv, IInv', HandleSelectCharacter PROVE JInv'
<1> USE DEF servers, login, center, game, leaving, history
<1> DEFINE s == Head(jobs)[1]
           c == Head(jobs)[2]
           m == [character |-> c, from |-> session["login"]]
<1>1. /\ jobs # <<>> /\ jobs' = Tail(jobs)
      /\ \/ Answered(s, c) /\ UNCHANGED <<loginStorage, toCenter>>
         \/ /\ loginStorage' = [loginStorage EXCEPT ![c] = IF @ = None THEN s ELSE @]
            /\ toCenter' = IF "login" \in linked THEN Append(toCenter, m) ELSE toCenter
            /\ UNCHANGED waiting
      /\ UNCHANGED <<servers, state, abandoned, late, asked, contested, selects, centerStorage, toGame,
                     auth, issued, voided, entries, fromGame, toLogin, told>>
  BY DEF HandleSelectCharacter
<1>2. /\ TypeOK /\ waiting \in [Sessions \X Characters -> Nat]
      /\ loginStorage \in [Characters -> Sessions \cup {None}]
      /\ toCenter \in Seq([character : Characters, from : Nat]) /\ session["login"] \in Nat
  BY DEF IInv, TypeOK, Servers
<1>3. Head(jobs) \in Sessions \X Characters /\ Head(jobs) = <<s, c>>
      /\ s \in Sessions /\ c \in Characters
  BY <1>1, <1>2, JobsTail
<1>4. m \in [character : Characters, from : Nat] /\ m.character = c
  BY <1>2, <1>3
<1> HIDE DEF s, c
<1>5. Calm'
  <2>1. ASSUME failures' = 0 PROVE \A r \in Range(toCenter') : r.from = 1
    <3>1. session["login"] = 1 /\ \A r \in Range(toCenter) : r.from = 1
      BY <2>1, <1>1 DEF JInv, Calm, Servers
    <3>2. Range(Append(toCenter, m)) = Range(toCenter) \cup {m}
      <4> DEFINE S == [character : Characters, from : Nat]
      <4>1. toCenter \in Seq(S) /\ m \in S
        BY <1>2, <1>4
      <4> HIDE DEF S, m
      <4> QED BY <4>1, RangeAppend
    <3>3. m.from = 1
      BY <3>1
    <3>4. toCenter' = toCenter \/ toCenter' = Append(toCenter, m)
      BY <1>1
    <3> HIDE DEF m
    <3> QED BY <3>1, <3>2, <3>3, <3>4
  <2> QED BY <2>1, <1>1 DEF JInv, Calm
<1>6. Waits'
  <2> SUFFICES ASSUME NEW t \in Sessions, NEW d \in Characters, state[t] = "in"
               PROVE  waiting'[<<t, d>>] >= CountIn(jobs', {<<t, d>>})
                                              + (IF loginStorage'[d] = t THEN 1 ELSE 0)
    BY <1>1 DEF Waits
  <2>1. /\ waiting[<<t, d>>] >= CountIn(jobs, {<<t, d>>}) + (IF loginStorage[d] = t THEN 1 ELSE 0)
        /\ waiting[<<t, d>>] \in Nat
    BY <1>2 DEF JInv, Waits
  <2>2. /\ CountIn(jobs, {<<t, d>>}) \in Nat /\ CountIn(jobs', {<<t, d>>}) \in Nat
        /\ CountIn(jobs, {<<t, d>>}) = CountIn(jobs', {<<t, d>>})
                                         + (IF Head(jobs) = <<t, d>> THEN 1 ELSE 0)
    BY <1>1, <1>2, JobsTail
  <2>3. CASE Answered(s, c) /\ loginStorage' = loginStorage
    <3>1. waiting'[<<t, d>>] = IF <<s, c>> = <<t, d>>
                               THEN IF waiting[<<t, d>>] > 0 THEN waiting[<<t, d>>] - 1 ELSE 0
                               ELSE waiting[<<t, d>>]
      <4>1. \A w \in Sessions \X Characters :
              waiting'[w] = IF w = <<s, c>> THEN IF waiting[w] > 0 THEN waiting[w] - 1 ELSE 0
                            ELSE waiting[w]
        BY <2>3, <1>2, <1>3 DEF Answered
      <4>2. <<t, d>> \in Sessions \X Characters
        OBVIOUS
      <4> QED BY <4>1, <4>2
    <3> QED BY <3>1, <2>1, <2>2, <2>3, <1>3
  <2>4. CASE /\ loginStorage' = [loginStorage EXCEPT ![c] = IF @ = None THEN s ELSE @]
             /\ waiting' = waiting
    <3>1. loginStorage'[d] = t => loginStorage[d] = t \/ <<s, c>> = <<t, d>>
      BY <2>4, <1>2, <1>3
    <3> QED BY <3>1, <2>1, <2>2, <2>4, <1>3
  <2> QED BY <1>1, <2>3, <2>4
<1>7. OnesAlone'
  <2> SUFFICES ASSUME failures' = 0, NEW d \in Characters \ (abandoned' \cup contested')
               PROVE  Alone(d)'
    BY DEF OnesAlone
  <2>1. Alone(d)
    BY <1>1 DEF JInv, OnesAlone
  <2>2. "login" \in linked
    BY <1>1 DEF JInv, Calm, Servers
  <2>3. /\ Queued(d) \in Nat /\ Queued(d)' \in Nat
        /\ Queued(d) = Queued(d)' + (IF c = d THEN 1 ELSE 0)
        /\ Range(jobs') \subseteq Range(jobs)
    <3>1. /\ Queued(d) \in Nat /\ Queued(d)' \in Nat
          /\ Queued(d) = Queued(d)' + (IF Head(jobs)[2] = d THEN 1 ELSE 0)
          /\ Range(jobs') \subseteq Range(jobs)
      BY <1>1, <1>2, JobsTail
    <3> QED BY <3>1 DEF c
  <2>4. AtGame(d)' = AtGame(d) /\ Back(d)' = Back(d) /\ AtLogin(d)' = AtLogin(d)
    BY <1>1 DEF AtGame, Back, AtLogin
  <2>5. /\ AtCenter(d) \in Nat /\ AtGame(d) \in Nat /\ Back(d) \in Nat /\ AtLogin(d) \in Nat
    BY Numbers
  <2>6. CASE loginStorage' = loginStorage /\ toCenter' = toCenter
    <3>1. Beyond(d)' = Beyond(d)
      BY <2>4, <2>6 DEF Beyond, AtCenter
    <3>2. Queued(d)' <= Queued(d)
      BY <2>3
    <3>3. UNCHANGED state
      BY <1>1
    <3> QED BY <2>1, <2>3, <2>6, <3>1, <3>2, <3>3, AloneKept
  <2>7. CASE /\ loginStorage' = [loginStorage EXCEPT ![c] = IF @ = None THEN s ELSE @]
             /\ toCenter' = Append(toCenter, m)
    <3>1. AtCenter(d)' = AtCenter(d) + (IF c = d THEN 1 ELSE 0)
      <4> HIDE DEF m
      <4>1. AtCenter(d)' = AtCenter(d) + (IF m.character = d THEN 1 ELSE 0)
        BY <2>7, <1>2, <1>4, CenterAppend
      <4> QED BY <4>1, <1>4
    <3>2. Beyond(d) \in Nat /\ Beyond(d)' = Beyond(d) + (IF c = d THEN 1 ELSE 0)
      BY <2>4, <2>5, <3>1 DEF Beyond
    <3>3. CASE c # d
      <4>1. Beyond(d)' = Beyond(d) /\ Queued(d)' <= Queued(d)
        BY <2>3, <3>2, <3>3
      <4>2. loginStorage'[d] = loginStorage[d]
        BY <1>2, <2>7, <3>3
      <4>3. UNCHANGED state
        BY <1>1
      <4> QED BY <2>1, <2>3, <4>1, <4>2, <4>3, AloneKept
    <3>4. CASE c = d
      <4>1. /\ Queued(d)' = 0 /\ Beyond(d) = 0 /\ loginStorage[d] = None
            /\ state[s] = "in"
            /\ \A t \in Sessions : <<t, d>> \notin Range(jobs')
        <5>1. Head(jobs)[2] = d /\ Head(jobs)[1] = s
          BY <3>4 DEF c, s
        <5> QED BY <5>1, <1>1, <2>1, AloneQueued
      <4>2. Beyond(d)' = 1
        BY <3>2, <3>4, <4>1
      <4>3. loginStorage'[d] = s /\ s # None /\ state'[s] = "in"
        BY <1>1, <1>2, <1>3, <2>7, <3>4, <4>1, MigrationAssumption
      <4> QED BY <4>1, <4>2, <4>3 DEF Alone
    <3> QED BY <3>3, <3>4
  <2> QED BY <1>1, <2>2, <2>6, <2>7
<1>8. NoLockout'
  BY <1>1 DEF JInv, NoLockout, Replies
<1> QED BY <1>5, <1>6, <1>7, <1>8 DEF JInv

\* A message of a queue is its first one, or stays.
LEMMA RangeSplit ==
  ASSUME NEW S, NEW q \in Seq(S), q # <<>>
  PROVE  Range(q) \subseteq Range(Tail(q)) \cup {Head(q)}
<1>1. /\ Tail(q) \in Seq(S) /\ Len(Tail(q)) = Len(q) - 1
      /\ \A i \in 1 .. Len(Tail(q)) : Tail(q)[i] = q[i + 1]
  BY HeadTailProperties
<1>2. /\ Len(q) \in Nat \ {0} /\ DOMAIN q = 1 .. Len(q) /\ DOMAIN Tail(q) = 1 .. Len(q) - 1
      /\ Head(q) = q[1]
  BY <1>1, EmptySeq, LenProperties
<1>3. ASSUME NEW i \in DOMAIN q PROVE q[i] = Head(q) \/ \E j \in DOMAIN Tail(q) : q[i] = Tail(q)[j]
  <2>1. i # 1 => i - 1 \in DOMAIN Tail(q) /\ q[i] = Tail(q)[i - 1]
    BY <1>1, <1>2
  <2> QED BY <2>1, <1>2
<1> QED BY <1>3 DEF Range

\* The login server passes an answer on to the client that waits for it.
LEMMA HandleResponseJInv == ASSUME IInv, JInv, IInv', HandleMigrationResponse PROVE JInv'
<1> USE DEF servers, login, center, game, leaving, history
<1> DEFINE m == Head(toLogin)
           c == m.character
           s == loginStorage[c]
           k == m.key
<1>1. /\ toLogin # <<>> /\ toLogin' = Tail(toLogin)
      /\ loginStorage' = [loginStorage EXCEPT ![c] = None]
      /\ IF s # None /\ state[s] = "in"
         THEN Answered(s, c) /\ told' = IF k = NoKey THEN told ELSE told \cup {<<s, c, k>>}
         ELSE UNCHANGED <<waiting, told>>
      /\ UNCHANGED <<servers, state, jobs, abandoned, late, asked, contested, selects, toCenter,
                     centerStorage, toGame, auth, issued, voided, entries, fromGame>>
  BY DEF HandleMigrationResponse
<1>2. /\ toLogin \in Seq(Reply) /\ waiting \in [Sessions \X Characters -> Nat]
      /\ loginStorage \in [Characters -> Sessions \cup {None}]
      /\ jobs \in Seq(Sessions \X Characters)
      /\ auth \in [Characters -> Keys \cup {NoKey}] /\ failures \in Nat
  BY DEF IInv, TypeOK
<1>3. m \in Reply /\ m \in Range(toLogin) /\ Range(toLogin') \subseteq Range(toLogin)
  BY <1>1, <1>2, RangeTail
<1>4. c \in Characters /\ s \in Sessions \cup {None} /\ m = [character |-> c, key |-> k]
  BY <1>2, <1>3 DEF Reply
<1>5. ASSUME failures = 0, NEW d \in Characters \ (abandoned \cup contested)
      PROVE  /\ Alone(d)
             /\ AtLogin(d) \in Nat /\ AtLogin(d)' \in Nat
             /\ AtLogin(d) = AtLogin(d)' + (IF c = d THEN 1 ELSE 0)
             /\ Beyond(d) \in Nat /\ Beyond(d)' \in Nat
             /\ Beyond(d) = Beyond(d)' + (IF c = d THEN 1 ELSE 0)
  <2>1. Alone(d)
    BY <1>5 DEF JInv, OnesAlone
  <2>2. /\ AtLogin(d) \in Nat /\ AtLogin(d)' \in Nat
        /\ AtLogin(d) = AtLogin(d)' + (IF Head(toLogin).character = d THEN 1 ELSE 0)
    BY <1>1, <1>2, LoginTail
  <2>3. /\ AtCenter(d)' = AtCenter(d) /\ AtGame(d)' = AtGame(d) /\ Back(d)' = Back(d)
        /\ AtCenter(d) \in Nat /\ AtGame(d) \in Nat /\ Back(d) \in Nat
    BY <1>1, Numbers DEF AtCenter, AtGame, Back
  <2> QED BY <2>1, <2>2, <2>3 DEF Beyond
<1>6. ASSUME failures = 0, NEW d \in Characters \ (abandoned \cup contested), d = c
      PROVE  s \in Sessions /\ state[s] = "in" /\ Beyond(d)' = 0 /\ Queued(d)' = 0
  <2> HIDE DEF c
  <2>1. /\ Alone(d) /\ Beyond(d) \in Nat /\ Beyond(d)' \in Nat /\ Beyond(d) = Beyond(d)' + 1
    BY <1>5, <1>6
  <2>2. Queued(d) \in Nat
    BY Numbers
  <2>3. Queued(d) = 0 /\ Beyond(d)' = 0 /\ Beyond(d) > 0
    BY <2>1, <2>2 DEF Alone
  <2>4. s # None /\ state[s] = "in"
    BY <1>6, <2>1, <2>3 DEF Alone
  <2>5. Queued(d)' = Queued(d)
    BY <1>1 DEF Queued
  <2> QED BY <1>4, <2>3, <2>4, <2>5
<1> HIDE DEF m, c, s, k
<1>7. Calm'
  BY <1>1 DEF JInv, Calm
<1>8. Waits'
  <2> SUFFICES ASSUME NEW t \in Sessions, NEW d \in Characters, state[t] = "in"
               PROVE  waiting'[<<t, d>>] >= CountIn(jobs, {<<t, d>>})
                                              + (IF loginStorage'[d] = t THEN 1 ELSE 0)
    BY <1>1 DEF Waits
  <2>1. /\ waiting[<<t, d>>] >= CountIn(jobs, {<<t, d>>}) + (IF loginStorage[d] = t THEN 1 ELSE 0)
        /\ waiting[<<t, d>>] \in Nat
    BY <1>2 DEF JInv, Waits
  <2>2. CountIn(jobs, {<<t, d>>}) \in Nat
    BY <1>2, CountIsNat
  <2>3. loginStorage'[d] = IF d = c THEN None ELSE loginStorage[d]
    BY <1>1, <1>2, <1>4
  <2>4. t # None
    BY MigrationAssumption
  <2>5. CASE s # None /\ state[s] = "in"
    <3>1. waiting'[<<t, d>>] = IF <<s, c>> = <<t, d>>
                               THEN IF waiting[<<t, d>>] > 0 THEN waiting[<<t, d>>] - 1 ELSE 0
                               ELSE waiting[<<t, d>>]
      <4>1. \A w \in Sessions \X Characters :
              waiting'[w] = IF w = <<s, c>> THEN IF waiting[w] > 0 THEN waiting[w] - 1 ELSE 0
                            ELSE waiting[w]
        BY <2>5, <1>1, <1>2, <1>4 DEF Answered
      <4>2. <<t, d>> \in Sessions \X Characters
        OBVIOUS
      <4> QED BY <4>1, <4>2
    <3>2. CASE <<s, c>> = <<t, d>>
      <4>1. loginStorage[d] = t /\ loginStorage'[d] # t
        BY <3>2, <2>3, <2>4 DEF s
      <4> QED BY <4>1, <3>1, <3>2, <2>1, <2>2
    <3>3. CASE <<s, c>> # <<t, d>>
      <4>1. waiting'[<<t, d>>] = waiting[<<t, d>>]
        BY <3>1, <3>3
      <4>2. loginStorage'[d] = t => loginStorage[d] = t
        BY <2>3, <2>4
      <4> QED BY <4>1, <4>2, <2>1, <2>2
    <3> QED BY <3>2, <3>3
  <2>6. CASE ~ (s # None /\ state[s] = "in")
    <3>1. waiting'[<<t, d>>] = waiting[<<t, d>>]
      BY <1>1, <2>6
    <3>2. loginStorage'[d] = t => loginStorage[d] = t
      BY <2>3, <2>4
    <3> QED BY <3>1, <3>2, <2>1, <2>2
  <2> QED BY <2>5, <2>6
<1>9. OnesAlone'
  <2> SUFFICES ASSUME failures' = 0, NEW d \in Characters \ (abandoned' \cup contested')
               PROVE  Alone(d)'
    BY DEF OnesAlone
  <2>1. failures = 0 /\ d \in Characters \ (abandoned \cup contested)
    BY <1>1
  <2>2. /\ Alone(d) /\ Beyond(d) \in Nat /\ Beyond(d)' \in Nat
        /\ Beyond(d) = Beyond(d)' + (IF c = d THEN 1 ELSE 0)
    BY <1>5, <2>1
  <2>3. CASE c # d
    <3>1. Queued(d)' = Queued(d) /\ Queued(d) \in Nat
      BY <1>1, Numbers DEF Queued
    <3>2. Beyond(d)' = Beyond(d) /\ Queued(d)' <= Queued(d)
      BY <2>2, <2>3, <3>1
    <3>3. loginStorage'[d] = loginStorage[d]
      BY <1>1, <1>2, <2>3
    <3> QED BY <1>1, <2>2, <3>2, <3>3, AloneKept
  <2>4. CASE c = d
    <3>1. Beyond(d)' = 0 /\ Queued(d)' = 0
      BY <1>6, <2>1, <2>4
    <3>2. loginStorage'[d] = None
      BY <1>1, <1>2, <1>4, <2>4
    <3>3. UNCHANGED <<jobs, state>>
      BY <1>1
    <3> QED BY <2>2, <3>1, <3>2, <3>3 DEF Alone
  <2> QED BY <2>3, <2>4
<1>10. NoLockout'
  <2> SUFFICES ASSUME NEW d \in Characters, auth[d] # NoKey, failures = 0,
                      d \notin abandoned \cup contested
               PROVE  \/ [character |-> d, key |-> auth[d]] \in Replies'
                      \/ \E t \in Sessions : <<t, d, auth[d]>> \in told'
    BY <1>1, <1>2 DEF NoLockout
  <2>1. \/ [character |-> d, key |-> auth[d]] \in Range(fromGame)
        \/ [character |-> d, key |-> auth[d]] \in Range(toLogin)
        \/ \E t \in Sessions : <<t, d, auth[d]>> \in told
    BY DEF JInv, NoLockout, Replies
  <2>2. told \subseteq told'
    BY <1>1
  <2>3. Range(toLogin) \subseteq Range(toLogin') \cup {m}
    <3>1. toLogin \in Seq(Reply) /\ toLogin # <<>>
      BY <1>1, <1>2
    <3>2. Range(toLogin) \subseteq Range(Tail(toLogin)) \cup {Head(toLogin)}
      BY <3>1, RangeSplit
    <3> QED BY <3>2, <1>1 DEF m
  <2>4. CASE [character |-> d, key |-> auth[d]] = m
    <3>1. d = c /\ auth[d] = k
      BY <2>4, <1>4
    <3>2. s \in Sessions /\ state[s] = "in"
      BY <3>1, <1>6
    <3>3. s # None
      BY <3>2, MigrationAssumption
    <3>4. told' = told \cup {<<s, c, k>>}
      BY <1>1, <3>1, <3>2, <3>3
    <3> QED BY <3>1, <3>2, <3>4
  <2>5. CASE [character |-> d, key |-> auth[d]] # m
    BY <2>1, <2>2, <2>3, <2>5, <1>1 DEF Replies
  <2> QED BY <2>4, <2>5
<1> QED BY <1>7, <1>8, <1>9, <1>10 DEF JInv

\* A client leaves: the characters it waits for are abandoned, so what is said of the other
\* ones stays.
LEMMA DisconnectJInv == ASSUME IInv, JInv, IInv', NEW s \in Sessions, Disconnect(s) PROVE JInv'
<1> USE DEF servers, login, center, game, leaving, history
<1>1. /\ state' = [state EXCEPT ![s] = "closing"] /\ state[s] = "in"
      /\ waiting' = [w \in DOMAIN waiting |-> IF w[1] = s THEN 0 ELSE waiting[w]]
      /\ abandoned' = abandoned \cup WaitedFor(s)
      /\ UNCHANGED <<servers, jobs, loginStorage, asked, contested, selects, center, toGame, game,
                     fromGame, toLogin, told>>
  BY DEF Disconnect
<1>2. /\ state \in [Sessions -> {"new", "in", "closing", "gone", "over"}]
      /\ loginStorage \in [Characters -> Sessions \cup {None}]
      /\ waiting \in [Sessions \X Characters -> Nat]
      /\ jobs \in Seq(Sessions \X Characters)
  BY DEF IInv, TypeOK
<1>3. /\ state'[s] = "closing"
      /\ \A t \in Sessions : t # s => state'[t] = state[t]
      /\ \A t \in Sessions, d \in Characters : t # s => waiting'[<<t, d>>] = waiting[<<t, d>>]
  BY <1>1, <1>2
<1>4. Calm' /\ NoLockout'
  BY <1>1 DEF JInv, Calm, NoLockout, Replies
<1>5. Waits'
  <2> SUFFICES ASSUME NEW t \in Sessions, NEW d \in Characters, state'[t] = "in"
               PROVE  waiting'[<<t, d>>] >= CountIn(jobs, {<<t, d>>})
                                              + (IF loginStorage'[d] = t THEN 1 ELSE 0)
    BY <1>1 DEF Waits
  <2>1. t # s /\ state[t] = "in" /\ waiting'[<<t, d>>] = waiting[<<t, d>>]
    BY <1>3
  <2>2. loginStorage'[d] = t => loginStorage[d] = t
    BY <1>1
  <2>3. /\ waiting[<<t, d>>] >= CountIn(jobs, {<<t, d>>}) + (IF loginStorage[d] = t THEN 1 ELSE 0)
        /\ waiting[<<t, d>>] \in Nat /\ CountIn(jobs, {<<t, d>>}) \in Nat
    BY <1>2, <2>1, CountIsNat DEF JInv, Waits
  <2> QED BY <2>1, <2>2, <2>3
<1>6. OnesAlone'
  <2> SUFFICES ASSUME failures' = 0, NEW d \in Characters \ (abandoned' \cup contested')
               PROVE  Alone(d)'
    BY DEF OnesAlone
  <2>1. Alone(d)
    BY <1>1 DEF JInv, OnesAlone
  <2>2. /\ waiting[<<s, d>>] >= CountIn(jobs, {<<s, d>>}) + (IF loginStorage[d] = s THEN 1 ELSE 0)
        /\ waiting[<<s, d>>] \in Nat /\ CountIn(jobs, {<<s, d>>}) \in Nat
    BY <1>1, <1>2, CountIsNat DEF JInv, Waits
  <2>3. ~ (waiting[<<s, d>>] > 0)
    BY <1>1 DEF WaitedFor
  <2>4. loginStorage[d] # s /\ CountIn(jobs, {<<s, d>>}) = 0
    BY <2>2, <2>3
  <2>5. <<s, d>> \notin Range(jobs)
    <3>1. CountIn(jobs, {<<s, d>>}) > 0 <=> \E x \in Range(jobs) : x \in {<<s, d>>}
      BY <1>2, CountIsNat
    <3> QED BY <3>1, <2>4
  <2>6. Queued(d)' = Queued(d) /\ Beyond(d)' = Beyond(d) /\ Queued(d) \in Nat
    BY <1>1, Numbers DEF Queued, Beyond, AtCenter, AtGame, Back, AtLogin
  <2>7. loginStorage'[d] = loginStorage[d]
    BY <1>1
  <2>8. loginStorage[d] # None => state'[loginStorage[d]] = state[loginStorage[d]]
    BY <1>2, <1>3, <2>4
  <2>9. Queued(d)' <= Queued(d) /\ jobs' = jobs
    BY <1>1, <2>6
  <2>10. \A t \in Sessions : state[t] = "in" /\ <<t, d>> \in Range(jobs') => state'[t] = "in"
    BY <1>3, <2>5, <2>9
  <2> QED BY <2>1, <2>6, <2>7, <2>8, <2>9, <2>10, AloneKept
<1> QED BY <1>4, <1>5, <1>6 DEF JInv

\* A client that has left goes further: OnDisconnected may remove an entry of its session.
LEMMA GoneJInv ==
  ASSUME IInv, JInv, IInv', NEW s \in Sessions, state[s] # "in", NEW v, v # "in",
         state' = [state EXCEPT ![s] = v],
         UNCHANGED <<running, linked, seen, session, failures, jobs, waiting, abandoned, contested,
                     toCenter, centerStorage, toGame, auth, fromGame, toLogin, told>>,
         \/ \E c \in EntriesOf(s) : loginStorage' = [loginStorage EXCEPT ![c] = None]
         \/ UNCHANGED loginStorage
  PROVE  JInv'
<1>1. /\ state \in [Sessions -> {"new", "in", "closing", "gone", "over"}]
      /\ loginStorage \in [Characters -> Sessions \cup {None}]
      /\ jobs \in Seq(Sessions \X Characters)
  BY DEF IInv, TypeOK
<1>2. \A t \in Sessions : (state'[t] = "in" <=> state[t] = "in") /\ (t # s => state'[t] = state[t])
  BY <1>1
<1>3. ASSUME NEW d \in Characters
      PROVE  /\ loginStorage'[d] \in {loginStorage[d], None}
             /\ loginStorage[d] # s => loginStorage'[d] = loginStorage[d]
  BY <1>1 DEF EntriesOf
<1>4. Calm' /\ NoLockout'
  BY DEF JInv, Calm, NoLockout, Replies
<1>5. Waits'
  <2> SUFFICES ASSUME NEW t \in Sessions, NEW d \in Characters, state'[t] = "in"
               PROVE  waiting[<<t, d>>] >= CountIn(jobs, {<<t, d>>})
                                             + (IF loginStorage'[d] = t THEN 1 ELSE 0)
    BY DEF Waits
  <2>1. t # s /\ state[t] = "in"
    BY <1>2
  <2>2. loginStorage'[d] = t <=> loginStorage[d] = t
    BY <1>3, <2>1, MigrationAssumption
  <2>3. waiting[<<t, d>>] >= CountIn(jobs, {<<t, d>>}) + (IF loginStorage[d] = t THEN 1 ELSE 0)
    BY <2>1 DEF JInv, Waits
  <2> QED BY <2>2, <2>3
<1>6. OnesAlone'
  <2> SUFFICES ASSUME failures' = 0, NEW d \in Characters \ (abandoned' \cup contested')
               PROVE  Alone(d)'
    BY DEF OnesAlone
  <2>1. Alone(d)
    BY DEF JInv, OnesAlone
  <2>2. loginStorage[d] # s
    BY <2>1, MigrationAssumption DEF Alone
  <2>3. loginStorage'[d] = loginStorage[d]
    BY <1>3, <2>2
  <2>4. loginStorage[d] # None => state'[loginStorage[d]] = state[loginStorage[d]]
    BY <1>1, <1>2, <2>2
  <2>5. Queued(d)' = Queued(d) /\ Beyond(d)' = Beyond(d) /\ Queued(d) \in Nat
    BY Numbers DEF Queued, Beyond, AtCenter, AtGame, Back, AtLogin
  <2>6. Queued(d)' <= Queued(d)
    BY <2>5
  <2>7. \A t \in Sessions : state[t] = "in" /\ <<t, d>> \in Range(jobs') => state'[t] = "in"
    BY <1>2
  <2>8. \A t \in Sessions : <<t, d>> \in Range(jobs') => <<t, d>> \in Range(jobs)
    OBVIOUS
  <2> QED BY <2>1, <2>3, <2>4, <2>5, <2>6, <2>7, <2>8, AloneKept
<1> QED BY <1>4, <1>5, <1>6 DEF JInv

\* OnDisconnected, and the end of the receive.
LEMMA LeaveJInv ==
  ASSUME IInv, JInv, IInv', NEW s \in Sessions, OnDisconnected(s) \/ OnRecvEnds(s)
  PROVE  JInv'
<1> USE DEF servers, login, center, game, leaving, history
<1>1. CASE OnDisconnected(s)
  <2>1. /\ state[s] # "in" /\ state' = [state EXCEPT ![s] = "gone"]
        /\ UNCHANGED <<running, linked, seen, session, failures, jobs, waiting, abandoned, contested,
                       toCenter, centerStorage, toGame, auth, fromGame, toLogin, told>>
        /\ \/ \E c \in EntriesOf(s) : loginStorage' = [loginStorage EXCEPT ![c] = None]
           \/ UNCHANGED loginStorage
    BY <1>1 DEF OnDisconnected, Leave
  <2> QED BY <2>1, GoneJInv
<1>2. CASE OnRecvEnds(s)
  <2>1. /\ state[s] # "in" /\ state' = [state EXCEPT ![s] = "over"]
        /\ UNCHANGED <<running, linked, seen, session, failures, jobs, waiting, abandoned, contested,
                       toCenter, centerStorage, toGame, auth, fromGame, toLogin, told>>
        /\ UNCHANGED loginStorage
    BY <1>2 DEF OnRecvEnds
  <2> QED BY <2>1, GoneJInv
<1> QED BY <1>1, <1>2

\* When the login server ends nobody is there.
LEMMA LoginEndsJInv ==
  ASSUME IInv, LoginEnds, failures < MaxFailures, failures' = failures + 1
  PROVE  JInv'
<1>1. Waits'
  BY DEF LoginEnds, Waits
<1>2. failures' \in Nat \ {0}
  BY DEF IInv, TypeOK
<1> QED BY <1>1, <1>2, AfterFailure

\* Without a change at the login server the clients wait as before.
LEMMA WaitsKept ==
  ASSUME Waits, UNCHANGED <<state, jobs, waiting, loginStorage>>
  PROVE  Waits'
BY DEF Waits

\* The other failures.
LEMMA FailureJInv == ASSUME IInv, JInv, GameCrash \/ CenterCrash PROVE JInv'
<1>1. failures' \in Nat \ {0} /\ UNCHANGED <<state, jobs, waiting, loginStorage>>
  BY DEF IInv, TypeOK, GameCrash, CenterCrash, login
<1> QED BY <1>1, WaitsKept, AfterFailure DEF JInv

\* A connection ends, and is made again, only after a failure.
LEMMA RegistrationJInv ==
  ASSUME IInv, JInv, NEW x \in Servers, CenterNotices(x) \/ Start(x)
  PROVE  JInv'
<1>1. /\ x \in seen \ linked \/ x \notin running
      /\ UNCHANGED <<failures, state, jobs, waiting, loginStorage>>
  BY DEF CenterNotices, Start, login
<1>2. failures \in Nat
  BY DEF IInv, TypeOK
<1>3. failures # 0
  BY <1>1 DEF JInv, Calm
<1> QED BY <1>1, <1>2, <1>3, WaitsKept, AfterFailure DEF JInv

\* While no selection enters or leaves the login server's queue or its storage, and as many
\* are beyond it as before, each is alone as before.
LEMMA OnesAloneKept ==
  ASSUME IInv, IInv', OnesAlone, UNCHANGED <<failures, state, jobs, loginStorage, abandoned, contested>>,
         failures = 0 => \A c \in Characters : Beyond(c)' = Beyond(c)
  PROVE  OnesAlone'
<1> SUFFICES ASSUME failures' = 0, NEW d \in Characters \ (abandoned' \cup contested')
             PROVE  Alone(d)'
  BY DEF OnesAlone
<1>1. Alone(d)
  BY DEF OnesAlone
<1>2. Queued(d)' = Queued(d) /\ Queued(d) \in Nat /\ Beyond(d)' = Beyond(d)
  BY Numbers DEF Queued
<1>3. Queued(d)' <= Queued(d)
  BY <1>2
<1> QED BY <1>1, <1>2, <1>3, AloneKept

\* The center passes a request on to the game server and remembers its way.
LEMMA ServerRequestJInv == ASSUME IInv, JInv, IInv', HandleServerMigrationRequest PROVE JInv'
<1> USE DEF servers, login, game, leaving, history
<1> DEFINE m == Head(toCenter)
           c == m.character
           w == [from |-> 1, to |-> 1]
<1>1. /\ toCenter # <<>> /\ toCenter' = Tail(toCenter)
      /\ \/ "game" \notin seen
         \/ /\ centerStorage' = [centerStorage EXCEPT ![c] =
                                   IF @ = NoEntry THEN [from |-> m.from, to |-> session["game"]] ELSE @]
            /\ toGame' = IF "game" \in linked THEN Append(toGame, c) ELSE toGame
            /\ UNCHANGED toLogin
      /\ UNCHANGED <<running, linked, seen, session, failures, state, jobs, waiting, loginStorage,
                     abandoned, contested, auth, fromGame, told>>
  BY DEF HandleServerMigrationRequest
<1>2. /\ toCenter \in Seq([character : Characters, from : Nat]) /\ toGame \in Seq(Characters)
      /\ failures \in Nat /\ fromGame \in Seq(Reply)
      /\ centerStorage \in [Characters -> [from : Nat, to : Nat]]
  BY DEF IInv, TypeOK
<1>3. /\ m \in [character : Characters, from : Nat] /\ m \in Range(toCenter)
      /\ Range(toCenter') \subseteq Range(toCenter)
  BY <1>1, <1>2, RangeTail
<1>4. c \in Characters
  BY <1>3
<1>5. CASE failures # 0
  BY <1>1, <1>2, <1>5, WaitsKept, AfterFailure DEF JInv
<1>6. CASE failures = 0
  <2>1. /\ "game" \in seen /\ "game" \in linked /\ m.from = 1 /\ session["game"] = 1
        /\ centerStorage[c] \in {NoEntry, w}
    BY <1>1, <1>3, <1>4, <1>6 DEF JInv, Calm, Servers
  <2>2. toGame' = Append(toGame, c) /\ UNCHANGED toLogin
    BY <1>1, <2>1
  <2>3. /\ centerStorage'[c] = w
        /\ \A d \in Characters : d # c => centerStorage'[d] = centerStorage[d]
    BY <1>1, <1>2, <1>4, <2>1
  <2> HIDE DEF m, c, w
  <2>4. Range(toGame') = Range(toGame) \cup {c}
    BY <1>2, <1>4, <2>2, RangeAppend
  <2>5. Calm'
    <3>1. /\ \A d \in Range(toGame) : centerStorage[d] = w
          /\ \A r \in Range(fromGame) : centerStorage[r.character] = w
          /\ \A d \in Characters : centerStorage[d] \in {NoEntry, w}
      BY <1>6 DEF JInv, Calm, w
    <3>2. Range(toGame) \subseteq Characters /\ \A r \in Range(fromGame) : r.character \in Characters
      <4>1. Range(toGame) \subseteq Characters /\ Range(fromGame) \subseteq Reply
        BY <1>2, RangeType
      <4> QED BY <4>1 DEF Reply
    <3>3. \A d \in Range(toGame') : centerStorage'[d] = w
      BY <2>3, <2>4, <3>1, <3>2
    <3>4. \A r \in Range(fromGame) : centerStorage'[r.character] = w
      BY <2>3, <3>1, <3>2
    <3>5. \A d \in Characters : centerStorage'[d] \in {NoEntry, w}
      BY <2>3, <3>1
    <3>6. \A r \in Range(toCenter') : r.from = 1
      BY <1>3, <1>6 DEF JInv, Calm
    <3> QED BY <1>1, <1>6, <3>3, <3>4, <3>5, <3>6 DEF JInv, Calm, w
  <2>6. ASSUME NEW d \in Characters PROVE Beyond(d)' = Beyond(d)
    <3>1. /\ AtCenter(d) \in Nat /\ AtCenter(d)' \in Nat
          /\ AtCenter(d) = AtCenter(d)' + (IF c = d THEN 1 ELSE 0)
      BY <1>1, <1>2, CenterTail DEF c, m
    <3>2. /\ AtGame(d) \in Nat /\ AtGame(d)' = AtGame(d) + (IF c = d THEN 1 ELSE 0)
      BY <1>2, <1>4, <2>2, GameAppend
    <3>3. /\ Back(d)' = Back(d) /\ AtLogin(d)' = AtLogin(d) /\ Back(d) \in Nat /\ AtLogin(d) \in Nat
      BY <1>1, <2>2, Numbers DEF Back, AtLogin
    <3> QED BY <3>1, <3>2, <3>3 DEF Beyond
  <2>7. OnesAlone'
    BY <1>1, <2>6, OnesAloneKept DEF JInv
  <2>8. NoLockout'
    BY <1>1, <2>2 DEF JInv, NoLockout, Replies
  <2> QED BY <1>1, <2>5, <2>7, <2>8, WaitsKept DEF JInv
<1> QED BY <1>5, <1>6

\* The center passes an answer back to the login server, whose session it remembers.
LEMMA ServerResponseJInv == ASSUME IInv, JInv, IInv', HandleServerMigrationResponse PROVE JInv'
<1> USE DEF servers, login, game, leaving, history
<1> DEFINE m == Head(fromGame)
           c == m.character
           w == [from |-> 1, to |-> 1]
<1>1. /\ fromGame # <<>> /\ fromGame' = Tail(fromGame)
      /\ \/ SendToLogin(centerStorage[c].from, m) /\ UNCHANGED centerStorage
         \/ ~ (Alive("login", centerStorage[c].from) /\ Alive("game", centerStorage[c].to))
      /\ UNCHANGED <<running, linked, seen, session, failures, state, jobs, waiting, loginStorage,
                     abandoned, contested, auth, toCenter, toGame, told>>
  BY DEF HandleServerMigrationResponse
<1>2. /\ fromGame \in Seq(Reply) /\ toLogin \in Seq(Reply) /\ failures \in Nat
  BY DEF IInv, TypeOK
<1>3. m \in Reply /\ m \in Range(fromGame) /\ Range(fromGame') \subseteq Range(fromGame)
  BY <1>1, <1>2, RangeTail
<1>4. CASE failures # 0
  BY <1>1, <1>2, <1>4, WaitsKept, AfterFailure DEF JInv
<1>5. CASE failures = 0
  <2>1. centerStorage[c] = w
    BY <1>3, <1>5 DEF JInv, Calm
  <2>2. Alive("login", centerStorage[c].from) /\ Alive("game", centerStorage[c].to)
    BY <1>5, <2>1 DEF JInv, Calm, Alive, Servers
  <2>3. "login" \in linked /\ session["login"] = centerStorage[c].from
    BY <1>5, <2>1 DEF JInv, Calm, Servers
  <2>4. toLogin' = Append(toLogin, m) /\ UNCHANGED centerStorage
    BY <1>1, <2>2, <2>3 DEF SendToLogin
  <2>5. Calm'
    BY <1>1, <1>3, <2>4 DEF JInv, Calm
  <2>6. ASSUME NEW d \in Characters PROVE Beyond(d)' = Beyond(d)
    <3>1. /\ Back(d) \in Nat /\ Back(d)' \in Nat
          /\ Back(d) = Back(d)' + (IF c = d THEN 1 ELSE 0)
      BY <1>1, <1>2, BackTail
    <3>2. /\ AtLogin(d) \in Nat /\ AtLogin(d)' = AtLogin(d) + (IF c = d THEN 1 ELSE 0)
      <4> HIDE DEF m
      <4> QED BY <1>2, <1>3, <2>4, LoginAppend
    <3>3. /\ AtCenter(d)' = AtCenter(d) /\ AtGame(d)' = AtGame(d)
          /\ AtCenter(d) \in Nat /\ AtGame(d) \in Nat
      BY <1>1, Numbers DEF AtCenter, AtGame
    <3> QED BY <3>1, <3>2, <3>3 DEF Beyond
  <2>7. OnesAlone'
    BY <1>1, <2>6, OnesAloneKept DEF JInv
  <2>8. Replies \subseteq Replies'
    <3>1. Range(fromGame) \subseteq Range(fromGame') \cup {m}
      BY <1>1, <1>2, RangeSplit
    <3>2. Range(Append(toLogin, m)) = Range(toLogin) \cup {m}
      <4> HIDE DEF m
      <4> QED BY <1>2, <1>3, RangeAppend
    <3> HIDE DEF m
    <3> QED BY <2>4, <3>1, <3>2 DEF Replies
  <2>9. NoLockout'
    BY <1>1, <2>8 DEF JInv, NoLockout
  <2> QED BY <1>1, <2>5, <2>7, <2>9, WaitsKept DEF JInv
<1> QED BY <1>4, <1>5

\* The game server makes a key, if the character has none, and answers.
LEMMA HandleRequestJInv == ASSUME IInv, JInv, IInv', HandleMigrationRequest PROVE JInv'
<1> USE DEF servers, login, center, leaving, history
<1> DEFINE c == Head(toGame)
           m(k) == [character |-> c, key |-> k]
<1>1. /\ toGame # <<>> /\ toGame' = Tail(toGame)
      /\ \E k \in {NoKey, issued'} :
           /\ fromGame' = IF "game" \in linked THEN Append(fromGame, m(k)) ELSE fromGame
           /\ auth' = auth \/ auth' = [auth EXCEPT ![c] = k]
      /\ UNCHANGED <<running, linked, seen, session, failures, state, jobs, waiting, loginStorage,
                     abandoned, contested, toCenter, centerStorage, toLogin, told>>
  BY DEF HandleMigrationRequest
<1>2. /\ toGame \in Seq(Characters) /\ fromGame \in Seq(Reply) /\ failures \in Nat
      /\ auth \in [Characters -> Keys \cup {NoKey}] /\ fromGame' \in Seq(Reply)
      /\ issued' \in Nat /\ issued' \in 0 .. MaxSelects
  BY DEF IInv, TypeOK
<1>3. c \in Characters /\ c \in Range(toGame) /\ Range(toGame') \subseteq Range(toGame)
  BY <1>1, <1>2, RangeTail
<1>4. CASE failures # 0
  BY <1>1, <1>2, <1>4, WaitsKept, AfterFailure DEF JInv
<1>5. CASE failures = 0
  <2>1. "game" \in linked /\ centerStorage[c] = [from |-> 1, to |-> 1]
    BY <1>3, <1>5 DEF JInv, Calm, Servers
  <2>2. PICK k \in {NoKey, issued'} :
          /\ fromGame' = Append(fromGame, m(k))
          /\ auth' = auth \/ auth' = [auth EXCEPT ![c] = k]
    BY <1>1, <2>1
  <2>3. m(k) \in Reply /\ m(k).character = c
    BY <1>2, <1>3 DEF Reply, Keys, NoKey
  <2> HIDE DEF m, c
  <2>4. Range(fromGame') = Range(fromGame) \cup {m(k)}
    <3>1. \A e \in Reply : Range(Append(fromGame, e)) = Range(fromGame) \cup {e}
      BY <1>2, RangeAppend
    <3> QED BY <2>2, <2>3, <3>1
  <2>5. Calm'
    <3>1. \A r \in Range(fromGame') : centerStorage[r.character] = [from |-> 1, to |-> 1]
      BY <1>5, <2>1, <2>3, <2>4 DEF JInv, Calm
    <3> QED BY <1>1, <1>3, <3>1 DEF JInv, Calm
  <2>6. ASSUME NEW d \in Characters PROVE Beyond(d)' = Beyond(d)
    <3>1. /\ AtGame(d) \in Nat /\ AtGame(d)' \in Nat
          /\ AtGame(d) = AtGame(d)' + (IF c = d THEN 1 ELSE 0)
      BY <1>1, <1>2, GameTail DEF c
    <3>2. /\ Back(d) \in Nat /\ Back(d)' = Back(d) + (IF c = d THEN 1 ELSE 0)
      <4>1. ASSUME NEW e \in Reply, fromGame' = Append(fromGame, e)
            PROVE  Back(d) \in Nat /\ Back(d)' = Back(d) + (IF e.character = d THEN 1 ELSE 0)
        BY <1>2, <4>1, BackAppend
      <4> QED BY <4>1, <2>2, <2>3
    <3>3. /\ AtCenter(d)' = AtCenter(d) /\ AtLogin(d)' = AtLogin(d)
          /\ AtCenter(d) \in Nat /\ AtLogin(d) \in Nat
      BY <1>1, Numbers DEF AtCenter, AtLogin
    <3> QED BY <3>1, <3>2, <3>3 DEF Beyond
  <2>7. OnesAlone'
    BY <1>1, <2>6, OnesAloneKept DEF JInv
  <2>8. NoLockout'
    <3> SUFFICES ASSUME NEW d \in Characters, auth'[d] # NoKey, d \notin abandoned \cup contested
                 PROVE  \/ [character |-> d, key |-> auth'[d]] \in Replies'
                        \/ \E t \in Sessions : <<t, d, auth'[d]>> \in told
      BY <1>1 DEF NoLockout
    <3>1. Replies \subseteq Replies' /\ m(k) \in Replies'
      BY <1>1, <2>4 DEF Replies
    <3>2. CASE auth'[d] = auth[d]
      BY <1>5, <3>1, <3>2 DEF JInv, NoLockout
    <3>3. CASE auth'[d] # auth[d]
      <4>1. d = c /\ auth'[d] = k
        BY <1>2, <2>2, <3>3
      <4> QED BY <4>1, <3>1 DEF m
    <3> QED BY <3>2, <3>3
  <2> QED BY <1>1, <2>5, <2>7, <2>8, WaitsKept DEF JInv
<1> QED BY <1>4, <1>5

\* A key that let a client in is gone.
LEMMA EnterJInv ==
  ASSUME IInv, JInv, IInv', NEW s \in Sessions, NEW c \in Characters, NEW k \in Keys,
         HandleClientEnter(s, c, k)
  PROVE  JInv'
<1> USE DEF servers, login, center, leaving, history
<1>1. /\ auth' = [auth EXCEPT ![c] = NoKey]
      /\ UNCHANGED <<running, linked, seen, session, failures, state, jobs, waiting, loginStorage,
                     abandoned, contested, toCenter, centerStorage, toGame, fromGame, toLogin, told>>
  BY DEF HandleClientEnter
<1>2. auth \in [Characters -> Keys \cup {NoKey}]
  BY DEF IInv, TypeOK
<1>3. \A d \in Characters : Beyond(d)' = Beyond(d)
  BY <1>1 DEF Beyond, AtCenter, AtGame, Back, AtLogin
<1>4. Calm' /\ OnesAlone'
  BY <1>1, <1>3, OnesAloneKept DEF JInv, Calm
<1>5. NoLockout'
  <2>1. \A d \in Characters : auth'[d] # NoKey => auth'[d] = auth[d]
    BY <1>1, <1>2
  <2> QED BY <1>1, <2>1 DEF JInv, NoLockout, Replies
<1> QED BY <1>1, <1>4, <1>5, WaitsKept DEF JInv

\* No step leaves the second invariant.
LEMMA NextJInv == IInv /\ IInv' /\ JInv /\ [Next]_vars => JInv'
<1> SUFFICES ASSUME IInv, IInv', JInv, [Next]_vars PROVE JInv'
  OBVIOUS
<1>1. ASSUME NEW s \in Sessions,
             \/ Connect(s) \/ Disconnect(s) \/ OnRecvEnds(s)
             \/ OnDisconnected(s) \/ OnDisconnectedCrashes(s)
      PROVE  JInv'
  <2>1. CASE Connect(s)
    BY <2>1, ConnectJInv
  <2>2. CASE Disconnect(s)
    BY <2>2, DisconnectJInv
  <2>3. CASE OnDisconnected(s) \/ OnRecvEnds(s)
    BY <2>3, LeaveJInv
  <2>4. CASE OnDisconnectedCrashes(s)
    BY <2>4, LoginEndsJInv DEF OnDisconnectedCrashes
  <2> QED BY <1>1, <2>1, <2>2, <2>3, <2>4
<1>2. ASSUME NEW s \in Sessions, NEW c \in Characters,
             SelectCharacter(s, c) \/ \E k \in Keys : HandleClientEnter(s, c, k)
      PROVE  JInv'
  BY <1>2, SelectJInv, EnterJInv
<1>3. CASE Handle
  BY <1>3, HandleSelectJInv, HandleResponseJInv, ServerRequestJInv, ServerResponseJInv,
     HandleRequestJInv DEF Handle
<1>4. CASE LoginCrash
  BY <1>4, LoginEndsJInv DEF LoginCrash
<1>5. CASE GameCrash \/ CenterCrash
  BY <1>5, FailureJInv
<1>6. ASSUME NEW x \in Servers, CenterNotices(x) \/ Start(x) PROVE JInv'
  BY <1>6, RegistrationJInv
<1>7. CASE UNCHANGED vars
  <2> USE DEF vars, servers, login, center, game, leaving, history
  <2>1. \A c \in Characters : Beyond(c)' = Beyond(c)
    BY <1>7 DEF Beyond, AtCenter, AtGame, Back, AtLogin
  <2>2. OnesAlone'
    BY <1>7, <2>1, OnesAloneKept DEF JInv
  <2> QED BY <1>7, <2>2, WaitsKept DEF JInv, Calm, NoLockout, Replies
<1> QED BY <1>1, <1>2, <1>3, <1>4, <1>5, <1>6, <1>7 DEF Next

\* It holds always, too.
LEMMA SecondInvariance == Spec => [](IInv /\ JInv)
<1>1. IInv /\ JInv /\ [Next]_vars => (IInv /\ JInv)'
  BY NextIInv, NextJInv
<1> QED BY <1>1, InitIInv, InitJInv, PTL DEF Spec

\* A character has a key that nobody can use only if its client left before the answer or
\* before its packet was handled, it was selected again meanwhile or a server failed.
THEOREM NobodyIsLockedOut == Spec => []NoLockout
<1>1. JInv => NoLockout
  BY DEF JInv
<1> QED BY <1>1, SecondInvariance, PTL

\* A client is told a key only while it waits for the answer about that character.
THEOREM AnswersWereAwaited == Spec => AnswersAreAwaited
<1>1. ASSUME IInv, JInv, [Next]_vars
      PROVE  [\A s \in Sessions, c \in Characters, k \in Keys :
                <<s, c, k>> \in told' \ told => waiting[<<s, c>>] > 0]_vars
  <2> SUFFICES ASSUME NEW s \in Sessions, NEW c \in Characters, NEW k \in Keys,
                      <<s, c, k>> \in told' \ told
               PROVE  waiting[<<s, c>>] > 0
    OBVIOUS
  <2>1. HandleMigrationResponse
    <3> USE DEF servers, login, center, game, leaving, history
    <3>1. \A t \in Sessions :
            /\ ~ Connect(t) /\ ~ Disconnect(t) /\ ~ OnRecvEnds(t)
            /\ ~ OnDisconnected(t) /\ ~ OnDisconnectedCrashes(t)
      BY DEF Connect, Disconnect, OnRecvEnds, OnDisconnected, Leave, OnDisconnectedCrashes, LoginEnds
    <3>2. \A t \in Sessions, d \in Characters :
            ~ SelectCharacter(t, d) /\ \A j \in Keys : ~ HandleClientEnter(t, d, j)
      BY DEF SelectCharacter, HandleClientEnter
    <3>3. /\ ~ HandleSelectCharacter /\ ~ HandleServerMigrationRequest
          /\ ~ HandleServerMigrationResponse /\ ~ HandleMigrationRequest
      BY DEF HandleSelectCharacter, HandleServerMigrationRequest, HandleServerMigrationResponse,
             HandleMigrationRequest
    <3>4. ~ LoginCrash /\ ~ GameCrash /\ ~ CenterCrash
      BY DEF LoginCrash, LoginEnds, GameCrash, CenterCrash
    <3>5. \A x \in Servers : ~ CenterNotices(x) /\ ~ Start(x)
      BY DEF CenterNotices, Start
    <3>6. ~ UNCHANGED vars
      BY DEF vars
    <3> QED BY <1>1, <3>1, <3>2, <3>3, <3>4, <3>5, <3>6 DEF Next, Handle
  <2>2. loginStorage[c] = s /\ state[s] = "in"
    BY <2>1 DEF HandleMigrationResponse
  <2>3. waiting[<<s, c>>] >= CountIn(jobs, {<<s, c>>}) + 1
    BY <1>1, <2>2 DEF JInv, Waits
  <2>4. CountIn(jobs, {<<s, c>>}) \in Nat /\ waiting[<<s, c>>] \in Nat
    <3>1. jobs \in Seq(Sessions \X Characters) /\ waiting \in [Sessions \X Characters -> Nat]
      BY <1>1 DEF IInv, TypeOK
    <3> QED BY <3>1, CountIsNat
  <2> QED BY <2>3, <2>4
<1> QED BY <1>1, SecondInvariance, PTL DEF Spec, AnswersAreAwaited
=============================================================================
