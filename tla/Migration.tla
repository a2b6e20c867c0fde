------------------------------ MODULE Migration ------------------------------
(***************************************************************************)
(* How a character gets from the login server into the game server.  The    *)
(* client selects it on its login session; the login server asks the center *)
(* server, which asks the game server, which stores an auth key for the     *)
(* character and sends it back the same way; the client then enters the     *)
(* game with the key.  Each server keeps what it needs for the answer in a  *)
(* map by character: the two MigrationStorages and the AuthStorage, whose   *)
(* Add inserts and never overwrites.                                        *)
(*                                                                          *)
(* A step is a packet handler: it runs as a job of its handler's JobQueue,  *)
(* and the packets of one connection reach that queue in order.  Servers    *)
(* crash and are started again; the center notices a lost connection later. *)
(* A definition marked "Slip" is a mistake one could make in the definition *)
(* below it, kept to see that the properties notice.                        *)
(***************************************************************************)
EXTENDS Integers, Sequences, FiniteSets, SequencesExt

CONSTANTS
  Sessions,    \* the LoginSessions, that is the clients
  Characters,
  None,
  MaxSelects,  \* bound: the selections that are ever made
  MaxFailures  \* bound: the crashes of servers

ASSUME MigrationAssumption ==
  /\ None \notin Sessions
  /\ MaxSelects \in Nat /\ MaxFailures \in Nat

Servers == {"login", "game"}
Keys == 1 .. MaxSelects
NoKey == 0  \* in a reply: failure; in AuthStorage: no key

VARIABLES
  running,       \* the processes that run
  linked,        \* those whose connection to the center works
  seen,          \* those whose CenterSession the center still has
  session,       \* the CenterSession a server has or had last, by number
  state,         \* of each LoginSession: "closing" between Disconnect and OnDisconnected,
                 \* "gone" afterwards, "over" when its OnRecv is at its end too
  jobs,          \* the select jobs in the queue of the LoginHandler
  waiting,       \* how many answers a client still waits for, by character
  loginStorage,  \* login::MigrationStorage
  toCenter,      \* requests from the login server: character, CenterSession
  centerStorage, \* center::MigrationStorage
  toGame,        \* requests from the center to the game server
  auth,          \* AuthStorage
  fromGame,      \* the game server's replies
  toLogin,       \* replies from the center to the login server
  issued,        \* how many keys were made
  voided,        \* the last key made before the game server's start
  told,          \* the clients' keys
  entries,       \* how often a key let a client in
  asked,         \* the selections ever made
  abandoned,     \* the characters whose answer no client waits for: it left meanwhile, or
                 \* before its packet was handled
  late,          \* the characters whose selection was still queued when OnDisconnected ran
                 \* for its session, or was queued afterwards
  contested,     \* the characters selected while an earlier selection was underway
  selects,       \* how many selections were made
  failures       \* how many servers have crashed

servers == <<running, linked, seen, session, failures>>
history == <<asked, contested, selects>>
leaving == <<abandoned, late>>
login == <<state, jobs, waiting, loginStorage, leaving, history>>
center == <<toCenter, centerStorage>>
game == <<auth, issued, voided, entries>>
vars == <<servers, login, center, toGame, game, fromGame, toLogin, told>>

Reply == [character : Characters, key : Keys \cup {NoKey}]
NoEntry == [from |-> 0, to |-> 0]

TypeOK ==
  /\ running \subseteq Servers /\ linked \subseteq running /\ seen \subseteq Servers
  /\ linked \subseteq seen
  /\ session \in [Servers -> Nat] /\ failures \in 0 .. MaxFailures
  /\ state \in [Sessions -> {"new", "in", "closing", "gone", "over"}]
  /\ jobs \in Seq(Sessions \X Characters)
  /\ waiting \in [Sessions \X Characters -> Nat] /\ asked \subseteq Sessions \X Characters
  /\ loginStorage \in [Characters -> Sessions \cup {None}]
  /\ toCenter \in Seq([character : Characters, from : Nat])
  /\ centerStorage \in [Characters -> [from : Nat, to : Nat]]
  /\ toGame \in Seq(Characters)
  /\ auth \in [Characters -> Keys \cup {NoKey}]
  /\ fromGame \in Seq(Reply) /\ toLogin \in Seq(Reply)
  /\ issued \in 0 .. MaxSelects /\ voided \in 0 .. issued
  /\ told \subseteq Sessions \X Characters \X Keys
  /\ entries \in [Keys -> Nat]
  /\ abandoned \subseteq Characters /\ late \subseteq Characters /\ contested \subseteq Characters
  /\ selects \in 0 .. MaxSelects

Init ==
  /\ running = Servers /\ linked = Servers /\ seen = Servers
  /\ session = [x \in Servers |-> 1] /\ failures = 0
  /\ state = [s \in Sessions |-> "new"]
  /\ jobs = <<>>
  /\ waiting = [w \in Sessions \X Characters |-> 0] /\ asked = {} /\ selects = 0
  /\ abandoned = {} /\ late = {} /\ contested = {}
  /\ loginStorage = [c \in Characters |-> None]
  /\ toCenter = <<>> /\ toGame = <<>> /\ fromGame = <<>> /\ toLogin = <<>>
  /\ centerStorage = [c \in Characters |-> NoEntry]
  /\ auth = [c \in Characters |-> NoKey]
  /\ issued = 0 /\ voided = 0
  /\ told = {}
  /\ entries = [k \in Keys |-> 0]
-----------------------------------------------------------------------------
(* The client and the login server *)

Connect(s) ==
  /\ "login" \in running /\ state[s] = "new"
  /\ state' = [state EXCEPT ![s] = "in"]
  /\ UNCHANGED <<servers, jobs, waiting, loginStorage, leaving, history, center, toGame, game,
                 fromGame, toLogin, told>>

\* An earlier selection of the character has not come to its end.
Underway(c) ==
  \/ \E s \in Sessions : waiting[<<s, c>>] > 0
  \/ \E j \in Range(jobs) : j[2] = c
  \/ \E r \in Range(toCenter) \cup Range(fromGame) \cup Range(toLogin) : r.character = c
  \/ c \in Range(toGame)

\* A packet of the client's that was received is posted to the LoginHandler.  Nobody asks
\* whether the session is still connected: OnRecv goes on with what was received before.
SelectCharacter(s, c) ==
  /\ state[s] \in {"in", "closing", "gone"} /\ selects < MaxSelects
  /\ selects' = selects + 1
  /\ jobs' = Append(jobs, <<s, c>>)
  /\ asked' = asked \cup {<<s, c>>}
  /\ contested' = IF Underway(c) THEN contested \cup {c} ELSE contested
  /\ IF state[s] = "in"
     THEN waiting' = [waiting EXCEPT ![<<s, c>>] = @ + 1] /\ UNCHANGED abandoned
     ELSE abandoned' = abandoned \cup {c} /\ UNCHANGED waiting
  /\ late' = IF state[s] = "gone" THEN late \cup {c} ELSE late
  /\ UNCHANGED <<servers, state, loginStorage, center, toGame, game, fromGame, toLogin, told>>

\* A client gets an answer; one that has left waits for none.
Answered(s, c) == waiting' = [waiting EXCEPT ![<<s, c>>] = IF @ > 0 THEN @ - 1 ELSE 0]

\* HandleSelectCharacter refuses a character that is not in the session's list, and
\* otherwise remembers who asked and asks the center (if it is connected).
HandleSelectCharacter ==
  /\ "login" \in running /\ jobs # <<>>
  /\ jobs' = Tail(jobs)
  /\ LET s == Head(jobs)[1]
         c == Head(jobs)[2] IN
     \/ /\ Answered(s, c)
        /\ UNCHANGED <<loginStorage, toCenter>>
     \/ /\ loginStorage' = [loginStorage EXCEPT ![c] = IF @ = None THEN s ELSE @]
        /\ toCenter' = IF "login" \in linked
                       THEN Append(toCenter, [character |-> c, from |-> session["login"]])
                       ELSE toCenter
        /\ UNCHANGED waiting
  /\ UNCHANGED <<servers, state, leaving, history, centerStorage, toGame, game, fromGame, toLogin,
                 told>>

\* Slip: the entry stays.
HandleMigrationResponseKeeps ==
  /\ "login" \in running /\ toLogin # <<>>
  /\ toLogin' = Tail(toLogin)
  /\ LET c == Head(toLogin).character
         s == loginStorage[c]
         k == Head(toLogin).key IN
     /\ UNCHANGED loginStorage
     /\ IF s # None /\ state[s] = "in"
        THEN /\ Answered(s, c)
             /\ told' = IF k = NoKey THEN told ELSE told \cup {<<s, c, k>>}
        ELSE UNCHANGED <<waiting, told>>
  /\ UNCHANGED <<servers, state, jobs, leaving, history, center, toGame, game, fromGame>>

\* Slip: the entry is removed before it is looked up.
HandleMigrationResponseForgets ==
  /\ "login" \in running /\ toLogin # <<>>
  /\ toLogin' = Tail(toLogin)
  /\ loginStorage' = [loginStorage EXCEPT ![Head(toLogin).character] = None]
  /\ UNCHANGED <<servers, state, jobs, waiting, leaving, history, center, toGame, game, fromGame,
                 told>>

\* The entry is removed, and its session told if it is still connected.  (Find and Remove
\* are two accesses to the map.  If OnDisconnected takes the entry in between and a job of
\* the LoginHandler adds another client's, Remove takes that, and the other client waits in
\* vain; its character is contested then, of which nothing is claimed.)
HandleMigrationResponse ==
  /\ "login" \in running /\ toLogin # <<>>
  /\ toLogin' = Tail(toLogin)
  /\ LET c == Head(toLogin).character
         s == loginStorage[c]
         k == Head(toLogin).key IN
     /\ loginStorage' = [loginStorage EXCEPT ![c] = None]
     /\ IF s # None /\ state[s] = "in"
        THEN /\ Answered(s, c)
             /\ told' = IF k = NoKey THEN told ELSE told \cup {<<s, c, k>>}
        ELSE UNCHANGED <<waiting, told>>
  /\ UNCHANGED <<servers, state, jobs, leaving, history, center, toGame, game, fromGame>>

WaitedFor(s) == {c \in Characters : waiting[<<s, c>>] > 0}
EntriesOf(s) == {c \in Characters : loginStorage[c] = s}

\* The session of an entry can be destroyed, its weak_ptr expired.
Expired(c) ==
  /\ loginStorage[c] # None /\ state[loginStorage[c]] = "over"
  /\ \A i \in DOMAIN jobs : jobs[i][1] # loginStorage[c]

\* What the end of the process does to what it kept and to its connections: the center
\* has got some of what was sent to it.
LoginEnds ==
  /\ running' = running \ {"login"}
  /\ linked' = linked \ {"login"}
  /\ state' = [s \in Sessions |-> IF state[s] = "new" THEN "new" ELSE "over"]
  /\ jobs' = <<>>
  /\ waiting' = [w \in Sessions \X Characters |-> 0]
  /\ abandoned' = abandoned \cup UNION {WaitedFor(s) : s \in Sessions}
  /\ loginStorage' = [c \in Characters |-> None]
  /\ \E i \in 0 .. Len(toCenter) : toCenter' = SubSeq(toCenter, 1, i)
  /\ toLogin' = <<>>
  /\ UNCHANGED <<seen, session, late, history, centerStorage, toGame, game, fromGame, told>>

\* The client leaves or is thrown out: nothing is sent to it any more.
Disconnect(s) ==
  /\ "login" \in running /\ state[s] = "in"
  /\ state' = [state EXCEPT ![s] = "closing"]
  /\ waiting' = [w \in DOMAIN waiting |-> IF w[1] = s THEN 0 ELSE waiting[w]]
  /\ abandoned' = abandoned \cup WaitedFor(s)
  /\ UNCHANGED <<servers, jobs, loginStorage, late, history, center, toGame, game, fromGame,
                 toLogin, told>>

Leave(s) ==
  /\ "login" \in running /\ state[s] = "closing"
  /\ state' = [state EXCEPT ![s] = "gone"]
  /\ late' = late \cup {j[2] : j \in {i \in Range(jobs) : i[1] = s}}
  /\ UNCHANGED <<servers, jobs, waiting, abandoned, history, center, toGame, game, fromGame,
                 toLogin, told>>

\* Slip: the storage is left to the answers.
OnDisconnectedKeeps(s) == Leave(s) /\ UNCHANGED loginStorage

\* LoginSession::OnDisconnected removes the first entry of the session it comes across.
OnDisconnected(s) ==
  /\ Leave(s)
  /\ \/ \E c \in EntriesOf(s) : loginStorage' = [loginStorage EXCEPT ![c] = None]
     \/ EntriesOf(s) = {} /\ UNCHANGED loginStorage

\* It comes across an entry whose session was destroyed, and reads through the null pointer.
OnDisconnectedCrashes(s) ==
  /\ "login" \in running /\ state[s] = "closing" /\ failures < MaxFailures
  /\ \E c \in Characters : Expired(c)
  /\ failures' = failures + 1
  /\ LoginEnds

\* All that a session had received has been handled; its receive is not registered again.
OnRecvEnds(s) ==
  /\ state[s] = "gone"
  /\ state' = [state EXCEPT ![s] = "over"]
  /\ UNCHANGED <<servers, jobs, waiting, loginStorage, leaving, history, center, toGame, game,
                 fromGame, toLogin, told>>
-----------------------------------------------------------------------------
(* The center server *)

\* weak_ptr::lock of a CenterSession
Alive(x, n) == x \in seen /\ session[x] = n

\* What the center sends to a CenterSession whose server is gone is lost.
SendToLogin(n, reply) ==
  toLogin' = IF "login" \in linked /\ session["login"] = n THEN Append(toLogin, reply) ELSE toLogin

HandleServerMigrationRequest ==
  /\ toCenter # <<>>
  /\ toCenter' = Tail(toCenter)
  /\ LET c == Head(toCenter).character
         from == Head(toCenter).from IN
     \/ /\ "game" \notin seen
        /\ SendToLogin(from, [character |-> c, key |-> NoKey])
        /\ UNCHANGED <<centerStorage, toGame>>
     \/ /\ "game" \in seen
        /\ centerStorage' = [centerStorage EXCEPT ![c] =
                               IF @ = NoEntry THEN [from |-> from, to |-> session["game"]] ELSE @]
        /\ toGame' = IF "game" \in linked THEN Append(toGame, c) ELSE toGame
        /\ UNCHANGED toLogin
  /\ UNCHANGED <<servers, login, game, fromGame, told>>

\* The entry of a character stays, but not if one of its two servers is gone.
HandleServerMigrationResponse ==
  /\ fromGame # <<>>
  /\ fromGame' = Tail(fromGame)
  /\ LET c == Head(fromGame).character
         entry == centerStorage[c] IN
     \/ /\ entry # NoEntry
        /\ Alive("login", entry.from) /\ Alive("game", entry.to)
        /\ SendToLogin(entry.from, Head(fromGame))
        /\ UNCHANGED centerStorage
     \/ /\ ~ (Alive("login", entry.from) /\ Alive("game", entry.to))
        /\ centerStorage' = [centerStorage EXCEPT ![c] = NoEntry]
        /\ UNCHANGED toLogin
  /\ UNCHANGED <<servers, login, toCenter, toGame, game, told>>
-----------------------------------------------------------------------------
(* The game server *)

\* Slip: there is no check for a key the character has already.
HandleMigrationRequestAnyway ==
  /\ "game" \in running /\ toGame # <<>>
  /\ toGame' = Tail(toGame)
  /\ LET c == Head(toGame)
         Answer(k) == fromGame' = IF "game" \in linked
                                  THEN Append(fromGame, [character |-> c, key |-> k])
                                  ELSE fromGame IN
     /\ issued' = issued + 1
     /\ auth' = [auth EXCEPT ![c] = IF @ = NoKey THEN issued' ELSE @]
     /\ Answer(issued')
  /\ UNCHANGED <<servers, login, center, voided, entries, toLogin, told>>

\* A character that has a key gets no other.  (The PlayerManager, which is asked first, is
\* always empty: nothing calls its AddPlayer.)
HandleMigrationRequest ==
  /\ "game" \in running /\ toGame # <<>>
  /\ toGame' = Tail(toGame)
  /\ LET c == Head(toGame)
         Answer(k) == fromGame' = IF "game" \in linked
                                  THEN Append(fromGame, [character |-> c, key |-> k])
                                  ELSE fromGame IN
     \/ /\ auth[c] # NoKey
        /\ Answer(NoKey)
        /\ UNCHANGED <<auth, issued>>
     \/ /\ auth[c] = NoKey
        /\ issued' = issued + 1
        /\ auth' = [auth EXCEPT ![c] = issued']
        /\ Answer(issued')
  /\ UNCHANGED <<servers, login, center, voided, entries, toLogin, told>>

\* Slip: the key is not removed.
HandleClientEnterKeepsKey(s, c, k) ==
  /\ "game" \in running
  /\ <<s, c, k>> \in told /\ auth[c] = k
  /\ entries' = [entries EXCEPT ![k] = @ + 1]
  /\ UNCHANGED <<servers, login, center, toGame, auth, issued, voided, fromGame, toLogin, told>>

\* A client enters with what it was told, once or again; any other key is refused, which
\* changes nothing here.
HandleClientEnter(s, c, k) ==
  /\ "game" \in running
  /\ <<s, c, k>> \in told /\ auth[c] = k
  /\ auth' = [auth EXCEPT ![c] = NoKey]
  /\ entries' = [entries EXCEPT ![k] = @ + 1]
  /\ UNCHANGED <<servers, login, center, toGame, issued, voided, fromGame, toLogin, told>>
-----------------------------------------------------------------------------
(* Failures *)

LoginCrash ==
  /\ "login" \in running /\ failures < MaxFailures
  /\ failures' = failures + 1
  /\ LoginEnds

GameCrash ==
  /\ "game" \in running /\ failures < MaxFailures
  /\ failures' = failures + 1
  /\ running' = running \ {"game"}
  /\ linked' = linked \ {"game"}
  /\ auth' = [c \in Characters |-> NoKey]
  /\ voided' = issued
  /\ \E i \in 0 .. Len(fromGame) : fromGame' = SubSeq(fromGame, 1, i)
  /\ toGame' = <<>>
  /\ UNCHANGED <<seen, session, login, center, issued, entries, toLogin, told>>

\* Slip: the servers keep the connection they lost.
CenterCrashUnnoticed ==
  /\ failures < MaxFailures
  /\ failures' = failures + 1
  /\ linked' = linked /\ seen' = {}
  /\ centerStorage' = [c \in Characters |-> NoEntry]
  /\ toCenter' = <<>> /\ fromGame' = <<>>
  /\ \E i \in 0 .. Len(toGame) : toGame' = SubSeq(toGame, 1, i)
  /\ \E i \in 0 .. Len(toLogin) : toLogin' = SubSeq(toLogin, 1, i)
  /\ UNCHANGED <<running, session, login, game, told>>

\* The center comes back empty; the servers do not connect again (OnDisconnected of their
\* CenterServerSession only forgets it), and handle what they have got of its packets.
CenterCrash ==
  /\ failures < MaxFailures
  /\ failures' = failures + 1
  /\ linked' = {} /\ seen' = {}
  /\ centerStorage' = [c \in Characters |-> NoEntry]
  /\ toCenter' = <<>> /\ fromGame' = <<>>
  /\ \E i \in 0 .. Len(toGame) : toGame' = SubSeq(toGame, 1, i)
  /\ \E i \in 0 .. Len(toLogin) : toLogin' = SubSeq(toLogin, 1, i)
  /\ UNCHANGED <<running, session, login, game, told>>

\* The center's session of a server that is gone disconnects and unregisters it.
CenterNotices(x) ==
  /\ x \in seen \ linked
  /\ seen' = seen \ {x}
  /\ UNCHANGED <<running, linked, session, failures, login, center, toGame, game, fromGame, toLogin,
                 told>>

\* The center refuses a server whose name it knows.
HandleServerRegisterRequest(x) ==
  /\ x \notin seen
  /\ seen' = seen \cup {x}
  /\ session' = [session EXCEPT ![x] = @ + 1]

\* A server is started, connects and registers; it serves nobody until it has.
Start(x) ==
  /\ x \notin running
  /\ HandleServerRegisterRequest(x)
  /\ running' = running \cup {x}
  /\ linked' = linked \cup {x}
  /\ UNCHANGED <<failures, login, center, toGame, game, fromGame, toLogin, told>>

Handle ==
  \/ HandleSelectCharacter \/ HandleMigrationResponse
  \/ HandleServerMigrationRequest \/ HandleServerMigrationResponse
  \/ HandleMigrationRequest

Next ==
  \/ \E s \in Sessions :
       \/ Connect(s) \/ Disconnect(s) \/ OnRecvEnds(s)
       \/ OnDisconnected(s) \/ OnDisconnectedCrashes(s)
       \/ \E c \in Characters :
            SelectCharacter(s, c) \/ \E k \in Keys : HandleClientEnter(s, c, k)
  \/ Handle
  \/ LoginCrash \/ GameCrash \/ CenterCrash
  \/ \E x \in Servers : CenterNotices(x) \/ Start(x)

Spec == Init /\ [][Next]_vars

\* Handlers run.
Fairness ==
  /\ WF_vars(HandleSelectCharacter) /\ WF_vars(HandleMigrationResponse)
  /\ WF_vars(HandleServerMigrationRequest) /\ WF_vars(HandleServerMigrationResponse)
  /\ WF_vars(HandleMigrationRequest)

FairSpec == Spec /\ Fairness
-----------------------------------------------------------------------------
(* Properties *)

Replies == Range(fromGame) \cup Range(toLogin)

\* A key lets one client in, once, however often clients that were told the key try
\* (HandleClientEnter finds and removes it in one job).
OneEntry == \A k \in Keys : entries[k] <= 1

\* A key that a client was told, or is about to be told, is the one the game server will
\* accept, unless it was used already or the game server has been started since.
KeysAreTrue ==
  \A c \in Characters, k \in Keys :
    /\ k > voided
    /\ [character |-> c, key |-> k] \in Replies \/ \E s \in Sessions : <<s, c, k>> \in told
    => auth[c] = k \/ entries[k] > 0

\* A character has a key that nobody can use, and so is refused from then on, only if its
\* client left before the answer (or before its packet, which is handled nevertheless),
\* because a server has crashed, or because it was selected again while the first selection
\* was underway: the second selection then has no entry in the login server's storage, and
\* its key is lost if the first one is used in between.
NoLockout ==
  \A c \in Characters :
    auth[c] # NoKey =>
      \/ [character |-> c, key |-> auth[c]] \in Replies
      \/ \E s \in Sessions : <<s, c, auth[c]>> \in told
      \/ c \in abandoned \cup contested
      \/ failures > 0

\* An entry of the login server's storage outlives its session, and is then a null pointer
\* to the next OnDisconnected, only if the session had selected another character too, its
\* selection was still queued when OnDisconnected ran, or the packet was handled after that.
StaleEntriesExplained ==
  \A c \in Characters :
    Expired(c) =>
      LET s == loginStorage[c] IN
      (\E d \in Characters \ {c} : <<s, d>> \in asked) \/ c \in late

\* A client is answered only while it waits for an answer about that character: nobody
\* gets the answer to somebody else's selection out of the blue.
AnswersAreAwaited ==
  [][\A s \in Sessions, c \in Characters, k \in Keys :
       <<s, c, k>> \in told' \ told => waiting[<<s, c>>] > 0]_vars

\* The center answers to sessions of servers that have been replaced since.
StaleRoute(c) ==
  centerStorage[c] # NoEntry /\ ~ (Alive("login", centerStorage[c].from)
                                     /\ Alive("game", centerStorage[c].to))

\* A selection is answered in the end, unless the client leaves, another selection of the
\* character is underway, a server fails meanwhile, the login server still keeps the entry
\* of another client, or the center the route of an earlier migration between servers that
\* were restarted since.
SelectionsAnswered ==
  \A s \in Sessions, c \in Characters, n \in 0 .. MaxFailures :
    (<<s, c>> \in Range(jobs) /\ failures = n /\ linked = Servers) ~>
      \/ waiting[<<s, c>>] = 0
      \/ c \in contested
      \/ failures > n
      \/ loginStorage[c] \notin {s, None}
      \/ StaleRoute(c)
=============================================================================
