-------------------------------- MODULE Lock --------------------------------
(***************************************************************************)
(* The recursive readers-writer spin lock of ServerCore (thread/lock.cpp)   *)
(* with the guards of lock.h, which threads take and drop like a stack.     *)
(* _lock_flag holds the id of the writing thread and the number of reads.   *)
(* A definition marked "Slip" is a mistake one could make in the definition *)
(* below it, kept to see that the properties notice.                        *)
(***************************************************************************)
EXTENDS Integers, Sequences, FiniteSets

CONSTANTS
  Threads,    \* the threads with an LThreadId, that is all of ThreadManager's
  NoThread,   \* id 0, no writer
  MaxGuards   \* bound: the guards one thread nests

ASSUME LockAssumption ==
  /\ IsFiniteSet(Threads)
  /\ NoThread \notin Threads
  /\ MaxGuards \in Nat

VARIABLES
  writer,      \* _lock_flag & kWriteThreadMask
  readers,     \* _lock_flag & kReadCountMast
  writeCount,  \* _write_count
  guards,      \* the guards of a thread, the innermost last
  want,        \* the guard a thread is spinning for
  crash        \* the CRASH that stopped the process, or "no"

flag == <<writer, readers, writeCount>>
vars == <<flag, guards, want, crash>>

Kind == {"R", "W"}

TypeOK ==
  /\ writer \in Threads \cup {NoThread}
  /\ readers \in Nat
  /\ writeCount \in Nat
  /\ guards \in [Threads -> Seq(Kind)]
  /\ want \in [Threads -> Kind \cup {"none"}]
  /\ crash \in {"no", "LOCK_TIMEOUT", "INVALID_UNLOCK_ORDER", "MULTIPLE_UNLOCK"}

Init ==
  /\ writer = NoThread
  /\ readers = 0
  /\ writeCount = 0
  /\ guards = [t \in Threads |-> <<>>]
  /\ want = [t \in Threads |-> "none"]
  /\ crash = "no"

Runs(t) == crash = "no" /\ want[t] = "none"
Spins(t, k) == crash = "no" /\ want[t] = k
Taken(t, k) == guards' = [guards EXCEPT ![t] = Append(@, k)]
Innermost(t) == guards[t][Len(guards[t])]
Dropped(t) == guards' = [guards EXCEPT ![t] = SubSeq(@, 1, Len(@) - 1)]

\* WriteLock: the writer itself counts up, any other thread starts to spin.
WriteLock(t) ==
  /\ Runs(t) /\ Len(guards[t]) < MaxGuards
  /\ \/ /\ writer = t
        /\ writeCount' = writeCount + 1
        /\ Taken(t, "W")
        /\ UNCHANGED want
     \/ /\ writer # t
        /\ want' = [want EXCEPT ![t] = "W"]
        /\ UNCHANGED <<writeCount, guards>>
  /\ UNCHANGED <<writer, readers, crash>>

\* Slip: the exchange expects no writer, but not that there is no reader.
AcquireWriteOverReaders(t) ==
  /\ Spins(t, "W") /\ writer = NoThread
  /\ writer' = t
  /\ writeCount' = writeCount + 1
  /\ want' = [want EXCEPT ![t] = "none"]
  /\ Taken(t, "W")
  /\ UNCHANGED <<readers, crash>>

\* The compare_exchange of kEmptyFlag succeeds.
AcquireWrite(t) ==
  /\ Spins(t, "W") /\ writer = NoThread /\ readers = 0
  /\ writer' = t
  /\ writeCount' = writeCount + 1
  /\ want' = [want EXCEPT ![t] = "none"]
  /\ Taken(t, "W")
  /\ UNCHANGED <<readers, crash>>

\* Slip: a read of the writer itself is not counted.
ReadLockUncounted(t) ==
  /\ Runs(t) /\ Len(guards[t]) < MaxGuards
  /\ \/ /\ writer = t
        /\ Taken(t, "R")
        /\ UNCHANGED want
     \/ /\ writer # t
        /\ want' = [want EXCEPT ![t] = "R"]
        /\ UNCHANGED guards
  /\ UNCHANGED <<flag, crash>>

\* ReadLock: the writer itself may read, any other thread starts to spin.
ReadLock(t) ==
  /\ Runs(t) /\ Len(guards[t]) < MaxGuards
  /\ \/ /\ writer = t
        /\ readers' = readers + 1
        /\ Taken(t, "R")
        /\ UNCHANGED want
     \/ /\ writer # t
        /\ want' = [want EXCEPT ![t] = "R"]
        /\ UNCHANGED <<readers, guards>>
  /\ UNCHANGED <<writer, writeCount, crash>>

\* The compare_exchange of a flag without a writer succeeds.
AcquireRead(t) ==
  /\ Spins(t, "R") /\ writer = NoThread
  /\ readers' = readers + 1
  /\ want' = [want EXCEPT ![t] = "none"]
  /\ Taken(t, "R")
  /\ UNCHANGED <<writer, writeCount, crash>>

\* kAcquireTimeoutTick has passed since the thread began to spin.  The clock is looked at
\* after the last try, so the lock may be free by then.
Timeout(t) ==
  /\ crash = "no" /\ want[t] # "none"
  /\ crash' = "LOCK_TIMEOUT"
  /\ UNCHANGED <<flag, guards, want>>

\* ~WriteLockGuard
WriteUnlock(t) ==
  /\ Runs(t) /\ guards[t] # <<>> /\ Innermost(t) = "W"
  /\ \/ /\ readers # 0
        /\ crash' = "INVALID_UNLOCK_ORDER"
        /\ UNCHANGED <<flag, guards>>
     \/ /\ readers = 0
        /\ writeCount' = writeCount - 1
        /\ writer' = IF writeCount = 1 THEN NoThread ELSE writer
        /\ Dropped(t)
        /\ UNCHANGED <<readers, crash>>
  /\ UNCHANGED want

\* ~ReadLockGuard
ReadUnlock(t) ==
  /\ Runs(t) /\ guards[t] # <<>> /\ Innermost(t) = "R"
  /\ readers' = readers - 1
  /\ crash' = IF readers = 0 THEN "MULTIPLE_UNLOCK" ELSE crash
  /\ Dropped(t)
  /\ UNCHANGED <<writer, writeCount, want>>

Next ==
  \E t \in Threads :
    \/ WriteLock(t) \/ AcquireWrite(t) \/ WriteUnlock(t)
    \/ ReadLock(t) \/ AcquireRead(t) \/ ReadUnlock(t)
    \/ Timeout(t)

Spec == Init /\ [][Next]_vars
-----------------------------------------------------------------------------
(* Properties *)

\* The guards of a kind: a thread, and a place in its stack.
GuardsOf(k) ==
  {g \in Threads \X (1 .. MaxGuards) :
     g[2] \in DOMAIN guards[g[1]] /\ guards[g[1]][g[2]] = k}
Holds(t, k) == \E i \in DOMAIN guards[t] : guards[t][i] = k

\* A thread inside a WRITE_LOCK scope is the only one inside a scope of the lock, however
\* deep it and others nest their guards.
MutualExclusion ==
  \A t, u \in Threads : t # u /\ Holds(t, "W") => guards[u] = <<>>

\* The two counters and the writer's id are what the guards of all threads add up to, so
\* that the lock is free exactly when the last guard is gone.
FlagTellsGuards ==
  /\ readers = Cardinality(GuardsOf("R"))
  /\ writeCount = Cardinality(GuardsOf("W"))
  /\ \A t \in Threads : writer = t <=> Holds(t, "W")

\* The lock does what it is for: it excludes, and is given up with the last guard and not before.
GuardsExclude == MutualExclusion /\ FlagTellsGuards

\* Guards never trip the check of ReadUnlock, and that of WriteUnlock only when a write
\* scope encloses a read scope that encloses a write scope of the same thread.
CrashesExplained ==
  /\ crash # "MULTIPLE_UNLOCK"
  /\ crash = "INVALID_UNLOCK_ORDER" =>
       \E t \in Threads : \E i, j, k \in DOMAIN guards[t] :
         i < j /\ j < k /\ guards[t][i] = "W" /\ guards[t][j] = "R" /\ guards[t][k] = "W"

\* CRASH("INVALID_UNLOCK_ORDER") means what it says: scopes that close in the order
\* opposite to the one they were opened in never run into it.
OrderedUnlocksPass == crash # "INVALID_UNLOCK_ORDER"
=============================================================================
