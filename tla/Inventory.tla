------------------------------- MODULE Inventory -------------------------------
(***************************************************************************)
(* The Inventory of a player of the game server and its way to the          *)
(* database.  The thread that executes the queue of the player's map moves, *)
(* uses, equips and unequips items; when the session has ended, the thread  *)
(* that executes the PlayerDbQueue saves the inventory, while jobs of the   *)
(* map may still be under way (see World).  Each tab of the inventory has a *)
(* mutex, and so has the list of the slots that were emptied, which tells   *)
(* the database what to delete.                                             *)
(*                                                                          *)
(* The rows of the database are modelled as inventory.cpp uses its stored   *)
(* procedures: a save deletes the slots on the list, then writes every item *)
(* to its slot.  A definition marked "Slip" is a mistake one could make in  *)
(* the definition below it, kept to see that the properties notice.         *)
(***************************************************************************)
EXTENDS Integers, Sequences, FiniteSets

CONSTANTS
  Templates,     \* the ItemTemplates
  SlotMax,       \* and their GetSlotMax
  MaxSlot,       \* kMaxSlot
  MinEquipSlot,  \* kMinEquipSlot
  MaxEquipSlot,  \* kMaxEquipSlot
  FirstRows,     \* what the database has at first
  NoItem,
  MaxLoads,      \* bound: the logins of the character after the first
  MaxMoves       \* bound: the operations of the client

Types == {"equip", "use", "etc", "equipped"}
Slots(type) == IF type = "equipped" THEN MinEquipSlot .. MaxEquipSlot - 1 ELSE 0 .. MaxSlot - 1
Places == UNION {{type} \X Slots(type) : type \in Types}

Item == UNION {[id : {i}, quantity : 1 .. SlotMax[i]] : i \in Templates}
Rows == [Places -> Item \cup {NoItem}]

ASSUME InventoryAssumption ==
  /\ IsFiniteSet(Templates) /\ SlotMax \in [Templates -> Nat \ {0}]
  /\ MaxSlot \in Nat /\ MinEquipSlot \in Nat /\ MaxEquipSlot \in Nat
  /\ NoItem \notin Item
  /\ FirstRows \in Rows
  /\ MaxLoads \in Nat /\ MaxMoves \in Nat

VARIABLES
  items,       \* _items, by tab and slot
  removed,     \* _removed_items
  holds,       \* the mutexes a thread has, shared ("S") or alone ("X")
  job,         \* what the map's thread is doing
  saving,      \* where the database thread is in TrySaveToDb
  xmlRemoved,  \* the document it has made so far: the slots to delete
  xmlItems,    \* and the items to write
  db,          \* the rows of the database
  loads,       \* how many logins there were
  moves,       \* and how many operations
  loaded,      \* the items the character had when it was loaded
  used,        \* those it has used since
  overwritten, \* and those Unequip has dropped because their new slot was taken
  raced        \* the inventory was changed after the save began

document == <<xmlRemoved, xmlItems>>
history == <<loads, moves, loaded, used, overwritten, raced>>
vars == <<items, removed, holds, job, saving, document, db, history>>

Idle == [do |-> "none", type |-> "none", src |-> 0, dst |-> 0]
Jobs == [do : {"swap", "use", "equip", "unequip", "read"}, type : Types, src : Nat, dst : Nat]

\* The order in which SerializeToXml goes through the tabs.
AfterTab == [equip |-> "use", use |-> "etc", etc |-> "equipped", equipped |-> "store"]

\* How many items of a template there are: the single items of every stack.
Quantity(rows, p, i) == IF rows[p] # NoItem /\ rows[p].id = i THEN rows[p].quantity ELSE 0
SingleItems(rows, places, i) == UNION {{p} \X (1 .. Quantity(rows, p, i)) : p \in places}
Count(rows, i) == Cardinality(SingleItems(rows, Places, i))

\* Types; in particular no stack is larger than its template allows.
TypeOK ==
  /\ items \in Rows /\ db \in Rows /\ xmlItems \in Rows
  /\ removed \subseteq Places /\ xmlRemoved \subseteq Places
  /\ holds \subseteq {"map", "db"} \X (Types \cup {"removed"}) \X {"S", "X"}
  /\ job \in Jobs \cup {Idle}
  /\ saving \in {"no", "read", "clear", "store", "saved", "failed"} \cup Types
  /\ loads \in 0 .. MaxLoads /\ moves \in 0 .. MaxMoves /\ raced \in BOOLEAN
  /\ loaded \in [Templates -> Nat] /\ used \in [Templates -> Nat]
  /\ overwritten \in [Templates -> Nat]

Empty == [p \in Places |-> NoItem]
None == [i \in Templates |-> 0]

Init ==
  /\ items = FirstRows /\ db = FirstRows
  /\ removed = {} /\ holds = {} /\ job = Idle
  /\ saving = "no" /\ xmlRemoved = {} /\ xmlItems = Empty
  /\ loads = 0 /\ moves = 0 /\ raced = FALSE
  /\ loaded = [i \in Templates |-> Count(FirstRows, i)]
  /\ used = None /\ overwritten = None
-----------------------------------------------------------------------------
(* std::shared_mutex *)

CanLock(t, m, mode) ==
  \A h \in holds : h[1] # t /\ h[2] = m => mode = "S" /\ h[3] = "S"

TakesLast(j) == items[<<"use", j.src>>] # NoItem /\ items[<<"use", j.src>>].quantity = 1

\* Slip: RemoveItem takes the mutex of the list like the other operations do.
LocksOfExclusive(j) ==
  CASE j.do = "swap" -> <<<<j.type, "X">>, <<"removed", "X">>>>
    [] j.do = "use" -> IF TakesLast(j) THEN <<<<"use", "X">>, <<"removed", "X">>>> ELSE <<<<"use", "X">>>>
    [] j.do \in {"equip", "unequip"} -> <<<<"equip", "X">>, <<"equipped", "X">>, <<"removed", "X">>>>
    [] j.do = "read" -> <<<<j.type, "S">>>>

\* The mutexes an operation takes, in this order, and keeps to its end.
LocksOf(j) ==
  CASE j.do = "swap" -> <<<<j.type, "X">>, <<"removed", "X">>>>
    [] j.do = "use" -> IF TakesLast(j) THEN <<<<"use", "X">>, <<"removed", "S">>>> ELSE <<<<"use", "X">>>>
    [] j.do \in {"equip", "unequip"} -> <<<<"equip", "X">>, <<"equipped", "X">>, <<"removed", "X">>>>
    [] j.do = "read" -> <<<<j.type, "S">>>>

Held == Cardinality({h \in holds : h[1] = "map"})
HasAllLocks == Held = Len(LocksOf(job))
Release(t) == holds' = {h \in holds : h[1] # t}

Lock ==
  /\ job # Idle /\ ~ HasAllLocks
  /\ LET want == LocksOf(job)[Held + 1] IN
     /\ CanLock("map", want[1], want[2])
     /\ holds' = holds \cup {<<"map", want[1], want[2]>>}
  /\ UNCHANGED <<items, removed, job, saving, document, db, history>>
-----------------------------------------------------------------------------
(* The operations of the map's thread *)

\* A packet of the client, up to the first mutex of its operation.  A slot that is out of
\* range, or swapped with itself, is refused before anything is locked.  What is done after
\* the save is not kept anywhere, and left out.
Begin(do, type, src, dst) ==
  /\ job = Idle /\ saving \notin {"saved", "failed"} /\ moves < MaxMoves
  /\ moves' = moves + 1
  /\ job' = [do |-> do, type |-> type, src |-> src, dst |-> dst]
  /\ LET first == LocksOf(job')[1] IN
     /\ CanLock("map", first[1], first[2])
     /\ holds' = holds \cup {<<"map", first[1], first[2]>>}
  /\ UNCHANGED <<items, removed, saving, document, db, loads, loaded, used, overwritten, raced>>

\* The client swaps in the three tabs of its window only.
Moves ==
  \/ \E type \in Types \ {"equipped"} : \E src, dst \in Slots(type) :
       src # dst /\ Begin("swap", type, src, dst)
  \/ \E src \in Slots("use") : Begin("use", "use", src, src)
  \/ \E src \in Slots("equip"), dst \in Slots("equipped") : Begin("equip", "equip", src, dst)
  \/ \E src \in Slots("equipped"), dst \in Slots("equip") : Begin("unequip", "equip", src, dst)

Runs(do) == job.do = do /\ HasAllLocks

\* The end of an operation, which may read a tab before the job returns.
Return(next) ==
  /\ Release("map")
  /\ job' = next
  /\ UNCHANGED <<saving, document, db, loads, moves, loaded>>
Read(type) == [do |-> "read", type |-> type, src |-> 0, dst |-> 0]
Changed == raced' = (raced \/ saving # "no")

\* Slip: the rest that does not fit is dropped.
MergeDropsRest(s, d) ==
  LET sum == items[s].quantity + items[d].quantity
      max == SlotMax[items[s].id]
  IN IF sum > max
     THEN items' = [items EXCEPT ![d].quantity = max, ![s] = NoItem] /\ UNCHANGED removed
     ELSE /\ items' = [items EXCEPT ![d].quantity = sum, ![s] = NoItem]
          /\ removed' = removed \cup {s}

\* Slip: the limit of a stack is not looked at.
MergeUncapped(s, d) ==
  /\ items' = [items EXCEPT ![d].quantity = @ + items[s].quantity, ![s] = NoItem]
  /\ removed' = removed \cup {s}

\* Two stacks of one template: as much as fits goes to d.
Merge(s, d) ==
  LET sum == items[s].quantity + items[d].quantity
      max == SlotMax[items[s].id]
  IN IF sum > max
     THEN /\ items' = [items EXCEPT ![d].quantity = max, ![s].quantity = sum - max]
          /\ UNCHANGED removed
     ELSE /\ items' = [items EXCEPT ![d].quantity = sum, ![s] = NoItem]
          /\ removed' = removed \cup {s}

SwapItem ==
  LET s == <<job.type, job.src>>
      d == <<job.type, job.dst>>
  IN /\ Runs("swap")
     /\ \/ items[s] = NoItem /\ UNCHANGED <<items, removed>>
        \/ /\ items[s] # NoItem /\ items[d] = NoItem
           /\ items' = [items EXCEPT ![d] = items[s], ![s] = NoItem]
           /\ removed' = removed \cup {s}
        \/ /\ items[s] # NoItem /\ items[d] # NoItem /\ items[s].id # items[d].id
           /\ items' = [items EXCEPT ![d] = items[s], ![s] = items[d]]
           /\ UNCHANGED removed
        \/ items[s] # NoItem /\ items[d] # NoItem /\ items[s].id = items[d].id /\ Merge(s, d)
     /\ Changed
     /\ Return(Idle)
     /\ UNCHANGED <<used, overwritten>>

\* Slip: the slot of the last item is not put on the list.
RemoveItemForgets(p) ==
  LET left == items[p].quantity - 1 IN
  /\ items' = [items EXCEPT ![p] = IF left = 0 THEN NoItem ELSE [items[p] EXCEPT !.quantity = left]]
  /\ UNCHANGED removed

\* RemoveItem of one item.
RemoveItem(p) ==
  LET left == items[p].quantity - 1 IN
  /\ items' = [items EXCEPT ![p] = IF left = 0 THEN NoItem ELSE [items[p] EXCEPT !.quantity = left]]
  /\ removed' = IF left = 0 THEN removed \cup {p} ELSE removed

\* OnUseItem: the item is removed, then read for its effect.
UseItem ==
  LET p == <<"use", job.src>> IN
  /\ Runs("use")
  /\ \/ /\ items[p] = NoItem
        /\ Return(Idle)
        /\ UNCHANGED <<items, removed, used, raced>>
     \/ /\ items[p] # NoItem
        /\ RemoveItem(p)
        /\ used' = [used EXCEPT ![items[p].id] = @ + 1]
        /\ Changed
        /\ Return(Read("use"))
  /\ UNCHANGED overwritten

\* Equip; then ApplyEquip reads what is equipped.
Equip ==
  LET s == <<"equip", job.src>>
      d == <<"equipped", job.dst>>
  IN /\ Runs("equip")
     /\ \/ /\ items[s] = NoItem
           /\ Return(Idle)
           /\ UNCHANGED <<items, removed, raced>>
        \/ /\ items[s] # NoItem
           /\ items' = [items EXCEPT ![d] = items[s], ![s] = items[d]]
           /\ removed' = IF items[d] = NoItem THEN removed \cup {s} ELSE removed
           /\ Changed
           /\ Return(Read("equipped"))
     /\ UNCHANGED <<used, overwritten>>

\* Unequip: emplace leaves a slot that is taken as it is, and the item is erased all the
\* same.  The test for space counts what is equipped.
Unequip ==
  LET s == <<"equipped", job.src>>
      d == <<"equip", job.dst>>
  IN /\ Runs("unequip")
     /\ \/ /\ \/ items[s] = NoItem
              \/ Cardinality({p \in {"equipped"} \X Slots("equipped") : items[p] # NoItem}) >= MaxSlot
           /\ Return(Idle)
           /\ UNCHANGED <<items, removed, overwritten, raced>>
        \/ /\ items[s] # NoItem
           /\ Cardinality({p \in {"equipped"} \X Slots("equipped") : items[p] # NoItem}) < MaxSlot
           /\ items' = [items EXCEPT ![d] = IF @ = NoItem THEN items[s] ELSE @, ![s] = NoItem]
           /\ overwritten' = IF items[d] = NoItem THEN overwritten
                             ELSE [overwritten EXCEPT ![items[s].id] = @ + items[s].quantity]
           /\ removed' = removed \cup {s}
           /\ Changed
           /\ Return(Read("equipped"))
     /\ UNCHANGED used

\* GetItem, GetAllItems
ReadItems ==
  /\ Runs("read")
  /\ Return(Idle)
  /\ UNCHANGED <<items, removed, used, overwritten, raced>>
-----------------------------------------------------------------------------
(* SerializeToXml, TrySaveToDb and TryLoadFromDb on the database thread *)

\* SavePlayer, when the session has ended: once per login.
LockRemoved ==
  /\ saving = "no" /\ CanLock("db", "removed", "S")
  /\ holds' = holds \cup {<<"db", "removed", "S">>}
  /\ saving' = "read"
  /\ UNCHANGED <<items, removed, job, document, db, history>>

\* The list is read, then cleared: RemoveItem, which shares the mutex, may come between.
ReadRemoved ==
  /\ saving = "read"
  /\ xmlRemoved' = removed
  /\ saving' = "clear"
  /\ UNCHANGED <<items, removed, holds, job, xmlItems, db, history>>

ClearRemoved ==
  /\ saving = "clear"
  /\ removed' = {}
  /\ saving' = "equip"
  /\ UNCHANGED <<items, holds, job, document, db, history>>

\* Tab after tab under its mutex; that of the list is held to the end of the last.
ReadTab ==
  /\ saving \in Types /\ CanLock("db", saving, "S")
  /\ xmlItems' = [p \in Places |-> IF p[1] = saving THEN items[p] ELSE xmlItems[p]]
  /\ saving' = AfterTab[saving]
  /\ IF saving = "equipped" THEN Release("db") ELSE UNCHANGED holds
  /\ UNCHANGED <<items, removed, job, xmlRemoved, db, history>>

\* spSaveItemsXml succeeds or fails.
Store ==
  /\ saving = "store"
  /\ \/ /\ saving' = "saved"
        /\ db' = [p \in Places |-> CASE xmlItems[p] # NoItem -> xmlItems[p]
                                     [] xmlItems[p] = NoItem /\ p \in xmlRemoved -> NoItem
                                     [] OTHER -> db[p]]
     \/ saving' = "failed" /\ UNCHANGED db
  /\ UNCHANGED <<items, removed, holds, job, document, history>>

\* The character logs in again, with a Player object of its own.  What is left to do for
\* the old one changes nothing any more.
TryLoadFromDb ==
  /\ saving \in {"saved", "failed"} /\ job = Idle /\ loads < MaxLoads
  /\ loads' = loads + 1
  /\ items' = db /\ removed' = {}
  /\ saving' = "no" /\ xmlRemoved' = {} /\ xmlItems' = Empty
  /\ loaded' = [i \in Templates |-> Count(db, i)]
  /\ used' = None /\ overwritten' = None /\ raced' = FALSE
  /\ UNCHANGED <<holds, job, db, moves>>

Next ==
  \/ Moves \/ Lock
  \/ SwapItem \/ UseItem \/ Equip \/ Unequip \/ ReadItems
  \/ LockRemoved \/ ReadRemoved \/ ClearRemoved \/ ReadTab \/ Store
  \/ TryLoadFromDb

Spec == Init /\ [][Next]_vars
-----------------------------------------------------------------------------
(* Properties *)

\* A save that succeeds leaves the database with exactly the inventory, after any moves,
\* uses, emptied slots that were filled again and earlier logins: the list of removed slots
\* and the items written are enough.  The exception is an operation of the map that runs
\* after the save began: it may double an item in the database, or lose it.
SavedAsIs == saving = "saved" /\ ~ raced => db = items

\* No operation makes an item or loses one, but for using it and for Unequip, which drops
\* the item when its new slot is taken.
ItemsKept ==
  \A i \in Templates : Count(items, i) + used[i] + overwritten[i] = loaded[i]

DbWaits == saving \in Types /\ ~ CanLock("db", saving, "S")
MapWaits ==
  /\ job # Idle /\ ~ HasAllLocks
  /\ LET want == LocksOf(job)[Held + 1] IN ~ CanLock("map", want[1], want[2])

\* The two threads wait for each other, for good, only when SerializeToXml, which has the
\* mutex of the list and wants a tab, meets SwapItem, Equip or Unequip, which have the tab
\* and want the list; never when it meets RemoveItem or a reader.
WaitsExplained == DbWaits /\ MapWaits => job.do \in {"swap", "equip", "unequip"}

=============================================================================
