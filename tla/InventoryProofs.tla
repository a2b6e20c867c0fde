---------------------------- MODULE InventoryProofs ----------------------------
(***************************************************************************)
(* Proofs about Inventory, for any templates, slots and first inventory,    *)
(* and any number of operations and logins.                                 *)
(***************************************************************************)
EXTENDS Inventory, FiniteSetTheorems, TLAPS

\* The operations the client can ask for, with slots that are in range.
JobOK ==
  \/ job = Idle
  \/ /\ job.do = "swap" /\ job.type \in Types \ {"equipped"}
     /\ job.src \in Slots(job.type) /\ job.dst \in Slots(job.type) /\ job.src # job.dst
  \/ job.do = "use" /\ job.type = "use" /\ job.src \in Slots("use")
  \/ /\ job.do = "equip" /\ job.type = "equip"
     /\ job.src \in Slots("equip") /\ job.dst \in Slots("equipped")
  \/ /\ job.do = "unequip" /\ job.type = "equip"
     /\ job.src \in Slots("equipped") /\ job.dst \in Slots("equip")
  \/ job.do = "read" /\ job.type \in Types

\* The first mutexes of an operation.
FirstLocks(j, k) == {<<"map", LocksOf(j)[n][1], LocksOf(j)[n][2]>> : n \in 1 .. k}
MapHolds == {h \in holds : h[1] = "map"}

\* The map's thread has the first mutexes of its operation; the database thread has at most
\* the one of the list, shared.
LocksOK ==
  /\ job = Idle => MapHolds = {}
  /\ \A j \in {job} \ {Idle} : \E k \in 0 .. Len(LocksOf(j)) : MapHolds = FirstLocks(j, k)
  /\ \A h \in holds : h[1] # "map" => h = <<"db", "removed", "S">>

\* The slots that were emptied since the rows were read or written.
Emptied == {p \in Places : items[p] = NoItem /\ db[p] # NoItem}

\* The tabs that are in the document.
TabsRead == [equip |-> {}, use |-> {"equip"}, etc |-> {"equip", "use"},
             equipped |-> {"equip", "use", "etc"}, store |-> Types]

\* How far the document is the inventory, unless an operation runs after it was begun.
SaveOK ==
  ~ raced =>
    /\ saving \in {"no", "read"} => Emptied \subseteq removed
    /\ saving \in {"clear", "store"} \cup Types => Emptied \subseteq xmlRemoved
    /\ saving \in Types \cup {"store"} =>
         \A p \in Places : p[1] \in TabsRead[saving] => xmlItems[p] = items[p]
    /\ saving = "saved" => db = items

IInv == TypeOK /\ JobOK /\ LocksOK /\ SaveOK /\ ItemsKept
-----------------------------------------------------------------------------
(* Places and items *)

\* The places of the inventory are the slots of its tabs.
LEMMA PlaceOf ==
  /\ \A type, x : <<type, x>> \in Places <=> type \in Types /\ x \in Slots(type)
  /\ \A p \in Places : p[1] \in Types /\ p[2] \in Slots(p[1]) /\ p = <<p[1], p[2]>>
BY DEF Places

\* Slots are numbers.
LEMMA SlotsAreNumbers ==
  ASSUME NEW type \in Types
  PROVE  Slots(type) \subseteq Nat /\ IsFiniteSet(Slots(type))
<1>1. MaxSlot \in Nat /\ MinEquipSlot \in Nat /\ MaxEquipSlot \in Nat
  BY InventoryAssumption
<1>2. IsFiniteSet(0 .. MaxSlot - 1) /\ IsFiniteSet(MinEquipSlot .. MaxEquipSlot - 1)
  BY <1>1, FS_Interval
<1> QED BY <1>1, <1>2 DEF Slots

\* There are finitely many places.
LEMMA PlacesAreFinite == IsFiniteSet(Places)
<1>1. \A type \in Types : IsFiniteSet({type} \X Slots(type))
  BY SlotsAreNumbers, FS_Singleton, FS_Product
<1>2. /\ IsFiniteSet({"equip"} \X Slots("equip")) /\ IsFiniteSet({"use"} \X Slots("use"))
      /\ IsFiniteSet({"etc"} \X Slots("etc")) /\ IsFiniteSet({"equipped"} \X Slots("equipped"))
  BY <1>1 DEF Types
<1>3. Places = ({"equip"} \X Slots("equip") \cup {"use"} \X Slots("use"))
               \cup ({"etc"} \X Slots("etc") \cup {"equipped"} \X Slots("equipped"))
  BY DEF Places, Types
<1>4. /\ IsFiniteSet({"equip"} \X Slots("equip") \cup {"use"} \X Slots("use"))
      /\ IsFiniteSet({"etc"} \X Slots("etc") \cup {"equipped"} \X Slots("equipped"))
  BY <1>2, FS_Union
<1> QED BY <1>3, <1>4, FS_Union

\* An item has a template, and a quantity that its stack allows.
LEMMA ItemHas ==
  ASSUME NEW x \in Item
  PROVE  /\ x # NoItem /\ x.id \in Templates /\ SlotMax[x.id] \in Nat
         /\ x.quantity \in 1 .. SlotMax[x.id]
         /\ \A n \in 1 .. SlotMax[x.id] :
              /\ [x EXCEPT !.quantity = n] \in Item
              /\ [x EXCEPT !.quantity = n].id = x.id /\ [x EXCEPT !.quantity = n].quantity = n
<1>1. SlotMax \in [Templates -> Nat \ {0}] /\ NoItem \notin Item
  BY InventoryAssumption
<1>2. PICK i \in Templates : x \in [id : {i}, quantity : 1 .. SlotMax[i]]
  BY DEF Item
<1>3. x.id = i /\ x.quantity \in 1 .. SlotMax[i]
  BY <1>2
<1>4. ASSUME NEW n \in 1 .. SlotMax[i]
      PROVE  /\ [x EXCEPT !.quantity = n] \in [id : {i}, quantity : 1 .. SlotMax[i]]
             /\ [x EXCEPT !.quantity = n].id = i /\ [x EXCEPT !.quantity = n].quantity = n
  BY <1>2
<1>5. \A n \in 1 .. SlotMax[i] : [x EXCEPT !.quantity = n] \in Item
  BY <1>4 DEF Item
<1> QED BY <1>1, <1>3, <1>4, <1>5

\* The quantities of a place.
LEMMA QuantityIsNat ==
  ASSUME NEW rows \in Rows, NEW p \in Places, NEW i
  PROVE  Quantity(rows, p, i) \in Nat
<1>1. rows[p] \in Item \cup {NoItem}
  BY DEF Rows
<1>2. rows[p] # NoItem => rows[p].quantity \in Nat
  BY <1>1, ItemHas
<1> QED BY <1>2 DEF Quantity
-----------------------------------------------------------------------------
(* Counting items *)

\* A stack counts as many single items as its quantity.
LEMMA StackSize ==
  ASSUME NEW p, NEW n \in Nat
  PROVE  IsFiniteSet({p} \X (1 .. n)) /\ Cardinality({p} \X (1 .. n)) = n
<1>1. IsFiniteSet(1 .. n) /\ Cardinality(1 .. n) = n
  BY FS_Interval
<1>2. IsFiniteSet({p}) /\ Cardinality({p}) = 1
  BY FS_Singleton
<1>3. /\ IsFiniteSet({p} \X (1 .. n))
      /\ Cardinality({p} \X (1 .. n)) = Cardinality({p}) * Cardinality(1 .. n)
  BY <1>1, <1>2, FS_Product
<1> QED BY <1>1, <1>2, <1>3

\* There are finitely many items.
LEMMA SingleItemsAreFinite ==
  ASSUME NEW rows \in Rows, NEW places \in SUBSET Places, NEW i \in Templates
  PROVE  IsFiniteSet(SingleItems(rows, places, i))
<1> DEFINE all == Places \X (1 .. SlotMax[i])
<1>1. SlotMax[i] \in Nat
  BY InventoryAssumption
<1>2. IsFiniteSet(all)
  <2>1. IsFiniteSet(1 .. SlotMax[i])
    BY <1>1, FS_Interval
  <2> QED BY <2>1, PlacesAreFinite, FS_Product
<1>3. ASSUME NEW p \in places, NEW n \in 1 .. Quantity(rows, p, i) PROVE <<p, n>> \in all
  <2>1. rows[p] \in Item \cup {NoItem}
    BY DEF Rows
  <2>2. Quantity(rows, p, i) # 0 => rows[p] \in Item /\ rows[p].id = i
    BY <2>1 DEF Quantity
  <2>3. Quantity(rows, p, i) \in 0 .. SlotMax[i]
    <3>1. CASE rows[p] # NoItem /\ rows[p].id = i
      <4>1. rows[p] \in Item
        BY <2>1, <3>1
      <4> QED BY <4>1, <3>1, ItemHas, <1>1 DEF Quantity
    <3>2. CASE ~ (rows[p] # NoItem /\ rows[p].id = i)
      BY <3>2, <1>1 DEF Quantity
    <3> QED BY <3>1, <3>2
  <2> QED BY <2>3, <1>1
<1>4. SingleItems(rows, places, i) \subseteq all
  <2> HIDE DEF all
  <2> QED BY <1>3 DEF SingleItems
<1> QED BY <1>2, <1>4, FS_Subset

\* The items of a template are those of one place and those of the others.
LEMMA CountSplits ==
  ASSUME NEW rows \in Rows, NEW p \in Places, NEW i \in Templates
  PROVE  /\ Count(rows, i) \in Nat
         /\ Cardinality(SingleItems(rows, Places \ {p}, i)) \in Nat
         /\ Count(rows, i) = Cardinality(SingleItems(rows, Places \ {p}, i)) + Quantity(rows, p, i)
<1> DEFINE others == SingleItems(rows, Places \ {p}, i)
           this == {p} \X (1 .. Quantity(rows, p, i))
<1>1. IsFiniteSet(this) /\ Cardinality(this) = Quantity(rows, p, i) /\ Quantity(rows, p, i) \in Nat
  BY QuantityIsNat, StackSize
<1>2. IsFiniteSet(others) /\ Cardinality(others) \in Nat
  BY SingleItemsAreFinite, FS_CardinalityType
<1>3. SingleItems(rows, Places, i) = others \cup this
  BY DEF SingleItems
<1>4. others \cap this = {}
  BY DEF SingleItems
<1> HIDE DEF others, this
<1>5. Cardinality(others \cup this) = Cardinality(others) + Cardinality(this) - 0
  BY <1>1, <1>2, <1>4, FS_Union, FS_EmptySet
<1>6. Count(rows, i) = Cardinality(others) + Quantity(rows, p, i)
  BY <1>1, <1>2, <1>3, <1>5 DEF Count
<1> QED BY <1>1, <1>2, <1>6 DEF others

\* The count changes with one place.
LEMMA OneChanged ==
  ASSUME NEW rows \in Rows, NEW rows2 \in Rows, NEW p \in Places, NEW i \in Templates,
         \A q \in Places \ {p} : rows2[q] = rows[q]
  PROVE  /\ Count(rows, i) \in Nat /\ Count(rows2, i) \in Nat
         /\ Count(rows2, i) + Quantity(rows, p, i) = Count(rows, i) + Quantity(rows2, p, i)
<1>1. SingleItems(rows, Places \ {p}, i) = SingleItems(rows2, Places \ {p}, i)
  <2>1. \A q \in Places \ {p} : Quantity(rows, q, i) = Quantity(rows2, q, i)
    BY DEF Quantity
  <2> QED BY <2>1 DEF SingleItems
<1>2. Quantity(rows, p, i) \in Nat /\ Quantity(rows2, p, i) \in Nat
  BY QuantityIsNat
<1> QED BY <1>1, <1>2, CountSplits

\* The count changes with two places.
LEMMA TwoChanged ==
  ASSUME NEW rows \in Rows, NEW rows2 \in Rows, NEW i \in Templates,
         NEW s \in Places, NEW d \in Places, s # d,
         \A q \in Places \ {s, d} : rows2[q] = rows[q]
  PROVE  /\ Count(rows, i) \in Nat /\ Count(rows2, i) \in Nat
         /\ Count(rows2, i) + Quantity(rows, s, i) + Quantity(rows, d, i)
              = Count(rows, i) + Quantity(rows2, s, i) + Quantity(rows2, d, i)
<1> DEFINE mid == [rows EXCEPT ![s] = rows2[s]]
<1>1. mid \in Rows /\ mid[s] = rows2[s] /\ mid[d] = rows[d]
  BY DEF Rows
<1>2. (\A q \in Places \ {s} : mid[q] = rows[q]) /\ (\A q \in Places \ {d} : rows2[q] = mid[q])
  BY DEF Rows
<1> HIDE DEF mid
<1>3. Quantity(mid, s, i) = Quantity(rows2, s, i) /\ Quantity(mid, d, i) = Quantity(rows, d, i)
  BY <1>1 DEF Quantity
<1>4. /\ Count(rows, i) \in Nat /\ Count(mid, i) \in Nat
      /\ Count(mid, i) + Quantity(rows, s, i) = Count(rows, i) + Quantity(mid, s, i)
  BY <1>1, <1>2, OneChanged
<1>5. /\ Count(rows2, i) \in Nat
      /\ Count(rows2, i) + Quantity(mid, d, i) = Count(mid, i) + Quantity(rows2, d, i)
  BY <1>1, <1>2, OneChanged
<1>6. /\ Quantity(rows, s, i) \in Nat /\ Quantity(rows, d, i) \in Nat
      /\ Quantity(rows2, s, i) \in Nat /\ Quantity(rows2, d, i) \in Nat
  BY QuantityIsNat
<1> QED BY <1>3, <1>4, <1>5, <1>6
-----------------------------------------------------------------------------
(* What the operations do to the items *)

\* An operation changes items into items, lists the slots it empties, and makes or loses
\* nothing but what is used or overwritten.
Effect ==
  /\ items' \in Rows /\ removed' \subseteq Places /\ removed \subseteq removed'
  /\ \A p \in Places : items'[p] = NoItem => items[p] = NoItem \/ p \in removed'
  /\ used' \in [Templates -> Nat] /\ overwritten' \in [Templates -> Nat]
  /\ \A i \in Templates : Count(items', i) + used'[i] + overwritten'[i]
                            = Count(items, i) + used[i] + overwritten[i]

\* An operation that finds nothing to do has no effect.
LEMMA NoEffect ==
  ASSUME TypeOK, UNCHANGED <<items, removed, used, overwritten>>
  PROVE  Effect
BY DEF Effect, TypeOK

\* Two places are changed, and the items in them stay the same.
LEMMA TwoPlaces ==
  ASSUME TypeOK, NEW s \in Places, NEW d \in Places, s # d,
         NEW a \in Item \cup {NoItem}, NEW b \in Item \cup {NoItem},
         items' = [items EXCEPT ![d] = b, ![s] = a],
         removed' = removed \/ removed' = removed \cup {s},
         a = NoItem /\ items[s] # NoItem => s \in removed',
         b = NoItem => items[d] = NoItem,
         UNCHANGED used, overwritten' \in [Templates -> Nat],
         \A i \in Templates :
           Quantity(items, s, i) + Quantity(items, d, i) + overwritten[i]
             = Quantity(items', s, i) + Quantity(items', d, i) + overwritten'[i]
  PROVE  Effect
<1>1. items \in Rows /\ removed \subseteq Places /\ used \in [Templates -> Nat]
      /\ overwritten \in [Templates -> Nat]
  BY DEF TypeOK
<1>2. items' \in Rows /\ items'[s] = a /\ items'[d] = b
      /\ \A p \in Places \ {s, d} : items'[p] = items[p]
  BY <1>1 DEF Rows
<1>3. \A p \in Places : items'[p] = NoItem => items[p] = NoItem \/ p \in removed'
  BY <1>2
<1>4. removed' \subseteq Places /\ removed \subseteq removed'
  BY <1>1
<1>5. ASSUME NEW i \in Templates
      PROVE  Count(items', i) + used'[i] + overwritten'[i]
               = Count(items, i) + used[i] + overwritten[i]
  <2>1. /\ Count(items, i) \in Nat /\ Count(items', i) \in Nat
        /\ Count(items', i) + Quantity(items, s, i) + Quantity(items, d, i)
             = Count(items, i) + Quantity(items', s, i) + Quantity(items', d, i)
    <3>1. \A p \in Places \ {s, d} : items'[p] = items[p]
      BY <1>2
    <3>2. items' \in Rows /\ items \in Rows
      BY <1>1, <1>2
    <3>3. ASSUME NEW new \in Rows, \A p \in Places \ {s, d} : new[p] = items[p]
          PROVE  /\ Count(items, i) \in Nat /\ Count(new, i) \in Nat
                 /\ Count(new, i) + Quantity(items, s, i) + Quantity(items, d, i)
                      = Count(items, i) + Quantity(new, s, i) + Quantity(new, d, i)
      BY <3>2, <3>3, TwoChanged
    <3> QED BY <3>1, <3>2, <3>3
  <2>2. /\ Quantity(items, s, i) \in Nat /\ Quantity(items, d, i) \in Nat
        /\ Quantity(items', s, i) \in Nat /\ Quantity(items', d, i) \in Nat
    BY <1>1, <1>2, QuantityIsNat
  <2>3. used[i] \in Nat /\ overwritten[i] \in Nat /\ overwritten'[i] \in Nat /\ used'[i] = used[i]
    BY <1>1
  <2>4. Quantity(items, s, i) + Quantity(items, d, i) + overwritten[i]
          = Quantity(items', s, i) + Quantity(items', d, i) + overwritten'[i]
    OBVIOUS
  <2> QED BY <2>1, <2>2, <2>3, <2>4
<1> QED BY <1>1, <1>2, <1>3, <1>4, <1>5 DEF Effect

\* SwapItem moves a stack, exchanges two, or merges them up to the limit.
LEMMA SwapEffect ==
  ASSUME TypeOK, JobOK, SwapItem
  PROVE  Effect
<1> DEFINE s == <<job.type, job.src>>
           d == <<job.type, job.dst>>
           x == items[s]
           y == items[d]
           sum == x.quantity + y.quantity
           max == SlotMax[x.id]
<1>1. s \in Places /\ d \in Places /\ s # d
  BY PlaceOf DEF SwapItem, Runs, JobOK, Idle
<1>2. items \in Rows /\ x \in Item \cup {NoItem} /\ y \in Item \cup {NoItem}
  BY <1>1 DEF TypeOK, Rows
<1>3. UNCHANGED <<used, overwritten>> /\ overwritten' \in [Templates -> Nat]
  BY DEF SwapItem, TypeOK
<1>4. \/ UNCHANGED <<items, removed>>
      \/ /\ x # NoItem /\ y = NoItem
         /\ items' = [items EXCEPT ![d] = x, ![s] = NoItem] /\ removed' = removed \cup {s}
      \/ /\ x # NoItem /\ y # NoItem
         /\ items' = [items EXCEPT ![d] = x, ![s] = y] /\ UNCHANGED removed
      \/ /\ x # NoItem /\ y # NoItem /\ x.id = y.id /\ sum > max
         /\ items' = [items EXCEPT ![d].quantity = max, ![s].quantity = sum - max]
         /\ UNCHANGED removed
      \/ /\ x # NoItem /\ y # NoItem /\ x.id = y.id /\ ~ sum > max
         /\ items' = [items EXCEPT ![d].quantity = sum, ![s] = NoItem]
         /\ removed' = removed \cup {s}
  BY DEF SwapItem, Merge
<1> HIDE DEF s, d
<1>5. CASE UNCHANGED <<items, removed>>
  BY <1>3, <1>5, NoEffect
<1>6. ASSUME NEW a \in Item \cup {NoItem}, NEW b \in Item \cup {NoItem},
             items' = [items EXCEPT ![d] = b, ![s] = a],
             removed' = removed \/ removed' = removed \cup {s},
             a = NoItem => s \in removed', b # NoItem,
             \A i \in Templates :
               Quantity(items, s, i) + Quantity(items, d, i)
                 = (IF a # NoItem /\ a.id = i THEN a.quantity ELSE 0)
                   + (IF b # NoItem /\ b.id = i THEN b.quantity ELSE 0)
      PROVE  Effect
  <2>1. items' \in Rows /\ items'[s] = a /\ items'[d] = b
    BY <1>1, <1>2, <1>6 DEF Rows
  <2>2. ASSUME NEW i \in Templates
        PROVE  Quantity(items, s, i) + Quantity(items, d, i) + overwritten[i]
                 = Quantity(items', s, i) + Quantity(items', d, i) + overwritten'[i]
    <3>1. /\ Quantity(items', s, i) = IF a # NoItem /\ a.id = i THEN a.quantity ELSE 0
          /\ Quantity(items', d, i) = IF b # NoItem /\ b.id = i THEN b.quantity ELSE 0
      BY <2>1 DEF Quantity
    <3> QED BY <3>1, <1>3, <1>6
  <2> QED BY <1>1, <1>3, <1>6, <2>2, TwoPlaces
<1>7. CASE /\ x # NoItem /\ y = NoItem
           /\ items' = [items EXCEPT ![d] = x, ![s] = NoItem] /\ removed' = removed \cup {s}
  <2>1. \A i \in Templates :
          Quantity(items, s, i) + Quantity(items, d, i)
            = (IF NoItem # NoItem /\ NoItem.id = i THEN NoItem.quantity ELSE 0)
              + (IF x # NoItem /\ x.id = i THEN x.quantity ELSE 0)
    <3>1. \A i \in Templates : Quantity(items, s, i) \in Nat
      BY <1>1, <1>2, QuantityIsNat
    <3>2. \A i \in Templates : Quantity(items, d, i) = 0
      BY <1>7 DEF Quantity
    <3> QED BY <3>1, <3>2 DEF Quantity
  <2> QED BY <1>2, <1>6, <1>7, <2>1
<1>8. CASE /\ x # NoItem /\ y # NoItem
           /\ items' = [items EXCEPT ![d] = x, ![s] = y] /\ UNCHANGED removed
  <2>1. \A i \in Templates :
          Quantity(items, s, i) + Quantity(items, d, i)
            = (IF y # NoItem /\ y.id = i THEN y.quantity ELSE 0)
              + (IF x # NoItem /\ x.id = i THEN x.quantity ELSE 0)
    <3>1. \A i \in Templates : Quantity(items, s, i) \in Nat /\ Quantity(items, d, i) \in Nat
      BY <1>1, <1>2, QuantityIsNat
    <3> QED BY <3>1 DEF Quantity
  <2> QED BY <1>2, <1>6, <1>8, <2>1
<1>9. CASE x # NoItem /\ y # NoItem /\ x.id = y.id
  <2>1. /\ x \in Item /\ y \in Item /\ max \in Nat /\ x.quantity \in 1 .. max
        /\ y.quantity \in 1 .. max /\ x.id \in Templates
    BY <1>2, <1>9, ItemHas
  <2>2. CASE /\ sum > max /\ UNCHANGED removed
             /\ items' = [items EXCEPT ![d].quantity = max, ![s].quantity = sum - max]
    <3> DEFINE a == [x EXCEPT !.quantity = sum - max]
               b == [y EXCEPT !.quantity = max]
    <3>1. sum - max \in 1 .. max /\ max \in 1 .. max /\ sum - max + max = x.quantity + y.quantity
      BY <2>1, <2>2
    <3>2. /\ a \in Item /\ a.id = x.id /\ a.quantity = sum - max
          /\ b \in Item /\ b.id = x.id /\ b.quantity = max
      BY <2>1, <3>1, <1>9, ItemHas
    <3>3. items' = [items EXCEPT ![d] = b, ![s] = a]
      BY <1>1, <1>2, <2>2 DEF Rows
    <3> HIDE DEF a, b
    <3>4. ASSUME NEW i \in Templates
          PROVE  Quantity(items, s, i) + Quantity(items, d, i)
                   = (IF a # NoItem /\ a.id = i THEN a.quantity ELSE 0)
                     + (IF b # NoItem /\ b.id = i THEN b.quantity ELSE 0)
      <4>1. a # NoItem /\ b # NoItem
        BY <3>2, ItemHas
      <4> QED BY <4>1, <3>1, <3>2, <1>9 DEF Quantity
    <3>5. a # NoItem /\ b # NoItem
      BY <3>2, ItemHas
    <3> QED BY <3>2, <3>3, <3>4, <3>5, <2>2, <1>6
  <2>3. CASE /\ ~ sum > max /\ removed' = removed \cup {s}
             /\ items' = [items EXCEPT ![d].quantity = sum, ![s] = NoItem]
    <3> DEFINE b == [y EXCEPT !.quantity = sum]
    <3>1. sum \in 1 .. max
      BY <2>1, <2>3
    <3>2. b \in Item /\ b.id = x.id /\ b.quantity = sum
      BY <2>1, <3>1, <1>9, ItemHas
    <3>3. items' = [items EXCEPT ![d] = b, ![s] = NoItem]
      BY <1>1, <1>2, <2>3 DEF Rows
    <3> HIDE DEF b
    <3>4. ASSUME NEW i \in Templates
          PROVE  Quantity(items, s, i) + Quantity(items, d, i)
                   = (IF NoItem # NoItem /\ NoItem.id = i THEN NoItem.quantity ELSE 0)
                     + (IF b # NoItem /\ b.id = i THEN b.quantity ELSE 0)
      <4>1. b # NoItem
        BY <3>2, ItemHas
      <4> QED BY <4>1, <3>1, <3>2, <2>1, <1>9 DEF Quantity
    <3>5. b # NoItem /\ s \in removed'
      BY <3>2, <2>3, ItemHas
    <3> QED BY <3>2, <3>3, <3>4, <3>5, <2>3, <1>6
  <2> QED BY <2>2, <2>3, <1>4, <1>5, <1>8, <1>9
<1> QED BY <1>4, <1>5, <1>7, <1>8, <1>9

\* UseItem takes one item of a stack.
LEMMA UseEffect ==
  ASSUME TypeOK, JobOK, UseItem
  PROVE  Effect
<1> DEFINE p == <<"use", job.src>>
           x == items[p]
           y == IF x.quantity = 1 THEN NoItem ELSE [x EXCEPT !.quantity = x.quantity - 1]
<1>1. p \in Places
  BY PlaceOf DEF UseItem, Runs, JobOK, Idle, Types
<1>2. items \in Rows /\ x \in Item \cup {NoItem} /\ removed \subseteq Places
      /\ used \in [Templates -> Nat] /\ overwritten \in [Templates -> Nat]
  BY <1>1 DEF TypeOK, Rows
<1>3. \/ UNCHANGED <<items, removed, used, overwritten>>
      \/ /\ x # NoItem /\ items' = [items EXCEPT ![p] = y]
         /\ removed' = IF x.quantity = 1 THEN removed \cup {p} ELSE removed
         /\ used' = [used EXCEPT ![x.id] = used[x.id] + 1] /\ UNCHANGED overwritten
  <2>1. x # NoItem => x.id \in Templates /\ x.quantity \in Nat
    BY <1>2, ItemHas
  <2>2. x # NoItem => [used EXCEPT ![x.id] = @ + 1] = [used EXCEPT ![x.id] = used[x.id] + 1]
    BY <2>1, <1>2
  <2>3. x # NoItem => (x.quantity - 1 = 0 <=> x.quantity = 1)
    BY <2>1
  <2>4. \/ UNCHANGED <<items, removed, used, overwritten>>
        \/ /\ x # NoItem
           /\ items' = [items EXCEPT ![p] = IF x.quantity - 1 = 0 THEN NoItem
                                            ELSE [x EXCEPT !.quantity = x.quantity - 1]]
           /\ removed' = IF x.quantity - 1 = 0 THEN removed \cup {p} ELSE removed
           /\ used' = [used EXCEPT ![x.id] = @ + 1] /\ UNCHANGED overwritten
    BY DEF UseItem, RemoveItem
  <2> HIDE DEF p, x
  <2> QED BY <2>2, <2>3, <2>4
<1> HIDE DEF p
<1>4. CASE UNCHANGED <<items, removed, used, overwritten>>
  BY <1>4, NoEffect
<1>5. CASE /\ x # NoItem /\ items' = [items EXCEPT ![p] = y]
           /\ removed' = IF x.quantity = 1 THEN removed \cup {p} ELSE removed
           /\ used' = [used EXCEPT ![x.id] = used[x.id] + 1] /\ UNCHANGED overwritten
  <2>1. /\ x \in Item /\ x.id \in Templates /\ SlotMax[x.id] \in Nat
        /\ x.quantity \in 1 .. SlotMax[x.id]
    BY <1>2, <1>5, ItemHas
  <2>2. x.quantity # 1 => x.quantity - 1 \in 1 .. SlotMax[x.id]
    BY <2>1
  <2>3. x.quantity # 1 =>
          y \in Item /\ y # NoItem /\ y.id = x.id /\ y.quantity = x.quantity - 1
    BY <2>1, <2>2, ItemHas
  <2>4. y \in Item \cup {NoItem}
    BY <2>3
  <2>5. items' \in Rows /\ items'[p] = y /\ \A q \in Places \ {p} : items'[q] = items[q]
    <3> HIDE DEF y
    <3> QED BY <1>1, <1>2, <1>5, <2>4 DEF Rows
  <2>6. \A q \in Places : items'[q] = NoItem => items[q] = NoItem \/ q \in removed'
    BY <1>5, <2>3, <2>5
  <2>7. removed' \subseteq Places /\ removed \subseteq removed'
        /\ used' \in [Templates -> Nat] /\ overwritten' \in [Templates -> Nat]
    BY <1>1, <1>2, <1>5, <2>1
  <2>8. ASSUME NEW i \in Templates
        PROVE  Count(items', i) + used'[i] + overwritten'[i]
                 = Count(items, i) + used[i] + overwritten[i]
    <3>1. ASSUME NEW new \in Rows, \A q \in Places \ {p} : new[q] = items[q]
          PROVE  /\ Count(items, i) \in Nat /\ Count(new, i) \in Nat
                 /\ Count(new, i) + Quantity(items, p, i) = Count(items, i) + Quantity(new, p, i)
      BY <1>1, <1>2, <3>1, OneChanged
    <3>2. /\ Count(items, i) \in Nat /\ Count(items', i) \in Nat
          /\ Count(items', i) + Quantity(items, p, i) = Count(items, i) + Quantity(items', p, i)
      <4>1. \A q \in Places \ {p} : items'[q] = items[q]
        BY <2>5
      <4> QED BY <2>5, <4>1, <3>1
    <3>3. /\ Quantity(items, p, i) \in Nat
          /\ Quantity(items', p, i) = Quantity(items, p, i) - (IF i = x.id THEN 1 ELSE 0)
      <4>1. Quantity(items, p, i) = IF i = x.id THEN x.quantity ELSE 0
        BY <1>5 DEF Quantity
      <4>2. Quantity(items', p, i) = IF y # NoItem /\ y.id = i THEN y.quantity ELSE 0
        BY <2>5 DEF Quantity
      <4>3. CASE x.quantity = 1
        BY <4>1, <4>2, <4>3
      <4>4. CASE x.quantity # 1
        <5> HIDE DEF y
        <5> QED BY <4>1, <4>2, <4>4, <2>1, <2>3
      <4> QED BY <4>3, <4>4
    <3>4. used'[i] = used[i] + (IF i = x.id THEN 1 ELSE 0) /\ used[i] \in Nat
      BY <1>2, <1>5, <2>1
    <3>5. overwritten'[i] = overwritten[i] /\ overwritten[i] \in Nat
      BY <1>2, <1>5
    <3> HIDE DEF x, y
    <3> QED BY <3>2, <3>3, <3>4, <3>5
  <2> QED BY <2>5, <2>6, <2>7, <2>8 DEF Effect
<1> QED BY <1>3, <1>4, <1>5

\* Equip exchanges an item with what is worn.
LEMMA EquipEffect ==
  ASSUME TypeOK, JobOK, Equip
  PROVE  Effect
<1> DEFINE s == <<"equip", job.src>>
           d == <<"equipped", job.dst>>
           x == items[s]
           y == items[d]
<1>1. s \in Places /\ d \in Places /\ s # d
  BY PlaceOf DEF Equip, Runs, JobOK, Idle, Types
<1>2. items \in Rows /\ x \in Item \cup {NoItem} /\ y \in Item \cup {NoItem}
  BY <1>1 DEF TypeOK, Rows
<1>3. UNCHANGED <<used, overwritten>> /\ overwritten' \in [Templates -> Nat]
  BY DEF Equip, TypeOK
<1>4. \/ UNCHANGED <<items, removed>>
      \/ /\ x # NoItem /\ items' = [items EXCEPT ![d] = x, ![s] = y]
         /\ removed' = IF y = NoItem THEN removed \cup {s} ELSE removed
  BY DEF Equip
<1> HIDE DEF s, d
<1>5. CASE UNCHANGED <<items, removed>>
  BY <1>3, <1>5, NoEffect
<1>6. CASE /\ x # NoItem /\ items' = [items EXCEPT ![d] = x, ![s] = y]
           /\ removed' = IF y = NoItem THEN removed \cup {s} ELSE removed
  <2>1. items'[s] = y /\ items'[d] = x
    BY <1>1, <1>2, <1>6 DEF Rows
  <2>2. ASSUME NEW i \in Templates
        PROVE  Quantity(items, s, i) + Quantity(items, d, i) + overwritten[i]
                 = Quantity(items', s, i) + Quantity(items', d, i) + overwritten'[i]
    <3>1. Quantity(items', s, i) = Quantity(items, d, i)
          /\ Quantity(items', d, i) = Quantity(items, s, i)
      BY <2>1 DEF Quantity
    <3>2. Quantity(items, s, i) \in Nat /\ Quantity(items, d, i) \in Nat
      BY <1>1, <1>2, QuantityIsNat
    <3> QED BY <3>1, <3>2, <1>3
  <2>3. removed' = removed \/ removed' = removed \cup {s}
    BY <1>6
  <2>4. (y = NoItem /\ x # NoItem => s \in removed') /\ (x = NoItem => y = NoItem)
    BY <1>6
  <2> QED BY <1>1, <1>2, <1>3, <1>6, <2>2, <2>3, <2>4, TwoPlaces
<1> QED BY <1>4, <1>5, <1>6

\* Unequip moves what is worn, or drops it.
LEMMA UnequipEffect ==
  ASSUME TypeOK, JobOK, Unequip
  PROVE  Effect
<1> DEFINE s == <<"equipped", job.src>>
           d == <<"equip", job.dst>>
           x == items[s]
           y == items[d]
           b == IF y = NoItem THEN x ELSE y
<1>1. s \in Places /\ d \in Places /\ s # d
  BY PlaceOf DEF Unequip, Runs, JobOK, Idle, Types
<1>2. items \in Rows /\ x \in Item \cup {NoItem} /\ y \in Item \cup {NoItem}
      /\ overwritten \in [Templates -> Nat]
  BY <1>1 DEF TypeOK, Rows
<1>3. UNCHANGED used
  BY DEF Unequip
<1>4. \/ UNCHANGED <<items, removed, overwritten>>
      \/ /\ x # NoItem
         /\ items' = [items EXCEPT ![d] = b, ![s] = NoItem]
         /\ overwritten' = IF y = NoItem THEN overwritten
                           ELSE [overwritten EXCEPT ![x.id] = overwritten[x.id] + x.quantity]
         /\ removed' = removed \cup {s}
  <2>1. Unequip => \/ UNCHANGED <<items, removed, overwritten>>
                   \/ /\ x # NoItem
                      /\ items' = [items EXCEPT ![d] = IF @ = NoItem THEN x ELSE @, ![s] = NoItem]
                      /\ overwritten' = IF y = NoItem THEN overwritten
                                        ELSE [overwritten EXCEPT ![x.id] = @ + x.quantity]
                      /\ removed' = removed \cup {s}
    BY DEF Unequip
  <2>2. [items EXCEPT ![d] = IF @ = NoItem THEN x ELSE @, ![s] = NoItem]
          = [items EXCEPT ![d] = b, ![s] = NoItem]
    BY <1>1, <1>2 DEF Rows
  <2>3. x # NoItem => x.id \in Templates
    BY <1>2, ItemHas
  <2>4. x # NoItem => [overwritten EXCEPT ![x.id] = @ + x.quantity]
                        = [overwritten EXCEPT ![x.id] = overwritten[x.id] + x.quantity]
    BY <2>3, <1>2
  <2> HIDE DEF s, d, b
  <2> QED BY <2>1, <2>2, <2>4
<1> HIDE DEF s, d
<1>5. CASE UNCHANGED <<items, removed, overwritten>>
  BY <1>3, <1>5, NoEffect
<1>6. CASE /\ x # NoItem
           /\ items' = [items EXCEPT ![d] = b, ![s] = NoItem]
           /\ overwritten' = IF y = NoItem THEN overwritten
                             ELSE [overwritten EXCEPT ![x.id] = overwritten[x.id] + x.quantity]
           /\ removed' = removed \cup {s}
  <2>1. x \in Item /\ x.id \in Templates /\ x.quantity \in Nat
    BY <1>2, <1>6, ItemHas
  <2>2. b \in Item \cup {NoItem} /\ b # NoItem
    BY <1>2, <1>6
  <2>3. items'[s] = NoItem /\ items'[d] = b
    <3> HIDE DEF b
    <3> QED BY <1>1, <1>2, <1>6 DEF Rows
  <2>4. overwritten' \in [Templates -> Nat]
    BY <1>2, <1>6, <2>1
  <2>5. ASSUME NEW i \in Templates
        PROVE  Quantity(items, s, i) + Quantity(items, d, i) + overwritten[i]
                 = Quantity(items', s, i) + Quantity(items', d, i) + overwritten'[i]
    <3>1. Quantity(items', s, i) = 0
      BY <2>3 DEF Quantity
    <3>2. Quantity(items, s, i) \in Nat /\ Quantity(items, d, i) \in Nat /\ overwritten[i] \in Nat
      BY <1>1, <1>2, QuantityIsNat
    <3>3. CASE y = NoItem
      <4>1. Quantity(items, d, i) = 0 /\ Quantity(items', d, i) = Quantity(items, s, i)
        BY <2>3, <3>3 DEF Quantity
      <4> QED BY <3>1, <3>2, <3>3, <4>1, <1>6
    <3>4. CASE y # NoItem
      <4>1. Quantity(items', d, i) = Quantity(items, d, i)
        BY <2>3, <3>4 DEF Quantity
      <4>2. Quantity(items, s, i) = IF i = x.id THEN x.quantity ELSE 0
        BY <1>6 DEF Quantity
      <4>3. overwritten'[i] = overwritten[i] + (IF i = x.id THEN x.quantity ELSE 0)
        BY <1>2, <1>6, <3>4, <2>1
      <4> HIDE DEF x, y, b
      <4> QED BY <3>1, <3>2, <4>1, <4>2, <4>3, <2>1
    <3> QED BY <3>3, <3>4
  <2> HIDE DEF b
  <2> QED BY <1>1, <1>3, <1>6, <2>2, <2>4, <2>5, TwoPlaces
<1> QED BY <1>4, <1>5, <1>6
-----------------------------------------------------------------------------
(* The mutexes *)

\* The mutexes of each operation.
LEMMA LocksTable ==
  ASSUME NEW j
  PROVE  /\ j.do = "swap" => LocksOf(j) = <<<<j.type, "X">>, <<"removed", "X">>>>
         /\ j.do = "use" =>
              LocksOf(j) = IF TakesLast(j) THEN <<<<"use", "X">>, <<"removed", "S">>>>
                           ELSE <<<<"use", "X">>>>
         /\ j.do \in {"equip", "unequip"} =>
              LocksOf(j) = <<<<"equip", "X">>, <<"equipped", "X">>, <<"removed", "X">>>>
         /\ j.do = "read" => LocksOf(j) = <<<<j.type, "S">>>>
<1>1. j.do = "swap" => LocksOf(j) = <<<<j.type, "X">>, <<"removed", "X">>>>
  BY DEF LocksOf
<1>2. j.do = "use" => LocksOf(j) = IF TakesLast(j) THEN <<<<"use", "X">>, <<"removed", "S">>>>
                                   ELSE <<<<"use", "X">>>>
  BY DEF LocksOf
<1>3. j.do \in {"equip", "unequip"} =>
        LocksOf(j) = <<<<"equip", "X">>, <<"equipped", "X">>, <<"removed", "X">>>>
  BY DEF LocksOf
<1>4. j.do = "read" => LocksOf(j) = <<<<j.type, "S">>>>
  BY DEF LocksOf
<1> QED BY <1>1, <1>2, <1>3, <1>4

\* An operation takes at most three, and each of them once.
LEMMA LocksDiffer ==
  ASSUME JobOK, job # Idle
  PROVE  /\ Len(LocksOf(job)) \in 1 .. 3
         /\ \A n \in 1 .. Len(LocksOf(job)) :
              LocksOf(job)[n] \in (Types \cup {"removed"}) \X {"S", "X"}
         /\ \A m, n \in 1 .. Len(LocksOf(job)) :
              LocksOf(job)[m][1] = LocksOf(job)[n][1] => m = n
<1> DEFINE L == LocksOf(job)
           Goal == /\ Len(L) \in 1 .. 3
                   /\ \A n \in 1 .. Len(L) : L[n] \in (Types \cup {"removed"}) \X {"S", "X"}
                   /\ \A m, n \in 1 .. Len(L) : L[m][1] = L[n][1] => m = n
<1>1. ASSUME NEW a \in Types, NEW b \in {"S", "X"}, L = <<<<a, "X">>, <<"removed", b>>>> PROVE Goal
  BY <1>1 DEF Types
<1>2. ASSUME NEW a \in Types, NEW b \in {"S", "X"}, L = <<<<a, b>>>> PROVE Goal
  BY <1>2 DEF Types
<1>3. ASSUME L = <<<<"equip", "X">>, <<"equipped", "X">>, <<"removed", "X">>>> PROVE Goal
  BY <1>3 DEF Types
<1>4. job.do \in {"swap", "use", "equip", "unequip", "read"} /\ job.type \in Types
  BY DEF JobOK, Types
<1> HIDE DEF L, Goal
<1>5. CASE job.do = "swap"
  BY <1>1, <1>4, <1>5, LocksTable DEF L, Goal
<1>6. CASE job.do = "use"
  <2>1. "use" \in Types
    BY DEF Types
  <2> QED BY <1>1, <1>2, <1>6, <2>1, LocksTable DEF L, Goal
<1>7. CASE job.do \in {"equip", "unequip"}
  BY <1>3, <1>7, LocksTable DEF L, Goal
<1>8. CASE job.do = "read"
  BY <1>2, <1>4, <1>8, LocksTable DEF L, Goal
<1> QED BY <1>4, <1>5, <1>6, <1>7, <1>8

\* The mutexes it has taken.
LEMMA FirstLocksGrow ==
  ASSUME NEW j, NEW k \in Nat
  PROVE  /\ FirstLocks(j, 0) = {}
         /\ FirstLocks(j, k + 1) =
              FirstLocks(j, k) \cup {<<"map", LocksOf(j)[k + 1][1], LocksOf(j)[k + 1][2]>>}
<1>1. 1 .. 0 = {} /\ 1 .. k + 1 = (1 .. k) \cup {k + 1}
  OBVIOUS
<1> QED BY <1>1 DEF FirstLocks

\* How many it has taken.
LEMMA HeldIs ==
  ASSUME JobOK, job # Idle, NEW k \in 0 .. Len(LocksOf(job)), MapHolds = FirstLocks(job, k)
  PROVE  Held = k
<1> DEFINE L == LocksOf(job)
           F(n) == FirstLocks(job, n)
           one(n) == <<"map", L[n][1], L[n][2]>>
<1>1. Len(L) \in 1 .. 3 /\ \A m, n \in 1 .. Len(L) : L[m][1] = L[n][1] => m = n
  BY LocksDiffer
<1>2. \A n \in 0 .. Len(L) - 1 : one(n + 1) \notin F(n) /\ F(n + 1) = F(n) \cup {one(n + 1)}
  <2>1. TAKE n \in 0 .. Len(L) - 1
  <2>2. F(n + 1) = F(n) \cup {one(n + 1)}
    BY <1>1, FirstLocksGrow
  <2>3. ASSUME NEW m \in 1 .. n, one(m) = one(n + 1) PROVE FALSE
    <3>1. L[m][1] = L[n + 1][1]
      BY <2>3
    <3> HIDE DEF L
    <3>2. m = n + 1
      BY <3>1, <1>1
    <3> QED BY <3>2, <1>1
  <2>4. one(n + 1) \notin F(n)
    BY <2>3 DEF FirstLocks
  <2> QED BY <2>2, <2>4
<1>3. F(0) = {}
  BY FirstLocksGrow
<1> HIDE DEF F, one, L
<1>4. \A n \in 0 .. Len(L) - 1 : IsFiniteSet(F(n)) =>
        IsFiniteSet(F(n + 1)) /\ Cardinality(F(n + 1)) = Cardinality(F(n)) + 1
  BY <1>2, FS_AddElement
<1>5. IsFiniteSet(F(0)) /\ Cardinality(F(0)) = 0
  BY <1>3, FS_EmptySet
<1>6. Len(L) >= 1 /\ IsFiniteSet(F(1)) /\ Cardinality(F(1)) = 1
  <2>1. 0 \in 0 .. Len(L) - 1
    BY <1>1
  <2>2. IsFiniteSet(F(0 + 1)) /\ Cardinality(F(0 + 1)) = 0 + 1
    BY <2>1, <1>4, <1>5
  <2>3. 0 + 1 = 1
    OBVIOUS
  <2>4. IsFiniteSet(F(1)) /\ Cardinality(F(1)) = 1
    BY ONLY <2>2, <2>3
  <2> QED BY <1>1, <2>4
<1>7. ASSUME Len(L) >= 2 PROVE IsFiniteSet(F(2)) /\ Cardinality(F(2)) = 2
  <2>1. 1 \in 0 .. Len(L) - 1
    BY <1>1, <1>7
  <2>2. IsFiniteSet(F(1 + 1)) /\ Cardinality(F(1 + 1)) = 1 + 1
    BY <2>1, <1>4, <1>6
  <2>3. 1 + 1 = 2
    OBVIOUS
  <2> QED BY ONLY <2>2, <2>3
<1>8. ASSUME Len(L) >= 3 PROVE IsFiniteSet(F(3)) /\ Cardinality(F(3)) = 3
  <2>1. 2 \in 0 .. Len(L) - 1
    BY <1>1, <1>8
  <2>2. IsFiniteSet(F(2 + 1)) /\ Cardinality(F(2 + 1)) = 2 + 1
    BY <2>1, <1>4, <1>7, <1>8
  <2>3. 2 + 1 = 3
    OBVIOUS
  <2> QED BY ONLY <2>2, <2>3
<1>9. k \in 0 .. Len(L)
  BY DEF L
<1>10. Cardinality(F(k)) = k
  BY <1>1, <1>5, <1>6, <1>7, <1>8, <1>9
<1> QED BY <1>10 DEF Held, MapHolds, F

\* While the items and the operation stay, and nobody takes a mutex, LocksOK stays.
LEMMA LocksSame ==
  ASSUME LocksOK, UNCHANGED <<items, job>>, MapHolds' = MapHolds,
         \A h \in holds' : h[1] # "map" => h = <<"db", "removed", "S">>
  PROVE  LocksOK'
<1>1. ASSUME NEW j PROVE UNCHANGED LocksOf(j)
  BY DEF LocksOf, TakesLast
<1>2. ASSUME NEW j, NEW k PROVE UNCHANGED FirstLocks(j, k)
  BY <1>1 DEF FirstLocks
<1>3. ASSUME NEW j \in {job'} \ {Idle}
      PROVE  \E k \in 0 .. Len(LocksOf(j))' : MapHolds' = FirstLocks(j, k)'
  <2>1. PICK k \in 0 .. Len(LocksOf(j)) : MapHolds = FirstLocks(j, k)
    BY <1>3 DEF LocksOK
  <2>2. k \in 0 .. Len(LocksOf(j))'
    BY <2>1, <1>1
  <2> QED BY <2>1, <2>2, <1>2
<1>4. job' = Idle => MapHolds' = {}
  BY DEF LocksOK
<1> QED BY <1>3, <1>4 DEF LocksOK

\* The operation takes its next mutex.
LEMMA OneMoreLock ==
  ASSUME LocksOK, UNCHANGED items, NEW j, j # Idle, job' = j,
         NEW k \in Nat, k < Len(LocksOf(j)), Len(LocksOf(j)) \in Nat,
         MapHolds = FirstLocks(j, k),
         holds' = holds \cup {<<"map", LocksOf(j)[k + 1][1], LocksOf(j)[k + 1][2]>>}
  PROVE  LocksOK'
<1>1. UNCHANGED LocksOf(j)
  BY DEF LocksOf, TakesLast
<1>2. UNCHANGED FirstLocks(j, k + 1)
  BY <1>1 DEF FirstLocks
<1>3. MapHolds' = FirstLocks(j, k + 1)
  <2>1. MapHolds' = MapHolds \cup {<<"map", LocksOf(j)[k + 1][1], LocksOf(j)[k + 1][2]>>}
    BY DEF MapHolds
  <2> QED BY <2>1, FirstLocksGrow
<1>4. k + 1 \in 0 .. Len(LocksOf(j))'
  BY <1>1
<1>5. \A h \in holds' : h[1] # "map" => h = <<"db", "removed", "S">>
  BY DEF LocksOK
<1> QED BY <1>2, <1>3, <1>4, <1>5 DEF LocksOK

\* The operation returns, and may go on as a reader.
LEMMA LocksReleased ==
  ASSUME LocksOK, Release("map"), NEW type \in Types, job' = Idle \/ job' = Read(type)
  PROVE  LocksOK'
<1>1. MapHolds' = {}
  BY DEF MapHolds, Release
<1>2. \A h \in holds' : h[1] # "map" => h = <<"db", "removed", "S">>
  BY DEF LocksOK, Release
<1>3. ASSUME NEW j \in {job'} \ {Idle}
      PROVE  \E k \in 0 .. Len(LocksOf(j))' : MapHolds' = FirstLocks(j, k)'
  <2>1. j.do = "read"
    BY <1>3 DEF Read
  <2>2. LocksOf(j)' = <<<<j.type, "S">>>>
    BY <2>1 DEF LocksOf
  <2>3. 0 \in 0 .. Len(LocksOf(j))'
    BY <2>2
  <2>4. FirstLocks(j, 0)' = {}
    <3>1. 1 .. 0 = {}
      OBVIOUS
    <3> QED BY <3>1 DEF FirstLocks
  <2> QED BY <1>1, <2>3, <2>4
<1> QED BY <1>1, <1>2, <1>3 DEF LocksOK
-----------------------------------------------------------------------------
(* The steps *)

\* The counts are numbers.
LEMMA CountIsNat ==
  ASSUME NEW rows \in Rows, NEW i \in Templates
  PROVE  Count(rows, i) \in Nat
BY SingleItemsAreFinite, FS_CardinalityType DEF Count

Operation == SwapItem \/ UseItem \/ Equip \/ Unequip \/ ReadItems

\* What the end of any operation does.
LEMMA OperationSteps ==
  ASSUME TypeOK, JobOK, Operation
  PROVE  /\ Effect /\ Release("map")
         /\ UNCHANGED <<saving, document, db, loads, moves, loaded>>
         /\ Changed \/ UNCHANGED <<items, removed, raced>>
         /\ job' = Idle \/ job' = Read("use") \/ job' = Read("equipped")
<1>1. CASE SwapItem
  BY <1>1, SwapEffect DEF SwapItem, Return
<1>2. CASE UseItem
  BY <1>2, UseEffect DEF UseItem, Return
<1>3. CASE Equip
  BY <1>3, EquipEffect DEF Equip, Return
<1>4. CASE Unequip
  BY <1>4, UnequipEffect DEF Unequip, Return
<1>5. CASE ReadItems
  BY <1>5, NoEffect DEF ReadItems, Return
<1> QED BY <1>1, <1>2, <1>3, <1>4, <1>5 DEF Operation

\* The database thread takes the mutex of the list, or lets it go.
LEMMA DbHolds ==
  ASSUME LocksOK, UNCHANGED <<items, job>>,
         \/ UNCHANGED holds
         \/ holds' = holds \cup {<<"db", "removed", "S">>}
         \/ Release("db")
  PROVE  LocksOK'
<1>1. MapHolds' = MapHolds
  BY DEF MapHolds, Release
<1>2. \A h \in holds' : h[1] # "map" => h = <<"db", "removed", "S">>
  BY DEF LocksOK, Release
<1> QED BY <1>1, <1>2, LocksSame

\* The client's request: what it may ask for, and the first mutex.
LEMMA MovesStep ==
  ASSUME TypeOK, JobOK, LocksOK, Moves
  PROVE  /\ JobOK' /\ LocksOK' /\ job' \in Jobs
         /\ holds' \subseteq {"map", "db"} \X (Types \cup {"removed"}) \X {"S", "X"}
         /\ moves' \in 0 .. MaxMoves
         /\ UNCHANGED <<items, removed, saving, document, db, loads, loaded, used, overwritten, raced>>
<1> DEFINE new(do, type, src, dst) == [do |-> do, type |-> type, src |-> src, dst |-> dst]
           Asked(j) ==
             \/ /\ j.do = "swap" /\ j.type \in Types \ {"equipped"}
                /\ j.src \in Slots(j.type) /\ j.dst \in Slots(j.type) /\ j.src # j.dst
             \/ j.do = "use" /\ j.type = "use" /\ j.src \in Slots("use")
             \/ /\ j.do = "equip" /\ j.type = "equip"
                /\ j.src \in Slots("equip") /\ j.dst \in Slots("equipped")
             \/ /\ j.do = "unequip" /\ j.type = "equip"
                /\ j.src \in Slots("equipped") /\ j.dst \in Slots("equip")
<1>1. PICK j : /\ job' = j /\ j \in Jobs /\ Asked(j) /\ Begin(j.do, j.type, j.src, j.dst)
  <2>1. ASSUME NEW do \in {"swap", "use", "equip", "unequip"}, NEW type \in Types,
               NEW src \in Nat, NEW dst \in Nat,
               Begin(do, type, src, dst), Asked(new(do, type, src, dst))
        PROVE  \E j : /\ job' = j /\ j \in Jobs /\ Asked(j) /\ Begin(j.do, j.type, j.src, j.dst)
    <3> DEFINE r == new(do, type, src, dst)
    <3>1. r \in Jobs /\ r.do = do /\ r.type = type /\ r.src = src /\ r.dst = dst
      BY DEF Jobs
    <3>2. job' = r
      BY <2>1 DEF Begin
    <3> HIDE DEF r, Asked
    <3>3. Asked(r)
      BY <2>1 DEF r
    <3>4. Begin(r.do, r.type, r.src, r.dst)
      BY <2>1, <3>1
    <3> QED BY <3>1, <3>2, <3>3, <3>4
  <2>2. CASE \E type \in Types \ {"equipped"} : \E src, dst \in Slots(type) :
               src # dst /\ Begin("swap", type, src, dst)
    <3>1. PICK type \in Types \ {"equipped"} : \E src, dst \in Slots(type) :
            src # dst /\ Begin("swap", type, src, dst)
      BY <2>2
    <3>2. PICK src \in Slots(type), dst \in Slots(type) :
            src # dst /\ Begin("swap", type, src, dst)
      BY <3>1
    <3>3. src \in Nat /\ dst \in Nat
      BY SlotsAreNumbers
    <3>4. Asked(new("swap", type, src, dst))
      BY <3>2
    <3> QED BY <2>1, <3>2, <3>3, <3>4
  <2>3. CASE \E src \in Slots("use") : Begin("use", "use", src, src)
    <3>1. PICK src \in Slots("use") : Begin("use", "use", src, src)
      BY <2>3
    <3>2. src \in Nat /\ "use" \in Types
      BY SlotsAreNumbers DEF Types
    <3>3. Asked(new("use", "use", src, src))
      BY <3>1
    <3> QED BY <2>1, <3>1, <3>2, <3>3
  <2>4. CASE \E src \in Slots("equip"), dst \in Slots("equipped") : Begin("equip", "equip", src, dst)
    <3>1. PICK src \in Slots("equip"), dst \in Slots("equipped") : Begin("equip", "equip", src, dst)
      BY <2>4
    <3>2. src \in Nat /\ dst \in Nat /\ "equip" \in Types
      BY SlotsAreNumbers DEF Types
    <3>3. Asked(new("equip", "equip", src, dst))
      BY <3>1
    <3> QED BY <2>1, <3>1, <3>2, <3>3
  <2>5. CASE \E src \in Slots("equipped"), dst \in Slots("equip") : Begin("unequip", "equip", src, dst)
    <3>1. PICK src \in Slots("equipped"), dst \in Slots("equip") : Begin("unequip", "equip", src, dst)
      BY <2>5
    <3>2. src \in Nat /\ dst \in Nat /\ "equip" \in Types
      BY SlotsAreNumbers DEF Types
    <3>3. Asked(new("unequip", "equip", src, dst))
      BY <3>1
    <3> QED BY <2>1, <3>1, <3>2, <3>3
  <2> QED BY <2>2, <2>3, <2>4, <2>5 DEF Moves
<1>2. JobOK'
  BY <1>1 DEF JobOK
<1>3. j.do \in {"swap", "use", "equip", "unequip"} /\ j.type \in Types /\ j # Idle
  BY <1>1 DEF Types, Idle
<1> HIDE DEF Asked
<1>4. /\ Len(LocksOf(j)) \in Nat /\ 0 < Len(LocksOf(j))
      /\ LocksOf(j)[1] \in (Types \cup {"removed"}) \X {"S", "X"}
  <2>1. CASE j.do = "swap"
    BY <1>3, <2>1, LocksTable
  <2>2. CASE j.do = "use"
    <3>1. "use" \in Types
      BY DEF Types
    <3> QED BY <2>2, <3>1, LocksTable
  <2>3. CASE j.do \in {"equip", "unequip"}
    BY <2>3, LocksTable DEF Types
  <2> QED BY <1>3, <2>1, <2>2, <2>3
<1>5. /\ job = Idle /\ moves < MaxMoves /\ moves' = moves + 1
      /\ holds' = holds \cup {<<"map", LocksOf(j)[1][1], LocksOf(j)[1][2]>>}
      /\ UNCHANGED <<items, removed, saving, document, db, loads, loaded, used, overwritten, raced>>
  BY <1>1 DEF Begin
<1>6. LocksOK'
  <2>1. MapHolds = FirstLocks(j, 0)
    BY <1>5, FirstLocksGrow DEF LocksOK
  <2>2. 0 \in Nat /\ 0 + 1 = 1
    OBVIOUS
  <2>3. holds' = holds \cup {<<"map", LocksOf(j)[0 + 1][1], LocksOf(j)[0 + 1][2]>>}
    BY <1>5, <2>2
  <2> QED BY <1>1, <1>3, <1>4, <1>5, <2>1, <2>2, <2>3, OneMoreLock
<1>7. moves' \in 0 .. MaxMoves
  <2>1. MaxMoves \in Nat
    BY InventoryAssumption
  <2> QED BY <1>5, <2>1 DEF TypeOK
<1>8. holds' \subseteq {"map", "db"} \X (Types \cup {"removed"}) \X {"S", "X"}
  BY <1>4, <1>5 DEF TypeOK
<1> QED BY <1>1, <1>2, <1>5, <1>6, <1>7, <1>8

\* The next mutex.
LEMMA LockStep ==
  ASSUME TypeOK, JobOK, LocksOK, Lock
  PROVE  /\ JobOK' /\ LocksOK'
         /\ holds' \subseteq {"map", "db"} \X (Types \cup {"removed"}) \X {"S", "X"}
<1>1. JobOK'
  BY DEF JobOK, Lock
<1>2. job # Idle /\ Held # Len(LocksOf(job)) /\ UNCHANGED <<items, job>>
      /\ holds' = holds \cup {<<"map", LocksOf(job)[Held + 1][1], LocksOf(job)[Held + 1][2]>>}
  BY DEF Lock, HasAllLocks
<1>3. Len(LocksOf(job)) \in 1 .. 3
      /\ \A n \in 1 .. Len(LocksOf(job)) : LocksOf(job)[n] \in (Types \cup {"removed"}) \X {"S", "X"}
  BY <1>2, LocksDiffer
<1>4. PICK k \in 0 .. Len(LocksOf(job)) : MapHolds = FirstLocks(job, k)
  BY <1>2 DEF LocksOK
<1>5. Held = k
  BY <1>2, <1>4, HeldIs
<1>6. /\ k \in Nat /\ k < Len(LocksOf(job)) /\ Len(LocksOf(job)) \in Nat
      /\ k + 1 \in 1 .. Len(LocksOf(job))
  BY <1>2, <1>3, <1>4, <1>5
<1>7. holds' = holds \cup {<<"map", LocksOf(job)[k + 1][1], LocksOf(job)[k + 1][2]>>}
  BY <1>2, <1>5
<1>8. LocksOK'
  <2>1. ASSUME NEW j, j = job PROVE LocksOK'
    <3>1. /\ j # Idle /\ job' = j /\ k < Len(LocksOf(j)) /\ Len(LocksOf(j)) \in Nat
          /\ MapHolds = FirstLocks(j, k)
          /\ holds' = holds \cup {<<"map", LocksOf(j)[k + 1][1], LocksOf(j)[k + 1][2]>>}
      BY <1>2, <1>4, <1>6, <1>7, <2>1
    <3> QED BY <1>2, <1>6, <3>1, OneMoreLock
  <2> QED BY <2>1
<1>9. LocksOf(job)[k + 1] \in (Types \cup {"removed"}) \X {"S", "X"}
  BY <1>3, <1>6
<1> QED BY <1>1, <1>7, <1>8, <1>9 DEF TypeOK

DbStep == LockRemoved \/ ReadRemoved \/ ClearRemoved \/ ReadTab \/ Store

\* What a step of the save leaves alone.
LEMMA DbStepKeeps ==
  ASSUME DbStep
  PROVE  UNCHANGED <<items, job, history>>
BY DEF DbStep, LockRemoved, ReadRemoved, ClearRemoved, ReadTab, Store

\* The tabs, in the order of the document.
LEMMA TabsTable ==
  ASSUME NEW type \in Types
  PROVE  /\ AfterTab[type] \in Types \cup {"store"} /\ AfterTab[type] # "equip"
         /\ TabsRead[AfterTab[type]] = TabsRead[type] \cup {type}
BY DEF Types, AfterTab, TabsRead

\* Init establishes the invariant.
LEMMA InitInv == Init => IInv
<1> SUFFICES ASSUME Init PROVE IInv
  OBVIOUS
<1>1. FirstRows \in Rows /\ MaxLoads \in Nat /\ MaxMoves \in Nat
  BY InventoryAssumption
<1>2. Empty \in Rows /\ None \in [Templates -> Nat]
  BY DEF Empty, None, Rows
<1>3. loaded \in [Templates -> Nat]
  BY <1>1, CountIsNat DEF Init
<1>4. TypeOK
  <2>1. /\ items \in Rows /\ db \in Rows /\ xmlItems \in Rows
        /\ removed = {} /\ xmlRemoved = {} /\ holds = {} /\ job = Idle /\ saving = "no"
        /\ used \in [Templates -> Nat] /\ overwritten \in [Templates -> Nat] /\ raced = FALSE
    BY <1>1, <1>2 DEF Init
  <2>2. loads \in 0 .. MaxLoads /\ moves \in 0 .. MaxMoves
    BY <1>1 DEF Init
  <2> QED BY <1>3, <2>1, <2>2 DEF TypeOK
<1>5. JobOK
  BY DEF Init, JobOK
<1>6. LocksOK
  BY DEF Init, LocksOK, MapHolds
<1>7. SaveOK
  BY DEF Init, SaveOK, Emptied, Types
<1>8. ItemsKept
  <2>1. ASSUME NEW i \in Templates PROVE Count(items, i) + used[i] + overwritten[i] = loaded[i]
    <3>1. items = FirstRows /\ Count(FirstRows, i) \in Nat
      BY <1>1, CountIsNat DEF Init
    <3>2. used[i] = 0 /\ overwritten[i] = 0 /\ loaded[i] = Count(FirstRows, i)
      BY DEF Init, None
    <3> QED BY <3>1, <3>2
  <2> QED BY <2>1 DEF ItemsKept
<1> QED BY <1>4, <1>5, <1>6, <1>7, <1>8 DEF IInv

\* Types are kept.
LEMMA TypeStep ==
  ASSUME IInv, Next
  PROVE  TypeOK'
<1> USE DEF IInv
<1>1. CASE Moves
  <2>1. /\ job' \in Jobs /\ moves' \in 0 .. MaxMoves
        /\ holds' \subseteq {"map", "db"} \X (Types \cup {"removed"}) \X {"S", "X"}
        /\ UNCHANGED <<items, removed, saving, document, db>>
        /\ UNCHANGED <<loads, loaded, used, overwritten, raced>>
    BY <1>1, MovesStep
  <2> QED BY <2>1 DEF TypeOK, document
<1>2. CASE Lock
  <2>1. /\ holds' \subseteq {"map", "db"} \X (Types \cup {"removed"}) \X {"S", "X"}
        /\ UNCHANGED <<items, removed, job, saving, document, db, history>>
    BY <1>2, LockStep DEF Lock
  <2> QED BY <2>1 DEF TypeOK, document, history
<1>3. CASE Operation
  <2>1. job' \in Jobs \cup {Idle}
    BY <1>3, OperationSteps DEF Read, Jobs, Types
  <2>2. raced' \in BOOLEAN
    BY <1>3, OperationSteps DEF Changed, TypeOK
  <2>3. holds' \subseteq {"map", "db"} \X (Types \cup {"removed"}) \X {"S", "X"}
    BY <1>3, OperationSteps DEF Release, TypeOK
  <2>4. /\ items' \in Rows /\ removed' \subseteq Places
        /\ used' \in [Templates -> Nat] /\ overwritten' \in [Templates -> Nat]
        /\ UNCHANGED <<saving, document, db, loads, moves, loaded>>
    BY <1>3, OperationSteps DEF Effect
  <2> QED BY <2>1, <2>2, <2>3, <2>4 DEF TypeOK, document
<1>4. CASE LockRemoved
  BY <1>4 DEF LockRemoved, TypeOK, document, history
<1>5. CASE ReadRemoved
  BY <1>5 DEF ReadRemoved, TypeOK, history
<1>6. CASE ClearRemoved
  BY <1>6 DEF ClearRemoved, TypeOK, document, history, Types
<1>7. CASE ReadTab
  <2>1. saving' \in Types \cup {"store"}
    BY <1>7, TabsTable DEF ReadTab
  <2>2. xmlItems' \in Rows
    BY <1>7 DEF ReadTab, TypeOK, Rows
  <2>3. holds' \subseteq holds
    BY <1>7 DEF ReadTab, Release
  <2>4. UNCHANGED <<items, removed, job, xmlRemoved, db, history>>
    BY <1>7 DEF ReadTab
  <2> QED BY <2>1, <2>2, <2>3, <2>4 DEF TypeOK, history
<1>8. CASE Store
  <2>1. db' \in Rows
    BY <1>8 DEF Store, TypeOK, Rows
  <2>2. saving' \in {"saved", "failed"} /\ UNCHANGED <<items, removed, holds, job, document, history>>
    BY <1>8 DEF Store
  <2> QED BY <2>1, <2>2 DEF TypeOK, document, history
<1>9. CASE TryLoadFromDb
  <2>1. loaded' \in [Templates -> Nat]
    <3>1. \A i \in Templates : Count(db, i) \in Nat
      BY CountIsNat DEF TypeOK
    <3> QED BY <1>9, <3>1 DEF TryLoadFromDb
  <2>2. Empty \in Rows /\ None \in [Templates -> Nat]
    BY DEF Empty, None, Rows
  <2>3. loads' \in 0 .. MaxLoads
    <3>1. MaxLoads \in Nat
      BY InventoryAssumption
    <3> QED BY <1>9, <3>1 DEF TryLoadFromDb, TypeOK
  <2> QED BY <1>9, <2>1, <2>2, <2>3 DEF TryLoadFromDb, TypeOK
<1> QED BY <1>1, <1>2, <1>3, <1>4, <1>5, <1>6, <1>7, <1>8, <1>9 DEF Next, Operation

\* The mutexes are held as the operation and the save say.
LEMMA LocksStep ==
  ASSUME IInv, Next
  PROVE  JobOK' /\ LocksOK'
<1> USE DEF IInv
<1>1. CASE Moves
  BY <1>1, MovesStep
<1>2. CASE Lock
  BY <1>2, LockStep
<1>3. CASE Operation
  <2>1. /\ Release("map") /\ "use" \in Types /\ "equipped" \in Types
        /\ job' = Idle \/ job' = Read("use") \/ job' = Read("equipped")
    BY <1>3, OperationSteps DEF Types
  <2>2. JobOK'
    BY <2>1 DEF JobOK, Read
  <2>3. PICK type \in Types : job' = Idle \/ job' = Read(type)
    BY <2>1
  <2> QED BY <2>1, <2>2, <2>3, LocksReleased
<1>4. CASE DbStep
  <2>1. UNCHANGED <<items, job>>
    BY <1>4, DbStepKeeps
  <2>2. UNCHANGED holds \/ holds' = holds \cup {<<"db", "removed", "S">>} \/ Release("db")
    BY <1>4 DEF DbStep, LockRemoved, ReadRemoved, ClearRemoved, ReadTab, Store
  <2>3. JobOK'
    BY <2>1 DEF JobOK
  <2> QED BY <2>1, <2>2, <2>3, DbHolds
<1>5. CASE TryLoadFromDb
  <2>1. job = Idle /\ job' = Idle /\ UNCHANGED holds
    BY <1>5 DEF TryLoadFromDb
  <2> QED BY <2>1 DEF LocksOK, JobOK, MapHolds
<1> QED BY <1>1, <1>2, <1>3, <1>4, <1>5 DEF Next, Operation, DbStep

\* The document and the list stay true to the inventory, unless an operation comes between.
LEMMA SaveStep ==
  ASSUME IInv, Next
  PROVE  SaveOK'
<1> USE DEF IInv
<1> SUFFICES ASSUME ~ raced' PROVE SaveOK'
  BY DEF SaveOK
<1>1. CASE Moves \/ Lock
  <2>1. UNCHANGED <<items, removed, saving, document, db, raced>>
    BY <1>1, MovesStep DEF Lock, history
  <2> QED BY <2>1 DEF SaveOK, Emptied, document
<1>2. CASE Operation
  <2>1. /\ Effect /\ UNCHANGED <<saving, document, db>>
        /\ Changed \/ UNCHANGED <<items, removed, raced>>
    BY <1>2, OperationSteps
  <2>2. CASE UNCHANGED <<items, removed, raced>>
    BY <2>1, <2>2 DEF SaveOK, Emptied, document
  <2>3. CASE Changed
    <3>1. ~ raced /\ saving = "no" /\ saving' = "no"
      BY <2>1, <2>3 DEF Changed, TypeOK
    <3>2. Emptied' \subseteq removed'
      BY <2>1, <3>1 DEF SaveOK, Emptied, Effect
    <3> QED BY <3>1, <3>2 DEF SaveOK, Types
  <2> QED BY <2>1, <2>2, <2>3
<1>3. CASE DbStep
  <2>1. ~ raced /\ UNCHANGED <<items, raced>>
    BY <1>3, DbStepKeeps DEF history
  <2>2. CASE LockRemoved
    BY <2>1, <2>2 DEF LockRemoved, SaveOK, Emptied, document, Types
  <2>3. CASE ReadRemoved
    BY <2>1, <2>3 DEF ReadRemoved, SaveOK, Emptied, Types
  <2>4. CASE ClearRemoved
    <3>1. saving' = "equip" /\ Emptied' \subseteq xmlRemoved'
      BY <2>1, <2>4 DEF ClearRemoved, SaveOK, Emptied, document
    <3> QED BY <3>1 DEF SaveOK, TabsRead, Types
  <2>5. CASE ReadTab
    <3>1. /\ saving \in Types /\ saving' = AfterTab[saving]
          /\ xmlItems' = [p \in Places |-> IF p[1] = saving THEN items[p] ELSE xmlItems[p]]
          /\ UNCHANGED <<items, xmlRemoved, db>>
      BY <2>5 DEF ReadTab
    <3>2. saving' \in Types \cup {"store"} /\ TabsRead[saving'] = TabsRead[saving] \cup {saving}
      BY <3>1, TabsTable
    <3>3. Emptied' \subseteq xmlRemoved'
      BY <2>1, <3>1 DEF SaveOK, Emptied
    <3>4. \A p \in Places : p[1] \in TabsRead[saving'] => xmlItems'[p] = items'[p]
      BY <2>1, <3>1, <3>2 DEF SaveOK
    <3> QED BY <3>2, <3>3, <3>4 DEF SaveOK, Types
  <2>6. CASE Store
    <3>1. CASE saving' = "failed"
      BY <3>1 DEF SaveOK, Types
    <3>2. CASE saving' = "saved"
      <4>1. /\ saving = "store"
            /\ db' = [p \in Places |-> CASE xmlItems[p] # NoItem -> xmlItems[p]
                                         [] xmlItems[p] = NoItem /\ p \in xmlRemoved -> NoItem
                                         [] OTHER -> db[p]]
        BY <2>6, <3>2 DEF Store
      <4>2. /\ Emptied \subseteq xmlRemoved
            /\ \A p \in Places : xmlItems[p] = items[p]
        <5>1. \A p \in Places : p[1] \in TabsRead["store"]
          BY PlaceOf DEF TabsRead
        <5> QED BY <2>1, <4>1, <5>1 DEF SaveOK
      <4>3. \A p \in Places : db'[p] = items[p]
        <5>1. TAKE p \in Places
        <5>2. CASE items[p] # NoItem
          BY <4>1, <4>2, <5>2
        <5>3. CASE items[p] = NoItem /\ p \in xmlRemoved
          BY <4>1, <4>2, <5>3
        <5>4. CASE items[p] = NoItem /\ p \notin xmlRemoved
          <6>1. db[p] = NoItem
            BY <4>2, <5>4 DEF Emptied
          <6> QED BY <4>1, <4>2, <5>4, <6>1
        <5> QED BY <5>2, <5>3, <5>4
      <4>4. db' = items'
        BY <2>1, <4>1, <4>3 DEF TypeOK, Rows
      <4> QED BY <3>2, <4>4 DEF SaveOK, Types
    <3> QED BY <2>6, <3>1, <3>2 DEF Store
  <2> QED BY <1>3, <2>2, <2>3, <2>4, <2>5, <2>6 DEF DbStep
<1>4. CASE TryLoadFromDb
  BY <1>4 DEF TryLoadFromDb, SaveOK, Emptied, Types
<1> QED BY <1>1, <1>2, <1>3, <1>4 DEF Next, Operation, DbStep

\* Nothing is made or lost.
LEMMA KeptStep ==
  ASSUME IInv, Next
  PROVE  ItemsKept'
<1> USE DEF IInv
<1>1. CASE Operation
  <2>1. Effect /\ UNCHANGED loaded
    BY <1>1, OperationSteps
  <2> QED BY <2>1 DEF Effect, ItemsKept
<1>2. CASE Moves \/ Lock \/ DbStep
  <2>1. UNCHANGED <<items, used, overwritten, loaded>>
    BY <1>2, MovesStep, DbStepKeeps DEF Lock, history
  <2> QED BY <2>1 DEF ItemsKept
<1>3. CASE TryLoadFromDb
  <2>1. ASSUME NEW i \in Templates
        PROVE  Count(items', i) + used'[i] + overwritten'[i] = loaded'[i]
    <3>1. items' = db /\ Count(db, i) \in Nat
      BY <1>3, CountIsNat DEF TryLoadFromDb, TypeOK
    <3>2. used'[i] = 0 /\ overwritten'[i] = 0 /\ loaded'[i] = Count(db, i)
      BY <1>3 DEF TryLoadFromDb, None
    <3> QED BY <3>1, <3>2
  <2> QED BY <2>1 DEF ItemsKept
<1> QED BY <1>1, <1>2, <1>3 DEF Next, Operation, DbStep

\* The invariant.
LEMMA Invariant == Spec => []IInv
<1>1. Init => IInv
  BY InitInv
<1>2. IInv /\ [Next]_vars => IInv'
  <2> SUFFICES ASSUME IInv, [Next]_vars PROVE IInv'
    OBVIOUS
  <2>1. CASE Next
    BY <2>1, TypeStep, LocksStep, SaveStep, KeptStep DEF IInv
  <2>2. CASE UNCHANGED vars
    <3>1. UNCHANGED <<items, removed, holds, job, saving, xmlRemoved, xmlItems, db>>
          /\ UNCHANGED <<loads, moves, loaded, used, overwritten, raced>>
      BY <2>2 DEF vars, document, history
    <3>2. TypeOK' /\ JobOK' /\ ItemsKept'
      BY <3>1 DEF IInv, TypeOK, JobOK, ItemsKept
    <3>3. SaveOK'
      BY <3>1 DEF IInv, SaveOK, Emptied
    <3>4. LocksOK'
      BY <3>1, DbHolds DEF IInv
    <3> QED BY <3>2, <3>3, <3>4 DEF IInv
  <2> QED BY <2>1, <2>2 DEF Next
<1> QED BY <1>1, <1>2, PTL DEF Spec

\* Every variable has its type; no stack is larger than its template allows.
THEOREM TypeCorrect == Spec => []TypeOK
<1>1. IInv => TypeOK
  BY DEF IInv
<1> QED BY <1>1, Invariant, PTL

\* A save that no operation meets leaves the database with exactly the inventory, however
\* many operations, logins and failed saves came before it.
THEOREM SavesAreFaithful == Spec => []SavedAsIs
<1>1. IInv => SavedAsIs
  BY DEF IInv, SaveOK, SavedAsIs
<1> QED BY <1>1, Invariant, PTL

\* Items are not made or lost, but for those used and those Unequip drops.
THEOREM NothingIsLost == Spec => []ItemsKept
<1>1. IInv => ItemsKept
  BY DEF IInv
<1> QED BY <1>1, Invariant, PTL

\* The two threads wait for each other only in SwapItem, Equip and Unequip: the database
\* thread has nothing but the list, shared, so an operation that waits wants the list alone.
THEOREM WaitsAreExplained == Spec => []WaitsExplained
<1>1. ASSUME IInv, MapWaits PROVE job.do \in {"swap", "equip", "unequip"}
  <2>1. JobOK /\ LocksOK /\ job # Idle /\ Held # Len(LocksOf(job))
        /\ ~ CanLock("map", LocksOf(job)[Held + 1][1], LocksOf(job)[Held + 1][2])
    BY <1>1 DEF IInv, MapWaits, HasAllLocks
  <2>2. Len(LocksOf(job)) \in 1 .. 3
    BY <2>1, LocksDiffer
  <2>3. PICK k \in 0 .. Len(LocksOf(job)) : MapHolds = FirstLocks(job, k)
    BY <2>1 DEF LocksOK
  <2>4. Held = k
    BY <2>1, <2>3, HeldIs
  <2>5. Held + 1 \in 1 .. Len(LocksOf(job))
    BY <2>1, <2>2, <2>3, <2>4
  <2>6. \E m \in 1 .. Len(LocksOf(job)) :
          LocksOf(job)[m][1] = "removed" /\ LocksOf(job)[m][2] # "S"
    <3>1. PICK h \in holds : /\ h[1] # "map" /\ h[2] = LocksOf(job)[Held + 1][1]
                             /\ ~ (LocksOf(job)[Held + 1][2] = "S" /\ h[3] = "S")
      BY <2>1 DEF CanLock
    <3>2. h = <<"db", "removed", "S">>
      BY <2>1, <3>1 DEF LocksOK
    <3>3. LocksOf(job)[Held + 1][1] = "removed" /\ LocksOf(job)[Held + 1][2] # "S"
      BY <3>1, <3>2
    <3> QED BY <2>5, <3>3
  <2>7. job.do # "use"
    BY <2>6, LocksTable
  <2>8. job.do # "read"
    <3>1. job.type \in Types
      BY <2>1 DEF JobOK, Types
    <3>2. job.type # "removed"
      BY <3>1 DEF Types
    <3> QED BY <2>6, <3>2, LocksTable
  <2> QED BY <2>1, <2>7, <2>8 DEF JobOK
<1>2. IInv => WaitsExplained
  BY <1>1 DEF WaitsExplained
<1> QED BY <1>2, Invariant, PTL
=============================================================================
