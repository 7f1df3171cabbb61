-------------------------- MODULE HashTable_proofs --------------------------
(***************************************************************************)
(* Proofs about the hash table: for any types, any hashes, any capacity    *)
(* and however often it is expanded.                                       *)
(*                                                                         *)
(* A table is good if every type is in one slot only and no empty slot is  *)
(* on the way from where its hash points to that slot.  Of a good table    *)
(* with an empty slot the lemmas say where a lookup ends, and that setting *)
(* an entry gives a good table again; an expansion sets entries one after  *)
(* the other in an empty table.  What is computed by such a loop is shown  *)
(* by looking at the first step at which it would go wrong.                *)
(***************************************************************************)
EXTENDS HashTable, FiniteSetTheorems, WellFoundedInduction, TLAPS

Entry == [key : Types \cup {Empty}, value : Int]

IsTable(table, cap) == table \in [0 .. cap - 1 -> Entry]

Filled(table, cap) == {i \in 0 .. cap - 1 : table[i].key # Empty}

HasKey(table, cap, type) == \E i \in 0 .. cap - 1 : table[i].key = type

\* The table has the type with this value.
Holds(table, cap, type, value) ==
  \E i \in 0 .. cap - 1 : table[i].key = type /\ table[i].value = value

OnePlace(table, cap) ==
  \A i, j \in 0 .. cap - 1 :
    table[i].key = table[j].key /\ table[i].key # Empty => i = j

\* Probing for the type of a slot, with h for hash, comes to that slot.
WellPlaced(h, table, cap) ==
  \A i \in 0 .. cap - 1 :
    table[i].key # Empty =>
      \E n \in 0 .. cap - 1 :
        /\ (h[table[i].key] + n) % cap = i
        /\ \A m \in 0 .. n - 1 : table[(h[table[i].key] + m) % cap].key # Empty

Good(h, table, cap) ==
  IsTable(table, cap) /\ OnePlace(table, cap) /\ WellPlaced(h, table, cap)

HasRoom(table, cap) == \E i \in 0 .. cap - 1 : table[i].key = Empty

HashIsTyped == hash \in [Types -> Nat]

-----------------------------------------------------------------------------
(* Natural numbers.                                                        *)

\* A set of natural numbers that is not empty has a smallest one.
LEMMA SmallestNumber ==
  ASSUME NEW S \in SUBSET Nat, S # {}
  PROVE  \E m \in S : \A k \in S : m <= k
<1> DEFINE Less == OpToRel(<, Nat)
<1>1. IsWellFoundedOn(Less, Nat)
  BY NatLessThanWellFounded
<1>2. \A k, m \in Nat : k < m => <<k, m>> \in Less
  BY DEF OpToRel
<1> HIDE DEF Less
<1>3. PICK m \in S : \A k \in S : ~ (<<k, m>> \in Less)
  BY <1>1, WFMin
<1>4. \A k \in S : m <= k
  <2> SUFFICES ASSUME NEW k \in S PROVE ~ (k < m)
    OBVIOUS
  <2>1. k \in Nat /\ m \in Nat /\ <<k, m>> \notin Less
    BY <1>3
  <2>2. k < m => <<k, m>> \in Less
    BY <1>2, <2>1
  <2>3. QED
    BY <2>1, <2>2
<1>5. QED
  BY <1>4

\* Counting on from h modulo c.
LEMMA ModuloAdds ==
  ASSUME NEW h \in Nat, NEW c \in Nat \ {0}, NEW n \in 0 .. c - 1
  PROVE  (h + n) % c = IF (h % c) + n < c THEN (h % c) + n ELSE (h % c) + n - c
<1> DEFINE q == h \div c
           r == h % c
<1>1. h = c * q + r /\ q \in Int /\ r \in 0 .. c - 1
  OBVIOUS
<1>2. \A p \in Int, i \in 0 .. c - 1 : (c * p + i) % c = i
  OBVIOUS
<1> HIDE DEF q, r
<1>3. CASE r + n < c
  <2>1. h + n = c * q + (r + n) /\ r + n \in 0 .. c - 1
    BY <1>1, <1>3
  <2>2. (h + n) % c = r + n
    BY <1>1, <1>2, <2>1
  <2>3. QED
    BY <1>3, <2>2 DEF r
<1>4. CASE ~ (r + n < c)
  <2>1. r + n - c \in 0 .. c - 1 /\ q + 1 \in Int
    BY <1>1, <1>4
  <2>2. h + n = c * (q + 1) + (r + n - c)
    BY <1>1
  <2>3. (h + n) % c = r + n - c
    BY <1>2, <2>1, <2>2
  <2>4. QED
    BY <1>4, <2>3 DEF r
<1>5. QED
  BY <1>3, <1>4

-----------------------------------------------------------------------------
(* Probing.                                                                *)

\* A probe is a slot.
LEMMA ProbeIsSlot ==
  ASSUME HashIsTyped, NEW cap \in Nat \ {0}, NEW type \in Types, NEW n \in Nat
  PROVE  Probe(cap, type, n) \in 0 .. cap - 1
<1>1. hash[type] + n \in Nat
  BY DEF HashIsTyped
<1>2. \A k \in Nat : k % cap \in 0 .. cap - 1
  OBVIOUS
<1>3. QED
  BY <1>1, <1>2 DEF Probe

\* Probing comes to every slot.
LEMMA ProbingReaches ==
  ASSUME HashIsTyped, NEW cap \in Nat \ {0}, NEW type \in Types, NEW i \in 0 .. cap - 1
  PROVE  \E n \in 0 .. cap - 1 : Probe(cap, type, n) = i
<1> DEFINE r == hash[type] % cap
           n == IF r <= i THEN i - r ELSE i - r + cap
<1>1. hash[type] \in Nat
  BY DEF HashIsTyped
<1>2. r \in 0 .. cap - 1
  BY <1>1
<1>3. n \in 0 .. cap - 1
  BY <1>2
<1>4. Probe(cap, type, n) = IF r + n < cap THEN r + n ELSE r + n - cap
  BY <1>1, <1>3, ModuloAdds DEF Probe
<1>5. Probe(cap, type, n) = i
  <2> HIDE DEF r
  <2>1. CASE r <= i
    BY <1>2, <1>4, <2>1
  <2>2. CASE ~ (r <= i)
    BY <1>2, <1>4, <2>2
  <2>3. QED
    BY <2>1, <2>2
<1>6. QED
  BY <1>3, <1>5

\* While there is an empty slot every lookup ends.
LEMMA RoomEndsProbing ==
  ASSUME HashIsTyped, NEW cap \in Nat \ {0}, NEW type \in Types,
         NEW table, HasRoom(table, cap)
  PROVE  ProbingEnds(table, cap, type)
<1>1. PICK i \in 0 .. cap - 1 : table[i].key = Empty
  BY DEF HasRoom
<1>2. PICK n \in 0 .. cap - 1 : Probe(cap, type, n) = i
  BY ProbingReaches
<1>3. StopsAt(table, cap, type, n)
  BY <1>1, <1>2 DEF StopsAt
<1>4. QED
  BY <1>3 DEF ProbingEnds

\* A lookup ends at the first slot that stops it.
LEMMA SlotStopsFirst ==
  ASSUME NEW cap \in Nat \ {0}, NEW type \in Types, NEW table,
         ProbingEnds(table, cap, type)
  PROVE  \E n \in 0 .. cap - 1 :
           /\ Slot(table, cap, type) = Probe(cap, type, n)
           /\ StopsAt(table, cap, type, n)
           /\ \A m \in 0 .. n - 1 : ~ StopsAt(table, cap, type, m)
<1> DEFINE Stops == {n \in 0 .. cap - 1 : StopsAt(table, cap, type, n)}
           First(n) == /\ StopsAt(table, cap, type, n)
                       /\ \A m \in 0 .. n - 1 : ~ StopsAt(table, cap, type, m)
<1>1. Stops \in SUBSET Nat /\ Stops # {}
  BY DEF ProbingEnds
<1>2. PICK n \in Stops : \A k \in Stops : n <= k
  BY <1>1, SmallestNumber
<1>3. \A m \in 0 .. n - 1 : m \notin Stops
  BY <1>1, <1>2
<1>4. n \in 0 .. cap - 1 /\ First(n)
  BY <1>2, <1>3
<1> DEFINE first == CHOOSE k \in 0 .. cap - 1 : First(k)
<1>5. first \in 0 .. cap - 1 /\ First(first)
  BY <1>4
<1>6. Slot(table, cap, type) = Probe(cap, type, first)
  BY DEF Slot
<1> HIDE DEF first
<1>7. QED
  BY <1>5, <1>6

\* A lookup in a good table ends at the type's slot, if it has one.
LEMMA SlotOfKey ==
  ASSUME HashIsTyped, NEW cap \in Nat \ {0}, NEW type \in Types,
         NEW table, Good(hash, table, cap), HasRoom(table, cap),
         NEW i \in 0 .. cap - 1, table[i].key = type
  PROVE  Slot(table, cap, type) = i
<1>1. PICK n \in 0 .. cap - 1 :
        /\ Slot(table, cap, type) = Probe(cap, type, n)
        /\ StopsAt(table, cap, type, n)
        /\ \A m \in 0 .. n - 1 : ~ StopsAt(table, cap, type, m)
  BY RoomEndsProbing, SlotStopsFirst
<1>2. PICK k \in 0 .. cap - 1 :
        /\ Probe(cap, type, k) = i
        /\ \A m \in 0 .. k - 1 : table[Probe(cap, type, m)].key # Empty
  BY EmptyAssumption DEF Good, WellPlaced, Probe
<1>3. StopsAt(table, cap, type, k)
  BY <1>2 DEF StopsAt
<1>4. n <= k
  BY <1>1, <1>2, <1>3
<1>5. CASE n = k
  BY <1>1, <1>2, <1>5
<1>6. CASE n < k
  <2>1. table[Probe(cap, type, n)].key # Empty
    BY <1>1, <1>2, <1>6
  <2>2. table[Probe(cap, type, n)].key = type
    BY <1>1, <2>1 DEF StopsAt
  <2>3. Probe(cap, type, n) \in 0 .. cap - 1
    BY ProbeIsSlot
  <2>4. QED
    BY <1>1, <2>2, <2>3, EmptyAssumption DEF Good, OnePlace
<1>7. QED
  BY <1>4, <1>5, <1>6

-----------------------------------------------------------------------------
(* Setting an entry.                                                       *)

\* The slot that is set is empty or has the type; empty only if no slot has it.
LEMMA SlotFacts ==
  ASSUME HashIsTyped, NEW cap \in Nat \ {0}, NEW type \in Types,
         NEW table, Good(hash, table, cap), HasRoom(table, cap)
  PROVE  /\ Slot(table, cap, type) \in 0 .. cap - 1
         /\ table[Slot(table, cap, type)].key \in {type, Empty}
         /\ table[Slot(table, cap, type)].key = type <=> HasKey(table, cap, type)
<1>1. PICK n \in 0 .. cap - 1 :
        Slot(table, cap, type) = Probe(cap, type, n) /\ StopsAt(table, cap, type, n)
  BY RoomEndsProbing, SlotStopsFirst
<1>2. Slot(table, cap, type) \in 0 .. cap - 1
  BY <1>1, ProbeIsSlot
<1>3. table[Slot(table, cap, type)].key \in {type, Empty}
  BY <1>1 DEF StopsAt
<1>4. HasKey(table, cap, type) => table[Slot(table, cap, type)].key = type
  BY SlotOfKey DEF HasKey
<1>5. QED
  BY <1>2, <1>3, <1>4 DEF HasKey

\* Only that slot is set.
LEMMA SetEntryFacts ==
  ASSUME HashIsTyped, NEW cap \in Nat \ {0}, NEW type \in Types, NEW value \in Int,
         NEW table, Good(hash, table, cap), HasRoom(table, cap),
         NEW s, s = Slot(table, cap, type),
         NEW new, new = SetEntry(table, cap, type, value)
  PROVE  /\ IsTable(new, cap)
         /\ s \in 0 .. cap - 1
         /\ new[s].key = type /\ new[s].value = value
         /\ \A i \in 0 .. cap - 1 : i # s => new[i] = table[i]
         /\ Filled(new, cap) = Filled(table, cap) \cup {s}
         /\ s \in Filled(table, cap) <=> HasKey(table, cap, type)
<1>1. s \in 0 .. cap - 1 /\ table[s].key \in {type, Empty}
  BY SlotFacts
<1>2. table[s].key = type <=> HasKey(table, cap, type)
  BY SlotFacts
<1>3. table \in [0 .. cap - 1 -> Entry]
  BY DEF Good, IsTable
<1>4. new = [table EXCEPT ![s] = [key |-> type, value |-> value]]
  BY DEF SetEntry
<1>5. [key |-> type, value |-> value] \in Entry
  BY DEF Entry
<1>6. /\ IsTable(new, cap)
      /\ new[s].key = type /\ new[s].value = value
      /\ \A i \in 0 .. cap - 1 : i # s => new[i] = table[i]
  BY <1>1, <1>3, <1>4, <1>5 DEF IsTable
<1>7. type # Empty
  BY EmptyAssumption
<1>8. Filled(new, cap) = Filled(table, cap) \cup {s}
  BY <1>1, <1>6, <1>7 DEF Filled
<1>9. s \in Filled(table, cap) <=> HasKey(table, cap, type)
  BY <1>1, <1>2, <1>7 DEF Filled
<1>10. QED
  BY <1>1, <1>6, <1>8, <1>9

\* The table is good again.
LEMMA SetEntryGood ==
  ASSUME HashIsTyped, NEW cap \in Nat \ {0}, NEW type \in Types, NEW value \in Int,
         NEW table, Good(hash, table, cap), HasRoom(table, cap)
  PROVE  Good(hash, SetEntry(table, cap, type, value), cap)
<1>1. PICK s : s = Slot(table, cap, type)
  OBVIOUS
<1>2. PICK new : new = SetEntry(table, cap, type, value)
  OBVIOUS
<1>3. /\ IsTable(new, cap)
      /\ s \in 0 .. cap - 1
      /\ new[s].key = type
      /\ \A i \in 0 .. cap - 1 : i # s => new[i] = table[i]
  BY <1>1, <1>2, SetEntryFacts
<1>4. table[s].key \in {type, Empty}
  BY <1>1, SlotFacts
<1>5. \A i \in 0 .. cap - 1 : table[i].key = type => s = i
  BY <1>1, SlotOfKey
<1>6. type # Empty /\ IsTable(table, cap) /\ OnePlace(table, cap) /\ WellPlaced(hash, table, cap)
  BY EmptyAssumption DEF Good
<1>7. OnePlace(new, cap)
  BY <1>3, <1>5, <1>6 DEF OnePlace
<1>8. \A j \in 0 .. cap - 1 : table[j].key # Empty => new[j].key # Empty
  BY <1>3, <1>6
<1>9. ASSUME NEW i \in 0 .. cap - 1, new[i].key # Empty
      PROVE  \E n \in 0 .. cap - 1 :
               /\ (hash[new[i].key] + n) % cap = i
               /\ \A m \in 0 .. n - 1 : new[(hash[new[i].key] + m) % cap].key # Empty
  <2>1. CASE i = s
    <3>1. PICK n \in 0 .. cap - 1 :
            /\ s = Probe(cap, type, n)
            /\ \A m \in 0 .. n - 1 : ~ StopsAt(table, cap, type, m)
      BY <1>1, RoomEndsProbing, SlotStopsFirst
    <3>2. \A m \in 0 .. n - 1 : Probe(cap, type, m) \in 0 .. cap - 1
      BY ProbeIsSlot
    <3>3. \A m \in 0 .. n - 1 : new[Probe(cap, type, m)].key # Empty
      BY <1>8, <3>1, <3>2 DEF StopsAt
    <3>4. QED
      BY <1>3, <2>1, <3>1, <3>3 DEF Probe
  <2>2. CASE i # s
    <3>1. new[i] = table[i] /\ table[i].key # Empty
      BY <1>3, <1>9, <2>2
    <3>2. table[i].key \in Types
      BY <1>6, <3>1 DEF IsTable, Entry
    <3>3. PICK n \in 0 .. cap - 1 :
            /\ (hash[table[i].key] + n) % cap = i
            /\ \A m \in 0 .. n - 1 : table[(hash[table[i].key] + m) % cap].key # Empty
      BY <1>6, <3>1 DEF WellPlaced
    <3>4. \A m \in 0 .. n - 1 : Probe(cap, table[i].key, m) \in 0 .. cap - 1
      BY <3>2, ProbeIsSlot
    <3>5. \A m \in 0 .. n - 1 : new[(hash[table[i].key] + m) % cap].key # Empty
      BY <1>8, <3>3, <3>4 DEF Probe
    <3>6. QED
      BY <3>1, <3>3, <3>5
  <2>3. QED
    BY <2>1, <2>2
<1>10. WellPlaced(hash, new, cap)
  BY <1>9 DEF WellPlaced
<1>11. QED
  BY <1>2, <1>3, <1>7, <1>10 DEF Good

\* The type has the value, and the others have theirs.
LEMMA SetEntryHolds ==
  ASSUME HashIsTyped, NEW cap \in Nat \ {0}, NEW type \in Types, NEW value \in Int,
         NEW table, Good(hash, table, cap), HasRoom(table, cap),
         NEW other \in Types, NEW v
  PROVE  Holds(SetEntry(table, cap, type, value), cap, other, v) <=>
           IF other = type THEN v = value ELSE Holds(table, cap, other, v)
<1>1. PICK s : s = Slot(table, cap, type)
  OBVIOUS
<1>2. PICK new : new = SetEntry(table, cap, type, value)
  OBVIOUS
<1>3. /\ s \in 0 .. cap - 1
      /\ new[s].key = type /\ new[s].value = value
      /\ \A i \in 0 .. cap - 1 : i # s => new[i] = table[i]
  BY <1>1, <1>2, SetEntryFacts
<1>4. \A i \in 0 .. cap - 1 : table[i].key = type => s = i
  BY <1>1, SlotOfKey
<1>5. table[s].key \in {type, Empty} /\ other # Empty
  BY <1>1, SlotFacts, EmptyAssumption
<1>6. Holds(new, cap, other, v) <=>
        IF other = type THEN v = value ELSE Holds(table, cap, other, v)
  BY <1>3, <1>4, <1>5 DEF Holds
<1>7. QED
  BY <1>2, <1>6

-----------------------------------------------------------------------------
(* Counting slots.                                                         *)

\* The filled slots can be counted, and there are no more than slots.
LEMMA FilledIsFinite ==
  ASSUME NEW cap \in Nat, NEW table
  PROVE  /\ IsFiniteSet(Filled(table, cap))
         /\ Cardinality(Filled(table, cap)) \in Nat
         /\ Cardinality(Filled(table, cap)) <= cap
<1>1. IsFiniteSet(0 .. cap - 1) /\ Cardinality(0 .. cap - 1) = cap
  <2>1. 0 \in Int /\ cap - 1 \in Int
    OBVIOUS
  <2>2. /\ IsFiniteSet(0 .. cap - 1)
        /\ Cardinality(0 .. cap - 1) = IF 0 > cap - 1 THEN 0 ELSE (cap - 1) - 0 + 1
    BY <2>1, FS_Interval
  <2>3. QED
    BY <2>2
<1>2. Filled(table, cap) \in SUBSET (0 .. cap - 1)
  BY DEF Filled
<1>3. QED
  BY <1>1, <1>2, FS_Subset, FS_CardinalityType

\* A table with fewer filled slots than slots has an empty one.
LEMMA NotAllFilled ==
  ASSUME NEW cap \in Nat, NEW table, Cardinality(Filled(table, cap)) < cap
  PROVE  HasRoom(table, cap)
<1>1. SUFFICES ASSUME ~ HasRoom(table, cap) PROVE FALSE
  OBVIOUS
<1>2. Filled(table, cap) = 0 .. cap - 1
  BY <1>1 DEF Filled, HasRoom
<1>3. Cardinality(0 .. cap - 1) = cap
  <2>1. 0 \in Int /\ cap - 1 \in Int
    OBVIOUS
  <2>2. Cardinality(0 .. cap - 1) = IF 0 > cap - 1 THEN 0 ELSE (cap - 1) - 0 + 1
    BY <2>1, FS_Interval
  <2>3. QED
    BY <2>2
<1>4. QED
  BY <1>2, <1>3

\* Setting the entry of a new type fills one more slot, of an old type none.
LEMMA SetEntryCard ==
  ASSUME HashIsTyped, NEW cap \in Nat \ {0}, NEW type \in Types, NEW value \in Int,
         NEW table, Good(hash, table, cap), HasRoom(table, cap)
  PROVE  Cardinality(Filled(SetEntry(table, cap, type, value), cap)) =
           Cardinality(Filled(table, cap)) + IF HasKey(table, cap, type) THEN 0 ELSE 1
<1>1. PICK s : s = Slot(table, cap, type)
  OBVIOUS
<1>2. PICK new : new = SetEntry(table, cap, type, value)
  OBVIOUS
<1>3. /\ Filled(new, cap) = Filled(table, cap) \cup {s}
      /\ s \in Filled(table, cap) <=> HasKey(table, cap, type)
  BY <1>1, <1>2, SetEntryFacts
<1>4. IsFiniteSet(Filled(table, cap)) /\ Cardinality(Filled(table, cap)) \in Nat
  BY FilledIsFinite
<1>5. Cardinality(Filled(table, cap) \cup {s}) =
        IF s \in Filled(table, cap) THEN Cardinality(Filled(table, cap))
        ELSE Cardinality(Filled(table, cap)) + 1
  BY <1>4, FS_AddElement
<1>6. QED
  BY <1>2, <1>3, <1>4, <1>5

-----------------------------------------------------------------------------
(* Expanding.                                                              *)

NewTable == [j \in 0 .. 2 * capacity - 1 |-> NoEntry]

\* The new table after slot i - 1 of the old one, from the one before.
Move(table, i) ==
  IF entries[i - 1].key = Empty THEN table
  ELSE SetEntry(table, 2 * capacity, entries[i - 1].key, entries[i - 1].value)

\* moved is the new tables after the slots before n.
AreMoved(moved, n) ==
  moved = [i \in 0 .. n |-> IF i = 0 THEN NewTable ELSE Move(moved[i - 1], i)]

\* However many slots there are, such tables exist.
LEMMA MovedExists ==
  ASSUME NEW n \in Nat
  PROVE  \E moved : AreMoved(moved, n)
<1> DEFINE Bad == {k \in Nat : \A moved : ~ AreMoved(moved, k)}
<1>1. SUFFICES ASSUME Bad # {} PROVE FALSE
  OBVIOUS
<1>2. Bad \in SUBSET Nat
  OBVIOUS
<1>3. PICK m \in Bad : \A k \in Bad : m <= k
  <2> HIDE DEF Bad
  <2> QED BY <1>1, <1>2, SmallestNumber
<1>4. m \in Nat /\ \A moved : ~ AreMoved(moved, m)
  BY <1>3
<1>5. CASE m = 0
  <2>1. AreMoved([i \in 0 .. 0 |-> NewTable], 0)
    BY DEF AreMoved
  <2>2. QED
    BY <1>4, <1>5, <2>1
<1>6. CASE m # 0
  <2>1. m - 1 \in Nat /\ m - 1 \notin Bad
    BY <1>3, <1>4, <1>6
  <2>2. PICK before : AreMoved(before, m - 1)
    BY <2>1
  <2> DEFINE moved == [i \in 0 .. m |-> IF i < m THEN before[i] ELSE Move(before[m - 1], m)]
  <2>3. ASSUME NEW i \in 0 .. m
        PROVE  moved[i] = IF i = 0 THEN NewTable ELSE Move(moved[i - 1], i)
    <3>1. CASE i = 0
      BY <1>4, <1>6, <2>1, <2>2, <3>1 DEF AreMoved
    <3>2. CASE i # 0 /\ i < m
      <4>1. i \in 0 .. m - 1 /\ i - 1 \in 0 .. m /\ i - 1 < m
        BY <1>4, <3>2
      <4>2. before[i] = Move(before[i - 1], i)
        BY <2>2, <3>2, <4>1 DEF AreMoved
      <4>3. moved[i] = before[i] /\ moved[i - 1] = before[i - 1]
        BY <3>2, <4>1
      <4>4. QED
        BY <3>2, <4>2, <4>3
    <3>3. CASE i = m
      <4>1. m - 1 \in 0 .. m /\ m - 1 < m
        BY <1>4, <2>1
      <4>2. moved[m] = Move(before[m - 1], m) /\ moved[m - 1] = before[m - 1]
        BY <1>4, <4>1
      <4>3. QED
        BY <1>6, <3>3, <4>2
    <3>4. QED
      BY <1>4, <3>1, <3>2, <3>3
  <2>4. moved = [i \in 0 .. m |-> moved[i]]
    OBVIOUS
  <2> HIDE DEF moved
  <2>5. AreMoved(moved, m)
    BY <2>3, <2>4 DEF AreMoved
  <2>6. QED
    BY <1>4, <2>5
<1>7. QED
  BY <1>5, <1>6

\* ht_expand gives the last of these tables.
LEMMA ExpandedIsMoved ==
  ASSUME capacity \in Nat
  PROVE  \E moved : AreMoved(moved, capacity) /\ Expanded = moved[capacity]
<1> DEFINE moved == CHOOSE f : AreMoved(f, capacity)
<1>1. AreMoved(moved, capacity)
  BY MovedExists
<1>2. Expanded = moved[capacity]
  BY DEF Expanded, AreMoved, Move, NewTable
<1> HIDE DEF moved
<1>3. QED
  BY <1>1, <1>2

\* The filled slots of the old table before slot i.
FilledBefore(i) == {j \in 0 .. i - 1 : entries[j].key # Empty}

\* What is true of the new table after the slots before i.
MovedSoFar(table, i) ==
  /\ Good(hash, table, 2 * capacity)
  /\ Cardinality(Filled(table, 2 * capacity)) = Cardinality(FilledBefore(i))
  /\ \A type \in Types : \A v :
       Holds(table, 2 * capacity, type, v) <=>
         \E j \in 0 .. i - 1 : entries[j].key = type /\ entries[j].value = v

\* It is true of the empty table,
LEMMA NothingMoved ==
  ASSUME capacity \in Nat \ {0}
  PROVE  MovedSoFar(NewTable, 0)
<1> DEFINE cap == 2 * capacity
<1>1. cap \in Nat \ {0}
  OBVIOUS
<1> HIDE DEF cap
<1>2. NewTable = [j \in 0 .. cap - 1 |-> NoEntry]
  BY DEF NewTable, cap
<1>3. NoEntry \in Entry /\ NoEntry.key = Empty
  BY DEF NoEntry, Entry
<1>4. IsTable(NewTable, cap) /\ \A j \in 0 .. cap - 1 : NewTable[j].key = Empty
  BY <1>2, <1>3 DEF IsTable
<1>5. Good(hash, NewTable, cap)
  BY <1>4 DEF Good, OnePlace, WellPlaced
<1>6. Filled(NewTable, cap) = {} /\ FilledBefore(0) = {}
  BY <1>4 DEF Filled, FilledBefore
<1>7. \A type \in Types : \A v : ~ Holds(NewTable, cap, type, v)
  BY <1>4, EmptyAssumption DEF Holds
<1>8. QED
  BY <1>5, <1>6, <1>7 DEF MovedSoFar, cap

\* and it stays true with each slot.
LEMMA OneMoved ==
  ASSUME HashIsTyped, capacity \in Nat \ {0}, Good(hash, entries, capacity),
         NEW i \in 1 .. capacity, NEW table, MovedSoFar(table, i - 1)
  PROVE  MovedSoFar(Move(table, i), i)
<1> DEFINE cap == 2 * capacity
           type == entries[i - 1].key
           value == entries[i - 1].value
<1>1. cap \in Nat \ {0} /\ i - 1 \in 0 .. capacity - 1 /\ i - 1 \in Nat
  OBVIOUS
<1>2. entries[i - 1] \in Entry
  BY <1>1 DEF Good, IsTable
<1>3. /\ Good(hash, table, cap)
      /\ Cardinality(Filled(table, cap)) = Cardinality(FilledBefore(i - 1))
      /\ \A other \in Types : \A v :
           Holds(table, cap, other, v) <=>
             \E j \in 0 .. i - 2 : entries[j].key = other /\ entries[j].value = v
  BY DEF MovedSoFar
<1>4. /\ IsFiniteSet(FilledBefore(i - 1)) /\ Cardinality(FilledBefore(i - 1)) \in Nat
      /\ Cardinality(FilledBefore(i - 1)) <= i - 1
  <2>1. FilledBefore(i - 1) = Filled(entries, i - 1)
    BY DEF FilledBefore, Filled
  <2>2. QED
    BY <1>1, <2>1, FilledIsFinite
<1>5. FilledBefore(i) = FilledBefore(i - 1) \cup (IF type = Empty THEN {} ELSE {i - 1})
  BY <1>1 DEF FilledBefore
<1>6. \A other, v :
        (\E j \in 0 .. i - 1 : entries[j].key = other /\ entries[j].value = v) <=>
          \/ \E j \in 0 .. i - 2 : entries[j].key = other /\ entries[j].value = v
          \/ type = other /\ value = v
  BY <1>1
<1>7. CASE type = Empty
  <2>1. Move(table, i) = table
    BY <1>7 DEF Move
  <2>2. FilledBefore(i) = FilledBefore(i - 1)
    BY <1>5, <1>7
  <2>3. \A other \in Types : other # type
    BY <1>7, EmptyAssumption
  <2> HIDE DEF type, value, cap
  <2>4. \A other \in Types : \A v :
          Holds(table, cap, other, v) <=>
            \E j \in 0 .. i - 1 : entries[j].key = other /\ entries[j].value = v
    BY <1>3, <1>6, <2>3
  <2>5. QED
    BY <1>3, <2>1, <2>2, <2>4 DEF MovedSoFar, cap
<1>8. CASE type # Empty
  <2>1. type \in Types /\ value \in Int
    BY <1>2, <1>8 DEF Entry
  <2>2. Move(table, i) = SetEntry(table, cap, type, value)
    BY <1>8 DEF Move
  <2>3. HasRoom(table, cap)
    BY <1>1, <1>3, <1>4, NotAllFilled
  <2>4. \A j \in 0 .. i - 2 : entries[j].key # type
    BY <1>1, <1>8 DEF Good, OnePlace
  <2>5. ~ HasKey(table, cap, type)
    <3>1. SUFFICES ASSUME HasKey(table, cap, type) PROVE FALSE
      OBVIOUS
    <3>2. PICK j \in 0 .. cap - 1 : table[j].key = type
      BY <3>1 DEF HasKey
    <3>3. Holds(table, cap, type, table[j].value)
      BY <3>2 DEF Holds
    <3>4. QED
      BY <1>3, <2>1, <2>4, <3>3
  <2> HIDE DEF type, value, cap
  <2>6. Good(hash, SetEntry(table, cap, type, value), cap)
    BY <1>1, <1>3, <2>1, <2>3, SetEntryGood
  <2>7. Cardinality(Filled(SetEntry(table, cap, type, value), cap)) =
          Cardinality(FilledBefore(i - 1)) + 1
    BY <1>1, <1>3, <2>1, <2>3, <2>5, SetEntryCard
  <2>8. Cardinality(FilledBefore(i)) = Cardinality(FilledBefore(i - 1)) + 1
    <3>1. i - 1 \notin FilledBefore(i - 1)
      BY <1>1 DEF FilledBefore
    <3>2. QED
      BY <1>4, <1>5, <1>8, <3>1, FS_AddElement
  <2>9. ASSUME NEW other \in Types, NEW v
        PROVE  Holds(SetEntry(table, cap, type, value), cap, other, v) <=>
                 \E j \in 0 .. i - 1 : entries[j].key = other /\ entries[j].value = v
    <3>1. Holds(SetEntry(table, cap, type, value), cap, other, v) <=>
            IF other = type THEN v = value ELSE Holds(table, cap, other, v)
      BY <1>1, <1>3, <2>1, <2>3, SetEntryHolds
    <3>2. CASE other = type
      BY <1>6, <2>4, <3>1, <3>2
    <3>3. CASE other # type
      BY <1>3, <1>6, <3>1, <3>3
    <3>4. QED
      BY <3>2, <3>3
  <2>10. QED
    BY <2>2, <2>6, <2>7, <2>8, <2>9 DEF MovedSoFar, cap
<1>9. QED
  BY <1>7, <1>8

\* The expanded table is good, and holds what the table held.
LEMMA ExpandedFacts ==
  ASSUME HashIsTyped, capacity \in Nat \ {0}, Good(hash, entries, capacity)
  PROVE  /\ Good(hash, Expanded, 2 * capacity)
         /\ Cardinality(Filled(Expanded, 2 * capacity)) = Cardinality(Filled(entries, capacity))
         /\ \A type \in Types : \A v :
              Holds(Expanded, 2 * capacity, type, v) <=> Holds(entries, capacity, type, v)
<1>1. PICK moved : AreMoved(moved, capacity) /\ Expanded = moved[capacity]
  BY ExpandedIsMoved
<1>2. /\ moved[0] = NewTable
      /\ \A i \in 1 .. capacity : moved[i] = Move(moved[i - 1], i)
  BY <1>1 DEF AreMoved
<1> DEFINE Wrong == {i \in 0 .. capacity : ~ MovedSoFar(moved[i], i)}
<1>3. Wrong = {}
  <2>1. SUFFICES ASSUME Wrong # {} PROVE FALSE
    OBVIOUS
  <2>2. Wrong \in SUBSET Nat
    OBVIOUS
  <2>3. PICK m \in Wrong : \A k \in Wrong : m <= k
    <3> HIDE DEF Wrong
    <3> QED BY <2>1, <2>2, SmallestNumber
  <2>4. m \in 0 .. capacity /\ ~ MovedSoFar(moved[m], m)
    OBVIOUS
  <2>5. m # 0
    BY <1>2, <2>4, NothingMoved
  <2>6. m \in 1 .. capacity /\ m - 1 \in 0 .. capacity /\ m - 1 \notin Wrong
    BY <2>3, <2>4, <2>5
  <2>7. MovedSoFar(moved[m - 1], m - 1)
    BY <2>6
  <2>8. QED
    BY <1>2, <2>4, <2>6, <2>7, OneMoved
<1>4. MovedSoFar(Expanded, capacity)
  BY <1>1, <1>3
<1>5. FilledBefore(capacity) = Filled(entries, capacity)
  BY DEF FilledBefore, Filled
<1>6. QED
  BY <1>4, <1>5 DEF MovedSoFar, Holds

-----------------------------------------------------------------------------
(* The inductive invariant.                                                *)

\* The length is the number of types in the table, which is at most half full.
LengthCounts ==
  /\ length = Cardinality(Filled(entries, capacity))
  /\ length <= capacity \div 2

IInv ==
  /\ TypeOK
  /\ Good(hash, entries, capacity)
  /\ LengthCounts
  /\ RetrievalMissesNothing

\* What the lemmas about tables need.
LEMMA InvariantFacts ==
  ASSUME IInv
  PROVE  /\ HashIsTyped
         /\ capacity \in Nat \ {0, 1} /\ 2 * capacity \in Nat \ {0, 1}
         /\ Good(hash, entries, capacity)
         /\ HasRoom(entries, capacity)
         /\ length \in Nat /\ length <= capacity \div 2 /\ capacity \div 2 < capacity
<1>1. HashIsTyped
  BY HashesAssumption DEF IInv, TypeOK, HashIsTyped
<1>2. capacity \in Nat \ {0, 1} /\ length \in Nat /\ Good(hash, entries, capacity)
  BY DEF IInv, TypeOK
<1>3. capacity \div 2 < capacity /\ 2 * capacity \in Nat \ {0, 1} /\ capacity \div 2 \in Nat
  BY <1>2
<1>4. length <= capacity \div 2 /\ length = Cardinality(Filled(entries, capacity))
  BY DEF IInv, LengthCounts
<1>5. Cardinality(Filled(entries, capacity)) < capacity
  BY <1>2, <1>3, <1>4
<1>6. HasRoom(entries, capacity)
  BY <1>2, <1>5, NotAllFilled
<1>7. QED
  BY <1>1, <1>2, <1>3, <1>4, <1>6

\* A lookup tells whether the table has the type.
LEMMA FoundIsHasKey ==
  ASSUME IInv, NEW type \in Types
  PROVE  Found(type) <=> HasKey(entries, capacity, type)
BY InvariantFacts, SlotFacts DEF Found

\* No type leaves its slot as long as the table is not expanded.
LEMMA KeysStay ==
  ASSUME IInv, NEW type \in Types, NEW value \in Int,
         entries' = SetEntry(entries, capacity, type, value), capacity' = capacity
  PROVE  \A i \in 0 .. capacity - 1 :
           entries[i].key # Empty => entries'[i].key = entries[i].key
<1>1. PICK s : s = Slot(entries, capacity, type)
  OBVIOUS
<1>2. /\ entries'[s].key = type
      /\ \A i \in 0 .. capacity - 1 : i # s => entries'[i] = entries[i]
  BY <1>1, InvariantFacts, SetEntryFacts
<1>3. entries[s].key \in {type, Empty}
  BY <1>1, InvariantFacts, SlotFacts
<1>4. QED
  BY <1>2, <1>3

\* So whatever is ahead of the iterator stays there.
LEMMA NothingOvertaken ==
  ASSUME IInv, UNCHANGED <<capacity, iterator, dictionary, due>>,
         \A i \in 0 .. capacity - 1 : entries[i].key # Empty => entries'[i].key = entries[i].key
  PROVE  RetrievalMissesNothing'
<1>1. SUFFICES ASSUME iterator # -1, NEW type \in due
               PROVE  type \in dictionary \cup {entries'[i].key : i \in Ahead'}
  BY DEF RetrievalMissesNothing
<1>2. CASE type \in dictionary
  BY <1>2
<1>3. CASE type \notin dictionary
  <2>1. PICK i \in Ahead : type = entries[i].key
    BY <1>1, <1>3 DEF IInv, RetrievalMissesNothing
  <2>2. iterator \in -1 .. capacity /\ capacity \in Nat
    BY DEF IInv, TypeOK
  <2>3. i \in 0 .. capacity - 1 /\ i \in iterator .. capacity - 1 /\ entries[i].key # Empty
    BY <1>1, <2>2 DEF Ahead
  <2>4. entries'[i].key = entries[i].key
    BY <2>3
  <2>5. i \in Ahead'
    BY <2>3, <2>4 DEF Ahead
  <2>6. QED
    BY <2>1, <2>4, <2>5
<1>4. QED
  BY <1>2, <1>3

-----------------------------------------------------------------------------
(* The steps.                                                              *)

\* The count of a type that is in the table changes: no key moves.
LEMMA IncrementKeepsInvariant ==
  ASSUME IInv, NEW type \in Types, NEW delta \in {1, -1}, Increment(type, delta)
  PROVE  IInv'
<1>1. PICK value \in Int : entries' = SetEntry(entries, capacity, type, value)
  BY MaxCountAssumption DEF Increment
<1>2. UNCHANGED <<hash, capacity, length, iterator, dictionary, due>> /\ Found(type)
  BY DEF Increment
<1>3. Good(hash, entries', capacity)
  BY <1>1, InvariantFacts, SetEntryGood
<1>4. Cardinality(Filled(entries', capacity)) = Cardinality(Filled(entries, capacity))
  <2>1. HasKey(entries, capacity, type)
    BY <1>2, FoundIsHasKey
  <2>2. Cardinality(Filled(entries', capacity)) = Cardinality(Filled(entries, capacity)) + 0
    BY <1>1, <2>1, InvariantFacts, SetEntryCard
  <2>3. Cardinality(Filled(entries, capacity)) \in Nat
    BY DEF IInv, TypeOK, LengthCounts
  <2>4. QED
    BY <2>2, <2>3
<1>5. RetrievalMissesNothing'
  BY <1>1, <1>2, KeysStay, NothingOvertaken
<1>6. TypeOK'
  BY <1>2, <1>3 DEF IInv, TypeOK, Good, IsTable, Entry
<1>7. QED
  BY <1>2, <1>3, <1>4, <1>5, <1>6 DEF IInv, LengthCounts, Good, WellPlaced

\* A type is inserted, into the table as it is or into one twice as large.
LEMMA InsertKeepsInvariant ==
  ASSUME IInv, NEW type \in Types, NEW delta \in {1, -1}, Insert(type, delta)
  PROVE  IInv'
<1>1. /\ length' = length + 1 /\ UNCHANGED <<hash, iterator, dictionary>>
      /\ ~ HasKey(entries, capacity, type) /\ delta \in Int
  BY FoundIsHasKey DEF Insert
<1>2. /\ HashIsTyped /\ capacity \in Nat \ {0, 1} /\ 2 * capacity \in Nat \ {0, 1}
      /\ Good(hash, entries, capacity) /\ HasRoom(entries, capacity)
      /\ length \in Nat /\ length <= capacity \div 2
      /\ length = Cardinality(Filled(entries, capacity))
  BY InvariantFacts DEF IInv, LengthCounts
<1>3. CASE /\ ~ MustExpand
           /\ entries' = SetEntry(entries, capacity, type, delta)
           /\ UNCHANGED <<capacity, due>>
  <2>1. Good(hash, entries', capacity)
    BY <1>1, <1>2, <1>3, SetEntryGood
  <2>2. Cardinality(Filled(entries', capacity)) = length + 1
    BY <1>1, <1>2, <1>3, SetEntryCard
  <2>3. length + 1 <= capacity \div 2
    BY <1>2, <1>3 DEF MustExpand
  <2>4. RetrievalMissesNothing'
    BY <1>1, <1>3, KeysStay, NothingOvertaken
  <2>5. TypeOK'
    BY <1>1, <1>3, <2>1 DEF IInv, TypeOK, Good, IsTable, Entry
  <2>6. QED
    BY <1>1, <1>3, <2>1, <2>2, <2>3, <2>4, <2>5 DEF IInv, LengthCounts, Good, WellPlaced
<1>4. CASE /\ capacity' = 2 * capacity
           /\ entries' = SetEntry(Expanded, capacity', type, delta)
           /\ due' = {}
  <2> DEFINE cap == 2 * capacity
  <2>1. /\ Good(hash, Expanded, cap)
        /\ Cardinality(Filled(Expanded, cap)) = length
    BY <1>2, ExpandedFacts
  <2>2. \A v : Holds(Expanded, cap, type, v) <=> Holds(entries, capacity, type, v)
    BY <1>2, ExpandedFacts
  <2>3. ~ HasKey(Expanded, cap, type)
    BY <1>1, <2>2 DEF HasKey, Holds
  <2>4. HasRoom(Expanded, cap)
    <3>1. length < cap
      BY <1>2
    <3>2. QED
      BY <1>2, <2>1, <3>1, NotAllFilled
  <2>5. Good(hash, entries', cap)
    BY <1>1, <1>2, <1>4, <2>1, <2>4, SetEntryGood
  <2>6. Cardinality(Filled(entries', cap)) = length + 1
    BY <1>1, <1>2, <1>4, <2>1, <2>3, <2>4, SetEntryCard
  <2>7. length + 1 <= cap \div 2
    BY <1>2
  <2>8. RetrievalMissesNothing'
    BY <1>4 DEF RetrievalMissesNothing
  <2>9. iterator' \in -1 .. cap
    BY <1>1, <1>2 DEF IInv, TypeOK
  <2>10. TypeOK'
    <3>1. capacity' = cap /\ cap \in Nat \ {0, 1}
      BY <1>2, <1>4
    <3>2. entries' \in [0 .. cap - 1 -> Entry]
      BY <2>5 DEF Good, IsTable
    <3>3. entries' \in [0 .. capacity' - 1 -> [key : Types \cup {Empty}, value : Int]]
      BY <3>1, <3>2 DEF Entry
    <3>4. length' \in Nat
      BY <1>1, <1>2
    <3>5. iterator' \in -1 .. capacity'
      BY <3>1, <2>9
    <3>6. hash' \in [Types -> Hashes] /\ dictionary' \in SUBSET Types
      BY <1>1 DEF IInv, TypeOK
    <3>7. due' \in SUBSET Types
      BY <1>4
    <3>8. QED
      BY <3>1, <3>3, <3>4, <3>5, <3>6, <3>7 DEF TypeOK
  <2>11. QED
    BY <1>1, <1>4, <2>5, <2>6, <2>7, <2>8, <2>10 DEF IInv, LengthCounts, Good, WellPlaced
<1>5. QED
  BY <1>3, <1>4 DEF Insert

\* There is no memory for the larger table: the old one stays.
LEMMA InsertFailsKeepsInvariant ==
  ASSUME IInv, NEW type \in Types, InsertFails(type)
  PROVE  IInv'
<1>1. /\ capacity' = 2 * capacity /\ entries' = Expanded /\ due' = {}
      /\ UNCHANGED <<hash, length, iterator, dictionary>>
  BY DEF InsertFails
<1>2. /\ HashIsTyped /\ capacity \in Nat \ {0, 1} /\ Good(hash, entries, capacity)
      /\ length \in Nat /\ length <= capacity \div 2
      /\ length = Cardinality(Filled(entries, capacity))
  BY InvariantFacts DEF IInv, LengthCounts
<1>3. Good(hash, entries', 2 * capacity) /\ Cardinality(Filled(entries', 2 * capacity)) = length
  BY <1>1, <1>2, ExpandedFacts
<1>4. length <= (2 * capacity) \div 2
  BY <1>2
<1>5. RetrievalMissesNothing'
  BY <1>1 DEF RetrievalMissesNothing
<1>6. iterator' \in -1 .. 2 * capacity
  BY <1>1, <1>2 DEF IInv, TypeOK
<1>7. TypeOK'
  BY <1>1, <1>2, <1>3, <1>6 DEF IInv, TypeOK, Good, IsTable, Entry
<1>8. QED
  BY <1>1, <1>3, <1>4, <1>5, <1>7 DEF IInv, LengthCounts, Good, WellPlaced

\* The retrieval leaves the table alone.
LEMMA RetrievalKeepsInvariant ==
  ASSUME IInv, BeginRetrieval \/ RetrieveNext \/ EndRetrieval
  PROVE  IInv'
<1>1. UNCHANGED <<hash, capacity, entries, length>>
  BY DEF BeginRetrieval, RetrieveNext, EndRetrieval
<1>2. Good(hash', entries', capacity') /\ LengthCounts'
  BY <1>1 DEF IInv, LengthCounts
<1>3. /\ TypeOK /\ capacity \in Nat
      /\ \A i \in 0 .. capacity - 1 : entries[i].key \in Types \cup {Empty}
  BY DEF IInv, TypeOK
<1>4. CASE BeginRetrieval
  <2>1. Stored \subseteq Types
    BY <1>3 DEF Stored
  <2>2. TypeOK'
    BY <1>1, <1>3, <1>4, <2>1 DEF BeginRetrieval, TypeOK
  <2>3. \A type \in Stored : \E i \in Ahead' : type = entries'[i].key
    BY <1>1, <1>3, <1>4 DEF BeginRetrieval, Stored, Ahead
  <2>4. RetrievalMissesNothing'
    BY <1>4, <2>3 DEF BeginRetrieval, RetrievalMissesNothing
  <2>5. QED
    BY <1>2, <2>2, <2>4 DEF IInv
<1>5. CASE RetrieveNext
  <2>1. PICK i \in Ahead :
          /\ \A j \in Ahead : i <= j
          /\ dictionary' = dictionary \cup {entries[i].key}
          /\ iterator' = i + 1
    BY <1>5 DEF RetrieveNext
  <2>2. iterator # -1 /\ due' = due /\ iterator \in 0 .. capacity
    BY <1>3, <1>5 DEF RetrieveNext, TypeOK
  <2>3. i \in 0 .. capacity - 1 /\ entries[i].key \in Types
    BY <1>3, <2>2 DEF Ahead
  <2>4. TypeOK'
    BY <1>1, <1>3, <2>1, <2>2, <2>3 DEF TypeOK
  <2>5. \A j \in Ahead : j = i \/ j \in Ahead'
    BY <1>1, <1>3, <2>1, <2>2, <2>3 DEF Ahead
  <2>6. \A type \in due : type \in dictionary \/ \E j \in Ahead : type = entries[j].key
    BY <2>2 DEF IInv, RetrievalMissesNothing
  <2>7. \A type \in due : type \in dictionary' \/ \E j \in Ahead' : type = entries[j].key
    BY <2>1, <2>5, <2>6
  <2>8. RetrievalMissesNothing'
    BY <1>1, <2>2, <2>7 DEF RetrievalMissesNothing
  <2>9. QED
    BY <1>2, <2>4, <2>8 DEF IInv
<1>6. CASE EndRetrieval
  <2>1. TypeOK' /\ RetrievalMissesNothing'
    BY <1>1, <1>3, <1>6 DEF EndRetrieval, TypeOK, RetrievalMissesNothing
  <2>2. QED
    BY <1>2, <2>1 DEF IInv
<1>7. QED
  BY <1>4, <1>5, <1>6

\* The empty table.
LEMMA InitInvariant == Init => IInv
<1> SUFFICES ASSUME Init PROVE IInv
  OBVIOUS
<1>1. capacity \in Nat \ {0, 1} /\ length = 0 /\ iterator = -1
  BY CapacityAssumption DEF Init
<1>2. entries = [i \in 0 .. capacity - 1 |-> NoEntry]
  BY DEF Init
<1>3. NoEntry \in Entry /\ NoEntry.key = Empty
  BY DEF NoEntry, Entry
<1>4. IsTable(entries, capacity) /\ \A j \in 0 .. capacity - 1 : entries[j].key = Empty
  BY <1>2, <1>3 DEF IsTable
<1>5. TypeOK /\ RetrievalMissesNothing
  BY <1>1, <1>4 DEF Init, TypeOK, IsTable, Entry, RetrievalMissesNothing
<1>6. Good(hash, entries, capacity)
  BY <1>4 DEF Good, OnePlace, WellPlaced
<1>7. LengthCounts
  <2>1. Filled(entries, capacity) = {}
    BY <1>4 DEF Filled
  <2>2. QED
    BY <1>1, <2>1, FS_EmptySet DEF LengthCounts
<1>8. QED
  BY <1>5, <1>6, <1>7 DEF IInv

-----------------------------------------------------------------------------
(* The theorems.                                                           *)

\* Every operation on the table keeps the invariant.
LEMMA NextInvariant ==
  ASSUME IInv, [Next]_vars
  PROVE  IInv'
<1>1. CASE UNCHANGED vars
  BY <1>1 DEF vars, IInv, TypeOK, LengthCounts, RetrievalMissesNothing, Ahead
<1>2. QED
  BY <1>1, IncrementKeepsInvariant, InsertKeepsInvariant, InsertFailsKeepsInvariant,
     RetrievalKeepsInvariant DEF Next

\* The invariant.
THEOREM Invariance == Spec => []IInv
<1>1. IInv /\ [Next]_vars => IInv'
  BY NextInvariant
<1>2. QED
  BY <1>1, InitInvariant, PTL DEF Spec

\* The types.
THEOREM TypeCorrect == Spec => []TypeOK
<1>1. IInv => TypeOK
  BY DEF IInv
<1>2. QED
  BY <1>1, Invariance, PTL

\* ht_get and ht_set never loop forever: there is always an empty slot.
THEOREM LookupsTerminate == Spec => []LookupsEnd
<1>1. IInv => LookupsEnd
  BY InvariantFacts, RoomEndsProbing DEF LookupsEnd
<1>2. QED
  BY <1>1, Invariance, PTL

\* live_object_counts misses no type, whatever is counted while it runs.
THEOREM RetrievalComplete == Spec => []RetrievalMissesNothing
<1>1. IInv => RetrievalMissesNothing
  BY DEF IInv
<1>2. QED
  BY <1>1, Invariance, PTL

-----------------------------------------------------------------------------
(* The table implements the counts of the design note.                     *)

Counts == [type \in Stored |-> entries[Slot(entries, capacity, type)].value]

\* The counts are what the table holds, without regard to its slots.
CountsFacts ==
  /\ Counts = [type \in DOMAIN Counts |-> Counts[type]]
  /\ DOMAIN Counts \subseteq Types
  /\ \A type \in Types :
       /\ type \in DOMAIN Counts <=> \E v : Holds(entries, capacity, type, v)
       /\ type \in DOMAIN Counts =>
            \A v : Holds(entries, capacity, type, v) <=> v = Counts[type]

\* Looking a type up gives the value that the table holds for it.
LEMMA CountsAreHeld ==
  ASSUME IInv
  PROVE  CountsFacts
<1>1. /\ HashIsTyped /\ capacity \in Nat \ {0} /\ Good(hash, entries, capacity)
      /\ HasRoom(entries, capacity)
  BY InvariantFacts
<1>2. DOMAIN Counts = Stored /\ Counts = [type \in DOMAIN Counts |-> Counts[type]]
  BY DEF Counts
<1>3. Stored \subseteq Types
  BY <1>1 DEF Stored, Good, IsTable, Entry
<1>4. ASSUME NEW type \in Types
      PROVE  type \in Stored <=> \E v : Holds(entries, capacity, type, v)
  BY EmptyAssumption DEF Stored, Holds
<1>5. ASSUME NEW type \in Types, type \in Stored, NEW v
      PROVE  Holds(entries, capacity, type, v) <=> v = Counts[type]
  <2>1. Counts[type] = entries[Slot(entries, capacity, type)].value
    BY <1>5 DEF Counts
  <2>2. \A i \in 0 .. capacity - 1 :
          entries[i].key = type => Slot(entries, capacity, type) = i
    BY <1>1, SlotOfKey
  <2>3. PICK i \in 0 .. capacity - 1 : entries[i].key = type
    BY <1>5 DEF Stored
  <2>4. QED
    BY <2>1, <2>2, <2>3 DEF Holds
<1>6. QED
  BY <1>2, <1>3, <1>4, <1>5 DEF CountsFacts

\* The same in the next state.
LEMMA CountsAreHeldNext == IInv' => CountsFacts'
<1>1. IInv => CountsFacts
  BY CountsAreHeld
<1>2. QED
  BY <1>1, PTL

HoldsNext(type, v) == Holds(entries', capacity', type, v)

\* The step adds delta to the number that counts gives for the type.
Adds(counts, type, delta) ==
  \A other \in Types : \A v :
    HoldsNext(other, v) <=>
      IF other = type
        THEN v = (IF type \in DOMAIN counts THEN counts[type] ELSE 0) + delta
        ELSE Holds(entries, capacity, other, v)

\* What a step does to what the table holds: nothing, or it counts one type.
LEMMA StepHolds ==
  ASSUME IInv, [Next]_vars
  PROVE  \/ \A type \in Types : \A v :
              HoldsNext(type, v) <=> Holds(entries, capacity, type, v)
         \/ \E type \in Types, delta \in {1, -1} : Adds(Counts, type, delta)
<1>1. /\ HashIsTyped /\ capacity \in Nat \ {0} /\ Good(hash, entries, capacity)
      /\ HasRoom(entries, capacity) /\ 2 * capacity \in Nat \ {0}
  BY InvariantFacts
<1>2. \A type \in Types : Found(type) <=> type \in DOMAIN Counts
  BY FoundIsHasKey, EmptyAssumption DEF Counts, Stored, HasKey
<1>3. ASSUME NEW type \in Types, NEW delta \in {1, -1}, Increment(type, delta)
      PROVE  \A other \in Types : \A v :
               HoldsNext(other, v) <=>
                 IF other = type THEN v = Counts[type] + delta
                 ELSE Holds(entries, capacity, other, v)
  <2>1. /\ entries' = SetEntry(entries, capacity, type, Counts[type] + delta)
        /\ capacity' = capacity /\ Counts[type] + delta \in Int
    BY <1>2, <1>3, MaxCountAssumption DEF Increment, Counts
  <2>2. QED
    BY <1>1, <2>1, SetEntryHolds DEF HoldsNext
<1>4. ASSUME NEW type \in Types, NEW delta \in {1, -1}, Insert(type, delta)
      PROVE  \A other \in Types : \A v :
               HoldsNext(other, v) <=>
                 IF other = type THEN v = delta ELSE Holds(entries, capacity, other, v)
  <2>1. CASE entries' = SetEntry(entries, capacity, type, delta) /\ capacity' = capacity
    BY <1>1, <2>1, SetEntryHolds DEF HoldsNext
  <2>2. CASE /\ capacity' = 2 * capacity
             /\ entries' = SetEntry(Expanded, capacity', type, delta)
    <3>1. /\ Good(hash, Expanded, 2 * capacity)
          /\ \A other \in Types : \A v :
               Holds(Expanded, 2 * capacity, other, v) <=> Holds(entries, capacity, other, v)
      BY <1>1, ExpandedFacts
    <3>2. HasRoom(Expanded, 2 * capacity)
      <4>1. Cardinality(Filled(Expanded, 2 * capacity)) = Cardinality(Filled(entries, capacity))
        BY <1>1, ExpandedFacts
      <4>2. Cardinality(Filled(entries, capacity)) < 2 * capacity
        BY <1>1, InvariantFacts DEF IInv, LengthCounts
      <4>3. QED
        BY <1>1, <4>1, <4>2, NotAllFilled
    <3>3. QED
      BY <1>1, <2>2, <3>1, <3>2, SetEntryHolds DEF HoldsNext
  <2>3. QED
    BY <1>4, <2>1, <2>2 DEF Insert
<1>5. ASSUME NEW type \in Types, NEW delta \in {1, -1}, Insert(type, delta)
      PROVE  type \notin DOMAIN Counts
  BY <1>2, <1>5 DEF Insert
<1>6. ASSUME NEW type \in Types, InsertFails(type)
      PROVE  \A other \in Types : \A v :
               HoldsNext(other, v) <=> Holds(entries, capacity, other, v)
  BY <1>1, <1>6, ExpandedFacts DEF InsertFails, HoldsNext
<1>7. CASE UNCHANGED <<capacity, entries>>
  BY <1>7 DEF HoldsNext
<1>8. CASE \E type \in Types, delta \in {1, -1} : Increment(type, delta)
  <2>1. PICK type \in Types, delta \in {1, -1} : Increment(type, delta)
    BY <1>8
  <2>2. type \in DOMAIN Counts
    BY <1>2, <2>1 DEF Increment
  <2>3. Adds(Counts, type, delta)
    BY <1>3, <2>1, <2>2 DEF Adds
  <2>4. QED
    BY <2>3
<1>9. CASE \E type \in Types, delta \in {1, -1} : Insert(type, delta)
  <2>1. PICK type \in Types, delta \in {1, -1} : Insert(type, delta)
    BY <1>9
  <2>2. type \notin DOMAIN Counts /\ 0 + delta = delta
    BY <1>5, <2>1
  <2>3. Adds(Counts, type, delta)
    BY <1>4, <2>1, <2>2 DEF Adds
  <2>4. QED
    BY <2>3
<1>10. QED
  BY <1>6, <1>7, <1>8, <1>9 DEF Next, vars, BeginRetrieval, RetrieveNext, EndRetrieval

\* So every step counts one type, or leaves the counts as they are.
LEMMA StepCounts ==
  ASSUME IInv, IInv', [Next]_vars
  PROVE  \/ Counts' = Counts
         \/ \E type \in Types, delta \in {1, -1} :
              Counts' = [other \in DOMAIN Counts \cup {type} |->
                           (IF other \in DOMAIN Counts THEN Counts[other] ELSE 0)
                           + (IF other = type THEN delta ELSE 0)]
<1> DEFINE Old == Counts
           New == Counts'
<1>1. /\ Old = [type \in DOMAIN Old |-> Old[type]]
      /\ DOMAIN Old \subseteq Types
      /\ \A type \in Types :
           /\ type \in DOMAIN Old <=> \E v : Holds(entries, capacity, type, v)
           /\ type \in DOMAIN Old =>
                \A v : Holds(entries, capacity, type, v) <=> v = Old[type]
  BY CountsAreHeld DEF CountsFacts
<1>2. /\ New = [type \in DOMAIN New |-> New[type]]
      /\ DOMAIN New \subseteq Types
      /\ \A type \in Types :
           /\ type \in DOMAIN New <=> \E v : HoldsNext(type, v)
           /\ type \in DOMAIN New => \A v : HoldsNext(type, v) <=> v = New[type]
  BY CountsAreHeldNext DEF CountsFacts, HoldsNext, Holds
<1>3. \A type \in DOMAIN Old : Old[type] \in Int
  BY InvariantFacts, SlotFacts DEF Counts, Stored, Good, IsTable, Entry
<1> HIDE DEF Old, New
<1>4. CASE \A type \in Types : \A v :
             HoldsNext(type, v) <=> Holds(entries, capacity, type, v)
  <2>1. DOMAIN New = DOMAIN Old
    BY <1>1, <1>2, <1>4
  <2>2. \A type \in DOMAIN Old : New[type] = Old[type]
    BY <1>1, <1>2, <1>4, <2>1
  <2>3. New = Old
    BY <1>1, <1>2, <2>1, <2>2
  <2>4. QED
    BY <2>3 DEF Old, New
<1>5. ASSUME NEW type \in Types, NEW delta \in {1, -1}, Adds(Old, type, delta)
      PROVE  New = [other \in DOMAIN Old \cup {type} |->
                      (IF other \in DOMAIN Old THEN Old[other] ELSE 0)
                      + (IF other = type THEN delta ELSE 0)]
  <2> DEFINE value == (IF type \in DOMAIN Old THEN Old[type] ELSE 0) + delta
  <2>0. /\ \A v : HoldsNext(type, v) <=> v = value
        /\ \A other \in Types : other # type =>
             \A v : HoldsNext(other, v) <=> Holds(entries, capacity, other, v)
    BY <1>5 DEF Adds
  <2> HIDE DEF value
  <2>1. DOMAIN New = DOMAIN Old \cup {type}
    <3>1. type \in DOMAIN New
      BY <1>2, <2>0
    <3>2. \A other \in Types : other # type => (other \in DOMAIN New <=> other \in DOMAIN Old)
      BY <1>1, <1>2, <2>0
    <3>3. QED
      BY <1>1, <1>2, <3>1, <3>2
  <2>2. New[type] = (IF type \in DOMAIN Old THEN Old[type] ELSE 0) + delta
    <3>1. HoldsNext(type, value)
      BY <2>0
    <3>2. value = New[type]
      BY <1>2, <2>1, <3>1
    <3>3. QED
      BY <3>2 DEF value
  <2>3. \A other \in DOMAIN Old : other # type => New[other] = Old[other]
    BY <1>1, <1>2, <2>1, <2>0
  <2>4. \A other \in DOMAIN Old : other # type => New[other] = Old[other] + 0
    BY <1>3, <2>3
  <2>5. \A other \in DOMAIN New :
          New[other] = (IF other \in DOMAIN Old THEN Old[other] ELSE 0)
                       + (IF other = type THEN delta ELSE 0)
    BY <2>1, <2>2, <2>4
  <2>6. QED
    BY <1>2, <2>1, <2>5
<1>6. QED
  BY <1>4, <1>5, StepHolds DEF Old, New

\* However types collide, however often the table is expanded and whenever there
\* is no memory, the table is the map from types to counts.
THEOREM Refinement == Spec => ImplementsLiveCounts
<1>1. Init => ByType!Init
  <2> SUFFICES ASSUME Init PROVE ByType!Init
    OBVIOUS
  <2>1. \A i \in 0 .. capacity - 1 : entries[i].key = Empty
    BY DEF Init, NoEntry
  <2>2. Stored = {}
    BY <2>1 DEF Stored
  <2>3. QED
    BY <2>2 DEF ByType!Init
<1>2. IInv /\ IInv' /\ [Next]_vars =>
        [ByType!Next]_([type \in Stored |-> entries[Slot(entries, capacity, type)].value])
  BY StepCounts DEF ByType!Next, ByType!Count, Counts
<1>3. QED
  BY <1>1, <1>2, Invariance, PTL DEF Spec, ImplementsLiveCounts, ByType!Spec

=============================================================================
