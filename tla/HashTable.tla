------------------------------ MODULE HashTable ------------------------------
(***************************************************************************)
(* ht.c, a hash table with linear probing, and its one use: the counts of  *)
(* live objects by type name that a ReferenceTracing object keeps.         *)
(*                                                                         *)
(* A value in the table is a pointer to a long; here it is the long.  The  *)
(* type names are hashed by a function that never changes, of which only   *)
(* the low bits are used: every choice of them is an initial state.        *)
(*                                                                         *)
(* live_object_counts copies the table to a dictionary.  That creates      *)
(* Python objects, so while it runs the tracer may count more events.      *)
(***************************************************************************)
EXTENDS Integers, FiniteSets

CONSTANTS Types,             (* the names of types                           *)
          Empty,             (* the NULL key of an empty slot                *)
          Hashes,            (* the values of hash_key                       *)
          INITIAL_CAPACITY,  (* 16 in the code                               *)
          MaxCapacity,       (* bound on the capacity: no memory beyond      *)
          MaxCount           (* bound on the counts, in both directions      *)

ASSUME EmptyAssumption == Empty \notin Types
ASSUME HashesAssumption == Hashes \subseteq Nat
ASSUME CapacityAssumption == /\ INITIAL_CAPACITY \in Nat \ {0, 1}
                             /\ MaxCapacity \in Nat
ASSUME MaxCountAssumption == MaxCount \in Nat

VARIABLES
  hash,        \* [Types -> Hashes]: hash_key, which is constant
  capacity,    \* table->capacity
  entries,     \* table->entries: [0 .. capacity - 1 -> [key, value]]
  length,      \* table->length
  iterator,    \* the iterator's _index while a dictionary is made, or -1
  dictionary,  \* the types that are in the dictionary so far
  due          \* the types that were in the table when it was begun, if it has
               \* not been expanded since

vars == <<hash, capacity, entries, length, iterator, dictionary, due>>

NoEntry == [key |-> Empty, value |-> 0]

Stored == {entries[i].key : i \in 0 .. capacity - 1} \ {Empty}

-----------------------------------------------------------------------------
(* Probing.  The loop looks at one slot after the other, from the one that *)
(* the hash designates and around the end of the array, and stops at the   *)
(* key or at an empty slot.                                                *)

\* The n-th slot that is looked at.
Probe(cap, type, n) == (hash[type] + n) % cap

StopsAt(table, cap, type, n) == table[Probe(cap, type, n)].key \in {type, Empty}

\* The loop ends, which it does only if some slot stops it.
ProbingEnds(table, cap, type) == \E n \in 0 .. cap - 1 : StopsAt(table, cap, type, n)

\* The slot at which the loop of ht_get and ht_set_entry stops.
Slot(table, cap, type) ==
  Probe(cap, type, CHOOSE n \in 0 .. cap - 1 :
                     /\ StopsAt(table, cap, type, n)
                     /\ \A m \in 0 .. n - 1 : ~ StopsAt(table, cap, type, m))

\* ht_set_entry, without the copy of the key and the length.
SetEntry(table, cap, type, value) ==
  [table EXCEPT ![Slot(table, cap, type)] = [key |-> type, value |-> value]]

\* ht_get finds the type.
Found(type) == entries[Slot(entries, capacity, type)].key = type

-----------------------------------------------------------------------------
(* ht_expand: the entries go to an array of twice the size, in the order   *)
(* in which they are in the old one.                                       *)

\* A bug used by the checks: every entry keeps its index.
ExpandedInPlace ==
  [i \in 0 .. 2 * capacity - 1 |-> IF i < capacity THEN entries[i] ELSE NoEntry]

Expanded ==
  LET new == 2 * capacity
      moved[i \in 0 .. capacity] ==
        IF i = 0 THEN [j \in 0 .. new - 1 |-> NoEntry]
        ELSE IF entries[i - 1].key = Empty THEN moved[i - 1]
        ELSE SetEntry(moved[i - 1], new, entries[i - 1].key, entries[i - 1].value)
  IN  moved[capacity]

\* A bug used by the checks: the table may be filled to the last slot.
MustExpandWhenFull == length >= capacity

MustExpand == length >= capacity \div 2

Init ==
  /\ hash \in [Types -> Hashes]
  /\ capacity = INITIAL_CAPACITY
  /\ entries = [i \in 0 .. INITIAL_CAPACITY - 1 |-> NoEntry]
  /\ length = 0
  /\ iterator = -1
  /\ dictionary = {}
  /\ due = {}

-----------------------------------------------------------------------------
(* increment_types_live_count, for an event of an object of the type.      *)

\* The type has a count, which is changed where it is.
Increment(type, delta) ==
  /\ Found(type)
  /\ LET value == entries[Slot(entries, capacity, type)].value + delta
     IN  /\ value \in -MaxCount .. MaxCount
         /\ entries' = SetEntry(entries, capacity, type, value)
  /\ UNCHANGED <<hash, capacity, length, iterator, dictionary, due>>

\* ht_set of a type that is not in the table: the table is expanded if it is
\* half full, and the key inserted.  This may happen while the dictionary is
\* made; the iterator then has an index into another array.
Insert(type, delta) ==
  /\ ~ Found(type)
  /\ \/ /\ MustExpand
        /\ 2 * capacity <= MaxCapacity
        /\ capacity' = 2 * capacity
        /\ entries' = SetEntry(Expanded, capacity', type, delta)
        /\ due' = {}
     \/ /\ ~ MustExpand
        /\ entries' = SetEntry(entries, capacity, type, delta)
        /\ UNCHANGED <<capacity, due>>
  /\ length' = length + 1
  /\ UNCHANGED <<hash, iterator, dictionary>>

(***************************************************************************)
(* ht_set when there is no memory for the copy of the key: by then the     *)
(* table may have been expanded.  When there is none for the larger table, *)
(* or for the count itself, nothing changes at all.                        *)
(***************************************************************************)
InsertFails(type) ==
  /\ ~ Found(type)
  /\ MustExpand
  /\ 2 * capacity <= MaxCapacity
  /\ capacity' = 2 * capacity
  /\ entries' = Expanded
  /\ due' = {}
  /\ UNCHANGED <<hash, length, iterator, dictionary>>

-----------------------------------------------------------------------------
(* live_object_counts.                                                     *)

BeginRetrieval ==
  /\ iterator = -1
  /\ iterator' = 0
  /\ dictionary' = {}
  /\ due' = Stored
  /\ UNCHANGED <<hash, capacity, entries, length>>

Ahead == {i \in iterator .. capacity - 1 : entries[i].key # Empty}

\* A bug used by the checks: the iterator skips the slot after a key.
RetrieveNextSkipping ==
  /\ iterator # -1
  /\ \E i \in Ahead :
       /\ \A j \in Ahead : i <= j
       /\ dictionary' = dictionary \cup {entries[i].key}
       /\ iterator' = i + 2
  /\ UNCHANGED <<hash, capacity, entries, length, due>>

\* ht_next, and the item of the dictionary.
RetrieveNext ==
  /\ iterator # -1
  /\ \E i \in Ahead :
       /\ \A j \in Ahead : i <= j
       /\ dictionary' = dictionary \cup {entries[i].key}
       /\ iterator' = i + 1
  /\ UNCHANGED <<hash, capacity, entries, length, due>>

\* ht_next returns false, and the dictionary is returned.
EndRetrieval ==
  /\ iterator # -1
  /\ Ahead = {}
  /\ iterator' = -1
  /\ due' = {}
  /\ UNCHANGED <<hash, capacity, entries, length, dictionary>>

Next ==
  \/ \E type \in Types :
       \/ \E delta \in {1, -1} : Increment(type, delta) \/ Insert(type, delta)
       \/ InsertFails(type)
  \/ BeginRetrieval \/ RetrieveNext \/ EndRetrieval

Spec == Init /\ [][Next]_vars

-----------------------------------------------------------------------------
(* Properties.                                                             *)

TypeOK ==
  /\ hash \in [Types -> Hashes]
  /\ capacity \in Nat \ {0, 1}
  /\ entries \in [0 .. capacity - 1 -> [key : Types \cup {Empty}, value : Int]]
  /\ length \in Nat
  /\ iterator \in -1 .. capacity
  /\ dictionary \in SUBSET Types
  /\ due \in SUBSET Types

\* Every lookup ends: the table always has an empty slot, even while it fills
\* up and when an expansion was the last thing there was memory for.
LookupsEnd == \A type \in Types : ProbingEnds(entries, capacity, type)

\* The dictionary that is being made will have every type that was in the
\* table when it was begun: those that it lacks are ahead of the iterator,
\* wherever new types go meanwhile, as long as the table is not expanded.
RetrievalMissesNothing ==
  iterator # -1 => due \subseteq dictionary \cup {entries[i].key : i \in Ahead}

-----------------------------------------------------------------------------
ByType ==
  INSTANCE LiveCounts WITH
    counts <- [type \in Stored |-> entries[Slot(entries, capacity, type)].value]

\* The table is the map from types to counts that the design note promises: no
\* collision, expansion or lack of memory loses or mixes up a count.
ImplementsLiveCounts == ByType!Spec

=============================================================================
