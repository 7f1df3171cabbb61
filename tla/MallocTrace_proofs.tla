--------------------------- MODULE MallocTrace_proofs ---------------------------
(***************************************************************************)
(* For any objects, addresses and sizes: the objects of cMemLeak own their *)
(* blocks and forget them only in a second __init__, and the analysis of   *)
(* the DTrace log disagrees with the C library about no more blocks than   *)
(* lines were lost.                                                        *)
(***************************************************************************)
EXTENDS MallocTrace, FiniteSetTheorems, SequenceTheorems, WellFoundedInduction, TLAPS

-----------------------------------------------------------------------------
(* The objects and their blocks.                                           *)

\* An object is in order: if it does not exist nothing is left of it; if it does
\* someone refers to it, and user code has not made more references than allowed.
InOrder(o) ==
  IF class[o] = "none"
  THEN refcnt[o] = 0 /\ ~ held[o] /\ buffer[o] = NULL
  ELSE Surplus(o) \in 0 .. MaxSurplus /\ (held[o] \/ Surplus(o) > 0)

\* An object's block has the object's size, and is its own.
OwnBlocks ==
  \A o \in Live : buffer[o] # NULL =>
    /\ heap[buffer[o]] = size[o]
    /\ \A other \in Live \ {o} : buffer[other] # buffer[o]

\* What is allocated is the block of an object or forgotten, and not both.
AllAccounted ==
  \A p \in Addresses :
    /\ heap[p] > 0 <=> (p \in forgotten \/ \E o \in Live : buffer[o] = p)
    /\ ~ (p \in forgotten /\ \E o \in Live : buffer[o] = p)

ObjectsInv ==
  /\ TypeOK
  /\ \A o \in Objects : InOrder(o)
  /\ OwnBlocks
  /\ AllAccounted

\* What malloc() is asked for is a positive size_t.
LEMMA RequestedFacts ==
  ASSUME NEW n \in Sizes
  PROVE  Requested(n) \in 1 .. SIZE_MAX
<1> DEFINE M == SIZE_MAX + 1
<1>1. /\ M \in Nat /\ M > 1 /\ n \in Int /\ n > -M /\ n < M
      /\ SIZE_MAX \in Nat /\ M - 1 = SIZE_MAX
  BY MemLeakAssumption DEF SIZE_MAX
<1> HIDE DEF M
<1>2. n # 0 => n % M \in 1 .. M - 1
  <2>1. n % M \in 0 .. M - 1 /\ n = M * (n \div M) + (n % M)
    BY <1>1
  <2>2. n \div M \in Int
    BY <1>1
  <2>3. n % M = 0 => n = M * (n \div M)
    BY <1>1, <2>1, <2>2
  <2>4. ASSUME NEW q \in Int, n = M * q
        PROVE  q = 0
    <3>1. q >= 1 => M * q >= M
      BY <1>1
    <3>2. q <= -1 => M * q <= -M
      BY <1>1
    <3>3. QED
      BY <1>1, <2>4, <3>1, <3>2
  <2>5. QED
    BY <1>1, <2>1, <2>2, <2>3, <2>4
<1>3. QED
  BY <1>1, <1>2 DEF Requested, M

\* A block that the allocator gives is a free one, and it has the size that was
\* asked for.
LEMMA AnswerFacts ==
  ASSUME TypeOK, NEW n \in Sizes, NEW c, NEW p \in Answers(c, Requested(n)), p # NULL
  PROVE  /\ p \in Addresses /\ heap[p] = 0
         /\ Requested(n) \in 1 .. MaxBlock
<1> DEFINE s == Requested(n)
<1>0. s \in Nat /\ MaxBlock \in Nat
  BY RequestedFacts, MemLeakAssumption DEF SIZE_MAX
<1> HIDE DEF s
<1>1. s <= MaxBlock /\ p \in Addresses \ Allocated
  BY <1>0 DEF Answers, s
<1>2. heap[p] = 0
  BY <1>1, MemLeakAssumption DEF TypeOK, Allocated
<1>3. QED
  BY <1>0, <1>1, <1>2, RequestedFacts DEF s

\* Nothing is allocated at the start.
LEMMA ObjectsInit == Init => ObjectsInv
<1> SUFFICES ASSUME Init
             PROVE  ObjectsInv
  OBVIOUS
<1>1. TypeOK
  BY MemLeakAssumption DEF Init, TypeOK, SIZE_MAX, Classes
<1>2. Live = {}
  BY DEF Init, Live
<1>3. \A o \in Objects : InOrder(o)
  BY DEF Init, InOrder
<1>4. OwnBlocks /\ AllAccounted
  BY <1>2 DEF Init, OwnBlocks, AllAccounted
<1>5. QED
  BY <1>1, <1>3, <1>4 DEF ObjectsInv

\* tp_init, of a new object or of one that has a block.
LEMMA InitBufferStep ==
  ASSUME ObjectsInv, NEW o \in Objects, NEW c, NEW n \in Sizes,
         NEW p \in Addresses \cup {NULL}, InitBuffer(o, c, n, p),
         Live' = Live \cup {o}
  PROVE  /\ size' \in [Objects -> 0 .. SIZE_MAX]
         /\ buffer' \in [Objects -> Addresses \cup {NULL}]
         /\ heap' \in [Addresses -> 0 .. MaxBlock]
         /\ forgotten' \in SUBSET Addresses
         /\ \A x \in Objects \ {o} : buffer'[x] = buffer[x]
         /\ OwnBlocks' /\ AllAccounted'
<1> DEFINE s == Requested(n)
<1>1. /\ p \in Answers(c, s)
      /\ size' = [size EXCEPT ![o] = s]
      /\ buffer' = [buffer EXCEPT ![o] = p]
      /\ heap' = [q \in Addresses |-> IF q = p THEN s ELSE heap[q]]
      /\ forgotten' = forgotten \cup ({buffer[o]} \ {NULL})
  BY DEF InitBuffer
<1>2. TypeOK
  BY DEF ObjectsInv
<1>3. /\ s \in 1 .. SIZE_MAX
      /\ p # NULL => p \in Addresses /\ heap[p] = 0 /\ s \in 1 .. MaxBlock
  BY <1>1, <1>2, RequestedFacts, AnswerFacts
<1> HIDE DEF s
<1>4. /\ size \in [Objects -> 0 .. SIZE_MAX] /\ buffer \in [Objects -> Addresses \cup {NULL}]
      /\ heap \in [Addresses -> 0 .. MaxBlock] /\ forgotten \in SUBSET Addresses
  BY <1>2 DEF TypeOK
<1>5. /\ size' \in [Objects -> 0 .. SIZE_MAX]
      /\ buffer' \in [Objects -> Addresses \cup {NULL}]
      /\ heap' \in [Addresses -> 0 .. MaxBlock]
      /\ forgotten' \in SUBSET Addresses
      /\ buffer'[o] = p /\ size'[o] = s
      /\ \A x \in Objects \ {o} : buffer'[x] = buffer[x] /\ size'[x] = size[x]
      /\ \A q \in Addresses : heap'[q] = IF q = p THEN s ELSE heap[q]
  <2>1. s \in 0 .. SIZE_MAX
    BY <1>3, MemLeakAssumption DEF SIZE_MAX
  <2>2. p = NULL => p \notin Addresses
    BY MemLeakAssumption
  <2>3. heap' \in [Addresses -> 0 .. MaxBlock]
    BY <1>1, <1>3, <1>4, <2>2, MemLeakAssumption
  <2>4. QED
    BY <1>1, <1>3, <1>4, <2>1, <2>3
<1>6. Live \subseteq Objects
  BY DEF Live
<1>7. \A x \in Live : buffer[x] = p => p = NULL
  BY <1>3, <1>6 DEF ObjectsInv, AllAccounted
<1>8. OwnBlocks'
  <2> SUFFICES ASSUME NEW x \in Live \cup {o}, buffer'[x] # NULL
               PROVE  /\ heap'[buffer'[x]] = size'[x]
                      /\ \A y \in (Live \cup {o}) \ {x} : buffer'[y] # buffer'[x]
    BY DEF OwnBlocks
  <2>1. CASE x = o
    <3>1. p # NULL /\ p \in Addresses /\ heap'[p] = s
      BY <1>3, <1>5, <2>1
    <3>2. \A y \in Live \ {o} : buffer'[y] # p
      BY <1>5, <1>6, <1>7, <3>1
    <3>3. QED
      BY <1>5, <2>1, <3>1, <3>2
  <2>2. CASE x # o
    <3>1. x \in Live /\ buffer'[x] = buffer[x] /\ buffer[x] # NULL /\ buffer[x] # p
          /\ buffer[x] \in Addresses
      BY <1>4, <1>5, <1>6, <1>7, <2>2
    <3>2. heap'[buffer[x]] = size'[x]
      BY <1>5, <1>6, <2>2, <3>1 DEF ObjectsInv, OwnBlocks
    <3>3. \A y \in Live \ {x} : y # o => buffer'[y] # buffer[x]
      BY <1>5, <1>6, <3>1 DEF ObjectsInv, OwnBlocks
    <3>4. QED
      BY <1>5, <3>1, <3>2, <3>3
  <2>3. QED
    BY <2>1, <2>2
<1>9. AllAccounted'
  <2>1. buffer[o] # NULL => o \in Live
    BY DEF ObjectsInv, InOrder, Live
  <2> SUFFICES ASSUME NEW q \in Addresses
               PROVE  /\ heap'[q] > 0 <=>
                           (q \in forgotten' \/ \E x \in Live \cup {o} : buffer'[x] = q)
                      /\ ~ (q \in forgotten' /\ \E x \in Live \cup {o} : buffer'[x] = q)
    BY DEF AllAccounted
  <2>2. q # NULL
    BY MemLeakAssumption
  <2>3. /\ heap[q] > 0 <=> (q \in forgotten \/ \E x \in Live : buffer[x] = q)
        /\ ~ (q \in forgotten /\ \E x \in Live : buffer[x] = q)
    BY DEF ObjectsInv, AllAccounted
  <2>4. CASE q = p
    <3>1. heap'[q] > 0 /\ heap[q] = 0
      BY <1>3, <1>5, <2>2, <2>4
    <3>2. q \notin forgotten' /\ buffer'[o] = q
      BY <1>1, <1>5, <2>1, <2>3, <2>4, <3>1
    <3>3. QED
      BY <3>1, <3>2
  <2>5. CASE q # p /\ q = buffer[o]
    <3>1. heap'[q] > 0 /\ q \in forgotten' /\ o \in Live
      BY <1>1, <1>5, <2>1, <2>2, <2>3, <2>5
    <3>2. \A x \in Live \ {o} : buffer'[x] # q
      BY <1>5, <1>6, <2>2, <2>5, <3>1 DEF ObjectsInv, OwnBlocks
    <3>3. QED
      BY <1>5, <2>5, <3>1, <3>2
  <2>6. CASE q # p /\ q # buffer[o]
    <3>1. heap'[q] = heap[q] /\ (q \in forgotten' <=> q \in forgotten)
      BY <1>1, <1>5, <2>6
    <3>2. (\E x \in Live \cup {o} : buffer'[x] = q) <=> (\E x \in Live : buffer[x] = q)
      BY <1>5, <1>6, <2>6
    <3>3. QED
      BY <2>3, <3>1, <3>2
  <2>7. QED
    BY <2>4, <2>5, <2>6
<1>10. QED
  BY <1>5, <1>8, <1>9

\* The constructor, when it succeeds.
LEMMA ConstructStep ==
  ASSUME ObjectsInv, NEW o \in Objects, NEW n \in Sizes, NEW p \in Addresses \cup {NULL},
         Construct(o, n, p)
  PROVE  ObjectsInv'
<1>1. PICK c \in Classes : New(o, c) /\ InitBuffer(o, c, n, p)
  BY DEF Construct, Classes, CMallocObject_new, PyRawMallocObject_new, PyMallocObject_new,
         CMallocObject_init, PyRawMallocObject_init, PyMallocObject_init
<1>2. /\ class[o] = "none" /\ c # "none"
      /\ class' = [class EXCEPT ![o] = c]
      /\ refcnt' = [refcnt EXCEPT ![o] = 1]
      /\ held' = [held EXCEPT ![o] = TRUE]
  BY <1>1 DEF New, Classes
<1>3. /\ class \in [Objects -> Classes \cup {"none"}]
      /\ refcnt \in [Objects -> 0 .. MaxSurplus + 1] /\ held \in [Objects -> BOOLEAN]
      /\ MaxSurplus \in Nat
  BY MemLeakAssumption DEF ObjectsInv, TypeOK
<1>4. Live' = Live \cup {o}
  BY <1>2, <1>3 DEF Live
<1>5. /\ size' \in [Objects -> 0 .. SIZE_MAX]
      /\ buffer' \in [Objects -> Addresses \cup {NULL}]
      /\ heap' \in [Addresses -> 0 .. MaxBlock]
      /\ forgotten' \in SUBSET Addresses
      /\ \A x \in Objects \ {o} : buffer'[x] = buffer[x]
      /\ OwnBlocks' /\ AllAccounted'
  BY <1>1, <1>4, InitBufferStep
<1>6. TypeOK'
  BY <1>2, <1>3, <1>5 DEF TypeOK
<1>7. ASSUME NEW x \in Objects
      PROVE  InOrder(x)'
  <2>1. CASE x = o
    BY <1>2, <1>3, <2>1 DEF InOrder, Surplus
  <2>2. CASE x # o
    BY <1>2, <1>3, <1>5, <2>2 DEF ObjectsInv, InOrder, Surplus
  <2>3. QED
    BY <2>1, <2>2
<1>8. QED
  BY <1>5, <1>6, <1>7 DEF ObjectsInv

\* A second call of __init__.
LEMMA InitAgainStep ==
  ASSUME ObjectsInv, NEW o \in Objects, NEW n \in Sizes, NEW p \in Addresses \cup {NULL},
         InitAgain(o, n, p)
  PROVE  ObjectsInv'
<1>1. PICK c \in Classes : class[o] = c /\ InitBuffer(o, c, n, p)
  BY DEF InitAgain, Classes, CMallocObject_init, PyRawMallocObject_init, PyMallocObject_init
<1>2. UNCHANGED <<class, refcnt, held>> /\ class[o] # "none"
  BY <1>1 DEF InitAgain, Classes
<1>3. Live' = Live \cup {o}
  BY <1>2 DEF Live
<1>4. /\ size' \in [Objects -> 0 .. SIZE_MAX]
      /\ buffer' \in [Objects -> Addresses \cup {NULL}]
      /\ heap' \in [Addresses -> 0 .. MaxBlock]
      /\ forgotten' \in SUBSET Addresses
      /\ \A x \in Objects \ {o} : buffer'[x] = buffer[x]
      /\ OwnBlocks' /\ AllAccounted'
  BY <1>1, <1>3, InitBufferStep
<1>5. TypeOK'
  BY <1>2, <1>4 DEF ObjectsInv, TypeOK
<1>6. \A x \in Objects : InOrder(x)'
  BY <1>2, <1>4 DEF ObjectsInv, InOrder, Surplus
<1>7. QED
  BY <1>4, <1>5, <1>6 DEF ObjectsInv

\* A reference count is changed by hand.
LEMMA ChangeRefcntStep ==
  ASSUME ObjectsInv, NEW o \in Objects, NEW delta \in -1 .. 1,
         MayChange(o, delta), ChangeRefcnt(o, delta)
  PROVE  ObjectsInv'
<1>1. /\ held[o] /\ Surplus(o) + delta \in 0 .. MaxSurplus
      /\ refcnt' = [refcnt EXCEPT ![o] = @ + delta]
      /\ UNCHANGED <<class, held, size, buffer, heap, forgotten>>
  BY DEF MayChange, ChangeRefcnt
<1>2. /\ refcnt \in [Objects -> 0 .. MaxSurplus + 1] /\ MaxSurplus \in Nat
      /\ held \in [Objects -> BOOLEAN]
  BY MemLeakAssumption DEF ObjectsInv, TypeOK
<1>3. refcnt[o] + delta \in 1 .. MaxSurplus + 1
  BY <1>1, <1>2 DEF Surplus
<1>4. TypeOK'
  BY <1>1, <1>2, <1>3 DEF ObjectsInv, TypeOK
<1>5. ASSUME NEW x \in Objects
      PROVE  InOrder(x)'
  <2>1. CASE x = o
    <3>1. class[o] # "none"
      BY <1>1 DEF ObjectsInv, InOrder
    <3>2. refcnt'[o] = refcnt[o] + delta /\ held'[o] /\ class'[o] # "none"
      BY <1>1, <1>2, <3>1
    <3>3. Surplus(o)' \in 0 .. MaxSurplus
      BY <1>2, <1>3, <3>2 DEF Surplus
    <3>4. QED
      BY <2>1, <3>2, <3>3 DEF InOrder
  <2>2. CASE x # o
    BY <1>1, <1>2, <2>2 DEF ObjectsInv, InOrder, Surplus
  <2>3. QED
    BY <2>1, <2>2
<1>6. OwnBlocks' /\ AllAccounted'
  BY <1>1 DEF ObjectsInv, OwnBlocks, AllAccounted, Live
<1>7. QED
  BY <1>4, <1>5, <1>6 DEF ObjectsInv

\* The program's last reference: if it is the last of all, the block and the
\* object go.
LEMMA DropStep ==
  ASSUME ObjectsInv, NEW o \in Objects, Drop(o)
  PROVE  ObjectsInv'
<1>1. /\ held[o]
      /\ held' = [held EXCEPT ![o] = FALSE]
      /\ refcnt' = [refcnt EXCEPT ![o] = @ - 1]
      /\ forgotten' = forgotten
  BY DEF Drop
<1>2. /\ refcnt \in [Objects -> 0 .. MaxSurplus + 1] /\ MaxSurplus \in Nat
      /\ held \in [Objects -> BOOLEAN] /\ class \in [Objects -> Classes \cup {"none"}]
      /\ size \in [Objects -> 0 .. SIZE_MAX] /\ buffer \in [Objects -> Addresses \cup {NULL}]
      /\ heap \in [Addresses -> 0 .. MaxBlock] /\ forgotten \in SUBSET Addresses
  BY MemLeakAssumption DEF ObjectsInv, TypeOK
<1>3. class[o] # "none" /\ Surplus(o) \in 0 .. MaxSurplus /\ refcnt[o] = Surplus(o) + 1
  BY <1>1, <1>2 DEF ObjectsInv, InOrder, Surplus
<1>4. /\ refcnt' \in [Objects -> 0 .. MaxSurplus + 1] /\ held' \in [Objects -> BOOLEAN]
      /\ refcnt'[o] = refcnt[o] - 1 /\ ~ held'[o]
      /\ \A x \in Objects \ {o} : refcnt'[x] = refcnt[x] /\ held'[x] = held[x]
  BY <1>1, <1>2, <1>3
<1>5. CASE refcnt[o] > 1 /\ UNCHANGED <<class, size, buffer, heap>>
  <2>1. TypeOK'
    BY <1>1, <1>2, <1>4, <1>5 DEF TypeOK
  <2>2. ASSUME NEW x \in Objects
        PROVE  InOrder(x)'
    <3>1. CASE x = o
      BY <1>2, <1>3, <1>4, <1>5, <3>1 DEF InOrder, Surplus
    <3>2. CASE x # o
      BY <1>4, <1>5, <3>2 DEF ObjectsInv, InOrder, Surplus
    <3>3. QED
      BY <3>1, <3>2
  <2>3. OwnBlocks' /\ AllAccounted'
    BY <1>1, <1>5 DEF ObjectsInv, OwnBlocks, AllAccounted, Live
  <2>4. QED
    BY <2>1, <2>2, <2>3 DEF ObjectsInv
<1>6. CASE refcnt[o] = 1 /\ FreeBoth(o)
  <2>1. /\ heap' = [p \in Addresses |-> IF p = buffer[o] THEN 0 ELSE heap[p]]
        /\ class' = [class EXCEPT ![o] = "none"]
        /\ size' = [size EXCEPT ![o] = 0]
        /\ buffer' = [buffer EXCEPT ![o] = NULL]
    BY <1>6 DEF FreeBoth
  <2>2. /\ heap' \in [Addresses -> 0 .. MaxBlock] /\ class' \in [Objects -> Classes \cup {"none"}]
        /\ size' \in [Objects -> 0 .. SIZE_MAX] /\ buffer' \in [Objects -> Addresses \cup {NULL}]
    BY <1>2, <2>1, MemLeakAssumption DEF SIZE_MAX
  <2>3. TypeOK'
    BY <1>1, <1>2, <1>4, <2>2 DEF TypeOK
  <2>4. ASSUME NEW x \in Objects
        PROVE  InOrder(x)'
    <3>1. CASE x = o
      BY <1>2, <1>4, <1>6, <2>1, <3>1 DEF InOrder
    <3>2. CASE x # o
      BY <1>2, <1>4, <2>1, <3>2 DEF ObjectsInv, InOrder, Surplus
    <3>3. QED
      BY <3>1, <3>2
  <2>5. Live' = Live \ {o} /\ o \in Live /\ Live \subseteq Objects
    BY <1>2, <1>3, <2>1 DEF Live
  <2>6. \A x \in Live \ {o} : /\ buffer'[x] = buffer[x] /\ size'[x] = size[x]
                              /\ buffer[x] = buffer[o] => buffer[x] = NULL
    BY <1>2, <2>1, <2>5 DEF ObjectsInv, OwnBlocks
  <2>7. \A p \in Addresses : heap'[p] = IF p = buffer[o] THEN 0 ELSE heap[p]
    BY <2>1
  <2>8. OwnBlocks'
    BY <1>2, <2>5, <2>6, <2>7 DEF ObjectsInv, OwnBlocks
  <2>9. AllAccounted'
    <3> SUFFICES ASSUME NEW p \in Addresses
                 PROVE  /\ heap'[p] > 0 <=> (p \in forgotten \/ \E x \in Live \ {o} : buffer'[x] = p)
                        /\ ~ (p \in forgotten /\ \E x \in Live \ {o} : buffer'[x] = p)
      BY <1>1, <2>5 DEF AllAccounted
    <3>1. /\ heap[p] > 0 <=> (p \in forgotten \/ \E x \in Live : buffer[x] = p)
          /\ ~ (p \in forgotten /\ \E x \in Live : buffer[x] = p)
          /\ p # NULL
      BY MemLeakAssumption DEF ObjectsInv, AllAccounted
    <3>2. CASE p = buffer[o]
      BY <2>5, <2>6, <2>7, <3>1, <3>2
    <3>3. CASE p # buffer[o]
      BY <2>6, <2>7, <3>1, <3>3
    <3>4. QED
      BY <3>2, <3>3
  <2>10. QED
    BY <2>3, <2>4, <2>8, <2>9 DEF ObjectsInv
<1>7. QED
  BY <1>5, <1>6 DEF Drop, CMallocObject_dealloc, PyRawMallocObject_dealloc,
                    PyMallocObject_dealloc

\* Every step keeps the objects and their blocks in order.
LEMMA ObjectsNext ==
  ASSUME ObjectsInv, [Next]_vars
  PROVE  ObjectsInv'
<1>1. ASSUME NEW o \in Objects, NEW n \in Sizes, NEW p \in Addresses \cup {NULL},
             Construct(o, n, p) \/ InitAgain(o, n, p)
      PROVE  ObjectsInv'
  BY <1>1, ConstructStep, InitAgainStep
<1>2. ASSUME UNCHANGED <<class, refcnt, held, size, buffer, heap, forgotten>>
      PROVE  ObjectsInv'
  BY <1>2 DEF ObjectsInv, TypeOK, InOrder, Surplus, OwnBlocks, AllAccounted, Live
<1>3. ASSUME NEW c \in Classes, NEW n \in Sizes, ConstructFails(c, n)
      PROVE  ObjectsInv'
  BY <1>2, <1>3 DEF ConstructFails
<1>4. ASSUME NEW o \in Objects, NEW delta \in -1 .. 1, ChangeByHand(o, delta)
      PROVE  ObjectsInv'
  BY <1>4, ChangeRefcntStep DEF ChangeByHand, CMallocObject_inc_refcnt,
     PyRawMallocObject_inc_refcnt, PyMallocObject_inc_refcnt
<1>5. ASSUME NEW o \in Objects, py_incref(o) \/ py_decref(o) \/ Drop(o)
      PROVE  ObjectsInv'
  BY <1>5, ChangeRefcntStep, DropStep DEF py_incref, py_decref
<1>6. QED
  BY <1>1, <1>2, <1>3, <1>4, <1>5 DEF Next, vars

\* What the calls are in itself does not depend on who reads the log.
THEOREM ObjectsInvariance == Spec => []ObjectsInv
<1>1. QED
  BY ObjectsInit, ObjectsNext, PTL DEF Spec

\* Sizes and counts keep to their ranges, for every bound on the sizes.
THEOREM TypeCorrect == Spec => []TypeOK
<1>1. ObjectsInv => TypeOK
  BY DEF ObjectsInv
<1>2. QED
  BY <1>1, ObjectsInvariance, PTL

\* No two objects have one block, the size an object reports is its block's, and
\* memory that nobody can reach was forgotten in a second __init__ or belongs to
\* an object that a reference count changed by hand keeps.
THEOREM OwnedOrForgotten == Spec => []BlocksAreAccounted
<1>1. ObjectsInv => BlocksAreAccounted
  <2> SUFFICES ASSUME ObjectsInv
               PROVE  BlocksAreAccounted
    OBVIOUS
  <2>1. Live \subseteq Objects /\ \A o \in Live : class[o] # "none"
    BY DEF Live
  <2>2. \A o \in Live :
          /\ buffer[o] # NULL => heap[buffer[o]] = size[o]
          /\ \A other \in Live \ {o} : buffer[o] = buffer[other] => buffer[o] = NULL
          /\ held[o] \/ Surplus(o) > 0
    BY <2>1 DEF ObjectsInv, OwnBlocks, InOrder
  <2>3. \A o \in Objects : held[o] => o \in Live
    BY DEF ObjectsInv, InOrder, Live
  <2>4. /\ \A o \in Live : buffer[o] \in Addresses \cup {NULL}
        /\ forgotten \subseteq Addresses /\ NULL \notin Addresses
    BY <2>1, MemLeakAssumption DEF ObjectsInv, TypeOK
  <2>5. \A p : p \in Buffers <=> p \in Addresses /\ \E o \in Live : buffer[o] = p
    BY <2>4 DEF Buffers
  <2>6. \A p : p \in Allocated <=> p \in Addresses /\ heap[p] > 0
    BY DEF Allocated
  <2>7. Allocated = Buffers \cup forgotten
    BY <2>4, <2>5, <2>6 DEF ObjectsInv, AllAccounted
  <2>8. Buffers \cap forgotten = {}
    BY <2>4, <2>5 DEF ObjectsInv, AllAccounted
  <2>9. QED
    BY <2>2, <2>3, <2>7, <2>8 DEF BlocksAreAccounted
<1>2. QED
  BY <1>1, ObjectsInvariance, PTL

-----------------------------------------------------------------------------
(***************************************************************************)
(* The sum over a set is a recursion over its subsets.  A statement about  *)
(* all the subsets is proved of the smallest for which it could fail.      *)
(***************************************************************************)

\* A set of natural numbers has a smallest element.
LEMMA SmallestNumber ==
  ASSUME NEW S \in SUBSET Nat, S # {}
  PROVE  \E m \in S : \A k \in S : m <= k
<1> DEFINE Less == OpToRel(<, Nat)
<1>1. IsWellFoundedOn(Less, Nat)
  BY NatLessThanWellFounded
<1>2. \A k, m \in Nat : k < m => <<k, m>> \in Less
  BY DEF OpToRel
<1> HIDE DEF Less
<1>3. PICK m \in S : \A k \in S : ~ (<<k, m>> \in Less)
  BY <1>1, WFMin
<1>4. ASSUME NEW k \in S
      PROVE  m <= k
  <2>1. k \in Nat /\ m \in Nat /\ <<k, m>> \notin Less
    BY <1>3
  <2>2. k < m => <<k, m>> \in Less
    BY <1>2, <2>1
  <2>3. QED
    BY <2>1, <2>2
<1>5. QED
  BY <1>4

Ptrs == Addresses \cup {NULL}

Chosen(s) == CHOOSE p \in s : TRUE

\* The sum of d over s, from that over s without the element that is chosen.
SumStep(sum, d, s) == IF s = {} THEN 0 ELSE d[Chosen(s)] + sum[s \ {Chosen(s)}]

SubsetsUpTo(n) == {s \in SUBSET Ptrs : Cardinality(s) <= n}
AreSums(sum, d, sets) == sum = [s \in sets |-> SumStep(sum, d, s)]

\* A set without the element that is chosen is smaller.
LEMMA ChosenFacts ==
  ASSUME NEW s \in SUBSET Ptrs
  PROVE  /\ IsFiniteSet(s) /\ Cardinality(s) \in Nat
         /\ s = {} <=> Cardinality(s) = 0
         /\ s # {} => /\ Chosen(s) \in s /\ Chosen(s) \in Ptrs
                      /\ s \ {Chosen(s)} \in SUBSET Ptrs
                      /\ Cardinality(s \ {Chosen(s)}) = Cardinality(s) - 1
<1>1. IsFiniteSet(Ptrs)
  BY MemLeakAssumption, FS_AddElement DEF Ptrs
<1>2. IsFiniteSet(s)
  BY <1>1, FS_Subset
<1>3. Cardinality(s) \in Nat /\ (s = {} <=> Cardinality(s) = 0)
  BY <1>2, FS_CardinalityType, FS_EmptySet
<1>4. ASSUME s # {}
      PROVE  /\ Chosen(s) \in s
             /\ Cardinality(s \ {Chosen(s)}) = Cardinality(s) - 1
  <2>1. Chosen(s) \in s
    BY <1>4 DEF Chosen
  <2>2. QED
    BY <1>2, <2>1, FS_RemoveElement
<1>5. QED
  BY <1>2, <1>3, <1>4

\* There are such sums for the sets up to any size,
LEMMA PartialSumsExist ==
  ASSUME NEW d, NEW n \in Nat
  PROVE  \E sum : AreSums(sum, d, SubsetsUpTo(n))
<1> DEFINE Bad == {k \in Nat : \A sum : ~ AreSums(sum, d, SubsetsUpTo(k))}
<1>1. SUFFICES ASSUME Bad # {} PROVE FALSE
  OBVIOUS
<1>2. Bad \in SUBSET Nat
  OBVIOUS
<1>3. PICK m \in Bad : \A k \in Bad : m <= k
  <2> HIDE DEF Bad
  <2> QED BY <1>1, <1>2, SmallestNumber
<1>4. m \in Nat /\ \A sum : ~ AreSums(sum, d, SubsetsUpTo(m))
  BY <1>3
<1>5. CASE m = 0
  <2> DEFINE sum == [s \in SubsetsUpTo(0) |-> 0]
  <2>1. ASSUME NEW s \in SubsetsUpTo(0)
        PROVE  s = {}
    <3>1. s \in SUBSET Ptrs /\ Cardinality(s) <= 0
      BY DEF SubsetsUpTo
    <3>2. Cardinality(s) \in Nat /\ (s = {} <=> Cardinality(s) = 0)
      BY <3>1, ChosenFacts
    <3>3. QED
      BY <3>1, <3>2
  <2>2. AreSums(sum, d, SubsetsUpTo(0))
    BY <2>1 DEF AreSums, SumStep
  <2>3. QED
    BY <1>4, <1>5, <2>2
<1>6. CASE m # 0
  <2>1. m - 1 \in Nat /\ m - 1 \notin Bad
    BY <1>3, <1>4, <1>6
  <2>2. PICK before : AreSums(before, d, SubsetsUpTo(m - 1))
    BY <2>1
  <2> DEFINE sum == [s \in SubsetsUpTo(m) |-> SumStep(before, d, s)]
  <2>3. ASSUME NEW s \in SubsetsUpTo(m - 1)
        PROVE  s \in SubsetsUpTo(m) /\ sum[s] = before[s]
    <3>1. s \in SUBSET Ptrs /\ Cardinality(s) <= m - 1
      BY DEF SubsetsUpTo
    <3>2. Cardinality(s) \in Nat
      BY <3>1, ChosenFacts
    <3>3. s \in SubsetsUpTo(m)
      BY <1>4, <2>1, <3>1, <3>2 DEF SubsetsUpTo
    <3>4. QED
      BY <2>2, <3>3 DEF AreSums
  <2>4. ASSUME NEW s \in SubsetsUpTo(m)
        PROVE  SumStep(before, d, s) = SumStep(sum, d, s)
    <3>1. CASE s = {}
      BY <3>1 DEF SumStep
    <3>2. CASE s # {}
      <4>1. s \ {Chosen(s)} \in SubsetsUpTo(m - 1)
        BY <1>4, <3>2, ChosenFacts DEF SubsetsUpTo
      <4>2. sum[s \ {Chosen(s)}] = before[s \ {Chosen(s)}]
        BY <2>3, <4>1
      <4> HIDE DEF sum
      <4>3. QED
        BY <4>2 DEF SumStep
    <3>3. QED
      BY <3>1, <3>2
  <2>5. sum = [s \in SubsetsUpTo(m) |-> SumStep(sum, d, s)]
    <3>1. \A s \in SubsetsUpTo(m) : sum[s] = SumStep(before, d, s)
      OBVIOUS
    <3>2. sum = [s \in SubsetsUpTo(m) |-> sum[s]]
      OBVIOUS
    <3> HIDE DEF sum
    <3>3. \A s \in SubsetsUpTo(m) : sum[s] = SumStep(sum, d, s)
      BY <2>4, <3>1
    <3>4. QED
      BY <3>2, <3>3
  <2> HIDE DEF sum
  <2>6. AreSums(sum, d, SubsetsUpTo(m))
    BY <2>5 DEF AreSums
  <2>7. QED
    BY <1>4, <2>6
<1>7. QED
  BY <1>5, <1>6

\* so there are sums for all of them, and MapThenSumSet is one.
Total(d) == (CHOOSE sum : AreSums(sum, d, SUBSET Ptrs))[Ptrs]

\* MapThenSumSet is the sum over the whole set.
LEMMA BytesIsTotal ==
  ASSUME NEW a
  PROVE  Bytes(a) = Total(a.malloc_dict)
  BY DEF Bytes, MapThenSumSet, MapThenFoldSet, Total, AreSums, SumStep, Chosen, Ptrs

\* It is one of the sums over the subsets.
LEMMA TotalFacts ==
  ASSUME NEW d
  PROVE  \E sum : AreSums(sum, d, SUBSET Ptrs) /\ Total(d) = sum[Ptrs]
<1>1. IsFiniteSet(Ptrs) /\ Cardinality(Ptrs) \in Nat
  BY ChosenFacts
<1>2. SubsetsUpTo(Cardinality(Ptrs)) = SUBSET Ptrs
  BY <1>1, FS_Subset DEF SubsetsUpTo
<1>3. \E sum : AreSums(sum, d, SUBSET Ptrs)
  <2>1. \E sum : AreSums(sum, d, SubsetsUpTo(Cardinality(Ptrs)))
    BY <1>1, PartialSumsExist
  <2>2. QED
    BY <1>2, <2>1
<1> DEFINE sum == CHOOSE sum : AreSums(sum, d, SUBSET Ptrs)
<1>4. AreSums(sum, d, SUBSET Ptrs) /\ Total(d) = sum[Ptrs]
  BY <1>3 DEF Total
<1> HIDE DEF sum
<1>5. QED
  BY <1>4

\* An argument by the smallest subset for which a statement fails.
LEMMA SmallestSubset ==
  ASSUME NEW Failing \in SUBSET (SUBSET Ptrs), Failing # {}
  PROVE  \E s \in Failing : s # {} => s \ {Chosen(s)} \notin Failing
<1> DEFINE Cards == {Cardinality(s) : s \in Failing}
<1>1. \A s \in SUBSET Ptrs : Cardinality(s) \in Nat
  BY ChosenFacts
<1>2. PICK m \in Cards : \A k \in Cards : m <= k
  <2>1. Cards \in SUBSET Nat /\ Cards # {}
    BY <1>1
  <2> HIDE DEF Cards
  <2>2. QED
    BY <2>1, SmallestNumber
<1>3. PICK s \in Failing : Cardinality(s) = m
  BY <1>2
<1>4. ASSUME s # {}, s \ {Chosen(s)} \in Failing
      PROVE  FALSE
  <2>1. Cardinality(s \ {Chosen(s)}) = m - 1 /\ m \in Nat
    BY <1>3, <1>4, ChosenFacts
  <2>2. m <= m - 1
    BY <1>2, <1>4, <2>1
  <2>3. QED
    BY <2>1, <2>2
<1>5. QED
  BY <1>3, <1>4

\* The sum of nothing but zeros is zero.
LEMMA TotalOfNone ==
  Total([p \in Ptrs |-> 0]) = 0
<1> DEFINE d == [p \in Ptrs |-> 0]
<1>1. PICK sum : AreSums(sum, d, SUBSET Ptrs) /\ Total(d) = sum[Ptrs]
  <2> HIDE DEF d
  <2> QED BY TotalFacts
<1>2. \A p \in Ptrs : d[p] = 0
  OBVIOUS
<1> HIDE DEF d
<1> DEFINE Failing == {s \in SUBSET Ptrs : sum[s] # 0}
<1>3. Failing = {}
  <2> SUFFICES ASSUME Failing # {} PROVE FALSE
    OBVIOUS
  <2>1. Failing \in SUBSET (SUBSET Ptrs)
    OBVIOUS
  <2>2. PICK s \in Failing : s # {} => s \ {Chosen(s)} \notin Failing
    <3> HIDE DEF Failing
    <3> QED BY <2>1, SmallestSubset
  <2>3. s \in SUBSET Ptrs /\ sum[s] = SumStep(sum, d, s) /\ sum[s] # 0
    BY <1>1, <2>2 DEF AreSums
  <2>4. CASE s = {}
    BY <2>3, <2>4 DEF SumStep
  <2>5. CASE s # {}
    <3>1. Chosen(s) \in Ptrs /\ s \ {Chosen(s)} \in SUBSET Ptrs
      BY <2>3, <2>5, ChosenFacts
    <3>2. sum[s \ {Chosen(s)}] = 0
      BY <2>2, <2>5, <3>1
    <3>3. SumStep(sum, d, s) = 0
      BY <1>2, <2>5, <3>1, <3>2 DEF SumStep
    <3>4. QED
      BY <2>3, <3>3
  <2>6. QED
    BY <2>4, <2>5
<1>4. sum[Ptrs] = 0
  BY <1>3
<1>5. QED
  BY <1>1, <1>4 DEF d

\* If one value changes the sum changes by as much.
LEMMA TotalChanges ==
  ASSUME NEW d \in [Ptrs -> Nat], NEW p \in Ptrs, NEW v \in Nat
  PROVE  /\ Total(d) \in Int
         /\ Total([d EXCEPT ![p] = v]) = Total(d) + v - d[p]
<1> DEFINE e == [d EXCEPT ![p] = v]
<1>1. /\ e \in [Ptrs -> Nat] /\ e[p] = v
      /\ \A q \in Ptrs \ {p} : e[q] = d[q]
  OBVIOUS
<1> HIDE DEF e
<1>2. PICK sum : AreSums(sum, d, SUBSET Ptrs) /\ Total(d) = sum[Ptrs]
  BY TotalFacts
<1>3. PICK new : AreSums(new, e, SUBSET Ptrs) /\ Total(e) = new[Ptrs]
  BY TotalFacts
<1> DEFINE Right(s) == sum[s] \in Int /\ new[s] = sum[s] + (IF p \in s THEN v - d[p] ELSE 0)
           Failing == {s \in SUBSET Ptrs : ~ Right(s)}
<1>4. Failing = {}
  <2> SUFFICES ASSUME Failing # {} PROVE FALSE
    OBVIOUS
  <2>1. Failing \in SUBSET (SUBSET Ptrs)
    OBVIOUS
  <2>2. PICK s \in Failing : s # {} => s \ {Chosen(s)} \notin Failing
    <3> HIDE DEF Failing
    <3> QED BY <2>1, SmallestSubset
  <2>3. /\ s \in SUBSET Ptrs /\ ~ Right(s)
        /\ sum[s] = SumStep(sum, d, s) /\ new[s] = SumStep(new, e, s)
    BY <1>2, <1>3, <2>2 DEF AreSums
  <2>4. CASE s = {}
    BY <2>3, <2>4 DEF SumStep
  <2>5. CASE s # {}
    <3> DEFINE q == Chosen(s)
               rest == s \ {q}
    <3>1. q \in s /\ q \in Ptrs /\ rest \in SUBSET Ptrs
      BY <2>3, <2>5, ChosenFacts
    <3>2. Right(rest)
      BY <2>2, <2>5, <3>1
    <3>3. sum[s] = d[q] + sum[rest] /\ new[s] = e[q] + new[rest]
      BY <2>3, <2>5 DEF SumStep
    <3>4. p \in rest <=> p \in s /\ p # q
      OBVIOUS
    <3>5. d[q] \in Nat /\ d[p] \in Nat /\ (q # p => e[q] = d[q])
      BY <1>1, <3>1
    <3> HIDE DEF q, rest
    <3>6. Right(s)
      <4>1. CASE q = p
        BY <1>1, <3>1, <3>2, <3>3, <3>4, <3>5, <4>1
      <4>2. CASE q # p
        BY <1>1, <3>1, <3>2, <3>3, <3>4, <3>5, <4>2
      <4>3. QED
        BY <4>1, <4>2
    <3>7. QED
      BY <2>3, <3>6
  <2>6. QED
    BY <2>4, <2>5
<1>5. Right(Ptrs)
  BY <1>4
<1>6. QED
  BY <1>2, <1>3, <1>5 DEF e

-----------------------------------------------------------------------------
(* What a line of the log does to the analysis.                            *)

Analyses ==
  [malloc_dict : [Ptrs -> Nat],
   count_mallocs : Nat, count_frees_non_null : Nat, count_frees_null : Nat,
   total_bytes_malloced : Nat, total_bytes_freed : Nat,
   total_bytes_outstanding : Int,
   failed_to_add_malloc : Nat, failed_to_add_free : Nat]

\* A malloc() is added if there is no block, and is a failure otherwise.
LEMMA MallocLine ==
  ASSUME NEW a \in Analyses, NEW p \in Ptrs, NEW s \in Nat \ {0}, NEW b,
         b = Log!AddMalloc(a, p, s)
  PROVE  LET d == a.malloc_dict
             v == IF d[p] > 0 THEN d[p] ELSE s
         IN  /\ b \in Analyses
             /\ b.malloc_dict = [d EXCEPT ![p] = v]
             /\ b.total_bytes_outstanding = a.total_bytes_outstanding + v - d[p]
             /\ Log!Failures(b) = Log!Failures(a) + (IF d[p] > 0 THEN 1 ELSE 0)
<1> DEFINE d == a.malloc_dict
<1>1. d \in [Ptrs -> Nat] /\ d[p] \in Nat
  BY DEF Analyses
<1>2. CASE d[p] > 0
  <2>1. b = [a EXCEPT !.failed_to_add_malloc = @ + 1]
    BY <1>2 DEF Log!AddMalloc
  <2>2. /\ b \in Analyses /\ b.malloc_dict = d
        /\ b.total_bytes_outstanding = a.total_bytes_outstanding
        /\ b.failed_to_add_malloc = a.failed_to_add_malloc + 1
        /\ b.failed_to_add_free = a.failed_to_add_free
    BY <2>1 DEF Analyses
  <2>3. d = [d EXCEPT ![p] = d[p]]
    BY <1>1
  <2>4. Log!Failures(b) = Log!Failures(a) + 1
    BY <2>2 DEF Log!Failures, Analyses
  <2>5. b.total_bytes_outstanding = a.total_bytes_outstanding + d[p] - d[p]
    BY <1>1, <2>2 DEF Analyses
  <2>6. QED
    BY <1>2, <2>2, <2>3, <2>4, <2>5
<1>3. CASE d[p] = 0
  <2>1. b = [a EXCEPT !.malloc_dict[p] = s,
                      !.count_mallocs = @ + 1,
                      !.total_bytes_malloced = @ + s,
                      !.total_bytes_outstanding = @ + s]
    BY <1>3 DEF Log!AddMalloc
  <2> DEFINE e == [d EXCEPT ![p] = s]
  <2>2. e \in [Ptrs -> Nat]
    BY <1>1
  <2>3. b = [a EXCEPT !.malloc_dict = e,
                      !.count_mallocs = a.count_mallocs + 1,
                      !.total_bytes_malloced = a.total_bytes_malloced + s,
                      !.total_bytes_outstanding = a.total_bytes_outstanding + s]
    BY <2>1
  <2> HIDE DEF e
  <2>4. /\ a.count_mallocs \in Nat /\ a.total_bytes_malloced \in Nat
        /\ a.count_frees_non_null \in Nat /\ a.count_frees_null \in Nat
        /\ a.total_bytes_freed \in Nat /\ a.total_bytes_outstanding \in Int
        /\ a.failed_to_add_malloc \in Nat /\ a.failed_to_add_free \in Nat
    BY DEF Analyses
  <2>5. b = [malloc_dict |-> e,
             count_mallocs |-> a.count_mallocs + 1,
             count_frees_non_null |-> a.count_frees_non_null,
             count_frees_null |-> a.count_frees_null,
             total_bytes_malloced |-> a.total_bytes_malloced + s,
             total_bytes_freed |-> a.total_bytes_freed,
             total_bytes_outstanding |-> a.total_bytes_outstanding + s,
             failed_to_add_malloc |-> a.failed_to_add_malloc,
             failed_to_add_free |-> a.failed_to_add_free]
    BY <2>3 DEF Analyses
  <2>6. b \in Analyses
    BY <2>2, <2>4, <2>5 DEF Analyses
  <2>7. /\ b \in Analyses /\ b.malloc_dict = e
        /\ b.total_bytes_outstanding = a.total_bytes_outstanding + s
        /\ b.failed_to_add_malloc = a.failed_to_add_malloc
        /\ b.failed_to_add_free = a.failed_to_add_free
    BY <2>5, <2>6
  <2>8. /\ b \in Analyses /\ b.malloc_dict = [d EXCEPT ![p] = s]
        /\ b.total_bytes_outstanding = a.total_bytes_outstanding + s
        /\ b.failed_to_add_malloc = a.failed_to_add_malloc
        /\ b.failed_to_add_free = a.failed_to_add_free
    BY <2>7 DEF e
  <2>9. Log!Failures(b) = Log!Failures(a) /\ Log!Failures(a) \in Nat
    BY <2>8 DEF Log!Failures, Analyses
  <2>10. b.total_bytes_outstanding = a.total_bytes_outstanding + s - d[p]
    BY <1>3, <2>8 DEF Analyses
  <2>11. QED
    BY <1>3, <2>8, <2>9, <2>10
<1>4. QED
  BY <1>1, <1>2, <1>3

\* A free() of NULL is only counted; one of a block that is not there is a
\* failure; any other takes the block away.
LEMMA FreeLine ==
  ASSUME NEW a \in Analyses, NEW p \in Ptrs, NEW b, b = Log!AddFree(a, p)
  PROVE  LET d == a.malloc_dict
             v == IF p = NULL THEN d[p] ELSE 0
         IN  /\ b \in Analyses
             /\ b.malloc_dict = [d EXCEPT ![p] = v]
             /\ b.total_bytes_outstanding = a.total_bytes_outstanding + v - d[p]
             /\ Log!Failures(b) = Log!Failures(a) + (IF p # NULL /\ d[p] = 0 THEN 1 ELSE 0)
<1> DEFINE d == a.malloc_dict
<1>1. d \in [Ptrs -> Nat] /\ d[p] \in Nat /\ d = [d EXCEPT ![p] = d[p]]
  BY DEF Analyses
<1>2. CASE p = NULL
  <2>1. b = [a EXCEPT !.count_frees_null = @ + 1]
    BY <1>2 DEF Log!AddFree
  <2>2. /\ b \in Analyses /\ b.malloc_dict = d
        /\ b.total_bytes_outstanding = a.total_bytes_outstanding
        /\ b.failed_to_add_malloc = a.failed_to_add_malloc
        /\ b.failed_to_add_free = a.failed_to_add_free
    BY <2>1 DEF Analyses
  <2>3. Log!Failures(b) = Log!Failures(a) /\ Log!Failures(a) \in Nat
    BY <2>2 DEF Log!Failures, Analyses
  <2>4. b.total_bytes_outstanding = a.total_bytes_outstanding + d[p] - d[p]
    BY <1>1, <2>2 DEF Analyses
  <2>5. QED
    BY <1>1, <1>2, <2>2, <2>3, <2>4
<1>3. CASE p # NULL /\ d[p] = 0
  <2>1. b = [a EXCEPT !.failed_to_add_free = @ + 1]
    BY <1>3 DEF Log!AddFree
  <2>2. /\ b \in Analyses /\ b.malloc_dict = d
        /\ b.total_bytes_outstanding = a.total_bytes_outstanding
        /\ b.failed_to_add_malloc = a.failed_to_add_malloc
        /\ b.failed_to_add_free = a.failed_to_add_free + 1
    BY <2>1 DEF Analyses
  <2>3. Log!Failures(b) = Log!Failures(a) + 1
    BY <2>2 DEF Log!Failures, Analyses
  <2>4. b.total_bytes_outstanding = a.total_bytes_outstanding + 0 - d[p]
    BY <1>3, <2>2 DEF Analyses
  <2>5. QED
    BY <1>1, <1>3, <2>2, <2>3, <2>4
<1>4. CASE p # NULL /\ d[p] > 0
  <2>1. b = [a EXCEPT !.malloc_dict[p] = 0,
                      !.total_bytes_freed = @ + a.malloc_dict[p],
                      !.total_bytes_outstanding = @ - a.malloc_dict[p],
                      !.count_frees_non_null = @ + 1]
    BY <1>4 DEF Log!AddFree
  <2> DEFINE e == [d EXCEPT ![p] = 0]
  <2>2. e \in [Ptrs -> Nat]
    BY <1>1
  <2>3. b = [a EXCEPT !.malloc_dict = e,
                      !.total_bytes_freed = a.total_bytes_freed + a.malloc_dict[p],
                      !.total_bytes_outstanding = a.total_bytes_outstanding - a.malloc_dict[p],
                      !.count_frees_non_null = a.count_frees_non_null + 1]
    BY <2>1
  <2> HIDE DEF e
  <2>4. /\ a.count_mallocs \in Nat /\ a.total_bytes_malloced \in Nat
        /\ a.count_frees_non_null \in Nat /\ a.count_frees_null \in Nat
        /\ a.total_bytes_freed \in Nat /\ a.total_bytes_outstanding \in Int
        /\ a.failed_to_add_malloc \in Nat /\ a.failed_to_add_free \in Nat
    BY DEF Analyses
  <2>5. b = [malloc_dict |-> e,
             count_mallocs |-> a.count_mallocs,
             count_frees_non_null |-> a.count_frees_non_null + 1,
             count_frees_null |-> a.count_frees_null,
             total_bytes_malloced |-> a.total_bytes_malloced,
             total_bytes_freed |-> a.total_bytes_freed + d[p],
             total_bytes_outstanding |-> a.total_bytes_outstanding - d[p],
             failed_to_add_malloc |-> a.failed_to_add_malloc,
             failed_to_add_free |-> a.failed_to_add_free]
    BY <2>3 DEF Analyses
  <2>6. b \in Analyses
    BY <1>1, <2>2, <2>4, <2>5 DEF Analyses
  <2>7. /\ b \in Analyses /\ b.malloc_dict = e
        /\ b.total_bytes_outstanding = a.total_bytes_outstanding - d[p]
        /\ b.failed_to_add_malloc = a.failed_to_add_malloc
        /\ b.failed_to_add_free = a.failed_to_add_free
    BY <2>5, <2>6
  <2>8. /\ b \in Analyses /\ b.malloc_dict = [d EXCEPT ![p] = 0]
        /\ b.total_bytes_outstanding = a.total_bytes_outstanding - d[p]
        /\ b.failed_to_add_malloc = a.failed_to_add_malloc
        /\ b.failed_to_add_free = a.failed_to_add_free
    BY <2>7 DEF e
  <2>9. Log!Failures(b) = Log!Failures(a) /\ Log!Failures(a) \in Nat
    BY <2>8 DEF Log!Failures, Analyses
  <2>10. b.total_bytes_outstanding = a.total_bytes_outstanding + 0 - d[p]
    BY <1>1, <2>8 DEF Analyses
  <2>11. QED
    BY <1>4, <2>8, <2>9, <2>10
<1>5. QED
  BY <1>1, <1>2, <1>3, <1>4

\* Reading a line is the effect of its call on the blocks of the analysis, unless
\* it is a failure: a malloc() of a block that is there, a free() of none.
LEMMA ReadLineFacts ==
  ASSUME NEW a \in Analyses, NEW line, line.pntr \in Ptrs, line.size \in Nat,
         line.call \in {"malloc", "free"}, line.size > 0 <=> line.call = "malloc",
         NEW b, b = Log!ReadLine(a, line)
  PROVE  \E v \in Nat, fails \in {0, 1} :
           /\ b \in Analyses
           /\ b.malloc_dict = [a.malloc_dict EXCEPT ![line.pntr] = v]
           /\ b.total_bytes_outstanding = a.total_bytes_outstanding + v - a.malloc_dict[line.pntr]
           /\ Log!Failures(b) = Log!Failures(a) + fails
           /\ line.pntr # NULL =>
                /\ v > 0 <=> line.call = "malloc"
                /\ a.malloc_dict[line.pntr] = 0 /\ line.call = "malloc" => v = line.size
                /\ fails = 1 <=> (a.malloc_dict[line.pntr] > 0 <=> line.call = "malloc")
           /\ line.pntr = NULL /\ line.call = "free" => fails = 0
<1> DEFINE d == a.malloc_dict
           p == line.pntr
<1>1. d \in [Ptrs -> Nat] /\ d[p] \in Nat
  BY DEF Analyses
<1>2. CASE line.call = "malloc"
  <2>1. line.size \in Nat \ {0} /\ b = Log!AddMalloc(a, p, line.size)
    BY <1>2 DEF Log!ReadLine
  <2> DEFINE v == IF d[p] > 0 THEN d[p] ELSE line.size
             fails == IF d[p] > 0 THEN 1 ELSE 0
  <2>2. /\ b \in Analyses
        /\ b.malloc_dict = [d EXCEPT ![p] = v]
        /\ b.total_bytes_outstanding = a.total_bytes_outstanding + v - d[p]
        /\ Log!Failures(b) = Log!Failures(a) + fails
    BY <2>1, MallocLine
  <2>3. v \in Nat /\ fails \in {0, 1} /\ v > 0 /\ (d[p] = 0 => v = line.size)
        /\ (fails = 1 <=> d[p] > 0)
    BY <1>1, <2>1
  <2> HIDE DEF v, fails
  <2>4. QED
    BY <1>2, <2>2, <2>3
<1>3. CASE line.call = "free"
  <2>1. b = Log!AddFree(a, p)
    BY <1>3 DEF Log!ReadLine
  <2> DEFINE v == IF p = NULL THEN d[p] ELSE 0
             fails == IF p # NULL /\ d[p] = 0 THEN 1 ELSE 0
  <2>2. /\ b \in Analyses
        /\ b.malloc_dict = [d EXCEPT ![p] = v]
        /\ b.total_bytes_outstanding = a.total_bytes_outstanding + v - d[p]
        /\ Log!Failures(b) = Log!Failures(a) + fails
    BY <2>1, FreeLine
  <2>3. v \in Nat /\ fails \in {0, 1} /\ (p # NULL => v = 0)
        /\ (p # NULL => (fails = 1 <=> d[p] = 0)) /\ (p = NULL => fails = 0)
    BY <1>1
  <2> HIDE DEF v, fails
  <2>4. QED
    BY <1>1, <1>3, <2>2, <2>3
<1>4. QED
  BY <1>2, <1>3

-----------------------------------------------------------------------------
(* The analysis and the C library.                                         *)

\* The addresses at which the analysis a and the blocks h disagree.
Differing(a, h) == {p \in Addresses : ~ (a.malloc_dict[p] > 0 <=> h[p] > 0)}

\* The analysis a fits the blocks h after k lines that mislead it, exactly if no
\* line was lost.
Fits(a, h, k, exact) ==
  /\ a \in Analyses /\ h \in [Addresses -> Nat] /\ k \in Nat
  /\ a.total_bytes_outstanding = Total(a.malloc_dict)
  /\ Log!Failures(a) \in Nat
  /\ Log!Failures(a) + Cardinality(Differing(a, h)) <= k
  /\ exact => \A p \in Addresses : a.malloc_dict[p] = h[p]

\* A call the library can have for the blocks h, and the blocks after it.
Legal(h, line) ==
  /\ line.call \in {"malloc", "free"}
  /\ line.pntr \in Ptrs /\ line.size \in Nat
  /\ line.size > 0 <=> line.call = "malloc"
  /\ line.pntr # NULL => (h[line.pntr] = 0 <=> line.call = "malloc")

Effect(h, line) == [p \in Addresses |-> IF p = line.pntr THEN line.size ELSE h[p]]

\* Two sets that differ in no more than one element.
LEMMA DifferAtOne ==
  ASSUME NEW D \in SUBSET Addresses, NEW E \in SUBSET Addresses, NEW p, D \ {p} = E \ {p}
  PROVE  /\ Cardinality(D) \in Nat /\ Cardinality(E) \in Nat
         /\ (p \in D <=> p \in E) => Cardinality(E) = Cardinality(D)
         /\ p \in D /\ p \notin E => Cardinality(E) = Cardinality(D) - 1
         /\ p \notin D /\ p \in E => Cardinality(E) = Cardinality(D) + 1
<1>1. IsFiniteSet(D) /\ IsFiniteSet(E)
  BY MemLeakAssumption, FS_Subset
<1>2. Cardinality(D) \in Nat /\ Cardinality(E) \in Nat
  BY <1>1, FS_CardinalityType
<1>3. ASSUME p \in D <=> p \in E
      PROVE  Cardinality(E) = Cardinality(D)
  <2>1. D = E
    BY <1>3
  <2>2. QED
    BY <2>1
<1>4. ASSUME p \in D, p \notin E
      PROVE  Cardinality(E) = Cardinality(D) - 1
  <2>1. E = D \ {p}
    BY <1>4
  <2>2. QED
    BY <1>1, <1>4, <2>1, FS_RemoveElement
<1>5. ASSUME p \notin D, p \in E
      PROVE  Cardinality(E) = Cardinality(D) + 1
  <2>1. D = E \ {p}
    BY <1>5
  <2>2. Cardinality(D) = Cardinality(E) - 1
    BY <1>1, <1>5, <2>1, FS_RemoveElement
  <2>3. QED
    BY <1>2, <2>2
<1>6. QED
  BY <1>2, <1>3, <1>4, <1>5

\* The result of one line, which may be lost.
Reading(a, line, read) == IF read THEN Log!ReadLine(a, line) ELSE a

\* It can mislead the analysis if it is lost, or of a malloc() answered by NULL.
Misleads(line, read) == IF ~ read \/ IsNull(line) THEN 1 ELSE 0

\* A lost line makes the analysis differ at one more address.  One that is read
\* is a failure only if it differed at that address, where it then agrees.
LEMMA LineStep ==
  ASSUME NEW a, NEW h, NEW k, NEW exact \in BOOLEAN, NEW line, NEW read \in BOOLEAN,
         Fits(a, h, k, exact), Legal(h, line)
  PROVE  Fits(Reading(a, line, read), Effect(h, line), k + Misleads(line, read),
              exact /\ read)
<1> DEFINE b == Reading(a, line, read)
           g == Effect(h, line)
           p == line.pntr
           D == Differing(a, h)
           E == Differing(b, g)
<1>1. /\ a \in Analyses /\ h \in [Addresses -> Nat] /\ k \in Nat
      /\ a.malloc_dict \in [Ptrs -> Nat]
      /\ a.total_bytes_outstanding = Total(a.malloc_dict)
      /\ Log!Failures(a) \in Nat /\ Log!Failures(a) + Cardinality(D) <= k
      /\ exact => \A q \in Addresses : a.malloc_dict[q] = h[q]
  BY DEF Fits, Analyses
<1>2. /\ line.call \in {"malloc", "free"} /\ p \in Ptrs /\ line.size \in Nat
      /\ line.size > 0 <=> line.call = "malloc"
      /\ p # NULL => (h[p] = 0 <=> line.call = "malloc")
  BY DEF Legal
<1>3. g \in [Addresses -> Nat] /\ \A q \in Addresses : g[q] = IF q = p THEN line.size ELSE h[q]
  BY <1>1, <1>2 DEF Effect
<1>4. \A q \in Addresses : q \in Ptrs /\ q # NULL
  BY MemLeakAssumption DEF Ptrs
<1>5. p # NULL => p \in Addresses
  BY <1>2 DEF Ptrs
<1>6. \A q : /\ q \in D <=> q \in Addresses /\ ~ (a.malloc_dict[q] > 0 <=> h[q] > 0)
             /\ q \in E <=> q \in Addresses /\ ~ (b.malloc_dict[q] > 0 <=> g[q] > 0)
  BY DEF Differing
<1>7. D \in SUBSET Addresses /\ E \in SUBSET Addresses
  BY DEF Differing
<1>8. CASE ~ read
  <2>1. b = a /\ Misleads(line, read) = 1
    BY <1>8 DEF Reading, Misleads
  <2> HIDE DEF b, g, D, E
  <2>2. D \ {p} = E \ {p}
    BY <1>3, <1>6, <1>7, <2>1
  <2>3. Cardinality(D) \in Nat /\ Cardinality(E) \in Nat /\ Cardinality(E) <= Cardinality(D) + 1
    BY <1>7, <2>2, DifferAtOne
  <2>4. Log!Failures(b) + Cardinality(E) <= k + 1
    BY <1>1, <2>1, <2>3
  <2>5. Fits(b, g, k + 1, exact /\ read)
    BY <1>1, <1>3, <1>8, <2>1, <2>4 DEF Fits, E
  <2>6. QED
    BY <2>1, <2>5 DEF b, g
<1>9. CASE read
  <2>1. b = Log!ReadLine(a, line)
    BY <1>9 DEF Reading
  <2> HIDE DEF b, g, D, E
  <2>2. PICK v \in Nat, fails \in {0, 1} :
           /\ b \in Analyses
           /\ b.malloc_dict = [a.malloc_dict EXCEPT ![p] = v]
           /\ b.total_bytes_outstanding = a.total_bytes_outstanding + v - a.malloc_dict[p]
           /\ Log!Failures(b) = Log!Failures(a) + fails
           /\ p # NULL =>
                /\ v > 0 <=> line.call = "malloc"
                /\ a.malloc_dict[p] = 0 /\ line.call = "malloc" => v = line.size
                /\ fails = 1 <=> (a.malloc_dict[p] > 0 <=> line.call = "malloc")
           /\ p = NULL /\ line.call = "free" => fails = 0
    BY <1>1, <1>2, <2>1, ReadLineFacts
  <2>3. b.malloc_dict[p] = v /\ \A q \in Ptrs \ {p} : b.malloc_dict[q] = a.malloc_dict[q]
    BY <1>1, <1>2, <2>2
  <2>4. b.total_bytes_outstanding = Total(b.malloc_dict)
    BY <1>1, <1>2, <2>2, TotalChanges
  <2>5. D \ {p} = E \ {p}
    BY <1>3, <1>4, <1>6, <1>7, <2>3
  <2>6. /\ Cardinality(D) \in Nat /\ Cardinality(E) \in Nat
        /\ (p \in D <=> p \in E) => Cardinality(E) = Cardinality(D)
        /\ p \in D /\ p \notin E => Cardinality(E) = Cardinality(D) - 1
    BY <1>7, <2>5, DifferAtOne
  <2>7. Log!Failures(b) + Cardinality(E) <= k + Misleads(line, read)
    <3>1. CASE p = NULL
      <4>1. p \notin D /\ p \notin E
        BY <1>4, <1>6, <3>1
      <4>2. Misleads(line, read) = IF line.call = "malloc" THEN 1 ELSE 0
        BY <1>9, <3>1 DEF Misleads, IsNull
      <4>3. fails <= Misleads(line, read) /\ Misleads(line, read) \in {0, 1}
        BY <1>2, <2>2, <3>1, <4>2
      <4>4. QED
        BY <1>1, <2>2, <2>6, <4>1, <4>3
    <3>2. CASE p # NULL
      <4>1. Misleads(line, read) = 0 /\ p \in Addresses
        BY <1>5, <1>9, <3>2 DEF Misleads, IsNull
      <4>2. p \notin E
        BY <1>2, <1>3, <1>6, <2>2, <2>3, <3>2, <4>1
      <4>3. a.malloc_dict[p] \in Nat /\ h[p] \in Nat
        BY <1>1, <1>2, <4>1
      <4>4. fails = 1 <=> p \in D
        BY <1>2, <1>6, <2>2, <3>2, <4>1, <4>3
      <4>5. QED
        BY <1>1, <2>2, <2>6, <4>1, <4>2, <4>4
    <3>3. QED
      BY <3>1, <3>2
  <2>8. exact => \A q \in Addresses : b.malloc_dict[q] = g[q]
    <3> SUFFICES ASSUME exact, NEW q \in Addresses
                 PROVE  b.malloc_dict[q] = g[q]
      OBVIOUS
    <3>1. CASE q = p
      <4>1. a.malloc_dict[p] = h[p] /\ h[p] \in Nat /\ p # NULL
        BY <1>1, <1>4, <3>1
      <4>2. line.call = "malloc" => v = line.size
        BY <1>2, <2>2, <4>1
      <4>3. line.call = "free" => v = 0 /\ line.size = 0
        BY <1>2, <2>2, <4>1
      <4>4. QED
        BY <1>2, <1>3, <2>3, <3>1, <4>2, <4>3
    <3>2. CASE q # p
      BY <1>1, <1>3, <1>4, <2>3, <3>2
    <3>3. QED
      BY <3>1, <3>2
  <2>9. k + Misleads(line, read) \in Nat
    BY <1>1 DEF Misleads
  <2>10. Log!Failures(b) \in Nat
    BY <1>1, <2>2
  <2>11. Fits(b, g, k + Misleads(line, read), exact /\ read)
    BY <1>3, <2>2, <2>4, <2>7, <2>8, <2>9, <2>10 DEF Fits, E
  <2>12. QED
    BY <2>11 DEF b, g
<1>10. QED
  BY <1>8, <1>9

\* No step calls the library more than twice.  The lines of its calls are read
\* one after the other.
AreReadings(after, a, lines, reported) ==
  after = [i \in 0 .. Len(lines) |->
             IF i = 0 THEN a
             ELSE IF i \in reported THEN Log!ReadLine(after[i - 1], lines[i])
             ELSE after[i - 1]]

\* No line, one or two: the recursion of ReadLines has a solution, and it is
\* the readings of the lines.
LEMMA ReadLinesFacts ==
  ASSUME NEW a, NEW lines, Len(lines) \in 0 .. 2, NEW reported
  PROVE  LET one == Reading(a, lines[1], 1 \in reported)
         IN  ReadLines(a, lines, reported) =
               IF Len(lines) = 0 THEN a
               ELSE IF Len(lines) = 1 THEN one
               ELSE Reading(one, lines[2], 2 \in reported)
<1> DEFINE one == Reading(a, lines[1], 1 \in reported)
           two == Reading(one, lines[2], 2 \in reported)
           by == [i \in 0 .. Len(lines) |-> IF i = 0 THEN a ELSE IF i = 1 THEN one ELSE two]
           after == CHOOSE f : AreReadings(f, a, lines, reported)
<1>1. AreReadings(by, a, lines, reported)
  <2> DEFINE step == [i \in 0 .. Len(lines) |->
                        IF i = 0 THEN a
                        ELSE IF i \in reported THEN Log!ReadLine(by[i - 1], lines[i])
                        ELSE by[i - 1]]
  <2>1. ASSUME NEW i \in 0 .. Len(lines)
        PROVE  by[i] = step[i]
    <3>1. CASE i = 0
      BY <3>1
    <3>2. CASE i = 1
      <4>1. 0 \in 0 .. Len(lines) /\ by[0] = a
        BY <3>2
      <4>2. by[i] = one /\ step[i] = IF 1 \in reported THEN Log!ReadLine(a, lines[1]) ELSE a
        BY <3>2, <4>1
      <4>3. QED
        BY <4>2 DEF Reading
    <3>3. CASE i = 2
      <4>1. 1 \in 0 .. Len(lines) /\ by[1] = one
        BY <3>3
      <4>2. by[i] = two /\ step[i] = IF 2 \in reported THEN Log!ReadLine(one, lines[2]) ELSE one
        <5> HIDE DEF one, two
        <5> QED BY <3>3, <4>1
      <4>3. QED
        BY <4>2 DEF Reading
    <3>4. QED
      BY <3>1, <3>2, <3>3
  <2>2. by = [i \in 0 .. Len(lines) |-> by[i]] /\ step = [i \in 0 .. Len(lines) |-> step[i]]
    OBVIOUS
  <2>3. by = step
    <3> HIDE DEF by, step
    <3> QED BY <2>1, <2>2
  <2>4. QED
    BY <2>3 DEF AreReadings
<1>2. AreReadings(after, a, lines, reported)
  <2> HIDE DEF by
  <2> QED BY <1>1
<1>3. ReadLines(a, lines, reported) = after[Len(lines)]
  BY DEF ReadLines, AreReadings
<1> HIDE DEF after, by
<1>4. /\ after[0] = a
      /\ Len(lines) \in 1 .. 2 => after[1] = Reading(after[0], lines[1], 1 \in reported)
      /\ Len(lines) = 2 => after[2] = Reading(after[1], lines[2], 2 \in reported)
  <2>1. \A i \in 0 .. Len(lines) :
          after[i] = IF i = 0 THEN a
                     ELSE IF i \in reported THEN Log!ReadLine(after[i - 1], lines[i])
                     ELSE after[i - 1]
    <3> DEFINE body == [i \in 0 .. Len(lines) |->
                          IF i = 0 THEN a
                          ELSE IF i \in reported THEN Log!ReadLine(after[i - 1], lines[i])
                          ELSE after[i - 1]]
    <3>1. after = body
      BY <1>2 DEF AreReadings
    <3>2. QED
      BY <3>1
  <2>2. Len(lines) \in Nat
    OBVIOUS
  <2>3. after[0] = a
    BY <2>1, <2>2
  <2>4. Len(lines) \in 1 .. 2 => after[1] = Reading(after[0], lines[1], 1 \in reported)
    <3> SUFFICES ASSUME Len(lines) \in 1 .. 2
                 PROVE  after[1] = Reading(after[0], lines[1], 1 \in reported)
      OBVIOUS
    <3>1. 1 \in 0 .. Len(lines)
      OBVIOUS
    <3>2. QED
      BY <2>1, <3>1 DEF Reading
  <2>5. Len(lines) = 2 => after[2] = Reading(after[1], lines[2], 2 \in reported)
    <3> SUFFICES ASSUME Len(lines) = 2
                 PROVE  after[2] = Reading(after[1], lines[2], 2 \in reported)
      OBVIOUS
    <3>1. 2 \in 0 .. Len(lines)
      OBVIOUS
    <3>2. QED
      BY <2>1, <3>1 DEF Reading
  <2>6. QED
    BY <2>3, <2>4, <2>5
<1> HIDE DEF one, two
<1>5. CASE Len(lines) = 0
  BY <1>3, <1>4, <1>5
<1>6. CASE Len(lines) = 1
  BY <1>3, <1>4, <1>6 DEF one
<1>7. CASE Len(lines) = 2
  BY <1>3, <1>4, <1>7 DEF one
<1>8. QED
  BY <1>5, <1>6, <1>7 DEF one

\* How many elements a set has that has no others than 1 and 2.
LEMMA UpToTwo ==
  ASSUME NEW T \in SUBSET {1, 2}
  PROVE  Cardinality(T) = (IF 1 \in T THEN 1 ELSE 0) + (IF 2 \in T THEN 1 ELSE 0)
<1>1. T = {} \/ T = {1} \/ T = {2} \/ T = {1, 2}
  OBVIOUS
<1>2. Cardinality({}) = 0
  BY FS_EmptySet
<1>3. Cardinality({1}) = 1 /\ Cardinality({2}) = 1
  BY FS_Singleton
<1>4. Cardinality({1, 2}) = 2
  <2>1. IsFiniteSet({1})
    BY FS_Singleton
  <2>2. Cardinality({1} \cup {2}) = Cardinality({1}) + 1
    <3>1. 2 \notin {1}
      OBVIOUS
    <3>2. QED
      BY <2>1, <3>1, FS_AddElement
  <2>3. {1} \cup {2} = {1, 2}
    OBVIOUS
  <2>4. QED
    BY <1>3, <2>2, <2>3
<1>5. CASE T = {}
  BY <1>2, <1>5
<1>6. CASE T = {1}
  BY <1>3, <1>6
<1>7. CASE T = {2}
  BY <1>3, <1>7
<1>8. CASE T = {1, 2}
  BY <1>4, <1>8
<1>9. QED
  BY <1>1, <1>5, <1>6, <1>7, <1>8

\* The calls of a step take the library from the blocks h to the blocks g.
Lead(h, lines, g) ==
  \/ lines = <<>> /\ g = h
  \/ \E l : /\ lines = <<l>>
            /\ Legal(h, l) /\ g = Effect(h, l)
  \/ \E l, m : /\ lines = <<l, m>>
               /\ Legal(h, l) /\ Legal(Effect(h, l), m)
               /\ g = Effect(Effect(h, l), m)

\* What is reported of them is misleading no more than is counted.
LEMMA LinesFit ==
  ASSUME NEW a, NEW h, NEW missed \in Nat, NEW null \in Nat,
         Fits(a, h, missed + null, missed = 0),
         NEW lines, NEW g, Lead(h, lines, g), NEW reported \in SUBSET DOMAIN lines
  PROVE  LET missed2 == missed + Cardinality(DOMAIN lines \ reported)
             null2 == null + Cardinality({i \in reported : IsNull(lines[i])})
         IN  /\ missed2 \in Nat /\ null2 \in Nat
             /\ Fits(ReadLines(a, lines, reported), g, missed2 + null2, missed2 = 0)
<1> DEFINE unread == DOMAIN lines \ reported
           failed == {i \in reported : IsNull(lines[i])}
           missed2 == missed + Cardinality(unread)
           null2 == null + Cardinality(failed)
           b == ReadLines(a, lines, reported)
<1>1. CASE lines = <<>> /\ g = h
  <2>1. Len(lines) = 0 /\ unread = {} /\ failed = {}
    BY <1>1
  <2>2. Cardinality(unread) = 0 /\ Cardinality(failed) = 0
    BY <2>1, FS_EmptySet
  <2>3. b = a
    BY <2>1, ReadLinesFacts
  <2> HIDE DEF b, unread, failed
  <2>4. missed2 = missed /\ null2 = null
    BY <2>2
  <2>5. QED
    BY <1>1, <2>3, <2>4 DEF b, unread, failed
<1>2. ASSUME NEW l, lines = <<l>>, Legal(h, l), g = Effect(h, l)
      PROVE  /\ missed2 \in Nat /\ null2 \in Nat
             /\ Fits(b, g, missed2 + null2, missed2 = 0)
  <2>1. Len(lines) = 1 /\ lines[1] = l /\ DOMAIN lines = {1}
    BY <1>2
  <2> DEFINE read == 1 \in reported
  <2>2. b = Reading(a, l, read)
    BY <2>1, ReadLinesFacts
  <2>3. unread \in SUBSET {1, 2} /\ failed \in SUBSET {1, 2} /\ 2 \notin unread /\ 2 \notin failed
        /\ (1 \in unread <=> ~ read) /\ (1 \in failed <=> read /\ IsNull(l))
    BY <2>1
  <2> HIDE DEF b, unread, failed
  <2>4. read \in BOOLEAN
    OBVIOUS
  <2> HIDE DEF read
  <2>5. /\ Cardinality(unread) = IF read THEN 0 ELSE 1
        /\ Cardinality(failed) = IF read /\ IsNull(l) THEN 1 ELSE 0
    BY <2>3, UpToTwo
  <2>6. Fits(b, g, missed + null + Misleads(l, read), missed = 0 /\ read)
    BY <1>2, <2>2, <2>4, LineStep
  <2>7. /\ missed2 \in Nat /\ null2 \in Nat
        /\ missed2 + null2 = missed + null + Misleads(l, read)
        /\ missed2 = 0 <=> missed = 0 /\ read
    BY <2>5 DEF Misleads
  <2> HIDE DEF missed2, null2
  <2>8. QED
    BY <2>6, <2>7 DEF Fits
<1>3. ASSUME NEW l, NEW m, lines = <<l, m>>, Legal(h, l), Legal(Effect(h, l), m),
             g = Effect(Effect(h, l), m)
      PROVE  /\ missed2 \in Nat /\ null2 \in Nat
             /\ Fits(b, g, missed2 + null2, missed2 = 0)
  <2>1. Len(lines) = 2 /\ lines[1] = l /\ lines[2] = m /\ DOMAIN lines = {1, 2}
    BY <1>3
  <2> DEFINE read1 == 1 \in reported
             read2 == 2 \in reported
             one == Reading(a, l, read1)
             k == missed + null + Misleads(l, read1)
  <2>2. b = Reading(one, m, read2)
    BY <2>1, ReadLinesFacts
  <2>3. unread \in SUBSET {1, 2} /\ failed \in SUBSET {1, 2}
        /\ (1 \in unread <=> ~ read1) /\ (2 \in unread <=> ~ read2)
        /\ (1 \in failed <=> read1 /\ IsNull(l)) /\ (2 \in failed <=> read2 /\ IsNull(m))
    BY <2>1
  <2> HIDE DEF b, unread, failed
  <2>4. read1 \in BOOLEAN /\ read2 \in BOOLEAN
    OBVIOUS
  <2> HIDE DEF read1, read2
  <2>5. /\ Cardinality(unread) = (IF read1 THEN 0 ELSE 1) + (IF read2 THEN 0 ELSE 1)
        /\ Cardinality(failed) = (IF read1 /\ IsNull(l) THEN 1 ELSE 0)
                                 + (IF read2 /\ IsNull(m) THEN 1 ELSE 0)
    BY <2>3, UpToTwo
  <2>6. Fits(one, Effect(h, l), k, missed = 0 /\ read1)
    BY <1>3, <2>4, LineStep
  <2> HIDE DEF one, k
  <2>7. Fits(b, g, k + Misleads(m, read2), (missed = 0 /\ read1) /\ read2)
    BY <1>3, <2>2, <2>4, <2>6, LineStep
  <2>8. /\ missed2 \in Nat /\ null2 \in Nat
        /\ missed2 + null2 = k + Misleads(m, read2)
        /\ missed2 = 0 <=> (missed = 0 /\ read1) /\ read2
    BY <2>5 DEF Misleads, k
  <2> HIDE DEF missed2, null2
  <2>9. QED
    BY <2>7, <2>8 DEF Fits
<1>4. QED
  BY <1>1, <1>2, <1>3 DEF Lead

\* The blocks of the C library, which has no part in the arenas.
Library == [p \in Addresses |-> IF p \in Arena THEN 0 ELSE heap[p]]

\* tp_init asks for a block.
LEMMA InitBufferCalls ==
  ASSUME ObjectsInv, NEW o \in Objects, NEW c, NEW n \in Sizes,
         NEW p \in Addresses \cup {NULL}, InitBuffer(o, c, n, p)
  PROVE  Lead(Library, calls', Library')
<1> DEFINE s == Requested(n)
<1>1. /\ p \in Answers(c, s) /\ calls' = Malloc(c, s, p)
      /\ heap' = [q \in Addresses |-> IF q = p THEN s ELSE heap[q]]
  BY DEF InitBuffer
<1>2. TypeOK /\ heap \in [Addresses -> 0 .. MaxBlock] /\ MaxBlock \in 0 .. PY_SSIZE_T_MAX
      /\ PY_SSIZE_T_MAX \in Nat /\ Arena \subseteq Addresses /\ NULL \notin Addresses
  BY MemLeakAssumption DEF ObjectsInv, TypeOK
<1>3. /\ s \in 1 .. SIZE_MAX /\ s \in Nat \ {0}
      /\ p # NULL => p \in Addresses /\ heap[p] = 0 /\ s \in 1 .. MaxBlock
  BY <1>1, <1>2, RequestedFacts, AnswerFacts DEF SIZE_MAX
<1> HIDE DEF s
<1>4. \A q \in Addresses :
        /\ Library[q] = IF q \in Arena THEN 0 ELSE heap[q]
        /\ Library'[q] = IF q \in Arena THEN 0 ELSE IF q = p THEN s ELSE heap[q]
  BY <1>1 DEF Library
<1>5. /\ Library = [q \in Addresses |-> Library[q]]
      /\ Library' = [q \in Addresses |-> Library'[q]]
  BY DEF Library
<1>6. CASE calls' = <<>> /\ (p \in Arena \/ p = NULL)
  <2>1. \A q \in Addresses : Library'[q] = Library[q]
    BY <1>2, <1>4, <1>6
  <2>2. Library' = Library
    BY <1>5, <2>1
  <2>3. QED
    BY <1>6, <2>2 DEF Lead
<1>7. CASE calls' = <<[call |-> "malloc", size |-> s, pntr |-> p]>> /\ p \notin Arena
  <2> DEFINE l == [call |-> "malloc", size |-> s, pntr |-> p]
  <2>1. Legal(Library, l)
    <3>1. p # NULL => Library[p] = 0
      BY <1>3, <1>4
    <3>2. QED
      BY <1>3, <3>1 DEF Legal, Ptrs
  <2>2. \A q \in Addresses : Library'[q] = IF q = p THEN s ELSE Library[q]
    BY <1>4, <1>7
  <2>3. Library' = Effect(Library, l)
    BY <1>5, <2>2 DEF Effect
  <2>4. QED
    BY <1>7, <2>1, <2>3 DEF Lead
<1>8. p # NULL => s <= PY_SSIZE_T_MAX
  BY <1>2, <1>3
<1>9. QED
  BY <1>1, <1>2, <1>3, <1>6, <1>7, <1>8 DEF Malloc

\* The constructor finds no memory, or no size in its argument.
LEMMA ConstructFailsCalls ==
  ASSUME ObjectsInv, NEW c \in Classes, NEW n \in Sizes, ConstructFails(c, n)
  PROVE  Lead(Library, calls', Library')
<1> DEFINE s == Requested(n)
           l == [call |-> "malloc", size |-> s, pntr |-> NULL]
           m == [call |-> "free", size |-> 0, pntr |-> NULL]
<1>1. /\ calls' = Malloc(c, s, NULL) \o Free(c, NULL) \/ calls' = Free(c, NULL)
      /\ heap' = heap
  BY DEF ConstructFails
<1>2. s \in Nat \ {0} /\ NULL \notin Addresses
  BY RequestedFacts, MemLeakAssumption DEF SIZE_MAX
<1> HIDE DEF s
<1>3. Library' = Library /\ Library = [q \in Addresses |-> Library[q]]
  BY <1>1 DEF Library
<1>4. Legal(Library, l) /\ Legal(Library, m)
  BY <1>2 DEF Legal, Ptrs
<1>5. Effect(Library, l) = Library /\ Effect(Library, m) = Library
  <2>1. \A q \in Addresses : q # NULL
    BY <1>2
  <2>2. QED
    BY <1>3, <2>1 DEF Effect
<1>6. /\ Malloc(c, s, NULL) = <<>> \/ Malloc(c, s, NULL) = <<l>>
      /\ Free(c, NULL) = <<>> \/ Free(c, NULL) = <<m>>
  BY DEF Malloc, Free
<1> HIDE DEF l, m
<1>7. calls' \in {<<>>, <<l>>, <<m>>, <<l, m>>}
  <2>1. <<>> \o <<>> = <<>> /\ <<>> \o <<m>> = <<m>> /\ <<l>> \o <<>> = <<l>>
    OBVIOUS
  <2>2. <<l>> \o <<m>> = <<l, m>>
    <3> DEFINE both == <<l>> \o <<m>>
               pair == <<l, m>>
    <3>1. both \in Seq({l, m}) /\ pair \in Seq({l, m})
      OBVIOUS
    <3>2. Len(both) = 2 /\ both[1] = l /\ both[2] = m
      OBVIOUS
    <3>3. Len(pair) = 2 /\ pair[1] = l /\ pair[2] = m
      OBVIOUS
    <3>4. \A i \in 1 .. Len(both) : both[i] = pair[i]
      BY <3>2, <3>3
    <3> HIDE DEF both, pair
    <3>5. both = pair
      BY <3>1, <3>2, <3>3, <3>4, SeqEqual
    <3>6. QED
      BY <3>5 DEF both, pair
  <2> DEFINE first == Malloc(c, s, NULL)
             second == Free(c, NULL)
  <2>3. /\ calls' = first \o second \/ calls' = second
        /\ first \in {<<>>, <<l>>} /\ second \in {<<>>, <<m>>}
    BY <1>1, <1>6
  <2> HIDE DEF first, second
  <2>4. CASE first = <<>>
    BY <2>1, <2>3, <2>4
  <2>5. CASE first = <<l>>
    BY <2>1, <2>2, <2>3, <2>5
  <2>6. QED
    BY <2>3, <2>4, <2>5
<1>8. QED
  BY <1>3, <1>4, <1>5, <1>7 DEF Lead

\* The last reference to an object goes.
LEMMA FreeCalls ==
  ASSUME ObjectsInv, NEW o \in Live, FreeBoth(o)
  PROVE  Lead(Library, calls', Library')
<1> DEFINE p == buffer[o]
           m == [call |-> "free", size |-> 0, pntr |-> p]
<1>1. /\ heap' = [q \in Addresses |-> IF q = p THEN 0 ELSE heap[q]]
      /\ calls' = Free(class[o], p)
  BY DEF FreeBoth
<1>2. o \in Objects /\ p \in Addresses \cup {NULL} /\ NULL \notin Addresses
      /\ heap \in [Addresses -> 0 .. MaxBlock]
  BY MemLeakAssumption DEF Live, ObjectsInv, TypeOK
<1>3. p # NULL => heap[p] > 0 /\ p \in Addresses
  BY <1>2 DEF ObjectsInv, AllAccounted
<1> HIDE DEF p
<1>4. \A q \in Addresses :
        /\ Library[q] = IF q \in Arena THEN 0 ELSE heap[q]
        /\ Library'[q] = IF q \in Arena \/ q = p THEN 0 ELSE heap[q]
  BY <1>1 DEF Library
<1>5. /\ Library = [q \in Addresses |-> Library[q]]
      /\ Library' = [q \in Addresses |-> Library'[q]]
  BY DEF Library
<1>6. CASE calls' = <<>> /\ (p \in Arena \/ p = NULL)
  <2>1. \A q \in Addresses : Library'[q] = Library[q]
    BY <1>2, <1>4, <1>6
  <2>2. Library' = Library
    BY <1>5, <2>1
  <2>3. QED
    BY <1>6, <2>2 DEF Lead
<1>7. CASE calls' = <<m>> /\ p \notin Arena
  <2>1. Legal(Library, m)
    <3>1. p # NULL => Library[p] # 0
      BY <1>2, <1>3, <1>4, <1>7, MemLeakAssumption
    <3>2. QED
      BY <1>2, <3>1 DEF Legal, Ptrs
  <2>2. \A q \in Addresses : Library'[q] = IF q = p THEN 0 ELSE Library[q]
    BY <1>4
  <2>3. Library' = Effect(Library, m)
    BY <1>5, <2>2 DEF Effect
  <2>4. QED
    BY <1>7, <2>1, <2>3 DEF Lead
<1>8. QED
  BY <1>1, <1>6, <1>7 DEF Free

\* So the calls of every step lead from the blocks before it to those after it.
LEMMA NextLeads ==
  ASSUME ObjectsInv, Next
  PROVE  Lead(Library, calls', Library')
<1>1. ASSUME NEW o \in Objects, NEW n \in Sizes, NEW p \in Addresses \cup {NULL},
             Construct(o, n, p) \/ InitAgain(o, n, p)
      PROVE  Lead(Library, calls', Library')
  <2>1. \E c : InitBuffer(o, c, n, p)
    BY <1>1 DEF Construct, InitAgain, CMallocObject_init, PyRawMallocObject_init,
                PyMallocObject_init
  <2>2. QED
    BY <2>1, InitBufferCalls
<1>2. ASSUME calls' = <<>>, heap' = heap
      PROVE  Lead(Library, calls', Library')
  BY <1>2 DEF Lead, Library
<1>3. ASSUME NEW c \in Classes, NEW n \in Sizes, ConstructFails(c, n)
      PROVE  Lead(Library, calls', Library')
  BY <1>3, ConstructFailsCalls
<1>4. ASSUME NEW o \in Objects, NEW delta \in -1 .. 1, ChangeRefcnt(o, delta)
      PROVE  Lead(Library, calls', Library')
  BY <1>2, <1>4 DEF ChangeRefcnt
<1>5. ASSUME NEW o \in Objects, NEW delta \in -1 .. 1, ChangeByHand(o, delta)
      PROVE  Lead(Library, calls', Library')
  BY <1>4, <1>5 DEF ChangeByHand, CMallocObject_inc_refcnt, PyRawMallocObject_inc_refcnt,
                    PyMallocObject_inc_refcnt
<1>6. ASSUME NEW o \in Objects, py_incref(o) \/ py_decref(o)
      PROVE  Lead(Library, calls', Library')
  BY <1>4, <1>6 DEF py_incref, py_decref
<1>7. ASSUME NEW o \in Objects, Drop(o)
      PROVE  Lead(Library, calls', Library')
  <2>1. o \in Live
    BY <1>7 DEF Drop, ObjectsInv, InOrder, Live
  <2>2. (calls' = <<>> /\ heap' = heap) \/ FreeBoth(o)
    BY <1>7 DEF Drop, CMallocObject_dealloc, PyRawMallocObject_dealloc, PyMallocObject_dealloc
  <2>3. QED
    BY <1>2, <2>1, <2>2, FreeCalls
<1>8. QED
  BY <1>1, <1>3, <1>5, <1>6, <1>7 DEF Next

\* The analysis fits the blocks of the library.
TraceInv ==
  /\ ObjectsInv
  /\ lost \in Nat /\ nulls \in Nat
  /\ Fits(analysis, Library, lost + nulls, lost = 0)

\* It does so before any line is read,
LEMMA TraceInit == InitTrace => TraceInv
<1> SUFFICES ASSUME InitTrace
             PROVE  TraceInv
  OBVIOUS
<1>1. Init /\ analysis = Log!NoLinesRead /\ lost = 0 /\ nulls = 0
  BY DEF InitTrace
<1>2. ObjectsInv
  BY <1>1, ObjectsInit
<1> DEFINE none == [p \in Ptrs |-> 0]
<1>3. /\ analysis \in Analyses /\ analysis.malloc_dict = none
      /\ analysis.total_bytes_outstanding = 0 /\ Log!Failures(analysis) = 0
  BY <1>1 DEF Log!NoLinesRead, Log!Failures, Analyses, Ptrs
<1>4. Total(none) = 0
  BY TotalOfNone
<1>5. Library = [p \in Addresses |-> 0]
  BY <1>1 DEF Init, Library
<1>6. \A p \in Addresses : none[p] = 0
  BY DEF Ptrs
<1> HIDE DEF none
<1>7. Differing(analysis, Library) = {}
  BY <1>3, <1>5, <1>6 DEF Differing
<1>8. Cardinality(Differing(analysis, Library)) = 0
  BY <1>7, FS_EmptySet
<1>9. Fits(analysis, Library, lost + nulls, lost = 0)
  <2>1. lost + nulls = 0 /\ (lost = 0) = TRUE
    BY <1>1
  <2>2. Fits(analysis, Library, 0, TRUE)
    BY <1>3, <1>4, <1>5, <1>6, <1>8 DEF Fits
  <2>3. QED
    BY <2>1, <2>2
<1>10. QED
  BY <1>1, <1>2, <1>9 DEF TraceInv

\* and after every step, whichever of its lines are reported.
LEMMA TraceNext ==
  ASSUME TraceInv, [NextTrace]_observed
  PROVE  TraceInv'
<1>1. CASE NextTrace
  <2>1. ObjectsInv'
    BY <1>1, ObjectsNext DEF TraceInv, NextTrace
  <2>2. Lead(Library, calls', Library')
    BY <1>1, NextLeads DEF TraceInv, NextTrace
  <2>3. PICK reported \in SUBSET DOMAIN calls' :
          /\ lost' = lost + Cardinality(DOMAIN calls' \ reported)
          /\ analysis' = ReadLines(analysis, calls', reported)
          /\ nulls' = nulls + Cardinality({i \in reported : IsNull(calls'[i])})
    BY <1>1 DEF NextTrace, Observe
  <2>4. /\ lost' \in Nat /\ nulls' \in Nat
        /\ Fits(analysis', Library', lost' + nulls', lost' = 0)
    <3>1. lost \in Nat /\ nulls \in Nat /\ Fits(analysis, Library, lost + nulls, lost = 0)
      BY DEF TraceInv
    <3>2. QED
      BY <2>2, <2>3, <3>1, LinesFit
  <2>5. QED
    BY <2>1, <2>4 DEF TraceInv
<1>2. CASE UNCHANGED observed
  <2>1. [Next]_vars /\ UNCHANGED <<analysis, lost, nulls, heap>>
    BY <1>2 DEF observed, vars
  <2>2. ObjectsInv'
    BY <2>1, ObjectsNext DEF TraceInv
  <2>3. Library' = Library
    BY <2>1 DEF Library
  <2>4. QED
    BY <2>1, <2>2, <2>3 DEF TraceInv
<1>3. QED
  BY <1>1, <1>2

\* In every run the analysis fits the blocks of the C library.
THEOREM TraceInvariance == SpecTrace => []TraceInv
<1>1. QED
  BY TraceInit, TraceNext, PTL DEF SpecTrace

\* Each line that was lost, and each malloc() that was answered by NULL, misleads
\* the analysis about one block, once; without lost lines it has exactly the
\* blocks that are allocated, and its count of bytes is that of its blocks.
THEOREM Reconciled == SpecTrace => []Reconciles
<1>1. TraceInv => Reconciles
  <2> SUFFICES ASSUME TraceInv
               PROVE  Reconciles
    OBVIOUS
  <2> DEFINE a == analysis
             h == Library
  <2>1. /\ lost \in Nat /\ nulls \in Nat
        /\ a \in Analyses
        /\ a.total_bytes_outstanding = Total(a.malloc_dict)
        /\ Log!Failures(a) + Cardinality(Differing(a, h)) <= lost + nulls
        /\ lost = 0 => \A p \in Addresses : a.malloc_dict[p] = h[p]
    BY DEF TraceInv, Fits
  <2>2. \A p \in Addresses : h[p] = IF p \in Arena THEN 0 ELSE heap[p]
    BY DEF Library
  <2>3. NULL \notin Addresses
    BY MemLeakAssumption
  <2>4. /\ \A p : p \in FromLibrary <=> p \in Addresses /\ h[p] > 0
        /\ \A p : p \in Log!Outstanding(a) <=> p \in Addresses /\ a.malloc_dict[p] > 0
    BY <2>2, <2>3 DEF FromLibrary, Allocated, Log!Outstanding
  <2>5. Disagreeing = Differing(a, h)
    BY <2>4 DEF Disagreeing, Differing
  <2>6. lost = 0 => /\ Disagreeing = {}
                    /\ \A p \in FromLibrary : a.malloc_dict[p] = heap[p]
    BY <2>1, <2>2, <2>4, <2>5 DEF Differing, FromLibrary
  <2>7. a.total_bytes_outstanding = Bytes(a)
    BY <2>1, BytesIsTotal
  <2>8. QED
    BY <2>1, <2>5, <2>6, <2>7 DEF Reconciles
<1>2. QED
  BY <1>1, TraceInvariance, PTL

=============================================================================
