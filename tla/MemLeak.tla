------------------------------- MODULE MemLeak -------------------------------
(***************************************************************************)
(* cMemLeak.c: Python objects that hold a block of memory, made to         *)
(* exercise the tools of this package.  CMalloc takes its block from the   *)
(* C library, PyRawMalloc from PyMem_RawMalloc() and PyMalloc from         *)
(* PyMem_Malloc().  Their reference counts can be changed by hand, which   *)
(* leaks an object and its block on demand.                                *)
(*                                                                         *)
(* Every call is one step: it runs under the GIL.                          *)
(***************************************************************************)
EXTENDS Integers, Sequences, FiniteSets

CONSTANTS Objects,        (* Python objects                                  *)
          Addresses,      (* where a block may be                            *)
          Arena,          (* the addresses that pymalloc has for itself      *)
          NULL,           (* the NULL pointer                                *)
          PY_SSIZE_T_MAX, (* the largest Py_ssize_t                          *)
          Sizes,          (* the sizes the callers ask for, a Py_ssize_t     *)
          MaxBlock,       (* no block is larger, and none than that          *)
          SmallRequest,   (* pymalloc serves requests up to this size itself *)
          MaxSurplus      (* bound on reference counts changed by hand       *)

ASSUME MemLeakAssumption ==
  /\ IsFiniteSet(Addresses) /\ NULL \notin Addresses /\ Arena \subseteq Addresses
  /\ PY_SSIZE_T_MAX \in Nat
  /\ Sizes \subseteq -PY_SSIZE_T_MAX - 1 .. PY_SSIZE_T_MAX
  /\ MaxBlock \in 0 .. PY_SSIZE_T_MAX /\ SmallRequest \in Nat /\ MaxSurplus \in Nat

\* The largest size_t, which has as many bits as a Py_ssize_t.
SIZE_MAX == 2 * PY_SSIZE_T_MAX + 1

Classes == {"CMalloc", "PyRawMalloc", "PyMalloc"}

VARIABLES
  class,     \* the class of each object, "none" if there is no such object
  refcnt,    \* its reference count
  held,      \* whether the Python program holds a reference to it
  size,      \* self->size
  buffer,    \* self->buffer
  heap,      \* the size of the block at each address, 0 if there is none
  forgotten, \* the blocks no object has any more
  calls      \* what the last step called in the C library, in order

vars == <<class, refcnt, held, size, buffer, heap, forgotten, calls>>

Live == {o \in Objects : class[o] # "none"}
Allocated == {p \in Addresses : heap[p] > 0}

Init ==
  /\ class = [o \in Objects |-> "none"]
  /\ refcnt = [o \in Objects |-> 0]
  /\ held = [o \in Objects |-> FALSE]
  /\ size = [o \in Objects |-> 0]
  /\ buffer = [o \in Objects |-> NULL]
  /\ heap = [p \in Addresses |-> 0]
  /\ forgotten = {}
  /\ calls = <<>>

-----------------------------------------------------------------------------
(* The allocators.                                                         *)

\* A bug used by the checks: the size is kept as it was passed, signed.
RequestedSigned(n) == IF n = 0 THEN 1 ELSE n

\* What is asked for: the caller's size as a size_t, and at least one byte.
Requested(n) == IF n = 0 THEN 1 ELSE n % (SIZE_MAX + 1)

\* Where a block of s bytes can be: nowhere if there is no memory for it.
Answers(c, s) ==
  {NULL} \cup
  IF s > MaxBlock THEN {}
  ELSE (Addresses \ Allocated) \ IF c = "PyMalloc" /\ s <= SmallRequest THEN {} ELSE Arena

\* The calls of the C library.  It has no part in the arenas.  Python's own
\* allocators refuse what is no Py_ssize_t, and pymalloc ignores a NULL that
\* is to be freed.
Malloc(c, s, p) ==
  IF p \in Arena \/ (c # "CMalloc" /\ s > PY_SSIZE_T_MAX)
  THEN <<>> ELSE <<[call |-> "malloc", size |-> s, pntr |-> p]>>

Free(c, p) ==
  IF p \in Arena \/ (c = "PyMalloc" /\ p = NULL)
  THEN <<>> ELSE <<[call |-> "free", size |-> 0, pntr |-> p]>>

-----------------------------------------------------------------------------
(* Construction is tp_new, then tp_init.                                   *)

New(o, c) ==
  /\ class[o] = "none"
  /\ class' = [class EXCEPT ![o] = c]
  /\ refcnt' = [refcnt EXCEPT ![o] = 1]
  /\ held' = [held EXCEPT ![o] = TRUE]

CMallocObject_new(o) == New(o, "CMalloc")
PyRawMallocObject_new(o) == New(o, "PyRawMalloc")
PyMallocObject_new(o) == New(o, "PyMalloc")

\* The allocator answers p.  A block the object has had is forgotten.
InitBuffer(o, c, n, p) ==
  LET s == Requested(n)
  IN  /\ p \in Answers(c, s)
      /\ size' = [size EXCEPT ![o] = s]
      /\ buffer' = [buffer EXCEPT ![o] = p]
      /\ heap' = [q \in Addresses |-> IF q = p THEN s ELSE heap[q]]
      /\ forgotten' = forgotten \cup ({buffer[o]} \ {NULL})
      /\ calls' = Malloc(c, s, p)

CMallocObject_init(o, n, p) == InitBuffer(o, "CMalloc", n, p)
PyRawMallocObject_init(o, n, p) == InitBuffer(o, "PyRawMalloc", n, p)
PyMallocObject_init(o, n, p) == InitBuffer(o, "PyMalloc", n, p)

Construct(o, n, p) ==
  /\ p # NULL
  /\ \/ CMallocObject_new(o) /\ CMallocObject_init(o, n, p)
     \/ PyRawMallocObject_new(o) /\ PyRawMallocObject_init(o, n, p)
     \/ PyMallocObject_new(o) /\ PyMallocObject_init(o, n, p)

\* There is no memory, or the argument is no size: tp_init returns -1 and the new
\* object is deallocated, which frees the NULL of malloc() or of tp_new.
ConstructFails(c, n) ==
  /\ \/ calls' = Malloc(c, Requested(n), NULL) \o Free(c, NULL)
     \/ calls' = Free(c, NULL)
  /\ UNCHANGED <<class, refcnt, held, size, buffer, heap, forgotten>>

\* __init__ is called on an object that has been constructed: it takes another
\* block, or is left with none; an argument that is no size changes nothing.
InitAgain(o, n, p) ==
  /\ held[o]
  /\ \/ class[o] = "CMalloc" /\ CMallocObject_init(o, n, p)
     \/ class[o] = "PyRawMalloc" /\ PyRawMallocObject_init(o, n, p)
     \/ class[o] = "PyMalloc" /\ PyMallocObject_init(o, n, p)
  /\ UNCHANGED <<class, refcnt, held>>

-----------------------------------------------------------------------------
(* Reference counts.                                                       *)

\* The references that inc_refcnt() and py_incref() have made.
Surplus(o) == refcnt[o] - IF held[o] THEN 1 ELSE 0

\* What user code may do: no count goes below the references there are.
MayChange(o, delta) ==
  /\ held[o]
  /\ Surplus(o) + delta \in 0 .. MaxSurplus

ChangeRefcnt(o, delta) ==
  /\ refcnt' = [refcnt EXCEPT ![o] = @ + delta]
  /\ calls' = <<>>
  /\ UNCHANGED <<class, held, size, buffer, heap, forgotten>>

CMallocObject_inc_refcnt(o, delta) == class[o] = "CMalloc" /\ ChangeRefcnt(o, delta)
PyRawMallocObject_inc_refcnt(o, delta) == class[o] = "PyRawMalloc" /\ ChangeRefcnt(o, delta)
PyMallocObject_inc_refcnt(o, delta) == class[o] = "PyMalloc" /\ ChangeRefcnt(o, delta)

py_incref(o) == MayChange(o, 1) /\ ChangeRefcnt(o, 1)
py_decref(o) == MayChange(o, -1) /\ ChangeRefcnt(o, -1)

ChangeByHand(o, delta) ==
  /\ MayChange(o, delta)
  /\ \/ CMallocObject_inc_refcnt(o, delta)
     \/ PyRawMallocObject_inc_refcnt(o, delta)
     \/ PyMallocObject_inc_refcnt(o, delta)

\* A bug used by the checks: the object is freed but its block is not.
FreeObjectOnly(o) ==
  /\ heap' = heap
  /\ class' = [class EXCEPT ![o] = "none"]
  /\ calls' = Free(class[o], buffer[o])
  /\ size' = [size EXCEPT ![o] = 0]
  /\ buffer' = [buffer EXCEPT ![o] = NULL]

\* The block goes back to the allocator it came from, then the object.
FreeBoth(o) ==
  /\ heap' = [p \in Addresses |-> IF p = buffer[o] THEN 0 ELSE heap[p]]
  /\ class' = [class EXCEPT ![o] = "none"]
  /\ calls' = Free(class[o], buffer[o])
  /\ size' = [size EXCEPT ![o] = 0]
  /\ buffer' = [buffer EXCEPT ![o] = NULL]

CMallocObject_dealloc(o) == class[o] = "CMalloc" /\ FreeBoth(o)
PyRawMallocObject_dealloc(o) == class[o] = "PyRawMalloc" /\ FreeBoth(o)
PyMallocObject_dealloc(o) == class[o] = "PyMalloc" /\ FreeBoth(o)

\* The program drops its last reference.
Drop(o) ==
  /\ held[o]
  /\ held' = [held EXCEPT ![o] = FALSE]
  /\ refcnt' = [refcnt EXCEPT ![o] = @ - 1]
  /\ \/ /\ refcnt[o] > 1
        /\ calls' = <<>>
        /\ UNCHANGED <<class, size, buffer, heap>>
     \/ /\ refcnt[o] = 1
        /\ CMallocObject_dealloc(o) \/ PyRawMallocObject_dealloc(o) \/ PyMallocObject_dealloc(o)
  /\ UNCHANGED forgotten

Next ==
  \/ \E o \in Objects, n \in Sizes, p \in Addresses \cup {NULL} :
       Construct(o, n, p) \/ InitAgain(o, n, p)
  \/ \E c \in Classes, n \in Sizes : ConstructFails(c, n)
  \/ \E o \in Objects, delta \in -1 .. 1 : ChangeByHand(o, delta)
  \/ \E o \in Objects : py_incref(o) \/ py_decref(o) \/ Drop(o)

Spec == Init /\ [][Next]_vars

-----------------------------------------------------------------------------
(* Properties.                                                             *)

TypeOK ==
  /\ class \in [Objects -> Classes \cup {"none"}]
  /\ refcnt \in [Objects -> 0 .. MaxSurplus + 1]
  /\ held \in [Objects -> BOOLEAN]
  /\ size \in [Objects -> 0 .. SIZE_MAX]
  /\ buffer \in [Objects -> Addresses \cup {NULL}]
  /\ heap \in [Addresses -> 0 .. MaxBlock]
  /\ forgotten \in SUBSET Addresses

Buffers == {buffer[o] : o \in Live} \ {NULL}

\* Whatever is deallocated, initialised again or runs out of memory in between:
\* no two objects have one block, an object's block has the size it reports,
\* and memory that the program can not reach any more was leaked on purpose,
\* by a reference count changed by hand, or by a second __init__.
BlocksAreAccounted ==
  /\ \A o \in Live :
       /\ buffer[o] # NULL => heap[buffer[o]] = size[o]
       /\ \A other \in Live \ {o} : buffer[o] = buffer[other] => buffer[o] = NULL
       /\ held[o] \/ Surplus(o) > 0
  /\ \A o \in Objects : held[o] => o \in Live
  /\ Allocated = Buffers \cup forgotten
  /\ Buffers \cap forgotten = {}

=============================================================================
