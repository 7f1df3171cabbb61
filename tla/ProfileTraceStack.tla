-------------------------- MODULE ProfileTraceStack --------------------------
(***************************************************************************)
(* cPyMemTrace.Profile and cPyMemTrace.Trace: context managers that stack. *)
(*                                                                         *)
(* Each with block creates a cpyTraceFileWrapper (one log file), pushes it *)
(* on a process-wide linked list and registers it as the profile or trace  *)
(* function of the calling thread.  On exit the head of the list is        *)
(* popped and the new head is registered again.                            *)
(*                                                                         *)
(* Profile and Trace run the same code on a list of their own, and neither *)
(* list refers to the other: a behaviour follows one of the two, which     *)
(* "kind" says.  One call of the C API is one step, for it runs under the  *)
(* GIL and calls no Python code.                                           *)
(*                                                                         *)
(* The log file of a wrapper appears here as open or closed, the number of *)
(* events seen and the last annotation of a context switch in it; its      *)
(* lines are the subject of TraceLog.                                      *)
(***************************************************************************)
EXTENDS Integers, Sequences, FiniteSets, LinkedList

CONSTANTS Threads,    (* Python threads                                     *)
          Objects,    (* Profile or Trace objects                           *)
          Wrappers,   (* memory for cpyTraceFileWrapper objects             *)
          Usage,      (* what user code does beyond plain with blocks, below *)
          MaxEvents   (* bound on the events one wrapper sees               *)

(***************************************************************************)
(* Usage lists what the callers may do.  "overlap": with blocks of several *)
(* threads at once.  "again": an object is used for a second with block    *)
(* after its first.  "nested": ... while it is still in its first.         *)
(***************************************************************************)
ASSUME UsageAssumption == Usage \subseteq {"overlap", "again", "nested"}
ASSUME NoneAssumption == None \notin Wrappers
ASSUME MaxEventsAssumption == MaxEvents \in Nat \ {0}

VARIABLES
  kind,          \* "P" or "T": which of the two lists the behaviour follows
  blocks,        \* [Threads -> Seq(Objects)]: the with blocks a thread is in
  list,          \* static_profile_ll or static_trace_ll
  registered,    \* the object PyEval_SetProfile/SetTrace holds for a thread
  held,          \* self->trace_file_wrapper of each object
  file,          \* "free": no such wrapper; "open" or "closed": its FILE
  refs,          \* Py_REFCNT of each wrapper
  lost,          \* wrappers whose owner forgot them without a Py_DECREF
  event_number,  \* the events each wrapper has seen
  marker,        \* the last line about a context switch in each log file
  fault          \* what ended the program, or "none": "reattach": a tracer
                 \* without an open file, or one that is deallocated, was
                 \* registered again and an assertion about it failed;
                 \* "release": an object was released twice; "write": an event
                 \* was written to a closed file

vars == <<kind, blocks, list, registered, held, file, refs, lost, event_number,
          marker, fault>>

Last(s) == s[Len(s)]
InBlock(t, o) == \E i \in 1 .. Len(blocks[t]) : blocks[t][i] = o

-----------------------------------------------------------------------------
(* Reference counts: Py_INCREF and Py_DECREF, both of which ignore NULL here. *)

Incref(r, w) == IF w = None THEN r ELSE [r EXCEPT ![w] = @ + 1]
Decref(r, w) == IF w = None THEN r ELSE [r EXCEPT ![w] = @ - 1]

(***************************************************************************)
(* The wrappers that a call leaves without a reference are deallocated,    *)
(* which closes a file that is still open.                                 *)
(***************************************************************************)
Dealloc(f, r) == [w \in Wrappers |-> IF r[w] = 0 THEN "free" ELSE f[w]]

\* A bug used by the checks: the file of a detached tracer is left open.
KeepFileOpen(f, w) == f

\* LAST and EOF are written and the file is closed, unless it is closed already.
CloseFile(f, w) == [f EXCEPT ![w] = "closed"]

Annotate(m, w, text) == IF w = None THEN m ELSE [m EXCEPT ![w] = text]

\* PyEval_SetProfile and PyEval_SetTrace: the interpreter owns what it calls.
SetTracer(r, t, w) == Decref(Incref(r, w), registered[t])

-----------------------------------------------------------------------------
Init ==
  /\ kind \in {"P", "T"}
  /\ blocks = [t \in Threads |-> <<>>]
  /\ list = <<>>
  /\ registered = [t \in Threads |-> None]
  /\ held = [o \in Objects |-> None]
  /\ file = [w \in Wrappers |-> "free"]
  /\ refs = [w \in Wrappers |-> 0]
  /\ lost = {}
  /\ event_number = [w \in Wrappers |-> 0]
  /\ marker = [w \in Wrappers |-> "none"]
  /\ fault = "none"

\* What the callers do: with statements, under the discipline of Usage.
MayEnter(t, o) ==
  /\ fault = "none"
  /\ held[o] # None => "again" \in Usage
  /\ "overlap" \notin Usage => \A u \in Threads \ {t} : blocks[u] = <<>>
  /\ "nested" \notin Usage => \A u \in Threads : ~ InBlock(u, o)

\* A bug used by the checks: the tracer at the wrong end of the list is told.
DetachOutermost(m) == Annotate(m, IF list = <<>> THEN None ELSE list[1], "detach")

(***************************************************************************)
(* new_trace_file_wrapper writes to the log of the current head before it  *)
(* tries to open the new file, without a test that the head's file is open *)
(* (HeadIsWritable, below).                                                *)
(***************************************************************************)
DetachHead(m) == Annotate(m, ll_get(list), "detach")

\* The previous value of self->trace_file_wrapper is overwritten, not released.
ForgetHeld(o) == lost' = IF held[o] = None THEN lost ELSE lost \cup {held[o]}

\* Memory that is neither in use nor designated by a stale list node.
Allocatable(w) == file[w] = "free" /\ ~ OnList(list, w)

(***************************************************************************)
(* __enter__ of either class.  The new wrapper is owned by the object and  *)
(* by the interpreter.  trace_or_profile_function is called once, for      *)
(* event 0, and writes nothing.                                            *)
(***************************************************************************)
Enter(t, o) ==
  /\ MayEnter(t, o)
  /\ \E w \in Wrappers :
       /\ Allocatable(w)
       /\ refs' = SetTracer([refs EXCEPT ![w] = 1], t, w)
       /\ file' = Dealloc([file EXCEPT ![w] = "open"], refs')
       /\ marker' = [DetachHead(marker) EXCEPT ![w] = "start"]
       /\ event_number' = [event_number EXCEPT ![w] = 1]
       /\ list' = ll_push(list, w)
       /\ registered' = [registered EXCEPT ![t] = w]
       /\ held' = [held EXCEPT ![o] = w]
  /\ blocks' = [blocks EXCEPT ![t] = Append(@, o)]
  /\ ForgetHeld(o)
  /\ UNCHANGED <<kind, fault>>

ProfileEnter(t, o) == kind = "P" /\ Enter(t, o)
TraceEnter(t, o) == kind = "T" /\ Enter(t, o)

(***************************************************************************)
(* __enter__ when the log file can not be opened: the head's log already   *)
(* says that it is detached, the object forgets any wrapper it had and     *)
(* RuntimeError keeps the with block from starting.  When there is no      *)
(* memory for the wrapper no message is written, but MemoryError is set    *)
(* then, and the assertion at the end of new_trace_file_wrapper that       *)
(* nothing is ends the program: no state follows.                          *)
(***************************************************************************)
EnterFails(t, o) ==
  /\ MayEnter(t, o)
  /\ marker' = DetachHead(marker)
  /\ held' = [held EXCEPT ![o] = None]
  /\ ForgetHeld(o)
  /\ UNCHANGED <<kind, blocks, list, registered, file, refs, event_number, fault>>

-----------------------------------------------------------------------------
(* __exit__ is called for the innermost with block of the thread.          *)
Leaving(t) == fault = "none" /\ blocks[t] # <<>>
Leaver(t) == Last(blocks[t])

(***************************************************************************)
(* The interpreter lets go of the registered wrapper; the object's own     *)
(* file is closed; the HEAD of the list is popped, which the code takes to *)
(* be the same wrapper; the new head, if any, is registered.  The object   *)
(* keeps its wrapper.                                                      *)
(***************************************************************************)
\* A bug used by the checks: the previous tracer is not registered again.
ExitWithoutReattaching(t) ==
  LET w == held[Leaver(t)]
      head == ll_get(ll_pop(list))
  IN  /\ list' = ll_pop(list)
      /\ registered' = [registered EXCEPT ![t] = None]
      /\ refs' = SetTracer(refs, t, None)
      /\ file' = Dealloc(CloseFile(file, w), refs')
      /\ marker' = Annotate([marker EXCEPT ![w] = "end"], head, "reattach")

\* A bug used by the checks: the file is closed after the pop, so it is the
\* next tracer's.
ExitClosingNextHead(t) ==
  LET head == ll_get(ll_pop(list))
      refs1 == SetTracer(refs, t, None)
      file1 == IF head = None THEN file ELSE CloseFile(file, head)
  IN  /\ list' = ll_pop(list)
      /\ registered' = [registered EXCEPT ![t] = head]
      /\ refs' = Incref(refs1, head)
      /\ file' = Dealloc(file1, refs')
      /\ marker' = Annotate(marker, head, "reattach")

\* A bug used by the checks: the popped wrapper is released, as if the list had
\* owned a reference.
ExitReleasingPopped(t) ==
  LET w == held[Leaver(t)]
      head == ll_get(ll_pop(list))
      refs1 == Decref(SetTracer(refs, t, None), ll_get(list))
  IN  /\ list' = ll_pop(list)
      /\ registered' = [registered EXCEPT ![t] = head]
      /\ refs' = Incref(refs1, head)
      /\ file' = Dealloc(CloseFile(file, w), refs')
      /\ marker' = Annotate([marker EXCEPT ![w] = "end"], head, "reattach")

\* A bug used by the checks: the outermost tracer, the last node of the linked
\* list, is registered again in place of the new head.
ExitReattachingOutermost(t) ==
  LET w == held[Leaver(t)]
      outer == IF ll_pop(list) = <<>> THEN None ELSE list[1]
      refs1 == SetTracer(refs, t, None)
      file1 == CloseFile(file, w)
  IN  /\ list' = ll_pop(list)
      /\ registered' = [registered EXCEPT ![t] = outer]
      /\ refs' = Incref(refs1, outer)
      /\ file' = Dealloc(file1, refs')
      /\ marker' = Annotate([marker EXCEPT ![w] = "end"], outer, "reattach")

Exit(t) ==
  LET w == held[Leaver(t)]
      head == ll_get(ll_pop(list))
      refs1 == SetTracer(refs, t, None)
      file1 == CloseFile(file, w)
  IN  /\ head # None => file1[head] = "open" /\ refs1[head] > 0
      /\ list' = ll_pop(list)
      /\ registered' = [registered EXCEPT ![t] = head]
      /\ refs' = Incref(refs1, head)
      /\ file' = Dealloc(file1, refs')
      /\ marker' = Annotate([marker EXCEPT ![w] = "end"], head, "reattach")

ProfileExit(t) ==
  /\ kind = "P"
  /\ Leaving(t)
  /\ held[Leaver(t)] # None
  /\ Exit(t)
  /\ blocks' = [blocks EXCEPT ![t] = SubSeq(@, 1, Len(@) - 1)]
  /\ UNCHANGED <<kind, held, lost, event_number, fault>>

TraceExit(t) ==
  /\ kind = "T"
  /\ Leaving(t)
  /\ held[Leaver(t)] # None
  /\ Exit(t)
  /\ blocks' = [blocks EXCEPT ![t] = SubSeq(@, 1, Len(@) - 1)]
  /\ UNCHANGED <<kind, held, lost, event_number, fault>>

(***************************************************************************)
(* The same with a new head that has no open file, which ends the program  *)
(* at an assertion, or that is deallocated by now.                         *)
(***************************************************************************)
ExitFaults(t) ==
  LET head == ll_get(ll_pop(list))
  IN  /\ Leaving(t)
      /\ held[Leaver(t)] # None
      /\ head # None
      /\ \/ CloseFile(file, held[Leaver(t)])[head] # "open"
         \/ SetTracer(refs, t, None)[head] = 0
      /\ fault' = "reattach"
      /\ UNCHANGED <<kind, blocks, list, registered, held, file, refs, lost,
                     event_number, marker>>

(***************************************************************************)
(* __exit__ of an object that has no wrapper: the interpreter lets go of   *)
(* the registered wrapper and RuntimeError is raised.  The Profile class   *)
(* also releases self, which nobody acquired.                              *)
(***************************************************************************)
ExitWithoutWrapper(t) ==
  /\ Leaving(t)
  /\ held[Leaver(t)] = None
  /\ registered' = [registered EXCEPT ![t] = None]
  /\ refs' = SetTracer(refs, t, None)
  /\ file' = Dealloc(file, refs')
  /\ blocks' = [blocks EXCEPT ![t] = SubSeq(@, 1, Len(@) - 1)]
  /\ fault' = IF kind = "P" THEN "release" ELSE "none"
  /\ UNCHANGED <<kind, list, held, lost, event_number, marker>>

-----------------------------------------------------------------------------
(***************************************************************************)
(* An object that no with block uses is deallocated, and releases its      *)
(* wrapper.  The name o then stands for another, new object.               *)
(***************************************************************************)
DeallocObject(o) ==
  /\ fault = "none"
  /\ held[o] # None
  /\ \A t \in Threads : ~ InBlock(t, o)
  /\ held' = [held EXCEPT ![o] = None]
  /\ refs' = Decref(refs, held[o])
  /\ file' = Dealloc(file, refs')
  /\ UNCHANGED <<kind, blocks, list, registered, lost, event_number, marker, fault>>

(***************************************************************************)
(* trace_or_profile_function is called for an event of the thread.  Only   *)
(* an event that is not filtered out reaches the file.                     *)
(***************************************************************************)
Event(t) ==
  LET w == registered[t]
  IN  /\ fault = "none"
      /\ w # None
      /\ event_number[w] < MaxEvents
      /\ event_number' = [event_number EXCEPT ![w] = @ + 1]
      /\ \/ fault' = "none"
         \/ /\ file[w] # "open"
            /\ fault' = "write"
      /\ UNCHANGED <<kind, blocks, list, registered, held, file, refs, lost, marker>>

Next ==
  \/ \E t \in Threads :
       \/ \E o \in Objects : ProfileEnter(t, o) \/ TraceEnter(t, o) \/ EnterFails(t, o)
       \/ ProfileExit(t) \/ TraceExit(t) \/ ExitFaults(t) \/ ExitWithoutWrapper(t)
       \/ Event(t)
  \/ \E o \in Objects : DeallocObject(o)

Spec == Init /\ [][Next]_vars

-----------------------------------------------------------------------------
(* Properties.                                                             *)

TypeOK ==
  /\ kind \in {"P", "T"}
  /\ blocks \in [Threads -> Seq(Objects)]
  /\ list \in Seq(Wrappers)
  /\ registered \in [Threads -> Wrappers \cup {None}]
  /\ held \in [Objects -> Wrappers \cup {None}]
  /\ file \in [Wrappers -> {"free", "open", "closed"}]
  /\ refs \in [Wrappers -> Nat]
  /\ lost \in SUBSET Wrappers
  /\ event_number \in [Wrappers -> 0 .. MaxEvents]
  /\ marker \in [Wrappers -> {"none", "start", "detach", "reattach", "end"}]
  /\ fault \in {"none", "reattach", "release", "write"}

\* No sequence of with blocks makes the code write to a closed file, pop an
\* empty list or release an object twice, or ends the program at the assertion
\* that a tracer to be registered again has an open file.
NoFault == fault = "none"

\* The interpreter calls the head of the list on the one thread that is inside
\* with blocks, and nothing on any other: each exit restores the tracer that
\* its enter had suspended, whatever failed or ended in between.
RegisteredIsHead ==
  \A t \in Threads :
    registered[t] = IF blocks[t] = <<>> THEN None ELSE ll_get(list)

\* A log file is open exactly while its wrapper is on the list: no exit leaves
\* one open behind it, and none closes the file of a tracer still stacked.
OpenIffStacked == \A w \in Wrappers : file[w] = "open" <=> OnList(list, w)

\* The list is the stack of the with blocks: its i-th wrapper belongs to the
\* object of the i-th block, so __exit__, which pops the head, pops its own.
ListMatchesBlocks ==
  \A t \in Threads :
    blocks[t] # <<>> =>
      /\ ll_length(list) = Len(blocks[t])
      /\ \A i \in 1 .. Len(list) : held[blocks[t][i]] = list[i]

\* Py_REFCNT of a wrapper is the number of its owners: objects, threads whose
\* interpreter calls it, and the owner that was overwritten.  No call releases
\* too little or too much, and a deallocated wrapper has no owner.
RefsAccount ==
  \A w \in Wrappers :
    /\ refs[w] = Cardinality({o \in Objects : held[o] = w})
                 + Cardinality({t \in Threads : registered[t] = w})
                 + (IF w \in lost THEN 1 ELSE 0)
    /\ file[w] = "free" <=> refs[w] = 0

\* Under any usage of with statements __exit__ finds something to pop: it
\* does not test for an empty list.
PopsNonEmpty ==
  \A t \in Threads :
    Leaving(t) /\ held[Leaver(t)] # None => ll_length(list) > 0

\* Under any usage the detach message goes to an open file: the code that
\* suspends the head of the list does not test for it.
HeadIsWritable == list # <<>> => file[ll_get(list)] = "open"

\* What ProfileObject_exit and TraceObject_exit assert of the tracer they
\* register again, its log file is open; or the program ends there.
ReattachedFileIsOpen == fault # "reattach"

\* The log of each suspended tracer says last that it was detached, and goes on
\* saying so until its own block is the innermost again.
SuspendedSaysDetached ==
  \A i \in 1 .. Len(list) - 1 : marker[list[i]] = "detach"

\* A suspended tracer sees no event: only the head's counter can advance.
SuspendedIsSilent ==
  [][\A w \in Wrappers :
       event_number'[w] > event_number[w] => w = ll_get(list')]_vars

-----------------------------------------------------------------------------
(* The inductive invariant behind the properties above.                    *)

\* With blocks are open on one thread at a time; without any the list is empty.
OneThreadInBlocks ==
  /\ \A t, u \in Threads : blocks[t] # <<>> /\ blocks[u] # <<>> => t = u
  /\ (\A t \in Threads : blocks[t] = <<>>) => list = <<>>

\* No object is in two with blocks at once.
BlocksDistinct ==
  \A t \in Threads : \A i, j \in 1 .. Len(blocks[t]) :
    blocks[t][i] = blocks[t][j] => i = j

\* No wrapper has two owning objects, and an owned one is not forgotten.
OwnersDistinct ==
  /\ \A o, p \in Objects : held[o] = held[p] /\ held[o] # None => o = p
  /\ \A o \in Objects : held[o] \notin lost

Owned(w) == \E o \in Objects : held[o] = w
Called(w) == \E t \in Threads : registered[t] = w

\* RefsAccount, with at most one owner of each sort.
RefsExact ==
  \A w \in Wrappers :
    /\ refs[w] = (IF Owned(w) THEN 1 ELSE 0) + (IF Called(w) THEN 1 ELSE 0)
                 + (IF w \in lost THEN 1 ELSE 0)
    /\ file[w] = "free" <=> refs[w] = 0

IInv == /\ TypeOK
        /\ NoFault
        /\ OneThreadInBlocks
        /\ BlocksDistinct
        /\ ListMatchesBlocks
        /\ OwnersDistinct
        /\ RegisteredIsHead
        /\ OpenIffStacked
        /\ RefsExact
        /\ SuspendedSaysDetached

-----------------------------------------------------------------------------
\* What the interpreter calls, on whichever thread.
Calling == IF \E t \in Threads : registered[t] # None
           THEN registered[CHOOSE t \in Threads : registered[t] # None]
           ELSE None

StackedContextManagers ==
  INSTANCE TracerStack WITH
    Tracers <- Wrappers, NoTracer <- None, stack <- list, calling <- Calling

\* The stack of context managers that the design note promises: entering
\* suspends the previous tracer, leaving restores it, and nothing else changes
\* which one is called.
ImplementsTracerStack == StackedContextManagers!Spec

=============================================================================
