--------------------------- MODULE ReferenceTracing ---------------------------
(***************************************************************************)
(* cPyMemTrace.ReferenceTracingSimple and cPyMemTrace.ReferenceTracing:    *)
(* context managers that see every object the interpreter creates or       *)
(* destroys.  The simple one counts; the other writes a log file.          *)
(*                                                                         *)
(* CPython has ONE reference tracer for all threads.  Each class has a     *)
(* linked list of its own and registers a tracer in that one slot, and on  *)
(* exit the new head of the list of ITS class.                             *)
(*                                                                         *)
(* The callback that writes a log has to call Python code, so it empties   *)
(* the slot, does its work and puts back what it had found there.  That    *)
(* code can be the user's (a sequence of type names to exclude may be any  *)
(* class), and other threads may run meanwhile.                            *)
(*                                                                         *)
(* All other calls are one step: they run under the GIL.                   *)
(***************************************************************************)
EXTENDS Integers, Sequences, FiniteSets, LinkedList

CONSTANTS Threads,      (* Python threads                                    *)
          Simple,       (* ReferenceTracingSimple objects                    *)
          Files,        (* ReferenceTracing objects                          *)
          Usage,        (* what user code does beyond plain with blocks      *)
          MaxEvents     (* bound on the events one tracer counts             *)

(***************************************************************************)
(* "again": an object is used for a second with block after its first.     *)
(* "mixed": with blocks of both classes are nested.  "gc fails": the call   *)
(* of gc.collect() in __exit__ may fail.                                   *)
(***************************************************************************)
ASSUME UsageAssumption == Usage \subseteq {"again", "mixed", "gc fails"}
ASSUME ClassesAssumption == Simple \cap Files = {} /\ None \notin Simple \cup Files
ASSUME MaxEventsAssumption == MaxEvents \in Nat

Tracers == Simple \cup Files

VARIABLES
  blocks,        \* [Threads -> Seq(Tracers)]: the with blocks a thread is in
  simple_ll,     \* reference_tracing_simple_ll
  file_ll,       \* reference_tracing_ll
  slot,          \* what PyRefTracer_SetTracer has registered
  callback,      \* the tracer whose callback a thread is in, or None
  used,          \* the objects that have been in a with block
  log_file,      \* "none", "open" or "closed"
  count,         \* count_new + count_del of each tracer
  marker,        \* the last annotation in each log file
  stopped,       \* why the innermost tracer is not called: "no", "suspended"
                 \* or "failure"
  fault          \* the assertion that has failed, "pop", "mismatch", "write" or
                 \* "unregistered", "dangling" for a pointer to freed data, or
                 \* "none"

vars == <<blocks, simple_ll, file_ll, slot, callback, used, log_file, count,
          marker, stopped, fault>>

Last(s) == s[Len(s)]
InBlock(t, x) == \E i \in 1 .. Len(blocks[t]) : blocks[t][i] = x

Annotate(x, text) == IF x = None THEN marker ELSE [marker EXCEPT ![x] = text]

-----------------------------------------------------------------------------
Init ==
  /\ blocks = [t \in Threads |-> <<>>]
  /\ simple_ll = <<>>
  /\ file_ll = <<>>
  /\ slot = None
  /\ callback = [t \in Threads |-> None]
  /\ used = {}
  /\ log_file = [x \in Files |-> "none"]
  /\ count = [x \in Tracers |-> 0]
  /\ marker = [x \in Files |-> "none"]
  /\ stopped = "no"
  /\ fault = "none"

-----------------------------------------------------------------------------
(* The two lists.                                                          *)

reference_tracing_simple_ll_get_data == ll_get(simple_ll)
reference_tracing_simple_ll_push(x) == simple_ll' = ll_push(simple_ll, x)
reference_tracing_simple_ll_pop == simple_ll' = ll_pop(simple_ll)

reference_tracing_ll_get_data == ll_get(file_ll)
reference_tracing_ll_push(x) == file_ll' = ll_push(file_ll, x)
reference_tracing_ll_pop == file_ll' = ll_pop(file_ll)

-----------------------------------------------------------------------------
(***************************************************************************)
(* setup.py keeps the assertions of the C code (it sets -UNDEBUG): one that *)
(* fails ends the program, and nothing happens after it.                    *)
(***************************************************************************)
Aborts(why) ==
  /\ fault' = why
  /\ UNCHANGED <<blocks, simple_ll, file_ll, slot, callback, used, log_file, count, marker,
                 stopped>>

\* A thread can run: it is not in a callback, and it can get the GIL, which no
\* callback releases.
Runs(t) ==
  /\ fault = "none"
  /\ \A u \in Threads : callback[u] = None

\* What the callers do: with statements of one thread at a time.
MayEnter(t, x) ==
  /\ Runs(t)
  /\ \A u \in Threads \ {t} : blocks[u] = <<>>
  /\ ~ InBlock(t, x) /\ ~ OnList(file_ll, x)
  /\ x \in used => "again" \in Usage
  /\ "mixed" \notin Usage => IF x \in Simple THEN file_ll = <<>> ELSE simple_ll = <<>>

EnterBlock(t, x) ==
  /\ blocks' = [blocks EXCEPT ![t] = Append(@, x)]
  /\ used' = used \cup {x}
  /\ stopped' = "no"

\* A bug used by the checks: the tracer goes on the list of the other class.
EnterSimpleOnOtherList(t, x) ==
  /\ MayEnter(t, x)
  /\ reference_tracing_ll_push(x)
  /\ slot' = x
  /\ EnterBlock(t, x)
  /\ UNCHANGED <<simple_ll, callback, log_file, count, marker, fault>>

\* cpyReferenceTracingSimple_enter: the slot is emptied, then taken.
EnterSimple(t, x) ==
  /\ MayEnter(t, x)
  /\ reference_tracing_simple_ll_push(x)
  /\ slot' = x
  /\ EnterBlock(t, x)
  /\ UNCHANGED <<file_ll, callback, log_file, count, marker, fault>>

\* A bug used by the checks: the head's log does not say that it is detached.
MarkersWithoutDetach(x) == [marker EXCEPT ![x] = "start"]

MarkersOnEnter(x) == [Annotate(reference_tracing_ll_get_data, "detach") EXCEPT ![x] = "start"]

(***************************************************************************)
(* cpyReferenceTracing_enter.  A second with block of an object goes to    *)
(* the file of the first, which is opened again for writing; the counts go *)
(* on from where they were.                                                *)
(***************************************************************************)
EnterFile(t, x) ==
  /\ MayEnter(t, x)
  /\ log_file' = [log_file EXCEPT ![x] = "open"]
  /\ marker' = MarkersOnEnter(x)
  /\ reference_tracing_ll_push(x)
  /\ slot' = x
  /\ EnterBlock(t, x)
  /\ UNCHANGED <<simple_ll, callback, count, fault>>

(***************************************************************************)
(* The same when the log file can not be opened: IOError is raised.  By    *)
(* then the slot is empty, and nothing is put back.                        *)
(***************************************************************************)
EnterFileFails(t, x) ==
  /\ MayEnter(t, x)
  /\ slot' = None
  /\ log_file' = [log_file EXCEPT ![x] = "none"]
  /\ stopped' = IF blocks[t] = <<>> THEN "no" ELSE "failure"
  /\ UNCHANGED <<blocks, simple_ll, file_ll, callback, used, count, marker, fault>>

-----------------------------------------------------------------------------
\* __exit__ is called for the innermost with block of the thread.
Leaving(t) == Runs(t) /\ blocks[t] # <<>>
Leaver(t) == Last(blocks[t])

LeaveBlock(t) ==
  /\ blocks' = [blocks EXCEPT ![t] = SubSeq(@, 1, Len(@) - 1)]
  /\ stopped' = "no"

\* cpyReferenceTracingSimple_exit: the head of the list is popped, which has to
\* be the object's, and the new head of the same list, if any, is registered.
ExitSimple(t) ==
  LET popped == reference_tracing_simple_ll_get_data
  IN  /\ Leaving(t)
      /\ Leaver(t) \in Simple
      /\ \/ /\ popped = Leaver(t)
            /\ reference_tracing_simple_ll_pop
            /\ slot' = ll_get(simple_ll')
            /\ LeaveBlock(t)
            /\ UNCHANGED <<file_ll, callback, used, log_file, count, marker, fault>>
         \/ popped = None /\ Aborts("pop")
         \/ popped \notin {None, Leaver(t)} /\ Aborts("mismatch")

\* A bug used by the checks: the previous tracer is not registered again.
ExitFileWithoutReattaching(t) ==
  LET x == Leaver(t)
      head == ll_get(ll_pop(file_ll))
  IN  /\ Leaving(t) /\ x \in Files
      /\ reference_tracing_ll_pop
      /\ log_file' = [log_file EXCEPT ![x] = "closed"]
      /\ marker' = [Annotate(head, "reattach") EXCEPT ![x] = "end"]
      /\ slot' = None
      /\ LeaveBlock(t)
      /\ UNCHANGED <<simple_ll, callback, used, count, fault>>

\* A bug used by the checks: the file of the new head is closed.
ExitFileClosingHead(t) ==
  LET x == Leaver(t)
      head == ll_get(ll_pop(file_ll))
  IN  /\ Leaving(t) /\ x \in Files
      /\ reference_tracing_ll_pop
      /\ log_file' = [log_file EXCEPT ![IF head = None THEN x ELSE head] = "closed"]
      /\ marker' = [Annotate(head, "reattach") EXCEPT ![x] = "end"]
      /\ slot' = head
      /\ fault' = IF head = None THEN "none" ELSE "write"
      /\ LeaveBlock(t)
      /\ UNCHANGED <<simple_ll, callback, used, count>>

(***************************************************************************)
(* cpyReferenceTracing_exit, after gc.collect() and the events that causes *)
(* (CallbackBegins).  The popped head has to be the object's: EOF goes to  *)
(* its log, which is closed.  The new head is annotated, which asserts     *)
(* that its log is open, and registered.                                   *)
(***************************************************************************)
ExitFile(t) ==
  LET x == Leaver(t)
      popped == reference_tracing_ll_get_data
      head == ll_get(ll_pop(file_ll))
      writable == \A y \in {x, head} \ {None} : log_file[y] = "open"
  IN  /\ Leaving(t)
      /\ x \in Files
      /\ \/ /\ popped = x
            /\ writable
            /\ reference_tracing_ll_pop
            /\ log_file' = [log_file EXCEPT ![x] = "closed"]
            /\ marker' = [Annotate(head, "reattach") EXCEPT ![x] = "end"]
            /\ slot' = head
            /\ LeaveBlock(t)
            /\ UNCHANGED <<simple_ll, callback, used, count, fault>>
         \/ popped = None /\ Aborts("pop")
         \/ popped \notin {None, x} /\ Aborts("mismatch")
         \/ popped = x /\ ~ writable /\ Aborts("write")

(***************************************************************************)
(* The same when gc.collect() fails: nothing is done, and the interpreter  *)
(* raises SystemError.  The with block has been left all the same.         *)
(***************************************************************************)
ExitFileGcFails(t) ==
  /\ "gc fails" \in Usage
  /\ Leaving(t)
  /\ Leaver(t) \in Files
  /\ LeaveBlock(t)
  /\ UNCHANGED <<simple_ll, file_ll, slot, callback, used, log_file, count, marker, fault>>

-----------------------------------------------------------------------------
(* suspend() and resume() of an object whose with block the thread is in.  *)
(* Both are static: they act on the head of the list of the class.         *)

Suspended ==
  /\ slot' = None
  /\ stopped' = "suspended"

\* Something has to be registered, or an assertion fails.  What is registered
\* with the simple callback is stopped; otherwise RuntimeError is raised and
\* nothing changes.
SuspendSimple(t, x) ==
  /\ Runs(t)
  /\ InBlock(t, x)
  /\ \/ /\ slot \in Simple
        /\ Suspended
        /\ UNCHANGED <<blocks, simple_ll, file_ll, callback, used, log_file, count, marker,
                       fault>>
     \/ slot = None /\ Aborts("unregistered")

\* The log says "suspending" first.  Then something has to be registered, or an
\* assertion fails; if it is not the head, RuntimeError is raised.
SuspendFile(t, x) ==
  LET head == reference_tracing_ll_get_data
  IN  /\ Runs(t)
      /\ InBlock(t, x)
      /\ log_file[head] = "open"
      /\ marker' = Annotate(head, "suspend")
      /\ \/ /\ slot = head
            /\ Suspended
            /\ UNCHANGED fault
         \/ /\ slot \notin {head, None}
            /\ UNCHANGED <<slot, stopped, fault>>
         \/ /\ slot = None
            /\ fault' = "unregistered"
            /\ UNCHANGED <<slot, stopped>>
      /\ UNCHANGED <<blocks, simple_ll, file_ll, callback, used, log_file, count>>

ResumeSimple(t, x) ==
  /\ Runs(t)
  /\ InBlock(t, x)
  /\ slot' = reference_tracing_simple_ll_get_data
  /\ stopped' = "no"
  /\ UNCHANGED <<blocks, simple_ll, file_ll, callback, used, log_file, count, marker, fault>>

ResumeFile(t, x) ==
  /\ Runs(t)
  /\ InBlock(t, x)
  /\ marker' = Annotate(reference_tracing_ll_get_data, "resume")
  /\ slot' = reference_tracing_ll_get_data
  /\ stopped' = "no"
  /\ UNCHANGED <<blocks, simple_ll, file_ll, callback, used, log_file, count, fault>>

-----------------------------------------------------------------------------
(* Any thread creates or destroys an object.                               *)

Counted(x) == count' = [count EXCEPT ![x] = @ + 1]

\* reference_tracing_simple_callback.
EventSimple(t) ==
  /\ Runs(t)
  /\ slot \in Simple
  /\ count[slot] < MaxEvents
  /\ Counted(slot)
  /\ UNCHANGED <<blocks, simple_ll, file_ll, slot, callback, used, log_file, marker,
                 stopped, fault>>

(***************************************************************************)
(* reference_trace_allocations_callback, for an object that is not ignored *)
(* right away: what is registered is remembered and the slot is emptied.   *)
(***************************************************************************)
CallbackBegins(t) ==
  /\ Runs(t)
  /\ slot \in Files
  /\ count[slot] < MaxEvents
  /\ callback' = [callback EXCEPT ![t] = slot]
  /\ slot' = None
  /\ UNCHANGED <<blocks, simple_ll, file_ll, used, log_file, count, marker, stopped,
                 fault>>

InCallback(t) == fault = "none" /\ callback[t] # None

CallbackEnds(t) == callback' = [callback EXCEPT ![t] = None]

\* The object's type is not of interest: the remembered tracer is put back.
CallbackSkips(t) ==
  /\ InCallback(t)
  /\ slot' = callback[t]
  /\ CallbackEnds(t)
  /\ UNCHANGED <<blocks, simple_ll, file_ll, used, log_file, count, marker, stopped,
                 fault>>

WriteFault(x) == IF log_file[x] = "open" THEN "none" ELSE "write"

\* A bug used by the checks: the remembered tracer is not put back.
CallbackWritesAndForgets(t) ==
  /\ InCallback(t)
  /\ Counted(callback[t])
  /\ fault' = WriteFault(callback[t])
  /\ CallbackEnds(t)
  /\ UNCHANGED <<blocks, simple_ll, file_ll, slot, used, log_file, marker, stopped>>

\* The event is counted and written, and the remembered tracer is put back.
CallbackWrites(t) ==
  /\ InCallback(t)
  /\ Counted(callback[t])
  /\ fault' = WriteFault(callback[t])
  /\ slot' = callback[t]
  /\ CallbackEnds(t)
  /\ UNCHANGED <<blocks, simple_ll, file_ll, used, log_file, marker, stopped>>

\* There is no memory for the live count of a new type: the callback returns
\* with the event half written and the slot empty.
CallbackRunsOutOfMemory(t) ==
  /\ InCallback(t)
  /\ Counted(callback[t])
  /\ fault' = WriteFault(callback[t])
  /\ stopped' = "failure"
  /\ CallbackEnds(t)
  /\ UNCHANGED <<blocks, simple_ll, file_ll, slot, used, log_file, marker>>

(***************************************************************************)
(* An object is deallocated outside its with blocks, and its data with it. *)
(* The name x then stands for another, new object.                         *)
(***************************************************************************)
Dealloc(x) ==
  /\ \E t \in Threads : Runs(t)
  /\ \A t \in Threads : ~ InBlock(t, x)
  /\ x \in used
  /\ used' = used \ {x}
  /\ fault' = IF slot = x \/ OnList(simple_ll, x) \/ OnList(file_ll, x)
              THEN "dangling" ELSE "none"
  /\ UNCHANGED <<blocks, simple_ll, file_ll, slot, callback, stopped>>

cpyReferenceTracingSimple_new(x) ==
  /\ count' = [count EXCEPT ![x] = 0]
  /\ UNCHANGED <<log_file, marker>>

cpyReferenceTracing_new(x) ==
  /\ count' = [count EXCEPT ![x] = 0]
  /\ log_file' = [log_file EXCEPT ![x] = "none"]
  /\ marker' = [marker EXCEPT ![x] = "none"]

DeallocSimple(x) == Dealloc(x) /\ cpyReferenceTracingSimple_new(x)
DeallocFile(x) == Dealloc(x) /\ cpyReferenceTracing_new(x)

Next ==
  \/ \E t \in Threads :
       \/ \E x \in Simple : EnterSimple(t, x) \/ SuspendSimple(t, x) \/ ResumeSimple(t, x)
       \/ \E x \in Files : \/ EnterFile(t, x) \/ EnterFileFails(t, x)
                           \/ SuspendFile(t, x) \/ ResumeFile(t, x)
       \/ ExitSimple(t) \/ ExitFile(t) \/ ExitFileGcFails(t) \/ EventSimple(t)
       \/ CallbackBegins(t) \/ CallbackSkips(t) \/ CallbackWrites(t)
       \/ CallbackRunsOutOfMemory(t)
  \/ \E x \in Simple : DeallocSimple(x)
  \/ \E x \in Files : DeallocFile(x)

Spec == Init /\ [][Next]_vars

-----------------------------------------------------------------------------
(* Properties.                                                             *)

TypeOK ==
  /\ blocks \in [Threads -> Seq(Tracers)]
  /\ simple_ll \in Seq(Simple) /\ file_ll \in Seq(Files)
  /\ slot \in Tracers \cup {None}
  /\ callback \in [Threads -> Files \cup {None}]
  /\ used \in SUBSET Tracers
  /\ log_file \in [Files -> {"none", "open", "closed"}]
  /\ count \in [Tracers -> 0 .. MaxEvents]
  /\ marker \in [Files -> {"none", "start", "detach", "reattach", "suspend",
                           "resume", "end"}]
  /\ stopped \in {"no", "suspended", "failure"}
  /\ fault \in {"none", "pop", "mismatch", "write", "unregistered", "dangling"}

\* The tracers that stay on the list although their with block has been left,
\* as gc.collect() failed.
Abandoned == {x \in Files : OnList(file_ll, x) /\ \A t \in Threads : ~ InBlock(t, x)}

\* Of the code's assertions and pointers, whatever is nested, suspended or fails:
\* no empty list is popped, and no closed log is written to.  The popped tracer
\* is the object's own, and no data is freed that is on a list or registered,
\* unless gc.collect() has abandoned a tracer.  suspend() finds a tracer
\* registered unless one is stopped already or abandoned, or the with blocks of
\* the two classes are mixed.
NoFault ==
  /\ fault \notin {"pop", "write"}
  /\ fault \in {"mismatch", "dangling"} => Abandoned # {}
  /\ fault = "unregistered" => stopped # "no" \/ Abandoned # {} \/ "mixed" \in Usage

CalledBack == {callback[t] : t \in Threads} \ {None}

\* Unless a tracer is abandoned:
\* the tracer of the innermost with block is the one that is called, in every
\* thread, or is being called back right now, unless suspend() or a failure has
\* stopped it: then nothing is called at all.  Outside with blocks nothing is.
PreviousIsRestored ==
  Abandoned = {} => \A t \in Threads :
    /\ blocks[t] # <<>> =>
         IF stopped = "no" THEN {slot} \cup CalledBack \in {{Leaver(t)}, {None, Leaver(t)}}
                           ELSE {slot} \cup CalledBack = {None}
    /\ (\A u \in Threads : blocks[u] = <<>>) => {slot} \cup CalledBack = {None}

\* What the design note says of any context manager that goes out of scope:
\* the previous one, if any, is restored.
ExitRestoresPrevious ==
  [][\A t \in Threads :
       Len(blocks'[t]) < Len(blocks[t]) /\ blocks'[t] # <<>>
       => slot' = Last(blocks'[t])]_vars

\* What a log says last is true: the tracer that is registered was started,
\* attached again or resumed since it was last detached or suspended, and
\* every tracer below the head says that it is detached, abandoned or not.
AnnotationsAreTrue ==
  fault = "none" =>
  /\ slot \in Files => marker[slot] \in {"start", "reattach", "resume"}
  /\ \A i \in 1 .. Len(file_ll) - 1 : marker[file_ll[i]] = "detach"

-----------------------------------------------------------------------------
\* What is called, counting what is being called back.
Calling == IF CalledBack = {} THEN slot ELSE CHOOSE x \in CalledBack : TRUE

StackedContextManagers ==
  INSTANCE TracerStack WITH
    NoTracer <- None, stack <- simple_ll \o file_ll, calling <- Calling

\* The stack of context managers that the design note promises, which can be
\* stopped and resumed.
ImplementsTracerStack == StackedContextManagers!PausableSpec

=============================================================================
