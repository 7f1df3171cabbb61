# Verification of pymemtrace

pymemtrace measures the memory use of Python programs: tracers in C that are
called by the interpreter on every function call or every object created, a
thread that logs the state of a process, and tools that read such logs. This
directory holds TLA+ specifications of its parts, configurations that check
them with TLC on small instances, and theorems that the TLA+ proof system
checks for instances of any size. `PROJECT.json` relates every definition to
the source lines it models. Paths below are relative to the repository;
`cPyMemTrace.c` stands for `pymemtrace/src/cpy/cPyMemTrace.c`.

## 1. Inventory

| Component | Source | State it keeps | Operations | What is hard | What makes it correct |
|---|---|---|---|---|---|
| Profile and Trace context managers | `cPyMemTrace.c` 259-1400 | two process-wide linked lists of log file wrappers; the function each thread has registered with the interpreter; reference counts; one `FILE` per wrapper | `__enter__`, `__exit__`, the event callback, deallocation | the list is global, the registration per thread; a failing `fopen`; an object used twice; counting by hand | the innermost tracer of the thread is the one called; files are open exactly while stacked; nothing is released twice or lost |
| Log of Profile and Trace | `cPyMemTrace.c` 310-580, 740-935 | event counters, last RSS, last reported RSS, one text buffer | open, event, message, raw write, close | what is skipped and what is reported; one buffer for three sorts of lines; the RSS is read twice per event | the log can be parsed, nothing that the trigger asks for is missing, the columns and the PREV lines agree with what was skipped |
| ReferenceTracing and ReferenceTracingSimple | `cPyMemTrace.c` 1495-1870, 2400-3400 | a list per class, CPython's single tracer slot, log files, counts | enter, exit, `suspend`, `resume`, the callbacks, deallocation | one slot for two lists and all threads; a callback that empties the slot, runs Python code and puts back what it found | as above, and a suspended or stopped tracer sees nothing, and the logs say which tracer ran when |
| Filters of the reference tracing callback | `cPyMemTrace.c` 2560-2671 | sets of type names | the tests | user classes may run Python code | an event is dropped only if the filter says so |
| Hash table and live counts | `pymemtrace/src/c/ht.c`, `cPyMemTrace.c` 2505-2533, 3355-3407 | slots, capacity, length, an iterator | get, set, expand, iterate | collisions around the end, expansion, no memory half way, a table that changes under its iterator | it is a map, and no lookup runs for ever |
| Log files of ReferenceTracing | `cPyMemTrace.c` 2200-2270, 2470-2765, 2970-2990, 3320-3406 | one file per tracer, live counts by type, counts of events | NEW and DEL lines, messages, queries | logs of nested tracers lead into each other; half a line; a tracer with another filter sees the rest of an object's life | the logs tell which objects are alive, and agree with the answers to the queries |
| Log file names | `pymemtrace/src/c/pymemtrace_util.c` | a static buffer, a file number | `create_filename_within_cwd` | a mutex that is a local variable; names within one second; a path that the user gives to two tracers | two tracers share no file, unless the user gives them one path |
| Module functions of cPyMemTrace | `cPyMemTrace.c` 3509-4332 | none of their own | depths, paths, messages | none: reads of the lists | agree with the lists |
| Resident set size | `pymemtrace/src/c/get_rss.c` | none | one system call | | |
| Process logging | `pymemtrace/process.py` 250-328 | a queue of messages, the flag `_run` | `add_message_to_queue`, `run`, `join`, `log_process` | two threads drain one queue, each after a test that may be stale | every message is logged once, and `join` ends |
| Reading process logs | `pymemtrace/process.py` 40-247, 330-401 | tables per process | parse, tabulate | empty logs, missing columns | |
| Process tree | `pymemtrace/process_tree.py` | the tree of known processes, previous values, a JSON file | update, sample, summary, JSON record | processes that come and go between any two questions; exceptions half way through a sample | the tree is the one that is there, differences are those of the same process, the JSON file is a list |
| Decorators | `pymemtrace/cpymemtrace_decs.py` | none | one with block around a call | | those of the context managers |
| Analysis of reference traces | `pymemtrace/util/ref_trace_analyse.py` | live objects by address | NEW, DEL and message lines, files that lead into others | an address is used again; objects destroyed unseen | the live set is that of the program, as far as it was traced |
| Analysis of DTrace logs | `pymemtrace/util/dtrace_log_analyse.py` | live blocks by address, totals | malloc and free lines | lost and unreadable lines, NULL | the live set is that of the process, up to the lines lost |
| Deliberate memory leaks | `pymemtrace/src/cpy/cMemLeak.c` | a block per object, three allocators, reference counts changed by hand | construct, `__init__` again, `inc_refcnt`, `py_incref`, `py_decref`, deallocation | allocation fails between `tp_new` and the end of `tp_init`; signed sizes | memory leaks on purpose only |
| `malloc_stats` and `tracemalloc` differences | `pymemtrace/debug_malloc_stats.py`, `pymemtrace/trace_malloc.py` | snapshots | difference | a line in one snapshot only | a difference added to the first gives the second |
| Redirection of C output | `pymemtrace/redirect_stdout.py` | file descriptors | redirect, restore | an exception in between | the descriptor is what it was |

The components interact as follows. The interpreter calls the registered
tracer on every event; the tracer writes to its own log. Entering a with block
pushes on a list and registers; leaving it pops and registers the new head, so
the list, the registration, the with statements of the callers, the open files
and the reference counts are five copies of one stack. The reference tracers
keep their live counts in a hash table that the callback changes while Python
code may be copying it, and answer queries from it; their logs are read by the analysis.
The process logging thread shares a queue with the thread that joins it. The
objects of `cMemLeak` call the allocators that DTrace watches, whose log is read
by the other analysis.

## 2. Modules

| Module | Models | Composed with |
|---|---|---|
| `LinkedList` | `wrapper_ll_push`, `_pop`, `_get`, `_length` | used by `ProfileTraceStack`, `ReferenceTracing` |
| `TracerStack` | abstract: what the design note (`docs/source/tech_notes/cPyMemTrace_design.rst`) promises of stacked context managers | implemented by the same two |
| `ProfileTraceStack` | Profile and Trace: with blocks, list, registration, reference counts, files | refines `TracerStack` |
| `ProfileTraceStack_proofs` | theorems about it | |
| `ReferenceTracing` | both reference tracing classes with the one slot | refines `TracerStack` (with pausing) |
| `ReferenceTracing_proofs` | theorems about it | |
| `TraceLog` | the lines of one log of Profile or Trace | |
| `TraceLog_proofs` | theorems about it | |
| `LiveCounts` | abstract: a number for each type of which an event was seen | implemented by `HashTable` |
| `HashTable` | `ht.c`, the live counts and the copy into a dictionary | refines `LiveCounts` |
| `HashTable_proofs` | theorems about it | |
| `ProcessLogging` | the logging thread, its queue and `join` | |
| `ProcessLogging_proofs` | theorems about it | |
| `ReferenceLog` | the log files of `ReferenceTracing`: names, filters, lines, live counts, queries | instance of `TracerStack`, whose actions say which tracer is called, and of `RefTraceAnalyse` |
| `RefTraceAnalyse` | the analysis of those logs, as operators | used by `ReferenceLog` |
| `ReferenceLog_proofs` | theorems about both | |
| `MemLeak` | the objects of `cMemLeak.c` and their blocks | |
| `DTraceLogAnalyse` | the analysis of DTrace logs, as operators | used by `MallocTrace` |
| `MallocTrace` | `MemLeak` watched by DTrace, and the analysis of what was seen | extends `MemLeak` |
| `MallocTrace_proofs` | theorems about it and about `MemLeak` | |
| `ProcessTree` | sampling a tree of processes that goes on changing | |
| `ProcessTree_proofs` | theorems about it | |
| `MC...` | the symmetry sets for TLC | |

### ProfileTraceStack

A variable per piece of C state: `list` is `static_profile_ll` or
`static_trace_ll`, `registered` what `PyEval_SetProfile`/`SetTrace` holds for a
thread, `held` is `self->trace_file_wrapper`, `refs` is `Py_REFCNT`, `file` the
`FILE`, `event_number` the counter of the callback, `marker` the last line about
a context switch in each log. `blocks` is the stack of with statements of each
thread. Profile and Trace run the same code on two lists that never refer to
each other, so `kind` fixes which one a behaviour follows; their `__exit__`
differ in one place and so do `ProfileExit` and `TraceExit`.

A call of the C API is one step: it holds the GIL and calls no Python code.
(`PyEval_SetProfile` may release the last reference to an earlier tracer, whose
deallocation is part of the step.) `Enter` is `__enter__` as a whole: the detach
message to the head, creation of the wrapper, push, registration. `EnterFails`
is the branch in which `fopen` fails, after the detach message. (Without memory for
the wrapper, lines 943-946, no message is written and the program ends at an
assertion, so that branch has no state after it.) `Exit` pops the
head of the list, whoever is leaving, closes the leaver's own file, and
registers the new head; `ExitWithoutWrapper` is the branch without a wrapper.
`setup.py` compiles the C code with its assertions (`DEBUG = True`, lines 56-59, which
sets `-UNDEBUG`). `fault` records what ends the program: the assertion fails that a
tracer to be registered again has an open file, an object is released twice, an
event is written to a closed file.

The constant `Usage` names what callers do beyond plain with blocks: `"again"`,
an object has a second with block after its first; `"nested"`, while it is in
its first; `"overlap"`, blocks of several threads at once. The documentation
promises a stack, so the promises are checked for plain use and reuse, and the
weaker facts for everything.

### ReferenceTracing

`simple_ll` and `file_ll` are the two lists and `slot` is CPython's tracer. The
callback of a simple tracer is one step. That of a file tracer is several:
`CallbackBegins` empties the slot, then `CallbackSkips`, `CallbackWrites` or
`CallbackRunsOutOfMemory` ends it. In between no other thread runs, and no code of
the user does (`Runs`): filters are sequences of names whose `__contains__` is not
Python code (a list, a tuple). So what is checked of the emptied slot is that each way
out of the callback leaves it right; what a filter in Python could do in between
is a finding. An assertion that fails ends the program (`Aborts`): the popped
tracer is not the object's (`"mismatch"`), or there is none (`"pop"`), a message is
written to a closed log (`"write"`), `suspend()` finds nothing registered
(`"unregistered"`, lines 3249 and 1819). `"dangling"` is data freed while the list or
the slot has it.
`stopped` is a history variable: why the innermost tracer is not called, if it is
not. In `Usage`, `"mixed"` nests the two classes in each other, and with `"gc fails"` the
`gc.collect()` of `__exit__` may fail (`ExitFileGcFails`), which leaves the tracer
on the list: such a tracer is `Abandoned`. `PreviousIsRestored`, what is promised of the
stack of with blocks, is checked as long as there is none; that
the list is a stack of which the head is called (`ImplementsTracerStack`) and that
logs tell the truth (`AnnotationsAreTrue`) is checked in any case. `NoFault` says of each
assertion when it may fail: never `"pop"` and `"write"`; `"mismatch"` and `"dangling"` only with an
abandoned tracer; `"unregistered"` also when a tracer is stopped already, by `suspend()`
or a failure, or blocks of the two classes are mixed. An object that
is on the list and not in a with block is not entered again.

### ReferenceLog and RefTraceAnalyse

Which tracer is called is taken from `TracerStack`, which `ReferenceTracing`
implements: `Enter`, `Exit`, `Suspend`, `Resume` and the failures are conjoined with its
`Begin`, `End`, `Pause` and `Resume`. What this module adds is data: a program that creates and
destroys objects at addresses it uses again (`heap`), the filter each tracer was
constructed with, the file each has (`path`), the lines of each file (`logs`), the
live counts and the counters. A name that is made up is the file number and the depth, which is
what tells names made within one second apart; a path that the user gives (`Paths`)
may be given to several tracers. The code does not look whether a file is in
use, and opens it for writing. `NotInUse` assumes that users do not nest tracers
with one path (if they do, the inner one truncates the outer one's log: a finding);
one after the other they may. A line has its kind, and for an event the
address, the type and the live count; clock, location and RSS are left out. `logs` are
pieces of text: a piece is a line, except the half line that is left when there is no memory for
a count (`"half"`). It has no end of line, so the piece after it, a message, goes on
with that line. Paths given to Profile and Trace, which keep no counts, are not modelled.

`RefTraceAnalyse` is the reader: `ReadingOrder` is the order in which
`process_file_to_log_result` gets to the lines when it follows "Detaching" lines
into the files they name, `ReadLine` what each line does. `LeaksAreFound` reads
the logs in every state and compares them with the program. A half line, with what
follows it, makes the reader raise `ValueError` (a finding), so a log in which there is one is not
`Legible`, and `LeaksAreFound` and `NestingIsReadable` speak of legible logs. `session` is a history variable
for it: the outermost with block's file, the addresses whose object was seen to be created
(`seen`), those where such an object was destroyed unseen (`unseen`), and whether a file
was opened twice (`rewritten`), in which case the reader can not be right (a finding).

### MemLeak, DTraceLogAnalyse and MallocTrace

`heap` is the memory of the C library with the arenas of `pymalloc`, `size` and
`buffer` the fields of each object, `refcnt` and `held` its reference count and the
reference of the program; the difference is what was added by hand. The three
classes are written alike and differ in the allocator; each function of each class
has its definition, over one operator for what they share. A size is passed as a
`Py_ssize_t`, up to `PY_SSIZE_T_MAX`, and becomes a `size_t`, up to `SIZE_MAX`; no
allocator gives a block above `PY_SSIZE_T_MAX` (`MaxBlock`). `calls` is what the
last step called in the C library, in order, which is what DTrace can see
(`ConstructFails` has both failures of `tp_init`: no memory, and an argument that is
no size); requests that `pymalloc` serves from an arena call nothing.

`DTraceLogAnalyse` is the reader, an operator per method. `MallocTrace` conjoins to
each step of `MemLeak` an `Observe` in which any part of the calls reaches the log
(`ReadLines`) and the rest is `lost`: the script skips calls outside Python
functions, DTrace drops records when its buffers are full, and some lines can not be
parsed. Lines are in the order of the calls, as the script of one process on one
processor prints them.

### ProcessTree

The operating system is part of the model: between any two questions to `psutil`
processes `Spawn`, `End` (and are zombies), are `WaitedFor`, and their values
change. `ppid` and `status` are what `psutil` answers from. `pc` and `agenda` are
the control of `log_process`: the recursion over the tree is a sequence of nodes
still to do, in the order of the code, and one step asks one question; only the
questions for the parents of the children of one node (`RemoveOrphans`) are one
step. If their parent ends between two of them the code keeps some of its children
and removes the others; the model keeps all or removes all, and either is right for
each of them. One column with a difference stands for all. The option `--json` is
on, as the file is only written, never read: without it `WriteComma` and
`WriteRecord` are left out and nothing else changes. They are two steps, since the
comma is written before the record is composed and an interrupt may come between.
`written` sums what was written for each process; `stable` and `known` say which
descendants were there during the whole of an update, or at any time of it. Assumed:
an orphan goes to a parent outside the tree (no subreaper in it), and no process
number is used again. Versions of `psutil` differ in what they do for a zombie
(`zombies_raise`) and for the children of a process that is gone
(`AddChildrenRaises`); the model has both.

### TraceLog

A line is a record of the columns Event, dEvent, RSS and dRSS; the location, the
clock and the layout are left out. Every call asks the operating system for the
RSS anew, so the model takes any value each time, twice in an event that writes.
`event_text` is the one buffer all lines are composed in, which is why it is a
variable.

### HashTable

`hash` is any function from types to `Hashes`; only `hash & (capacity - 1)` is
used, so `{0, 3, 7}` gives, with capacities 2, 4 and 8, types that always
collide, that collide until an expansion, and that go around the end.
`Insert` is `ht_set` with its expansion, `InsertFails` the branch in which the
copy of the key fails after the expansion has been done. `BeginRetrieval`,
`RetrieveNext` and `EndRetrieval` are the loop of
`cpyReferenceTracing_dict_of_live_objects_private`, which creates Python objects
and so may be interrupted by the callback that counts events, also those of a
new type. If that expands the table, the iterator has an index into another
array and may miss types (a finding); `due`, the types that the dictionary must
have in the end, is emptied then. The text of names and FNV-1a itself are left
out.

### ProcessLogging

Each test of `_run`, test of the queue, `get` and line written is a step of one
of two threads: `"logger"`, in `run()`, and `"joiner"`, in the body of the with
block and then in `join()`. Both run `_write_to_log`, so its actions take the
thread as a parameter. Lines without a message are steps that leave no trace in
`log`. `"others"` in `Usage` lets other threads put messages while `join` runs;
`"process ends"` lets the watched process end, upon which psutil raises and the
thread that reads it stops, with the message it holds. `put` and `pledged` are
history variables. Messages are all different, which loses nothing: the code
never compares them.

Fairness (`FairSpec`): weak fairness of each of the two threads, which Python's
scheduler gives to a thread that can run; a `get` that waits on an empty queue
cannot run. That the body of the with block ever ends is not assumed, nor that
anything is put.

## 3. Runs

| Run | Instance | What it shows |
|---|---|---|
| `stack_with_blocks` | 2 threads, 3 objects, 4 wrappers, 2 events each | With blocks of one thread at a time, with failing enters, reused objects and deallocation in any order: no fault; the head of the list is what is called; files are open exactly while stacked; each suspended log says that it is detached; the code implements `TracerStack`. |
| `stack_any_usage` | 2 threads, 2 objects, 4 wrappers, all usages | What still holds then: reference counts, a pop always finds a node, and the head of the list has an open file. |
| `stack_overlapping_threads` (violation) | 2 threads, 3 objects | Blocks of two threads that overlap pop each other's node, and a tracer without a file is registered, which the code asserts not to happen. |
| `trace_log` | RSS 1-3, triggers 0-2, 4 events, 1 message | The log parses, there is a PREV line exactly where events were skipped, the columns count these, and nothing that the trigger asks for is missing, in either direction. |
| `ref_tracing` | 2 threads, 2 simple and 3 file tracers, 2 events each | Nested tracers of one class with suspend, resume, failing enters, failing exits and memory errors: the innermost one is called or, if stopped, none; no assertion fails but that of `suspend()`, and those of an exit after `gc.collect()` has failed; logs tell the truth; it implements `TracerStack`. |
| `ref_mixed` (violation) | 2 and 2 tracers | Nested in a tracer of the other class, the outer one is not restored. |
| `ref_log` | 2 tracers with 2 filters, a path that both may be given, 2 addresses, 3 types, 2 objects, 3 blocks, 3 events, 1 incident | The analysis finds exactly the objects that are alive, of those whose creation was traced, and others only if they were destroyed unseen; counts and live counts agree with the log, up to an event there was no memory for; every stacked log without a half line leads to the next; no log is emptied but by its own object or one that was given the same path. |
| `hash_table` | 5 types, every hash function into {0, 3, 7}, capacities 2 to 8 | Lookups end, a copy misses nothing unless the table is expanded meanwhile, and the table implements `LiveCounts`. |
| `process_logging` | 3 messages, others put too, the process may end | Each message is in one place at a time and logged once; `join` returns only when all that was put before it is logged; one thread's lines are in order; every message gets to the log; `join` ends if the queue is empty when it is called. |
| `join_hangs` (violation) | 1 message | Both threads see the one message, one takes it, the other waits for ever: `join` does not return. |
| `mem_leak` | 2 objects, 3 addresses (one in an arena), sizes -1, 0 and 2, 1 reference by hand, 3 lines read, 1 lost | No two objects have one block, blocks have the size the object reports, and what can not be reached was leaked on purpose; the analysis has exactly the allocated blocks if no line was lost, and is wrong about, or complains of, at most one block per lost line or failed `malloc`. |
| `process_tree` | 3 processes, 2 changes of values, 2 samples | After each update the tree has every descendant that was there all through it and none that was not there; differences add up to the value last written; the JSON file is a list when the log ends, but for a comma at its end if the last sample was interrupted at the root. |

Deadlock is checked except where the system may really stop: after a fault
(`stack_any_usage` and `stack_overlapping_threads`; `fault` stops the model),
when a log has been closed, when `join` has returned or hangs, after an
assertion has failed (`ref_tracing`), when the log of processes has ended,
and where the bounds of the model end it (`ref_log`, `mem_leak`).

Bounds, and why they suffice. Two threads and three nested blocks give every
relation the code tells apart: none, a head alone, a head with one suspended
below it and, below that, a node no operation touches. Four wrappers let one be
freed and its memory used again while three are stacked. Two events tell "sees
events" from "saw one". The three RSS values with triggers up to 2 reach every
outcome of the comparison (below, equal, above, in both directions), and four
events allow two skipped ones between two reported ones. The capacity of the
hash table starts at 2 rather than 16 so that two expansions happen with five
types; its code depends on the capacity only through the mask and the half.
Counts in `-1 .. 1` include the negative one that a destruction of an object
older than the tracer causes. In `ref_log` one incident (`MaxIncidents`) is a
message of the user, a suspension or a failure; starting a stopped tracer is
free, so that a suspension with what comes after it is one. Two tracers with
three blocks make one that is entered again and one inside the other; two
addresses and three events an address that is used again, seen or unseen. In
`mem_leak`, `PY_SSIZE_T_MAX` is 3, so that -1 becomes 7, which no allocator has; one lost line and three read
ones suffice for a block to be allocated, lost and allocated again. Three
processes are a child with a child, or two children, which may become orphans,
be adopted or end in any order. One message suffices to hang `join`, three let
each thread hold one while one is queued.

Each property has a plausible bug in the code that breaks it; those bugs stand
beside the definitions they replace as "A bug used by the checks", and
`PROJECT.json` says which property finds which.

## 4. Findings

Section "findings" of `PROJECT.json` quotes the lines. Shown by a run: overlapping
threads register a tracer whose file is closed; nested tracers of different
classes do not restore; `join` can hang.

Met while modelling, without a run:

- Profile and Trace: a failing `fopen` leaves a false "detaching" message; PREV is
  not the preceding event but the text composed last.
- ReferenceTracing: a failing inner `__enter__` ends the outer tracer; a failing
  `gc.collect()` leaves the tracer stacked and registered, and the exit of the outer
  one ends the program at an assertion; `suspend` of an outer tracer stops the inner
  one and raises nothing; `suspend` when nothing is registered, for instance a
  second time, ends the program at an assertion instead of raising `RuntimeError`; a
  filter in Python code lets another thread leave the with block during a callback,
  which then writes to a closed log; an exception of a filter stays set; a failing
  `__init__` leaves borrowed references that are released.
- Its logs and counts: the first dRSS is indeterminate; without memory a line is
  left half written; an object entered again truncates its own log, and a nested one
  given the same path that of the outer one; `live_object_counts` leaks an int per
  type, misses types when the table grows under its iterator, and the counts in the
  table are never freed.
- File names: the mutex of `create_filename_within_cwd` excludes nobody (its callers
  hold the GIL).
- Process logging: a line can follow the STOP line.
- Analyses: the historical report asserts that an address keeps its type; a failed
  `malloc` is outstanding for ever; lines of `calloc` can not be parsed.
- `cMemLeak`: a second `__init__` leaks a block; a failing one sets no exception.
- Process tree: `--omit-first` puts a comma before the first record; an interrupt
  between a comma and its record leaves the comma before the `]`; an interrupted
  first sample leaves the file without its end; a line is left without a newline;
  exceptions of `psutil` that nothing catches.

## 5. Proofs

Every theorem holds for any values of the constants that the modules assume.
Each inductive invariant was checked by TLC on the instance of the component's
run before it was proved (`EnoughNodes`, below, as a count: no more with blocks
than nodes). In all of them `Invariance` (`SpecHasInvariant` for the process tree, or the name given) is the
invariant of the specification, and the theorems about single properties follow
from it.

### Profile and Trace

`ProfileTraceStack_proofs` has two parts. The first is about plain use: the
assumption `Disciplined` says that callers use with statements of one thread at
a time and enter no object that is already in a block (`Usage \subseteq
{"again"}`).

- `TypeCorrect`, `Faultless`, `Stacking` (`RegisteredIsHead` and the annotations
  of suspended logs), `FilesOpenWhileStacked`, `ReferencesAccounted`: the
  invariants that `stack_with_blocks` checks;
- `SuspendedSilence`: the action property that only the head sees events, which follows
  from `RegisteredIsHead` and is no property of a run;
- `Refinement`: the specification implements `TracerStack`.

The argument is one inductive invariant, `IInv` (in `ProfileTraceStack`).
`RegisteredIsHead` alone is not inductive: that an exit registers the right
tracer needs that the popped node is the leaver's (`ListMatchesBlocks`), which
needs that blocks are distinct (`BlocksDistinct`) and on one thread
(`OneThreadInBlocks`). That no call releases too much needs that each wrapper
has one owner (`OwnersDistinct`). `RefsAccount`, which counts owners with
`Cardinality`, is replaced by `RefsExact`, where each sort of owner is at most
one; `ReferencesAccounted` derives the counted form. `InitInvariant` and
`NextInvariant` show it inductive, with one lemma per action over lemmas about
the list and about one state (`InsideFacts`, `ListDistinct`, `LeaverFacts`...).
`StackStep` maps every step to a step of `TracerStack` or a stutter.

The second part assumes nothing of the callers, as `stack_any_usage` does:
`ListNeverRunsOut` (`PopsNonEmpty`), `HeadAlwaysWritable` (`HeadIsWritable`) and
`ReferencesAccountedInAnyUsage` (`RefsAccount`). The list and the with blocks no
longer match, so their invariant, `AnyUsageInv`, says less and differently:

- `EnoughNodes`: each with block of any thread can be given a node of the list
  to itself. An exit pops a node that may be another block's, which then gets
  the node of the block that is left (`NodesPopped`).
- `Counted`: `RefsAccount` itself, over the set of threads that call a wrapper,
  which may now be of any size (`CallersAfter` says how it changes).
- `OpenIsNeeded`: an open file belongs to an object that is in some with block,
  or to nobody. Without it a deallocation might close the file of the head, and
  `HeadIsWritable` would not be inductive.

### Reference tracers

`ReferenceTracing_proofs` proves of any usage `TypeCorrect`, `Faultless` (`NoFault`)
and `TruthfulLogs` (`AnnotationsAreTrue`); if with blocks of the two classes are not
nested in each other (`NotMixed`) `PreviousRestored` (`PreviousIsRestored`) and
`Refinement` (`ImplementsTracerStack`); if moreover `gc.collect()` does not fail
(`GcSucceeds`) `ExitRestores`, that each exit puts back the tracer of the enclosing
block. `NoneAbandoned` shows that with `GcSucceeds` alone no tracer is left on its
list, and that the only assertion that can fail is that of `suspend()`. The runs
check the same under the same conditions, and `ref_mixed` shows that `NotMixed` is
needed.

In its `IInv` the two lists hold the tracers of the with blocks in their order,
the list with files also abandoned ones (`ListsMatchBlocks`); a tracer in the
slot is the head of its own list (`CalledIsHead`); at most one thread is in a
callback, of the head, with the slot empty (`OneCallback`). `OneCallback` is
what lets the callback put back what it found: it is still the head.

### The log of Profile and Trace

`TraceLog_proofs` proves `TypeCorrect`, `ParsedLogs` (`Grammar`), `CountedLogs`
(`SkippedEventsAreCounted`) and `CompleteLogs` (`NothingIsMissed`). The log
reports differences, computed from `previous_event_number`; a reader adds them
up from the last NEXT line. `IInv` has that both are the same number in an open
log (`OpenLog`). Lines are only appended, so the lemmas say what one more line
does to the last NEXT line before each position (`Reported`).

### The hash table

`HashTable_proofs` proves, for any hash function and any types, `TypeCorrect`,
`LookupsTerminate` (`LookupsEnd`), `RetrievalComplete`
(`RetrievalMissesNothing`) and `Refinement` (`ImplementsLiveCounts`). `IInv`
says that each key has one place (`OnePlace`) and that no slot between where its
hash points to and that place is empty (`WellPlaced`), and that the length is the
number of keys and at most half of the capacity (`LengthCounts`). An
empty slot therefore exists, which every probe reaches (`ProbingReaches`).
`ExpandedFacts` shows that the larger table has the same keys with the same
values, well placed again.

### Process logging

`ProcessLogging_proofs` proves, for any number of messages and any usage,
`TypeCorrect`, `EachOnce` (`EachMessageOnce`), `NothingLost`
(`JoinLosesNothing`) and `OrderedLogs` (`LoggedInOrder`). Its `IInv` says in
which places a message can be (`OnePlace`, `SomePlace`), that the thread runs
until it is told to stop (`StoppedInOrder`), and that once `join` has seen an
empty queue what was put before it is no longer there (`PledgedTaken`). The last
is what makes `JoinLosesNothing` inductive: at the end it only speaks of the
log, but what carries it there is that a pledged message can only be in the hand
of the logging thread, which writes it before it ends. `Ordered` relates log,
hands and queue to the order of `put` (`OrderInvariance`): what a thread has
written comes before what it holds, which comes before all that is queued.

### Deliberate leaks and the analysis of DTrace logs

`MallocTrace_proofs` proves, for any objects, addresses and sizes, `TypeCorrect`
and `OwnedOrForgotten` (`BlocksAreAccounted`) of `MemLeak`, and `Reconciled`
(`Reconciles`) of `SpecTrace`, for any number of lines lost and read.
Assumed is what `MemLeakAssumption` says: finitely many
addresses, sizes that are a `Py_ssize_t`, and no block beyond `PY_SSIZE_T_MAX`.

`ObjectsInv` is `BlocksAreAccounted` with the reference counts in order
(`InOrder`). `TraceInv` adds that the analysis `Fits` the memory of the C
library: complaints and addresses on which the two differ are together no more
than lines lost and failed allocations, and with no line lost the blocks are
equal. That is carried from one line to the next (`LineStep`), since one line
read changes both at one address (`DifferAtOne`) and one line lost changes one;
no step of an object makes more than two calls (`UpToTwo`).

### The process tree

`ProcessTree_proofs` proves, for any number of processes and samples, any values
and any interleaving of the processes with the questions asked about them,
`TypeCorrect`, `DifferencesAlwaysAddUp` (`DifferencesAddUp`), `JsonIsAlwaysAList`
(`JsonIsAList`), `PreviousValuesAreWritten`, `EachNodeOnce`, `TreeHasInvariant` and
`TreeStaysCurrent` (`TreeIsCurrent`).

- `Agenda` says that what is still to do has been reached from the root through
  nodes that are done, and that nothing is twice or both. `Apart`, that no
  process has nodes under two others, makes it inductive: the nodes put on the
  agenda are under the one just done (`AheadOnward`).
- `Remembered` ties the previous value of a node to the last line of its process.
  `AddChildren` resets it for a new node, which is right only because a process
  whose node was removed never gets one again (`Fresh`, `Parents`): it has become
  an orphan, or is gone, and a process number is not used twice. That is the assumption
  about the operating system that the log depends on.
- `JsonSoFar` says where in a sample the comma and the record of the root have been written.
  A later sample writes a comma first, although the sample before it may have
  written no record; but then the root could not be read, and never can be again.
- `TreeInv` is the invariant for `TreeIsCurrent`, on top of `IInv`. `Updating` speaks
  of the update half done: all that is under a node that is done is done or to be
  done, it is under it if it has been all the while (`stable`), and none of it is
  outside `known`. The processes change between any two steps and keep that true:
  one that is `stable` keeps its parent, which runs, and a child of a
  process in `known` is in `known` (`Watched`, `TreeWaits`). When nothing is left to do,
  what is done is closed and has the tree (`InTree`) in it; and of those that are
  `stable`, the youngest without a node would have a parent with one
  (`CurrentAtTheEnd`). `InTree` and `Descendants` are defined by a recursion of as many
  levels as there are processes. That so many are enough, and give the smallest
  closed set (`IsUnder`, `DepthFacts`), rests on parents being older than their
  children (`Family`), which is proved of the processes, not assumed.

### The log files of the reference tracers and their analysis

`ReferenceLog_proofs` proves, for any number of tracers, objects, types and
filters and with tracers nested to any depth, suspended and failing,
`TypeCorrect`, `NestingReadable` (`NestingIsReadable`), `QueriesMatch`
(`QueriesMatchLog`), `LeaksFound` (`LeaksAreFound`) and `AppendOnly`
(`LogsAreAppendOnly`). Assumed are finitely many tracers (`TracersAssumption`),
bounds that are numbers, and that `None` and `NoObject` are nothing else, nor a path of
the user a name that is made up (`NamesAssumption`).

`KindsOfSteps` sorts the steps into four: a with block is entered; messages are
written, or nothing (`Chatter`); the line of an event is written
(`EventWritten`), or half of it (`EventLost`). `IInv` has five parts beyond
`TypeOK` and `NestingIsReadable`:

- `Names` and `Stacking`: a name that was made up belongs to one tracer, a stacked tracer
  has a file that no other stacked one has and is stacked once, only the top is called. From these,
  the log of a stacked tracer only grows.
- `Bounded` and `Tables`: `QueriesMatchLog` speaks of the tracer on top only and
  is not inductive: when the top is left, the next one must be right as well, so
  the table of every stacked tracer matches its log. A log begins empty, a table
  does not if the tracer had a with block before; then there are events that are
  counted and not in the log, and nothing is promised of the types.
- `Tree`: the logs of a session form a tree (`IsTree`): each tracer in it has a
  level, its log is led to from a log one level above, and the tracers on the
  stack have the levels of their places. That no file is opened twice in a
  session is what makes it one, and keeps the reader's recursion within as many
  levels as there are tracers. A tracer whose file was not opened in the session
  is not in the tree (`NotInTree`), so entering it makes the tree deeper
  (`TreeDeepens`); all other steps add lines that lead nowhere (`TreeGrows`).
- `Told`: read from the outermost log, the last line about an address is a NEW
  line of the object's type if the object was seen and is alive (or died
  unseen), and is no NEW line otherwise.

`Told` is where the order of reading meets the order of events. Lines are
written to the log on top and not at the end of what is read: messages of the
outer logs follow. What carries it through is `LastEventTold`: from the
outermost log down to the top nothing about an object follows the line that
leads on (`NestingIsReadable`), so an event written on top is the last about
its address in the reading order, too. For every other address nothing changes
(`SameTold`), by an argument level by level of the tree.
`AnalyseFinds` then shows that `Analyse` computes, for each address, what the
last line about it says, and `TablesAnswer` and `LeaksFromTold` derive the
properties.

The tree is needed as `IsTree` and not as a function of the logs because the
logs of a tracer that was left stay in it, below the line that led to them.

### How recursive definitions are handled

What a recursive function or a sum over a set computes needs an induction over
data. Where one is needed (`Expanded` of the hash table, the running maximum of
`TraceLog_proofs`, `Bytes` and `ReadLines` of `MallocTrace`, `ReadingOrder`,
`FlattenSeq` and `Analyse` of the reference logs, `Under` of the process tree), the proofs take the
smallest counterexample: a set of natural numbers that is not empty has a least
element (`SmallestNumber`, from the library's well-founded order on the natural
numbers), and the step below it contradicts that. A function defined by
recursion inside an operator is one of those that satisfy its equation, so that
there is one is shown first (`OrderExists`, `ResultExists`, `FlatExists`, `DepthExists`).

### Only model-checked

Liveness (`EveryMessageIsLogged` and `JoinEndsWhenIdle` of `ProcessLogging`): fairness is
beyond the prover. Every other property of a passing run is stated by a theorem.

The proved lemmas also cover what no run checks by itself: `ListMatchesBlocks` is a part
of `IInv`.

## 6. Not modelled

- The free-threaded build: the code relies on the GIL throughout.
- Reading the RSS, one system call, of which `TraceLog` takes any answer.
- Text: the layout of lines, the clock, the location of an event, the regular
  expressions and formatting of the analyses, the parser of process logs.
- Filters written in Python, which make the callback of a reference tracer
  interruptible (a finding).
- Nested tracers to which the user gives one path, and paths given to Profile and Trace (a finding).
- `malloc_stats` and `tracemalloc` differences: pure functions of two texts.
- Redirection of C output: one sequential function around four system calls.
- Decorators (a with block around a call), plotting, the example modules, the
  `main` programs and debugging functions, and the tables by which C modules
  describe themselves to Python.
- DTrace scripts themselves: `MallocTrace` takes any part of the calls for what
  they print.

## 7. Plan

Done, in this order, the most important first: the stack of Profile and Trace
with its proofs; its log; the reference tracers; the hash table and live
counts; process logging with its proofs; the log files of the reference tracers
with their analysis, filters and names; deliberate leaks with the analysis of
DTrace logs; the process tree; then the proofs about all of these (section 5),
those about the logs of the reference tracers last.

What could follow is in section 6: filters written in Python, and the parser of
process logs.
