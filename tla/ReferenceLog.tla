----------------------------- MODULE ReferenceLog -----------------------------
(***************************************************************************)
(* The log files that cPyMemTrace.ReferenceTracing writes about the        *)
(* objects of a Python program, and what util/ref_trace_analyse.py makes   *)
(* of them.  Objects are created and destroyed, traced or not; the tracer  *)
(* that is called filters them by their types and writes a line; tracers   *)
(* are nested, suspended, run out of memory, and go to files whose names   *)
(* users give or pymemtrace_util.c makes up.                               *)
(*                                                                         *)
(* How tracers are stacked and registered is the subject of                *)
(* ReferenceTracing, which implements PausableSpec of TracerStack; here    *)
(* the actions of TracerStack say which tracer is called.                  *)
(***************************************************************************)
EXTENDS Integers, Sequences, FiniteSets

CONSTANTS Tracers,      (* ReferenceTracing objects                          *)
          Addresses,    (* where an object of the program may be             *)
          Types,        (* types of objects                                  *)
          Builtins,     (* those of them that are built in                   *)
          Unsafe,       (* those that are never looked at: frames and code   *)
          Filters,      (* the filters tracers are constructed with          *)
          Paths,        (* the paths of log files that users give            *)
          None,         (* no tracer, no name, no filter                     *)
          NoObject,     (* nothing at an address                             *)
          MaxObjects,   (* bound on objects created                          *)
          MaxBlocks,    (* bound on with blocks                              *)
          MaxEvents,    (* bound on events in the logs                       *)
          MaxIncidents  (* bound on incidents, see there                     *)

(***************************************************************************)
(* A filter has include_builtins, the type names to exclude and those to   *)
(* include; None if the user gives no names.                               *)
(***************************************************************************)
ASSUME FiltersAssumption ==
  \A f \in Filters :
    /\ f.include_builtins \in BOOLEAN
    /\ f.exclude_tp_names = None \/ f.exclude_tp_names \subseteq Types
    /\ f.include_tp_names = None \/ f.include_tp_names \subseteq Types

ASSUME TypesAssumption == Builtins \subseteq Types /\ Unsafe \subseteq Types
ASSUME TracersAssumption == IsFiniteSet(Tracers)
ASSUME BoundsAssumption ==
  MaxObjects \in Nat /\ MaxBlocks \in Nat /\ MaxEvents \in Nat /\ MaxIncidents \in Nat

VARIABLES
  stack, calling,    \* see TracerStack
  heap,              \* the type of the object at each address
  filter,            \* the filter of each tracer, None if it is not constructed
  path,              \* py_specific_filename of each tracer
  file_number,       \* see pymemtrace_util.c
  logs,              \* what has been written to each file, piece by piece: a
                     \* piece is a line, but a "half" has no end of line, and
                     \* what is written next goes on with that line
  types_live_count,  \* of each tracer; a type that is not in the table has None
  count,             \* count_new and count_del of each tracer
  session,           \* history: the outermost with block, see Session
  objects, blocks, events, incidents  \* how many there have been; of events,
                                      \* those that are counted

tracing == <<stack, calling>>

\* What happens beyond with blocks and events of objects: a message of a user,
\* a suspension, a failure.  Starting a tracer that has stopped is not counted.
Incident == incidents < MaxIncidents /\ incidents' = incidents + 1

vars == <<stack, calling, heap, filter, path, file_number, logs, types_live_count,
          count, session, objects, blocks, events, incidents>>

Stacks == INSTANCE TracerStack WITH NoTracer <- None
Reader == INSTANCE RefTraceAnalyse

MadeUp == (0 .. MaxBlocks) \X (0 .. MaxBlocks)
FileNames == MadeUp \cup Paths

\* What stands for nothing is nothing of the kind, and users give no path that
\* looks like one that is made up.
ASSUME NamesAssumption ==
  /\ NoObject \notin Types /\ None \notin Tracers \cup Filters \cup FileNames \cup Int
  /\ Paths \cap MadeUp = {}

\* The outermost with block: its file; where there is an object whose creation
\* has been logged; where there has been one that was destroyed unseen; and
\* whether one of its files was opened twice.
Session == [file : FileNames \cup {None}, seen : SUBSET Addresses,
            unseen : SUBSET Addresses, rewritten : BOOLEAN]

Init ==
  /\ Stacks!Init
  /\ heap = [a \in Addresses |-> NoObject]
  /\ filter = [x \in Tracers |-> None]
  /\ path = [x \in Tracers |-> None]
  /\ file_number = 0
  /\ logs = [p \in FileNames |-> <<>>]
  /\ types_live_count = [x \in Tracers |-> [ty \in Types |-> None]]
  /\ count = [x \in Tracers |-> [NEW |-> 0, DEL |-> 0]]
  /\ session = [file |-> None, seen |-> {}, unseen |-> {}, rewritten |-> FALSE]
  /\ objects = 0
  /\ blocks = 0
  /\ events = 0
  /\ incidents = 0

\* The list of the tracers: its head is the newest.
reference_tracing_ll_get_data == Stacks!Top(stack)
reference_tracing_ll_length == Len(stack)

-----------------------------------------------------------------------------
(* Filters.                                                                *)

reference_trace_is_builtin_pre_suspend(ty) == ty \in Builtins

reference_trace_type_exclude_matches(f, ty) == ty \in f.exclude_tp_names

reference_trace_type_include_matches(f, ty) == ty \in f.include_tp_names

\* Whether the callback of x writes about objects of a type.
Reports(x, ty) ==
  LET f == filter[x]
  IN  /\ ty \notin Unsafe
      /\ f.include_builtins \/ ~ reference_trace_is_builtin_pre_suspend(ty)
      /\ f.exclude_tp_names # None => ~ reference_trace_type_exclude_matches(f, ty)
      /\ f.include_tp_names # None => reference_trace_type_include_matches(f, ty)

-----------------------------------------------------------------------------
(* File names.                                                             *)

\* A bug used by the checks: the name has no number.
create_filename_by_depth(depth) == <<0, depth>>

\* The time, the process and the Python version are the same for all names.
create_filename(depth) == <<file_number, depth>>

\* The working directory does not change.
create_filename_within_cwd(depth) == create_filename(depth)

\* A bug used by the checks: a name is made up for each with block.
LogFileNameAnew(x) ==
  /\ path' = [path EXCEPT ![x] = create_filename_within_cwd(reference_tracing_ll_length)]
  /\ file_number' = file_number + 1

\* The user gives a path to the object, or a name is made up for it; either
\* stays with the object, for its next with block.
LogFileName(x) ==
  \/ /\ path[x] # None
     /\ UNCHANGED <<path, file_number>>
  \/ /\ path[x] = None
     /\ \E p \in Paths : path' = [path EXCEPT ![x] = p]
     /\ UNCHANGED file_number
  \/ /\ path[x] = None
     /\ path' = [path EXCEPT ![x] = create_filename_within_cwd(reference_tracing_ll_length)]
     /\ file_number' = file_number + 1

-----------------------------------------------------------------------------
(* With blocks.                                                            *)

\* cpyReferenceTracing_init, in the with statement or long before.
Constructed(x) ==
  \E f \in Filters :
    /\ filter[x] \in {None, f}
    /\ filter' = [filter EXCEPT ![x] = f]

\* What users do: two tracers do not write to one file at the same time.  The
\* code does not see to that.
NotInUse(name) == \A i \in 1 .. Len(stack) : path[stack[i]] # name

MayEnter(x) ==
  /\ ~ Stacks!Stacked(x)
  /\ blocks < MaxBlocks
  /\ blocks' = blocks + 1
  /\ Constructed(x)
  /\ LogFileName(x)
  /\ NotInUse(path'[x])

Line(kind) == [kind |-> kind]
Detached(name) == [kind |-> "detach", file |-> name]

Writing(name, line) == [logs EXCEPT ![name] = Append(@, line)]

\* A bug used by the checks: the message is written when the new log is open
\* and on top, to that log.
OpenedLogsOnTop(x) ==
  [p \in FileNames |->
     IF p = path'[x] THEN IF stack = <<>> THEN <<>> ELSE <<Detached(path'[x])>>
     ELSE logs[p]]

\* The new file is empty, and the head's says where the trace goes on.
OpenedLogs(x) ==
  [p \in FileNames |->
     IF p = path'[x] THEN <<>>
     ELSE IF stack # <<>> /\ p = path[reference_tracing_ll_get_data]
     THEN Append(logs[p], Detached(path'[x]))
     ELSE logs[p]]

\* The lines of a session as the analysis reads them.
LinesOf(name) == Reader!ReadingOrder(logs, Cardinality(Tracers), name)

OpenedInSession(name) ==
  \E i \in DOMAIN LinesOf(session.file) : LinesOf(session.file)[i] = Detached(name)

Enter(x) ==
  /\ MayEnter(x)
  /\ Stacks!Begin(x)
  /\ logs' = OpenedLogs(x)
  /\ session' = IF stack = <<>>
                THEN [file |-> path'[x], seen |-> {}, unseen |-> {}, rewritten |-> FALSE]
                ELSE [session EXCEPT !.rewritten = @ \/ OpenedInSession(path'[x])]
  /\ UNCHANGED <<heap, types_live_count, count, objects, events, incidents>>

\* The file can not be opened: IOError, and no tracer is called any more.
EnterFails(x) ==
  /\ MayEnter(x)
  /\ Incident
  /\ Stacks!Pause
  /\ UNCHANGED <<heap, logs, types_live_count, count, session, objects, events>>

\* The log of the tracer that is left gets its EOF, the next one a message.
Exit ==
  /\ Stacks!End
  /\ logs' = IF Len(stack) = 1 THEN logs
             ELSE Writing(path[Stacks!Top(stack')], Line("MSG"))
  /\ UNCHANGED <<heap, filter, path, file_number, types_live_count, count, session,
                 objects, blocks, events, incidents>>

-----------------------------------------------------------------------------
(* Messages and suspensions.                                               *)

Talks ==
  UNCHANGED <<heap, filter, path, file_number, types_live_count, count, session,
              objects, blocks, events>>

\* x.write_message_to_log(), x in a with block; else the file is closed, and
\* IOError is raised.
WriteMessage(x) ==
  /\ Stacks!Stacked(x)
  /\ Incident /\ Talks
  /\ logs' = Writing(path[x], Line("MSG"))
  /\ UNCHANGED tracing

\* The function of the module writes to the head's log.
ModuleWriteMessage ==
  /\ stack # <<>>
  /\ WriteMessage(Stacks!Top(stack))

\* The head is stopped.  If nothing is called an assertion ends the program,
\* see ReferenceTracing.
Suspend ==
  /\ calling # None
  /\ Incident /\ Talks
  /\ logs' = Writing(path[reference_tracing_ll_get_data], Line("MSG"))
  /\ Stacks!Pause

\* One message before and one after.
Resume ==
  /\ Stacks!Resume
  /\ IF calling = None THEN UNCHANGED incidents ELSE Incident
  /\ Talks
  /\ LET name == path[reference_tracing_ll_get_data]
     IN  logs' = [logs EXCEPT ![name] = @ \o <<Line("MSG"), Line("MSG")>>]

-----------------------------------------------------------------------------
(* Events.                                                                 *)

Seen(ty) == calling # None /\ Reports(calling, ty)

\* A bug used by the checks: a type that is met again starts anew.
increment_types_live_count_anew(x, ty, delta) ==
  types_live_count' = [types_live_count EXCEPT ![x][ty] = IF delta < 0 THEN @ + delta ELSE delta]

\* The count of a type that is not in the table yet is 0.
increment_types_live_count(x, ty, delta) ==
  types_live_count' =
    [types_live_count EXCEPT ![x][ty] = (IF @ = None THEN 0 ELSE @) + delta]

EventLine(kind, a, ty, live) ==
  [kind |-> kind, address |-> a, type |-> ty, LiveCnt |-> live]

Counted(kind) ==
  /\ events < MaxEvents
  /\ events' = events + 1
  /\ count' = [count EXCEPT ![calling][kind] = @ + 1]

\* reference_trace_allocations_callback, for an event it does not ignore.
Log(kind, a, ty) ==
  /\ Counted(kind)
  /\ increment_types_live_count(calling, ty, IF kind = "NEW" THEN 1 ELSE -1)
  /\ logs' = Writing(path[calling], EventLine(kind, a, ty, types_live_count'[calling][ty]))
  /\ UNCHANGED <<tracing, incidents>>

\* There is no memory for a type that is not in the table yet: the line is
\* not finished, and no tracer is called any more, so that what is written
\* next to that line is a message.
LogFails(kind, ty) ==
  /\ types_live_count[calling][ty] = None
  /\ Counted(kind)
  /\ Incident
  /\ logs' = Writing(path[calling], Line("half"))
  /\ Stacks!Pause
  /\ UNCHANGED types_live_count

Unseen == UNCHANGED <<stack, calling, logs, types_live_count, count, events, incidents>>

\* The program creates an object.
Create(a, ty) ==
  /\ objects < MaxObjects
  /\ objects' = objects + 1
  /\ heap[a] = NoObject
  /\ heap' = [heap EXCEPT ![a] = ty]
  /\ \/ /\ Seen(ty)
        /\ Log("NEW", a, ty)
        /\ session' = [session EXCEPT !.seen = @ \cup {a}, !.unseen = @ \ {a}]
     \/ /\ Seen(ty)
        /\ LogFails("NEW", ty)
        /\ UNCHANGED session
     \/ /\ ~ Seen(ty)
        /\ Unseen
        /\ UNCHANGED session
  /\ UNCHANGED <<filter, path, file_number, blocks>>

\* The program, or the garbage collector, destroys one.
Destroy(a) ==
  LET ty == heap[a]
      missed == IF a \in session.seen THEN {a} ELSE {}
  IN  /\ ty # NoObject
      /\ heap' = [heap EXCEPT ![a] = NoObject]
      /\ \/ /\ Seen(ty)
            /\ Log("DEL", a, ty)
            /\ session' = [session EXCEPT !.seen = @ \ {a}, !.unseen = @ \ {a}]
         \/ /\ Seen(ty)
            /\ LogFails("DEL", ty)
            /\ session' = [session EXCEPT !.seen = @ \ {a}, !.unseen = @ \cup missed]
         \/ /\ ~ Seen(ty)
            /\ Unseen
            /\ session' = [session EXCEPT !.seen = @ \ {a}, !.unseen = @ \cup missed]
      /\ UNCHANGED <<filter, path, file_number, objects, blocks>>

-----------------------------------------------------------------------------
(* What the program can ask while a tracer is stacked: all is answered for *)
(* the head of the list, whichever object is asked.                        *)

cpyReferenceTracing_count_new == count[reference_tracing_ll_get_data].NEW
cpyReferenceTracing_count_del == count[reference_tracing_ll_get_data].DEL

\* live_object_counts()
cpyReferenceTracing_dict_of_live_objects ==
  LET table == types_live_count[reference_tracing_ll_get_data]
  IN  [ty \in {known \in Types : table[known] # None} |-> table[ty]]

reference_tracing_log_path == path[reference_tracing_ll_get_data]

-----------------------------------------------------------------------------
Next ==
  \/ \E x \in Tracers : Enter(x) \/ EnterFails(x) \/ WriteMessage(x)
  \/ Exit \/ ModuleWriteMessage \/ Suspend \/ Resume
  \/ \E a \in Addresses : Destroy(a) \/ \E ty \in Types : Create(a, ty)

Spec == Init /\ [][Next]_vars

-----------------------------------------------------------------------------
(* Properties.                                                             *)

Lines ==
  {Line(k) : k \in {"MSG", "half"}} \cup {Detached(p) : p \in FileNames} \cup
  {EventLine(k, a, ty, n) : k \in {"NEW", "DEL"}, a \in Addresses, ty \in Types,
                            n \in -MaxEvents .. MaxEvents}

\* What a log may hold; and a number is taken for each name that is made up.
TypeOK ==
  /\ stack \in Seq(Tracers) /\ calling \in Tracers \cup {None}
  /\ heap \in [Addresses -> Types \cup {NoObject}]
  /\ filter \in [Tracers -> Filters \cup {None}]
  /\ path \in [Tracers -> FileNames \cup {None}]
  /\ file_number = Cardinality({x \in Tracers : path[x] \in MadeUp})
  /\ logs \in [FileNames -> Seq(Lines)]
  /\ types_live_count \in [Tracers -> [Types -> (-MaxEvents .. MaxEvents) \cup {None}]]
  /\ count \in [Tracers -> [{"NEW", "DEL"} -> 0 .. MaxEvents]]
  /\ events \in 0 .. MaxEvents /\ blocks \in 0 .. MaxBlocks
  /\ session \in Session

\* An object that was created while its type was traced is in the analysis as
\* long as it is alive, with its type, whichever of the nested tracers saw the
\* event; and an object that the analysis has and that is not there was
\* destroyed when nobody looked.  This is so if no file was opened twice, and
\* every line can be read.
LeaksAreFound ==
  LET depth == Cardinality(Tracers)
      live == Reader!Analyse(logs, depth, session.file).live_objects
  IN  session.file # None /\ ~ session.rewritten
        /\ Reader!CanBeRead(logs, depth, session.file)
      => /\ \A a \in session.seen : live[a] = heap[a] /\ heap[a] # NoObject
         /\ {a \in Addresses : live[a] # NoObject} = session.seen \cup session.unseen

\* The program is told what the log has: if the head of the list has written
\* one log only, its table is, type by type, the difference of the NEW and DEL
\* lines, and its counts are those of the lines; except for an event there was
\* no memory for, which is counted and not in the log.
QueriesMatchLog ==
  stack # <<>> =>
    LET own == logs[reference_tracing_log_path]
        lines(kind) == {i \in DOMAIN own : own[i].kind = kind}
        of(kind, ty) == {i \in lines(kind) : own[i].type = ty}
        live(ty) == Cardinality(of("NEW", ty)) - Cardinality(of("DEL", ty))
        table == cpyReferenceTracing_dict_of_live_objects
        unwritten == cpyReferenceTracing_count_new - Cardinality(lines("NEW"))
                     + cpyReferenceTracing_count_del - Cardinality(lines("DEL"))
    IN  /\ unwritten >= Cardinality(lines("half"))
        /\ unwritten = Cardinality(lines("half")) =>
             \A ty \in Types : live(ty) = IF ty \in DOMAIN table THEN table[ty] ELSE 0

\* From the log of any tracer that is stacked the reader finds the one that
\* was stacked on it: the last "detach" names its file, and no event follows.
\* This is so if no event in the log has run out of memory; a message that
\* follows a half line can not be read, and the reader stops there.
NestingIsReadable ==
  \A i \in 1 .. Len(stack) - 1 :
    LET own == logs[path[stack[i]]]
    IN  Reader!Legible(own) =>
          \E k \in DOMAIN own :
            /\ own[k] = Detached(path[stack[i + 1]])
            /\ \A j \in k + 1 .. Len(own) : own[j].kind = "MSG"

\* A with block of y opens a log for writing that x has written: y is x, or the
\* user has given both the same path.
OpensAgain(y, x) ==
  /\ stack' = Append(stack, y)
  /\ y = x \/ (path'[y] \in Paths /\ path'[y] = path[x])

\* Otherwise no log is ever emptied: names made up for different objects are
\* different.
LogsAreAppendOnly ==
  [][\A x \in Tracers :
       path[x] # None /\ ~ (\E y \in Tracers : OpensAgain(y, x))
       => LET was == logs[path[x]]
              now == logs'[path[x]]
          IN  Len(now) >= Len(was) /\ SubSeq(now, 1, Len(was)) = was]_vars

=============================================================================
