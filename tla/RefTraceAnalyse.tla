--------------------------- MODULE RefTraceAnalyse ---------------------------
(***************************************************************************)
(* util/ref_trace_analyse.py: reads the log files of reference tracing and *)
(* tells which objects are alive, by the NEW and DEL line of each.  With   *)
(* recurse_files a line that says that another tracer took over leads into *)
(* the file of that tracer, which is read at that place.                   *)
(*                                                                         *)
(* A LogFileResult is a record, which every line read changes.             *)
(***************************************************************************)
EXTENDS Integers, SequencesExt

CONSTANTS Addresses,   (* where an object may be                             *)
          Types,       (* types of objects                                   *)
          NoObject     (* what is at an address if there is no object        *)

\* LogFileResult.__init__.
NothingRead ==
  [live_objects |-> [a \in Addresses |-> NoObject],
   type_count_new |-> [ty \in Types |-> 0],
   type_count_del |-> [ty \in Types |-> 0],
   type_count_untracked |-> [ty \in Types |-> 0]]

add_new(result, line) ==
  [result EXCEPT !.live_objects[line.address] = line.type,
                 !.type_count_new[line.type] = @ + 1]

\* The destruction of an object that is not known is "untracked".
add_del(result, line) ==
  LET untracked == IF result.live_objects[line.address] = NoObject THEN 1 ELSE 0
  IN  [result EXCEPT !.live_objects[line.address] = NoObject,
                     !.type_count_untracked[line.type] = @ + untracked,
                     !.type_count_del[line.type] = @ + 1]

ReadLine(result, line) ==
  CASE line.kind = "NEW" -> add_new(result, line)
    [] line.kind = "DEL" -> add_del(result, line)
    [] OTHER -> result

\* A bug used by the checks: the other file is read at the end of this one.
ReadingOrderSubFilesLast(logs, depth, path) ==
  LET order[n \in 0 .. depth] ==
        [p \in DOMAIN logs |->
           logs[p] \o IF n = 0 THEN <<>>
                      ELSE FlattenSeq([i \in 1 .. Len(logs[p]) |->
                             IF logs[p][i].kind = "detach"
                             THEN order[n - 1][logs[p][i].file] ELSE <<>>])]
  IN  order[depth][path]

(***************************************************************************)
(* process_file_to_log_result: the lines of the file, each that leads to   *)
(* another file followed by that file's.  Tracers nest to some depth.      *)
(***************************************************************************)
ReadingOrder(logs, depth, path) ==
  LET order[n \in 0 .. depth] ==
        [p \in DOMAIN logs |->
           FlattenSeq([i \in 1 .. Len(logs[p]) |->
             <<logs[p][i]>> \o IF logs[p][i].kind = "detach" /\ n > 0
                               THEN order[n - 1][logs[p][i].file] ELSE <<>>])]
  IN  order[depth][path]

\* process_file.
Analyse(logs, depth, path) ==
  LET lines == ReadingOrder(logs, depth, path)
      result[i \in 0 .. Len(lines)] ==
        IF i = 0 THEN NothingRead ELSE ReadLine(result[i - 1], lines[i])
  IN  result[Len(lines)]

\* A line that was not finished goes on with the next and has too few columns:
\* ValueError.
Legible(log) == \A i \in DOMAIN log : log[i].kind # "half"

CanBeRead(logs, depth, path) == Legible(ReadingOrder(logs, depth, path))

=============================================================================
