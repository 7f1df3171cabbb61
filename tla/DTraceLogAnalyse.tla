--------------------------- MODULE DTraceLogAnalyse ---------------------------
(***************************************************************************)
(* util/dtrace_log_analyse.py: reads the log of DTrace, a line for each    *)
(* malloc() and free() of a process, and reconciles them: which blocks are *)
(* allocated, and how many bytes.                                          *)
(*                                                                         *)
(* The analysis is a record that every line read changes.  A block is at   *)
(* a pointer; the log has 0x0 for NULL, which is a pointer like others to  *)
(* add_malloc and not to add_free.                                         *)
(***************************************************************************)
LOCAL INSTANCE Integers

CONSTANTS Pointers,     (* the pointers in the log                           *)
          NullPointer   (* the one of them that is 0x0                       *)

\* DTraceMallocs.__init__.  The size of each block in malloc_dict, 0 if it is
\* not there.
NoLinesRead ==
  [malloc_dict |-> [p \in Pointers |-> 0],
   count_mallocs |-> 0, count_frees_non_null |-> 0, count_frees_null |-> 0,
   total_bytes_malloced |-> 0, total_bytes_freed |-> 0,
   total_bytes_outstanding |-> 0,
   failed_to_add_malloc |-> 0, failed_to_add_free |-> 0]

\* DTraceMallocs.add_malloc: a line for a block that is there is not added.
AddMalloc(a, p, s) ==
  IF a.malloc_dict[p] > 0
  THEN [a EXCEPT !.failed_to_add_malloc = @ + 1]
  ELSE [a EXCEPT !.malloc_dict[p] = s,
                 !.count_mallocs = @ + 1,
                 !.total_bytes_malloced = @ + s,
                 !.total_bytes_outstanding = @ + s]

\* A bug used by the checks: the block stays in the dictionary.
AddFreeKeeping(a, p) ==
  [a EXCEPT !.total_bytes_freed = @ + a.malloc_dict[p],
            !.total_bytes_outstanding = @ - a.malloc_dict[p],
            !.count_frees_non_null = @ + 1]

\* DTraceMallocs.add_free.
AddFree(a, p) ==
  IF p = NullPointer THEN [a EXCEPT !.count_frees_null = @ + 1]
  ELSE IF a.malloc_dict[p] = 0 THEN [a EXCEPT !.failed_to_add_free = @ + 1]
  ELSE [a EXCEPT !.malloc_dict[p] = 0,
                 !.total_bytes_freed = @ + a.malloc_dict[p],
                 !.total_bytes_outstanding = @ - a.malloc_dict[p],
                 !.count_frees_non_null = @ + 1]

\* read_dtrace_log_file, for one line that can be parsed.
ReadLine(a, line) ==
  IF line.call = "malloc" THEN AddMalloc(a, line.pntr, line.size) ELSE AddFree(a, line.pntr)

\* The blocks the analysis takes to be allocated, other than the one at NULL.
Outstanding(a) == {p \in Pointers \ {NullPointer} : a.malloc_dict[p] > 0}

Failures(a) == a.failed_to_add_malloc + a.failed_to_add_free

=============================================================================
