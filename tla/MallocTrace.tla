----------------------------- MODULE MallocTrace -----------------------------
(***************************************************************************)
(* A process that uses the objects of cMemLeak is watched by DTrace (the   *)
(* script toolkit/py_flow_malloc_free.d), and util/dtrace_log_analyse.py   *)
(* reads the log.  DTrace does not report every call: not those outside    *)
(* Python functions, and not all if it is short of buffers; and there are  *)
(* lines that can not be parsed.  All these are lost to the analysis.      *)
(*                                                                         *)
(* Lines are read in the order of the calls (the script of one process on  *)
(* one processor), so the analysis is kept up with the calls.              *)
(***************************************************************************)
EXTENDS MemLeak, FiniteSetsExt

CONSTANTS MaxLost,    (* bound on the lines that are lost                    *)
          MaxLines    (* bound on the lines that are read                    *)

ASSUME BoundsAssumption == MaxLost \in Nat /\ MaxLines \in Nat

VARIABLES analysis,   \* the result of reading the log so far
          lost,       \* how many lines were lost
          nulls       \* how many of those read were of a failed malloc()

Log == INSTANCE DTraceLogAnalyse WITH Pointers <- Addresses \cup {NULL}, NullPointer <- NULL

observed == <<class, refcnt, held, size, buffer, heap, forgotten, calls,
              analysis, lost, nulls>>

InitTrace ==
  /\ Init
  /\ analysis = Log!NoLinesRead
  /\ lost = 0
  /\ nulls = 0

LinesRead(a) ==
  a.count_mallocs + a.count_frees_non_null + a.count_frees_null + Log!Failures(a)

\* The analysis after the lines of the calls that are reported, in order.
ReadLines(a, lines, reported) ==
  LET after[i \in 0 .. Len(lines)] ==
        IF i = 0 THEN a
        ELSE IF i \in reported THEN Log!ReadLine(after[i - 1], lines[i])
        ELSE after[i - 1]
  IN  after[Len(lines)]

IsNull(line) == line.call = "malloc" /\ line.pntr = NULL

\* Some of the calls of a step are lines of the log.
Observe ==
  \E reported \in SUBSET DOMAIN calls' :
    /\ lost' = lost + Cardinality(DOMAIN calls' \ reported)
    /\ lost' <= MaxLost
    /\ analysis' = ReadLines(analysis, calls', reported)
    /\ LinesRead(analysis') <= MaxLines
    /\ nulls' = nulls + Cardinality({i \in reported : IsNull(calls'[i])})

NextTrace == Next /\ Observe

SpecTrace == InitTrace /\ [][NextTrace]_observed

-----------------------------------------------------------------------------
(* Properties.                                                             *)

\* The blocks the C library has given out.
FromLibrary == Allocated \ Arena

\* The bytes of the blocks in the analysis.
Bytes(a) == MapThenSumSet(LAMBDA p : a.malloc_dict[p], Addresses \cup {NULL})

Disagreeing ==
  (Log!Outstanding(analysis) \ FromLibrary) \cup (FromLibrary \ Log!Outstanding(analysis))

\* If no line is lost the analysis has exactly the blocks that are allocated,
\* with their sizes.  A lost line misleads it about one block, once: a failure
\* is reported for that block later on, or not yet; and a failure it reports
\* is due to a line that was lost before, or to a malloc() answered by NULL.
Reconciles ==
  /\ lost = 0 => /\ Disagreeing = {}
                 /\ \A p \in FromLibrary : analysis.malloc_dict[p] = heap[p]
  /\ Log!Failures(analysis) + Cardinality(Disagreeing) <= lost + nulls
  /\ analysis.total_bytes_outstanding = Bytes(analysis)

=============================================================================
