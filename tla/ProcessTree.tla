----------------------------- MODULE ProcessTree -----------------------------
(***************************************************************************)
(* process_tree.py: samples a process and all its descendants again and    *)
(* again, writes a line for each with the changes since its last line, and *)
(* adds a record of the sample to a JSON file.                             *)
(*                                                                         *)
(* The processes go on meanwhile: between any two questions to psutil they *)
(* spawn others, end, or are waited for.  Processes are numbered by age.   *)
(* An orphan gets a parent outside the tree, and no number is used again.  *)
(***************************************************************************)
EXTENDS Integers, Sequences, FiniteSets, Functions

CONSTANTS Root,           (* the process that is logged                      *)
          LastPid,        (* bound on the processes: the last of them        *)
          Values,         (* values of the column that has a difference      *)
          MaxChanges,     (* bound on how often values change                *)
          MaxRecords      (* bound on the samples                            *)

ASSUME ProcessTreeAssumption ==
  /\ Root \in Nat \ {0} /\ LastPid \in Nat /\ Root <= LastPid
  /\ Values \subseteq Int /\ MaxChanges \in Nat /\ MaxRecords \in Nat

Pids == Root .. LastPid
Outside == 0     \* the parent of orphans

VARIABLES
  status,          \* of each process: "new", "running", "zombie" or "gone"
  ppid,            \* its parent
  value,           \* its value in the column
  changes,         \* how often a value has changed
  omit_first,      \* the option
  denied,          \* the processes whose column must not be read
  zombies_raise,   \* whether a column of a zombie can not be read
  pc,              \* what log_process is doing
  agenda,          \* the nodes of the tree that are still to do, in order
  children,        \* the nodes under each node of the tree
  previous_values, \* of each node
  record_number,   \* see log_process
  json,            \* the JSON file: its brackets ("list", "end"), records, commas
  stable,          \* history: the descendants that have been there all through
                   \* update_children,
  known,           \* and those that have been there at any time of it
  written          \* history: the sum of the differences in the lines of each,
                   \* and the value in its last line

world == <<status, ppid, value, changes, stable, known>>
options == <<omit_first, denied, zombies_raise>>
tree == <<children, previous_values>>
vars == <<world, options, tree, pc, agenda, record_number, json, written>>

\* The nodes or processes that are under Root by the sets below(p).
Under(below(_)) ==
  LET depth[n \in 0 .. LastPid - Root] ==
        IF n = 0 THEN {Root} ELSE depth[n - 1] \cup UNION {below(p) : p \in depth[n - 1]}
  IN  depth[LastPid - Root]

ChildrenOf(p) == {c \in Pids : ppid[c] = p /\ status[c] \in {"running", "zombie"}}
Descendants == Under(ChildrenOf)
InTree == Under(LAMBDA p : children[p])

\* The i-th of S has i processes of S up to it.
ByPid(S) ==
  [i \in 1 .. Cardinality(S) |-> CHOOSE p \in S : Cardinality({q \in S : q <= p}) = i]

Init ==
  /\ status = [p \in Pids |-> IF p = Root THEN "running" ELSE "new"]
  /\ ppid = [p \in Pids |-> Outside]
  /\ value = [p \in Pids |-> 0]
  /\ changes = 0
  /\ omit_first \in BOOLEAN
  /\ denied \in {{}, {Root}, {LastPid}}
  /\ zombies_raise \in BOOLEAN
  /\ pc = "test"
  /\ agenda = <<>>
  /\ children = [p \in Pids |-> {}]
  /\ previous_values = [p \in Pids |-> 0]
  /\ record_number = 0
  /\ json = <<"list">>
  /\ stable = {}
  /\ known = {}
  /\ written = [p \in Pids |-> [sum |-> 0, last |-> 0]]

-----------------------------------------------------------------------------
(* The processes.                                                          *)

Logging == UNCHANGED <<options, tree, pc, agenda, record_number, json, written>>

Spawn(p) ==
  /\ status[p] = "running"
  /\ \E c \in Pids :
       /\ status[c] = "new"
       /\ \A older \in Root .. c - 1 : status[older] # "new"
       /\ status' = [status EXCEPT ![c] = "running"]
       /\ ppid' = [ppid EXCEPT ![c] = p]
       /\ known' = IF p \in known THEN known \cup {c} ELSE known
  /\ UNCHANGED <<value, changes, stable>>
  /\ Logging

\* A process ends.  Until its parent has waited for it, it is a zombie.
End(p) ==
  /\ status[p] = "running"
  /\ status' = [status EXCEPT ![p] = "zombie"]
  /\ ppid' = [c \in Pids |-> IF ppid[c] = p THEN Outside ELSE ppid[c]]
  /\ stable' = stable \cap (Descendants')
  /\ UNCHANGED <<value, changes, known>>
  /\ Logging

WaitedFor(p) ==
  /\ status[p] = "zombie"
  /\ status' = [status EXCEPT ![p] = "gone"]
  /\ stable' = stable \ {p}
  /\ UNCHANGED <<ppid, value, changes, known>>
  /\ Logging

ValueChanges(p) ==
  /\ status[p] = "running"
  /\ changes < MaxChanges
  /\ changes' = changes + 1
  /\ \E v \in Values : value' = [value EXCEPT ![p] = v]
  /\ UNCHANGED <<status, ppid, stable, known>>
  /\ Logging

-----------------------------------------------------------------------------
(* log_process.                                                            *)

\* is_running() is true of a zombie.
TestRunning ==
  /\ pc = "test"
  /\ record_number < MaxRecords
  /\ \/ /\ status[Root] = "gone"
        /\ pc' = "close"
        /\ UNCHANGED <<agenda, stable, known>>
     \/ /\ status[Root] # "gone"
        /\ pc' = "orphans"
        /\ agenda' = <<Root>>
        /\ stable' = Descendants
        /\ known' = Descendants
  /\ UNCHANGED <<status, ppid, value, changes, options, tree, record_number, json, written>>

KeyboardInterrupt ==
  /\ pc \in {"test", "orphans", "children", "load", "prefix", "column", "newline",
             "json", "record"}
  /\ pc' = "close"
  /\ UNCHANGED <<world, options, tree, agenda, record_number, json, written>>

\* NoSuchProcess or AccessDenied that nothing catches ends the program.
Crash ==
  /\ pc' = "crashed"
  /\ UNCHANGED <<agenda, record_number, json, written>>

Close ==
  /\ pc = "close"
  /\ pc' = "closed"
  /\ json' = IF record_number > 0 THEN Append(json, "end") ELSE json
  /\ UNCHANGED <<world, options, tree, agenda, record_number, written>>

NextSample ==
  /\ pc' = "test"
  /\ record_number' = record_number + 1

-----------------------------------------------------------------------------
(* update_children: first the nodes under a node that are not its children *)
(* any more are removed, then new ones are added, then all are updated.    *)

\* A bug used by the checks: no node is removed.
Kept(p) == children[p]

\* A bug used by the checks: all are removed, and made again.
KeptNone(p) == {}

\* Each node is asked for its parent.
StillChildren(p) == children[p] \cap ChildrenOf(p)

\* A bug used by the checks: children(recursive=True).
ListedRecursively(p) == ChildrenOf(p) \cup UNION {ChildrenOf(c) : c \in ChildrenOf(p)}

\* self.proc.children(recursive=False)
Listed(p) == ChildrenOf(p)

RemoveOrphans ==
  /\ pc = "orphans"
  /\ LET p == Head(agenda)
     IN  children' = [children EXCEPT ![p] = StillChildren(p)]
  /\ pc' = "children"
  /\ UNCHANGED <<world, options, previous_values, agenda, record_number, json, written>>

AfterUpdate == IF omit_first /\ record_number = 0 THEN "load" ELSE "prefix"

\* A new node has no previous values.
AddChildren ==
  /\ pc = "children"
  /\ LET p == Head(agenda)
     IN  /\ children' = [children EXCEPT ![p] = @ \cup Listed(p)]
         /\ previous_values' =
              [c \in Pids |-> IF c \in Listed(p) \ children[p] THEN 0
                              ELSE previous_values[c]]
         /\ LET left == ByPid(children'[p]) \o Tail(agenda)
            IN  /\ agenda' = IF left = <<>> THEN <<Root>> ELSE left
                /\ pc' = IF left = <<>> THEN AfterUpdate ELSE "orphans"
  /\ UNCHANGED <<world, options, record_number, json, written>>

\* Versions of psutil differ in what they do if the process is gone.
AddChildrenRaises ==
  /\ pc = "children"
  /\ status[Head(agenda)] = "gone"
  /\ Crash
  /\ UNCHANGED <<world, options, tree>>

-----------------------------------------------------------------------------
(* The nodes are visited from the root, each before the nodes under it.    *)

\* The column of a process is there to be read, may not be, or is not there.
Raises(p) == status[p] = "gone" \/ (status[p] = "zombie" /\ zombies_raise)
Denied(p) == ~ Raises(p) /\ p \in denied
Readable(p) == ~ Raises(p) /\ p \notin denied

\* What comes next are the nodes given, or, if there is nothing left to do, the next sample.
Visit(nodes, step) ==
  LET left == nodes \o Tail(agenda)
  IN  /\ agenda' = left
      /\ IF left = <<>> THEN NextSample ELSE pc' = step /\ UNCHANGED record_number

\* load_previous, for one node.  AccessDenied is the one exception it catches.
LoadPrevious ==
  /\ pc = "load"
  /\ LET p == Head(agenda)
     IN  \/ /\ ~ Raises(p)
            /\ previous_values' =
                 [previous_values EXCEPT ![p] = IF Readable(p) THEN value[p] ELSE @]
            /\ LET v == previous_values'[p]
               IN  written' = [written EXCEPT ![p] = [sum |-> v, last |-> v]]
            /\ Visit(ByPid(children[p]), "load")
            /\ UNCHANGED json
         \/ /\ Raises(p)
            /\ Crash
            /\ UNCHANGED previous_values
  /\ UNCHANGED <<world, options, children>>

\* Time, PID and name.  If the process is gone the line is left as it is, and
\* the nodes under this one are left out.
WritePrefix ==
  /\ pc = "prefix"
  /\ IF status[Head(agenda)] = "gone" THEN Visit(<<>>, "prefix")
     ELSE pc' = "column" /\ UNCHANGED <<agenda, record_number>>
  /\ UNCHANGED <<world, options, tree, json, written>>

\* _write_diff: the difference to the previous value, which this one becomes.
WriteColumn ==
  /\ pc = "column"
  /\ LET p == Head(agenda)
     IN  \/ /\ Readable(p)
            /\ LET difference == value[p] - previous_values[p]
               IN  written' = [written EXCEPT ![p].sum = @ + difference, ![p].last = value[p]]
            /\ previous_values' = [previous_values EXCEPT ![p] = value[p]]
            /\ pc' = "newline"
            /\ UNCHANGED <<agenda, record_number>>
         \/ /\ Denied(p)
            /\ pc' = "newline"
            /\ UNCHANGED <<agenda, record_number, written, previous_values>>
         \/ /\ Raises(p)
            /\ Visit(<<>>, "prefix")
            /\ UNCHANGED <<written, previous_values>>
  /\ UNCHANGED <<world, options, children, json>>

\* The columns after this one, and the newline.
EndLine ==
  /\ pc = "newline"
  /\ LET p == Head(agenda)
     IN  \/ /\ Raises(p)
            /\ Visit(<<>>, "prefix")
         \/ /\ ~ Raises(p) /\ p = Root
            /\ pc' = "json"
            /\ UNCHANGED <<agenda, record_number>>
         \/ /\ ~ Raises(p) /\ p # Root
            /\ Visit(ByPid(children[p]), "prefix")
  /\ UNCHANGED <<world, options, tree, json, written>>

\* A bug used by the checks: there is a comma before each record.
CommaAlways == Append(json, "comma")

\* "JSON does not like trailing commas so we write the comma lazily."
LazyComma == IF record_number > 0 THEN Append(json, "comma") ELSE json

\* The columns are read again for the record.  An exception is caught for the
\* nodes under the root, which are left out; not for the root itself.
WriteComma ==
  /\ pc = "json"
  /\ \/ /\ Readable(Root)
        /\ json' = LazyComma
        /\ pc' = "record"
        /\ UNCHANGED <<agenda, record_number, written>>
     \/ /\ ~ Readable(Root)
        /\ Crash
  /\ UNCHANGED <<world, options, tree>>

\* json.dumps comes before.  A KeyboardInterrupt in it leaves the comma.
WriteRecord ==
  /\ pc = "record"
  /\ json' = Append(json, "record")
  /\ Visit(ByPid(children[Root]), "prefix")
  /\ UNCHANGED <<world, options, tree, written>>

LogStep ==
  \/ TestRunning \/ Close \/ RemoveOrphans \/ AddChildren \/ AddChildrenRaises
  \/ LoadPrevious \/ WritePrefix \/ WriteColumn \/ EndLine
  \/ WriteComma \/ WriteRecord

Next ==
  \/ LogStep \/ KeyboardInterrupt
  \/ \E p \in Pids : Spawn(p) \/ End(p) \/ WaitedFor(p) \/ ValueChanges(p)

Spec == Init /\ [][Next]_vars

-----------------------------------------------------------------------------
(* Properties.                                                             *)

TypeOK ==
  /\ status \in [Pids -> {"new", "running", "zombie", "gone"}]
  /\ ppid \in [Pids -> Pids \cup {Outside}]
  /\ value \in [Pids -> Values \cup {0}]
  /\ omit_first \in BOOLEAN /\ zombies_raise \in BOOLEAN /\ denied \subseteq Pids
  /\ pc \in {"test", "orphans", "children", "load", "prefix", "column", "newline",
             "json", "record", "close", "closed", "crashed"}
  /\ agenda \in Seq(Pids) /\ IsInjective(agenda)
  /\ children \in [Pids -> SUBSET Pids]
  /\ previous_values \in [Pids -> Values \cup {0}]
  /\ \A p, q \in Pids : children[p] \cap children[q] # {} => p = q
  /\ record_number \in 0 .. MaxRecords
  /\ json \in Seq({"list", "record", "comma", "end"})
  /\ written \in [Pids -> [sum : Int, last : Values \cup {0}]]

\* update_children ends with the tree that is there: the processes that have
\* been descendants all the while are in it, though others came and went, and
\* nothing is in it that was not there when the update began or came since
\* from a process that was.
TreeIsCurrent ==
  [][pc = "children" /\ pc' \in {"load", "prefix"}
     => stable \subseteq InTree' /\ InTree' \subseteq known]_vars

\* The differences in the lines of a process add up to the value that its last
\* line has: no difference is counted twice or lost when other processes come
\* and go, or when a line is not finished.
DifferencesAddUp == \A p \in Pids : written[p].sum = written[p].last

\* If the log ends after at least one sample, none of which was omitted, the
\* JSON file is a list of records with commas between them; but for a comma
\* after the last record if a KeyboardInterrupt ended a sample at the root.
JsonIsAList ==
  pc = "closed" /\ record_number > 0 /\ ~ omit_first =>
    /\ json[1] = "list" /\ json[Len(json)] = "end"
    /\ \A i \in 2 .. Len(json) - 1 : json[i] = IF i % 2 = 0 THEN "record" ELSE "comma"
    /\ json[Len(json) - 1] = "comma" => agenda # <<>> /\ Head(agenda) = Root

=============================================================================
