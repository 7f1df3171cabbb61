---------------------------- MODULE ProcessLogging ----------------------------
(***************************************************************************)
(* process.py: a ProcessLoggingThread writes the state of a process to the *)
(* log at regular intervals, with the messages that were put in its queue  *)
(* meanwhile.  log_process() starts it, runs the body of a with block and  *)
(* calls its join(), which also writes to the log, in the caller's thread. *)
(*                                                                         *)
(* So there are two threads that take messages out of the queue.  Any      *)
(* thread may put messages in.                                             *)
(*                                                                         *)
(* Each test, each operation on the queue and each line written is a step. *)
(***************************************************************************)
EXTENDS Integers, Sequences, FiniteSets

CONSTANTS Messages,    (* messages, all different, each put at most once     *)
          None,        (* no message                                         *)
          Usage        (* what happens besides the body of the with block    *)

(***************************************************************************)
(* "others": threads other than the one that joins put messages as well.   *)
(* "process ends": the process that is watched is another one, and ends.   *)
(***************************************************************************)
ASSUME NoneAssumption == None \notin Messages
ASSUME UsageAssumption == Usage \subseteq {"others", "process ends"}

\* The thread in run(), and the one that calls join().
Logger == "logger"
Joiner == "joiner"
Writers == {Logger, Joiner}

VARIABLES
  pc,         \* where each of the two threads is
  running,    \* _run
  queue,      \* process_queue
  hand,       \* the message each thread has taken from the queue, or None
  log,        \* the lines that have a message, and the thread that wrote each
  put,        \* every message put so far, in order
  pledged,    \* the messages that were put when join() was called
  gone        \* the process that is watched has ended

vars == <<pc, running, queue, hand, log, put, pledged, gone>>

Members(s) == {s[i] : i \in 1 .. Len(s)}
Logged(m) == \E i \in 1 .. Len(log) : log[i].label = m

Init ==
  /\ pc = [t \in Writers |-> IF t = Logger THEN "test run" ELSE "body"]
  /\ running = TRUE
  /\ queue = <<>>
  /\ hand = [t \in Writers |-> None]
  /\ log = <<>>
  /\ put = <<>>
  /\ pledged = {}
  /\ gone = FALSE

GoTo(t, place) == pc' = [pc EXCEPT ![t] = place]

-----------------------------------------------------------------------------
(* The users of the thread, and the process it watches.                    *)

\* add_message_to_queue.
Put(m) ==
  /\ m \notin Members(put)
  /\ pc[Joiner] = "body" \/ "others" \in Usage
  /\ queue' = Append(queue, m)
  /\ put' = Append(put, m)
  /\ UNCHANGED <<pc, running, hand, log, pledged, gone>>

\* A bug used by the checks: join() tells the thread to stop first.
CallJoinStoppingFirst ==
  /\ pc[Joiner] = "body"
  /\ GoTo(Joiner, "test run")
  /\ pledged' = Members(put)
  /\ running' = FALSE
  /\ UNCHANGED <<queue, hand, log, put, gone>>

\* The body of the with block is over, in one way or another.
CallJoin ==
  /\ pc[Joiner] = "body"
  /\ GoTo(Joiner, "test run")
  /\ pledged' = Members(put)
  /\ UNCHANGED <<running, queue, hand, log, put, gone>>

ProcessEnds ==
  /\ "process ends" \in Usage
  /\ ~ gone
  /\ gone' = TRUE
  /\ UNCHANGED <<pc, running, queue, hand, log, put, pledged>>

-----------------------------------------------------------------------------
(* _write_to_log, by either thread.                                        *)

Returns(t) == GoTo(t, IF t = Logger THEN "loop" ELSE "stop")

TestRun(t) ==
  /\ pc[t] = "test run"
  /\ IF running THEN GoTo(t, "test empty") ELSE Returns(t)
  /\ UNCHANGED <<running, queue, hand, log, put, pledged, gone>>

TestEmpty(t) ==
  /\ pc[t] = "test empty"
  /\ GoTo(t, IF queue = <<>> THEN "write line" ELSE "drain")
  /\ UNCHANGED <<running, queue, hand, log, put, pledged, gone>>

\* A line without a message.  Nothing can be read of a process that is gone:
\* NoSuchProcess ends the thread, or join().
WriteLine(t) ==
  /\ pc[t] = "write line"
  /\ IF gone THEN GoTo(t, "raised") ELSE Returns(t)
  /\ UNCHANGED <<running, queue, hand, log, put, pledged, gone>>

\* The test of the loop.
Drain(t) ==
  /\ pc[t] = "drain"
  /\ IF queue = <<>> THEN Returns(t) ELSE GoTo(t, "get")
  /\ UNCHANGED <<running, queue, hand, log, put, pledged, gone>>

\* A bug used by the checks: the message stays in the queue.
GetWithoutRemoving(t) ==
  /\ pc[t] = "get" /\ queue # <<>>
  /\ hand' = [hand EXCEPT ![t] = Head(queue)]
  /\ GoTo(t, "write message")
  /\ UNCHANGED <<running, queue, log, put, pledged, gone>>

\* A bug used by the checks: the last message is taken.
GetLast(t) ==
  /\ pc[t] = "get" /\ queue # <<>>
  /\ hand' = [hand EXCEPT ![t] = queue[Len(queue)]]
  /\ queue' = SubSeq(queue, 1, Len(queue) - 1)
  /\ GoTo(t, "write message")
  /\ UNCHANGED <<running, log, put, pledged, gone>>

\* get() waits for a message, without a limit of time.
Get(t) ==
  /\ pc[t] = "get"
  /\ queue # <<>>
  /\ hand' = [hand EXCEPT ![t] = Head(queue)]
  /\ queue' = Tail(queue)
  /\ GoTo(t, "write message")
  /\ UNCHANGED <<running, log, put, pledged, gone>>

\* A bug used by the checks: a message whose line is written is kept.
WriteMessageKeeping(t) ==
  /\ pc[t] = "write message"
  /\ IF gone THEN GoTo(t, "raised") /\ UNCHANGED log
             ELSE GoTo(t, "drain") /\ log' = Append(log, [by |-> t, label |-> hand[t]])
  /\ UNCHANGED <<running, queue, hand, put, pledged, gone>>

\* A line with the message; if the process is gone the message is lost.
WriteMessage(t) ==
  /\ pc[t] = "write message"
  /\ hand' = [hand EXCEPT ![t] = None]
  /\ IF gone
     THEN GoTo(t, "raised") /\ UNCHANGED log
     ELSE GoTo(t, "drain") /\ log' = Append(log, [by |-> t, label |-> hand[t]])
  /\ UNCHANGED <<running, queue, put, pledged, gone>>

Write(t) == \/ TestRun(t) \/ TestEmpty(t) \/ WriteLine(t)
            \/ Drain(t) \/ Get(t) \/ WriteMessage(t)

-----------------------------------------------------------------------------
(* The rest of run() and of join().                                        *)

\* The loop of run().
Loop ==
  /\ pc[Logger] = "loop"
  /\ GoTo(Logger, IF running THEN "sleep" ELSE "ended")
  /\ UNCHANGED <<running, queue, hand, log, put, pledged, gone>>

Sleep ==
  /\ pc[Logger] = "sleep"
  /\ GoTo(Logger, "test run")
  /\ UNCHANGED <<running, queue, hand, log, put, pledged, gone>>

\* A bug used by the checks: the thread is not told to stop.
StopForgotten ==
  /\ pc[Joiner] = "stop"
  /\ GoTo(Joiner, "wait")
  /\ UNCHANGED <<running, queue, hand, log, put, pledged, gone>>

Stop ==
  /\ pc[Joiner] = "stop"
  /\ running' = FALSE
  /\ GoTo(Joiner, "wait")
  /\ UNCHANGED <<queue, hand, log, put, pledged, gone>>

\* The join() of threading.Thread, without a timeout.
Joined ==
  /\ pc[Joiner] = "wait"
  /\ pc[Logger] \in {"ended", "raised"}
  /\ GoTo(Joiner, "ended")
  /\ UNCHANGED <<running, queue, hand, log, put, pledged, gone>>

Run == Write(Logger) \/ Loop \/ Sleep
Join == Write(Joiner) \/ Stop \/ Joined

Next == \/ \E m \in Messages : Put(m)
        \/ CallJoin \/ ProcessEnds
        \/ Run \/ Join

Spec == Init /\ [][Next]_vars

\* Both threads are scheduled, and a sleep ends.  That the body of the with
\* block ends, or the process that is watched, is not assumed.
FairSpec == Spec /\ WF_vars(Run) /\ WF_vars(Join)

-----------------------------------------------------------------------------
(* Properties.                                                             *)

Places == {"body", "test run", "test empty", "write line", "drain", "get",
           "write message", "loop", "sleep", "stop", "wait", "ended", "raised"}

\* Types, and a thread holds a message only when it is about to write it.
TypeOK ==
  /\ pc \in [Writers -> Places]
  /\ running \in BOOLEAN
  /\ queue \in Seq(Messages)
  /\ hand \in [Writers -> Messages \cup {None}]
  /\ log \in Seq([by : Writers, label : Messages])
  /\ put \in Seq(Messages)
  /\ pledged \in SUBSET Messages
  /\ gone \in BOOLEAN
  /\ \A t \in Writers : hand[t] # None <=> pc[t] = "write message"

Occurrences(m) ==
  Cardinality({i \in 1 .. Len(queue) : queue[i] = m})
  + Cardinality({t \in Writers : hand[t] = m})
  + Cardinality({i \in 1 .. Len(log) : log[i].label = m})

\* The two threads never write the same message, and none disappears between
\* them: it is in the queue, in the hand of one of them or in the log, once.
EachMessageOnce ==
  \A m \in Members(put) : Occurrences(m) = 1 \/ (gone /\ Occurrences(m) = 0)

\* When join() returns, everything that was put before it was called is in the
\* log, whichever thread wrote it.
JoinLosesNothing == pc[Joiner] = "ended" /\ ~ gone => \A m \in pledged : Logged(m)

\* Messages are in the log in the order in which they were put, except that one
\* that is in the hand of a thread can be overtaken by those the other writes.
LoggedInOrder ==
  \A i, j \in 1 .. Len(log), k, l \in 1 .. Len(put) :
    i < j /\ put[k] = log[j].label /\ put[l] = log[i].label /\ k < l
    => log[i].by # log[j].by

\* Every message put before join() is called gets to the log, even if join()
\* itself never returns.
EveryMessageIsLogged ==
  \A m \in Messages :
    (m \in Members(put) /\ pc[Joiner] = "body") ~> (Logged(m) \/ gone)

JoinHasEnded == pc[Joiner] \in {"ended", "raised"}

\* join() returns if the queue is empty when it is called and nothing comes
\* after: the thread is told to stop and stops.
JoinEndsWhenIdle ==
  (pc[Joiner] = "test run" /\ queue = <<>> /\ Members(put) = Messages) ~> JoinHasEnded

\* What its docstring says of join(), that it writes a last time and does what
\* thread.join() does, with a thread that has been told to stop: it returns.
JoinEnds == (pc[Joiner] = "test run") ~> JoinHasEnded

-----------------------------------------------------------------------------
(* The inductive invariant behind the safety properties.                   *)

Distinct(s) == \A i, j \in 1 .. Len(s) : s[i] = s[j] => i = j

Labels == [i \in 1 .. Len(log) |-> log[i].label]
Hands == {hand[t] : t \in Writers} \ {None}

\* No message is in two places.
OnePlace ==
  /\ Distinct(queue)
  /\ Distinct(Labels)
  /\ hand[Logger] = hand[Joiner] => hand[Logger] = None
  /\ Members(queue) \cap Hands = {}
  /\ Members(queue) \cap Members(Labels) = {}
  /\ Hands \cap Members(Labels) = {}

\* What is somewhere was put, and what was put is somewhere, or was lost with
\* the process.
SomePlace ==
  /\ Members(queue) \cup Hands \cup Members(Labels) \subseteq Members(put)
  /\ ~ gone => Members(put) \subseteq Members(queue) \cup Hands \cup Members(Labels)

\* Only the process's end can stop a thread before it was told to.
StoppedInOrder ==
  /\ pc[Joiner] \notin {"wait", "ended"} => running
  /\ \A t \in Writers : pc[t] = "raised" => gone
  /\ pc[Joiner] = "ended" => pc[Logger] \in {"ended", "raised"}

\* When join() has seen an empty queue, what was put before it was called has
\* been taken, and nothing puts it back.
PledgedTaken ==
  /\ pledged \subseteq Members(put)
  /\ pc[Joiner] \in {"write line", "stop", "wait", "ended"}
       => pledged \cap Members(queue) = {}

IInv == TypeOK /\ OnePlace /\ SomePlace /\ StoppedInOrder /\ PledgedTaken

=============================================================================
