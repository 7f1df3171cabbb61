------------------------------ MODULE TraceLog ------------------------------
(***************************************************************************)
(* The log file of one cpyTraceFileWrapper of cPyMemTrace.c, line by line: *)
(* what Profile and Trace write about the events they see.                 *)
(*                                                                         *)
(* Every event is numbered.  Only an event at which the RSS differs from   *)
(* the last reported one by the trigger or more is written, as NEXT; when  *)
(* events were skipped before it, a PREV line precedes it.  Both lines,    *)
(* and those of messages, are composed in the one buffer event_text.       *)
(*                                                                         *)
(* The event type, the code location and the clock are left out of the     *)
(* lines.  The RSS is whatever the operating system says each time it is   *)
(* asked: callbacks that write ask twice.                                  *)
(***************************************************************************)
EXTENDS Integers, Sequences

CONSTANTS Rss,           (* the resident set sizes the system may report     *)
          Triggers,      (* values of d_rss_trigger; 0 asks for every event  *)
          MaxEvents,     (* bound on the events of the log                   *)
          MaxMessages    (* bound on its messages and its raw lines together *)

ASSUME RssAssumption == Rss \subseteq Nat
ASSUME TriggersAssumption == Triggers \subseteq Nat
ASSUME BoundsAssumption == MaxEvents \in Nat \ {0} /\ MaxMessages \in Nat

VARIABLES
  file,                    \* "none", "open" or "closed"
  log,                     \* the lines written so far
  d_rss_trigger,
  event_number,            \* the number of the next event
  previous_event_number,   \* the number of the event last written as NEXT
  rss,                     \* the RSS at the last event
  last_reported_rss,       \* the RSS at the event last written as NEXT
  event_text               \* the text that was composed last

vars == <<file, log, d_rss_trigger, event_number, previous_event_number, rss,
          last_reported_rss, event_text>>

labs(d) == IF d < 0 THEN -d ELSE d

-----------------------------------------------------------------------------
(* The lines.  Columns that a line does not have are zero.                 *)

Text(event, dEvent, r, dRss) ==
  [event |-> event, dEvent |-> dEvent, rss |-> r, dRss |-> dRss]
Line(tag, text) == [tag |-> tag, text |-> text]
Mark(tag) == Line(tag, Text(0, 0, 0, 0))

\* A bug used by the checks: the difference of event numbers is reversed.
FrameTextReversed(r) ==
  Text(event_number, previous_event_number - event_number, r, r - last_reported_rss)

\* What is composed for an event, with r the RSS when it is composed.
FrameText(r) ==
  Text(event_number, event_number - previous_event_number, r, r - last_reported_rss)

\* What is composed for a message.
TimeText == Text(event_number, event_number - previous_event_number, 0, 0)

-----------------------------------------------------------------------------
Init ==
  /\ file = "none"
  /\ log = <<>>
  /\ d_rss_trigger \in Triggers
  /\ event_number = 0
  /\ previous_event_number = 0
  /\ rss = 0
  /\ last_reported_rss = 0
  /\ event_text = Text(0, 0, 0, 0)

(***************************************************************************)
(* __enter__: the optional message of the user, SOF, HDR and the FRST line *)
(* are written.  Then trace_or_profile_function is called for event 0,     *)
(* which only samples the RSS, a third reading.                            *)
(***************************************************************************)
Open ==
  /\ file = "none"
  /\ \E r, sampled \in Rss, message \in {<<>>, <<Mark("opening")>>} :
       /\ event_text' = FrameText(r)
       /\ log' = message \o <<Mark("SOF"), Mark("HDR"), Line("FRST", FrameText(r))>>
       /\ rss' = sampled
  /\ file' = "open"
  /\ event_number' = 1
  /\ UNCHANGED <<d_rss_trigger, previous_event_number, last_reported_rss>>

\* A bug used by the checks: the event before is written though it was reported.
MustWritePreviousAdjacent(d) ==
  /\ labs(d) >= d_rss_trigger
  /\ event_number - previous_event_number >= 1

MustWritePrevious(d) ==
  /\ labs(d) >= d_rss_trigger
  /\ event_number - previous_event_number > 1

\* A bug used by the checks: a change as large as the trigger is not written.
MustWriteNextStrict(d) == labs(d) > d_rss_trigger

\* A bug used by the checks: a shrinking RSS never reaches the trigger.
MustWriteNextGrowth(d) == d >= d_rss_trigger

MustWriteNext(d) == labs(d) >= d_rss_trigger

If(condition, line) == IF condition THEN <<line>> ELSE <<>>

\* A bug used by the checks: skipped events count as reported ones.
EventForgettingSkipped ==
  \E sampled, r \in Rss :
    LET d == sampled - last_reported_rss
    IN  /\ file = "open" /\ event_number < MaxEvents
        /\ log' = log \o If(MustWritePrevious(d), Line("PREV", event_text))
                      \o If(MustWriteNext(d), Line("NEXT", FrameText(r)))
        /\ event_text' = IF MustWriteNext(d) THEN FrameText(r) ELSE event_text
        /\ previous_event_number' = event_number
        /\ last_reported_rss' = IF MustWriteNext(d) THEN sampled ELSE last_reported_rss
        /\ event_number' = event_number + 1
        /\ rss' = sampled
        /\ UNCHANGED <<file, d_rss_trigger>>

(***************************************************************************)
(* trace_or_profile_function for the events after event 0.  PREV repeats   *)
(* what the buffer holds; NEXT composes it anew, with an RSS of its own.   *)
(***************************************************************************)
Event ==
  /\ file = "open"
  /\ event_number < MaxEvents
  /\ \E sampled, r \in Rss :
       LET d == sampled - last_reported_rss
       IN  /\ log' = log \o If(MustWritePrevious(d), Line("PREV", event_text))
                         \o If(MustWriteNext(d), Line("NEXT", FrameText(r)))
           /\ \/ /\ MustWriteNext(d)
                 /\ event_text' = FrameText(r)
                 /\ previous_event_number' = event_number
                 /\ last_reported_rss' = sampled
              \/ /\ ~ MustWriteNext(d)
                 /\ UNCHANGED <<event_text, previous_event_number, last_reported_rss>>
           /\ rss' = sampled
  /\ event_number' = event_number + 1
  /\ UNCHANGED <<file, d_rss_trigger>>

Written(tag) ==
  Len(SelectSeq(log, LAMBDA line : line.tag = tag))

\* The bound on messages and raw lines.
MayWrite == Written("MSG") + Written("raw") < MaxMessages

(***************************************************************************)
(* A message of the user, or one that says the log is detached or attached *)
(* again: its prefix is composed in event_text, too.                       *)
(***************************************************************************)
WriteMessage ==
  /\ file = "open"
  /\ MayWrite
  /\ event_text' = TimeText
  /\ log' = Append(log, Line("MSG", TimeText))
  /\ UNCHANGED <<file, d_rss_trigger, event_number, previous_event_number, rss,
                 last_reported_rss>>

\* write_to_log: the user's text alone.
WriteToLog ==
  /\ file = "open"
  /\ MayWrite
  /\ log' = Append(log, Mark("raw"))
  /\ UNCHANGED <<file, d_rss_trigger, event_number, previous_event_number, rss,
                 last_reported_rss, event_text>>

\* __exit__: LAST, of the event that has not come yet, and EOF.
CloseFile ==
  /\ file = "open"
  /\ \E r \in Rss :
       /\ event_text' = FrameText(r)
       /\ log' = log \o <<Line("LAST", FrameText(r)), Mark("EOF")>>
  /\ file' = "closed"
  /\ UNCHANGED <<d_rss_trigger, event_number, previous_event_number, rss,
                 last_reported_rss>>

Next == Open \/ Event \/ WriteMessage \/ WriteToLog \/ CloseFile

Spec == Init /\ [][Next]_vars

-----------------------------------------------------------------------------
(* Properties.                                                             *)

LineTags == {"opening", "SOF", "HDR", "FRST", "PREV", "NEXT", "MSG", "raw", "LAST", "EOF"}

Texts == [event : Nat, dEvent : Nat, rss : Nat, dRss : Int]

\* The types; dEvent, written after a "+", is never negative.
TypeOK ==
  /\ file \in {"none", "open", "closed"}
  /\ log \in Seq([tag : LineTags, text : Texts])
  /\ d_rss_trigger \in Triggers
  /\ event_number \in 0 .. MaxEvents
  /\ previous_event_number \in 0 .. MaxEvents
  /\ rss \in Nat /\ last_reported_rss \in Nat
  /\ event_text \in Texts

Tag(i) == log[i].tag
Number(i) == log[i].text.event

\* The log is one that a reader can parse: the head lines once and in their
\* order, PREV as the line before a NEXT exactly when that says that events
\* were skipped, and LAST and EOF exactly when the file is closed, at the end.
Grammar ==
  /\ \A i \in DOMAIN log :
       /\ Tag(i) = "PREV" <=>
            i < Len(log) /\ Tag(i + 1) = "NEXT" /\ log[i + 1].text.dEvent > 1
       /\ Tag(i) = "LAST" <=> file = "closed" /\ i = Len(log) - 1
       /\ Tag(i) = "EOF" <=> file = "closed" /\ i = Len(log)
       /\ Tag(i) = "opening" => i = 1
  /\ file # "none" =>
       \E first \in {1, 2} :
         /\ first = 2 => Tag(1) = "opening"
         /\ \A i \in DOMAIN log :
              /\ Tag(i) = "SOF" <=> i = first
              /\ Tag(i) = "HDR" <=> i = first + 1
              /\ Tag(i) = "FRST" <=> i = first + 2

\* The number of the last NEXT line before line i, or 0, which FRST stands for.
ReportedBefore(i) ==
  LET earlier == {j \in 1 .. i - 1 : Tag(j) = "NEXT"}
  IN  IF earlier = {} THEN 0
      ELSE Number(CHOOSE j \in earlier : \A k \in earlier : k <= j)

\* A reader can tell from the column dEvent alone how many events were skipped
\* since the last NEXT line: whatever was skipped or written in between, it is
\* the distance of the two numbers.
SkippedEventsAreCounted ==
  \A i \in DOMAIN log :
    Tag(i) \in {"FRST", "NEXT", "MSG", "LAST"} =>
      log[i].text.dEvent = Number(i) - ReportedBefore(i)

\* With trigger 0 the NEXT lines are numbered 1, 2, 3... up to the event before
\* the next one, and nothing is a PREV line.
AllReported ==
  /\ \A i \in DOMAIN log : Tag(i) # "PREV"
  /\ \A i \in DOMAIN log : Tag(i) = "NEXT" => Number(i) = ReportedBefore(i) + 1
  /\ file # "none" => ReportedBefore(Len(log) + 1) = event_number - 1

\* What a log is for: with trigger 0 no event is missing from it; with another
\* the RSS is, after any event, closer to the one reported last than the
\* trigger, in either direction.
NothingIsMissed ==
  /\ d_rss_trigger = 0 => AllReported
  /\ d_rss_trigger > 0 /\ event_number > 1 =>
       /\ rss < last_reported_rss + d_rss_trigger
       /\ last_reported_rss < rss + d_rss_trigger

=============================================================================
