-------------------------- MODULE TraceLog_proofs --------------------------
(***************************************************************************)
(* Proofs about the log file of Profile and Trace, for any RSS values, any *)
(* triggers and any number of events and messages.                         *)
(*                                                                         *)
(* The log only grows, so what a reader finds before a line stays what it  *)
(* was.  The lemmas say how the number of the last NEXT line changes when  *)
(* one line is appended; the invariant ties that number to the variable    *)
(* previous_event_number, of which the code writes only differences.       *)
(***************************************************************************)
EXTENDS TraceLog, SequenceTheorems, WellFoundedInduction, TLAPS

Lines == [tag : LineTags, text : Texts]

\* The NEXT lines before line i of l, the last of some lines, and what the last
\* NEXT line before line i reports.
NextLines(l, i) == {j \in 1 .. i - 1 : l[j].tag = "NEXT"}
LastOf(S) == CHOOSE j \in S : \A k \in S : k <= j
Reported(l, i) ==
  IF NextLines(l, i) = {} THEN 0 ELSE l[LastOf(NextLines(l, i))].text.event

-----------------------------------------------------------------------------
(* Lemmas about the last NEXT line.                                        *)

\* A set of line numbers that is not empty has a largest one.
LEMMA LargestNumber ==
  ASSUME NEW n \in Nat, NEW S \in SUBSET (1 .. n), S # {}
  PROVE  LastOf(S) \in S /\ \A k \in S : k <= LastOf(S)
<1> DEFINE Bounds == {m \in Nat : \A k \in S : k <= m}
           Less == OpToRel(<, Nat)
<1>1. IsWellFoundedOn(Less, Nat)
  BY NatLessThanWellFounded
<1>2. \A b, m \in Nat : b < m => <<b, m>> \in Less
  BY DEF OpToRel
<1>3. n \in Bounds /\ Bounds \subseteq Nat
  OBVIOUS
<1> HIDE DEF Less, Bounds
<1>4. PICK m \in Bounds : \A b \in Bounds : ~ (<<b, m>> \in Less)
  BY <1>1, <1>3, WFMin
<1>5. \A b \in Bounds : m <= b
  <2> SUFFICES ASSUME NEW b \in Bounds PROVE ~ (b < m)
    BY <1>3
  <2>1. b \in Nat /\ m \in Nat /\ <<b, m>> \notin Less
    BY <1>3, <1>4
  <2>2. b < m => <<b, m>> \in Less
    BY <1>2, <2>1
  <2>3. QED
    BY <2>1, <2>2
<1>6. m \in S
  <2> SUFFICES ASSUME m \notin S PROVE FALSE
    OBVIOUS
  <2>1. m \in Nat /\ \A k \in S : k \in Nat /\ k <= m /\ k # m /\ 1 <= k
    BY DEF Bounds
  <2>2. m - 1 \in Nat /\ \A k \in S : k <= m - 1
    <3>1. \A k \in S : k <= m - 1
      BY <2>1
    <3>2. PICK k \in S : TRUE
      OBVIOUS
    <3>3. QED
      BY <2>1, <3>1, <3>2
  <2>3. m - 1 \in Bounds
    BY <2>2 DEF Bounds
  <2>4. QED
    BY <1>5, <2>1, <2>3
<1>7. \A k \in S : k <= m
  BY DEF Bounds
<1>8. QED
  BY <1>6, <1>7 DEF LastOf

\* Two logs that begin alike have the same last NEXT line there.
LEMMA ReportedInPrefix ==
  ASSUME NEW l, NEW m, NEW i \in Nat \ {0}, \A j \in 1 .. i - 1 : m[j] = l[j]
  PROVE  Reported(m, i) = Reported(l, i)
<1>1. NextLines(m, i) = NextLines(l, i)
  BY DEF NextLines
<1>2. ASSUME NextLines(l, i) # {} PROVE LastOf(NextLines(l, i)) \in 1 .. i - 1
  <2>1. NextLines(l, i) \in SUBSET (1 .. i - 1) /\ i - 1 \in Nat
    BY DEF NextLines
  <2>2. QED
    BY <1>2, <2>1, LargestNumber
<1>3. QED
  BY <1>1, <1>2 DEF Reported

\* After a NEXT line its number is the last reported one.
LEMMA ReportedAfterNext ==
  ASSUME NEW l, NEW i \in Nat \ {0}, l[i].tag = "NEXT"
  PROVE  Reported(l, i + 1) = l[i].text.event
<1>1. i \in NextLines(l, i + 1) /\ NextLines(l, i + 1) \in SUBSET (1 .. i)
  BY DEF NextLines
<1>2. /\ LastOf(NextLines(l, i + 1)) \in NextLines(l, i + 1)
      /\ \A k \in NextLines(l, i + 1) : k <= LastOf(NextLines(l, i + 1))
  BY <1>1, LargestNumber
<1>3. LastOf(NextLines(l, i + 1)) = i
  BY <1>1, <1>2
<1>4. QED
  BY <1>1, <1>3 DEF Reported

\* Any other line leaves it as it was.
LEMMA ReportedAfterOther ==
  ASSUME NEW l, NEW i \in Nat \ {0}, l[i].tag # "NEXT"
  PROVE  Reported(l, i + 1) = Reported(l, i)
<1>1. NextLines(l, i + 1) = NextLines(l, i)
  BY DEF NextLines
<1>2. QED
  BY <1>1 DEF Reported

\* Before the first line nothing is reported.
LEMMA ReportedAtStart ==
  ASSUME NEW l
  PROVE  Reported(l, 1) = 0
<1>1. NextLines(l, 1) = {}
  BY DEF NextLines
<1>2. QED
  BY <1>1 DEF Reported

\* The lemmas speak of what the property calls ReportedBefore.
LEMMA ReportedIsReportedBefore ==
  ASSUME NEW i
  PROVE  ReportedBefore(i) = Reported(log, i)
BY DEF ReportedBefore, Reported, NextLines, LastOf, Tag, Number

\* What one more line does to a log.
LEMMA OneMoreLine ==
  ASSUME NEW l \in Seq(Lines), NEW x \in Lines, NEW m, m = Append(l, x)
  PROVE  /\ m \in Seq(Lines)
         /\ Len(l) \in Nat
         /\ Len(m) = Len(l) + 1
         /\ m[Len(l) + 1] = x
         /\ \A i \in 1 .. Len(l) : m[i] = l[i]
BY AppendProperties, LenProperties

\* A reader finds the same before any line that was there, and before the new one.
LEMMA ReportedBeforeOneMore ==
  ASSUME NEW l \in Seq(Lines), NEW x \in Lines, NEW m, m = Append(l, x)
  PROVE  \A i \in 1 .. Len(l) + 1 : Reported(m, i) = Reported(l, i)
<1>1. Len(l) \in Nat /\ \A i \in 1 .. Len(l) : m[i] = l[i]
  BY OneMoreLine
<1>2. SUFFICES ASSUME NEW i \in 1 .. Len(l) + 1
               PROVE  Reported(m, i) = Reported(l, i)
  OBVIOUS
<1>3. i \in Nat \ {0} /\ \A j \in 1 .. i - 1 : m[j] = l[j]
  BY <1>1
<1>4. QED
  BY <1>3, ReportedInPrefix

\* After the new line the number is its own if it is a NEXT line.
LEMMA ReportedAfterOneMore ==
  ASSUME NEW l \in Seq(Lines), NEW x \in Lines, NEW m, m = Append(l, x)
  PROVE  Reported(m, Len(m) + 1) =
           IF x.tag = "NEXT" THEN x.text.event ELSE Reported(l, Len(l) + 1)
<1>1. Len(m) \in Nat \ {0} /\ Len(m) = Len(l) + 1 /\ m[Len(m)] = x
  BY OneMoreLine
<1>2. ASSUME x.tag = "NEXT" PROVE Reported(m, Len(m) + 1) = x.text.event
  BY <1>1, <1>2, ReportedAfterNext
<1>3. ASSUME x.tag # "NEXT" PROVE Reported(m, Len(m) + 1) = Reported(l, Len(l) + 1)
  <2>1. Reported(m, Len(m) + 1) = Reported(m, Len(m))
    BY <1>1, <1>3, ReportedAfterOther
  <2>2. Len(m) \in 1 .. Len(l) + 1 /\ \A i \in 1 .. Len(l) + 1 : Reported(m, i) = Reported(l, i)
    <3>1. \A i \in 1 .. Len(l) + 1 : Reported(m, i) = Reported(l, i)
      BY ReportedBeforeOneMore
    <3>2. QED
      BY <1>1, <3>1
  <2>3. QED
    BY <1>1, <2>1, <2>2
<1>4. QED
  BY <1>2, <1>3

-----------------------------------------------------------------------------
(* The inductive invariant.                                                *)

\* What the code knows when no line has been written, and that the event
\* written last comes before the next one.
Numbers ==
  /\ file = "none" => log = <<>> /\ event_number = 0 /\ previous_event_number = 0
  /\ file # "none" => previous_event_number < event_number

\* The head lines of a log that begins with an opening message when first = 2.
HeadAt(l, first) ==
  /\ first + 2 \in 1 .. Len(l)
  /\ first = 2 => l[1].tag = "opening"
  /\ \A i \in 1 .. Len(l) :
       /\ l[i].tag = "SOF" <=> i = first
       /\ l[i].tag = "HDR" <=> i = first + 1
       /\ l[i].tag = "FRST" <=> i = first + 2

\* The lines of a log that is not closed yet.
Unfinished(l) ==
  \A i \in 1 .. Len(l) :
    /\ l[i].tag \notin {"LAST", "EOF"}
    /\ l[i].tag = "opening" => i = 1
    /\ l[i].tag = "PREV" <=>
         i < Len(l) /\ l[i + 1].tag = "NEXT" /\ l[i + 1].text.dEvent > 1

\* The differences of event numbers in l are those that a reader finds.
Counted(l) ==
  \A i \in 1 .. Len(l) :
    l[i].tag \in {"FRST", "NEXT", "MSG", "LAST"} =>
      l[i].text.dEvent = l[i].text.event - Reported(l, i)

\* The NEXT lines of l are numbered 1, 2, 3...
EveryEvent(l) ==
  \A i \in 1 .. Len(l) :
    /\ l[i].tag # "PREV"
    /\ l[i].tag = "NEXT" => l[i].text.event = Reported(l, i) + 1

\* A log that is written to, with n the number a reader finds last.
OpenLog(l, n) ==
  /\ l \in Seq(Lines)
  /\ \E first \in {1, 2} : HeadAt(l, first)
  /\ Unfinished(l)
  /\ Counted(l)
  /\ Reported(l, Len(l) + 1) = n

IInv ==
  /\ TypeOK
  /\ Numbers
  /\ file = "open" => OpenLog(log, previous_event_number)
  /\ Grammar
  /\ SkippedEventsAreCounted
  /\ NothingIsMissed

-----------------------------------------------------------------------------
(* One more line and the parts of the invariant.                           *)

\* The differences of a log stay right if that of its new line is.
LEMMA CountedOneMore ==
  ASSUME NEW l \in Seq(Lines), NEW x \in Lines, NEW m, m = Append(l, x), Counted(l),
         x.tag \in {"FRST", "NEXT", "MSG", "LAST"} =>
           x.text.dEvent = x.text.event - Reported(l, Len(l) + 1)
  PROVE  Counted(m)
<1>1. Len(l) \in Nat /\ Len(m) = Len(l) + 1 /\ m[Len(l) + 1] = x
  BY OneMoreLine
<1>2. \A i \in 1 .. Len(l) : m[i] = l[i]
  BY OneMoreLine
<1>3. \A i \in 1 .. Len(l) + 1 : Reported(m, i) = Reported(l, i)
  BY ReportedBeforeOneMore
<1>4. SUFFICES ASSUME NEW i \in 1 .. Len(m), m[i].tag \in {"FRST", "NEXT", "MSG", "LAST"}
               PROVE  m[i].text.dEvent = m[i].text.event - Reported(m, i)
  BY DEF Counted
<1>5. CASE i = Len(l) + 1
  BY <1>1, <1>3, <1>4, <1>5
<1>6. CASE i # Len(l) + 1
  <2>1. i \in 1 .. Len(l) /\ i \in 1 .. Len(l) + 1
    BY <1>1, <1>6
  <2>2. m[i] = l[i] /\ Reported(m, i) = Reported(l, i)
    BY <1>2, <1>3, <2>1
  <2>3. QED
    BY <1>4, <2>1, <2>2 DEF Counted
<1>7. QED
  BY <1>5, <1>6

\* No event is missing if the new line is not of one that comes too late.
LEMMA EveryEventOneMore ==
  ASSUME NEW l \in Seq(Lines), NEW x \in Lines, NEW m, m = Append(l, x), EveryEvent(l),
         x.tag # "PREV",
         x.tag = "NEXT" => x.text.event = Reported(l, Len(l) + 1) + 1
  PROVE  EveryEvent(m)
<1>1. Len(l) \in Nat /\ Len(m) = Len(l) + 1 /\ m[Len(l) + 1] = x
  BY OneMoreLine
<1>2. \A i \in 1 .. Len(l) : m[i] = l[i]
  BY OneMoreLine
<1>3. \A i \in 1 .. Len(l) + 1 : Reported(m, i) = Reported(l, i)
  BY ReportedBeforeOneMore
<1>4. SUFFICES ASSUME NEW i \in 1 .. Len(m)
               PROVE  /\ m[i].tag # "PREV"
                      /\ m[i].tag = "NEXT" => m[i].text.event = Reported(m, i) + 1
  BY DEF EveryEvent
<1>5. CASE i = Len(l) + 1
  BY <1>1, <1>3, <1>5
<1>6. CASE i # Len(l) + 1
  <2>1. i \in 1 .. Len(l) /\ i \in 1 .. Len(l) + 1
    BY <1>1, <1>6
  <2>2. m[i] = l[i] /\ Reported(m, i) = Reported(l, i)
    BY <1>2, <1>3, <2>1
  <2>3. QED
    BY <2>1, <2>2 DEF EveryEvent
<1>7. QED
  BY <1>5, <1>6

\* The head stays what it is.
LEMMA HeadOneMore ==
  ASSUME NEW l \in Seq(Lines), NEW x \in Lines, NEW m, m = Append(l, x),
         x.tag \notin {"SOF", "HDR", "FRST"}, NEW first \in {1, 2}, HeadAt(l, first)
  PROVE  HeadAt(m, first)
<1>1. Len(l) \in Nat /\ Len(m) = Len(l) + 1 /\ m[Len(l) + 1] = x
  BY OneMoreLine
<1>2. \A i \in 1 .. Len(l) : m[i] = l[i]
  BY OneMoreLine
<1>3. first + 2 \in 1 .. Len(l) /\ 1 \in 1 .. Len(l) /\ first + 2 \in 1 .. Len(m)
  BY <1>1 DEF HeadAt
<1>4. first = 2 => m[1].tag = "opening"
  BY <1>2, <1>3 DEF HeadAt
<1>5. ASSUME NEW i \in 1 .. Len(m)
      PROVE  /\ m[i].tag = "SOF" <=> i = first
             /\ m[i].tag = "HDR" <=> i = first + 1
             /\ m[i].tag = "FRST" <=> i = first + 2
  <2>1. CASE i = Len(l) + 1
    BY <1>1, <1>3, <2>1
  <2>2. CASE i # Len(l) + 1
    <3>1. i \in 1 .. Len(l)
      BY <1>1, <2>2
    <3>2. QED
      BY <1>2, <3>1 DEF HeadAt
  <2>3. QED
    BY <2>1, <2>2
<1>6. QED
  BY <1>3, <1>4, <1>5 DEF HeadAt

\* A line alone, or a PREV line and a NEXT line, leave the log one that can
\* be parsed.
LEMMA UnfinishedOneMore ==
  ASSUME NEW l \in Seq(Lines), NEW x \in Lines, NEW m, m = Append(l, x), Unfinished(l),
         x.tag \in {"NEXT", "MSG", "raw"}, x.tag = "NEXT" => ~ (x.text.dEvent > 1)
  PROVE  Unfinished(m)
<1>1. Len(l) \in Nat /\ Len(m) = Len(l) + 1 /\ m[Len(l) + 1] = x
  BY OneMoreLine
<1>2. \A i \in 1 .. Len(l) : m[i] = l[i]
  BY OneMoreLine
<1>3. SUFFICES ASSUME NEW i \in 1 .. Len(m)
               PROVE  /\ m[i].tag \notin {"LAST", "EOF"}
                      /\ m[i].tag = "opening" => i = 1
                      /\ m[i].tag = "PREV" <=>
                           i < Len(m) /\ m[i + 1].tag = "NEXT" /\ m[i + 1].text.dEvent > 1
  BY DEF Unfinished
<1>4. CASE i = Len(l) + 1
  BY <1>1, <1>4
<1>5. CASE i # Len(l) + 1
  <2>1. i \in 1 .. Len(l) /\ m[i] = l[i]
    BY <1>1, <1>2, <1>5
  <2>2. i < Len(l) => m[i + 1] = l[i + 1]
    BY <1>1, <1>2
  <2>3. QED
    BY <1>1, <2>1, <2>2 DEF Unfinished
<1>6. QED
  BY <1>4, <1>5

\* A message between two lines: the pair is added to a log that is not finished.
LEMMA UnfinishedTwoMore ==
  ASSUME NEW l \in Seq(Lines), NEW x \in Lines, NEW m, m = Append(l, x),
         NEW y \in Lines, NEW n, n = Append(m, y), Unfinished(l),
         x.tag = "PREV", y.tag = "NEXT", y.text.dEvent > 1
  PROVE  Unfinished(n)
<1>1. m \in Seq(Lines) /\ Len(l) \in Nat /\ Len(m) = Len(l) + 1 /\ m[Len(l) + 1] = x
  BY OneMoreLine
<1>2. \A i \in 1 .. Len(l) : m[i] = l[i]
  BY OneMoreLine
<1>3. Len(n) = Len(m) + 1 /\ n[Len(m) + 1] = y
  BY <1>1, OneMoreLine
<1>4. \A i \in 1 .. Len(m) : n[i] = m[i]
  BY <1>1, OneMoreLine
<1>5. SUFFICES ASSUME NEW i \in 1 .. Len(n)
               PROVE  /\ n[i].tag \notin {"LAST", "EOF"}
                      /\ n[i].tag = "opening" => i = 1
                      /\ n[i].tag = "PREV" <=>
                           i < Len(n) /\ n[i + 1].tag = "NEXT" /\ n[i + 1].text.dEvent > 1
  BY DEF Unfinished
<1>6. CASE i = Len(l) + 2
  BY <1>1, <1>3, <1>6
<1>7. CASE i = Len(l) + 1
  BY <1>1, <1>3, <1>4, <1>7
<1>8. CASE i \in 1 .. Len(l)
  <2>1. n[i] = l[i]
    BY <1>1, <1>2, <1>4, <1>8
  <2>2. i < Len(l) => n[i + 1] = l[i + 1]
    BY <1>1, <1>2, <1>4, <1>8
  <2>3. QED
    BY <1>1, <1>3, <1>8, <2>1, <2>2 DEF Unfinished
<1>9. QED
  BY <1>1, <1>3, <1>6, <1>7, <1>8

-----------------------------------------------------------------------------
(* From the predicates on logs to the properties, of the next state.       *)

\* The property of a reader who counts is Counted.
LEMMA CountedIsProperty ==
  ASSUME log' \in Seq(Lines), Counted(log')
  PROVE  SkippedEventsAreCounted'
<1>1. DOMAIN log' = 1 .. Len(log')
  BY LenProperties
<1>2. \A i : ReportedBefore(i)' = Reported(log', i)
  BY DEF ReportedBefore, Reported, NextLines, LastOf, Tag, Number
<1>3. QED
  BY <1>1, <1>2 DEF SkippedEventsAreCounted, Counted, Tag, Number

\* That no event is missing is EveryEvent, and the number of the last one.
LEMMA EveryEventIsProperty ==
  ASSUME log' \in Seq(Lines), EveryEvent(log'),
         Reported(log', Len(log') + 1) = event_number' - 1
  PROVE  AllReported'
<1>1. DOMAIN log' = 1 .. Len(log')
  BY LenProperties
<1>2. \A i : ReportedBefore(i)' = Reported(log', i)
  BY DEF ReportedBefore, Reported, NextLines, LastOf, Tag, Number
<1>3. QED
  BY <1>1, <1>2 DEF AllReported, EveryEvent, Tag, Number

\* The same of the current state, in the other direction.
LEMMA PropertyIsEveryEvent ==
  ASSUME TypeOK, AllReported
  PROVE  EveryEvent(log) /\ (file # "none" => Reported(log, Len(log) + 1) = event_number - 1)
<1>1. DOMAIN log = 1 .. Len(log)
  BY LenProperties DEF TypeOK
<1>2. \A i : ReportedBefore(i) = Reported(log, i)
  BY DEF ReportedBefore, Reported, NextLines, LastOf, Tag, Number
<1>3. QED
  BY <1>1, <1>2 DEF AllReported, EveryEvent, Tag, Number

\* A log that is written to can be parsed, if the file is still open.
LEMMA OpenLogIsParsed ==
  ASSUME NEW n, OpenLog(log', n), file' = "open"
  PROVE  Grammar'
<1>1. DOMAIN log' = 1 .. Len(log') /\ Len(log') \in Nat
  BY LenProperties DEF OpenLog
<1>2. \A i \in DOMAIN log' :
        /\ log'[i].tag = "PREV" <=>
             i < Len(log') /\ log'[i + 1].tag = "NEXT" /\ log'[i + 1].text.dEvent > 1
        /\ log'[i].tag \notin {"LAST", "EOF"}
        /\ log'[i].tag = "opening" => i = 1
  BY <1>1 DEF OpenLog, Unfinished
<1>3. \E first \in {1, 2} :
        /\ first = 2 => log'[1].tag = "opening"
        /\ \A i \in DOMAIN log' :
             /\ log'[i].tag = "SOF" <=> i = first
             /\ log'[i].tag = "HDR" <=> i = first + 1
             /\ log'[i].tag = "FRST" <=> i = first + 2
  BY <1>1 DEF OpenLog, HeadAt
<1>4. QED
  BY <1>2, <1>3 DEF Grammar, Tag

\* The columns of a line are numbers.
LEMMA TextsAreTyped ==
  ASSUME TypeOK, Numbers
  PROVE  /\ \A r \in Rss : FrameText(r) \in Texts
         /\ TimeText \in Texts
         /\ previous_event_number \in Nat /\ event_number \in Nat
         /\ previous_event_number <= event_number
<1>1. /\ previous_event_number \in Nat /\ event_number \in Nat
      /\ last_reported_rss \in Nat
      /\ file \in {"none", "open", "closed"}
  BY DEF TypeOK
<1>2. event_number - previous_event_number \in Nat /\ previous_event_number <= event_number
  BY <1>1 DEF Numbers
<1>3. \A r \in Rss : r \in Nat /\ r - last_reported_rss \in Int
  BY <1>1, RssAssumption
<1>4. QED
  BY <1>1, <1>2, <1>3 DEF FrameText, TimeText, Text, Texts

\* A tag and a text are a line.
LEMMA LinesAreTyped ==
  ASSUME NEW tag \in LineTags, NEW text \in Texts
  PROVE  Line(tag, text) \in Lines /\ Mark(tag) \in Lines
BY DEF Line, Mark, Lines, Text, Texts

\* A line that may follow keeps a log that is written to.
LEMMA OpenLogOneMore ==
  ASSUME NEW l, NEW n, OpenLog(l, n), NEW x \in Lines, NEW m, m = Append(l, x),
         x.tag \in {"NEXT", "MSG", "raw"},
         x.tag # "raw" => x.text.dEvent = x.text.event - n,
         x.tag = "NEXT" => ~ (x.text.dEvent > 1)
  PROVE  OpenLog(m, IF x.tag = "NEXT" THEN x.text.event ELSE n)
<1>1. l \in Seq(Lines) /\ Unfinished(l) /\ Counted(l) /\ Reported(l, Len(l) + 1) = n
  BY DEF OpenLog
<1>2. m \in Seq(Lines)
  BY <1>1, OneMoreLine
<1>3. \E first \in {1, 2} : HeadAt(m, first)
  BY <1>1, HeadOneMore DEF OpenLog
<1>4. Unfinished(m)
  BY <1>1, UnfinishedOneMore
<1>5. Counted(m)
  BY <1>1, CountedOneMore
<1>6. Reported(m, Len(m) + 1) = IF x.tag = "NEXT" THEN x.text.event ELSE n
  BY <1>1, ReportedAfterOneMore
<1>7. QED
  BY <1>2, <1>3, <1>4, <1>5, <1>6 DEF OpenLog

\* So do a PREV line and a NEXT line together.
LEMMA OpenLogTwoMore ==
  ASSUME NEW l, NEW n, OpenLog(l, n), NEW x \in Lines, NEW m, m = Append(l, x),
         NEW y \in Lines, NEW k, k = Append(m, y),
         x.tag = "PREV", y.tag = "NEXT", y.text.dEvent = y.text.event - n,
         y.text.dEvent > 1
  PROVE  OpenLog(k, y.text.event)
<1>1. l \in Seq(Lines) /\ Unfinished(l) /\ Counted(l) /\ Reported(l, Len(l) + 1) = n
  BY DEF OpenLog
<1>2. m \in Seq(Lines) /\ k \in Seq(Lines)
  <2>1. m \in Seq(Lines)
    BY <1>1, OneMoreLine
  <2>2. QED
    BY <2>1, OneMoreLine
<1>3. \E first \in {1, 2} : HeadAt(k, first)
  <2>1. PICK first \in {1, 2} : HeadAt(l, first)
    BY DEF OpenLog
  <2>2. HeadAt(m, first)
    BY <1>1, <2>1, HeadOneMore
  <2>3. HeadAt(k, first)
    BY <1>2, <2>2, HeadOneMore
  <2>4. QED
    BY <2>3
<1>4. Unfinished(k)
  BY <1>1, UnfinishedTwoMore
<1>5. Reported(m, Len(m) + 1) = n
  BY <1>1, ReportedAfterOneMore
<1>6. Counted(k)
  <2>1. Counted(m)
    BY <1>1, CountedOneMore
  <2>2. QED
    BY <1>2, <1>5, <2>1, CountedOneMore
<1>7. Reported(k, Len(k) + 1) = y.text.event
  BY <1>2, ReportedAfterOneMore
<1>8. QED
  BY <1>2, <1>3, <1>4, <1>6, <1>7 DEF OpenLog

-----------------------------------------------------------------------------
(* The steps.                                                              *)

\* The head lines of a log that begins with an opening message.
LEMMA FourLines ==
  ASSUME NEW o \in Lines, NEW s \in Lines, NEW h \in Lines, NEW f \in Lines
  PROVE  <<o, s, h, f>> \in Seq(Lines) /\ <<o>> \o <<s, h, f>> = <<o, s, h, f>>
<1> DEFINE a == <<o>>
           b == <<s, h, f>>
           c == <<o, s, h, f>>
<1>1. a \in Seq(Lines) /\ b \in Seq(Lines) /\ Len(a) = 1 /\ Len(b) = 3
  OBVIOUS
<1>2. c \in Seq(Lines) /\ Len(c) = 4
  <2>1. c \in [1 .. 4 -> Lines]
    OBVIOUS
  <2>2. QED
    BY <2>1
<1>3. a[1] = o /\ b[1] = s /\ b[2] = h /\ b[3] = f
  OBVIOUS
<1>4. c[1] = o /\ c[2] = s /\ c[3] = h /\ c[4] = f
  OBVIOUS
<1> HIDE DEF a, b, c
<1>5. /\ a \o b \in Seq(Lines) /\ Len(a \o b) = 4
      /\ \A i \in 1 .. 4 : (a \o b)[i] = IF i <= 1 THEN a[i] ELSE b[i - 1]
  <2>1. a \o b \in Seq(Lines) /\ Len(a \o b) = Len(a) + Len(b)
    BY <1>1, ConcatProperties
  <2>2. \A i \in 1 .. Len(a) + Len(b) :
          (a \o b)[i] = IF i <= Len(a) THEN a[i] ELSE b[i - Len(a)]
    BY <1>1, ConcatProperties
  <2>3. QED
    BY <1>1, <2>1, <2>2
<1>6. \A i \in 1 .. 4 : (a \o b)[i] = c[i]
  BY <1>3, <1>4, <1>5
<1>7. a \o b = c
  BY <1>2, <1>5, <1>6, SeqEqual
<1>8. QED
  BY <1>2, <1>7 DEF a, b, c

\* The head lines of a new log.
LEMMA OpenKeepsInvariant ==
  ASSUME IInv, Open
  PROVE  IInv'
<1>1. PICK r \in Rss, sampled \in Rss, message \in {<<>>, <<Mark("opening")>>} :
        /\ event_text' = FrameText(r)
        /\ log' = message \o <<Mark("SOF"), Mark("HDR"), Line("FRST", FrameText(r))>>
        /\ rss' = sampled
  BY DEF Open
<1>2. /\ file = "none" /\ file' = "open" /\ event_number' = 1
      /\ d_rss_trigger' = d_rss_trigger
      /\ previous_event_number' = previous_event_number
      /\ last_reported_rss' = last_reported_rss
  BY DEF Open
<1>3. TypeOK /\ Numbers /\ event_number = 0 /\ previous_event_number = 0
  BY <1>2 DEF IInv, Numbers
<1>4. FrameText(r) \in Texts /\ FrameText(r).event = 0 /\ FrameText(r).dEvent = 0
  <2>1. FrameText(r) \in Texts
    BY <1>3, TextsAreTyped
  <2>2. QED
    BY <1>3, <2>1 DEF FrameText, Text
<1> DEFINE o == Mark("opening")
           s == Mark("SOF")
           h == Mark("HDR")
           f == Line("FRST", FrameText(r))
<1>5. /\ o \in Lines /\ s \in Lines /\ h \in Lines /\ f \in Lines
      /\ o.tag = "opening" /\ s.tag = "SOF" /\ h.tag = "HDR" /\ f.tag = "FRST"
      /\ f.text = FrameText(r)
  <2>1. Text(0, 0, 0, 0) \in Texts
    BY DEF Text, Texts
  <2>2. o \in Lines /\ s \in Lines /\ h \in Lines /\ f \in Lines
    BY <1>4, <2>1, LinesAreTyped DEF LineTags
  <2>3. QED
    BY <2>2 DEF Mark, Line
<1> HIDE DEF o, s, h, f
<1>6. log' = <<s, h, f>> \/ log' = <<o, s, h, f>>
  <2>1. log' = <<>> \o <<s, h, f>> \/ log' = <<o>> \o <<s, h, f>>
    BY <1>1 DEF o, s, h, f
  <2>2. <<>> \o <<s, h, f>> = <<s, h, f>>
    BY <1>5
  <2>3. <<o>> \o <<s, h, f>> = <<o, s, h, f>>
    BY <1>5, FourLines
  <2>4. QED
    BY <2>1, <2>2, <2>3
<1>7. \E first \in {1, 2} :
        /\ Len(log') = first + 2
        /\ log'[first] = s /\ log'[first + 1] = h /\ log'[first + 2] = f
        /\ first = 2 => log'[1] = o
  <2>1. CASE log' = <<s, h, f>>
    BY <2>1
  <2>2. CASE log' = <<o, s, h, f>>
    BY <2>2
  <2>3. QED
    BY <1>6, <2>1, <2>2
<1>8. log' \in Seq(Lines) /\ Len(log') \in Nat
  <2>1. <<o, s, h, f>> \in Seq(Lines)
    BY <1>5, FourLines
  <2>2. <<s, h, f>> \in Seq(Lines)
    BY <1>5
  <2>3. QED
    BY <1>6, <2>1, <2>2, LenProperties
<1>9. PICK first \in {1, 2} :
        /\ Len(log') = first + 2
        /\ log'[first] = s /\ log'[first + 1] = h /\ log'[first + 2] = f
        /\ first = 2 => log'[1] = o
  BY <1>7
<1>10. \A i \in 1 .. Len(log') :
         \/ first = 2 /\ i = 1 /\ log'[i] = o
         \/ i = first /\ log'[i] = s
         \/ i = first + 1 /\ log'[i] = h
         \/ i = first + 2 /\ log'[i] = f
  BY <1>9
<1>11. HeadAt(log', first)
  BY <1>5, <1>9, <1>10 DEF HeadAt
<1>12. Unfinished(log')
  BY <1>5, <1>10 DEF Unfinished
<1>13. \A i \in 1 .. Len(log') + 1 : Reported(log', i) = 0
  <2>1. \A i \in 1 .. Len(log') : log'[i].tag # "NEXT"
    BY <1>5, <1>10
  <2>2. \A i \in 1 .. Len(log') + 1 : NextLines(log', i) = {}
    BY <1>8, <2>1 DEF NextLines
  <2>3. QED
    BY <2>2 DEF Reported
<1>14. Counted(log') /\ EveryEvent(log')
  <2>1. \A i \in 1 .. Len(log') : Reported(log', i) = 0
    BY <1>8, <1>13
  <2>2. QED
    BY <1>4, <1>5, <1>10, <2>1 DEF Counted, EveryEvent
<1>15. Reported(log', Len(log') + 1) = 0
  BY <1>8, <1>13
<1>16. OpenLog(log', previous_event_number')
  BY <1>2, <1>3, <1>8, <1>11, <1>12, <1>14, <1>15 DEF OpenLog
<1>17. TypeOK' /\ Numbers'
  <2>1. rss' \in Nat
    BY <1>1, RssAssumption
  <2>2. QED
    BY <1>1, <1>2, <1>3, <1>4, <1>8, <2>1, BoundsAssumption DEF TypeOK, Numbers, Lines
<1>18. Grammar' /\ SkippedEventsAreCounted'
  BY <1>2, <1>8, <1>14, <1>16, OpenLogIsParsed, CountedIsProperty
<1>19. NothingIsMissed'
  <2>1. AllReported'
    BY <1>2, <1>8, <1>14, <1>15, EveryEventIsProperty
  <2>2. QED
    BY <1>2, <2>1 DEF NothingIsMissed
<1>20. QED
  BY <1>16, <1>17, <1>18, <1>19 DEF IInv

\* An event: nothing, a NEXT line, or a PREV line and a NEXT line are written.
LEMMA EventWrites ==
  ASSUME IInv, Event
  PROVE  \E sampled, r \in Rss :
           LET d == sampled - last_reported_rss
               p == Line("PREV", event_text)
               x == Line("NEXT", FrameText(r))
           IN  /\ rss' = sampled
               /\ \/ /\ ~ MustWriteNext(d)
                     /\ log' = log
                     /\ UNCHANGED <<event_text, previous_event_number, last_reported_rss>>
                  \/ /\ MustWriteNext(d)
                     /\ \/ /\ ~ (event_number - previous_event_number > 1)
                           /\ log' = Append(log, x)
                        \/ /\ event_number - previous_event_number > 1
                           /\ log' = Append(Append(log, p), x)
                     /\ event_text' = FrameText(r)
                     /\ previous_event_number' = event_number
                     /\ last_reported_rss' = sampled
<1>1. PICK sampled \in Rss, r \in Rss :
        LET d == sampled - last_reported_rss
        IN  /\ log' = log \o If(MustWritePrevious(d), Line("PREV", event_text))
                          \o If(MustWriteNext(d), Line("NEXT", FrameText(r)))
            /\ \/ /\ MustWriteNext(d)
                  /\ event_text' = FrameText(r)
                  /\ previous_event_number' = event_number
                  /\ last_reported_rss' = sampled
               \/ /\ ~ MustWriteNext(d)
                  /\ UNCHANGED <<event_text, previous_event_number, last_reported_rss>>
            /\ rss' = sampled
  BY DEF Event
<1> DEFINE d == sampled - last_reported_rss
           p == Line("PREV", event_text)
           x == Line("NEXT", FrameText(r))
<1>2. log \in Seq(Lines) /\ p \in Lines /\ x \in Lines
  <2>1. TypeOK /\ Numbers
    BY DEF IInv
  <2>2. FrameText(r) \in Texts /\ event_text \in Texts /\ log \in Seq(Lines)
    BY <2>1, TextsAreTyped DEF TypeOK, Lines
  <2>3. QED
    BY <2>2, LinesAreTyped DEF LineTags
<1>3. MustWritePrevious(d) <=> MustWriteNext(d) /\ event_number - previous_event_number > 1
  BY DEF MustWritePrevious, MustWriteNext
<1>4. \A l \in Seq(Lines), y \in Lines :
        If(TRUE, y) = <<y>> /\ If(FALSE, y) = <<>> /\ l \o <<y>> = Append(l, y) /\ l \o <<>> = l
  BY AppendIsConcat, ConcatEmptySeq DEF If
<1>5. Append(log, p) \in Seq(Lines)
  BY <1>2, OneMoreLine
<1> HIDE DEF p, x
<1>6. log' = log \o If(MustWritePrevious(d), p) \o If(MustWriteNext(d), x)
  BY <1>1 DEF p, x
<1>7. CASE ~ MustWriteNext(d)
  <2>1. log' = log \o <<>> \o <<>>
    BY <1>3, <1>6, <1>7 DEF If
  <2>2. log' = log
    BY <1>2, <1>4, <2>1
  <2>3. QED
    BY <1>1, <1>7, <2>2
<1>8. CASE MustWriteNext(d) /\ MustWritePrevious(d)
  <2>1. log' = (log \o <<p>>) \o <<x>>
    BY <1>6, <1>8 DEF If
  <2>2. log' = Append(Append(log, p), x)
    BY <1>2, <1>4, <1>5, <2>1
  <2>3. QED
    BY <1>1, <1>3, <1>8, <2>2 DEF p, x
<1>9. CASE MustWriteNext(d) /\ ~ MustWritePrevious(d)
  <2>1. log' = (log \o <<>>) \o <<x>>
    BY <1>6, <1>9 DEF If
  <2>2. log' = Append(log, x)
    BY <1>2, <1>4, <2>1
  <2>3. QED
    BY <1>1, <1>3, <1>9, <2>2 DEF x
<1>10. QED
  BY <1>7, <1>8, <1>9

\* The RSS is within the trigger of the reported one, whatever was written.
LEMMA EventKeepsClose ==
  ASSUME IInv, Event
  PROVE  d_rss_trigger' > 0 /\ event_number' > 1 =>
           /\ rss' < last_reported_rss' + d_rss_trigger'
           /\ last_reported_rss' < rss' + d_rss_trigger'
<1>1. PICK sampled \in Rss :
        LET d == sampled - last_reported_rss
        IN  /\ rss' = sampled
            /\ \/ ~ MustWriteNext(d) /\ last_reported_rss' = last_reported_rss
               \/ last_reported_rss' = sampled
  BY EventWrites
<1>2. d_rss_trigger' = d_rss_trigger /\ d_rss_trigger \in Nat /\ last_reported_rss \in Nat
  BY TriggersAssumption DEF Event, IInv, TypeOK
<1>3. sampled \in Nat
  BY RssAssumption
<1>4. CASE last_reported_rss' = sampled
  BY <1>1, <1>2, <1>3, <1>4
<1>5. CASE /\ ~ MustWriteNext(sampled - last_reported_rss)
           /\ last_reported_rss' = last_reported_rss
  <2>1. labs(sampled - last_reported_rss) < d_rss_trigger
    BY <1>2, <1>3, <1>5 DEF MustWriteNext, labs
  <2>2. QED
    BY <1>1, <1>2, <1>3, <1>5, <2>1 DEF labs
<1>6. QED
  BY <1>1, <1>4, <1>5

\* What an event writes keeps every property of the log.
LEMMA EventKeepsInvariant ==
  ASSUME IInv, Event
  PROVE  IInv'
<1>1. /\ file = "open" /\ file' = "open" /\ event_number < MaxEvents
      /\ event_number' = event_number + 1 /\ d_rss_trigger' = d_rss_trigger
  BY DEF Event
<1>2. PICK sampled \in Rss, r \in Rss :
        LET d == sampled - last_reported_rss
            p == Line("PREV", event_text)
            x == Line("NEXT", FrameText(r))
        IN  /\ rss' = sampled
            /\ \/ /\ ~ MustWriteNext(d)
                  /\ log' = log
                  /\ UNCHANGED <<event_text, previous_event_number, last_reported_rss>>
               \/ /\ MustWriteNext(d)
                  /\ \/ /\ ~ (event_number - previous_event_number > 1)
                        /\ log' = Append(log, x)
                     \/ /\ event_number - previous_event_number > 1
                        /\ log' = Append(Append(log, p), x)
                  /\ event_text' = FrameText(r)
                  /\ previous_event_number' = event_number
                  /\ last_reported_rss' = sampled
  BY EventWrites
<1> DEFINE d == sampled - last_reported_rss
           p == Line("PREV", event_text)
           x == Line("NEXT", FrameText(r))
<1>3. TypeOK /\ Numbers /\ OpenLog(log, previous_event_number) /\ log \in Seq(Lines)
  BY <1>1 DEF IInv, OpenLog
<1>4. /\ FrameText(r) \in Texts /\ event_text \in Texts
      /\ previous_event_number \in Nat /\ event_number \in Nat
      /\ previous_event_number < event_number
  BY <1>1, <1>3, TextsAreTyped DEF TypeOK, Numbers
<1>5. /\ p \in Lines /\ p.tag = "PREV" /\ x \in Lines /\ x.tag = "NEXT"
      /\ x.text.event = event_number
      /\ x.text.dEvent = event_number - previous_event_number
  <2>1. p \in Lines /\ x \in Lines
    BY <1>4, LinesAreTyped DEF LineTags
  <2>2. QED
    BY <2>1 DEF Line, FrameText, Text
<1> HIDE DEF p, x
<1>6. \/ ~ MustWriteNext(d) /\ log' = log /\ UNCHANGED <<event_text, previous_event_number>>
      \/ /\ \/ ~ (event_number - previous_event_number > 1) /\ log' = Append(log, x)
            \/ event_number - previous_event_number > 1 /\ log' = Append(Append(log, p), x)
         /\ MustWriteNext(d)
         /\ event_text' = FrameText(r)
         /\ previous_event_number' = event_number
  BY <1>2 DEF p, x
<1>7. OpenLog(log', previous_event_number')
  <2>1. CASE log' = log /\ previous_event_number' = previous_event_number
    BY <1>3, <2>1
  <2>2. CASE /\ ~ (event_number - previous_event_number > 1)
             /\ log' = Append(log, x) /\ previous_event_number' = event_number
    BY <1>3, <1>5, <2>2, OpenLogOneMore
  <2>3. CASE /\ event_number - previous_event_number > 1
             /\ log' = Append(Append(log, p), x) /\ previous_event_number' = event_number
    BY <1>3, <1>5, <2>3, OpenLogTwoMore
  <2>4. QED
    BY <1>6, <2>1, <2>2, <2>3
<1>8. TypeOK' /\ Numbers'
  <2>1. rss' \in Nat /\ last_reported_rss' \in Nat
    BY <1>2, <1>3, RssAssumption DEF TypeOK
  <2>2. event_number' \in 0 .. MaxEvents /\ previous_event_number' \in 0 .. MaxEvents
    BY <1>1, <1>3, <1>4, <1>6, BoundsAssumption DEF TypeOK
  <2>3. event_text' \in Texts
    BY <1>4, <1>6
  <2>4. previous_event_number' < event_number'
    BY <1>1, <1>4, <1>6
  <2>5. log' \in Seq(Lines)
    BY <1>7 DEF OpenLog
  <2>6. QED
    BY <1>1, <1>3, <2>1, <2>2, <2>3, <2>4, <2>5 DEF TypeOK, Numbers, Lines
<1>9. Grammar'
  BY <1>1, <1>7, OpenLogIsParsed
<1>10. SkippedEventsAreCounted'
  BY <1>7, CountedIsProperty DEF OpenLog
<1>11. ASSUME d_rss_trigger = 0 PROVE AllReported'
  <2>1. EveryEvent(log) /\ Reported(log, Len(log) + 1) = event_number - 1
    BY <1>1, <1>3, <1>11, PropertyIsEveryEvent DEF IInv, NothingIsMissed
  <2>2. previous_event_number = event_number - 1
    BY <1>3, <2>1 DEF OpenLog
  <2>3. MustWriteNext(d)
    <3>1. sampled \in Nat /\ last_reported_rss \in Nat
      BY <1>3, RssAssumption DEF TypeOK
    <3>2. QED
      BY <1>11, <3>1 DEF MustWriteNext, labs
  <2>4. log' = Append(log, x) /\ previous_event_number' = event_number
    BY <1>4, <1>6, <2>2, <2>3
  <2>5. x.text.event = Reported(log, Len(log) + 1) + 1
    BY <1>4, <1>5, <2>1
  <2>6. EveryEvent(log')
    BY <1>3, <1>5, <2>1, <2>4, <2>5, EveryEventOneMore
  <2>7. Reported(log', Len(log') + 1) = event_number' - 1 /\ log' \in Seq(Lines)
    BY <1>1, <1>4, <1>7, <2>4 DEF OpenLog
  <2>8. QED
    BY <2>6, <2>7, EveryEventIsProperty
<1>12. NothingIsMissed'
  BY <1>1, <1>11, EventKeepsClose DEF NothingIsMissed
<1>13. QED
  BY <1>7, <1>8, <1>9, <1>10, <1>12 DEF IInv

\* Messages and raw lines come between events without disturbing them.
LEMMA MessageKeepsInvariant ==
  ASSUME IInv, WriteMessage \/ WriteToLog
  PROVE  IInv'
<1>1. /\ file = "open" /\ file' = "open"
      /\ UNCHANGED <<d_rss_trigger, event_number, previous_event_number, rss,
                     last_reported_rss>>
  BY DEF WriteMessage, WriteToLog
<1>2. TypeOK /\ Numbers /\ OpenLog(log, previous_event_number) /\ log \in Seq(Lines)
  BY <1>1 DEF IInv, OpenLog
<1>3. \E x \in Lines :
        /\ log' = Append(log, x) /\ x.tag \in {"MSG", "raw"}
        /\ x.tag = "MSG" => x.text.dEvent = x.text.event - previous_event_number
  <2>1. CASE WriteMessage
    <3>1. Line("MSG", TimeText) \in Lines
      BY <1>2, TextsAreTyped, LinesAreTyped DEF LineTags
    <3>2. QED
      BY <2>1, <3>1 DEF WriteMessage, Line, TimeText, Text
  <2>2. CASE WriteToLog
    <3>1. Mark("raw") \in Lines /\ Mark("raw").tag = "raw"
      BY DEF Mark, Line, Lines, LineTags, Text, Texts
    <3>2. QED
      BY <2>2, <3>1 DEF WriteToLog
  <2>3. QED
    BY <2>1, <2>2
<1>4. PICK x \in Lines :
        /\ log' = Append(log, x) /\ x.tag \in {"MSG", "raw"}
        /\ x.tag = "MSG" => x.text.dEvent = x.text.event - previous_event_number
  BY <1>3
<1>5. OpenLog(log', previous_event_number')
  BY <1>1, <1>2, <1>4, OpenLogOneMore
<1>6. TypeOK' /\ Numbers'
  <2>1. event_text' \in Texts
    BY <1>2, TextsAreTyped DEF WriteMessage, WriteToLog, TypeOK
  <2>2. log' \in Seq(Lines)
    BY <1>5 DEF OpenLog
  <2>3. QED
    BY <1>1, <1>2, <2>1, <2>2 DEF TypeOK, Numbers, Lines
<1>7. Grammar' /\ SkippedEventsAreCounted'
  BY <1>1, <1>5, OpenLogIsParsed, CountedIsProperty DEF OpenLog
<1>8. ASSUME d_rss_trigger = 0 PROVE AllReported'
  <2>1. EveryEvent(log) /\ Reported(log, Len(log) + 1) = event_number - 1
    BY <1>1, <1>2, <1>8, PropertyIsEveryEvent DEF IInv, NothingIsMissed
  <2>2. EveryEvent(log')
    BY <1>2, <1>4, <2>1, EveryEventOneMore
  <2>3. Reported(log', Len(log') + 1) = event_number' - 1 /\ log' \in Seq(Lines)
    BY <1>1, <1>2, <1>5, <2>1 DEF OpenLog
  <2>4. QED
    BY <2>2, <2>3, EveryEventIsProperty
<1>9. NothingIsMissed'
  BY <1>1, <1>8 DEF IInv, NothingIsMissed
<1>10. QED
  BY <1>5, <1>6, <1>7, <1>9 DEF IInv

\* Two lines appended at once are appended one after the other.
LEMMA TwoMoreLines ==
  ASSUME NEW l \in Seq(Lines), NEW x \in Lines, NEW y \in Lines
  PROVE  l \o <<x, y>> = Append(Append(l, x), y)
<1>1. Append(l, x) \in Seq(Lines) /\ <<x>> \in Seq(Lines) /\ <<y>> \in Seq(Lines)
  BY AppendProperties
<1>2. Append(l, x) = l \o <<x>> /\ Append(Append(l, x), y) = Append(l, x) \o <<y>>
  BY <1>1, AppendIsConcat
<1>3. (l \o <<x>>) \o <<y>> = l \o (<<x>> \o <<y>>)
  BY <1>1, ConcatAssociative
<1>4. <<x>> \o <<y>> = Append(<<x>>, y)
  BY <1>1, AppendIsConcat
<1>5. Append(<<x>>, y) = <<x, y>>
  <2> DEFINE one == <<x>>
             two == <<x, y>>
  <2>1. one \in Seq(Lines) /\ two \in Seq(Lines) /\ Len(one) = 1 /\ Len(two) = 2
    OBVIOUS
  <2>2. one[1] = x /\ two[1] = x /\ two[2] = y
    OBVIOUS
  <2> HIDE DEF one, two
  <2>3. PICK m : m = Append(one, y)
    OBVIOUS
  <2>4. /\ m \in Seq(Lines) /\ Len(m) = Len(one) + 1 /\ m[Len(one) + 1] = y
        /\ \A i \in 1 .. Len(one) : m[i] = one[i]
    BY <2>1, <2>3, OneMoreLine
  <2>5. Len(m) = 2 /\ m[1] = x /\ m[2] = y
    BY <2>1, <2>2, <2>4
  <2>6. \A i \in 1 .. Len(m) : m[i] = two[i]
    BY <2>2, <2>5
  <2>7. m \in Seq(Lines) /\ two \in Seq(Lines) /\ Len(m) = Len(two)
    BY <2>1, <2>4, <2>5
  <2>8. m = two
    BY <2>6, <2>7, SeqEqual
  <2>9. QED
    BY <2>3, <2>8 DEF one, two
<1>6. QED
  BY <1>2, <1>3, <1>4, <1>5

\* LAST and EOF end the log.
LEMMA CloseKeepsInvariant ==
  ASSUME IInv, CloseFile
  PROVE  IInv'
<1>1. /\ file = "open" /\ file' = "closed"
      /\ UNCHANGED <<d_rss_trigger, event_number, previous_event_number, rss,
                     last_reported_rss>>
  BY DEF CloseFile
<1>2. PICK r \in Rss :
        /\ event_text' = FrameText(r)
        /\ log' = log \o <<Line("LAST", FrameText(r)), Mark("EOF")>>
  BY DEF CloseFile
<1>3. /\ TypeOK /\ Numbers /\ OpenLog(log, previous_event_number)
      /\ log \in Seq(Lines) /\ Len(log) \in Nat
  BY <1>1, LenProperties DEF IInv, OpenLog
<1> DEFINE x == Line("LAST", FrameText(r))
           y == Mark("EOF")
           m == Append(log, x)
<1>4. /\ FrameText(r) \in Texts
      /\ x \in Lines /\ x.tag = "LAST"
      /\ x.text.dEvent = x.text.event - previous_event_number
      /\ y \in Lines /\ y.tag = "EOF"
  <2>1. FrameText(r) \in Texts
    BY <1>3, TextsAreTyped
  <2>2. x \in Lines /\ y \in Lines
    BY <2>1, LinesAreTyped DEF LineTags
  <2>3. QED
    BY <2>1, <2>2 DEF Line, Mark, FrameText, Text
<1>5. log' = log \o <<x, y>>
  BY <1>2
<1> HIDE DEF x, y
<1>6. log' = Append(m, y)
  BY <1>3, <1>4, <1>5, TwoMoreLines
<1>7. m \in Seq(Lines) /\ Len(m) = Len(log) + 1
      /\ m[Len(log) + 1] = x /\ \A i \in 1 .. Len(log) : m[i] = log[i]
  BY <1>3, <1>4, OneMoreLine
<1>8. log' \in Seq(Lines) /\ Len(log') = Len(log) + 2 /\ log'[Len(log) + 2] = y
      /\ log'[Len(log) + 1] = x /\ \A i \in 1 .. Len(log) : log'[i] = log[i]
  <2> HIDE DEF m
  <2>1. /\ log' \in Seq(Lines) /\ Len(log') = Len(m) + 1 /\ log'[Len(m) + 1] = y
        /\ \A i \in 1 .. Len(m) : log'[i] = m[i]
    BY <1>4, <1>6, <1>7, OneMoreLine
  <2>2. QED
    BY <1>3, <1>7, <2>1
<1>9. Reported(m, Len(m) + 1) = previous_event_number
  BY <1>3, <1>4, ReportedAfterOneMore DEF OpenLog
<1>10. Counted(log')
  <2>1. Counted(m)
    BY <1>3, <1>4, CountedOneMore DEF OpenLog
  <2> HIDE DEF m
  <2>2. QED
    BY <1>4, <1>6, <1>7, <2>1, CountedOneMore
<1>11. \E first \in {1, 2} : HeadAt(log', first)
  <2>1. PICK first \in {1, 2} : HeadAt(log, first)
    BY <1>3 DEF OpenLog
  <2>2. HeadAt(m, first)
    BY <1>3, <1>4, <2>1, HeadOneMore
  <2> HIDE DEF m
  <2>3. /\ m \in Seq(Lines) /\ y \in Lines /\ log' = Append(m, y)
        /\ y.tag \notin {"SOF", "HDR", "FRST"}
    BY <1>4, <1>6, <1>7
  <2>4. HeadAt(log', first)
    BY <2>2, <2>3, HeadOneMore
  <2>5. QED
    BY <2>4
<1>12. Grammar'
  <2>1. DOMAIN log' = 1 .. Len(log')
    BY <1>8, LenProperties
  <2>2. ASSUME NEW i \in 1 .. Len(log')
        PROVE  /\ log'[i].tag = "PREV" <=>
                    i < Len(log') /\ log'[i + 1].tag = "NEXT" /\ log'[i + 1].text.dEvent > 1
               /\ log'[i].tag = "LAST" <=> i = Len(log') - 1
               /\ log'[i].tag = "EOF" <=> i = Len(log')
               /\ log'[i].tag = "opening" => i = 1
    <3>1. CASE i = Len(log) + 2
      BY <1>3, <1>4, <1>8, <3>1
    <3>2. CASE i = Len(log) + 1
      BY <1>3, <1>4, <1>8, <3>2
    <3>3. CASE i \in 1 .. Len(log)
      <4>1. log'[i] = log[i] /\ (i < Len(log) => log'[i + 1] = log[i + 1])
        BY <1>3, <1>8, <3>3
      <4>2. i = Len(log) => log'[i + 1].tag # "NEXT"
        BY <1>4, <1>8
      <4>3. i < Len(log') /\ i # Len(log') - 1
        BY <1>3, <1>8, <3>3
      <4>4. /\ log[i].tag \notin {"LAST", "EOF"}
            /\ log[i].tag = "opening" => i = 1
            /\ log[i].tag = "PREV" <=>
                 i < Len(log) /\ log[i + 1].tag = "NEXT" /\ log[i + 1].text.dEvent > 1
        BY <1>3, <3>3 DEF OpenLog, Unfinished
      <4>5. i = Len(log) \/ i < Len(log)
        BY <1>3, <3>3
      <4>6. QED
        BY <4>1, <4>2, <4>3, <4>4, <4>5
    <3>4. QED
      BY <1>3, <1>8, <3>1, <3>2, <3>3
  <2>3. QED
    BY <1>1, <1>11, <2>1, <2>2 DEF Grammar, HeadAt, Tag
<1>13. TypeOK' /\ Numbers'
  BY <1>1, <1>2, <1>3, <1>4, <1>8 DEF TypeOK, Numbers, Lines
<1>14. SkippedEventsAreCounted'
  BY <1>8, <1>10, CountedIsProperty
<1>15. ASSUME d_rss_trigger = 0 PROVE AllReported'
  <2>1. EveryEvent(log) /\ Reported(log, Len(log) + 1) = event_number - 1
    BY <1>1, <1>3, <1>15, PropertyIsEveryEvent DEF IInv, NothingIsMissed
  <2>2. EveryEvent(m)
    BY <1>3, <1>4, <2>1, EveryEventOneMore
  <2>3. previous_event_number = event_number' - 1
    BY <1>1, <1>3, <2>1 DEF OpenLog
  <2> HIDE DEF m
  <2>4. EveryEvent(log')
    BY <1>4, <1>6, <1>7, <2>2, EveryEventOneMore
  <2>5. Reported(log', Len(log') + 1) = event_number' - 1
    BY <1>4, <1>6, <1>7, <1>9, <2>3, ReportedAfterOneMore
  <2>6. QED
    BY <1>8, <2>4, <2>5, EveryEventIsProperty
<1>16. NothingIsMissed'
  BY <1>1, <1>15 DEF IInv, NothingIsMissed
<1>17. QED
  BY <1>1, <1>12, <1>13, <1>14, <1>16 DEF IInv

\* The empty log.
LEMMA InitInvariant == Init => IInv
<1> SUFFICES ASSUME Init PROVE IInv
  OBVIOUS
<1>1. log = <<>> /\ DOMAIN log = {} /\ Len(log) = 0 /\ log \in Seq(Lines)
  BY DEF Init
<1>2. TypeOK /\ Numbers
  BY <1>1, BoundsAssumption DEF Init, TypeOK, Numbers, Lines, Text, Texts
<1>3. Grammar /\ SkippedEventsAreCounted /\ AllReported
  BY <1>1 DEF Init, Grammar, SkippedEventsAreCounted, AllReported
<1>4. QED
  BY <1>2, <1>3 DEF Init, IInv, NothingIsMissed

-----------------------------------------------------------------------------
(* The theorems.                                                           *)

\* The invariant.
THEOREM Invariance == Spec => []IInv
<1>1. IInv /\ UNCHANGED vars => IInv'
  <2> SUFFICES ASSUME IInv, UNCHANGED vars PROVE IInv'
    OBVIOUS
  <2>1. \A i : ReportedBefore(i)' = ReportedBefore(i)
    <3>1. \A i : ReportedBefore(i)' = Reported(log', i) /\ ReportedBefore(i) = Reported(log, i)
      BY DEF ReportedBefore, Reported, NextLines, LastOf, Tag, Number
    <3>2. QED
      BY <3>1 DEF vars
  <2>2. TypeOK' /\ Numbers'
    BY DEF IInv, vars, TypeOK, Numbers
  <2>3. Grammar'
    BY DEF IInv, vars, Grammar, Tag
  <2>4. SkippedEventsAreCounted' /\ NothingIsMissed'
    BY <2>1 DEF IInv, vars, SkippedEventsAreCounted, NothingIsMissed, AllReported, Tag, Number
  <2>5. QED
    BY <2>2, <2>3, <2>4 DEF IInv, vars
<1>2. IInv /\ [Next]_vars => IInv'
  BY <1>1, OpenKeepsInvariant, EventKeepsInvariant, MessageKeepsInvariant,
     CloseKeepsInvariant DEF Next
<1>3. QED
  BY <1>2, InitInvariant, PTL DEF Spec

\* The types; in particular no difference of event numbers is negative.
THEOREM TypeCorrect == Spec => []TypeOK
<1>1. IInv => TypeOK
  BY DEF IInv
<1>2. QED
  BY <1>1, Invariance, PTL

\* A reader can parse every log: FRST, PREV, NEXT, LAST and EOF come where they may.
THEOREM ParsedLogs == Spec => []Grammar
<1>1. IInv => Grammar
  BY DEF IInv
<1>2. QED
  BY <1>1, Invariance, PTL

\* The column dEvent tells how many events were skipped, whatever was written between.
THEOREM CountedLogs == Spec => []SkippedEventsAreCounted
<1>1. IInv => SkippedEventsAreCounted
  BY DEF IInv
<1>2. QED
  BY <1>1, Invariance, PTL

\* With trigger 0 every event is in the log; with another, every change that large.
THEOREM CompleteLogs == Spec => []NothingIsMissed
<1>1. IInv => NothingIsMissed
  BY DEF IInv
<1>2. QED
  BY <1>1, Invariance, PTL

=============================================================================
