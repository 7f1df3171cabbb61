------------------------ MODULE ProcessLogging_proofs ------------------------
(***************************************************************************)
(* However the logging thread, join() and other threads interleave: each   *)
(* message is in one place, and join() returns only when everything that   *)
(* was put before it was called is in the log.                             *)
(***************************************************************************)
EXTENDS ProcessLogging, SequenceTheorems, FiniteSetTheorems, TLAPS

-----------------------------------------------------------------------------
(* The members of a sequence of different elements.                        *)

\* The empty sequence has none.
LEMMA EmptyFacts == Members(<<>>) = {} /\ Distinct(<<>>)
  BY DEF Members, Distinct

\* They are elements of what the sequence is made of.
LEMMA MembersFacts ==
  ASSUME NEW S, NEW s \in Seq(S)
  PROVE  Members(s) \subseteq S
  BY DEF Members

\* Appending a new element adds it and leaves the elements different.
LEMMA AppendFacts ==
  ASSUME NEW S, NEW s \in Seq(S), NEW x \in S
  PROVE  /\ Append(s, x) \in Seq(S)
         /\ Members(Append(s, x)) = Members(s) \cup {x}
         /\ Distinct(s) /\ x \notin Members(s) => Distinct(Append(s, x))
<1>1. /\ Append(s, x) \in Seq(S)
      /\ Len(s) \in Nat
      /\ Len(Append(s, x)) = Len(s) + 1
      /\ \A i \in 1 .. Len(s) : Append(s, x)[i] = s[i]
      /\ Append(s, x)[Len(s) + 1] = x
  OBVIOUS
<1>2. Members(Append(s, x)) = Members(s) \cup {x}
  BY <1>1 DEF Members
<1>3. ASSUME Distinct(s), x \notin Members(s)
      PROVE  Distinct(Append(s, x))
  BY <1>1, <1>3 DEF Distinct, Members
<1>4. QED
  BY <1>1, <1>2, <1>3

\* Taking the first element takes it away, from everywhere.
LEMMA TailFacts ==
  ASSUME NEW S, NEW s \in Seq(S), s # <<>>
  PROVE  /\ Head(s) \in S
         /\ Tail(s) \in Seq(S)
         /\ Members(s) = {Head(s)} \cup Members(Tail(s))
         /\ Distinct(s) => Distinct(Tail(s)) /\ Head(s) \notin Members(Tail(s))
<1>1. /\ Len(s) \in Nat \ {0}
      /\ Head(s) = s[1]
      /\ Head(s) \in S
      /\ Tail(s) \in Seq(S)
      /\ Len(Tail(s)) = Len(s) - 1
      /\ \A i \in 1 .. Len(s) - 1 : Tail(s)[i] = s[i + 1]
  OBVIOUS
<1>2. Members(s) = {Head(s)} \cup Members(Tail(s))
  <2>1. ASSUME NEW i \in 1 .. Len(s)
        PROVE  s[i] \in {Head(s)} \cup Members(Tail(s))
    <3>1. CASE i = 1
      BY <1>1, <3>1
    <3>2. CASE i # 1
      <4>1. i - 1 \in 1 .. Len(Tail(s)) /\ Tail(s)[i - 1] = s[i]
        BY <1>1, <3>2
      <4>2. QED
        BY <4>1 DEF Members
    <3>3. QED
      BY <3>1, <3>2
  <2>2. {Head(s)} \cup Members(Tail(s)) \subseteq Members(s)
    BY <1>1 DEF Members
  <2>3. QED
    BY <2>1, <2>2 DEF Members
<1>3. ASSUME Distinct(s)
      PROVE  Distinct(Tail(s)) /\ Head(s) \notin Members(Tail(s))
  <2>1. Distinct(Tail(s))
    BY <1>1, <1>3 DEF Distinct
  <2>2. Head(s) \notin Members(Tail(s))
    BY <1>1, <1>3 DEF Distinct, Members
  <2>3. QED
    BY <2>1, <2>2
<1>4. QED
  BY <1>1, <1>2, <1>3

-----------------------------------------------------------------------------
(* The inductive invariant.                                                *)

\* Nothing has been put, and both threads are at their beginning.
THEOREM InitInvariant == Init => IInv
<1> SUFFICES ASSUME Init PROVE IInv
  OBVIOUS
<1>1. Members(<<>>) = {} /\ Distinct(<<>>)
  BY EmptyFacts
<1>2. Hands = {} /\ hand[Logger] = None /\ hand[Joiner] = None
  BY DEF Init, Hands, Writers
<1>3. Labels = <<>>
  <2>1. Len(log) = 0
    BY DEF Init
  <2>2. 1 .. 0 = {}
    OBVIOUS
  <2>3. Labels \in Seq({}) /\ Len(Labels) = 0
    BY <2>1, <2>2 DEF Labels
  <2>4. QED
    BY <2>3
<1>4. pc[Logger] = "test run" /\ pc[Joiner] = "body"
  BY DEF Init, Writers, Logger, Joiner
<1>5. TypeOK
  <2>1. pc \in [Writers -> Places]
    BY DEF Init, Places, Writers, Logger, Joiner
  <2>2. \A t \in Writers : hand[t] # None <=> pc[t] = "write message"
    BY <1>2, <1>4 DEF Writers
  <2>3. /\ log \in Seq([by : Writers, label : Messages])
        /\ queue \in Seq(Messages) /\ put \in Seq(Messages)
    BY EmptySeq DEF Init
  <2>5. /\ hand \in [Writers -> Messages \cup {None}]
        /\ pledged \in SUBSET Messages
    BY DEF Init
  <2>4. running = TRUE /\ gone = FALSE
    BY DEF Init
  <2>6. QED
    BY <2>1, <2>2, <2>3, <2>4, <2>5, Zenon DEF TypeOK
<1>6. OnePlace /\ SomePlace
  BY <1>1, <1>2, <1>3 DEF Init, OnePlace, SomePlace
<1>7. StoppedInOrder /\ PledgedTaken
  BY <1>1, <1>4 DEF Init, StoppedInOrder, PledgedTaken, Writers
<1>8. QED
  BY <1>5, <1>6, <1>7 DEF IInv

\* The messages in the hands of the two threads.
LEMMA HandsFacts == Hands = {hand[Logger], hand[Joiner]} \ {None}
  BY DEF Hands, Writers

\* The labels of the log are messages.
LEMMA LabelsFacts ==
  ASSUME TypeOK
  PROVE  /\ Labels \in Seq(Messages)
         /\ \A m : Logged(m) <=> m \in Members(Labels)
<1>1. log \in Seq([by : Writers, label : Messages])
  BY DEF TypeOK
<1>2. Labels \in Seq(Messages) /\ Len(Labels) = Len(log)
  <2> DEFINE Lines == [by : Writers, label : Messages]
  <2>0. \A line \in Lines : line.label \in Messages
    OBVIOUS
  <2>1. Len(log) \in Nat /\ \A i \in 1 .. Len(log) : log[i].label \in Messages
    <3>1. log \in Seq(Lines)
      BY <1>1
    <3> HIDE DEF Lines
    <3>2. QED
      BY <2>0, <3>1
  <2>2. Labels \in [1 .. Len(log) -> Messages]
    BY <2>1 DEF Labels
  <2>3. QED
    BY <2>1, <2>2
<1>3. QED
  BY <1>2 DEF Labels, Logged, Members

\* A step that leaves the messages where they are keeps what is said of them.
LEMMA PlacesKept ==
  ASSUME UNCHANGED <<queue, hand, log, put>>, gone => gone',
         OnePlace, SomePlace
  PROVE  OnePlace' /\ SomePlace'
<1>1. Labels' = Labels /\ Hands' = Hands
  BY DEF Labels, Hands
<1>2. QED
  BY <1>1 DEF OnePlace, SomePlace

\* A step of the threads that moves no message, only a thread, to a place where
\* it does not hold one.
LEMMA MoveKeepsTypes ==
  ASSUME TypeOK, NEW t \in Writers, NEW place \in Places \ {"write message"},
         pc[t] # "write message", GoTo(t, place), running' \in BOOLEAN,
         UNCHANGED <<queue, hand, log, put, pledged, gone>>
  PROVE  TypeOK'
<1>1. pc' \in [Writers -> Places] /\ pc'[t] = place
      /\ \A u \in Writers \ {t} : pc'[u] = pc[u]
  BY DEF TypeOK, GoTo
<1>2. \A u \in Writers : (hand[u] # None <=> pc[u] = "write message")'
  BY <1>1 DEF TypeOK
<1>3. QED
  BY <1>1, <1>2 DEF TypeOK

\* Returning from _write_to_log, with the thread still running or told to stop.
LEMMA ReturnsFacts ==
  ASSUME NEW t \in Writers
  PROVE  /\ Returns(t) => \E place \in {"loop", "stop"} :
                            /\ GoTo(t, place)
                            /\ t = Logger => place = "loop"
                            /\ t = Joiner => place = "stop"
  BY DEF Returns, Writers, Logger, Joiner

-----------------------------------------------------------------------------
(* The steps that move no message.                                         *)

\* A message is put: it is new, so it is in no other place, and not pledged.
LEMMA PutStep ==
  ASSUME IInv, NEW m \in Messages, Put(m)
  PROVE  IInv'
<1>1. /\ queue \in Seq(Messages) /\ put \in Seq(Messages)
      /\ queue' = Append(queue, m) /\ put' = Append(put, m)
      /\ m \notin Members(put)
  BY DEF IInv, TypeOK, Put
<1>2. /\ queue' \in Seq(Messages) /\ Members(queue') = Members(queue) \cup {m}
      /\ Distinct(queue) /\ m \notin Members(queue) => Distinct(queue')
  BY <1>1, AppendFacts
<1>3. put' \in Seq(Messages) /\ Members(put') = Members(put) \cup {m}
  BY <1>1, AppendFacts
<1>4. Labels' = Labels /\ Hands' = Hands
  BY DEF Put, Labels, Hands
<1>5. m \notin Members(queue) \cup Hands \cup Members(Labels)
  BY <1>1 DEF IInv, SomePlace
<1>6. TypeOK'
  BY <1>2, <1>3 DEF IInv, TypeOK, Put
<1>7. OnePlace'
  BY <1>2, <1>4, <1>5 DEF IInv, OnePlace, Put
<1>8. SomePlace'
  BY <1>2, <1>3, <1>4 DEF IInv, SomePlace, Put
<1>9. StoppedInOrder'
  BY DEF IInv, StoppedInOrder, Put
<1>10. PledgedTaken'
  BY <1>1, <1>2, <1>3 DEF IInv, PledgedTaken, Put
<1>11. QED
  BY <1>6, <1>7, <1>8, <1>9, <1>10 DEF IInv

\* join() is called, and what was put so far is pledged.
LEMMA CallJoinStep ==
  ASSUME IInv, CallJoin
  PROVE  IInv'
<1>1. pc[Joiner] = "body" /\ GoTo(Joiner, "test run") /\ pledged' = Members(put)
      /\ UNCHANGED <<running, queue, hand, log, put, gone>>
  BY DEF CallJoin
<1>2. TypeOK
  BY DEF IInv
<1>3. pc' \in [Writers -> Places] /\ pc'[Joiner] = "test run" /\ pc'[Logger] = pc[Logger]
  BY <1>1, <1>2 DEF TypeOK, GoTo, Places, Writers, Logger, Joiner
<1>4. TypeOK'
  <2>1. Members(put) \subseteq Messages
    BY <1>2, MembersFacts DEF TypeOK
  <2>2. \A u \in Writers : (hand[u] # None <=> pc[u] = "write message")'
    BY <1>1, <1>2, <1>3 DEF TypeOK, Writers
  <2>3. QED
    BY <1>1, <1>2, <1>3, <2>1, <2>2 DEF TypeOK
<1>5. OnePlace' /\ SomePlace'
  BY <1>1, PlacesKept DEF IInv
<1>6. StoppedInOrder'
  BY <1>1, <1>3 DEF IInv, StoppedInOrder, Writers
<1>7. PledgedTaken'
  BY <1>1, <1>3 DEF PledgedTaken
<1>8. QED
  BY <1>4, <1>5, <1>6, <1>7 DEF IInv

\* The process ends: from now on nothing is promised.
LEMMA ProcessEndsStep ==
  ASSUME IInv, ProcessEnds
  PROVE  IInv'
<1>1. gone' = TRUE /\ UNCHANGED <<pc, running, queue, hand, log, put, pledged>>
  BY DEF ProcessEnds
<1>2. TypeOK' /\ StoppedInOrder' /\ PledgedTaken'
  BY <1>1 DEF IInv, TypeOK, StoppedInOrder, PledgedTaken
<1>3. OnePlace' /\ SomePlace'
  BY <1>1, PlacesKept DEF IInv
<1>4. QED
  BY <1>2, <1>3 DEF IInv

\* A thread goes on to a place where it holds no message.  It may get past the
\* last drain, or to the end, only if the conditions given here hold.
LEMMA MoveStep ==
  ASSUME IInv, NEW t \in Writers, NEW place \in Places \ {"write message"},
         pc[t] # "write message", GoTo(t, place),
         UNCHANGED <<queue, hand, log, put, pledged, gone>>,
         running' \in BOOLEAN,
         running' # running => t = Joiner /\ place = "wait",
         place = "raised" => gone,
         t = Joiner =>
           /\ pc[t] \notin {"wait", "ended"} \/ place \in {"wait", "ended"}
           /\ place = "ended" => pc[Logger] \in {"ended", "raised"}
           /\ place \in {"write line", "stop", "wait", "ended"} =>
                \/ queue = <<>>
                \/ pc[t] \in {"write line", "stop", "wait", "ended"},
         t = Logger => pc[t] \notin {"ended", "raised"}
  PROVE  IInv'
<1>1. /\ pc' \in [Writers -> Places] /\ pc'[t] = place
      /\ \A u \in Writers \ {t} : pc'[u] = pc[u]
  BY DEF IInv, TypeOK, GoTo
<1>2. TypeOK'
  BY MoveKeepsTypes DEF IInv
<1>3. OnePlace' /\ SomePlace'
  BY PlacesKept DEF IInv
<1>4. Logger # Joiner /\ Logger \in Writers /\ Joiner \in Writers
  BY DEF Logger, Joiner, Writers
<1>5. StoppedInOrder'
  <2>1. pc'[Joiner] \notin {"wait", "ended"} => running'
    BY <1>1, <1>4 DEF IInv, StoppedInOrder
  <2>2. \A u \in Writers : pc'[u] = "raised" => gone'
    BY <1>1 DEF IInv, StoppedInOrder
  <2>3. pc'[Joiner] = "ended" => pc'[Logger] \in {"ended", "raised"}
    <3>1. CASE t = Joiner
      BY <1>1, <1>4, <3>1
    <3>2. CASE t = Logger
      BY <1>1, <1>4, <3>2 DEF IInv, StoppedInOrder
    <3>3. QED
      BY <3>1, <3>2 DEF Writers
  <2>4. QED
    BY <2>1, <2>2, <2>3 DEF StoppedInOrder
<1>6. PledgedTaken'
  <2>1. queue = <<>> => Members(queue) = {}
    BY EmptyFacts
  <2>2. pc'[Joiner] \in {"write line", "stop", "wait", "ended"}
          => pledged \cap Members(queue) = {}
    BY <1>1, <1>4, <2>1 DEF IInv, PledgedTaken, Writers
  <2>3. QED
    BY <2>2 DEF IInv, PledgedTaken
<1>7. QED
  BY <1>2, <1>3, <1>5, <1>6 DEF IInv

-----------------------------------------------------------------------------
(* The steps that move a message.                                          *)

\* The first message of the queue goes to the hand of the thread, which held
\* none.
LEMMA GetStep ==
  ASSUME IInv, NEW t \in Writers, Get(t)
  PROVE  IInv'
<1>1. /\ pc[t] = "get" /\ queue # <<>>
      /\ hand' = [hand EXCEPT ![t] = Head(queue)]
      /\ queue' = Tail(queue)
      /\ GoTo(t, "write message")
      /\ UNCHANGED <<running, log, put, pledged, gone>>
  BY DEF Get
<1>2. queue \in Seq(Messages) /\ hand \in [Writers -> Messages \cup {None}]
      /\ pc \in [Writers -> Places]
  BY DEF IInv, TypeOK
<1>3. /\ Head(queue) \in Messages
      /\ queue' \in Seq(Messages)
      /\ Members(queue) = {Head(queue)} \cup Members(queue')
      /\ Distinct(queue) => Distinct(queue') /\ Head(queue) \notin Members(queue')
  BY <1>1, <1>2, TailFacts
<1>4. /\ pc' \in [Writers -> Places] /\ pc'[t] = "write message"
      /\ \A u \in Writers \ {t} : pc'[u] = pc[u]
  BY <1>1, <1>2 DEF GoTo, Places
<1>5. /\ hand' \in [Writers -> Messages \cup {None}] /\ hand'[t] = Head(queue)
      /\ \A u \in Writers \ {t} : hand'[u] = hand[u]
  BY <1>1, <1>2, <1>3
<1>6. hand[t] = None /\ Head(queue) # None
  BY <1>1, <1>3, NoneAssumption DEF IInv, TypeOK
<1>7. Logger # Joiner
  BY DEF Logger, Joiner
<1>8. Hands' = Hands \cup {Head(queue)} /\ Labels' = Labels
  <2>1. Hands' = {hand'[Logger], hand'[Joiner]} \ {None}
    BY DEF Hands, Writers
  <2>2. QED
    BY <1>1, <1>5, <1>6, <1>7, <2>1, HandsFacts DEF Writers, Labels
<1>9. TypeOK'
  <2>1. \A u \in Writers : (hand[u] # None <=> pc[u] = "write message")'
    BY <1>4, <1>5, <1>6 DEF IInv, TypeOK
  <2>2. QED
    BY <1>1, <1>3, <1>4, <1>5, <2>1 DEF IInv, TypeOK
<1>10. Head(queue) \notin Hands
  BY <1>3 DEF IInv, OnePlace
<1>11. OnePlace'
  <2>1. (hand[Logger] = hand[Joiner] => hand[Logger] = None)'
    BY <1>5, <1>6, <1>7, <1>10, HandsFacts DEF Writers
  <2>2. QED
    BY <1>1, <1>3, <1>8, <2>1 DEF IInv, OnePlace
<1>12. SomePlace'
  BY <1>1, <1>3, <1>8 DEF IInv, SomePlace
<1>13. StoppedInOrder'
  BY <1>1, <1>4 DEF IInv, StoppedInOrder, Writers
<1>14. PledgedTaken'
  BY <1>1, <1>3, <1>4 DEF IInv, PledgedTaken, Writers
<1>15. QED
  BY <1>9, <1>11, <1>12, <1>13, <1>14 DEF IInv

\* The thread's hand is empty after it has written, or raised.
LEMMA EmptiedHand ==
  ASSUME IInv, NEW t \in Writers, WriteMessage(t)
  PROVE  /\ hand' \in [Writers -> Messages \cup {None}] /\ hand'[t] = None
         /\ \A u \in Writers \ {t} : hand'[u] = hand[u]
         /\ hand[t] \in Messages
         /\ Hands = Hands' \cup {hand[t]}
         /\ hand[t] \notin Hands'
         /\ (hand[Logger] = hand[Joiner] => hand[Logger] = None)'
<1>1. pc[t] = "write message" /\ hand' = [hand EXCEPT ![t] = None]
      /\ hand \in [Writers -> Messages \cup {None}]
  BY DEF IInv, TypeOK, WriteMessage
<1>2. /\ hand' \in [Writers -> Messages \cup {None}] /\ hand'[t] = None
      /\ \A u \in Writers \ {t} : hand'[u] = hand[u]
  BY <1>1
<1>3. hand[t] \in Messages /\ hand[t] # None
  BY <1>1 DEF IInv, TypeOK
<1>4. Logger # Joiner
  BY DEF Logger, Joiner
<1>5. Hands' = {hand'[Logger], hand'[Joiner]} \ {None}
  BY DEF Hands, Writers
<1>6. Hands = Hands' \cup {hand[t]}
  BY <1>2, <1>3, <1>4, <1>5, HandsFacts DEF Writers
<1>7. hand[t] \notin Hands'
  BY <1>2, <1>3, <1>4, <1>5 DEF IInv, OnePlace, Writers
<1>8. (hand[Logger] = hand[Joiner] => hand[Logger] = None)'
  BY <1>2 DEF Writers
<1>9. QED
  BY <1>2, <1>3, <1>6, <1>7, <1>8

\* The message goes to the log, or is lost with the process.
LEMMA WriteMessageStep ==
  ASSUME IInv, NEW t \in Writers, WriteMessage(t)
  PROVE  IInv'
<1> DEFINE place == IF gone THEN "raised" ELSE "drain"
<1>1. /\ pc[t] = "write message"
      /\ GoTo(t, place)
      /\ UNCHANGED <<running, queue, put, pledged, gone>>
      /\ IF gone THEN log' = log ELSE log' = Append(log, [by |-> t, label |-> hand[t]])
  BY DEF WriteMessage
<1>2. pc \in [Writers -> Places] /\ log \in Seq([by : Writers, label : Messages])
      /\ TypeOK
  BY DEF IInv, TypeOK
<1>3. /\ pc' \in [Writers -> Places] /\ pc'[t] = place
      /\ \A u \in Writers \ {t} : pc'[u] = pc[u]
  BY <1>1, <1>2 DEF GoTo, Places
<1>4. /\ hand' \in [Writers -> Messages \cup {None}] /\ hand'[t] = None
      /\ \A u \in Writers \ {t} : hand'[u] = hand[u]
      /\ hand[t] \in Messages
      /\ Hands = Hands' \cup {hand[t]}
      /\ hand[t] \notin Hands'
      /\ (hand[Logger] = hand[Joiner] => hand[Logger] = None)'
  BY EmptiedHand
<1>5. Labels' = IF gone THEN Labels ELSE Append(Labels, hand[t])
  <2>1. CASE gone
    BY <1>1, <2>1 DEF Labels
  <2>2. CASE ~ gone
    <3> DEFINE Lines == [by : Writers, label : Messages]
               line == [by |-> t, label |-> hand[t]]
    <3>1. log \in Seq(Lines) /\ line \in Lines /\ line.label = hand[t]
      BY <1>2, <1>4
    <3>2. log' = Append(log, line)
      BY <1>1, <2>2
    <3>3. /\ Len(log) \in Nat
          /\ Len(log') = Len(log) + 1
          /\ \A i \in 1 .. Len(log) : log'[i] = log[i]
          /\ log'[Len(log) + 1] = line
      <4> HIDE DEF Lines, line
      <4> QED BY <3>1, <3>2
    <3>4. Labels \in Seq(Messages) /\ Len(Labels) = Len(log)
      BY <1>2, LabelsFacts, <3>3 DEF Labels
    <3>5. Labels' = [i \in 1 .. Len(log) + 1 |-> log'[i].label]
      BY <3>3 DEF Labels
    <3>6. Append(Labels, hand[t]) =
            [i \in 1 .. Len(log) + 1 |-> IF i = Len(log) + 1 THEN hand[t] ELSE Labels[i]]
      BY <1>4, <3>3, <3>4
    <3>7. ASSUME NEW i \in 1 .. Len(log) + 1
          PROVE  log'[i].label = IF i = Len(log) + 1 THEN hand[t] ELSE Labels[i]
      BY <3>1, <3>3 DEF Labels
    <3>8. QED
      BY <2>2, <3>5, <3>6, <3>7
  <2>3. QED
    BY <2>1, <2>2
<1>6. Labels \in Seq(Messages)
  BY <1>2, LabelsFacts
<1>7. /\ Members(Labels') = IF gone THEN Members(Labels) ELSE Members(Labels) \cup {hand[t]}
      /\ Distinct(Labels')
  <2>1. hand[t] \notin Members(Labels) /\ Distinct(Labels)
    BY <1>4 DEF IInv, OnePlace
  <2>2. CASE gone
    BY <1>5, <2>1, <2>2
  <2>3. CASE ~ gone
    <3>1. /\ Members(Append(Labels, hand[t])) = Members(Labels) \cup {hand[t]}
          /\ Distinct(Append(Labels, hand[t]))
      BY <1>4, <1>6, <2>1, AppendFacts
    <3>2. QED
      BY <1>5, <2>3, <3>1
  <2>4. QED
    BY <2>2, <2>3
<1>8. TypeOK'
  <2>1. log' \in Seq([by : Writers, label : Messages])
    <3> DEFINE Lines == [by : Writers, label : Messages]
               line == [by |-> t, label |-> hand[t]]
    <3>1. log \in Seq(Lines) /\ line \in Lines
      BY <1>2, <1>4
    <3>2. log' = log \/ log' = Append(log, line)
      BY <1>1
    <3>3. log' \in Seq(Lines)
      <4> HIDE DEF Lines, line
      <4> QED BY <3>1, <3>2
    <3>4. QED
      BY <3>3
  <2>2. \A u \in Writers : (hand[u] # None <=> pc[u] = "write message")'
    BY <1>3, <1>4 DEF IInv, TypeOK
  <2>3. QED
    BY <1>1, <1>3, <1>4, <2>1, <2>2 DEF IInv, TypeOK
<1>9. OnePlace'
  BY <1>1, <1>4, <1>7 DEF IInv, OnePlace
<1>10. SomePlace'
  BY <1>1, <1>4, <1>7 DEF IInv, SomePlace
<1>11. StoppedInOrder'
  BY <1>1, <1>3 DEF IInv, StoppedInOrder, Writers
<1>12. PledgedTaken'
  BY <1>1, <1>3 DEF IInv, PledgedTaken, Writers
<1>13. QED
  BY <1>8, <1>9, <1>10, <1>11, <1>12 DEF IInv

-----------------------------------------------------------------------------
(* Every step.                                                             *)

\* The tests, and the lines without a message, of one thread.
LEMMA QuietWriteStep ==
  ASSUME IInv, NEW t \in Writers,
         TestRun(t) \/ TestEmpty(t) \/ WriteLine(t) \/ Drain(t)
  PROVE  IInv'
<1>1. /\ "loop" \in Places \ {"write message"} /\ "stop" \in Places \ {"write message"}
      /\ "test empty" \in Places \ {"write message"}
      /\ "write line" \in Places \ {"write message"}
      /\ "drain" \in Places \ {"write message"} /\ "get" \in Places \ {"write message"}
      /\ "raised" \in Places \ {"write message"}
  BY DEF Places
<1>2. Logger # Joiner /\ running \in BOOLEAN
  BY DEF IInv, TypeOK, Logger, Joiner
<1>3. pc[Joiner] = "test run" => running
  BY DEF IInv, StoppedInOrder
<1>4. ASSUME Returns(t), UNCHANGED <<running, queue, hand, log, put, pledged, gone>>,
             pc[t] \in {"test run", "write line", "drain"},
             t = Joiner => queue = <<>> \/ pc[t] = "write line"
      PROVE  IInv'
  <2>1. PICK place \in {"loop", "stop"} : /\ GoTo(t, place)
                                          /\ t = Logger => place = "loop"
                                          /\ t = Joiner => place = "stop"
    BY <1>4, ReturnsFacts
  <2>2. QED
    BY <1>1, <1>2, <1>4, <2>1, MoveStep
<1>5. CASE TestRun(t)
  <2>1. pc[t] = "test run"
        /\ UNCHANGED <<running, queue, hand, log, put, pledged, gone>>
    BY <1>5 DEF TestRun
  <2>2. CASE running
    <3>1. GoTo(t, "test empty")
      BY <1>5, <2>2 DEF TestRun
    <3>2. QED
      BY <1>1, <1>2, <2>1, <3>1, MoveStep
  <2>3. CASE ~ running
    <3>1. Returns(t) /\ t # Joiner
      BY <1>3, <1>5, <2>1, <2>3 DEF TestRun
    <3>2. QED
      BY <1>4, <2>1, <3>1
  <2>4. QED
    BY <2>2, <2>3
<1>6. CASE TestEmpty(t)
  <2>1. /\ pc[t] = "test empty"
        /\ UNCHANGED <<running, queue, hand, log, put, pledged, gone>>
        /\ \E place \in {"write line", "drain"} :
             GoTo(t, place) /\ (place = "write line" => queue = <<>>)
    BY <1>6 DEF TestEmpty
  <2>2. QED
    BY <1>1, <1>2, <2>1, MoveStep
<1>7. CASE WriteLine(t)
  <2>1. pc[t] = "write line"
        /\ UNCHANGED <<running, queue, hand, log, put, pledged, gone>>
    BY <1>7 DEF WriteLine
  <2>2. CASE gone
    <3>1. GoTo(t, "raised")
      BY <1>7, <2>2 DEF WriteLine
    <3>2. QED
      BY <1>1, <1>2, <2>1, <2>2, <3>1, MoveStep
  <2>3. CASE ~ gone
    BY <1>4, <1>7, <2>1, <2>3 DEF WriteLine
  <2>4. QED
    BY <2>2, <2>3
<1>8. CASE Drain(t)
  <2>1. pc[t] = "drain"
        /\ UNCHANGED <<running, queue, hand, log, put, pledged, gone>>
    BY <1>8 DEF Drain
  <2>2. CASE queue = <<>>
    BY <1>4, <1>8, <2>1, <2>2 DEF Drain
  <2>3. CASE queue # <<>>
    <3>1. GoTo(t, "get")
      BY <1>8, <2>3 DEF Drain
    <3>2. QED
      BY <1>1, <1>2, <2>1, <3>1, MoveStep
  <2>4. QED
    BY <2>2, <2>3
<1>9. QED
  BY <1>5, <1>6, <1>7, <1>8

\* The rest of run() and of join().
LEMMA RestStep ==
  ASSUME IInv, Loop \/ Sleep \/ Stop \/ Joined
  PROVE  IInv'
<1>1. /\ "sleep" \in Places \ {"write message"} /\ "ended" \in Places \ {"write message"}
      /\ "test run" \in Places \ {"write message"}
      /\ "wait" \in Places \ {"write message"}
  BY DEF Places
<1>2. Logger # Joiner /\ Logger \in Writers /\ Joiner \in Writers
      /\ running \in BOOLEAN
  BY DEF IInv, TypeOK, Logger, Joiner, Writers
<1>3. CASE Loop
  <2>1. /\ pc[Logger] = "loop"
        /\ UNCHANGED <<running, queue, hand, log, put, pledged, gone>>
        /\ \E place \in {"sleep", "ended"} : GoTo(Logger, place)
    BY <1>3 DEF Loop
  <2>2. QED
    BY <1>1, <1>2, <2>1, MoveStep
<1>4. CASE Sleep
  <2>1. /\ pc[Logger] = "sleep"
        /\ UNCHANGED <<running, queue, hand, log, put, pledged, gone>>
        /\ GoTo(Logger, "test run")
    BY <1>4 DEF Sleep
  <2>2. QED
    BY <1>1, <1>2, <2>1, MoveStep
<1>5. CASE Stop
  <2>1. /\ pc[Joiner] = "stop" /\ running' = FALSE
        /\ UNCHANGED <<queue, hand, log, put, pledged, gone>>
        /\ GoTo(Joiner, "wait")
    BY <1>5 DEF Stop
  <2>2. QED
    BY <1>1, <1>2, <2>1, MoveStep
<1>6. CASE Joined
  <2>1. /\ pc[Joiner] = "wait" /\ pc[Logger] \in {"ended", "raised"}
        /\ UNCHANGED <<running, queue, hand, log, put, pledged, gone>>
        /\ GoTo(Joiner, "ended")
    BY <1>6 DEF Joined
  <2>2. QED
    BY <1>1, <1>2, <2>1, MoveStep
<1>7. QED
  BY <1>3, <1>4, <1>5, <1>6

\* Every step of a thread, of join(), of a user or of the process preserves
\* the invariant.
THEOREM NextInvariant == IInv /\ [Next]_vars => IInv'
<1> SUFFICES ASSUME IInv, [Next]_vars PROVE IInv'
  OBVIOUS
<1>1. ASSUME NEW m \in Messages, Put(m)
      PROVE  IInv'
  BY <1>1, PutStep
<1>2. CASE CallJoin
  BY <1>2, CallJoinStep
<1>3. CASE ProcessEnds
  BY <1>3, ProcessEndsStep
<1>4. ASSUME NEW t \in Writers, Write(t)
      PROVE  IInv'
  BY <1>4, QuietWriteStep, GetStep, WriteMessageStep DEF Write
<1>5. CASE Loop \/ Sleep \/ Stop \/ Joined
  BY <1>5, RestStep
<1>6. CASE UNCHANGED vars
  <2>1. UNCHANGED <<pc, running, queue, hand, log, put, pledged, gone>>
    BY <1>6 DEF vars
  <2>2. TypeOK' /\ StoppedInOrder' /\ PledgedTaken'
    BY <2>1 DEF IInv, TypeOK, StoppedInOrder, PledgedTaken
  <2>3. OnePlace' /\ SomePlace'
    BY <2>1, PlacesKept DEF IInv
  <2>4. QED
    BY <2>2, <2>3 DEF IInv
<1>7. QED
  BY <1>1, <1>2, <1>3, <1>4, <1>5, <1>6 DEF Next, Run, Join, Writers

\* The invariant holds in every reachable state.
THEOREM Invariance == Spec => []IInv
<1>1. Init => IInv
  BY InitInvariant
<1>2. IInv /\ [Next]_vars => IInv'
  BY NextInvariant
<1>3. QED
  BY <1>1, <1>2, PTL DEF Spec

-----------------------------------------------------------------------------
(* The properties.                                                         *)

\* The types are invariant, and a thread holds a message only when it is about
\* to write it.
THEOREM TypeCorrect == Spec => []TypeOK
<1>1. IInv => TypeOK
  BY DEF IInv
<1>2. QED
  BY <1>1, Invariance, PTL

\* When join() returns, everything that was put before it was called is in the
\* log: however the two threads share the queue, and whoever else puts more.
THEOREM NothingLost == Spec => []JoinLosesNothing
<1>1. IInv => JoinLosesNothing
  <2> SUFFICES ASSUME IInv, pc[Joiner] = "ended", ~ gone, NEW m \in pledged
               PROVE  Logged(m)
    BY DEF JoinLosesNothing
  <2>1. Hands = {}
    <3>1. pc[Logger] \in {"ended", "raised"}
      BY DEF IInv, StoppedInOrder
    <3>2. \A t \in Writers : pc[t] # "write message"
      BY <3>1 DEF Writers
    <3>3. QED
      BY <3>2 DEF IInv, TypeOK, Hands
  <2>2. m \in Members(put) /\ m \notin Members(queue)
    BY DEF IInv, PledgedTaken
  <2>3. m \in Members(Labels)
    BY <2>1, <2>2 DEF IInv, SomePlace
  <2>4. QED
    BY <2>3, LabelsFacts DEF IInv
<1>2. QED
  BY <1>1, Invariance, PTL

\* An element is in a sequence of different elements once or not at all.
LEMMA OccursOnce ==
  ASSUME NEW S, NEW s \in Seq(S), Distinct(s), NEW m
  PROVE  Cardinality({i \in 1 .. Len(s) : s[i] = m}) = IF m \in Members(s) THEN 1 ELSE 0
<1>1. CASE m \in Members(s)
  <2>1. PICK i \in 1 .. Len(s) : s[i] = m
    BY <1>1 DEF Members
  <2>2. {j \in 1 .. Len(s) : s[j] = m} = {i}
    BY <2>1 DEF Distinct
  <2>3. QED
    BY <1>1, <2>2, FS_Singleton
<1>2. CASE m \notin Members(s)
  <2>1. {j \in 1 .. Len(s) : s[j] = m} = {}
    BY <1>2 DEF Members
  <2>2. QED
    BY <1>2, <2>1, FS_EmptySet
<1>3. QED
  BY <1>1, <1>2

\* A message is in one hand or in none.
LEMMA HeldOnce ==
  ASSUME OnePlace, NEW m \in Messages
  PROVE  Cardinality({t \in Writers : hand[t] = m}) = IF m \in Hands THEN 1 ELSE 0
<1>1. m # None
  BY NoneAssumption
<1>2. CASE m \in Hands
  <2>1. PICK t \in Writers : hand[t] = m
    BY <1>2 DEF Hands
  <2>2. {u \in Writers : hand[u] = m} = {t}
    BY <1>1, <2>1 DEF OnePlace, Writers
  <2>3. QED
    BY <1>2, <2>2, FS_Singleton
<1>3. CASE m \notin Hands
  <2>1. {u \in Writers : hand[u] = m} = {}
    BY <1>1, <1>3 DEF Hands
  <2>2. QED
    BY <1>3, <2>1, FS_EmptySet
<1>4. QED
  BY <1>2, <1>3

\* A message that was put is in the queue, in one hand or in the log, once,
\* unless it was lost with the process.
THEOREM EachOnce == Spec => []EachMessageOnce
<1>1. IInv => EachMessageOnce
  <2> SUFFICES ASSUME IInv, NEW m \in Members(put)
               PROVE  Occurrences(m) = 1 \/ (gone /\ Occurrences(m) = 0)
    BY DEF EachMessageOnce
  <2>1. TypeOK /\ OnePlace /\ SomePlace /\ put \in Seq(Messages) /\ queue \in Seq(Messages)
    BY DEF IInv, TypeOK
  <2>2. m \in Messages
    BY <2>1, MembersFacts
  <2>3. Labels \in Seq(Messages)
    BY <2>1, LabelsFacts
  <2>4. {i \in 1 .. Len(log) : log[i].label = m} = {i \in 1 .. Len(Labels) : Labels[i] = m}
    <3>1. log \in Seq([by : Writers, label : Messages])
      BY <2>1 DEF TypeOK
    <3>2. Len(log) \in Nat
      BY <3>1, LenProperties
    <3>3. Len(Labels) = Len(log)
      BY <2>3, <3>2, LenProperties DEF Labels
    <3>4. QED
      BY <3>3 DEF Labels
  <2>5. Occurrences(m) = (IF m \in Members(queue) THEN 1 ELSE 0)
                         + (IF m \in Hands THEN 1 ELSE 0)
                         + (IF m \in Members(Labels) THEN 1 ELSE 0)
    <3>1. Cardinality({i \in 1 .. Len(queue) : queue[i] = m})
            = IF m \in Members(queue) THEN 1 ELSE 0
      BY <2>1, OccursOnce DEF OnePlace
    <3>2. Cardinality({i \in 1 .. Len(Labels) : Labels[i] = m})
            = IF m \in Members(Labels) THEN 1 ELSE 0
      BY <2>1, <2>3, OccursOnce DEF OnePlace
    <3>3. QED
      BY <2>1, <2>2, <2>4, <3>1, <3>2, HeldOnce DEF Occurrences
  <2>6. QED
    BY <2>1, <2>5 DEF OnePlace, SomePlace
<1>2. QED
  BY <1>1, Invariance, PTL
-----------------------------------------------------------------------------
(* The order of the messages.                                              *)

\* a comes before b in s.
Before(s, a, b) == \E k, l \in 1 .. Len(s) : k < l /\ s[k] = a /\ s[l] = b

\* What has been taken out of the queue was put before all that is in it, and
\* what a thread has written before all that it has taken or written since.
Ordered ==
  /\ Distinct(put)
  /\ \A i, j \in 1 .. Len(queue) : i < j => Before(put, queue[i], queue[j])
  /\ \A t \in Writers, j \in 1 .. Len(queue) :
       hand[t] # None => Before(put, hand[t], queue[j])
  /\ \A i \in 1 .. Len(log), j \in 1 .. Len(queue) : Before(put, log[i].label, queue[j])
  /\ \A i \in 1 .. Len(log), t \in Writers :
       log[i].by = t /\ hand[t] # None => Before(put, log[i].label, hand[t])
  /\ \A i, j \in 1 .. Len(log) :
       i < j /\ log[i].by = log[j].by => Before(put, log[i].label, log[j].label)

\* Nothing changes in the order when no message moves.
LEMMA OrderKept ==
  ASSUME Ordered, UNCHANGED <<queue, hand, log, put>>
  PROVE  Ordered'
  BY DEF Ordered, Before

\* A message that is put comes after all that were put before.
LEMMA PutKeepsOrder ==
  ASSUME IInv, Ordered, NEW m \in Messages, Put(m)
  PROVE  Ordered'
<1>1. /\ put' = Append(put, m) /\ queue' = Append(queue, m) /\ m \notin Members(put)
      /\ UNCHANGED <<hand, log>>
  BY DEF Put
<1>2. put \in Seq(Messages) /\ queue \in Seq(Messages) /\ log \in Seq([by : Writers, label : Messages])
  BY DEF IInv, TypeOK
<1>3. /\ Len(put) \in Nat /\ Len(put') = Len(put) + 1 /\ put'[Len(put) + 1] = m
      /\ \A k \in 1 .. Len(put) : put'[k] = put[k]
  BY <1>1, <1>2
<1>4. /\ Len(queue) \in Nat /\ Len(queue') = Len(queue) + 1 /\ queue'[Len(queue) + 1] = m
      /\ \A k \in 1 .. Len(queue) : queue'[k] = queue[k]
  BY <1>1, <1>2
<1>5. ASSUME NEW a, NEW b, Before(put, a, b)
      PROVE  Before(put', a, b)
  <2>1. PICK k \in 1 .. Len(put), l \in 1 .. Len(put) : k < l /\ put[k] = a /\ put[l] = b
    BY <1>5 DEF Before
  <2>2. k \in 1 .. Len(put') /\ l \in 1 .. Len(put') /\ put'[k] = a /\ put'[l] = b
    BY <1>3, <2>1
  <2>3. QED
    BY <2>1, <2>2 DEF Before
<1>6. ASSUME NEW a \in Members(put)
      PROVE  Before(put', a, m)
  <2>1. PICK k \in 1 .. Len(put) : put[k] = a
    BY DEF Members
  <2>2. k \in 1 .. Len(put') /\ Len(put) + 1 \in 1 .. Len(put') /\ k < Len(put) + 1
        /\ put'[k] = a
    BY <1>3, <2>1
  <2>3. QED
    BY <1>3, <2>2 DEF Before
<1>7. /\ \A i \in 1 .. Len(queue) : queue[i] \in Members(put)
      /\ \A t \in Writers : hand[t] # None => hand[t] \in Members(put)
      /\ \A i \in 1 .. Len(log) : log[i].label \in Members(put)
  <2>1. Members(queue) \cup Hands \cup Members(Labels) \subseteq Members(put)
    BY DEF IInv, SomePlace
  <2>2. \A i \in 1 .. Len(log) : log[i].label \in Members(Labels)
    BY LabelsFacts DEF IInv, Logged
  <2>3. QED
    BY <2>1, <2>2 DEF Members, Hands
<1>8. \A j \in 1 .. Len(queue') : j \in 1 .. Len(queue) \/ j = Len(queue) + 1
  BY <1>4
<1>9. Distinct(put')
  BY <1>1, <1>2, AppendFacts DEF Ordered
<1>10. \A i, j \in 1 .. Len(queue') : i < j => Before(put', queue'[i], queue'[j])
  <2> SUFFICES ASSUME NEW i \in 1 .. Len(queue'), NEW j \in 1 .. Len(queue'), i < j
               PROVE  Before(put', queue'[i], queue'[j])
    OBVIOUS
  <2>1. i \in 1 .. Len(queue) /\ queue'[i] = queue[i]
    BY <1>4
  <2>2. CASE j \in 1 .. Len(queue)
    BY <1>4, <1>5, <2>1, <2>2 DEF Ordered
  <2>3. CASE j = Len(queue) + 1
    BY <1>4, <1>6, <1>7, <2>1, <2>3
  <2>4. QED
    BY <1>8, <2>2, <2>3
<1>11. \A t \in Writers, j \in 1 .. Len(queue') :
         hand'[t] # None => Before(put', hand'[t], queue'[j])
  BY <1>1, <1>4, <1>5, <1>6, <1>7, <1>8 DEF Ordered
<1>12. \A i \in 1 .. Len(log'), j \in 1 .. Len(queue') : Before(put', log'[i].label, queue'[j])
  BY <1>1, <1>4, <1>5, <1>6, <1>7, <1>8 DEF Ordered
<1>13. /\ \A i \in 1 .. Len(log'), t \in Writers :
            log'[i].by = t /\ hand'[t] # None => Before(put', log'[i].label, hand'[t])
       /\ \A i, j \in 1 .. Len(log') :
            i < j /\ log'[i].by = log'[j].by => Before(put', log'[i].label, log'[j].label)
  BY <1>1, <1>5 DEF Ordered
<1>14. QED
  BY <1>9, <1>10, <1>11, <1>12, <1>13 DEF Ordered

\* The message at the head of the queue comes before those left in it, and after
\* all that the thread has written.
LEMMA GetKeepsOrder ==
  ASSUME IInv, Ordered, NEW t \in Writers, Get(t)
  PROVE  Ordered'
<1>1. /\ queue # <<>> /\ queue \in Seq(Messages) /\ queue' = Tail(queue)
      /\ hand' = [hand EXCEPT ![t] = Head(queue)] /\ hand \in [Writers -> Messages \cup {None}]
      /\ UNCHANGED <<log, put>>
  BY DEF Get, IInv, TypeOK
<1>2. /\ Len(queue) \in Nat \ {0} /\ Head(queue) = queue[1] /\ Len(queue') = Len(queue) - 1
      /\ \A i \in 1 .. Len(queue) - 1 : queue'[i] = queue[i + 1]
  BY <1>1
<1>3. hand'[t] = queue[1] /\ \A u \in Writers \ {t} : hand'[u] = hand[u]
  BY <1>1, <1>2
<1>4. put' = put
  BY <1>1
<1>5. \A j \in 1 .. Len(queue') :
        j + 1 \in 1 .. Len(queue) /\ 1 < j + 1 /\ queue'[j] = queue[j + 1]
  BY <1>2
<1>6. 1 \in 1 .. Len(queue)
  BY <1>2
<1>7. \A i, j \in 1 .. Len(queue') : i < j => Before(put, queue'[i], queue'[j])
  BY <1>5 DEF Ordered
<1>8. \A u \in Writers, j \in 1 .. Len(queue') :
        hand'[u] # None => Before(put, hand'[u], queue'[j])
  BY <1>3, <1>5, <1>6 DEF Ordered
<1>9. \A i \in 1 .. Len(log), j \in 1 .. Len(queue') : Before(put, log[i].label, queue'[j])
  BY <1>5 DEF Ordered
<1>10. \A i \in 1 .. Len(log), u \in Writers :
         log[i].by = u /\ hand'[u] # None => Before(put, log[i].label, hand'[u])
  BY <1>3, <1>6 DEF Ordered
<1>11. QED
  BY <1>1, <1>4, <1>7, <1>8, <1>9, <1>10 DEF Ordered

\* What a thread has in its hand comes after all that it has written.
LEMMA WriteMessageKeepsOrder ==
  ASSUME IInv, Ordered, NEW t \in Writers, WriteMessage(t)
  PROVE  Ordered'
<1>1. /\ UNCHANGED <<queue, put>>
      /\ log' = log \/ log' = Append(log, [by |-> t, label |-> hand[t]])
      /\ log \in Seq([by : Writers, label : Messages])
  BY DEF WriteMessage, IInv, TypeOK
<1>2. /\ hand'[t] = None /\ \A u \in Writers \ {t} : hand'[u] = hand[u]
      /\ hand[t] \in Messages /\ hand[t] # None
  BY EmptiedHand, NoneAssumption
<1>3. put' = put
  BY <1>1
<1>4. \A u \in Writers : hand'[u] # None => u # t /\ hand'[u] = hand[u]
  BY <1>2
<1>5. CASE log' = log
  BY <1>1, <1>3, <1>4, <1>5 DEF Ordered
<1>6. CASE log' = Append(log, [by |-> t, label |-> hand[t]])
  <2>1. /\ Len(log) \in Nat /\ Len(log') = Len(log) + 1
        /\ log'[Len(log) + 1].by = t /\ log'[Len(log) + 1].label = hand[t]
        /\ \A i \in 1 .. Len(log) : log'[i] = log[i]
    <3> DEFINE Lines == [by : Writers, label : Messages]
               line == [by |-> t, label |-> hand[t]]
    <3>1. line \in Lines /\ line.by = t /\ line.label = hand[t]
      BY <1>2
    <3>2. log \in Seq(Lines) /\ log' = Append(log, line)
      BY <1>1, <1>6
    <3> HIDE DEF Lines, line
    <3>3. /\ Len(log) \in Nat /\ Len(log') = Len(log) + 1 /\ log'[Len(log) + 1] = line
          /\ \A i \in 1 .. Len(log) : log'[i] = log[i]
      BY <3>1, <3>2, AppendProperties, LenProperties
    <3>4. QED
      BY <3>1, <3>3
  <2>2. \A i \in 1 .. Len(log') : i \in 1 .. Len(log) \/ i = Len(log) + 1
    BY <2>1
  <2>3. \A i \in 1 .. Len(log'), j \in 1 .. Len(queue) : Before(put, log'[i].label, queue[j])
    BY <1>2, <2>1, <2>2 DEF Ordered
  <2>4. \A i \in 1 .. Len(log'), u \in Writers :
          log'[i].by = u /\ hand'[u] # None => Before(put, log'[i].label, hand'[u])
    BY <1>4, <2>1, <2>2 DEF Ordered
  <2>5. \A i, j \in 1 .. Len(log') :
          i < j /\ log'[i].by = log'[j].by => Before(put, log'[i].label, log'[j].label)
    <3> SUFFICES ASSUME NEW i \in 1 .. Len(log'), NEW j \in 1 .. Len(log'),
                        i < j, log'[i].by = log'[j].by
                 PROVE  Before(put, log'[i].label, log'[j].label)
      OBVIOUS
    <3>1. i \in 1 .. Len(log) /\ log'[i] = log[i]
      BY <2>1
    <3>2. CASE j \in 1 .. Len(log)
      BY <2>1, <3>1, <3>2 DEF Ordered
    <3>3. CASE j = Len(log) + 1
      BY <1>2, <2>1, <3>1, <3>3 DEF Ordered
    <3>4. QED
      BY <2>2, <3>2, <3>3
  <2>6. \A u \in Writers, j \in 1 .. Len(queue) :
          hand'[u] # None => Before(put, hand'[u], queue[j])
    BY <1>4 DEF Ordered
  <2>7. QED
    BY <1>1, <1>3, <2>3, <2>4, <2>5, <2>6 DEF Ordered
<1>7. QED
  BY <1>1, <1>5, <1>6

\* The order holds in every reachable state.
THEOREM OrderInvariance == Spec => []Ordered
<1>1. Init => Ordered
  <2> SUFFICES ASSUME Init
               PROVE  Ordered
    OBVIOUS
  <2>1. put = <<>> /\ queue = <<>> /\ log = <<>> /\ \A t \in Writers : hand[t] = None
    BY DEF Init
  <2>2. 1 .. Len(put) = {} /\ 1 .. Len(queue) = {} /\ 1 .. Len(log) = {}
    BY <2>1
  <2>3. Distinct(put)
    BY <2>2 DEF Distinct
  <2>4. QED
    BY <2>1, <2>2, <2>3 DEF Ordered
<1>2. ASSUME IInv, Ordered, [Next]_vars
      PROVE  Ordered'
  <2>1. CASE \E m \in Messages : Put(m)
    BY <1>2, <2>1, PutKeepsOrder
  <2>2. CASE \E t \in Writers : Get(t)
    BY <1>2, <2>2, GetKeepsOrder
  <2>3. CASE \E t \in Writers : WriteMessage(t)
    BY <1>2, <2>3, WriteMessageKeepsOrder
  <2>4. CASE UNCHANGED <<queue, hand, log, put>>
    BY <1>2, <2>4, OrderKept
  <2>5. QED
    BY <1>2, <2>1, <2>2, <2>3, <2>4
       DEF Next, vars, CallJoin, ProcessEnds, Run, Join, Write, TestRun, TestEmpty, WriteLine,
           Drain, Loop, Sleep, Stop, Joined, Writers
<1>3. QED
  BY <1>1, <1>2, Invariance, PTL DEF Spec

\* Each thread writes messages in the order in which they were put: only what
\* the other thread has in its hand can be overtaken.
THEOREM OrderedLogs == Spec => []LoggedInOrder
<1>1. Ordered => LoggedInOrder
  <2> SUFFICES ASSUME Ordered, NEW i \in 1 .. Len(log), NEW j \in 1 .. Len(log),
                      NEW k \in 1 .. Len(put), NEW l \in 1 .. Len(put),
                      i < j, put[k] = log[j].label, put[l] = log[i].label, k < l,
                      log[i].by = log[j].by
               PROVE  FALSE
    BY DEF LoggedInOrder
  <2>1. Before(put, log[i].label, log[j].label)
    BY DEF Ordered
  <2>2. PICK m \in 1 .. Len(put), n \in 1 .. Len(put) :
          m < n /\ put[m] = log[i].label /\ put[n] = log[j].label
    BY <2>1 DEF Before
  <2>3. m = l /\ n = k
    BY <2>2 DEF Ordered, Distinct
  <2>4. QED
    BY <2>2, <2>3
<1>2. QED
  BY <1>1, OrderInvariance, PTL

=============================================================================
