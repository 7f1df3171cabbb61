------------------------ MODULE ReferenceTracing_proofs ------------------------
(***************************************************************************)
(* The reference tracers, for any number of threads and tracers and        *)
(* whatever the callers do.  With blocks of the two classes nested in each *)
(* other and failures of gc.collect() included: the code writes to no      *)
(* closed log and pops no empty list, and the annotations in the logs are  *)
(* true.  Without mixed nesting the tracer of the innermost   *)
(* with block is the one that is called, and the code implements the stack *)
(* of context managers of the design note.                                 *)
(***************************************************************************)
EXTENDS ReferenceTracing, SequenceTheorems, TLAPS

\* With blocks of the two classes are not nested in each other.
NotMixed == "mixed" \notin Usage

Inside(x) == \E t \in Threads : InBlock(t, x)

\* No payload is on the list twice.
Distinct(l) == \A i, j \in 1 .. Len(l) : l[i] = l[j] => i = j

\* x is on the list below y, which was pushed later.
Below(l, x, y) == \E i, j \in 1 .. Len(l) : i < j /\ l[i] = x /\ l[j] = y

-----------------------------------------------------------------------------
(* The lists of the tracers, node by node.                                 *)

\* Pushing leaves the older nodes alone and makes the new one the head.
LEMMA PushFacts ==
  ASSUME NEW S, NEW l \in Seq(S), NEW w \in S
  PROVE  /\ ll_push(l, w) \in Seq(S)
         /\ Len(ll_push(l, w)) = Len(l) + 1
         /\ \A i \in 1 .. Len(l) : ll_push(l, w)[i] = l[i]
         /\ ll_push(l, w)[Len(l) + 1] = w
         /\ ll_get(ll_push(l, w)) = w
         /\ ll_push(l, w) # <<>>
  BY DEF ll_push, ll_get

\* Popping leaves the older nodes alone; the node below becomes the head.
LEMMA PopFacts ==
  ASSUME NEW S, NEW l \in Seq(S), l # <<>>
  PROVE  /\ ll_pop(l) \in Seq(S)
         /\ Len(ll_pop(l)) = Len(l) - 1
         /\ \A i \in 1 .. Len(l) - 1 : ll_pop(l)[i] = l[i]
         /\ ll_get(ll_pop(l)) = IF Len(l) = 1 THEN None ELSE l[Len(l) - 1]
<1>1. Len(l) \in Nat /\ Len(l) >= 1 /\ \A i \in 1 .. Len(l) : l[i] \in S
  OBVIOUS
<1>2. /\ ll_pop(l) \in Seq(S)
      /\ Len(ll_pop(l)) = Len(l) - 1
      /\ \A i \in 1 .. Len(l) - 1 : ll_pop(l)[i] = l[i]
  <2> DEFINE n == Len(l) - 1
  <2>1. 1 \in Int /\ n \in Int /\ \A i \in 1 .. n : l[i] \in S
    BY <1>1
  <2>2. /\ SubSeq(l, 1, n) \in Seq(S)
        /\ Len(SubSeq(l, 1, n)) = IF 1 <= n THEN n - 1 + 1 ELSE 0
        /\ \A i \in 1 .. n - 1 + 1 : SubSeq(l, 1, n)[i] = l[1 + i - 1]
    <3> HIDE DEF n
    <3> QED BY <2>1, SubSeqProperties
  <2>3. \A i \in 1 .. n : SubSeq(l, 1, n)[i] = l[i]
    BY <1>1, <2>2
  <2>4. Len(SubSeq(l, 1, n)) = n
    <3>1. n \in Int /\ 0 <= n
      BY <1>1
    <3> HIDE DEF n
    <3> QED BY <3>1, <2>2
  <2>5. QED
    BY <2>2, <2>3, <2>4 DEF ll_pop
<1>3. ll_pop(l) = <<>> <=> Len(l) = 1
  BY <1>1, <1>2
<1>4. QED
  BY <1>1, <1>2, <1>3 DEF ll_get

\* The head of a list that is not empty is one of its nodes.
LEMMA GetFacts ==
  ASSUME NEW S, NEW l \in Seq(S)
  PROVE  /\ l = <<>> => ll_get(l) = None
         /\ l # <<>> => /\ Len(l) \in 1 .. Len(l)
                        /\ ll_get(l) = l[Len(l)]
                        /\ ll_get(l) \in S
  BY DEF ll_get

-----------------------------------------------------------------------------
(* The lists as sets with an order.                                        *)

\* Nothing is on the empty list.
LEMMA EmptyList ==
  /\ Distinct(<<>>)
  /\ \A x : ~ OnList(<<>>, x)
  /\ \A x, y : ~ Below(<<>>, x, y)
  BY DEF Distinct, OnList, Below

\* The head of a list is on it, with all other nodes below it.
LEMMA HeadOnTop ==
  ASSUME NEW S, NEW l \in Seq(S)
  PROVE  /\ \A x : OnList(l, x) => x \in S /\ l # <<>>
         /\ l # <<>> => OnList(l, ll_get(l)) /\ ll_get(l) \in S
         /\ \A x : OnList(l, x) /\ x # ll_get(l) => Below(l, x, ll_get(l))
         /\ \A x, y : Below(l, x, y) => OnList(l, x) /\ OnList(l, y)
         /\ Distinct(l) => \A x, y : Below(l, x, y) => x # ll_get(l) /\ x # y
<1>1. Len(l) \in Nat /\ \A i \in 1 .. Len(l) : l[i] \in S
  OBVIOUS
<1>2. \A x : OnList(l, x) => x \in S /\ l # <<>>
  BY <1>1 DEF OnList
<1>3. l # <<>> => OnList(l, ll_get(l)) /\ ll_get(l) \in S
  BY GetFacts DEF OnList
<1>4. ASSUME NEW x, OnList(l, x), x # ll_get(l)
      PROVE  Below(l, x, ll_get(l))
  <2>1. PICK i \in 1 .. Len(l) : l[i] = x
    BY <1>4 DEF OnList
  <2>2. Len(l) \in 1 .. Len(l) /\ ll_get(l) = l[Len(l)]
    BY <1>2, <1>4, GetFacts
  <2>3. i < Len(l)
    BY <1>1, <1>4, <2>1, <2>2
  <2>4. QED
    BY <2>1, <2>2, <2>3 DEF Below
<1>5. \A x, y : Below(l, x, y) => OnList(l, x) /\ OnList(l, y)
  BY DEF Below, OnList
<1>6. ASSUME Distinct(l), NEW x, NEW y, Below(l, x, y)
      PROVE  x # ll_get(l) /\ x # y
  <2>1. PICK i \in 1 .. Len(l), j \in 1 .. Len(l) : i < j /\ l[i] = x /\ l[j] = y
    BY <1>6 DEF Below
  <2>2. i # Len(l) /\ i # j
    BY <1>1, <2>1
  <2>3. ll_get(l) = l[Len(l)] /\ Len(l) \in 1 .. Len(l)
    BY <1>2, <1>5, <1>6, GetFacts
  <2>4. QED
    BY <1>6, <2>1, <2>2, <2>3 DEF Distinct
<1>7. QED
  BY <1>2, <1>3, <1>4, <1>5, <1>6

\* A payload that is pushed is above all others.
LEMMA PushOrder ==
  ASSUME NEW S, NEW l \in Seq(S), NEW w \in S
  PROVE  /\ \A x : OnList(ll_push(l, w), x) <=> OnList(l, x) \/ x = w
         /\ \A x, y : Below(ll_push(l, w), x, y)
                        <=> Below(l, x, y) \/ (OnList(l, x) /\ y = w)
         /\ Distinct(l) /\ ~ OnList(l, w) => Distinct(ll_push(l, w))
<1> DEFINE n == Len(l)
           p == ll_push(l, w)
<1>1. /\ n \in Nat /\ Len(p) = n + 1 /\ p[n + 1] = w
      /\ \A i \in 1 .. n : p[i] = l[i]
      /\ \A i \in 1 .. n + 1 : i \in 1 .. n \/ i = n + 1
      /\ \A i \in 1 .. n : i \in 1 .. n + 1 /\ i < n + 1
      /\ n + 1 \in 1 .. n + 1
  <2>1. /\ Len(p) = n + 1 /\ p[n + 1] = w
        /\ \A i \in 1 .. n : p[i] = l[i]
    BY PushFacts
  <2>2. n \in Nat
    OBVIOUS
  <2> HIDE DEF n, p
  <2>3. QED
    BY <2>1, <2>2
<1> HIDE DEF n, p
<1>2. \A x : OnList(p, x) <=> OnList(l, x) \/ x = w
  BY <1>1 DEF OnList, n
<1>3. ASSUME NEW x, NEW y
      PROVE  Below(p, x, y) <=> Below(l, x, y) \/ (OnList(l, x) /\ y = w)
  <2>1. ASSUME Below(p, x, y)
        PROVE  Below(l, x, y) \/ (OnList(l, x) /\ y = w)
    <3>1. PICK i \in 1 .. n + 1, j \in 1 .. n + 1 : i < j /\ p[i] = x /\ p[j] = y
      BY <1>1, <2>1 DEF Below
    <3>2. i \in 1 .. n /\ l[i] = x
      BY <1>1, <3>1
    <3>3. CASE j \in 1 .. n
      BY <1>1, <3>1, <3>2, <3>3 DEF Below, n
    <3>4. CASE j = n + 1
      BY <1>1, <3>1, <3>2, <3>4 DEF OnList, n
    <3>5. QED
      BY <1>1, <3>1, <3>3, <3>4
  <2>2. ASSUME Below(l, x, y) PROVE Below(p, x, y)
    <3>1. PICK i \in 1 .. n, j \in 1 .. n : i < j /\ l[i] = x /\ l[j] = y
      BY <2>2 DEF Below, n
    <3>2. QED
      BY <1>1, <3>1 DEF Below
  <2>3. ASSUME OnList(l, x), y = w PROVE Below(p, x, y)
    <3>1. PICK i \in 1 .. n : l[i] = x
      BY <2>3 DEF OnList, n
    <3>2. QED
      BY <1>1, <2>3, <3>1 DEF Below
  <2>4. QED
    BY <2>1, <2>2, <2>3
<1>4. ASSUME Distinct(l), ~ OnList(l, w)
      PROVE  Distinct(p)
  BY <1>1, <1>4 DEF Distinct, OnList, n
<1>5. QED
  BY <1>2, <1>3, <1>4 DEF p

\* Popping takes the head away, and nothing else.
LEMMA PopOrder ==
  ASSUME NEW S, NEW l \in Seq(S), l # <<>>, Distinct(l)
  PROVE  /\ \A x : OnList(ll_pop(l), x) <=> OnList(l, x) /\ x # ll_get(l)
         /\ \A x, y : Below(ll_pop(l), x, y) <=> Below(l, x, y) /\ y # ll_get(l)
         /\ Distinct(ll_pop(l))
<1> DEFINE n == Len(l)
           p == ll_pop(l)
<1>1. /\ n \in Nat /\ n >= 1 /\ Len(p) = n - 1 /\ ll_get(l) = l[n]
      /\ \A i \in 1 .. n - 1 : p[i] = l[i]
      /\ \A i \in 1 .. n : i \in 1 .. n - 1 \/ i = n
      /\ \A i \in 1 .. n - 1 : i \in 1 .. n /\ i # n
      /\ n \in 1 .. n
  BY PopFacts DEF ll_get
<1>2. \A i \in 1 .. n : l[i] = ll_get(l) => i = n
  BY <1>1 DEF Distinct
<1> HIDE DEF n, p
<1>3. ASSUME NEW x
      PROVE  OnList(p, x) <=> OnList(l, x) /\ x # ll_get(l)
  BY <1>1, <1>2 DEF OnList, n
<1>4. ASSUME NEW x, NEW y
      PROVE  Below(p, x, y) <=> Below(l, x, y) /\ y # ll_get(l)
  <2>1. ASSUME Below(p, x, y) PROVE Below(l, x, y) /\ y # ll_get(l)
    <3>1. PICK i \in 1 .. n - 1, j \in 1 .. n - 1 : i < j /\ p[i] = x /\ p[j] = y
      BY <1>1, <2>1 DEF Below
    <3>2. QED
      BY <1>1, <1>2, <3>1 DEF Below, n
  <2>2. ASSUME Below(l, x, y), y # ll_get(l) PROVE Below(p, x, y)
    <3>1. PICK i \in 1 .. n, j \in 1 .. n : i < j /\ l[i] = x /\ l[j] = y
      BY <2>2 DEF Below, n
    <3>2. j \in 1 .. n - 1
      BY <1>1, <2>2, <3>1
    <3>3. i \in 1 .. n - 1
      BY <1>1, <3>1
    <3>4. QED
      BY <1>1, <3>1, <3>2, <3>3 DEF Below
  <2>3. QED
    BY <2>1, <2>2
<1>5. Distinct(p)
  BY <1>1 DEF Distinct, n
<1>6. QED
  BY <1>3, <1>4, <1>5 DEF p

-----------------------------------------------------------------------------
(* The inductive invariant.                                                *)

OneThreadInBlocks ==
  \A t, u \in Threads : blocks[t] # <<>> /\ blocks[u] # <<>> => t = u

ListsDistinct ==
  /\ Distinct(simple_ll) /\ Distinct(file_ll)
  /\ \A t \in Threads : Distinct(blocks[t])

\* The lists have the tracers of the with blocks, in their order; that of the
\* tracers with a log file has abandoned ones, too.
ListsMatchBlocks ==
  /\ \A x \in Simple : OnList(simple_ll, x) <=> Inside(x)
  /\ \A x \in Files : Inside(x) => OnList(file_ll, x)
  /\ \A t \in Threads :
       /\ \A x, y \in Simple : Below(blocks[t], x, y) => Below(simple_ll, x, y)
       /\ \A x, y \in Files : Below(blocks[t], x, y) => Below(file_ll, x, y)

\* The logs of all tracers on the list are open, also of the abandoned ones.
OpenOnList ==
  fault = "none" => \A x \in Files : OnList(file_ll, x) => log_file[x] = "open"

\* What is called is the head of the list of its class.
CalledIsHead ==
  /\ slot \in Simple => slot = ll_get(simple_ll)
  /\ slot \in Files => slot = ll_get(file_ll)

\* At most one thread is in a callback, of the head, and the slot is empty.
OneCallback ==
  \A t \in Threads : callback[t] # None =>
    /\ callback[t] = ll_get(file_ll)
    /\ slot = None
    /\ count[callback[t]] < MaxEvents
    /\ \A u \in Threads : callback[u] # None => u = t

\* AnnotationsAreTrue, also while the tracer is being called back.
LogsTellTheTruth ==
  fault = "none" =>
    /\ slot \in Files => marker[slot] \in {"start", "reattach", "resume"}
    /\ \A t \in Threads : callback[t] # None =>
         marker[callback[t]] \in {"start", "reattach", "resume"}
    /\ \A x \in Files : OnList(file_ll, x) /\ x # ll_get(file_ll) => marker[x] = "detach"

StoppedIsSilent ==
  stopped # "no" => slot = None /\ \A t \in Threads : callback[t] = None

\* The tracer entered last, of either class.
Innermost == IF file_ll = <<>> THEN ll_get(simple_ll) ELSE ll_get(file_ll)

\* If the classes are not mixed, one list is empty, and inside with blocks the
\* innermost tracer is called unless it is stopped or one is abandoned.
InnermostIsCalled ==
  NotMixed =>
    /\ simple_ll = <<>> \/ file_ll = <<>>
    /\ Abandoned = {} /\ stopped = "no" /\ (\E t \in Threads : blocks[t] # <<>>) =>
         slot = Innermost \/ \E t \in Threads : callback[t] # None

IInv ==
  /\ TypeOK
  /\ NoFault
  /\ OneThreadInBlocks
  /\ ListsDistinct
  /\ ListsMatchBlocks
  /\ OpenOnList
  /\ CalledIsHead
  /\ OneCallback
  /\ LogsTellTheTruth
  /\ StoppedIsSilent
  /\ InnermostIsCalled

-----------------------------------------------------------------------------
(* One state.                                                              *)

\* No class has NULL among its objects, or an object of the other class.
LEMMA Classes ==
  /\ \A x \in Tracers : x # None
  /\ \A x \in Simple : x \in Tracers /\ x \notin Files
  /\ \A x \in Files : x \in Tracers /\ x \notin Simple
  BY ClassesAssumption DEF Tracers

\* The object whose with block a thread leaves is the head of the list of its
\* class if that is the one without log files; the other may have abandoned
\* tracers above it.
LEMMA LeaverFacts ==
  ASSUME IInv, NEW t \in Threads, blocks[t] # <<>>
  PROVE  /\ Leaver(t) \in Tracers
         /\ Leaver(t) = ll_get(blocks[t])
         /\ Inside(Leaver(t))
         /\ Leaver(t) \in Simple => simple_ll # <<>> /\ Leaver(t) = ll_get(simple_ll)
         /\ Leaver(t) \in Files => /\ file_ll # <<>> /\ OnList(file_ll, Leaver(t))
                                   /\ fault = "none" => log_file[Leaver(t)] = "open"
<1>1. blocks[t] \in Seq(Tracers) /\ simple_ll \in Seq(Simple) /\ file_ll \in Seq(Files)
  BY DEF IInv, TypeOK
<1>2. Leaver(t) = ll_get(blocks[t])
  BY DEF Leaver, Last, ll_get
<1>3. OnList(blocks[t], Leaver(t)) /\ Leaver(t) \in Tracers
  BY <1>1, <1>2, HeadOnTop
<1>4. Inside(Leaver(t))
  BY <1>3 DEF Inside, InBlock, OnList
<1>5. ASSUME Leaver(t) \in Simple
      PROVE  simple_ll # <<>> /\ Leaver(t) = ll_get(simple_ll)
  <2> DEFINE head == ll_get(simple_ll)
  <2>1. OnList(simple_ll, Leaver(t))
    BY <1>4, <1>5 DEF IInv, ListsMatchBlocks
  <2>2. simple_ll # <<>> /\ OnList(simple_ll, head) /\ head \in Simple
    BY <1>1, <2>1, HeadOnTop
  <2>3. PICK u \in Threads : InBlock(u, head)
    BY <2>2 DEF IInv, ListsMatchBlocks, Inside
  <2>4. u = t
    <3>1. blocks[u] # <<>>
      BY <2>3 DEF InBlock
    <3>2. QED
      BY <3>1 DEF IInv, OneThreadInBlocks
  <2>5. OnList(blocks[t], head)
    BY <2>3, <2>4 DEF InBlock, OnList
  <2>6. ASSUME head # Leaver(t) PROVE FALSE
    <3>1. Below(blocks[t], head, Leaver(t))
      BY <1>1, <1>2, <2>5, <2>6, HeadOnTop
    <3>2. Below(simple_ll, head, Leaver(t))
      BY <1>5, <2>2, <3>1 DEF IInv, ListsMatchBlocks
    <3>3. QED
      BY <1>1, <3>2, HeadOnTop DEF IInv, ListsDistinct
  <2>7. QED
    BY <2>2, <2>6
<1>6. ASSUME Leaver(t) \in Files
      PROVE  /\ file_ll # <<>> /\ OnList(file_ll, Leaver(t))
             /\ fault = "none" => log_file[Leaver(t)] = "open"
  <2>1. OnList(file_ll, Leaver(t)) /\ (fault = "none" => log_file[Leaver(t)] = "open")
    BY <1>4, <1>6 DEF IInv, ListsMatchBlocks, OpenOnList
  <2>2. QED
    BY <1>1, <2>1, HeadOnTop
<1>7. QED
  BY <1>2, <1>3, <1>4, <1>5, <1>6

\* If none is abandoned, the tracer entered last is that of the innermost block.
LEMMA InnermostIsLeaver ==
  ASSUME IInv, NotMixed, Abandoned = {}, NEW t \in Threads, blocks[t] # <<>>
  PROVE  Innermost = Leaver(t)
<1>1. blocks[t] \in Seq(Tracers) /\ file_ll \in Seq(Files)
  BY DEF IInv, TypeOK
<1>2. CASE Leaver(t) \in Simple
  <2>1. simple_ll # <<>> /\ Leaver(t) = ll_get(simple_ll)
    BY <1>2, LeaverFacts
  <2>2. file_ll = <<>>
    BY <2>1 DEF IInv, InnermostIsCalled
  <2>3. QED
    BY <2>1, <2>2 DEF Innermost
<1>3. CASE Leaver(t) \in Files
  <2> DEFINE head == ll_get(file_ll)
  <2>1. file_ll # <<>> /\ OnList(file_ll, head) /\ head \in Files
    BY <1>1, <1>3, LeaverFacts, HeadOnTop
  <2>2. PICK u \in Threads : InBlock(u, head)
    BY <2>1 DEF Abandoned
  <2>3. u = t
    <3>1. blocks[u] # <<>>
      BY <2>2 DEF InBlock
    <3>2. QED
      BY <3>1 DEF IInv, OneThreadInBlocks
  <2>4. OnList(blocks[t], head) /\ Leaver(t) = ll_get(blocks[t])
    BY <2>2, <2>3, LeaverFacts DEF InBlock, OnList
  <2>5. ASSUME head # Leaver(t) PROVE FALSE
    <3>1. Below(blocks[t], head, Leaver(t))
      BY <1>1, <2>4, <2>5, HeadOnTop
    <3>2. Below(file_ll, head, Leaver(t))
      BY <1>3, <2>1, <3>1 DEF IInv, ListsMatchBlocks
    <3>3. QED
      BY <1>1, <3>2, HeadOnTop DEF IInv, ListsDistinct
  <2>6. QED
    BY <2>1, <2>5 DEF Innermost
<1>4. QED
  BY <1>2, <1>3, LeaverFacts DEF Tracers

-----------------------------------------------------------------------------
\* Before the first with block there is nothing on the lists.
THEOREM InitInvariant == Init => IInv
<1> SUFFICES ASSUME Init PROVE IInv
  OBVIOUS
<1> USE DEF Init
<1>1. TypeOK
  <2>1. blocks \in [Threads -> Seq(Tracers)] /\ simple_ll \in Seq(Simple) /\ file_ll \in Seq(Files)
    OBVIOUS
  <2>2. count \in [Tracers -> 0 .. MaxEvents]
    BY MaxEventsAssumption
  <2>3. QED
    BY <2>1, <2>2 DEF TypeOK
<1>2. \A x : ~ Inside(x)
  BY DEF Inside, InBlock
<1>3. NoFault /\ OneThreadInBlocks /\ OneCallback /\ StoppedIsSilent
  BY DEF NoFault, OneThreadInBlocks, OneCallback, StoppedIsSilent
<1>4. ListsDistinct /\ ListsMatchBlocks /\ OpenOnList
  BY <1>2, EmptyList DEF ListsDistinct, ListsMatchBlocks, OpenOnList
<1>5. CalledIsHead /\ LogsTellTheTruth
  BY EmptyList, Classes DEF CalledIsHead, LogsTellTheTruth
<1>6. InnermostIsCalled
  BY DEF InnermostIsCalled
<1>7. QED
  BY <1>1, <1>3, <1>4, <1>5, <1>6 DEF IInv

-----------------------------------------------------------------------------
(* What steps do to with blocks.                                           *)

\* A thread can only enter a with block where no other thread is in one, and
\* only with an object that is on no list.
LEMMA EnterFacts ==
  ASSUME IInv, NEW t \in Threads, NEW x \in Tracers, MayEnter(t, x),
         blocks' = [blocks EXCEPT ![t] = Append(@, x)]
  PROVE  /\ blocks' \in [Threads -> Seq(Tracers)]
         /\ OneThreadInBlocks'
         /\ \A u \in Threads : Distinct(blocks'[u])
         /\ \A y : Inside(y)' <=> Inside(y) \/ y = x
         /\ \A u \in Threads : \A y, z :
              Below(blocks'[u], y, z) => Below(blocks[u], y, z) \/ (Inside(y) /\ z = x)
         /\ ~ Inside(x)
         /\ ~ OnList(simple_ll, x) /\ ~ OnList(file_ll, x)
<1> DEFINE b == ll_push(blocks[t], x)
<1>1. /\ blocks \in [Threads -> Seq(Tracers)] /\ blocks[t] \in Seq(Tracers)
      /\ simple_ll \in Seq(Simple)
  BY DEF IInv, TypeOK
<1>2. /\ \A u \in Threads \ {t} : blocks[u] = <<>>
      /\ ~ OnList(blocks[t], x) /\ ~ OnList(file_ll, x)
  BY DEF MayEnter, InBlock, OnList
<1>3. ~ Inside(x)
  BY <1>2, EmptyList DEF Inside, InBlock, OnList
<1>4. ~ OnList(simple_ll, x)
  <2>1. OnList(simple_ll, x) => x \in Simple
    BY <1>1, HeadOnTop
  <2>2. QED
    BY <1>3, <2>1 DEF IInv, ListsMatchBlocks
<1>5. /\ b \in Seq(Tracers) /\ b # <<>> /\ Distinct(b)
      /\ \A y : OnList(b, y) <=> OnList(blocks[t], y) \/ y = x
      /\ \A y, z : Below(b, y, z) <=> Below(blocks[t], y, z) \/ (OnList(blocks[t], y) /\ z = x)
  <2>1. b \in Seq(Tracers) /\ b # <<>>
    BY <1>1, PushFacts
  <2>2. Distinct(blocks[t])
    BY DEF IInv, ListsDistinct
  <2>3. QED
    BY <1>1, <1>2, <2>1, <2>2, PushOrder
<1>6. blocks' = [blocks EXCEPT ![t] = b]
  BY DEF ll_push
<1> HIDE DEF b
<1>7. blocks'[t] = b /\ \A u \in Threads \ {t} : blocks'[u] = blocks[u]
  BY <1>1, <1>6
<1>8. blocks' \in [Threads -> Seq(Tracers)]
  BY <1>1, <1>5, <1>6
<1>9. OneThreadInBlocks'
  BY <1>2, <1>7 DEF OneThreadInBlocks
<1>10. \A u \in Threads : Distinct(blocks'[u])
  BY <1>5, <1>7 DEF IInv, ListsDistinct
<1>11. \A y : Inside(y)' <=> Inside(y) \/ y = x
  <2>1. \A y : Inside(y) <=> \E u \in Threads : OnList(blocks[u], y)
    BY DEF Inside, InBlock, OnList
  <2>2. \A y : Inside(y)' <=> \E u \in Threads : OnList(blocks'[u], y)
    BY DEF Inside, InBlock, OnList
  <2>3. QED
    BY <1>5, <1>7, <2>1, <2>2
<1>12. \A u \in Threads : \A y, z :
         Below(blocks'[u], y, z) => Below(blocks[u], y, z) \/ (Inside(y) /\ z = x)
  <2>1. \A y : OnList(blocks[t], y) => Inside(y)
    BY DEF Inside, InBlock, OnList
  <2>2. QED
    BY <1>5, <1>7, <2>1
<1>13. QED
  BY <1>2, <1>3, <1>4, <1>8, <1>9, <1>10, <1>11, <1>12

\* Leaving a with block takes away the object of that block only.
LEMMA LeaveFacts ==
  ASSUME IInv, NEW t \in Threads, blocks[t] # <<>>,
         blocks' = [blocks EXCEPT ![t] = SubSeq(@, 1, Len(@) - 1)]
  PROVE  /\ blocks' \in [Threads -> Seq(Tracers)]
         /\ OneThreadInBlocks'
         /\ \A u \in Threads : Distinct(blocks'[u])
         /\ \A y : Inside(y)' <=> Inside(y) /\ y # Leaver(t)
         /\ \A u \in Threads : \A y, z : Below(blocks'[u], y, z) => Below(blocks[u], y, z)
<1> DEFINE b == ll_pop(blocks[t])
<1>1. blocks \in [Threads -> Seq(Tracers)] /\ blocks[t] \in Seq(Tracers)
  BY DEF IInv, TypeOK
<1>2. \A u \in Threads \ {t} : blocks[u] = <<>>
  BY DEF IInv, OneThreadInBlocks
<1>3. Leaver(t) = ll_get(blocks[t])
  BY LeaverFacts
<1>4. /\ b \in Seq(Tracers) /\ Distinct(b)
      /\ \A y : OnList(b, y) <=> OnList(blocks[t], y) /\ y # Leaver(t)
      /\ \A y, z : Below(b, y, z) => Below(blocks[t], y, z)
  BY <1>1, <1>3, PopFacts, PopOrder DEF IInv, ListsDistinct
<1>5. blocks' = [blocks EXCEPT ![t] = b]
  BY DEF ll_pop
<1> HIDE DEF b
<1>6. blocks'[t] = b /\ \A u \in Threads \ {t} : blocks'[u] = blocks[u]
  BY <1>1, <1>5
<1>7. blocks' \in [Threads -> Seq(Tracers)]
  BY <1>1, <1>4, <1>5
<1>8. OneThreadInBlocks'
  BY <1>2, <1>6 DEF OneThreadInBlocks
<1>9. \A u \in Threads : Distinct(blocks'[u])
  BY <1>4, <1>6 DEF IInv, ListsDistinct
<1>10. \A y : Inside(y)' <=> Inside(y) /\ y # Leaver(t)
  <2>1. \A y : Inside(y) <=> \E u \in Threads : OnList(blocks[u], y)
    BY DEF Inside, InBlock, OnList
  <2>2. \A y : Inside(y)' <=> \E u \in Threads : OnList(blocks'[u], y)
    BY DEF Inside, InBlock, OnList
  <2>3. \A u \in Threads \ {t} : \A y : ~ OnList(blocks[u], y)
    BY <1>2, EmptyList
  <2>4. QED
    BY <1>4, <1>6, <2>1, <2>2, <2>3
<1>11. \A u \in Threads : \A y, z : Below(blocks'[u], y, z) => Below(blocks[u], y, z)
  BY <1>4, <1>6
<1>12. QED
  BY <1>7, <1>8, <1>9, <1>10, <1>11

\* The parts of the invariant that are about blocks and lists alone survive
\* every step that leaves these as they are.
LEMMA SameLists ==
  ASSUME IInv, UNCHANGED <<blocks, simple_ll, file_ll>>
  PROVE  /\ \A y : Inside(y)' <=> Inside(y)
         /\ Abandoned' = Abandoned
         /\ OneThreadInBlocks'
         /\ ListsDistinct'
         /\ ListsMatchBlocks'
         /\ Innermost' = Innermost
<1>1. \A y : Inside(y)' <=> Inside(y)
  BY DEF Inside, InBlock
<1>2. Abandoned' = Abandoned
  BY DEF Abandoned, InBlock
<1>3. OneThreadInBlocks' /\ ListsDistinct' /\ Innermost' = Innermost
  BY DEF IInv, OneThreadInBlocks, ListsDistinct, Innermost
<1>4. ListsMatchBlocks'
  BY <1>1 DEF IInv, ListsMatchBlocks
<1>5. QED
  BY <1>1, <1>2, <1>3, <1>4

\* A thread that runs is not in a callback, and neither is any other.
LEMMA RunsFacts ==
  ASSUME NEW t \in Threads, Runs(t)
  PROVE  fault = "none" /\ \A u \in Threads : callback[u] = None
  BY DEF Runs

\* A failing assertion ends the program and changes nothing else.  It has to
\* be shown that it is one that may fail.
LEMMA AbortStep ==
  ASSUME IInv, NEW why, Aborts(why), why \in {"mismatch", "unregistered"},
         why = "mismatch" => Abandoned # {},
         why = "unregistered" => stopped # "no" \/ Abandoned # {} \/ "mixed" \in Usage
  PROVE  IInv'
<1>1. /\ fault' = why
      /\ UNCHANGED <<blocks, simple_ll, file_ll, slot, callback, used, log_file, count,
                     marker, stopped>>
  BY DEF Aborts
<1>2. /\ \A y : Inside(y)' <=> Inside(y)
      /\ Abandoned' = Abandoned
      /\ OneThreadInBlocks' /\ ListsDistinct' /\ ListsMatchBlocks'
      /\ Innermost' = Innermost
  BY <1>1, SameLists
<1>3. TypeOK' /\ NoFault'
  BY <1>1, <1>2 DEF IInv, TypeOK, NoFault
<1>4. OpenOnList' /\ CalledIsHead' /\ OneCallback' /\ LogsTellTheTruth' /\ StoppedIsSilent'
  BY <1>1 DEF IInv, OpenOnList, CalledIsHead, OneCallback, LogsTellTheTruth, StoppedIsSilent
<1>5. InnermostIsCalled'
  BY <1>1, <1>2 DEF IInv, InnermostIsCalled
<1>6. QED
  BY <1>2, <1>3, <1>4, <1>5 DEF IInv

-----------------------------------------------------------------------------
(* The steps.                                                              *)

\* __enter__ of a tracer without log preserves the invariant.
LEMMA EnterSimpleStep ==
  ASSUME IInv, NEW t \in Threads, NEW x \in Simple, EnterSimple(t, x)
  PROVE  IInv'
<1>1. /\ MayEnter(t, x)
      /\ simple_ll' = ll_push(simple_ll, x) /\ slot' = x
      /\ blocks' = [blocks EXCEPT ![t] = Append(@, x)]
      /\ used' = used \cup {x} /\ stopped' = "no"
      /\ UNCHANGED <<file_ll, callback, log_file, count, marker, fault>>
  BY DEF EnterSimple, reference_tracing_simple_ll_push, EnterBlock
<1>2. fault = "none" /\ \A u \in Threads : callback[u] = None
  BY <1>1, RunsFacts DEF MayEnter
<1>3. x \in Tracers /\ x \notin Files /\ x # None
  BY Classes
<1>4. /\ blocks' \in [Threads -> Seq(Tracers)]
      /\ OneThreadInBlocks'
      /\ \A u \in Threads : Distinct(blocks'[u])
      /\ \A y : Inside(y)' <=> Inside(y) \/ y = x
      /\ \A u \in Threads : \A y, z :
           Below(blocks'[u], y, z) => Below(blocks[u], y, z) \/ (Inside(y) /\ z = x)
      /\ ~ OnList(simple_ll, x)
  BY <1>1, <1>3, EnterFacts
<1>5. simple_ll \in Seq(Simple)
  BY DEF IInv, TypeOK
<1>6. /\ simple_ll' \in Seq(Simple) /\ ll_get(simple_ll') = x
      /\ \A y : OnList(simple_ll', y) <=> OnList(simple_ll, y) \/ y = x
      /\ \A y, z : Below(simple_ll', y, z)
                     <=> Below(simple_ll, y, z) \/ (OnList(simple_ll, y) /\ z = x)
      /\ Distinct(simple_ll')
  <2> DEFINE l == ll_push(simple_ll, x)
  <2>1. l \in Seq(Simple) /\ ll_get(l) = x /\ l # <<>>
    BY <1>5, PushFacts
  <2>2. Distinct(simple_ll)
    BY DEF IInv, ListsDistinct
  <2>3. /\ \A y : OnList(l, y) <=> OnList(simple_ll, y) \/ y = x
        /\ \A y, z : Below(l, y, z)
                       <=> Below(simple_ll, y, z) \/ (OnList(simple_ll, y) /\ z = x)
        /\ Distinct(l)
    BY <1>4, <1>5, <2>2, PushOrder
  <2>4. simple_ll' = l
    BY <1>1
  <2> HIDE DEF l
  <2>5. QED
    BY <2>1, <2>3, <2>4
<1>7. TypeOK'
  BY <1>1, <1>3, <1>4, <1>6 DEF IInv, TypeOK
<1>8. NoFault' /\ StoppedIsSilent'
  BY <1>1, <1>2 DEF NoFault, StoppedIsSilent
<1>9. ListsDistinct'
  BY <1>1, <1>4, <1>6 DEF IInv, ListsDistinct
<1>10. ListsMatchBlocks'
  BY <1>1, <1>3, <1>4, <1>6 DEF IInv, ListsMatchBlocks
<1>11. OpenOnList'
  BY <1>1 DEF IInv, OpenOnList
<1>12. CalledIsHead' /\ OneCallback'
  BY <1>1, <1>2, <1>3, <1>6 DEF CalledIsHead, OneCallback
<1>13. LogsTellTheTruth'
  BY <1>1, <1>2, <1>3 DEF IInv, LogsTellTheTruth
<1>14. InnermostIsCalled'
  BY <1>1, <1>6 DEF InnermostIsCalled, MayEnter, Innermost, NotMixed
<1>15. QED
  BY <1>4, <1>7, <1>8, <1>9, <1>10, <1>11, <1>12, <1>13, <1>14 DEF IInv

\* __enter__ of a tracer with a log preserves the invariant.
LEMMA EnterFileStep ==
  ASSUME IInv, NEW t \in Threads, NEW x \in Files, EnterFile(t, x)
  PROVE  IInv'
<1> DEFINE head == ll_get(file_ll)
<1>1. /\ MayEnter(t, x)
      /\ log_file' = [log_file EXCEPT ![x] = "open"]
      /\ marker' = MarkersOnEnter(x)
      /\ file_ll' = ll_push(file_ll, x) /\ slot' = x
      /\ blocks' = [blocks EXCEPT ![t] = Append(@, x)]
      /\ used' = used \cup {x} /\ stopped' = "no"
      /\ UNCHANGED <<simple_ll, callback, count, fault>>
  BY DEF EnterFile, reference_tracing_ll_push, EnterBlock
<1>2. fault = "none" /\ \A u \in Threads : callback[u] = None
  BY <1>1, RunsFacts DEF MayEnter
<1>3. x \in Tracers /\ x \notin Simple /\ x # None
  BY Classes
<1>4. /\ blocks' \in [Threads -> Seq(Tracers)]
      /\ OneThreadInBlocks'
      /\ \A u \in Threads : Distinct(blocks'[u])
      /\ \A y : Inside(y)' <=> Inside(y) \/ y = x
      /\ \A u \in Threads : \A y, z :
           Below(blocks'[u], y, z) => Below(blocks[u], y, z) \/ (Inside(y) /\ z = x)
      /\ ~ OnList(file_ll, x)
  BY <1>1, <1>3, EnterFacts
<1>5. file_ll \in Seq(Files)
  BY DEF IInv, TypeOK
<1>6. /\ file_ll' \in Seq(Files) /\ ll_get(file_ll') = x /\ file_ll' # <<>>
      /\ \A y : OnList(file_ll', y) <=> OnList(file_ll, y) \/ y = x
      /\ \A y, z : Below(file_ll', y, z)
                     <=> Below(file_ll, y, z) \/ (OnList(file_ll, y) /\ z = x)
      /\ Distinct(file_ll')
  <2> DEFINE l == ll_push(file_ll, x)
  <2>1. l \in Seq(Files) /\ ll_get(l) = x /\ l # <<>>
    BY <1>5, PushFacts
  <2>2. Distinct(file_ll)
    BY DEF IInv, ListsDistinct
  <2>3. /\ \A y : OnList(l, y) <=> OnList(file_ll, y) \/ y = x
        /\ \A y, z : Below(l, y, z)
                       <=> Below(file_ll, y, z) \/ (OnList(file_ll, y) /\ z = x)
        /\ Distinct(l)
    BY <1>4, <1>5, <2>2, PushOrder
  <2>4. file_ll' = l
    BY <1>1
  <2> HIDE DEF l
  <2>5. QED
    BY <2>1, <2>3, <2>4
<1>7. /\ marker' \in [Files -> {"none", "start", "detach", "reattach", "suspend",
                                "resume", "end"}]
      /\ marker'[x] = "start"
      /\ \A y \in Files \ {x} : marker'[y] = IF y = head THEN "detach" ELSE marker[y]
  <2>1. head = None \/ head \in Files
    BY <1>5, GetFacts
  <2>2. QED
    BY <1>1, <2>1, Classes DEF IInv, TypeOK, MarkersOnEnter, Annotate,
                               reference_tracing_ll_get_data
<1>8. log_file' \in [Files -> {"none", "open", "closed"}]
      /\ log_file'[x] = "open" /\ \A y \in Files \ {x} : log_file'[y] = log_file[y]
  BY <1>1 DEF IInv, TypeOK
<1>9. TypeOK'
  BY <1>1, <1>3, <1>4, <1>6, <1>7, <1>8 DEF IInv, TypeOK
<1>10. NoFault' /\ StoppedIsSilent'
  BY <1>1, <1>2 DEF NoFault, StoppedIsSilent
<1>11. ListsDistinct'
  BY <1>1, <1>4, <1>6 DEF IInv, ListsDistinct
<1>12. ListsMatchBlocks'
  BY <1>1, <1>3, <1>4, <1>6 DEF IInv, ListsMatchBlocks
<1>13. OpenOnList'
  BY <1>2, <1>6, <1>8 DEF IInv, OpenOnList
<1>14. CalledIsHead' /\ OneCallback'
  BY <1>1, <1>2, <1>3, <1>6 DEF CalledIsHead, OneCallback
<1>15. LogsTellTheTruth'
  BY <1>1, <1>2, <1>4, <1>6, <1>7 DEF IInv, LogsTellTheTruth
<1>16. InnermostIsCalled'
  BY <1>1, <1>3, <1>6 DEF InnermostIsCalled, MayEnter, Innermost, NotMixed
<1>17. QED
  BY <1>4, <1>9, <1>10, <1>11, <1>12, <1>13, <1>14, <1>15, <1>16 DEF IInv

\* __exit__ of a tracer without log finds that tracer at the head of its list.
LEMMA ExitSimpleFacts ==
  ASSUME IInv, NEW t \in Threads, ExitSimple(t)
  PROVE  /\ Runs(t) /\ blocks[t] # <<>> /\ Leaver(t) \in Simple
         /\ fault = "none" /\ \A u \in Threads : callback[u] = None
         /\ simple_ll' = ll_pop(simple_ll)
         /\ slot' = ll_get(simple_ll')
         /\ LeaveBlock(t)
         /\ UNCHANGED <<file_ll, callback, used, log_file, count, marker, fault>>
<1>1. Runs(t) /\ blocks[t] # <<>> /\ Leaver(t) \in Simple
  BY DEF ExitSimple, Leaving
<1>2. ll_get(simple_ll) = Leaver(t) /\ Leaver(t) # None
  BY <1>1, LeaverFacts, Classes
<1>3. QED
  BY <1>1, <1>2, RunsFacts DEF ExitSimple, reference_tracing_simple_ll_pop,
                               reference_tracing_simple_ll_get_data

\* So it pops that tracer.
LEMMA ExitSimpleStep ==
  ASSUME IInv, NEW t \in Threads, ExitSimple(t)
  PROVE  IInv'
<1> DEFINE x == Leaver(t)
<1>1. /\ Runs(t) /\ blocks[t] # <<>> /\ x \in Simple
      /\ simple_ll' = ll_pop(simple_ll)
      /\ slot' = ll_get(simple_ll')
      /\ blocks' = [blocks EXCEPT ![t] = SubSeq(@, 1, Len(@) - 1)]
      /\ stopped' = "no"
      /\ UNCHANGED <<file_ll, callback, used, log_file, count, marker, fault>>
  BY ExitSimpleFacts DEF LeaveBlock
<1>2. fault = "none" /\ \A u \in Threads : callback[u] = None
  BY <1>1, RunsFacts
<1>3. simple_ll # <<>> /\ x = ll_get(simple_ll)
  BY <1>1, LeaverFacts
<1>4. /\ blocks' \in [Threads -> Seq(Tracers)]
      /\ OneThreadInBlocks'
      /\ \A u \in Threads : Distinct(blocks'[u])
      /\ \A y : Inside(y)' <=> Inside(y) /\ y # x
      /\ \A u \in Threads : \A y, z : Below(blocks'[u], y, z) => Below(blocks[u], y, z)
  BY <1>1, LeaveFacts
<1> HIDE DEF x
<1>5. simple_ll \in Seq(Simple) /\ Distinct(simple_ll)
  BY DEF IInv, TypeOK, ListsDistinct
<1>6. /\ simple_ll' \in Seq(Simple)
      /\ \A y : OnList(simple_ll', y) <=> OnList(simple_ll, y) /\ y # x
      /\ \A y, z : Below(simple_ll', y, z) <=> Below(simple_ll, y, z) /\ z # x
      /\ Distinct(simple_ll')
  <2>1. ll_pop(simple_ll) \in Seq(Simple)
    BY <1>3, <1>5, PopFacts
  <2>2. QED
    BY <1>1, <1>3, <1>5, <2>1, PopOrder
<1>7. slot' \in Simple \cup {None}
  BY <1>1, <1>6, GetFacts
<1>8. TypeOK'
  BY <1>1, <1>4, <1>6, <1>7 DEF IInv, TypeOK, Tracers
<1>9. NoFault' /\ StoppedIsSilent'
  BY <1>1, <1>2 DEF NoFault, StoppedIsSilent
<1>10. ListsDistinct'
  BY <1>1, <1>4, <1>6 DEF IInv, ListsDistinct
<1>11. ListsMatchBlocks'
  <2>1. \A u \in Threads : \A y, z : Below(blocks'[u], y, z) => z # x
    <3>1. \A u \in Threads : \A y, z : Below(blocks'[u], y, z) => OnList(blocks'[u], z)
      BY <1>4, HeadOnTop
    <3>2. \A u \in Threads : \A z : OnList(blocks'[u], z) => Inside(z)'
      BY DEF Inside, InBlock, OnList
    <3>3. QED
      BY <1>4, <3>1, <3>2
  <2>2. QED
    BY <1>1, <1>4, <1>6, <2>1, Classes DEF IInv, ListsMatchBlocks
<1>12. OpenOnList'
  BY <1>1 DEF IInv, OpenOnList
<1>13. CalledIsHead' /\ OneCallback'
  BY <1>1, <1>2, <1>7, Classes DEF CalledIsHead, OneCallback
<1>14. LogsTellTheTruth'
  BY <1>1, <1>2, <1>7, Classes DEF IInv, LogsTellTheTruth
<1>15. InnermostIsCalled'
  BY <1>1, <1>3 DEF IInv, InnermostIsCalled, Innermost
<1>16. QED
  BY <1>4, <1>8, <1>9, <1>10, <1>11, <1>12, <1>13, <1>14, <1>15 DEF IInv

\* __exit__ of a tracer with a log finds that tracer at the head of the list,
\* with its log and that of the node below open, unless one is abandoned.
LEMMA ExitFileFacts ==
  ASSUME IInv, NEW t \in Threads, ExitFile(t)
  PROVE  /\ fault = "none" /\ \A u \in Threads : callback[u] = None
         /\ \/ /\ ll_get(file_ll) = Leaver(t)
               /\ file_ll' = ll_pop(file_ll)
               /\ log_file' = [log_file EXCEPT ![Leaver(t)] = "closed"]
               /\ marker' = [Annotate(ll_get(ll_pop(file_ll)), "reattach")
                               EXCEPT ![Leaver(t)] = "end"]
               /\ slot' = ll_get(ll_pop(file_ll))
               /\ LeaveBlock(t)
               /\ UNCHANGED <<simple_ll, callback, used, count, fault>>
            \/ Abandoned # {} /\ Aborts("mismatch")
<1> DEFINE x == Leaver(t)
           popped == ll_get(file_ll)
           head == ll_get(ll_pop(file_ll))
<1>1. Runs(t) /\ blocks[t] # <<>> /\ x \in Files
  BY DEF ExitFile, Leaving
<1>2. fault = "none" /\ \A u \in Threads : callback[u] = None
  BY <1>1, RunsFacts
<1>3. file_ll # <<>> /\ OnList(file_ll, x) /\ log_file[x] = "open" /\ x = ll_get(blocks[t])
  BY <1>1, <1>2, LeaverFacts
<1>4. /\ file_ll \in Seq(Files) /\ Distinct(file_ll) /\ blocks[t] \in Seq(Tracers)
      /\ popped \in Files /\ OnList(file_ll, popped)
  BY <1>3, HeadOnTop DEF IInv, TypeOK, ListsDistinct
<1>5. head # None => head \in Files /\ log_file[head] = "open"
  <2>1. ll_pop(file_ll) \in Seq(Files)
    BY <1>3, <1>4, PopFacts
  <2>2. head # None => OnList(ll_pop(file_ll), head) /\ head \in Files
    BY <2>1, GetFacts, HeadOnTop
  <2>3. head # None => OnList(file_ll, head)
    BY <1>3, <1>4, <2>2, PopOrder
  <2>4. QED
    BY <1>2, <2>2, <2>3 DEF IInv, OpenOnList
<1>6. ASSUME popped # x PROVE Abandoned # {}
  <2> SUFFICES ASSUME NEW u \in Threads, InBlock(u, popped) PROVE FALSE
    BY <1>4 DEF Abandoned
  <2>1. u = t
    <3>1. blocks[u] # <<>>
      BY DEF InBlock
    <3>2. QED
      BY <1>1, <3>1 DEF IInv, OneThreadInBlocks
  <2>2. OnList(blocks[t], popped)
    BY <2>1 DEF InBlock, OnList
  <2>3. Below(blocks[t], popped, x)
    BY <1>3, <1>4, <1>6, <2>2, HeadOnTop
  <2>4. Below(file_ll, popped, x)
    BY <1>1, <1>4, <2>3 DEF IInv, ListsMatchBlocks
  <2>5. QED
    BY <1>4, <2>4, HeadOnTop
<1>7. popped # None /\ x # None /\ \A y \in {x, head} \ {None} : log_file[y] = "open"
  BY <1>1, <1>3, <1>4, <1>5, Classes
<1>8. QED
  <2> HIDE DEF x, popped, head
  <2>1. \/ /\ popped = x
           /\ file_ll' = ll_pop(file_ll)
           /\ log_file' = [log_file EXCEPT ![x] = "closed"]
           /\ marker' = [Annotate(head, "reattach") EXCEPT ![x] = "end"]
           /\ slot' = head
           /\ LeaveBlock(t)
           /\ UNCHANGED <<simple_ll, callback, used, count, fault>>
        \/ popped # x /\ Aborts("mismatch")
    BY <1>7 DEF ExitFile, reference_tracing_ll_pop, reference_tracing_ll_get_data, x, popped,
                head
  <2>2. QED
    BY <1>2, <1>6, <2>1 DEF x, popped, head

\* So it pops that tracer, or ends the program if one is abandoned.
LEMMA ExitFileStep ==
  ASSUME IInv, NEW t \in Threads, ExitFile(t)
  PROVE  IInv'
<1> DEFINE x == Leaver(t)
           head == ll_get(ll_pop(file_ll))
<1> SUFFICES ASSUME ~ (Abandoned # {} /\ Aborts("mismatch")) PROVE IInv'
  BY AbortStep
<1>1. /\ Runs(t) /\ blocks[t] # <<>> /\ x \in Files
      /\ x = ll_get(file_ll)
      /\ file_ll' = ll_pop(file_ll)
      /\ log_file' = [log_file EXCEPT ![x] = "closed"]
      /\ marker' = [Annotate(head, "reattach") EXCEPT ![x] = "end"]
      /\ slot' = head
      /\ blocks' = [blocks EXCEPT ![t] = SubSeq(@, 1, Len(@) - 1)]
      /\ stopped' = "no"
      /\ UNCHANGED <<simple_ll, callback, used, count, fault>>
  <2>1. Runs(t) /\ blocks[t] # <<>> /\ x \in Files
    BY DEF ExitFile, Leaving
  <2>2. QED
    BY <2>1, ExitFileFacts DEF LeaveBlock
<1>2. fault = "none" /\ \A u \in Threads : callback[u] = None
  BY <1>1, RunsFacts
<1>3. file_ll # <<>> /\ OnList(file_ll, x) /\ x = ll_get(blocks[t])
  BY <1>1, LeaverFacts
<1>4. /\ blocks' \in [Threads -> Seq(Tracers)]
      /\ OneThreadInBlocks'
      /\ \A u \in Threads : Distinct(blocks'[u])
      /\ \A y : Inside(y)' <=> Inside(y) /\ y # x
      /\ \A u \in Threads : \A y, z : Below(blocks'[u], y, z) => Below(blocks[u], y, z)
  BY <1>1, LeaveFacts
<1> HIDE DEF x
<1>5. file_ll \in Seq(Files) /\ Distinct(file_ll) /\ blocks[t] \in Seq(Tracers)
  BY DEF IInv, TypeOK, ListsDistinct
<1>6. /\ file_ll' \in Seq(Files)
      /\ \A y : OnList(file_ll', y) <=> OnList(file_ll, y) /\ y # x
      /\ \A y, z : Below(file_ll', y, z) <=> Below(file_ll, y, z) /\ z # x
      /\ Distinct(file_ll')
      /\ head = ll_get(file_ll')
  <2>1. ll_pop(file_ll) \in Seq(Files)
    BY <1>3, <1>5, PopFacts
  <2>2. QED
    BY <1>1, <1>3, <1>5, <2>1, PopOrder
<1>7. /\ head = None \/ (head \in Files /\ OnList(file_ll', head))
      /\ head # x
  <2>1. file_ll' = <<>> => head = None
    BY <1>6, GetFacts
  <2>2. file_ll' # <<>> => head \in Files /\ OnList(file_ll', head)
    BY <1>6, HeadOnTop
  <2>3. QED
    BY <1>1, <1>6, <2>1, <2>2, Classes
<1> HIDE DEF head
<1>8. \A y \in Files : Inside(y)' => OnList(file_ll', y)
  BY <1>4, <1>6 DEF IInv, ListsMatchBlocks
<1>9. /\ marker' \in [Files -> {"none", "start", "detach", "reattach", "suspend",
                                "resume", "end"}]
      /\ head # None => marker'[head] = "reattach"
      /\ \A y \in Files \ {x, head} : marker'[y] = marker[y]
  BY <1>1, <1>7, Classes DEF IInv, TypeOK, Annotate
<1>10. /\ log_file' \in [Files -> {"none", "open", "closed"}]
       /\ \A y \in Files \ {x} : log_file'[y] = log_file[y]
  BY <1>1 DEF IInv, TypeOK
<1>11. TypeOK'
  BY <1>1, <1>4, <1>6, <1>7, <1>9, <1>10 DEF IInv, TypeOK, Tracers
<1>12. NoFault'
  BY <1>1, <1>2 DEF NoFault
<1>13. StoppedIsSilent'
  BY <1>1 DEF StoppedIsSilent
<1>14. ListsDistinct'
  BY <1>1, <1>4, <1>6 DEF IInv, ListsDistinct
<1>15. ListsMatchBlocks'
  <2>1. \A u \in Threads : \A y : \A z \in Files : Below(blocks'[u], y, z) => z # x
    <3>1. \A u \in Threads : \A y, z : Below(blocks'[u], y, z) => OnList(blocks'[u], z)
      BY <1>4, HeadOnTop
    <3>2. \A u \in Threads : \A z : OnList(blocks'[u], z) => Inside(z)'
      BY DEF Inside, InBlock, OnList
    <3>3. QED
      BY <1>6, <1>8, <3>1, <3>2
  <2>2. QED
    BY <1>1, <1>4, <1>6, <1>8, <2>1, Classes DEF IInv, ListsMatchBlocks
<1>16. OpenOnList'
  BY <1>2, <1>6, <1>10 DEF IInv, OpenOnList
<1>17. CalledIsHead' /\ OneCallback'
  BY <1>1, <1>2, <1>6, <1>7, Classes DEF CalledIsHead, OneCallback
<1>18. LogsTellTheTruth'
  <2>1. slot' \in Files => marker'[slot'] = "reattach"
    BY <1>1, <1>9, Classes
  <2>2. ASSUME NEW y \in Files, OnList(file_ll', y), y # ll_get(file_ll')
        PROVE  marker'[y] = "detach"
    BY <1>1, <1>2, <1>6, <1>9, <2>2 DEF IInv, LogsTellTheTruth
  <2>3. QED
    BY <1>1, <1>2, <2>1, <2>2 DEF LogsTellTheTruth
<1>19. InnermostIsCalled'
  <2>1. NotMixed => simple_ll' = <<>>
    BY <1>1, <1>3 DEF IInv, InnermostIsCalled
  <2>2. NotMixed => slot' = Innermost'
    BY <1>1, <1>6, <2>1 DEF Innermost, ll_get
  <2>3. QED
    BY <2>1, <2>2 DEF InnermostIsCalled
<1>20. QED
  BY <1>4, <1>11, <1>12, <1>13, <1>14, <1>15, <1>16, <1>17, <1>18, <1>19 DEF IInv

\* A failure of gc.collect() abandons the tracer whose block is left.
LEMMA ExitFileGcFailsStep ==
  ASSUME IInv, NEW t \in Threads, ExitFileGcFails(t)
  PROVE  IInv'
<1> DEFINE x == Leaver(t)
<1>1. /\ Runs(t) /\ blocks[t] # <<>> /\ x \in Files
      /\ blocks' = [blocks EXCEPT ![t] = SubSeq(@, 1, Len(@) - 1)]
      /\ stopped' = "no"
      /\ UNCHANGED <<simple_ll, file_ll, slot, callback, used, log_file, count, marker, fault>>
  BY DEF ExitFileGcFails, Leaving, LeaveBlock
<1>2. fault = "none"
  BY <1>1, RunsFacts
<1>3. OnList(file_ll, x)
  BY <1>1, LeaverFacts
<1>4. /\ blocks' \in [Threads -> Seq(Tracers)]
      /\ OneThreadInBlocks'
      /\ \A u \in Threads : Distinct(blocks'[u])
      /\ \A y : Inside(y)' <=> Inside(y) /\ y # x
      /\ \A u \in Threads : \A y, z : Below(blocks'[u], y, z) => Below(blocks[u], y, z)
  BY <1>1, LeaveFacts
<1> HIDE DEF x
<1>5. x \in Abandoned'
  BY <1>1, <1>3, <1>4 DEF Abandoned, Inside
<1>6. TypeOK'
  BY <1>1, <1>4 DEF IInv, TypeOK
<1>7. NoFault' /\ StoppedIsSilent' /\ CalledIsHead' /\ OneCallback' /\ LogsTellTheTruth'
  BY <1>1, <1>2 DEF IInv, NoFault, StoppedIsSilent, CalledIsHead, OneCallback, LogsTellTheTruth
<1>8. ListsDistinct'
  BY <1>1, <1>4 DEF IInv, ListsDistinct
<1>9. ListsMatchBlocks'
  BY <1>1, <1>4, Classes DEF IInv, ListsMatchBlocks
<1>10. OpenOnList'
  BY <1>1 DEF IInv, OpenOnList
<1>11. InnermostIsCalled'
  BY <1>1, <1>5 DEF IInv, InnermostIsCalled
<1>12. QED
  BY <1>4, <1>6, <1>7, <1>8, <1>9, <1>10, <1>11 DEF IInv

-----------------------------------------------------------------------------
(* The steps that leave blocks and lists alone.                            *)

\* A log that can not be opened stops the tracer around it.
LEMMA EnterFileFailsStep ==
  ASSUME IInv, NEW t \in Threads, NEW x \in Files, EnterFileFails(t, x)
  PROVE  IInv'
<1>1. /\ MayEnter(t, x)
      /\ slot' = None
      /\ log_file' = [log_file EXCEPT ![x] = "none"]
      /\ stopped' = IF blocks[t] = <<>> THEN "no" ELSE "failure"
      /\ UNCHANGED <<blocks, simple_ll, file_ll, callback, used, count, marker, fault>>
  BY DEF EnterFileFails
<1>2. /\ fault = "none" /\ \A u \in Threads : callback[u] = None
      /\ \A u \in Threads \ {t} : blocks[u] = <<>>
      /\ ~ OnList(file_ll, x)
  BY <1>1, RunsFacts DEF MayEnter
<1>3. /\ \A y : Inside(y)' <=> Inside(y)
      /\ OneThreadInBlocks' /\ ListsDistinct' /\ ListsMatchBlocks'
  BY <1>1, SameLists
<1>4. TypeOK'
  BY <1>1 DEF IInv, TypeOK
<1>5. NoFault' /\ StoppedIsSilent' /\ OneCallback'
  BY <1>1, <1>2 DEF NoFault, StoppedIsSilent, OneCallback
<1>6. OpenOnList'
  BY <1>1, <1>2 DEF IInv, TypeOK, OpenOnList
<1>7. CalledIsHead' /\ LogsTellTheTruth'
  BY <1>1, <1>2, Classes DEF IInv, CalledIsHead, LogsTellTheTruth
<1>8. InnermostIsCalled'
  <2>1. stopped' = "no" => \A u \in Threads : blocks'[u] = <<>>
    BY <1>1, <1>2
  <2>2. NotMixed => simple_ll' = <<>> \/ file_ll' = <<>>
    BY <1>1 DEF IInv, InnermostIsCalled
  <2>3. QED
    BY <2>1, <2>2 DEF InnermostIsCalled
<1>9. QED
  BY <1>3, <1>4, <1>5, <1>6, <1>7, <1>8 DEF IInv

\* In a with block something is registered, unless it is stopped, a tracer is
\* abandoned, or the classes are mixed.
LEMMA SomethingRegistered ==
  ASSUME IInv, NEW t \in Threads, Runs(t), NEW x \in Tracers, InBlock(t, x), slot = None
  PROVE  stopped # "no" \/ Abandoned # {} \/ "mixed" \in Usage
<1> SUFFICES ASSUME NotMixed, Abandoned = {}, stopped = "no" PROVE FALSE
  BY DEF NotMixed
<1>1. blocks[t] # <<>>
  BY DEF InBlock
<1>2. slot = Innermost
  BY <1>1, RunsFacts DEF IInv, InnermostIsCalled
<1>3. Innermost = Leaver(t) /\ Leaver(t) \in Tracers
  BY <1>1, InnermostIsLeaver, LeaverFacts
<1>4. QED
  BY <1>2, <1>3, Classes

\* Stopping what is called, or failing to, leaves nothing called or all as it is.
LEMMA SuspendStep ==
  ASSUME IInv, NEW t \in Threads, NEW x \in Tracers,
         (x \in Simple /\ SuspendSimple(t, x)) \/ (x \in Files /\ SuspendFile(t, x))
  PROVE  IInv'
<1> DEFINE head == ll_get(file_ll)
<1>1. /\ Runs(t) /\ InBlock(t, x)
      /\ \/ slot' = None /\ stopped' = "suspended" /\ fault' = fault
         \/ slot \notin {head, None} /\ UNCHANGED <<slot, stopped, fault>>
         \/ slot = None /\ fault' = "unregistered" /\ UNCHANGED <<slot, stopped>>
      /\ marker' = marker \/ (x \in Files /\ marker' = Annotate(head, "suspend"))
      /\ UNCHANGED <<blocks, simple_ll, file_ll, callback, used, log_file, count>>
  BY DEF SuspendSimple, SuspendFile, Suspended, Aborts, reference_tracing_ll_get_data
<1>2. fault = "none" /\ \A u \in Threads : callback[u] = None
  BY <1>1, RunsFacts
<1>3. /\ \A y : Inside(y)' <=> Inside(y)
      /\ Abandoned' = Abandoned
      /\ OneThreadInBlocks' /\ ListsDistinct' /\ ListsMatchBlocks'
      /\ Innermost' = Innermost
  BY <1>1, SameLists
<1>4. head = None \/ head \in Files
  BY GetFacts DEF IInv, TypeOK
<1>5. /\ marker' \in [Files -> {"none", "start", "detach", "reattach", "suspend",
                                "resume", "end"}]
      /\ \A y \in Files \ {head} : marker'[y] = marker[y]
  BY <1>1, <1>4 DEF IInv, TypeOK, Annotate
<1>6. TypeOK'
  BY <1>1, <1>5 DEF IInv, TypeOK
<1>7. NoFault'
  <2>1. slot = None => stopped # "no" \/ Abandoned # {} \/ "mixed" \in Usage
    BY <1>1, SomethingRegistered
  <2>2. QED
    BY <1>1, <1>2, <1>3, <2>1 DEF NoFault
<1>8. StoppedIsSilent' /\ OneCallback'
  BY <1>1, <1>2 DEF IInv, StoppedIsSilent, OneCallback
<1>9. OpenOnList'
  BY <1>1, <1>2 DEF IInv, OpenOnList
<1>10. CalledIsHead'
  BY <1>1, Classes DEF IInv, CalledIsHead
<1>11. slot' \notin Files \/ (slot' \in Files /\ marker' = marker /\ slot' = slot)
  BY <1>1, Classes DEF IInv, CalledIsHead
<1>12. LogsTellTheTruth'
  BY <1>1, <1>2, <1>5, <1>11 DEF IInv, LogsTellTheTruth
<1>13. InnermostIsCalled'
  BY <1>1, <1>2, <1>3 DEF IInv, InnermostIsCalled
<1>14. QED
  BY <1>3, <1>6, <1>7, <1>8, <1>9, <1>10, <1>12, <1>13 DEF IInv

\* Resuming registers the head of the list of the class.
LEMMA ResumeSimpleStep ==
  ASSUME IInv, NEW t \in Threads, NEW x \in Simple, ResumeSimple(t, x)
  PROVE  IInv'
<1>1. /\ Runs(t) /\ InBlock(t, x)
      /\ slot' = ll_get(simple_ll) /\ stopped' = "no"
      /\ UNCHANGED <<blocks, simple_ll, file_ll, callback, used, log_file, count, marker, fault>>
  BY DEF ResumeSimple, reference_tracing_simple_ll_get_data
<1>2. fault = "none" /\ \A u \in Threads : callback[u] = None
  BY <1>1, RunsFacts
<1>3. /\ \A y : Inside(y)' <=> Inside(y)
      /\ OneThreadInBlocks' /\ ListsDistinct' /\ ListsMatchBlocks'
      /\ Innermost' = Innermost
  BY <1>1, SameLists
<1>4. simple_ll # <<>> /\ slot' \in Simple
  <2>1. OnList(simple_ll, x)
    BY <1>1 DEF IInv, ListsMatchBlocks, Inside
  <2>2. QED
    BY <1>1, <2>1, HeadOnTop DEF IInv, TypeOK
<1>5. TypeOK'
  BY <1>1, <1>4, Classes DEF IInv, TypeOK
<1>6. NoFault' /\ StoppedIsSilent' /\ OneCallback'
  BY <1>1, <1>2 DEF NoFault, StoppedIsSilent, OneCallback
<1>7. OpenOnList'
  BY <1>1 DEF IInv, OpenOnList
<1>8. CalledIsHead' /\ LogsTellTheTruth'
  BY <1>1, <1>4, Classes DEF IInv, CalledIsHead, LogsTellTheTruth
<1>9. InnermostIsCalled'
  BY <1>1, <1>4 DEF IInv, InnermostIsCalled, Innermost
<1>10. QED
  BY <1>3, <1>5, <1>6, <1>7, <1>8, <1>9 DEF IInv

\* A tracer with a log is resumed: the head of its list is called back.
LEMMA ResumeFileStep ==
  ASSUME IInv, NEW t \in Threads, NEW x \in Files, ResumeFile(t, x)
  PROVE  IInv'
<1> DEFINE head == ll_get(file_ll)
<1>1. /\ Runs(t) /\ InBlock(t, x)
      /\ marker' = Annotate(head, "resume")
      /\ slot' = head /\ stopped' = "no"
      /\ UNCHANGED <<blocks, simple_ll, file_ll, callback, used, log_file, count, fault>>
  BY DEF ResumeFile, reference_tracing_ll_get_data
<1>2. fault = "none" /\ \A u \in Threads : callback[u] = None
  BY <1>1, RunsFacts
<1>3. /\ \A y : Inside(y)' <=> Inside(y)
      /\ OneThreadInBlocks' /\ ListsDistinct' /\ ListsMatchBlocks'
      /\ Innermost' = Innermost
  BY <1>1, SameLists
<1>4. file_ll # <<>> /\ head \in Files /\ head # None
  <2>1. OnList(file_ll, x)
    BY <1>1 DEF IInv, ListsMatchBlocks, Inside
  <2>2. QED
    BY <2>1, HeadOnTop, Classes DEF IInv, TypeOK
<1>5. /\ marker' \in [Files -> {"none", "start", "detach", "reattach", "suspend",
                                "resume", "end"}]
      /\ marker'[head] = "resume"
      /\ \A y \in Files \ {head} : marker'[y] = marker[y]
  BY <1>1, <1>4 DEF IInv, TypeOK, Annotate
<1>6. TypeOK'
  BY <1>1, <1>4, <1>5, Classes DEF IInv, TypeOK
<1>7. NoFault' /\ StoppedIsSilent' /\ OneCallback'
  BY <1>1, <1>2 DEF NoFault, StoppedIsSilent, OneCallback
<1>8. OpenOnList'
  BY <1>1 DEF IInv, OpenOnList
<1>9. CalledIsHead' /\ LogsTellTheTruth'
  BY <1>1, <1>2, <1>4, <1>5, Classes DEF IInv, CalledIsHead, LogsTellTheTruth
<1>10. InnermostIsCalled'
  BY <1>1, <1>4 DEF IInv, InnermostIsCalled, Innermost
<1>11. QED
  BY <1>3, <1>6, <1>7, <1>8, <1>9, <1>10 DEF IInv

\* A simple tracer counts an event.
LEMMA EventSimpleStep ==
  ASSUME IInv, NEW t \in Threads, EventSimple(t)
  PROVE  IInv'
<1>1. /\ Runs(t) /\ slot \in Simple /\ count[slot] < MaxEvents
      /\ count' = [count EXCEPT ![slot] = @ + 1]
      /\ UNCHANGED <<blocks, simple_ll, file_ll, slot, callback, used, log_file, marker,
                     stopped, fault>>
  BY DEF EventSimple, Counted
<1>2. fault = "none" /\ \A u \in Threads : callback[u] = None
  BY <1>1, RunsFacts
<1>3. /\ \A y : Inside(y)' <=> Inside(y)
      /\ Abandoned' = Abandoned
      /\ OneThreadInBlocks' /\ ListsDistinct' /\ ListsMatchBlocks'
      /\ Innermost' = Innermost
  BY <1>1, SameLists
<1>4. count' \in [Tracers -> 0 .. MaxEvents]
  BY <1>1, Classes, MaxEventsAssumption DEF IInv, TypeOK
<1>5. TypeOK'
  BY <1>1, <1>4 DEF IInv, TypeOK
<1>6. /\ NoFault' /\ StoppedIsSilent' /\ OneCallback' /\ OpenOnList'
      /\ CalledIsHead' /\ LogsTellTheTruth' /\ InnermostIsCalled'
  BY <1>1, <1>2, <1>3 DEF IInv, NoFault, StoppedIsSilent, OneCallback, OpenOnList,
                          CalledIsHead, LogsTellTheTruth, InnermostIsCalled
<1>7. QED
  BY <1>3, <1>5, <1>6 DEF IInv

\* The callback that writes a log takes the head out of the slot.
LEMMA CallbackBeginsStep ==
  ASSUME IInv, NEW t \in Threads, CallbackBegins(t)
  PROVE  IInv'
<1>1. /\ Runs(t) /\ slot \in Files /\ count[slot] < MaxEvents
      /\ callback' = [callback EXCEPT ![t] = slot]
      /\ slot' = None
      /\ UNCHANGED <<blocks, simple_ll, file_ll, used, log_file, count, marker, stopped,
                     fault>>
  BY DEF CallbackBegins
<1>2. fault = "none" /\ \A u \in Threads : callback[u] = None
  BY <1>1, RunsFacts
<1>3. /\ \A y : Inside(y)' <=> Inside(y)
      /\ Abandoned' = Abandoned
      /\ OneThreadInBlocks' /\ ListsDistinct' /\ ListsMatchBlocks'
      /\ Innermost' = Innermost
  BY <1>1, SameLists
<1>4. TypeOK'
  BY <1>1 DEF IInv, TypeOK
<1>5. /\ callback'[t] = slot /\ slot # None
      /\ \A u \in Threads \ {t} : callback'[u] = None
  BY <1>1, <1>2, Classes DEF IInv, TypeOK
<1>6. OneCallback'
  BY <1>1, <1>5 DEF IInv, OneCallback, CalledIsHead
<1>7. LogsTellTheTruth'
  BY <1>1, <1>2, <1>5, Classes DEF IInv, LogsTellTheTruth
<1>8. StoppedIsSilent'
  BY <1>1, <1>5 DEF IInv, StoppedIsSilent
<1>9. NoFault' /\ OpenOnList' /\ CalledIsHead' /\ InnermostIsCalled'
  BY <1>1, <1>2, <1>3, <1>5, Classes DEF IInv, NoFault, OpenOnList, CalledIsHead,
                                         InnermostIsCalled
<1>10. QED
  BY <1>3, <1>4, <1>6, <1>7, <1>8, <1>9 DEF IInv

\* The tracer that is being called back is the head of its list.
LEMMA CallbackFacts ==
  ASSUME IInv, NEW t \in Threads, InCallback(t)
  PROVE  /\ fault = "none" /\ slot = None /\ stopped = "no"
         /\ callback[t] \in Files /\ callback[t] # None
         /\ callback[t] = ll_get(file_ll)
         /\ file_ll # <<>> /\ OnList(file_ll, callback[t])
         /\ count[callback[t]] < MaxEvents
         /\ marker[callback[t]] \in {"start", "reattach", "resume"}
         /\ \A u \in Threads \ {t} : callback[u] = None
         /\ log_file[callback[t]] = "open"
<1>1. /\ fault = "none" /\ callback[t] # None
      /\ callback[t] \in Files
      /\ callback[t] = ll_get(file_ll)
      /\ slot = None
      /\ count[callback[t]] < MaxEvents
      /\ \A u \in Threads \ {t} : callback[u] = None
  BY DEF InCallback, IInv, TypeOK, OneCallback
<1>2. stopped = "no"
  BY <1>1 DEF IInv, StoppedIsSilent
<1>3. file_ll # <<>> /\ OnList(file_ll, callback[t])
  <2>1. file_ll \in Seq(Files)
    BY DEF IInv, TypeOK
  <2>2. file_ll # <<>>
    BY <1>1, <2>1, GetFacts
  <2>3. QED
    BY <1>1, <2>1, <2>2, HeadOnTop
<1>4. marker[callback[t]] \in {"start", "reattach", "resume"}
  BY <1>1 DEF IInv, LogsTellTheTruth
<1>5. log_file[callback[t]] = "open"
  BY <1>1, <1>3 DEF IInv, OpenOnList
<1>6. QED
  BY <1>1, <1>2, <1>3, <1>4, <1>5

\* The callback ends with the head in the slot again, or with the tracer
\* stopped.
LEMMA CallbackEndsStep ==
  ASSUME IInv, NEW t \in Threads,
         CallbackSkips(t) \/ CallbackWrites(t) \/ CallbackRunsOutOfMemory(t)
  PROVE  IInv'
<1> DEFINE c == callback[t]
<1>1. /\ InCallback(t)
      /\ \/ slot' = c /\ UNCHANGED stopped
         \/ slot' = slot /\ stopped' = "failure"
      /\ count' = count \/ count' = [count EXCEPT ![c] = @ + 1]
      /\ fault' = fault \/ fault' = IF log_file[c] = "open" THEN "none" ELSE "write"
      /\ callback' = [callback EXCEPT ![t] = None]
      /\ UNCHANGED <<blocks, simple_ll, file_ll, used, log_file, marker>>
  BY DEF CallbackSkips, CallbackWrites, CallbackRunsOutOfMemory, CallbackEnds, Counted, WriteFault
<1>2. /\ fault = "none" /\ slot = None /\ stopped = "no"
      /\ c \in Files /\ c # None /\ c = ll_get(file_ll) /\ file_ll # <<>>
      /\ count[c] < MaxEvents
      /\ marker[c] \in {"start", "reattach", "resume"}
      /\ \A u \in Threads \ {t} : callback[u] = None
      /\ log_file[c] = "open"
  BY <1>1, CallbackFacts
<1> HIDE DEF c
<1>3. /\ \A y : Inside(y)' <=> Inside(y)
      /\ Abandoned' = Abandoned
      /\ OneThreadInBlocks' /\ ListsDistinct' /\ ListsMatchBlocks'
      /\ Innermost' = Innermost
  BY <1>1, SameLists
<1>4. count' \in [Tracers -> 0 .. MaxEvents]
  <2>1. count \in [Tracers -> 0 .. MaxEvents] /\ c \in Tracers
    BY <1>2, Classes DEF IInv, TypeOK
  <2>2. count[c] + 1 \in 0 .. MaxEvents
    BY <1>2, <2>1, MaxEventsAssumption
  <2>3. count' = count \/ count' = [count EXCEPT ![c] = count[c] + 1]
    BY <1>1
  <2>4. QED
    BY <2>1, <2>2, <2>3
<1>5. TypeOK'
  BY <1>1, <1>2, <1>4, Classes DEF IInv, TypeOK
<1>6. \A u \in Threads : callback'[u] = None
  BY <1>1, <1>2 DEF IInv, TypeOK
<1>7. NoFault' /\ StoppedIsSilent' /\ OneCallback'
  BY <1>1, <1>2, <1>3, <1>6 DEF NoFault, StoppedIsSilent, OneCallback
<1>8. OpenOnList' /\ CalledIsHead'
  BY <1>1, <1>2, <1>3, Classes DEF IInv, OpenOnList, CalledIsHead
<1>9. LogsTellTheTruth'
  BY <1>1, <1>2, <1>6, Classes DEF IInv, LogsTellTheTruth
<1>10. InnermostIsCalled'
  BY <1>1, <1>2, <1>3 DEF IInv, InnermostIsCalled, Innermost
<1>11. QED
  BY <1>3, <1>5, <1>7, <1>8, <1>9, <1>10 DEF IInv

\* Deallocation finds the object on no list, unless it is abandoned.
LEMMA DeallocStep ==
  ASSUME IInv, NEW x \in Tracers,
         (x \in Simple /\ DeallocSimple(x)) \/ (x \in Files /\ DeallocFile(x))
  PROVE  IInv'
<1>1. /\ ~ Inside(x)
      /\ used' = used \ {x}
      /\ fault' = IF slot = x \/ OnList(simple_ll, x) \/ OnList(file_ll, x)
                  THEN "dangling" ELSE "none"
      /\ count' = [count EXCEPT ![x] = 0]
      /\ UNCHANGED <<blocks, simple_ll, file_ll, slot, callback, stopped>>
      /\ \/ x \in Simple /\ UNCHANGED <<log_file, marker>>
         \/ /\ x \in Files
            /\ log_file' = [log_file EXCEPT ![x] = "none"]
            /\ marker' = [marker EXCEPT ![x] = "none"]
  BY DEF DeallocSimple, DeallocFile, Dealloc, cpyReferenceTracingSimple_new,
         cpyReferenceTracing_new, Inside
<1>2. fault = "none" /\ \A u \in Threads : callback[u] = None
  BY RunsFacts DEF DeallocSimple, DeallocFile, Dealloc
<1>3. /\ \A y : Inside(y)' <=> Inside(y)
      /\ Abandoned' = Abandoned
      /\ OneThreadInBlocks' /\ ListsDistinct' /\ ListsMatchBlocks'
      /\ Innermost' = Innermost
  BY <1>1, SameLists
<1>4. TypeOK'
  <2>1. count' \in [Tracers -> 0 .. MaxEvents]
    BY <1>1, MaxEventsAssumption DEF IInv, TypeOK
  <2>2. /\ log_file' \in [Files -> {"none", "open", "closed"}]
        /\ marker' \in [Files -> {"none", "start", "detach", "reattach", "suspend",
                                  "resume", "end"}]
    BY <1>1 DEF IInv, TypeOK
  <2>3. used' \in SUBSET Tracers /\ fault' \in {"none", "dangling"}
    BY <1>1 DEF IInv, TypeOK
  <2>4. QED
    BY <1>1, <2>1, <2>2, <2>3 DEF IInv, TypeOK
<1>5. NoFault'
  <2> SUFFICES ASSUME Abandoned = {}
               PROVE  slot # x /\ ~ OnList(simple_ll, x) /\ ~ OnList(file_ll, x)
    BY <1>1, <1>3 DEF NoFault
  <2>1. simple_ll \in Seq(Simple) /\ file_ll \in Seq(Files)
    BY DEF IInv, TypeOK
  <2>2. ~ OnList(simple_ll, x)
    <3>1. OnList(simple_ll, x) => x \in Simple
      BY <2>1, HeadOnTop
    <3>2. QED
      BY <1>1, <3>1 DEF IInv, ListsMatchBlocks
  <2>3. ~ OnList(file_ll, x)
    <3>1. OnList(file_ll, x) => x \in Files
      BY <2>1, HeadOnTop
    <3>2. QED
      BY <1>1, <3>1 DEF Abandoned, Inside
  <2>4. CASE x \in Simple
    <3>1. slot = x => OnList(simple_ll, x)
      BY <2>1, <2>4, GetFacts, HeadOnTop, Classes DEF IInv, CalledIsHead
    <3>2. QED
      BY <2>2, <2>3, <3>1
  <2>5. CASE x \in Files
    <3>1. slot = x => OnList(file_ll, x)
      BY <2>1, <2>5, GetFacts, HeadOnTop, Classes DEF IInv, CalledIsHead
    <3>2. QED
      BY <2>2, <2>3, <3>1
  <2>6. QED
    BY <2>4, <2>5 DEF Tracers
<1>6. StoppedIsSilent' /\ OneCallback' /\ CalledIsHead'
  BY <1>1, <1>2 DEF IInv, StoppedIsSilent, OneCallback, CalledIsHead
<1>7. OpenOnList'
  BY <1>1, <1>2 DEF IInv, TypeOK, OpenOnList
<1>8. LogsTellTheTruth'
  BY <1>1, <1>2 DEF IInv, TypeOK, LogsTellTheTruth
<1>9. InnermostIsCalled'
  BY <1>1, <1>2, <1>3 DEF IInv, InnermostIsCalled
<1>10. QED
  BY <1>3, <1>4, <1>5, <1>6, <1>7, <1>8, <1>9 DEF IInv

-----------------------------------------------------------------------------
\* Each step of a thread or of the callback keeps the invariant.
THEOREM NextInvariant == IInv /\ [Next]_vars => IInv'
<1> SUFFICES ASSUME IInv, [Next]_vars PROVE IInv'
  OBVIOUS
<1>1. ASSUME NEW t \in Threads, NEW x \in Simple,
             EnterSimple(t, x) \/ SuspendSimple(t, x) \/ ResumeSimple(t, x)
      PROVE  IInv'
  BY <1>1, EnterSimpleStep, SuspendStep, ResumeSimpleStep, Classes
<1>2. ASSUME NEW t \in Threads, NEW x \in Files,
             EnterFile(t, x) \/ EnterFileFails(t, x) \/ SuspendFile(t, x) \/ ResumeFile(t, x)
      PROVE  IInv'
  BY <1>2, EnterFileStep, EnterFileFailsStep, SuspendStep, ResumeFileStep, Classes
<1>3. ASSUME NEW t \in Threads, ExitSimple(t) \/ ExitFile(t) \/ ExitFileGcFails(t)
      PROVE  IInv'
  BY <1>3, ExitSimpleStep, ExitFileStep, ExitFileGcFailsStep
<1>4. ASSUME NEW t \in Threads,
             EventSimple(t) \/ CallbackBegins(t) \/ CallbackSkips(t) \/ CallbackWrites(t)
               \/ CallbackRunsOutOfMemory(t)
      PROVE  IInv'
  BY <1>4, EventSimpleStep, CallbackBeginsStep, CallbackEndsStep
<1>5. ASSUME NEW x \in Simple, DeallocSimple(x) PROVE IInv'
  BY <1>5, DeallocStep, Classes
<1>6. ASSUME NEW x \in Files, DeallocFile(x) PROVE IInv'
  BY <1>6, DeallocStep, Classes
<1>7. CASE UNCHANGED vars
  <2>1. /\ UNCHANGED <<blocks, simple_ll, file_ll>>
        /\ \A y : Inside(y)' <=> Inside(y)
        /\ Abandoned' = Abandoned
        /\ OneThreadInBlocks' /\ ListsDistinct' /\ ListsMatchBlocks'
        /\ Innermost' = Innermost
    BY <1>7, SameLists DEF vars
  <2>2. QED
    BY <1>7, <2>1 DEF vars, IInv, TypeOK, NoFault, OpenOnList, CalledIsHead, OneCallback,
                      LogsTellTheTruth, StoppedIsSilent, InnermostIsCalled
<1>8. QED
  BY <1>1, <1>2, <1>3, <1>4, <1>5, <1>6, <1>7 DEF Next

\* So it holds in every run, whatever use is made of the tracers.
THEOREM Invariance == Spec => []IInv
  BY InitInvariant, NextInvariant, PTL DEF Spec

-----------------------------------------------------------------------------
(* The properties.                                                         *)

\* The variables keep their types: counts stay in their bound, and what is
\* called back is always a tracer with a log.
THEOREM TypeCorrect == Spec => []TypeOK
<1>1. IInv => TypeOK
  BY DEF IInv
<1>2. QED
  BY <1>1, Invariance, PTL

\* Whatever the nesting: no closed log is written to and no empty list popped;
\* what the other assertions test is so unless a tracer is abandoned, or one is
\* suspended that is not registered.
THEOREM Faultless == Spec => []NoFault
<1>1. IInv => NoFault
  BY DEF IInv
<1>2. QED
  BY <1>1, Invariance, PTL

\* Whatever the nesting and the failures: the log of the tracer that is called
\* says last that it is called, and those below the head that they are not.
THEOREM TruthfulLogs == Spec => []AnnotationsAreTrue
<1>1. ASSUME IInv PROVE AnnotationsAreTrue
  <2> SUFFICES ASSUME fault = "none"
               PROVE  /\ slot \in Files => marker[slot] \in {"start", "reattach", "resume"}
                      /\ \A i \in 1 .. Len(file_ll) - 1 : marker[file_ll[i]] = "detach"
    BY DEF AnnotationsAreTrue
  <2>1. ASSUME NEW i \in 1 .. Len(file_ll) - 1
        PROVE  marker[file_ll[i]] = "detach"
    <3>1. file_ll \in Seq(Files) /\ Distinct(file_ll) /\ Len(file_ll) \in Nat
      BY <1>1 DEF IInv, TypeOK, ListsDistinct
    <3>2. /\ i \in 1 .. Len(file_ll) /\ i # Len(file_ll) /\ Len(file_ll) \in 1 .. Len(file_ll)
          /\ file_ll # <<>>
      BY <3>1
    <3>3. ll_get(file_ll) = file_ll[Len(file_ll)]
      BY <3>1, <3>2, GetFacts
    <3>4. file_ll[i] # ll_get(file_ll)
      BY <3>1, <3>2, <3>3 DEF Distinct
    <3>5. file_ll[i] \in Files /\ OnList(file_ll, file_ll[i])
      BY <3>1, <3>2 DEF OnList
    <3>6. QED
      BY <1>1, <3>4, <3>5 DEF IInv, LogsTellTheTruth
  <2>2. QED
    BY <1>1, <2>1 DEF IInv, LogsTellTheTruth
<1>2. IInv => AnnotationsAreTrue
  BY <1>1
<1>3. QED
  BY <1>2, Invariance, PTL

\* What is called, counting what is being called back, is the one tracer that
\* is in the slot or in a callback.
LEMMA CallingFacts ==
  ASSUME IInv
  PROVE  /\ (\A t \in Threads : callback[t] = None) => Calling = slot /\ CalledBack = {}
         /\ \A t \in Threads : callback[t] # None =>
              Calling = callback[t] /\ CalledBack = {callback[t]} /\ slot = None
<1>1. (\A t \in Threads : callback[t] = None) => Calling = slot /\ CalledBack = {}
  BY DEF Calling, CalledBack
<1>2. ASSUME NEW t \in Threads, callback[t] # None
      PROVE  Calling = callback[t] /\ CalledBack = {callback[t]} /\ slot = None
  <2>1. slot = None /\ \A u \in Threads : callback[u] # None => u = t
    BY <1>2 DEF IInv, OneCallback
  <2>2. CalledBack = {callback[t]}
    BY <1>2, <2>1 DEF CalledBack
  <2>3. Calling = callback[t]
    BY <2>2 DEF Calling
  <2>4. QED
    BY <2>1, <2>2, <2>3
<1>3. QED
  BY <1>1, <1>2

\* If the classes are not mixed and none is abandoned, the tracer of the
\* innermost with block is called, or nothing if it is stopped, and nothing is
\* outside with blocks.
THEOREM PreviousRestored ==
  ASSUME NotMixed
  PROVE  Spec => []PreviousIsRestored
<1>1. ASSUME IInv PROVE PreviousIsRestored
  <2> SUFFICES ASSUME Abandoned = {}, NEW t \in Threads
               PROVE  /\ blocks[t] # <<>> =>
                           IF stopped = "no"
                           THEN {slot} \cup CalledBack \in {{Leaver(t)}, {None, Leaver(t)}}
                           ELSE {slot} \cup CalledBack = {None}
                      /\ (\A u \in Threads : blocks[u] = <<>>) => {slot} \cup CalledBack = {None}
    BY DEF PreviousIsRestored
  <2>1. ASSUME blocks[t] # <<>>, stopped = "no"
        PROVE  {slot} \cup CalledBack \in {{Leaver(t)}, {None, Leaver(t)}}
    <3>1. Innermost = Leaver(t)
      BY <1>1, <2>1, InnermostIsLeaver
    <3>2. CASE \A u \in Threads : callback[u] = None
      <4>1. slot = Leaver(t)
        BY <1>1, <2>1, <3>1, <3>2 DEF IInv, InnermostIsCalled
      <4>2. QED
        BY <1>1, <3>2, <4>1, CallingFacts
    <3>3. CASE \E u \in Threads : callback[u] # None
      <4>1. PICK u \in Threads : callback[u] # None
        BY <3>3
      <4>2. slot = None /\ CalledBack = {callback[u]}
        BY <1>1, <4>1, CallingFacts
      <4>3. callback[u] = Leaver(t)
        BY <1>1, <3>1, <4>1 DEF IInv, OneCallback, Innermost, ll_get
      <4>4. QED
        BY <4>2, <4>3
    <3>4. QED
      BY <3>2, <3>3
  <2>2. ASSUME stopped # "no" PROVE {slot} \cup CalledBack = {None}
    BY <1>1, <2>2, CallingFacts DEF IInv, StoppedIsSilent
  <2>3. ASSUME \A u \in Threads : blocks[u] = <<>>
        PROVE  {slot} \cup CalledBack = {None}
    <3>1. \A x : ~ Inside(x)
      BY <2>3 DEF Inside, InBlock
    <3>2. simple_ll = <<>> /\ file_ll = <<>>
      <4>1. simple_ll \in Seq(Simple) /\ file_ll \in Seq(Files)
        BY <1>1 DEF IInv, TypeOK
      <4>2. \A x \in Simple : ~ OnList(simple_ll, x)
        BY <1>1, <3>1 DEF IInv, ListsMatchBlocks
      <4>3. \A x \in Files : ~ OnList(file_ll, x)
        BY <3>1 DEF Abandoned, Inside
      <4>4. QED
        BY <4>1, <4>2, <4>3, HeadOnTop
    <3>3. slot = None
      BY <1>1, <3>2, Classes DEF IInv, TypeOK, CalledIsHead, ll_get, Tracers
    <3>4. \A u \in Threads : callback[u] = None
      BY <1>1, <3>2 DEF IInv, OneCallback, ll_get
    <3>5. QED
      BY <1>1, <3>3, <3>4, CallingFacts
  <2>4. QED
    BY <2>1, <2>2, <2>3
<1>2. IInv => PreviousIsRestored
  BY <1>1
<1>3. QED
  BY <1>2, Invariance, PTL

-----------------------------------------------------------------------------
(* The stack of context managers.                                          *)

\* The same facts of the state after a step.
LEMMA CallingFactsNext ==
  IInv' => /\ (\A t \in Threads : callback'[t] = None) => Calling' = slot'
           /\ \A t \in Threads : callback'[t] # None => Calling' = callback'[t]
<1> DEFINE Facts == /\ (\A t \in Threads : callback[t] = None) => Calling = slot
                    /\ \A t \in Threads : callback[t] # None => Calling = callback[t]
<1>1. IInv => Facts
  BY CallingFacts
<1> HIDE DEF Facts
<1>2. IInv' => Facts'
  BY <1>1, PTL
<1>3. QED
  BY <1>2 DEF Facts

\* The two lists make one stack.
TheStack == simple_ll \o file_ll

\* If the classes are not mixed the abstract stack is the one list that is used;
LEMMA OneStack ==
  ASSUME IInv, NotMixed
  PROVE  /\ simple_ll = <<>> => TheStack = file_ll
         /\ file_ll = <<>> => TheStack = simple_ll
         /\ simple_ll = <<>> \/ file_ll = <<>>
  BY ConcatEmptySeq DEF IInv, TypeOK, InnermostIsCalled, TheStack

\* and the same of the state after a step.
LEMMA OneStackNext ==
  ASSUME NotMixed, IInv'
  PROVE  /\ simple_ll' = <<>> => TheStack' = file_ll'
         /\ file_ll' = <<>> => TheStack' = simple_ll'
<1>1. simple_ll' \in Seq(Simple) /\ file_ll' \in Seq(Files)
  BY DEF IInv, TypeOK
<1>2. QED
  BY <1>1, ConcatEmptySeq DEF TheStack

\* Each step of the code is a step of the stack of tracers, or leaves it alone.
LEMMA StackStep ==
  ASSUME IInv, IInv', NotMixed, [Next]_vars
  PROVE  [\/ StackedContextManagers!Next
          \/ StackedContextManagers!Pause
          \/ StackedContextManagers!Resume]_(StackedContextManagers!vars)
<1> DEFINE Push(x) == /\ ~ OnList(TheStack, x)
                      /\ TheStack' = Append(TheStack, x)
                      /\ Calling' = x
           Pop == /\ TheStack # <<>>
                  /\ TheStack' = ll_pop(TheStack)
                  /\ Calling' = ll_get(TheStack')
           Stop == Calling' = None /\ TheStack' = TheStack
           Start == /\ TheStack # <<>>
                    /\ Calling' = ll_get(TheStack)
                    /\ TheStack' = TheStack
           Stay == Calling' = Calling /\ TheStack' = TheStack
<1>1. ASSUME NEW t \in Threads, NEW x \in Simple, EnterSimple(t, x) PROVE Push(x)
  <2>1. /\ MayEnter(t, x) /\ simple_ll' = Append(simple_ll, x)
        /\ slot' = x /\ file_ll' = file_ll /\ callback' = callback
        /\ blocks' = [blocks EXCEPT ![t] = Append(@, x)]
    BY <1>1 DEF EnterSimple, reference_tracing_simple_ll_push, EnterBlock, ll_push
  <2>2. file_ll = <<>> /\ \A u \in Threads : callback[u] = None
    BY <2>1 DEF MayEnter, Runs, NotMixed
  <2>3. ~ OnList(simple_ll, x)
    BY <2>1, EnterFacts, Classes
  <2>4. QED
    BY <2>1, <2>2, <2>3, OneStack, OneStackNext, CallingFactsNext
<1>2. ASSUME NEW t \in Threads, NEW x \in Files, EnterFile(t, x) PROVE Push(x)
  <2>1. /\ MayEnter(t, x) /\ file_ll' = Append(file_ll, x)
        /\ slot' = x /\ simple_ll' = simple_ll /\ callback' = callback
    BY <1>2 DEF EnterFile, reference_tracing_ll_push, EnterBlock, ll_push
  <2>2. simple_ll = <<>> /\ \A u \in Threads : callback[u] = None
    BY <2>1, Classes DEF MayEnter, Runs, NotMixed
  <2>3. ~ OnList(file_ll, x)
    BY <2>1 DEF MayEnter
  <2>4. QED
    BY <2>1, <2>2, <2>3, OneStack, OneStackNext, CallingFactsNext
<1>3. ASSUME NEW t \in Threads, ExitSimple(t) PROVE Pop
  <2>1. /\ blocks[t] # <<>> /\ Leaver(t) \in Simple /\ simple_ll' = ll_pop(simple_ll)
        /\ slot' = ll_get(simple_ll') /\ file_ll' = file_ll /\ callback' = callback
        /\ \A u \in Threads : callback[u] = None
    BY <1>3, ExitSimpleFacts
  <2>2. simple_ll # <<>> /\ file_ll = <<>>
    BY <2>1, LeaverFacts, OneStack
  <2>3. QED
    BY <2>1, <2>2, OneStack, OneStackNext, CallingFactsNext
<1>4. ASSUME NEW t \in Threads, ExitFile(t), ~ Aborts("mismatch") PROVE Pop
  <2>1. /\ blocks[t] # <<>> /\ Leaver(t) \in Files /\ file_ll' = ll_pop(file_ll)
        /\ slot' = ll_get(file_ll') /\ simple_ll' = simple_ll /\ callback' = callback
        /\ \A u \in Threads : callback[u] = None
    BY <1>4, ExitFileFacts DEF ExitFile, Leaving
  <2>2. file_ll # <<>> /\ simple_ll = <<>>
    BY <2>1, LeaverFacts, OneStack
  <2>3. QED
    BY <2>1, <2>2, OneStack, OneStackNext, CallingFactsNext
<1>5. ASSUME NEW t \in Threads, NEW x \in Files, EnterFileFails(t, x) PROVE Stop
  BY <1>5, CallingFactsNext DEF EnterFileFails, MayEnter, Runs, TheStack
<1>6. ASSUME NEW t \in Threads, NEW x \in Tracers, SuspendSimple(t, x) \/ SuspendFile(t, x)
      PROVE  Stop \/ Stay
  BY <1>6, CallingFacts, CallingFactsNext DEF SuspendSimple, SuspendFile, Suspended, Aborts, Runs,
                                                TheStack
<1>7. ASSUME NEW t \in Threads, NEW x \in Simple, ResumeSimple(t, x) PROVE Start
  <2>1. /\ simple_ll # <<>> /\ slot' = ll_get(simple_ll)
        /\ TheStack' = TheStack /\ callback' = callback
        /\ \A u \in Threads : callback[u] = None
    <3>1. OnList(simple_ll, x)
      BY <1>7 DEF ResumeSimple, IInv, ListsMatchBlocks, Inside
    <3>2. QED
      BY <1>7, <3>1, EmptyList DEF ResumeSimple, Runs, TheStack, reference_tracing_simple_ll_get_data
  <2>2. QED
    BY <2>1, OneStack, CallingFactsNext
<1>8. ASSUME NEW t \in Threads, NEW x \in Files, ResumeFile(t, x) PROVE Start
  <2>1. /\ file_ll # <<>> /\ slot' = ll_get(file_ll)
        /\ TheStack' = TheStack /\ callback' = callback
        /\ \A u \in Threads : callback[u] = None
    <3>1. OnList(file_ll, x)
      BY <1>8 DEF ResumeFile, IInv, ListsMatchBlocks, Inside
    <3>2. QED
      BY <1>8, <3>1, EmptyList DEF ResumeFile, Runs, TheStack, reference_tracing_ll_get_data
  <2>2. QED
    BY <2>1, OneStack, CallingFactsNext
<1>9. ASSUME NEW t \in Threads, CallbackBegins(t) PROVE Stay
  <2>1. /\ slot # None /\ callback'[t] = slot /\ TheStack' = TheStack
        /\ \A u \in Threads : callback[u] = None
    BY <1>9, Classes DEF CallbackBegins, Runs, TheStack, IInv, TypeOK
  <2>2. QED
    BY <2>1, CallingFacts, CallingFactsNext
<1>10. ASSUME NEW t \in Threads,
              CallbackSkips(t) \/ CallbackWrites(t) \/ CallbackRunsOutOfMemory(t)
       PROVE  Stay \/ Stop
  <2>1. callback[t] # None /\ slot = None /\ \A u \in Threads \ {t} : callback[u] = None
    BY <1>10, CallbackFacts DEF CallbackSkips, CallbackWrites, CallbackRunsOutOfMemory
  <2>2. TheStack' = TheStack /\ \A u \in Threads : callback'[u] = None
    BY <1>10, <2>1 DEF CallbackSkips, CallbackWrites, CallbackRunsOutOfMemory, CallbackEnds,
                       TheStack, IInv, TypeOK
  <2>3. slot' = callback[t] \/ slot' = slot
    BY <1>10 DEF CallbackSkips, CallbackWrites, CallbackRunsOutOfMemory
  <2>4. Calling = callback[t] /\ Calling' = slot'
    BY <2>1, <2>2, CallingFacts, CallingFactsNext
  <2>5. QED
    BY <2>1, <2>2, <2>3, <2>4
<1>11. ASSUME UNCHANGED <<simple_ll, file_ll, slot, callback>> PROVE Stay
  BY <1>11 DEF TheStack, Calling, CalledBack
<1>12. (\E x \in Tracers : Push(x)) \/ Pop \/ Stop \/ Start \/ Stay
  <2>1. \/ \E t \in Threads : \E x \in Simple : EnterSimple(t, x)
        \/ \E t \in Threads : \E x \in Files : EnterFile(t, x)
        \/ \E t \in Threads : ExitSimple(t) \/ (ExitFile(t) /\ ~ Aborts("mismatch"))
        \/ \E t \in Threads : \E x \in Files : EnterFileFails(t, x)
        \/ \E t \in Threads : \E x \in Tracers : SuspendSimple(t, x) \/ SuspendFile(t, x)
        \/ \E t \in Threads : \E x \in Simple : ResumeSimple(t, x)
        \/ \E t \in Threads : \E x \in Files : ResumeFile(t, x)
        \/ \E t \in Threads : CallbackBegins(t)
        \/ \E t \in Threads :
             CallbackSkips(t) \/ CallbackWrites(t) \/ CallbackRunsOutOfMemory(t)
        \/ UNCHANGED <<simple_ll, file_ll, slot, callback>>
    BY Classes
       DEF Next, vars, Aborts, ExitFileGcFails, EventSimple, DeallocSimple, DeallocFile, Dealloc
  <2> HIDE DEF Push, Pop, Stop, Start, Stay
  <2>2. QED
    BY <1>1, <1>2, <1>3, <1>4, <1>5, <1>6, <1>7, <1>8, <1>9, <1>10, <1>11, <2>1, Classes
<1>13. ASSUME NEW x \in Tracers, Push(x) PROVE StackedContextManagers!Next
  BY <1>13 DEF StackedContextManagers!Next, StackedContextManagers!Begin,
               StackedContextManagers!Stacked, OnList, TheStack
<1>14. ASSUME Pop PROVE StackedContextManagers!Next
  BY <1>14 DEF StackedContextManagers!Next, StackedContextManagers!End,
               StackedContextManagers!Top, ll_pop, ll_get, TheStack
<1>15. ASSUME Stop PROVE StackedContextManagers!Pause
  BY <1>15 DEF StackedContextManagers!Pause, TheStack
<1>16. ASSUME Start PROVE StackedContextManagers!Resume
  BY <1>16 DEF StackedContextManagers!Resume, StackedContextManagers!Top, ll_get, TheStack
<1>17. ASSUME Stay PROVE UNCHANGED StackedContextManagers!vars
  BY <1>17 DEF StackedContextManagers!vars, TheStack
<1> HIDE DEF Push, Pop, Stop, Start, Stay
<1>18. QED
  BY <1>12, <1>13, <1>14, <1>15, <1>16, <1>17

\* The code implements the stack of context managers of the design note, which
\* can be stopped and started, also with abandoned tracers on it.
THEOREM Refinement ==
  ASSUME NotMixed
  PROVE  Spec => ImplementsTracerStack
<1>1. Init => StackedContextManagers!Init
  BY DEF Init, StackedContextManagers!Init, Calling, CalledBack
<1>2. IInv /\ IInv' /\ [Next]_vars =>
        [\/ StackedContextManagers!Next
         \/ StackedContextManagers!Pause
         \/ StackedContextManagers!Resume]_(StackedContextManagers!vars)
  BY StackStep
<1>3. QED
  BY <1>1, <1>2, Invariance, PTL
     DEF Spec, ImplementsTracerStack, StackedContextManagers!PausableSpec

-----------------------------------------------------------------------------
(* If gc.collect() does not fail.                                          *)

GcSucceeds == "gc fails" \notin Usage

\* Nothing else abandons a tracer: the head that __exit__ pops is the leaver.
LEMMA NoneAbandonedStep ==
  ASSUME IInv, IInv', GcSucceeds, Abandoned = {}, [Next]_vars
  PROVE  Abandoned' = {}
<1>1. \A y \in Files : OnList(file_ll, y) => Inside(y)
  BY DEF Abandoned, Inside
<1>2. ASSUME NEW t \in Threads, NEW x \in Tracers, MayEnter(t, x),
             blocks' = [blocks EXCEPT ![t] = Append(@, x)],
             \/ file_ll' = file_ll
             \/ x \in Files /\ file_ll' = ll_push(file_ll, x)
      PROVE  Abandoned' = {}
  <2>1. \A y : Inside(y)' <=> Inside(y) \/ y = x
    BY <1>2, EnterFacts
  <2>2. x \in Files => \A y : OnList(ll_push(file_ll, x), y) <=> OnList(file_ll, y) \/ y = x
    BY PushOrder DEF IInv, TypeOK
  <2>3. \A y \in Files : OnList(file_ll', y) => Inside(y)'
    BY <1>1, <1>2, <2>1, <2>2
  <2>4. QED
    BY <2>3 DEF Abandoned, Inside
<1>3. ASSUME NEW t \in Threads, ExitSimple(t) PROVE Abandoned' = {}
  <2>1. blocks[t] # <<>> /\ Leaver(t) \notin Files /\ file_ll' = file_ll /\ LeaveBlock(t)
    BY <1>3, ExitSimpleFacts, Classes
  <2>2. \A y : Inside(y)' <=> Inside(y) /\ y # Leaver(t)
    BY <2>1, LeaveFacts DEF LeaveBlock
  <2>3. \A y \in Files : OnList(file_ll', y) => Inside(y)'
    BY <1>1, <2>1, <2>2
  <2>4. QED
    BY <2>3 DEF Abandoned, Inside
<1>4. ASSUME NEW t \in Threads, ExitFile(t) PROVE Abandoned' = {}
  <2>1. /\ blocks[t] # <<>> /\ Leaver(t) \in Files /\ ll_get(file_ll) = Leaver(t)
        /\ file_ll' = ll_pop(file_ll) /\ LeaveBlock(t)
    BY <1>4, ExitFileFacts DEF ExitFile, Leaving
  <2>2. \A y : Inside(y)' <=> Inside(y) /\ y # Leaver(t)
    BY <2>1, LeaveFacts DEF LeaveBlock
  <2>3. file_ll # <<>>
    BY <2>1, LeaverFacts
  <2>4. file_ll \in Seq(Files) /\ Distinct(file_ll)
    BY DEF IInv, TypeOK, ListsDistinct
  <2>5. \A y : OnList(file_ll', y) <=> OnList(file_ll, y) /\ y # Leaver(t)
    BY <2>1, <2>3, <2>4, PopOrder
  <2>6. \A y \in Files : OnList(file_ll', y) => Inside(y)'
    BY <1>1, <2>2, <2>5
  <2>7. QED
    BY <2>6 DEF Abandoned, Inside
<1>5. CASE UNCHANGED <<blocks, simple_ll, file_ll>>
  BY <1>5, SameLists
<1>6. QED
  BY <1>2, <1>3, <1>4, <1>5, Classes
     DEF Next, vars, GcSucceeds, EnterSimple, EnterFile, EnterBlock, reference_tracing_ll_push,
         EnterFileFails, ExitFileGcFails, SuspendSimple, SuspendFile, Aborts, ResumeSimple, ResumeFile,
         EventSimple, CallbackBegins, CallbackSkips, CallbackWrites, CallbackRunsOutOfMemory,
         DeallocSimple, DeallocFile, Dealloc

\* Unless gc.collect() fails no tracer is abandoned, and the only assertion that
\* can fail is that of suspend(), whatever else fails and however with blocks
\* are nested; and suspend() needs a tracer that is stopped, or mixed blocks.
THEOREM NoneAbandoned ==
  ASSUME GcSucceeds
  PROVE  Spec => [](/\ Abandoned = {}
                    /\ fault # "none" =>
                         fault = "unregistered" /\ (stopped # "no" \/ "mixed" \in Usage))
<1> DEFINE Empty == Abandoned = {}
           Sound == /\ Abandoned = {}
                    /\ fault # "none" =>
                         fault = "unregistered" /\ (stopped # "no" \/ "mixed" \in Usage)
<1>1. Init => Empty
  BY EmptyList DEF Init, Abandoned
<1>2. IInv /\ IInv' /\ Empty /\ [Next]_vars => Empty'
  BY NoneAbandonedStep
<1>3. IInv /\ Empty => Sound
  BY DEF IInv, TypeOK, NoFault
<1> HIDE DEF Empty, Sound
<1>4. Spec => []Sound
  BY <1>1, <1>2, <1>3, Invariance, PTL DEF Spec
<1>5. QED
  BY <1>4 DEF Sound

\* The same of the state after a step.
LEMMA InnermostIsLeaverNext ==
  ASSUME NotMixed
  PROVE  IInv' /\ Abandoned' = {} =>
           \A t \in Threads : blocks'[t] # <<>> => Innermost' = Last(blocks'[t])
<1> DEFINE Empty == Abandoned = {}
           Facts == \A t \in Threads : blocks[t] # <<>> => Innermost = Leaver(t)
<1>1. IInv /\ Empty => Facts
  BY InnermostIsLeaver
<1> HIDE DEF Empty, Facts
<1>2. IInv' /\ Empty' => Facts'
  BY <1>1, PTL
<1>3. QED
  BY <1>2 DEF Empty, Facts, Leaver

\* The promise that mixed nesting breaks holds without it: an exit registers
\* the tracer of the with block around it.
THEOREM ExitRestores ==
  ASSUME NotMixed, GcSucceeds
  PROVE  Spec => ExitRestoresPrevious
<1> DEFINE Restores == \A t \in Threads :
                         Len(blocks'[t]) < Len(blocks[t]) /\ blocks'[t] # <<>>
                           => slot' = Last(blocks'[t])
<1>1. ASSUME IInv, IInv', Abandoned' = {}, [Next]_vars PROVE [Restores]_vars
  <2> SUFFICES ASSUME NEW t \in Threads, Len(blocks'[t]) < Len(blocks[t]), blocks'[t] # <<>>
               PROVE  slot' = Last(blocks'[t])
    OBVIOUS
  <2>1. blocks \in [Threads -> Seq(Tracers)] /\ \A u \in Threads : Len(blocks[u]) \in Nat
    <3>1. blocks \in [Threads -> Seq(Tracers)]
      BY <1>1 DEF IInv, TypeOK
    <3>2. QED
      BY <3>1, LenProperties
  <2>2. ASSUME blocks' = blocks PROVE FALSE
    BY <2>1, <2>2
  <2>3. ASSUME NEW u \in Threads, ExitSimple(u) \/ ExitFile(u)
        PROVE  slot' = Last(blocks'[t])
    <3>1. stopped' = "no" /\ \A v \in Threads : callback'[v] = None
      <4>1. LeaveBlock(u) /\ UNCHANGED callback /\ \A v \in Threads : callback[v] = None
        BY <1>1, <2>2, <2>3, ExitSimpleFacts, ExitFileFacts DEF Aborts
      <4>2. QED
        BY <4>1 DEF LeaveBlock
    <3>2. slot' = Innermost'
      BY <1>1, <3>1 DEF IInv, InnermostIsCalled
    <3>3. QED
      BY <1>1, <3>2, InnermostIsLeaverNext
  <2>4. ASSUME NEW u \in Threads, NEW x \in Tracers,
               blocks' = [blocks EXCEPT ![u] = Append(@, x)]
        PROVE  FALSE
    <3>1. blocks'[t] = blocks[t] \/ blocks'[t] = Append(blocks[t], x)
      BY <2>1, <2>4
    <3>2. blocks[t] \in Seq(Tracers) /\ Len(Append(blocks[t], x)) = Len(blocks[t]) + 1
      BY <2>1
    <3>3. QED
      BY <2>1, <3>1, <3>2
  <2>5. QED
    BY <1>1, <2>2, <2>3, <2>4, Classes
       DEF Next, vars, GcSucceeds, EnterSimple, EnterFile, EnterBlock,
           EnterFileFails, ExitFileGcFails, SuspendSimple, SuspendFile, Aborts,
           ResumeSimple, ResumeFile, EventSimple, CallbackBegins, CallbackSkips, CallbackWrites,
           CallbackRunsOutOfMemory, DeallocSimple, DeallocFile, Dealloc
<1> DEFINE Sound == /\ Abandoned = {}
                    /\ fault # "none" =>
                         fault = "unregistered" /\ (stopped # "no" \/ "mixed" \in Usage)
<1>2. IInv /\ IInv' /\ Sound' /\ [Next]_vars => [Restores]_vars
  BY <1>1
<1>3. Spec => []Sound
  BY NoneAbandoned
<1> HIDE DEF Sound
<1>4. QED
  BY <1>2, <1>3, Invariance, PTL DEF ExitRestoresPrevious, Spec

=============================================================================
