-------------------------- MODULE ProcessTree_proofs --------------------------
(***************************************************************************)
(* For any number of processes, any values and any number of samples: each *)
(* node of the tree is visited once in a sample, the differences in the    *)
(* lines of a process add up to its last value, the JSON file is a list,   *)
(* and update_children ends with the tree that is there.                   *)
(*                                                                         *)
(* The processes change between any two steps of the sample.  What the     *)
(* proofs rest on is that a process has one parent for ever or becomes an  *)
(* orphan for ever, so that a node that was removed never comes back.      *)
(***************************************************************************)
EXTENDS ProcessTree, FiniteSetTheorems, SequenceTheorems, WellFoundedInduction, TLAPS

-----------------------------------------------------------------------------
(* The inductive invariant.                                                *)

Sampling ==
  {"orphans", "children", "load", "prefix", "column", "newline", "json", "record"}

\* x is the root, or a node under one that is done.
Reached(x, below, done) == x = Root \/ \E q \in done : x \in below[q]

\* What is to do has not been done, and is there once; all that is to do or
\* done has been reached from the root.
Ahead(todo, below, done) ==
  /\ IsInjective(todo)
  /\ \A i \in 1 .. Len(todo) : todo[i] \notin done /\ Reached(todo[i], below, done)
  /\ \A x \in done : Reached(x, below, done)

\* No node is under two others, and the root is under none.
Apart(below) ==
  /\ \A p \in Pids : Root \notin below[p]
  /\ \A p, q \in Pids : below[p] \cap below[q] # {} => p = q

\* While a sample is taken there is something to do.  If that is the root, then
\* nothing else; and it is the root if a record is written.
Agenda ==
  /\ \E done \in SUBSET Pids : Ahead(agenda, children, done)
  /\ \A i \in 1 .. Len(agenda) : agenda[i] = Root => Len(agenda) = 1
  /\ pc \in Sampling => agenda # <<>> /\ record_number < MaxRecords
  /\ pc \in {"json", "record"} => Head(agenda) = Root

\* A process with a node was spawned, by the process that its node is under.
Parents ==
  /\ status[Root] # "new" /\ ppid[Root] = Outside
  /\ \A q \in Pids : \A c \in children[q] : status[c] # "new" /\ ppid[c] \in {q, Outside}

\* A process that has not had a node yet.
Fresh(c) == status[c] = "new" \/ \E p \in Pids : c \in ChildrenOf(p) \ children[p]

\* The previous value of a node is the value in its last line.
Remembered ==
  /\ DifferencesAddUp
  /\ \A c \in Pids : written[c].last = previous_values[c]
  /\ \A c \in Pids : Fresh(c) => previous_values[c] = 0

\* Records and commas alternate after the bracket.
TextAt(i) == IF i % 2 = 0 THEN "record" ELSE "comma"

Alternates(text) ==
  Len(text) >= 1 /\ text[1] = "list" /\ \A i \in 2 .. Len(text) : text[i] = TextAt(i)

\* The last is no comma.
Whole(text) == Len(text) = 1 \/ Len(text) % 2 = 0

\* The sample has not got beyond the root.
AtRoot == agenda # <<>> /\ Head(agenda) = Root

\* The root has not been visited in this sample.
BeforeRoot ==
  \/ pc \in {"test", "orphans", "children"}
  \/ pc \in {"prefix", "column", "newline", "json", "record"} /\ Head(agenda) = Root

\* Each sample writes a record when it visits the root, and a comma before it.  A
\* sample without a record is the last that may write anything: the root can
\* never be read again.
JsonSoFar ==
  ~ omit_first =>
    /\ pc # "load"
    /\ pc # "closed" => Alternates(json)
    /\ pc \notin {"record", "closed", "crashed"} => Whole(json) \/ (pc = "close" /\ AtRoot)
    /\ pc = "record" /\ record_number > 0 => Len(json) % 2 = 1
    /\ pc # "closed" /\ record_number > 0 /\ Len(json) = 1 => Raises(Root)
    /\ BeforeRoot /\ record_number = 0 => Len(json) = 1
    /\ pc \in {"prefix", "column", "newline"} /\ Head(agenda) # Root => Len(json) # 1
    /\ JsonIsAList

IInv ==
  /\ TypeOK
  /\ Apart(children)
  /\ Agenda
  /\ Parents
  /\ Remembered
  /\ JsonSoFar

-----------------------------------------------------------------------------
(* Lemmas about sets of processes and sequences of nodes.                  *)

LEMMA PidsFacts ==
  /\ Root \in Pids /\ Outside \notin Pids /\ Pids \subseteq Nat
  /\ IsFiniteSet(Pids)
<1>1. Root \in Nat \ {0} /\ LastPid \in Nat /\ Root <= LastPid
  BY ProcessTreeAssumption
<1>2. IsFiniteSet(Root .. LastPid)
  BY <1>1, FS_Interval
<1>3. QED
  BY <1>1, <1>2 DEF Pids, Outside

LEMMA ValuesAreInts ==
  \A v \in Values \cup {0} : v \in Int
BY ProcessTreeAssumption

LEMMA HeadIsFirst ==
  ASSUME NEW S, NEW s \in Seq(S), s # <<>>
  PROVE  /\ Head(s) \in S /\ Head(s) = s[1] /\ 1 \in 1 .. Len(s)
         /\ Len(s) = 1 => Tail(s) = <<>>
<1>1. Head(s) = s[1] /\ Len(s) \in Nat
  OBVIOUS
<1>2. Len(s) # 0
  BY EmptySeq
<1>3. Head(s) \in S /\ Tail(s) \in Seq(S) /\ Len(Tail(s)) = Len(s) - 1
  BY HeadTailProperties
<1>4. Len(s) = 1 => Tail(s) = <<>>
  <2> DEFINE t == Tail(s)
  <2>1. t \in Seq(S) /\ Len(t) = Len(s) - 1
    BY <1>3
  <2> HIDE DEF t
  <2>2. Len(s) = 1 => Len(t) = 0
    BY <2>1
  <2>3. Len(t) = 0 => t = <<>>
    BY <2>1, EmptySeq
  <2>4. QED
    BY <2>2, <2>3 DEF t
<1>5. QED
  BY <1>1, <1>2, <1>3, <1>4

LEMMA Concatenated ==
  ASSUME NEW S, NEW s \in Seq(S), NEW t \in Seq(S), NEW u, u = s \o t
  PROVE  /\ u \in Seq(S) /\ Len(u) = Len(s) + Len(t)
         /\ \A i \in 1 .. Len(s) + Len(t) : u[i] = IF i <= Len(s) THEN s[i] ELSE t[i - Len(s)]
  BY ConcatProperties

\* What is in one of two sequences is in them one after the other.
LEMMA RangeOfBoth ==
  ASSUME NEW s \in Seq(Pids), NEW t \in Seq(Pids), NEW u, u = s \o t
  PROVE  u \in Seq(Pids) /\ Range(u) = Range(s) \cup Range(t)
<1>1. /\ u \in Seq(Pids) /\ Len(u) = Len(s) + Len(t)
      /\ \A i \in 1 .. Len(s) + Len(t) : u[i] = IF i <= Len(s) THEN s[i] ELSE t[i - Len(s)]
  BY Concatenated
<1>2. /\ Len(s) \in Nat /\ Len(t) \in Nat
      /\ DOMAIN s = 1 .. Len(s) /\ DOMAIN t = 1 .. Len(t) /\ DOMAIN u = 1 .. Len(u)
  BY <1>1, LenProperties
<1>3. ASSUME NEW x \in Range(u)
      PROVE  x \in Range(s) \/ x \in Range(t)
  <2>1. PICK i \in 1 .. Len(u) : x = u[i]
    BY <1>2 DEF Range
  <2>2. CASE i <= Len(s)
    <3>1. i \in 1 .. Len(s) /\ x = s[i]
      BY <1>1, <1>2, <2>1, <2>2
    <3>2. QED
      BY <1>2, <3>1 DEF Range
  <2>3. CASE i > Len(s)
    <3>1. i - Len(s) \in 1 .. Len(t) /\ x = t[i - Len(s)]
      BY <1>1, <1>2, <2>1, <2>3
    <3>2. QED
      BY <1>2, <3>1 DEF Range
  <2>4. QED
    BY <1>2, <2>1, <2>2, <2>3
<1>4. ASSUME NEW x \in Range(s)
      PROVE  x \in Range(u)
  <2>1. PICK i \in 1 .. Len(s) : x = s[i]
    BY <1>2 DEF Range
  <2>2. i \in 1 .. Len(u) /\ u[i] = s[i]
    BY <1>1, <1>2
  <2>3. QED
    BY <1>2, <2>1, <2>2 DEF Range
<1>5. ASSUME NEW x \in Range(t)
      PROVE  x \in Range(u)
  <2>1. PICK i \in 1 .. Len(t) : x = t[i]
    BY <1>2 DEF Range
  <2>2. Len(s) + i \in 1 .. Len(u) /\ u[Len(s) + i] = t[i]
    BY <1>1, <1>2
  <2>3. QED
    BY <1>2, <2>1, <2>2 DEF Range
<1>6. QED
  BY <1>1, <1>3, <1>4, <1>5

LEMMA OneElement ==
  ASSUME NEW S, NEW x \in S
  PROVE  <<x>> \in Seq(S) /\ Len(<<x>>) = 1 /\ <<x>>[1] = x
  OBVIOUS

\* Of two processes of S, the older has fewer up to it.
LEMMA OlderHasFewer ==
  ASSUME NEW S \in SUBSET Pids, NEW p \in S, NEW q \in S, p < q
  PROVE  Cardinality({r \in S : r <= p}) < Cardinality({r \in S : r <= q})
<1> DEFINE A == {r \in S : r <= p}
           B == {r \in S : r <= q}
<1>1. p \in Nat /\ q \in Nat /\ S \subseteq Nat
  BY PidsFacts
<1>2. IsFiniteSet(S)
  BY PidsFacts, FS_Subset
<1>3. B \in SUBSET S /\ A \in SUBSET B /\ q \in B /\ q \notin A
  <2>1. \A r \in S : r \in Nat
    BY <1>1
  <2>2. \A r \in S : r <= p => r <= q
    BY <1>1, <2>1
  <2>3. q \in B /\ q \notin A
    BY <1>1
  <2>4. QED
    BY <2>2, <2>3
<1> HIDE DEF A, B
<1>4. IsFiniteSet(B)
  BY <1>2, <1>3, FS_Subset
<1>5. IsFiniteSet(A) /\ Cardinality(A) <= Cardinality(B) /\ Cardinality(A) # Cardinality(B)
  BY <1>3, <1>4, FS_Subset
<1>6. Cardinality(A) \in Nat /\ Cardinality(B) \in Nat
  BY <1>4, <1>5, FS_CardinalityType
<1>7. Cardinality(A) < Cardinality(B)
  BY <1>5, <1>6
<1>8. QED
  BY <1>7 DEF A, B

\* ByPid(S) has each process of S once, and nothing else.
LEMMA ByPidFacts ==
  ASSUME NEW S \in SUBSET Pids
  PROVE  /\ ByPid(S) \in Seq(S)
         /\ IsInjective(ByPid(S))
         /\ \A p \in S : \E i \in 1 .. Len(ByPid(S)) : ByPid(S)[i] = p
<1> DEFINE n == Cardinality(S)
           upTo(p) == Cardinality({q \in S : q <= p})
           f == [p \in S |-> upTo(p)]
           g == [i \in 1 .. n |-> CHOOSE p \in S : upTo(p) = i]
<1>1. IsFiniteSet(S) /\ n \in Nat
  <2>1. IsFiniteSet(S)
    BY PidsFacts, FS_Subset
  <2>2. QED
    BY <2>1, FS_CardinalityType
<1>2. \A p, q \in S : upTo(p) = upTo(q) => p = q
  <2> TAKE p, q \in S
  <2>1. p \in Nat /\ q \in Nat
    BY PidsFacts
  <2>2. CASE p < q
    <3>1. upTo(p) < upTo(q)
      BY <2>2, OlderHasFewer
    <3>2. upTo(p) \in Nat /\ upTo(q) \in Nat
      BY <1>1, FS_Subset, FS_CardinalityType
    <3>3. QED
      BY <3>1, <3>2
  <2>3. CASE q < p
    <3>1. upTo(q) < upTo(p)
      BY <2>3, OlderHasFewer
    <3>2. upTo(p) \in Nat /\ upTo(q) \in Nat
      BY <1>1, FS_Subset, FS_CardinalityType
    <3>3. QED
      BY <3>1, <3>2
  <2>4. QED
    BY <2>1, <2>2, <2>3
<1>3. \A p \in S : upTo(p) \in 1 .. n
  <2> TAKE p \in S
  <2> DEFINE T == {q \in S : q <= p}
  <2>1. T \in SUBSET S /\ p \in T
    BY PidsFacts
  <2> HIDE DEF T
  <2>2. IsFiniteSet(T) /\ Cardinality(T) <= n
    BY <1>1, <2>1, FS_Subset
  <2>3. Cardinality(T) \in Nat /\ Cardinality(T) # 0
    BY <2>1, <2>2, FS_CardinalityType, FS_EmptySet
  <2>4. Cardinality(T) \in 1 .. n
    BY <1>1, <2>2, <2>3
  <2>5. QED
    BY <2>4 DEF T
<1> HIDE DEF upTo, n
<1>4. f \in Injection(S, 1 .. n)
  BY <1>2, <1>3 DEF Injection, IsInjective
<1>5. IsFiniteSet(1 .. n) /\ Cardinality(1 .. n) = n
  <2>1. Cardinality(1 .. n) = IF 1 > n THEN 0 ELSE n - 1 + 1
    BY <1>1, FS_Interval
  <2>2. QED
    BY <1>1, <2>1, FS_Interval
<1>6. f \in Surjection(S, 1 .. n)
  <2> HIDE DEF f
  <2>1. Cardinality(S) = Cardinality(1 .. n)
    BY <1>5 DEF n
  <2>2. QED
    BY <1>4, <1>5, <2>1, FS_Injection
<1>7. \A i \in 1 .. n : \E p \in S : upTo(p) = i
  BY <1>6 DEF Surjection
<1>8. \A i \in 1 .. n : g[i] \in S /\ upTo(g[i]) = i
  BY <1>7
<1>9. ByPid(S) = g
  BY DEF ByPid, n, upTo
<1>10. g \in Seq(S) /\ Len(g) = n
  <2>1. g \in [1 .. n -> S]
    BY <1>8
  <2> HIDE DEF g
  <2>2. g \in Seq(S) /\ DOMAIN g = 1 .. n
    BY <1>1, <2>1
  <2>3. Len(g) = n
    BY <1>1, <2>2
  <2>4. QED
    BY <2>2, <2>3
<1>11. IsInjective(g)
  <2>1. DOMAIN g = 1 .. n
    OBVIOUS
  <2> HIDE DEF g
  <2>2. QED
    BY <1>8, <2>1 DEF IsInjective
<1>12. \A p \in S : \E i \in 1 .. n : g[i] = p
  <2> HIDE DEF g
  <2> TAKE p \in S
  <2>1. upTo(p) \in 1 .. n
    BY <1>3
  <2>2. g[upTo(p)] = p
    BY <1>2, <1>8, <2>1
  <2>3. QED
    BY <2>1, <2>2
<1>13. QED
  BY <1>9, <1>10, <1>11, <1>12

\* When the first is done, nodes under it take its place, or none.
LEMMA AheadOnward ==
  ASSUME NEW todo \in Seq(Pids), todo # <<>>, NEW below, NEW done,
         Ahead(todo, below, done), done \in SUBSET Pids, Apart(below),
         NEW nodes \in Seq(Pids), IsInjective(nodes),
         \A i \in 1 .. Len(nodes) : nodes[i] \in below[Head(todo)]
  PROVE  Ahead(nodes \o Tail(todo), below, done \cup {Head(todo)})
<1> DEFINE p == Head(todo)
           rest == Tail(todo)
           left == nodes \o rest
           after == done \cup {p}
           m == Len(nodes)
<1>1. /\ Len(todo) \in Nat \ {0} /\ p = todo[1] /\ p \in Pids
      /\ rest \in Seq(Pids) /\ Len(rest) = Len(todo) - 1
      /\ \A i \in 1 .. Len(rest) : rest[i] = todo[i + 1]
  BY HeadTailProperties, LenProperties
<1>2. m \in Nat
  BY LenProperties
<1>3. /\ left \in Seq(Pids) /\ Len(left) = m + Len(rest)
      /\ \A i \in 1 .. m + Len(rest) : left[i] = IF i <= m THEN nodes[i] ELSE rest[i - m]
  <2> HIDE DEF rest
  <2> QED BY <1>1, ConcatProperties
<1>4. \A i, j \in 1 .. Len(todo) : todo[i] = todo[j] => i = j
  BY LenProperties DEF Ahead, IsInjective
<1> HIDE DEF p, rest, left, m
<1>5. p \notin done /\ Reached(p, below, done)
  BY <1>1 DEF Ahead
<1>6. ASSUME NEW x \in below[p]
      PROVE  ~ Reached(x, below, done)
  <2>1. x # Root
    BY <1>1 DEF Apart
  <2>2. ASSUME NEW q \in done, x \in below[q] PROVE FALSE
    <3>1. q = p
      BY <1>1, <2>2 DEF Apart
    <3>2. QED
      BY <1>5, <3>1
  <2>3. QED
    BY <2>1, <2>2 DEF Reached
<1>7. \A i \in 1 .. m : nodes[i] \in below[p]
  BY DEF m, p
<1>8. \A i \in 1 .. Len(rest) :
        rest[i] \notin after /\ Reached(rest[i], below, done)
  <2> TAKE i \in 1 .. Len(rest)
  <2>1. i + 1 \in 1 .. Len(todo) /\ rest[i] = todo[i + 1] /\ i + 1 # 1 /\ 1 \in 1 .. Len(todo)
    BY <1>1
  <2>2. todo[i + 1] # todo[1]
    BY <1>4, <2>1
  <2>3. todo[i + 1] \notin done /\ Reached(todo[i + 1], below, done)
    BY <2>1 DEF Ahead
  <2>4. QED
    BY <1>1, <2>1, <2>2, <2>3
<1>9. \A i \in 1 .. m : nodes[i] \notin after
  <2> TAKE i \in 1 .. m
  <2>1. ~ Reached(nodes[i], below, done)
    BY <1>6, <1>7
  <2>2. nodes[i] \notin done
    BY <2>1 DEF Ahead
  <2>3. nodes[i] # p
    BY <1>5, <2>1
  <2>4. QED
    BY <2>2, <2>3
<1>10. \A x : Reached(x, below, done) => Reached(x, below, after)
  BY DEF Reached
<1>11. \A i \in 1 .. m : Reached(nodes[i], below, after)
  BY <1>7 DEF Reached
<1>12. IsInjective(left)
  <2>1. DOMAIN left = 1 .. m + Len(rest)
    BY <1>3, LenProperties
  <2>2. ASSUME NEW i \in 1 .. m + Len(rest), NEW j \in 1 .. m + Len(rest), left[i] = left[j]
        PROVE  i = j
    <3>0. Len(rest) \in Nat
      BY <1>1
    <3>1. CASE i <= m /\ j <= m
      <4>1. i \in 1 .. m /\ j \in 1 .. m /\ nodes[i] = nodes[j]
        BY <1>2, <1>3, <2>2, <3>1
      <4>2. DOMAIN nodes = 1 .. m
        BY LenProperties DEF m
      <4>3. QED
        BY <4>1, <4>2 DEF IsInjective
    <3>2. CASE i > m /\ j > m
      <4>1. /\ i - m + 1 \in 1 .. Len(todo) /\ j - m + 1 \in 1 .. Len(todo)
            /\ i - m \in 1 .. Len(rest) /\ j - m \in 1 .. Len(rest)
        BY <1>1, <1>2, <3>0, <3>2
      <4>2. rest[i - m] = rest[j - m]
        BY <1>2, <1>3, <2>2, <3>0, <3>2
      <4>3. todo[i - m + 1] = todo[j - m + 1]
        BY <1>1, <4>1, <4>2
      <4>4. i - m + 1 = j - m + 1
        BY <1>4, <4>1, <4>3
      <4>5. QED
        BY <1>2, <3>0, <4>4
    <3>3. ASSUME NEW k \in 1 .. m, NEW l \in 1 .. Len(rest), nodes[k] = rest[l] PROVE FALSE
      BY <1>6, <1>7, <1>8, <3>3
    <3>4. CASE i <= m /\ j > m
      <4>1. i \in 1 .. m /\ j - m \in 1 .. Len(rest) /\ nodes[i] = rest[j - m]
        BY <1>2, <1>3, <2>2, <3>0, <3>4
      <4>2. QED
        BY <3>3, <4>1
    <3>5. CASE i > m /\ j <= m
      <4>1. j \in 1 .. m /\ i - m \in 1 .. Len(rest) /\ nodes[j] = rest[i - m]
        BY <1>2, <1>3, <2>2, <3>0, <3>5
      <4>2. QED
        BY <3>3, <4>1
    <3>6. QED
      BY <1>2, <3>0, <3>1, <3>2, <3>4, <3>5
  <2>3. QED
    BY <2>1, <2>2 DEF IsInjective
<1>13. \A i \in 1 .. Len(left) : left[i] \notin after /\ Reached(left[i], below, after)
  <2> TAKE i \in 1 .. Len(left)
  <2>1. CASE i <= m
    <3>1. i \in 1 .. m /\ left[i] = nodes[i]
      BY <1>1, <1>2, <1>3, <2>1
    <3>2. QED
      BY <1>9, <1>11, <3>1
  <2>2. CASE i > m
    <3>1. i - m \in 1 .. Len(rest) /\ left[i] = rest[i - m]
      BY <1>1, <1>2, <1>3, <2>2
    <3>2. QED
      BY <1>8, <1>10, <3>1
  <2>3. QED
    BY <1>1, <1>2, <1>3, <2>1, <2>2
<1>14. \A x \in after : Reached(x, below, after)
  BY <1>5, <1>10 DEF Ahead
<1>15. QED
  BY <1>12, <1>13, <1>14 DEF Ahead, left, p, rest

\* What is under the node that is to be done next does not matter.
LEMMA AheadKept ==
  ASSUME NEW todo \in Seq(Pids), todo # <<>>, NEW below, NEW done,
         Ahead(todo, below, done), NEW now,
         \A q \in done : q # Head(todo) => now[q] = below[q]
  PROVE  Ahead(todo, now, done)
<1>1. Head(todo) \notin done
  BY LenProperties DEF Ahead
<1>2. \A x : Reached(x, below, done) => Reached(x, now, done)
  BY <1>1 DEF Reached
<1>3. QED
  BY <1>2 DEF Ahead

-----------------------------------------------------------------------------
(* Lemmas about the agenda and the values.                                 *)

\* When the head of the agenda is done.
LEMMA HeadDone ==
  ASSUME TypeOK, Agenda, agenda # <<>>, NEW below, Apart(below),
         \A q \in Pids : q # Head(agenda) => below[q] = children[q],
         NEW nodes \in Seq(Pids), IsInjective(nodes),
         \A i \in 1 .. Len(nodes) : nodes[i] \in below[Head(agenda)],
         NEW left, left = nodes \o Tail(agenda)
  PROVE  /\ left \in Seq(Pids) /\ IsInjective(left)
         /\ \E done \in SUBSET Pids : Ahead(left, below, done)
         /\ \A i \in 1 .. Len(left) : left[i] # Root
<1>1. agenda \in Seq(Pids)
  BY DEF TypeOK
<1>2. PICK done \in SUBSET Pids : Ahead(agenda, children, done)
  BY DEF Agenda
<1>3. Ahead(agenda, below, done)
  BY <1>1, <1>2, AheadKept
<1>4. Ahead(left, below, done \cup {Head(agenda)})
  BY <1>1, <1>3, AheadOnward
<1>5. /\ Head(agenda) \in Pids /\ Tail(agenda) \in Seq(Pids)
      /\ Len(Tail(agenda)) = Len(agenda) - 1 /\ Len(agenda) \in Nat
      /\ \A i \in 1 .. Len(Tail(agenda)) : Tail(agenda)[i] = agenda[i + 1]
  BY <1>1, HeadTailProperties, LenProperties
<1>6. /\ left \in Seq(Pids) /\ Len(left) = Len(nodes) + Len(Tail(agenda))
      /\ \A i \in 1 .. Len(nodes) + Len(Tail(agenda)) :
           left[i] = IF i <= Len(nodes) THEN nodes[i] ELSE Tail(agenda)[i - Len(nodes)]
  BY <1>5, ConcatProperties
<1>7. \A i \in 1 .. Len(left) : left[i] # Root
  <2> TAKE i \in 1 .. Len(left)
  <2>1. Len(nodes) \in Nat /\ Len(Tail(agenda)) \in Nat
    BY <1>5, LenProperties
  <2>2. CASE i <= Len(nodes)
    <3>1. i \in 1 .. Len(nodes) /\ left[i] = nodes[i]
      BY <1>6, <2>1, <2>2
    <3>2. nodes[i] \in below[Head(agenda)]
      BY <3>1
    <3>3. QED
      BY <1>5, <3>1, <3>2 DEF Apart
  <2>3. CASE i > Len(nodes)
    <3> DEFINE k == i - Len(nodes)
    <3>1. k \in 1 .. Len(Tail(agenda)) /\ left[i] = Tail(agenda)[k]
      BY <1>6, <2>1, <2>3
    <3> HIDE DEF k
    <3>2. left[i] = agenda[k + 1]
      BY <1>5, <3>1
    <3>3. k + 1 \in 1 .. Len(agenda) /\ Len(agenda) # 1
      <4> DEFINE n == Len(agenda)
                 m == Len(Tail(agenda))
      <4>1. n \in Nat /\ m = n - 1 /\ k \in 1 .. m
        BY <1>5, <3>1
      <4> HIDE DEF n, m
      <4>2. k + 1 \in 1 .. n /\ n # 1
        BY <4>1
      <4>3. QED
        BY <4>2 DEF n
    <3>4. QED
      BY <3>2, <3>3 DEF Agenda
  <2>4. QED
    BY <2>1, <2>2, <2>3
<1>8. IsInjective(left)
  BY <1>4 DEF Ahead
<1>9. done \cup {Head(agenda)} \in SUBSET Pids
  BY <1>5
<1>10. QED
  BY <1>4, <1>6, <1>7, <1>8, <1>9

\* A visit leaves the agenda in order; it ends the sample if nothing is left.
LEMMA VisitFacts ==
  ASSUME TypeOK, Agenda, Apart(children), pc \in Sampling, children' = children,
         NEW nodes \in Seq(Pids), IsInjective(nodes),
         \A i \in 1 .. Len(nodes) : nodes[i] \in children[Head(agenda)],
         NEW step \in Sampling \ {"json", "record"}, Visit(nodes, step)
  PROVE  /\ Agenda' /\ agenda' \in Seq(Pids) /\ IsInjective(agenda')
         /\ record_number' \in 0 .. MaxRecords /\ pc' \in {"test", step}
         /\ \A i \in 1 .. Len(agenda') : agenda'[i] # Root
         /\ pc' = "test" => record_number' # 0
         /\ pc' = step => record_number' = record_number /\ agenda' # <<>>
         /\ pc' = step => nodes # <<>> \/ Tail(agenda) # <<>>
<1>1. agenda # <<>> /\ record_number < MaxRecords /\ record_number \in 0 .. MaxRecords
  BY DEF Agenda, TypeOK
<1>2. agenda' = nodes \o Tail(agenda)
  BY DEF Visit
<1>3. /\ agenda' \in Seq(Pids) /\ IsInjective(agenda')
      /\ \E done \in SUBSET Pids : Ahead(agenda', children, done)
      /\ \A i \in 1 .. Len(agenda') : agenda'[i] # Root
  BY <1>1, <1>2, HeadDone
<1>4. MaxRecords \in Nat
  BY ProcessTreeAssumption
<1>5. CASE agenda' = <<>>
  <2>1. pc' = "test" /\ record_number' = record_number + 1
    BY <1>2, <1>5 DEF Visit, NextSample
  <2>2. record_number' \in 0 .. MaxRecords /\ record_number' # 0
    BY <1>1, <1>4, <2>1
  <2>3. QED
    BY <1>3, <2>1, <2>2 DEF Agenda, Sampling
<1>6. CASE agenda' # <<>>
  <2>1. pc' = step /\ record_number' = record_number
    BY <1>2, <1>6 DEF Visit
  <2>2. nodes # <<>> \/ Tail(agenda) # <<>>
    <3>1. <<>> \o <<>> = <<>>
      OBVIOUS
    <3>2. QED
      BY <1>2, <1>6, <3>1
  <2>3. QED
    BY <1>1, <1>3, <1>6, <2>1, <2>2 DEF Agenda, Sampling
<1>7. QED
  BY <1>5, <1>6

\* The nodes that a visit may put on the agenda.
LEMMA NodesToVisit ==
  ASSUME TypeOK, agenda # <<>>
  PROVE  /\ Head(agenda) \in Pids
         /\ <<>> \in Seq(Pids) /\ IsInjective(<<>>) /\ Len(<<>>) = 0
         /\ ByPid(children[Head(agenda)]) \in Seq(Pids)
         /\ IsInjective(ByPid(children[Head(agenda)]))
         /\ \A i \in 1 .. Len(ByPid(children[Head(agenda)])) :
              ByPid(children[Head(agenda)])[i] \in children[Head(agenda)]
<1>1. Head(agenda) \in Pids
  BY HeadTailProperties DEF TypeOK
<1>2. children[Head(agenda)] \in SUBSET Pids
  BY <1>1 DEF TypeOK
<1> DEFINE S == children[Head(agenda)]
           s == ByPid(S)
<1> HIDE DEF S
<1>3. S \in SUBSET Pids
  BY <1>2 DEF S
<1>4. s \in Seq(S) /\ IsInjective(s)
  BY <1>3, ByPidFacts
<1> HIDE DEF s
<1>5. s \in Seq(Pids) /\ \A i \in 1 .. Len(s) : s[i] \in S
  BY <1>3, <1>4
<1>6. <<>> \in Seq(Pids) /\ Len(<<>>) = 0 /\ IsInjective(<<>>)
  BY DEF IsInjective
<1>7. QED
  BY <1>1, <1>4, <1>5, <1>6 DEF s, S

\* What is visited has had a node before.
LEMMA HeadIsNotFresh ==
  ASSUME IInv, pc \in Sampling
  PROVE  agenda # <<>> /\ Head(agenda) \in Pids /\ ~ Fresh(Head(agenda))
<1>1. TypeOK /\ agenda # <<>>
  BY DEF IInv, Agenda
<1>2. PICK done \in SUBSET Pids : Ahead(agenda, children, done)
  BY DEF IInv, Agenda
<1> DEFINE p == Head(agenda)
<1>3. p \in Pids /\ p = agenda[1] /\ 1 \in 1 .. Len(agenda)
  <2>1. agenda \in Seq(Pids)
    BY <1>1 DEF TypeOK
  <2>2. QED
    BY <1>1, <2>1
<1> HIDE DEF p
<1>4. p = Root \/ \E q \in Pids : p \in children[q]
  BY <1>2, <1>3 DEF Ahead, Reached
<1>5. status[p] # "new" /\ \A q \in Pids : p \in ChildrenOf(q) => p \in children[q]
  <2>1. CASE p = Root
    <3>1. ppid[Root] = Outside
      BY DEF IInv, Parents
    <3>2. QED
      BY <2>1, <3>1, PidsFacts DEF IInv, Parents, ChildrenOf
  <2>2. ASSUME NEW q \in Pids, p \in children[q]
        PROVE  status[p] # "new" /\ \A r \in Pids : p \in ChildrenOf(r) => p \in children[r]
    BY <2>2, PidsFacts DEF IInv, Parents, ChildrenOf
  <2>3. QED
    BY <1>4, <2>1, <2>2
<1>6. QED
  BY <1>1, <1>3, <1>5 DEF Fresh, p

-----------------------------------------------------------------------------
(* The processes change.                                                   *)

\* What may become of a process in one step.
Moves ==
  /\ status' \in [Pids -> {"new", "running", "zombie", "gone"}]
  /\ ppid' \in [Pids -> Pids \cup {Outside}]
  /\ value' \in [Pids -> Values \cup {0}]
  /\ \A c \in Pids :
       /\ status'[c] = "new" => status[c] = "new"
       /\ status[c] = "gone" => status'[c] = "gone"
       /\ status[c] = "zombie" => status'[c] \in {"zombie", "gone"}
       /\ status[c] # "new" => ppid'[c] \in {ppid[c], Outside}

LEMMA ProcessesMove ==
  ASSUME TypeOK, NEW p \in Pids, Spawn(p) \/ End(p) \/ WaitedFor(p) \/ ValueChanges(p)
  PROVE  Moves /\ Logging
<1>1. CASE Spawn(p)
  <2>1. PICK c \in Pids : /\ status[c] = "new"
                          /\ status' = [status EXCEPT ![c] = "running"]
                          /\ ppid' = [ppid EXCEPT ![c] = p]
    BY <1>1 DEF Spawn
  <2>2. value' = value /\ Logging
    BY <1>1 DEF Spawn
  <2>3. QED
    BY <2>1, <2>2 DEF TypeOK, Moves
<1>2. CASE End(p)
  <2>1. /\ status[p] = "running" /\ status' = [status EXCEPT ![p] = "zombie"]
        /\ ppid' = [c \in Pids |-> IF ppid[c] = p THEN Outside ELSE ppid[c]]
        /\ value' = value /\ Logging
    BY <1>2 DEF End
  <2>2. QED
    BY <2>1 DEF TypeOK, Moves
<1>3. CASE WaitedFor(p)
  <2>1. /\ status[p] = "zombie" /\ status' = [status EXCEPT ![p] = "gone"]
        /\ ppid' = ppid /\ value' = value /\ Logging
    BY <1>3 DEF WaitedFor
  <2>2. QED
    BY <2>1 DEF TypeOK, Moves
<1>4. CASE ValueChanges(p)
  <2>1. PICK v \in Values : value' = [value EXCEPT ![p] = v]
    BY <1>4 DEF ValueChanges
  <2>2. status' = status /\ ppid' = ppid /\ Logging
    BY <1>4 DEF ValueChanges
  <2>3. QED
    BY <2>1, <2>2 DEF TypeOK, Moves
<1>5. QED
  BY <1>1, <1>2, <1>3, <1>4

\* The sample is as good as before.
LEMMA MoveKeepsInvariant ==
  ASSUME IInv, Moves, Logging
  PROVE  IInv'
<1>1. /\ UNCHANGED <<omit_first, denied, zombies_raise, children, previous_values>>
      /\ UNCHANGED <<pc, agenda, record_number, json, written>>
  BY DEF Logging, options, tree
<1>2. /\ status \in [Pids -> {"new", "running", "zombie", "gone"}]
      /\ ppid \in [Pids -> Pids \cup {Outside}]
  BY DEF IInv, TypeOK
<1>3. TypeOK'
  BY <1>1 DEF IInv, TypeOK, Moves
<1>4. Apart(children)' /\ Agenda'
  BY <1>1 DEF IInv, Apart, Agenda
<1>5. Parents'
  <2>1. status'[Root] # "new" /\ ppid'[Root] = Outside
    BY PidsFacts DEF IInv, Parents, Moves
  <2>2. ASSUME NEW q \in Pids, NEW c \in children[q]
        PROVE  status'[c] # "new" /\ ppid'[c] \in {q, Outside}
    <3>1. c \in Pids
      BY DEF IInv, TypeOK
    <3>2. status[c] # "new" /\ ppid[c] \in {q, Outside}
      BY DEF IInv, Parents
    <3>3. QED
      BY <3>1, <3>2 DEF Moves
  <2>3. QED
    BY <1>1, <2>1, <2>2 DEF Parents
<1>6. Remembered'
  <2>1. ASSUME NEW c \in Pids, Fresh(c)' PROVE Fresh(c)
    <3>1. CASE status[c] = "new"
      BY <3>1 DEF Fresh
    <3>2. CASE status[c] # "new"
      <4>1. status'[c] # "new"
        BY <3>2 DEF Moves
      <4>2. PICK p \in Pids : c \in ChildrenOf(p)' /\ c \notin children[p]
        BY <1>1, <2>1, <4>1 DEF Fresh
      <4>3. ppid'[c] = p /\ status'[c] \in {"running", "zombie"}
        BY <4>2 DEF ChildrenOf
      <4>4. ppid[c] = p
        BY <3>2, <4>3, PidsFacts DEF Moves
      <4>5. status[c] \in {"running", "zombie"}
        BY <1>2, <3>2, <4>3 DEF Moves
      <4>6. QED
        BY <4>2, <4>4, <4>5 DEF Fresh, ChildrenOf
    <3>3. QED
      BY <3>1, <3>2
  <2>2. QED
    BY <1>1, <2>1 DEF IInv, Remembered, DifferencesAddUp
<1>7. JsonSoFar'
  <2>1. Raises(Root) => Raises(Root)'
    BY <1>1, PidsFacts DEF Moves, Raises
  <2>2. BeforeRoot' <=> BeforeRoot
    BY <1>1 DEF BeforeRoot
  <2>3. JsonIsAList' <=> JsonIsAList
    BY <1>1 DEF JsonIsAList
  <2>4. JsonSoFar
    BY DEF IInv
  <2>5. QED
    BY <1>1, <2>1, <2>2, <2>3, <2>4 DEF JsonSoFar, AtRoot
<1>8. QED
  BY <1>3, <1>4, <1>5, <1>6, <1>7 DEF IInv

-----------------------------------------------------------------------------
(* Lemmas about steps of the sample.                                       *)

\* The program stops, in whatever it was doing.
LEMMA StopKeepsInvariant ==
  ASSUME IInv, pc \notin {"closed", "crashed"}, pc' \in {"close", "crashed"},
         UNCHANGED <<world, options, tree, agenda, record_number, json, written>>
  PROVE  IInv'
<1>1. UNCHANGED <<status, ppid, value, omit_first, denied, zombies_raise, children,
                  previous_values, agenda, record_number, json, written>>
  BY DEF world, options, tree
<1>2. TypeOK'
  BY <1>1 DEF IInv, TypeOK
<1>3. Apart(children)' /\ Agenda'
  BY <1>1 DEF IInv, Apart, Agenda, Sampling
<1>4. Parents'
  BY <1>1 DEF IInv, Parents
<1>5. Remembered'
  BY <1>1 DEF IInv, Remembered, DifferencesAddUp, Fresh, ChildrenOf
<1>6. JsonSoFar'
  <2>1. ~ BeforeRoot' /\ JsonIsAList' /\ (Raises(Root) => Raises(Root)')
    BY <1>1 DEF BeforeRoot, JsonIsAList, Raises
  <2>2. JsonSoFar /\ (pc = "record" => AtRoot)
    BY DEF IInv, Agenda, Sampling, AtRoot
  <2>3. AtRoot' <=> AtRoot
    BY <1>1 DEF AtRoot
  <2>4. QED
    BY <1>1, <2>1, <2>2, <2>3 DEF JsonSoFar
<1>7. QED
  BY <1>2, <1>3, <1>4, <1>5, <1>6 DEF IInv

\* The processes, their nodes and their lines are what they were.
LEMMA SameProcesses ==
  ASSUME IInv, UNCHANGED <<world, options, tree, written>>
  PROVE  Apart(children)' /\ Parents' /\ Remembered'
<1>1. UNCHANGED <<status, ppid, children, previous_values, written>>
  BY DEF world, tree
<1>2. QED
  BY <1>1 DEF IInv, Apart, Parents, Remembered, DifferencesAddUp, Fresh, ChildrenOf

\* A value is remembered when it is written.
LEMMA ValueIsRemembered ==
  ASSUME IInv, NEW p \in Pids, ~ Fresh(p), UNCHANGED <<world, children>>,
         NEW v \in Values \cup {0}, previous_values' = [previous_values EXCEPT ![p] = v],
         written' \in [Pids -> [sum : Int, last : Values \cup {0}]],
         written'[p].sum = v, written'[p].last = v,
         \A c \in Pids \ {p} : written'[c] = written[c]
  PROVE  /\ previous_values' \in [Pids -> Values \cup {0}]
         /\ Apart(children)' /\ Parents' /\ Remembered'
<1>1. UNCHANGED <<status, ppid, children>>
  BY DEF world
<1>2. previous_values \in [Pids -> Values \cup {0}]
  BY DEF IInv, TypeOK
<1>3. /\ previous_values' \in [Pids -> Values \cup {0}]
      /\ previous_values'[p] = v
      /\ \A c \in Pids \ {p} : previous_values'[c] = previous_values[c]
  BY <1>2
<1>4. \A c \in Pids : Fresh(c)' => Fresh(c) /\ c # p
  BY <1>1 DEF Fresh, ChildrenOf
<1>5. \A c \in Pids : /\ written'[c].sum = written'[c].last
                      /\ written'[c].last = previous_values'[c]
  BY <1>3 DEF IInv, Remembered, DifferencesAddUp
<1>6. Remembered'
  BY <1>3, <1>4, <1>5 DEF IInv, Remembered, DifferencesAddUp
<1>7. QED
  BY <1>1, <1>3, <1>6 DEF IInv, Apart, Parents

\* The JSON file after a visit.
LEMMA JsonAfterVisit ==
  ASSUME IInv, pc \in {"prefix", "column", "newline", "record"},
         NEW nodes \in Seq(Pids), IsInjective(nodes),
         \A i \in 1 .. Len(nodes) : nodes[i] \in children[Head(agenda)],
         Visit(nodes, "prefix"), UNCHANGED <<world, options, children>>,
         ~ omit_first => /\ Alternates(json') /\ Whole(json')
                         /\ Len(json') = 1 => Raises(Root) /\ Head(agenda) = Root /\ nodes = <<>>
  PROVE  JsonSoFar' /\ Agenda'
<1>1. TypeOK /\ Agenda /\ Apart(children) /\ pc \in Sampling /\ "prefix" \in Sampling \ {"json", "record"}
      /\ children' = children
  BY DEF IInv, Sampling
<1>2. /\ Agenda' /\ agenda' \in Seq(Pids) /\ pc' \in {"test", "prefix"}
      /\ \A i \in 1 .. Len(agenda') : agenda'[i] # Root
      /\ pc' = "test" => record_number' # 0
      /\ pc' = "prefix" => agenda' # <<>>
      /\ pc' = "prefix" => nodes # <<>> \/ Tail(agenda) # <<>>
  BY <1>1, VisitFacts
<1>3. Raises(Root) <=> Raises(Root)'
  BY DEF Raises, world, options
<1>4. pc' = "prefix" => Head(agenda') # Root
  <2> SUFFICES ASSUME pc' = "prefix" PROVE Head(agenda') # Root
    OBVIOUS
  <2> DEFINE a == agenda'
  <2>1. a \in Seq(Pids) /\ a # <<>>
    BY <1>2
  <2>2. \A i \in 1 .. Len(a) : a[i] # Root
    BY <1>2
  <2> HIDE DEF a
  <2>3. Head(a) = a[1] /\ 1 \in 1 .. Len(a)
    BY <2>1, HeadIsFirst
  <2>4. Head(a) # Root
    BY <2>2, <2>3
  <2>5. QED
    BY <2>4 DEF a
<1>5. Head(agenda) = Root => Tail(agenda) = <<>>
  <2> DEFINE a == agenda
  <2>1. a \in Seq(Pids) /\ a # <<>>
    BY <1>1 DEF TypeOK, Agenda
  <2>2. \A i \in 1 .. Len(a) : a[i] = Root => Len(a) = 1
    BY <1>1 DEF Agenda
  <2> HIDE DEF a
  <2>3. Head(a) = a[1] /\ 1 \in 1 .. Len(a) /\ (Len(a) = 1 => Tail(a) = <<>>)
    BY <2>1, HeadIsFirst
  <2>4. Head(a) = Root => Tail(a) = <<>>
    BY <2>2, <2>3
  <2>5. QED
    BY <2>4 DEF a
<1>6. ~ omit_first /\ pc' = "prefix" => Len(json') # 1
  BY <1>2, <1>5
<1>7. ~ BeforeRoot' \/ pc' = "test"
  BY <1>2, <1>4 DEF BeforeRoot
<1>8. record_number' = 0 => ~ BeforeRoot'
  BY <1>2, <1>7
<1>9. omit_first' = omit_first /\ JsonIsAList'
  BY <1>2 DEF options, JsonIsAList
<1>10. QED
  BY <1>2, <1>3, <1>4, <1>6, <1>8, <1>9 DEF JsonSoFar

-----------------------------------------------------------------------------
(* Each step of the sample.                                                *)

\* The root alone on the agenda.
LEMMA RootAlone ==
  ASSUME NEW below
  PROVE  /\ <<Root>> \in Seq(Pids) /\ <<Root>> # <<>> /\ Len(<<Root>>) = 1
         /\ Head(<<Root>>) = Root /\ IsInjective(<<Root>>)
         /\ Ahead(<<Root>>, below, {})
<1> DEFINE s == <<Root>>
<1>1. s \in Seq(Pids) /\ Len(s) = 1 /\ s[1] = Root /\ s # <<>> /\ Head(s) = Root
  BY PidsFacts
<1>2. DOMAIN s = 1 .. 1
  OBVIOUS
<1> HIDE DEF s
<1>3. IsInjective(s)
  BY <1>2 DEF IsInjective
<1>4. Ahead(s, below, {})
  BY <1>1, <1>3 DEF Ahead, Reached
<1>5. QED
  BY <1>1, <1>3, <1>4 DEF s

LEMMA TestRunningKeepsInvariant ==
  ASSUME IInv, TestRunning
  PROVE  IInv'
<1>1. /\ pc = "test" /\ record_number < MaxRecords
      /\ UNCHANGED <<status, ppid, value, changes, options, tree, record_number, json, written>>
  BY DEF TestRunning
<1>2. CASE pc' = "close" /\ UNCHANGED <<agenda, stable, known>>
  <2>1. UNCHANGED <<world, options, tree, agenda, record_number, json, written>>
    BY <1>1, <1>2 DEF world
  <2>2. QED
    BY <1>1, <1>2, <2>1, StopKeepsInvariant
<1>3. CASE pc' = "orphans" /\ agenda' = <<Root>>
  <2>1. UNCHANGED <<omit_first, denied, zombies_raise, children, previous_values>>
    BY <1>1 DEF options, tree
  <2> DEFINE a == agenda'
  <2>2. /\ a \in Seq(Pids) /\ a # <<>> /\ Len(a) = 1 /\ IsInjective(a)
        /\ Ahead(a, children, {})
    BY <1>3, RootAlone
  <2> HIDE DEF a
  <2>3. TypeOK'
    BY <1>1, <1>3, <2>1, <2>2 DEF IInv, TypeOK, a
  <2>4. Agenda'
    <3>1. \E done \in SUBSET Pids : Ahead(a, children, done)
      BY <2>2
    <3>2. QED
      BY <1>1, <1>3, <2>1, <2>2, <3>1 DEF Agenda, a
  <2>5. Apart(children)' /\ Parents' /\ Remembered'
    BY <1>1, <2>1 DEF IInv, Apart, Parents, Remembered, DifferencesAddUp, Fresh, ChildrenOf
  <2>6. JsonSoFar'
    <3>1. BeforeRoot /\ JsonIsAList' /\ (Raises(Root) <=> Raises(Root)')
      BY <1>1, <1>3, <2>1 DEF BeforeRoot, JsonIsAList, Raises
    <3>2. JsonSoFar
      BY DEF IInv
    <3>3. QED
      BY <1>1, <1>3, <2>1, <3>1, <3>2 DEF JsonSoFar
  <2>7. QED
    BY <2>3, <2>4, <2>5, <2>6 DEF IInv
<1>4. QED
  BY <1>2, <1>3 DEF TestRunning

\* The list is closed after a record, if there is any.
LEMMA CloseKeepsInvariant ==
  ASSUME IInv, Close
  PROVE  IInv'
<1>1. /\ pc = "close" /\ pc' = "closed"
      /\ json' = IF record_number > 0 THEN Append(json, "end") ELSE json
      /\ UNCHANGED <<world, options, tree, agenda, record_number, written>>
  BY DEF Close
<1>2. UNCHANGED <<status, ppid, value, omit_first, denied, zombies_raise, children,
                  previous_values>>
  BY <1>1 DEF world, options, tree
<1> DEFINE Texts == {"list", "record", "comma", "end"}
           n == Len(json)
<1>3. json \in Seq(Texts) /\ n \in Nat
  BY LenProperties DEF IInv, TypeOK
<1>4. record_number > 0 =>
        /\ json' \in Seq(Texts) /\ Len(json') = n + 1 /\ json'[n + 1] = "end"
        /\ \A i \in 1 .. n : json'[i] = json[i]
  <2> SUFFICES ASSUME record_number > 0
               PROVE  /\ json' \in Seq(Texts) /\ Len(json') = n + 1 /\ json'[n + 1] = "end"
                      /\ \A i \in 1 .. n : json'[i] = json[i]
    OBVIOUS
  <2>1. json' = Append(json, "end") /\ "end" \in Texts
    BY <1>1
  <2> HIDE DEF Texts
  <2>2. QED
    BY <1>3, <2>1, AppendProperties
<1>5. TypeOK'
  <2>1. json' \in Seq(Texts)
    BY <1>1, <1>3, <1>4
  <2>2. QED
    BY <1>1, <1>2, <2>1 DEF IInv, TypeOK
<1>6. Apart(children)' /\ Parents' /\ Remembered'
  BY <1>1, SameProcesses
<1>7. Agenda'
  BY <1>1, <1>2 DEF IInv, Agenda, Sampling
<1>8. JsonSoFar'
  <2> SUFFICES ASSUME ~ omit_first
               PROVE  ~ BeforeRoot' /\ JsonIsAList'
    BY <1>1, <1>2 DEF JsonSoFar
  <2>0. n \in Nat
    BY <1>3
  <2>1. /\ n >= 1 /\ json[1] = "list" /\ \A i \in 2 .. n : json[i] = TextAt(i)
        /\ n = 1 \/ n % 2 = 0 \/ AtRoot
    BY <1>1 DEF IInv, JsonSoFar, Alternates, Whole
  <2> HIDE DEF n
  <2>2. ~ BeforeRoot'
    BY <1>1 DEF BeforeRoot
  <2>3. CASE record_number > 0
    <3>1. /\ Len(json') = n + 1 /\ json'[n + 1] = "end"
          /\ \A i \in 1 .. n : json'[i] = json[i]
      BY <1>4, <2>3
    <3>2. json'[1] = "list" /\ json'[Len(json')] = "end"
      BY <2>0, <2>1, <3>1
    <3>3. \A i \in 2 .. Len(json') - 1 : json'[i] = TextAt(i)
      <4> TAKE i \in 2 .. Len(json') - 1
      <4>1. i \in 2 .. n /\ i \in 1 .. n
        BY <2>0, <3>1
      <4>2. json'[i] = json[i]
        BY <3>1, <4>1
      <4>3. QED
        BY <2>1, <4>1, <4>2
    <3>4. ASSUME json'[Len(json') - 1] = "comma"
          PROVE  agenda' # <<>> /\ Head(agenda') = Root
      <4>1. n \in 1 .. n /\ Len(json') - 1 = n
        BY <2>0, <2>1, <3>1
      <4>2. json[n] = "comma"
        BY <3>1, <3>4, <4>1
      <4>3. n # 1
        BY <2>1, <4>2
      <4>4. n \in 2 .. n
        BY <2>0, <2>1, <4>3
      <4>5. n % 2 # 0
        BY <2>1, <4>2, <4>4 DEF TextAt
      <4>6. QED
        BY <1>1, <2>1, <4>3, <4>5 DEF AtRoot
    <3>5. QED
      BY <2>2, <3>2, <3>3, <3>4 DEF JsonIsAList, TextAt
  <2>4. CASE ~ (record_number > 0)
    <3>1. record_number' = record_number
      BY <1>1
    <3>2. JsonIsAList'
      BY <2>4, <3>1 DEF JsonIsAList
    <3>3. QED
      BY <2>2, <3>2
  <2>5. QED
    BY <2>3, <2>4
<1>9. QED
  BY <1>5, <1>6, <1>7, <1>8 DEF IInv

\* A node that is removed is a process that is no child of any other any more.
LEMMA RemoveOrphansKeepsInvariant ==
  ASSUME IInv, RemoveOrphans
  PROVE  IInv'
<1> DEFINE p == Head(agenda)
<1>1. /\ pc = "orphans" /\ pc' = "children"
      /\ children' = [children EXCEPT ![p] = children[p] \cap ChildrenOf(p)]
      /\ UNCHANGED <<world, options, previous_values, agenda, record_number, json, written>>
  BY DEF RemoveOrphans, StillChildren
<1>2. UNCHANGED <<status, ppid, value, omit_first, denied, zombies_raise>>
  BY <1>1 DEF world, options
<1>3. TypeOK /\ Agenda /\ agenda \in Seq(Pids) /\ agenda # <<>> /\ p \in Pids
  <2>1. pc \in Sampling
    BY <1>1 DEF Sampling
  <2>2. QED
    BY <2>1, HeadIsNotFresh DEF IInv, TypeOK
<1> HIDE DEF p
<1>4. /\ children \in [Pids -> SUBSET Pids] /\ children' \in [Pids -> SUBSET Pids]
      /\ children'[p] = children[p] \cap ChildrenOf(p)
      /\ \A q \in Pids \ {p} : children'[q] = children[q]
  BY <1>1, <1>3 DEF TypeOK
<1>5. \A q \in Pids : children'[q] \subseteq children[q]
  BY <1>4
<1>6. Apart(children)'
  BY <1>4, <1>5 DEF IInv, Apart
<1>7. TypeOK'
  <2>1. \A q, r \in Pids : children'[q] \cap children'[r] # {} => q = r
    BY <1>6 DEF Apart
  <2>2. QED
    BY <1>1, <1>2, <1>3, <1>4, <2>1 DEF TypeOK
<1>8. Agenda'
  <2>1. PICK done \in SUBSET Pids : Ahead(agenda, children, done)
    BY <1>3 DEF Agenda
  <2>2. \A q \in done : q # Head(agenda) => children'[q] = children[q]
    BY <1>4 DEF p
  <2>3. Ahead(agenda, children', done)
    BY <1>3, <2>1, <2>2, AheadKept
  <2>4. QED
    BY <1>1, <1>3, <2>3 DEF Agenda, Sampling
<1>9. Parents'
  BY <1>2, <1>5 DEF IInv, Parents
<1>10. Remembered'
  <2>1. \A c \in Pids : Fresh(c)' => Fresh(c)
    BY <1>2, <1>4 DEF Fresh, ChildrenOf
  <2>2. QED
    BY <1>1, <2>1 DEF IInv, Remembered, DifferencesAddUp
<1>11. JsonSoFar'
  <2>1. BeforeRoot /\ JsonIsAList' /\ (Raises(Root) <=> Raises(Root)')
    BY <1>1, <1>2 DEF BeforeRoot, JsonIsAList, Raises
  <2>2. JsonSoFar
    BY DEF IInv
  <2>3. QED
    BY <1>1, <1>2, <2>1, <2>2 DEF JsonSoFar
<1>12. QED
  BY <1>6, <1>7, <1>8, <1>9, <1>10, <1>11 DEF IInv

\* A node that is added is a process that never had one, so its previous value
\* is zero already.
LEMMA AddChildrenKeepsInvariant ==
  ASSUME IInv, AddChildren
  PROVE  IInv'
<1> DEFINE p == Head(agenda)
           left == ByPid(children'[p]) \o Tail(agenda)
<1>1. /\ pc = "children"
      /\ children' = [children EXCEPT ![p] = @ \cup ChildrenOf(p)]
      /\ previous_values' = [c \in Pids |-> IF c \in ChildrenOf(p) \ children[p] THEN 0
                                            ELSE previous_values[c]]
      /\ agenda' = IF left = <<>> THEN <<Root>> ELSE left
      /\ pc' = IF left = <<>> THEN AfterUpdate ELSE "orphans"
      /\ UNCHANGED <<world, options, record_number, json, written>>
  BY DEF AddChildren, Listed
<1>2. UNCHANGED <<status, ppid, value, omit_first, denied, zombies_raise>>
  BY <1>1 DEF world, options
<1>3. TypeOK /\ Agenda /\ agenda \in Seq(Pids) /\ agenda # <<>> /\ p \in Pids /\ pc \in Sampling
  <2>1. pc \in Sampling
    BY <1>1 DEF Sampling
  <2>2. QED
    BY <2>1, HeadIsNotFresh DEF IInv, TypeOK
<1> HIDE DEF p, left
<1>4. /\ children \in [Pids -> SUBSET Pids] /\ children' \in [Pids -> SUBSET Pids]
      /\ children'[p] = children[p] \cup ChildrenOf(p)
      /\ \A q \in Pids \ {p} : children'[q] = children[q]
  BY <1>1, <1>3 DEF TypeOK, ChildrenOf
<1>5. \A c \in ChildrenOf(p) : c \in Pids /\ ppid[c] = p /\ c # Root /\ status[c] # "new"
  BY <1>3, PidsFacts DEF IInv, Parents, ChildrenOf
<1>6. Apart(children)'
  <2>1. \A q \in Pids : Root \notin children'[q]
    BY <1>4, <1>5 DEF IInv, Apart
  <2>2. ASSUME NEW q \in Pids, q # p, NEW c, c \in children'[p], c \in children'[q]
        PROVE  FALSE
    <3>1. c \in children[q]
      BY <1>4, <2>2
    <3>2. c \notin children[p]
      BY <1>3, <2>2, <3>1 DEF IInv, Apart
    <3>3. c \in ChildrenOf(p)
      BY <1>4, <2>2, <3>2
    <3>4. p = q \/ p = Outside
      BY <1>5, <3>1, <3>3 DEF IInv, Parents
    <3>5. QED
      BY <1>3, <2>2, <3>4, PidsFacts
  <2>3. ASSUME NEW q \in Pids, NEW r \in Pids, children'[q] \cap children'[r] # {}
        PROVE  q = r
    <3>1. PICK c : c \in children'[q] /\ c \in children'[r]
      BY <2>3
    <3>2. q = p \/ r = p => q = r
      BY <2>2, <3>1
    <3>3. q # p /\ r # p => q = r
      BY <1>4, <3>1 DEF IInv, Apart
    <3>4. QED
      BY <3>2, <3>3
  <2>4. QED
    BY <2>1, <2>3 DEF Apart
<1>7. previous_values' = previous_values
  <2>1. previous_values \in [Pids -> Values \cup {0}]
    BY <1>3 DEF TypeOK
  <2>2. \A c \in Pids : c \in ChildrenOf(p) \ children[p] => previous_values[c] = 0
    BY <1>3 DEF IInv, Remembered, Fresh
  <2>3. \A c \in Pids : previous_values'[c] = previous_values[c]
    BY <1>1, <2>2
  <2>4. previous_values' = [c \in Pids |-> previous_values'[c]]
        /\ previous_values = [c \in Pids |-> previous_values[c]]
    BY <1>1, <2>1
  <2>5. QED
    BY <2>3, <2>4
<1>8. /\ left \in Seq(Pids) /\ IsInjective(left)
      /\ \E done \in SUBSET Pids : Ahead(left, children', done)
      /\ \A i \in 1 .. Len(left) : left[i] # Root
  <2> DEFINE below == children'
             S == below[p]
             nodes == ByPid(S)
  <2>1. S \in SUBSET Pids
    BY <1>3, <1>4
  <2> HIDE DEF S
  <2>2. nodes \in Seq(S) /\ IsInjective(nodes)
    BY <2>1, ByPidFacts
  <2>3. left = nodes \o Tail(agenda)
    BY DEF left, S
  <2> HIDE DEF nodes
  <2>4. nodes \in Seq(Pids) /\ \A i \in 1 .. Len(nodes) : nodes[i] \in below[p]
    BY <2>1, <2>2 DEF S
  <2>5. Apart(below) /\ \A q \in Pids : q # p => below[q] = children[q]
    BY <1>4, <1>6
  <2> HIDE DEF below
  <2>6. /\ left \in Seq(Pids) /\ IsInjective(left)
        /\ \E done \in SUBSET Pids : Ahead(left, below, done)
        /\ \A i \in 1 .. Len(left) : left[i] # Root
    BY <1>3, <2>2, <2>3, <2>4, <2>5, HeadDone DEF p
  <2>7. QED
    BY <2>6 DEF below
<1>9. AfterUpdate \in {"load", "prefix"} /\ (~ omit_first => AfterUpdate = "prefix")
  BY DEF AfterUpdate
<1>10. /\ pc' \in {"orphans", "load", "prefix"} /\ agenda' \in Seq(Pids)
       /\ IsInjective(agenda') /\ agenda' # <<>>
       /\ \E done \in SUBSET Pids : Ahead(agenda', children', done)
       /\ \A i \in 1 .. Len(agenda') : agenda'[i] = Root => Len(agenda') = 1
       /\ pc' # "orphans" => Head(agenda') = Root
  <2>1. CASE left = <<>>
    <3>1. agenda' = <<Root>> /\ pc' \in {"load", "prefix"}
      BY <1>1, <1>9, <2>1
    <3>2. Ahead(agenda', children', {})
      BY <3>1, RootAlone
    <3>3. QED
      BY <3>1, <3>2, RootAlone
  <2>2. CASE left # <<>>
    <3>1. agenda' = left /\ pc' = "orphans"
      BY <1>1, <2>2
    <3>2. QED
      BY <1>8, <2>2, <3>1
  <2>3. QED
    BY <2>1, <2>2
<1>11. TypeOK'
  <2>1. \A q, r \in Pids : children'[q] \cap children'[r] # {} => q = r
    BY <1>6 DEF Apart
  <2>2. QED
    BY <1>1, <1>2, <1>3, <1>4, <1>7, <1>10, <2>1 DEF TypeOK
<1>12. Agenda'
  BY <1>1, <1>3, <1>10 DEF Agenda
<1>13. Parents'
  <2>1. ASSUME NEW q \in Pids, NEW c \in children'[q]
        PROVE  status[c] # "new" /\ ppid[c] \in {q, Outside}
    BY <1>4, <1>5 DEF IInv, Parents
  <2>2. QED
    BY <1>2, <2>1 DEF IInv, Parents
<1>14. Remembered'
  <2>1. \A c \in Pids : Fresh(c)' => Fresh(c)
    BY <1>2, <1>4 DEF Fresh, ChildrenOf
  <2>2. QED
    BY <1>1, <1>7, <2>1 DEF IInv, Remembered, DifferencesAddUp
<1>15. JsonSoFar'
  <2>1. BeforeRoot /\ (Raises(Root) <=> Raises(Root)')
    BY <1>1, <1>2 DEF BeforeRoot, Raises
  <2>2. JsonIsAList'
    BY <1>10 DEF JsonIsAList
  <2>3. ~ omit_first => pc' # "load"
    BY <1>1, <1>9
  <2>4. JsonSoFar
    BY DEF IInv
  <2>5. QED
    BY <1>1, <1>2, <1>10, <2>1, <2>2, <2>3, <2>4 DEF JsonSoFar
<1>16. QED
  BY <1>6, <1>11, <1>12, <1>13, <1>14, <1>15 DEF IInv

\* What was loaded is remembered.  This happens only if the first sample is omitted.
LEMMA LoadPreviousKeepsInvariant ==
  ASSUME IInv, LoadPrevious
  PROVE  IInv'
<1> DEFINE p == Head(agenda)
           v == previous_values'[p]
           nodes == ByPid(children[p])
<1>1. pc = "load" /\ UNCHANGED <<world, options, children>>
  BY DEF LoadPrevious
<1>2. /\ TypeOK /\ Agenda /\ Apart(children) /\ pc \in Sampling /\ "load" \in Sampling \ {"json", "record"}
      /\ agenda # <<>> /\ p \in Pids /\ ~ Fresh(p)
  <2>1. pc \in Sampling /\ "load" \in Sampling \ {"json", "record"}
    BY <1>1 DEF Sampling
  <2>2. QED
    BY <2>1, HeadIsNotFresh DEF IInv
<1>3. UNCHANGED <<status, ppid, value, omit_first, denied, zombies_raise>>
  BY <1>1 DEF world, options
<1>4. CASE Raises(p)
  <2>1. Crash /\ previous_values' = previous_values
    BY <1>4 DEF LoadPrevious
  <2>2. UNCHANGED tree
    BY <1>1, <2>1 DEF tree
  <2>3. QED
    BY <1>1, <2>1, <2>2, StopKeepsInvariant DEF Crash
<1>5. CASE ~ Raises(p)
  <2>1. /\ previous_values' = [previous_values EXCEPT ![p] = IF Readable(p) THEN value[p] ELSE @]
        /\ written' = [written EXCEPT ![p] = [sum |-> v, last |-> v]]
        /\ Visit(nodes, "load") /\ json' = json
    BY <1>5 DEF LoadPrevious
  <2>2. /\ previous_values \in [Pids -> Values \cup {0}] /\ value[p] \in Values \cup {0}
        /\ written \in [Pids -> [sum : Int, last : Values \cup {0}]]
    BY <1>2 DEF TypeOK
  <2>3. v \in Values \cup {0} /\ previous_values' = [previous_values EXCEPT ![p] = v]
    BY <1>2, <2>1, <2>2
  <2> HIDE DEF v
  <2>4. /\ written'[p].sum = v /\ written'[p].last = v
        /\ \A c \in Pids \ {p} : written'[c] = written[c]
    BY <1>2, <2>1, <2>2
  <2>5. written' \in [Pids -> [sum : Int, last : Values \cup {0}]]
    <3>1. v \in Int
      BY <2>3, ValuesAreInts
    <3>2. QED
      BY <1>2, <2>1, <2>2, <2>3, <3>1
  <2> HIDE DEF p, nodes
  <2>6. /\ previous_values' \in [Pids -> Values \cup {0}]
        /\ Apart(children)' /\ Parents' /\ Remembered'
    BY <1>1, <1>2, <2>3, <2>4, <2>5, ValueIsRemembered
  <2>7. /\ nodes \in Seq(Pids) /\ IsInjective(nodes)
        /\ \A i \in 1 .. Len(nodes) : nodes[i] \in children[Head(agenda)]
    BY <1>2, NodesToVisit DEF nodes, p
  <2>8. /\ Agenda' /\ agenda' \in Seq(Pids) /\ IsInjective(agenda')
        /\ record_number' \in 0 .. MaxRecords /\ pc' \in {"test", "load"}
    BY <1>1, <1>2, <2>1, <2>7, VisitFacts
  <2>9. TypeOK'
    BY <1>1, <1>2, <1>3, <2>1, <2>5, <2>6, <2>8 DEF TypeOK
  <2>10. omit_first' = TRUE
    BY <1>1, <1>2, <1>3 DEF IInv, JsonSoFar, TypeOK
  <2>11. JsonSoFar'
    BY <2>10 DEF JsonSoFar
  <2>12. QED
    BY <2>6, <2>8, <2>9, <2>11 DEF IInv
<1>6. QED
  BY <1>4, <1>5

\* A visit that writes no value, with the JSON file that it leaves.
LEMMA VisitKeepsInvariant ==
  ASSUME IInv, pc \in {"prefix", "column", "newline", "record"},
         NEW nodes \in Seq(Pids), IsInjective(nodes),
         \A i \in 1 .. Len(nodes) : nodes[i] \in children[Head(agenda)],
         Visit(nodes, "prefix"), UNCHANGED <<world, options, tree, written>>,
         json' \in Seq({"list", "record", "comma", "end"}),
         ~ omit_first => /\ Alternates(json') /\ Whole(json')
                         /\ Len(json') = 1 => Raises(Root) /\ Head(agenda) = Root /\ nodes = <<>>
  PROVE  IInv'
<1>1. UNCHANGED <<status, ppid, value, omit_first, denied, zombies_raise, children,
                  previous_values, written>>
  BY DEF world, options, tree
<1>2. TypeOK /\ Agenda /\ Apart(children) /\ pc \in Sampling /\ "prefix" \in Sampling \ {"json", "record"}
  BY DEF IInv, Sampling
<1>3. /\ agenda' \in Seq(Pids) /\ IsInjective(agenda')
      /\ record_number' \in 0 .. MaxRecords /\ pc' \in {"test", "prefix"}
  BY <1>1, <1>2, VisitFacts
<1>4. TypeOK'
  BY <1>1, <1>2, <1>3 DEF TypeOK
<1>5. Apart(children)' /\ Parents' /\ Remembered'
  BY SameProcesses
<1>6. JsonSoFar' /\ Agenda'
  BY <1>1, JsonAfterVisit
<1>7. QED
  BY <1>4, <1>5, <1>6 DEF IInv

\* If the line of a node is not finished, the nodes under it are left out.
LEMMA LeavingOutKeepsInvariant ==
  ASSUME IInv, pc \in {"prefix", "column", "newline"}, Raises(Head(agenda)),
         Visit(<<>>, "prefix"), UNCHANGED <<world, options, tree, json, written>>
  PROVE  IInv'
<1>1. TypeOK /\ agenda # <<>>
  BY DEF IInv, Agenda, Sampling
<1> DEFINE nodes == <<>>
<1>2. /\ nodes \in Seq(Pids) /\ IsInjective(nodes)
      /\ \A i \in 1 .. Len(nodes) : nodes[i] \in children[Head(agenda)]
  <2>1. nodes \in Seq(Pids) /\ IsInjective(nodes) /\ Len(nodes) = 0
    BY <1>1, NodesToVisit
  <2> HIDE DEF nodes
  <2>2. \A i \in 1 .. Len(nodes) : nodes[i] \in children[Head(agenda)]
    <3>1. 1 .. 0 = {}
      OBVIOUS
    <3>2. QED
      BY <2>1, <3>1
  <2>3. QED
    BY <2>1, <2>2
<1>3. nodes = <<>> /\ Visit(nodes, "prefix")
  OBVIOUS
<1> HIDE DEF nodes
<1>4. json' = json /\ json' \in Seq({"list", "record", "comma", "end"})
  BY <1>1 DEF TypeOK
<1>5. ~ omit_first => Alternates(json) /\ Whole(json)
  BY DEF IInv, JsonSoFar
<1>6. ~ omit_first /\ Len(json) = 1 => Head(agenda) = Root
  BY DEF IInv, JsonSoFar
<1>7. QED
  BY <1>2, <1>3, <1>4, <1>5, <1>6, VisitKeepsInvariant

\* A line goes on, or the root's record comes next.
LEMMA LineGoesOn ==
  ASSUME IInv, pc \in {"prefix", "column", "newline"},
         pc' \in {"column", "newline"} \/ (pc' = "json" /\ Head(agenda) = Root),
         UNCHANGED <<world, options, children, agenda, record_number, json>>,
         previous_values' \in [Pids -> Values \cup {0}],
         written' \in [Pids -> [sum : Int, last : Values \cup {0}]],
         Parents', Remembered'
  PROVE  IInv'
<1>1. UNCHANGED <<status, ppid, value, omit_first, denied, zombies_raise>>
  BY DEF world, options
<1>2. TypeOK'
  BY <1>1 DEF IInv, TypeOK
<1>3. Agenda' /\ Apart(children)'
  BY DEF IInv, Agenda, Apart, Sampling
<1>4. JsonSoFar'
  <2>1. BeforeRoot' <=> BeforeRoot
    BY DEF BeforeRoot
  <2>2. JsonIsAList' /\ (Raises(Root) <=> Raises(Root)')
    BY <1>1 DEF JsonIsAList, Raises
  <2>3. JsonSoFar
    BY DEF IInv
  <2>4. QED
    BY <1>1, <2>1, <2>2, <2>3 DEF JsonSoFar
<1>5. QED
  BY <1>2, <1>3, <1>4 DEF IInv

LEMMA WritePrefixKeepsInvariant ==
  ASSUME IInv, WritePrefix
  PROVE  IInv'
<1>1. pc = "prefix" /\ UNCHANGED <<world, options, tree, json, written>>
  BY DEF WritePrefix
<1>2. CASE status[Head(agenda)] = "gone"
  <2>1. Visit(<<>>, "prefix") /\ Raises(Head(agenda))
    BY <1>2 DEF WritePrefix, Raises
  <2>2. QED
    BY <1>1, <2>1, LeavingOutKeepsInvariant
<1>3. CASE status[Head(agenda)] # "gone"
  <2>1. pc' = "column" /\ UNCHANGED <<agenda, record_number>>
    BY <1>3 DEF WritePrefix
  <2>2. Parents' /\ Remembered'
    BY <1>1, SameProcesses
  <2>3. /\ previous_values' \in [Pids -> Values \cup {0}]
        /\ written' \in [Pids -> [sum : Int, last : Values \cup {0}]]
    BY <1>1 DEF tree, IInv, TypeOK
  <2>4. children' = children
    BY <1>1 DEF tree
  <2>5. QED
    BY <1>1, <2>1, <2>2, <2>3, <2>4, LineGoesOn
<1>4. QED
  BY <1>2, <1>3

\* The difference takes the sum from the previous value to this one.
LEMMA WriteColumnKeepsInvariant ==
  ASSUME IInv, WriteColumn
  PROVE  IInv'
<1> DEFINE p == Head(agenda)
           v == value[p]
<1>1. pc = "column" /\ UNCHANGED <<world, options, children, json>>
  BY DEF WriteColumn
<1>2. p \in Pids /\ ~ Fresh(p)
  BY <1>1, HeadIsNotFresh DEF Sampling
<1>3. /\ previous_values \in [Pids -> Values \cup {0}] /\ v \in Values \cup {0}
      /\ written \in [Pids -> [sum : Int, last : Values \cup {0}]]
  BY <1>2 DEF IInv, TypeOK
<1>4. CASE Readable(p)
  <2>1. /\ written' = [written EXCEPT ![p].sum = @ + (v - previous_values[p]), ![p].last = v]
        /\ previous_values' = [previous_values EXCEPT ![p] = v]
        /\ pc' = "newline" /\ UNCHANGED <<agenda, record_number>>
    BY <1>4 DEF WriteColumn, Readable, Denied, Raises
  <2> HIDE DEF p, v
  <2>2. /\ written'[p].sum = written[p].sum + (v - previous_values[p])
        /\ written'[p].last = v
        /\ \A c \in Pids \ {p} : written'[c] = written[c]
    BY <1>2, <1>3, <2>1
  <2>3. v \in Int /\ previous_values[p] \in Int
    <3>1. previous_values[p] \in Values \cup {0}
      BY <1>2, <1>3
    <3>2. QED
      BY <1>3, <3>1, ValuesAreInts
  <2>4. written[p].sum = previous_values[p]
    BY <1>2 DEF IInv, Remembered, DifferencesAddUp
  <2>5. written'[p].sum = v
    BY <2>2, <2>3, <2>4
  <2>6. written' \in [Pids -> [sum : Int, last : Values \cup {0}]]
    <3>1. DOMAIN written' = Pids /\ written' = [c \in Pids |-> written'[c]]
      BY <1>3, <2>1
    <3>2. \A c \in Pids \ {p} : written'[c] \in [sum : Int, last : Values \cup {0}]
      BY <1>3, <2>2
    <3>3. written'[p] = [sum |-> written'[p].sum, last |-> written'[p].last]
      BY <1>2, <1>3, <2>1
    <3>4. written'[p] \in [sum : Int, last : Values \cup {0}]
      BY <1>3, <2>2, <2>3, <2>5, <3>3
    <3>5. QED
      BY <3>1, <3>2, <3>4
  <2>7. /\ previous_values' \in [Pids -> Values \cup {0}]
        /\ Apart(children)' /\ Parents' /\ Remembered'
    BY <1>1, <1>2, <1>3, <2>1, <2>2, <2>5, <2>6, ValueIsRemembered
  <2>8. QED
    BY <1>1, <2>1, <2>6, <2>7, LineGoesOn
<1>5. CASE Denied(p)
  <2>1. pc' = "newline" /\ UNCHANGED <<agenda, record_number, written, previous_values>>
    BY <1>5 DEF WriteColumn, Readable, Denied, Raises
  <2>2. UNCHANGED tree
    BY <1>1, <2>1 DEF tree
  <2>3. Parents' /\ Remembered'
    BY <1>1, <2>1, <2>2, SameProcesses
  <2>4. QED
    BY <1>1, <1>3, <2>1, <2>3, LineGoesOn
<1>6. CASE Raises(p)
  <2>1. Visit(<<>>, "prefix") /\ UNCHANGED <<written, previous_values>>
    BY <1>6 DEF WriteColumn, Readable, Denied
  <2>2. UNCHANGED tree
    BY <1>1, <2>1 DEF tree
  <2>3. QED
    BY <1>1, <1>6, <2>1, <2>2, LeavingOutKeepsInvariant
<1>7. QED
  BY <1>4, <1>5, <1>6 DEF Readable, Denied

LEMMA EndLineKeepsInvariant ==
  ASSUME IInv, EndLine
  PROVE  IInv'
<1> DEFINE p == Head(agenda)
           nodes == ByPid(children[p])
<1>1. pc = "newline" /\ UNCHANGED <<world, options, tree, json, written>>
  BY DEF EndLine
<1>2. TypeOK /\ agenda # <<>> /\ UNCHANGED children
  BY <1>1 DEF IInv, Agenda, Sampling, tree
<1>3. CASE Raises(p)
  <2>1. Visit(<<>>, "prefix")
    BY <1>3 DEF EndLine
  <2>2. QED
    BY <1>1, <1>3, <2>1, LeavingOutKeepsInvariant
<1>4. CASE ~ Raises(p) /\ p = Root
  <2>1. pc' = "json" /\ UNCHANGED <<agenda, record_number>>
    BY <1>4 DEF EndLine
  <2>2. Parents' /\ Remembered'
    BY <1>1, SameProcesses
  <2>3. /\ previous_values' \in [Pids -> Values \cup {0}]
        /\ written' \in [Pids -> [sum : Int, last : Values \cup {0}]]
    BY <1>1, <1>2 DEF tree, TypeOK
  <2>4. QED
    BY <1>1, <1>2, <1>4, <2>1, <2>2, <2>3, LineGoesOn
<1>5. CASE ~ Raises(p) /\ p # Root
  <2>1. Visit(nodes, "prefix")
    BY <1>5 DEF EndLine
  <2>2. /\ nodes \in Seq(Pids) /\ IsInjective(nodes)
        /\ \A i \in 1 .. Len(nodes) : nodes[i] \in children[Head(agenda)]
    BY <1>2, NodesToVisit
  <2> HIDE DEF nodes
  <2>3. ~ omit_first => Alternates(json) /\ Whole(json) /\ Len(json) # 1
    BY <1>1, <1>5 DEF IInv, JsonSoFar
  <2>4. json' = json /\ json' \in Seq({"list", "record", "comma", "end"})
    BY <1>1, <1>2 DEF TypeOK
  <2>5. QED
    BY <1>1, <2>1, <2>2, <2>3, <2>4, VisitKeepsInvariant
<1>6. QED
  BY <1>3, <1>4, <1>5

\* A comma after a record, or a record after a comma or the bracket.
LEMMA OneMoreText ==
  ASSUME NEW text \in Seq({"list", "record", "comma", "end"}), Alternates(text),
         NEW word \in {"record", "comma"}, word = TextAt(Len(text) + 1),
         NEW longer, longer = Append(text, word)
  PROVE  /\ longer \in Seq({"list", "record", "comma", "end"})
         /\ Len(longer) = Len(text) + 1 /\ Alternates(longer)
<1> DEFINE Texts == {"list", "record", "comma", "end"}
           n == Len(text)
<1>1. n \in Nat /\ n >= 1 /\ text[1] = "list" /\ \A i \in 2 .. n : text[i] = TextAt(i)
  BY LenProperties DEF Alternates
<1>2. text \in Seq(Texts) /\ word \in Texts /\ word = TextAt(n + 1)
  OBVIOUS
<1> HIDE DEF Texts
<1>3. /\ longer \in Seq(Texts) /\ Len(longer) = n + 1 /\ longer[n + 1] = word
      /\ \A i \in 1 .. n : longer[i] = text[i]
  BY <1>2, AppendProperties
<1> HIDE DEF n
<1>4. Len(longer) >= 1 /\ longer[1] = "list"
  BY <1>1, <1>3
<1>5. \A i \in 2 .. n + 1 : longer[i] = TextAt(i)
  <2> TAKE i \in 2 .. n + 1
  <2>1. CASE i = n + 1
    BY <1>2, <1>3, <2>1
  <2>2. CASE i # n + 1
    <3>1. i \in 2 .. n /\ i \in 1 .. n
      BY <1>1, <2>2
    <3>2. QED
      BY <1>1, <1>3, <3>1
  <2>3. QED
    BY <2>1, <2>2
<1>6. QED
  BY <1>3, <1>4, <1>5 DEF Alternates, Texts, n

\* If no record has been written before, the root could not be read in earlier
\* samples, and can not be read now; so there is a record before the comma.
LEMMA WriteCommaKeepsInvariant ==
  ASSUME IInv, WriteComma
  PROVE  IInv'
<1>1. pc = "json" /\ UNCHANGED <<world, options, tree>>
  BY DEF WriteComma
<1>2. TypeOK /\ agenda # <<>> /\ Head(agenda) = Root
  BY <1>1 DEF IInv, Agenda, Sampling
<1>3. CASE ~ Readable(Root)
  <2>1. Crash
    BY <1>3 DEF WriteComma
  <2>2. QED
    BY <1>1, <2>1, StopKeepsInvariant DEF Crash
<1>4. CASE Readable(Root)
  <2>1. /\ json' = LazyComma /\ pc' = "record"
        /\ UNCHANGED <<agenda, record_number, written>>
    BY <1>4 DEF WriteComma
  <2>2. UNCHANGED <<status, ppid, value, omit_first, denied, zombies_raise, children,
                    previous_values, agenda, record_number, written>>
    BY <1>1, <2>1 DEF world, options, tree
  <2>3. json \in Seq({"list", "record", "comma", "end"}) /\ record_number \in Nat
    BY <1>2 DEF TypeOK
  <2>4. json' \in Seq({"list", "record", "comma", "end"})
    <3> DEFINE Texts == {"list", "record", "comma", "end"}
    <3>1. json \in Seq(Texts) /\ "comma" \in Texts
      BY <2>3
    <3> HIDE DEF Texts
    <3>2. Append(json, "comma") \in Seq(Texts)
      BY <3>1, AppendProperties
    <3>3. QED
      BY <2>1, <3>1, <3>2 DEF LazyComma, Texts
  <2>5. TypeOK'
    BY <1>2, <2>1, <2>2, <2>4 DEF TypeOK
  <2>6. Apart(children)' /\ Parents' /\ Remembered'
    BY <1>1, <2>1, SameProcesses
  <2>7. Agenda'
    BY <1>1, <1>2, <2>1, <2>2 DEF IInv, Agenda, Sampling
  <2>8. ASSUME ~ omit_first
        PROVE  /\ Alternates(json')
               /\ record_number > 0 => Len(json') % 2 = 1 /\ Len(json') # 1
               /\ record_number = 0 => Len(json') = 1
    <3>1. /\ Alternates(json) /\ Whole(json)
          /\ record_number = 0 => Len(json) = 1
          /\ record_number > 0 => Len(json) # 1
      <4>1. BeforeRoot
        BY <1>1, <1>2 DEF BeforeRoot
      <4>2. ~ Raises(Root)
        BY <1>4 DEF Readable
      <4>3. QED
        BY <1>1, <2>8, <4>1, <4>2 DEF IInv, JsonSoFar
    <3>2. CASE record_number = 0
      BY <2>1, <3>1, <3>2 DEF LazyComma
    <3>3. CASE record_number > 0
      <4> DEFINE n == Len(json)
      <4>1. n \in Nat /\ n >= 1 /\ n % 2 = 0
        BY <2>3, <3>1, <3>3, LenProperties DEF Whole, Alternates
      <4> HIDE DEF n
      <4>2. (n + 1) % 2 = 1 /\ n + 1 # 1
        BY <4>1
      <4>3. TextAt(n + 1) = "comma"
        BY <4>2 DEF TextAt
      <4>4. json' = Append(json, "comma")
        BY <2>1, <3>3 DEF LazyComma
      <4>5. \A longer : longer = Append(json, "comma") =>
              Len(longer) = n + 1 /\ Alternates(longer)
        BY <2>3, <3>1, <4>3, OneMoreText DEF n
      <4>6. Alternates(json') /\ Len(json') = n + 1
        BY <4>4, <4>5
      <4>7. record_number # 0
        BY <3>3
      <4>8. QED
        BY <4>2, <4>6, <4>7
    <3>4. QED
      BY <2>3, <3>2, <3>3
  <2>9. JsonSoFar'
    <3>1. JsonIsAList'
      BY <2>1 DEF JsonIsAList
    <3>2. ASSUME ~ omit_first'
          PROVE  /\ Alternates(json')
                 /\ record_number' > 0 => Len(json') % 2 = 1 /\ Len(json') # 1
                 /\ record_number' = 0 => Len(json') = 1
      <4>1. omit_first' = omit_first /\ record_number' = record_number
        BY <2>2
      <4>2. QED
        BY <2>8, <3>2, <4>1
    <3>3. QED
      BY <2>1, <2>2, <2>3, <3>1, <3>2 DEF JsonSoFar, BeforeRoot
  <2>10. QED
    BY <2>5, <2>6, <2>7, <2>9 DEF IInv
<1>5. QED
  BY <1>3, <1>4

LEMMA WriteRecordKeepsInvariant ==
  ASSUME IInv, WriteRecord
  PROVE  IInv'
<1> DEFINE nodes == ByPid(children[Root])
<1>1. /\ pc = "record" /\ json' = Append(json, "record") /\ Visit(nodes, "prefix")
      /\ UNCHANGED <<world, options, tree, written>>
  BY DEF WriteRecord
<1>2. TypeOK /\ agenda # <<>> /\ Head(agenda) = Root
  BY <1>1 DEF IInv, Agenda, Sampling
<1>3. /\ nodes \in Seq(Pids) /\ IsInjective(nodes)
      /\ \A i \in 1 .. Len(nodes) : nodes[i] \in children[Head(agenda)]
  BY <1>2, NodesToVisit
<1> HIDE DEF nodes
<1>4. json \in Seq({"list", "record", "comma", "end"}) /\ record_number \in Nat
  BY <1>2 DEF TypeOK
<1>5. json' \in Seq({"list", "record", "comma", "end"})
  <2> DEFINE Texts == {"list", "record", "comma", "end"}
  <2>1. json \in Seq(Texts) /\ "record" \in Texts
    BY <1>4
  <2> HIDE DEF Texts
  <2>2. Append(json, "record") \in Seq(Texts)
    BY <2>1, AppendProperties
  <2>3. QED
    BY <1>1, <2>2 DEF Texts
<1>6. ASSUME ~ omit_first
      PROVE  Alternates(json') /\ Whole(json') /\ Len(json') # 1
  <2> DEFINE n == Len(json)
  <2>1. Alternates(json) /\ (n = 1 \/ n % 2 = 1) /\ n \in Nat /\ n >= 1
    <3>1. record_number = 0 => n = 1
      <4>1. BeforeRoot
        BY <1>1, <1>2 DEF BeforeRoot
      <4>2. QED
        BY <1>6, <4>1 DEF IInv, JsonSoFar
    <3>2. record_number > 0 => n % 2 = 1
      BY <1>1, <1>6 DEF IInv, JsonSoFar
    <3>3. Alternates(json)
      BY <1>1, <1>6 DEF IInv, JsonSoFar
    <3>4. QED
      BY <1>4, <3>1, <3>2, <3>3, LenProperties DEF Alternates
  <2> HIDE DEF n
  <2>2. (n + 1) % 2 = 0 /\ n + 1 # 1
    BY <2>1
  <2>3. TextAt(n + 1) = "record"
    BY <2>2 DEF TextAt
  <2>4. \A longer : longer = Append(json, "record") =>
          Len(longer) = n + 1 /\ Alternates(longer)
    BY <1>4, <2>1, <2>3, OneMoreText DEF n
  <2>5. QED
    BY <1>1, <2>2, <2>4 DEF Whole
<1>7. QED
  BY <1>1, <1>2, <1>3, <1>5, <1>6, VisitKeepsInvariant

-----------------------------------------------------------------------------
(* The theorems.                                                           *)

LEMMA InitEstablishesInvariant == Init => IInv
<1> SUFFICES ASSUME Init PROVE IInv
  OBVIOUS
<1>1. /\ status = [p \in Pids |-> IF p = Root THEN "running" ELSE "new"]
      /\ ppid = [p \in Pids |-> Outside] /\ value = [p \in Pids |-> 0]
      /\ omit_first \in BOOLEAN /\ denied \in {{}, {Root}, {LastPid}}
      /\ zombies_raise \in BOOLEAN /\ pc = "test" /\ agenda = <<>>
      /\ children = [p \in Pids |-> {}] /\ previous_values = [p \in Pids |-> 0]
      /\ record_number = 0 /\ json = <<"list">>
      /\ written = [p \in Pids |-> [sum |-> 0, last |-> 0]]
  BY DEF Init
<1>2. /\ agenda \in Seq(Pids) /\ IsInjective(agenda) /\ Len(agenda) = 0
  BY <1>1 DEF IsInjective
<1>3. /\ json \in Seq({"list", "record", "comma", "end"}) /\ Len(json) = 1 /\ json[1] = "list"
  BY <1>1
<1>4. /\ denied \subseteq Pids /\ record_number \in 0 .. MaxRecords
  <2>1. Root \in Pids /\ LastPid \in Pids /\ MaxRecords \in Nat
    BY ProcessTreeAssumption DEF Pids
  <2>2. QED
    BY <1>1, <2>1
<1>5. written \in [Pids -> [sum : Int, last : Values \cup {0}]]
  BY <1>1
<1>6. TypeOK
  BY <1>1, <1>2, <1>3, <1>4, <1>5 DEF TypeOK
<1>7. Apart(children)
  BY <1>1 DEF Apart
<1>8. Agenda
  <2>1. Ahead(agenda, children, {})
    BY <1>2 DEF Ahead
  <2>2. \E done \in SUBSET Pids : Ahead(agenda, children, done)
    BY <2>1
  <2>3. \A i \in 1 .. Len(agenda) : agenda[i] # Root
    BY <1>2
  <2>4. pc \notin Sampling /\ pc \notin {"json", "record"}
    BY <1>1 DEF Sampling
  <2>5. QED
    BY <2>2, <2>3, <2>4 DEF Agenda
<1>9. Parents
  BY <1>1, PidsFacts DEF Parents
<1>10. Remembered
  BY <1>1 DEF Remembered, DifferencesAddUp
<1>11. JsonSoFar
  <2>1. Alternates(json) /\ Whole(json)
    BY <1>3 DEF Alternates, Whole
  <2>2. JsonIsAList
    BY <1>1 DEF JsonIsAList
  <2>3. QED
    BY <1>1, <1>3, <2>1, <2>2 DEF JsonSoFar
<1>12. QED
  BY <1>6, <1>7, <1>8, <1>9, <1>10, <1>11 DEF IInv

LEMMA NextKeepsInvariant == IInv /\ [Next]_vars => IInv'
<1> SUFFICES ASSUME IInv, [Next]_vars PROVE IInv'
  OBVIOUS
<1>1. CASE TestRunning
  BY <1>1, TestRunningKeepsInvariant
<1>2. CASE Close
  BY <1>2, CloseKeepsInvariant
<1>3. CASE RemoveOrphans
  BY <1>3, RemoveOrphansKeepsInvariant
<1>4. CASE AddChildren
  BY <1>4, AddChildrenKeepsInvariant
<1>5. CASE AddChildrenRaises
  BY <1>5, StopKeepsInvariant DEF AddChildrenRaises, Crash
<1>6. CASE LoadPrevious
  BY <1>6, LoadPreviousKeepsInvariant
<1>7. CASE WritePrefix
  BY <1>7, WritePrefixKeepsInvariant
<1>8. CASE WriteColumn
  BY <1>8, WriteColumnKeepsInvariant
<1>9. CASE EndLine
  BY <1>9, EndLineKeepsInvariant
<1>10. CASE WriteComma \/ WriteRecord
  BY <1>10, WriteCommaKeepsInvariant, WriteRecordKeepsInvariant
<1>11. CASE KeyboardInterrupt
  BY <1>11, StopKeepsInvariant DEF KeyboardInterrupt
<1>12. CASE \E p \in Pids : Spawn(p) \/ End(p) \/ WaitedFor(p) \/ ValueChanges(p)
  <2>1. Moves /\ Logging
    BY <1>12, ProcessesMove DEF IInv
  <2>2. QED
    BY <2>1, MoveKeepsInvariant
<1>13. CASE UNCHANGED vars
  <2>1. UNCHANGED <<status, ppid, value, omit_first, denied, zombies_raise, children,
                    previous_values, pc, agenda, record_number, json, written>>
    BY <1>13 DEF vars, world, options, tree
  <2>2. Moves /\ Logging
    BY <2>1 DEF IInv, TypeOK, Moves, Logging, options, tree
  <2>3. QED
    BY <2>2, MoveKeepsInvariant
<1>14. QED
  BY <1>1, <1>2, <1>3, <1>4, <1>5, <1>6, <1>7, <1>8, <1>9, <1>10, <1>11, <1>12, <1>13
     DEF Next, LogStep

\* The invariant holds for any processes, values and numbers of samples.
THEOREM SpecHasInvariant == Spec => []IInv
<1>1. Init => IInv
  BY InitEstablishesInvariant
<1>2. IInv /\ [Next]_vars => IInv'
  BY NextKeepsInvariant
<1>3. QED
  BY <1>1, <1>2, PTL DEF Spec

\* All variables have their types, no process has two nodes in the tree
\* (update_children), and the nodes to visit are all different.
THEOREM TypeCorrect == Spec => []TypeOK
<1>1. IInv => TypeOK
  BY DEF IInv
<1>2. QED
  BY <1>1, SpecHasInvariant, PTL

\* The differences that _write_diff writes for a process add up to its value in
\* its last line, whatever other processes do and whichever lines are not finished.
THEOREM DifferencesAlwaysAddUp == Spec => []DifferencesAddUp
<1>1. IInv => DifferencesAddUp
  BY DEF IInv, Remembered
<1>2. QED
  BY <1>1, SpecHasInvariant, PTL

\* A JSON file that is closed after samples of which none was omitted is a list
\* of records with commas between them, and has a comma at its end only if the
\* last sample was interrupted at the root (log_process, _write_summary_json).
THEOREM JsonIsAlwaysAList == Spec => []JsonIsAList
<1>1. IInv => JsonIsAList
  BY DEF IInv, JsonSoFar, JsonIsAList
<1>2. QED
  BY <1>1, SpecHasInvariant, PTL

\* No line and no record of a process is lost to another with the same node: a
\* process that never had a node has never been written, and the previous value
\* of a node is the one in its last line.
THEOREM PreviousValuesAreWritten == Spec => []Remembered
<1>1. IInv => Remembered
  BY DEF IInv
<1>2. QED
  BY <1>1, SpecHasInvariant, PTL

\* In a sample a node is visited only after the node that it is under, and once.
THEOREM EachNodeOnce == Spec => []Agenda
<1>1. IInv => Agenda
  BY DEF IInv
<1>2. QED
  BY <1>1, SpecHasInvariant, PTL

-----------------------------------------------------------------------------
(***************************************************************************)
(* The nodes and the processes under the root.  The sets of Under are      *)
(* chosen among those that satisfy its equation: that there are such sets, *)
(* and what follows from the equation, is proved for the smallest number   *)
(* for which it could fail.                                                *)
(***************************************************************************)

LEMMA SmallestNumber ==
  ASSUME NEW S \in SUBSET Nat, S # {}
  PROVE  \E m \in S : \A k \in S : m <= k
<1> DEFINE Less == OpToRel(<, Nat)
<1>1. IsWellFoundedOn(Less, Nat)
  BY NatLessThanWellFounded
<1>2. \A k, m \in Nat : k < m => <<k, m>> \in Less
  BY DEF OpToRel
<1> HIDE DEF Less
<1>3. PICK m \in S : \A k \in S : ~ (<<k, m>> \in Less)
  BY <1>1, WFMin
<1>4. ASSUME NEW k \in S
      PROVE  m <= k
  <2>1. k \in Nat /\ m \in Nat /\ <<k, m>> \notin Less
    BY <1>3
  <2>2. k < m => <<k, m>> \in Less
    BY <1>2, <2>1
  <2>3. QED
    BY <2>1, <2>2
<1>5. QED
  BY <1>4

\* A set of numbers that has 0 and, with each number below n, the next, has n.
LEMMA Induct ==
  ASSUME NEW P \in SUBSET Nat, NEW n \in Nat, 0 \in P,
         \A m \in Nat : m < n /\ m \in P => m + 1 \in P
  PROVE  n \in P
<1> DEFINE Bad == {m \in Nat : m <= n /\ m \notin P}
<1>1. SUFFICES ASSUME Bad # {} PROVE FALSE
  OBVIOUS
<1>2. Bad \in SUBSET Nat
  OBVIOUS
<1>3. PICK m \in Bad : \A k \in Bad : m <= k
  <2> HIDE DEF Bad
  <2> QED BY <1>1, <1>2, SmallestNumber
<1>4. m \in Nat /\ m <= n /\ m \notin P /\ m # 0
  BY <1>3
<1>5. m - 1 \in Nat /\ m - 1 < n /\ ~ (m <= m - 1) /\ (m - 1) + 1 = m
  BY <1>4
<1>6. m - 1 \in P
  BY <1>3, <1>5
<1>7. QED
  BY <1>4, <1>5, <1>6

\* The equation, for the processes under each.
DepthOf(n, above, below) ==
  IF n = 0 THEN {Root} ELSE above \cup UNION {below[p] : p \in above}

IsDepth(depth, levels, below) ==
  depth = [n \in 0 .. levels |-> DepthOf(n, depth[n - 1], below)]

LEMMA DepthExists ==
  ASSUME NEW levels \in Nat, NEW below
  PROVE  \E depth : IsDepth(depth, levels, below)
<1> DEFINE P == {m \in Nat : \E depth : IsDepth(depth, m, below)}
<1>1. ASSUME NEW above, NEW other
      PROVE  DepthOf(0, above, below) = DepthOf(0, other, below)
  BY DEF DepthOf
<1>2. 0 \in P
  <2> DEFINE depth == [n \in 0 .. 0 |-> DepthOf(n, {}, below)]
  <2>1. ASSUME NEW n \in 0 .. 0
        PROVE  depth[n] = DepthOf(n, depth[n - 1], below)
    <3>1. n = 0 /\ depth[n] = DepthOf(n, {}, below)
      OBVIOUS
    <3> HIDE DEF depth
    <3>2. QED
      BY <1>1, <3>1
  <2>2. depth = [n \in 0 .. 0 |-> depth[n]]
    OBVIOUS
  <2> HIDE DEF depth
  <2>3. IsDepth(depth, 0, below)
    BY <2>1, <2>2 DEF IsDepth
  <2>4. QED
    BY <2>3
<1>3. ASSUME NEW m \in Nat, m \in P
      PROVE  m + 1 \in P
  <2>1. PICK before : IsDepth(before, m, below)
    BY <1>3
  <2> DEFINE depth == [n \in 0 .. m + 1 |-> DepthOf(n, before[n - 1], below)]
  <2>2. ASSUME NEW n \in 0 .. m + 1
        PROVE  depth[n] = DepthOf(n, depth[n - 1], below)
    <3>1. depth[n] = DepthOf(n, before[n - 1], below)
      OBVIOUS
    <3>2. CASE n = 0
      <4> HIDE DEF depth
      <4> QED
        BY <1>1, <3>1, <3>2
    <3>3. CASE n # 0
      <4>1. n - 1 \in 0 .. m /\ n - 1 \in 0 .. m + 1
        BY <1>3, <3>3
      <4>2. before[n - 1] = DepthOf(n - 1, before[(n - 1) - 1], below)
        BY <2>1, <4>1 DEF IsDepth
      <4>3. depth[n - 1] = DepthOf(n - 1, before[(n - 1) - 1], below)
        BY <4>1
      <4> HIDE DEF depth
      <4>4. QED
        BY <3>1, <4>2, <4>3
    <3>4. QED
      BY <3>2, <3>3
  <2>3. depth = [n \in 0 .. m + 1 |-> depth[n]]
    OBVIOUS
  <2> HIDE DEF depth
  <2>4. IsDepth(depth, m + 1, below)
    BY <2>2, <2>3 DEF IsDepth
  <2>5. QED
    BY <1>3, <2>4
<1>4. P \in SUBSET Nat
  OBVIOUS
<1> HIDE DEF P
<1>5. levels \in P
  BY <1>2, <1>3, <1>4, Induct
<1>6. QED
  BY <1>5 DEF P

\* A process is under younger ones only.
YoungerUnder(below) ==
  /\ below \in [Pids -> SUBSET Pids]
  /\ \A p \in Pids : \A c \in below[p] : p < c

\* The root, and with each process those under it.
Closed(S, below) == Root \in S /\ \A p \in S : below[p] \subseteq S

\* The smallest set that is closed.
IsUnder(S, below) ==
  /\ S \subseteq Pids /\ Closed(S, below)
  /\ \A T \in SUBSET Pids : Closed(T, below) => S \subseteq T

Levels == LastPid - Root

\* As a process is under younger ones only, there are no more levels than processes.
LEMMA DepthFacts ==
  ASSUME NEW below, YoungerUnder(below), NEW depth, IsDepth(depth, Levels, below)
  PROVE  /\ \A n \in 0 .. Levels : depth[n] \subseteq Pids
         /\ IsUnder(depth[Levels], below)
<1>0. /\ Root \in Nat \ {0} /\ LastPid \in Nat /\ Root <= LastPid /\ Levels \in Nat
      /\ Levels = LastPid - Root /\ Root \in Pids
  BY ProcessTreeAssumption, PidsFacts DEF Levels
<1>1. depth[0] = {Root}
  BY <1>0 DEF IsDepth, DepthOf
<1>2. ASSUME NEW n \in 0 .. Levels, n # 0
      PROVE  /\ n - 1 \in 0 .. Levels
             /\ depth[n] = depth[n - 1] \cup UNION {below[p] : p \in depth[n - 1]}
  <2>1. depth[n] = DepthOf(n, depth[n - 1], below)
    BY DEF IsDepth
  <2>2. n - 1 \in 0 .. Levels
    BY <1>0, <1>2
  <2>3. QED
    BY <1>2, <2>1, <2>2 DEF DepthOf
<1>3. ASSUME NEW n \in 0 .. Levels
      PROVE  depth[n] \subseteq Pids /\ Root \in depth[n]
  <2> DEFINE P == {m \in Nat : m <= Levels => depth[m] \subseteq Pids /\ Root \in depth[m]}
  <2>1. 0 \in P
    BY <1>0, <1>1
  <2>2. ASSUME NEW m \in Nat, m \in P
        PROVE  m + 1 \in P
    <3>1. SUFFICES ASSUME m + 1 <= Levels
                   PROVE  depth[m + 1] \subseteq Pids /\ Root \in depth[m + 1]
      OBVIOUS
    <3>2. m + 1 \in 0 .. Levels /\ m + 1 # 0 /\ (m + 1) - 1 = m /\ m <= Levels
      BY <1>0, <3>1
    <3>3. depth[m + 1] = depth[m] \cup UNION {below[p] : p \in depth[m]}
      BY <1>2, <3>2
    <3>4. depth[m] \subseteq Pids /\ Root \in depth[m]
      BY <2>2, <3>2
    <3>5. \A p \in depth[m] : below[p] \subseteq Pids
      BY <3>4 DEF YoungerUnder
    <3>6. QED
      BY <3>3, <3>4, <3>5
  <2>3. P \in SUBSET Nat /\ n \in Nat /\ n <= Levels
    OBVIOUS
  <2> HIDE DEF P
  <2>4. n \in P
    BY <2>1, <2>2, <2>3, Induct
  <2>5. QED
    BY <2>3, <2>4 DEF P
<1>4. ASSUME NEW n \in 0 .. Levels, NEW x \in depth[n], NEW k \in 0 .. Levels, x - Root <= k
      PROVE  x \in depth[k]
  <2> DEFINE Early(m) == \A y \in depth[m] : \A l \in 0 .. Levels : y - Root <= l => y \in depth[l]
             P == {m \in Nat : m <= Levels => Early(m)}
  <2>1. 0 \in P
    <3>1. Early(0)
      BY <1>1, <1>3
    <3>2. QED
      BY <3>1
  <2>2. ASSUME NEW m \in Nat, m \in P
        PROVE  m + 1 \in P
    <3>1. SUFFICES ASSUME m + 1 <= Levels PROVE Early(m + 1)
      OBVIOUS
    <3>2. m + 1 \in 0 .. Levels /\ m + 1 # 0 /\ (m + 1) - 1 = m /\ m \in 0 .. Levels
      BY <1>0, <3>1
    <3>3. depth[m + 1] = depth[m] \cup UNION {below[p] : p \in depth[m]}
      BY <1>2, <3>2
    <3>4. Early(m)
      BY <2>2, <3>2
    <3> HIDE DEF P
    <3>5. ASSUME NEW p \in depth[m], NEW y \in below[p], NEW l \in 0 .. Levels, y - Root <= l
          PROVE  y \in depth[l]
      <4>1. p \in Pids /\ y \in Pids /\ p < y
        BY <1>3, <3>2 DEF YoungerUnder
      <4>2. p \in Nat /\ y \in Nat /\ Root <= p
        BY <1>0, <4>1 DEF Pids
      <4>3. l # 0 /\ p - Root <= l - 1 /\ l - 1 \in 0 .. Levels
        BY <1>0, <3>5, <4>1, <4>2
      <4>4. p \in depth[l - 1]
        BY <3>4, <4>3
      <4>5. depth[l] = depth[l - 1] \cup UNION {below[q] : q \in depth[l - 1]}
        BY <1>2, <4>3
      <4>6. QED
        BY <4>4, <4>5
    <3>6. QED
      BY <3>3, <3>4, <3>5
  <2>3. P \in SUBSET Nat /\ n \in Nat /\ n <= Levels
    OBVIOUS
  <2> HIDE DEF P
  <2>4. n \in P
    BY <2>1, <2>2, <2>3, Induct
  <2>5. Early(n)
    BY <2>3, <2>4 DEF P
  <2>6. QED
    BY <1>4, <2>5
<1>5. Levels \in 0 .. Levels
  BY <1>0
<1>6. ASSUME NEW p \in depth[Levels], NEW c \in below[p]
      PROVE  c \in depth[Levels]
  <2>1. p \in Pids /\ c \in Pids /\ p < c
    BY <1>3, <1>5 DEF YoungerUnder
  <2>2. /\ Levels # 0 /\ Levels - 1 \in 0 .. Levels /\ p - Root <= Levels - 1
    BY <1>0, <2>1 DEF Pids
  <2>3. p \in depth[Levels - 1]
    BY <1>4, <1>5, <2>2
  <2>4. depth[Levels] = depth[Levels - 1] \cup UNION {below[q] : q \in depth[Levels - 1]}
    BY <1>2, <1>5, <2>2
  <2>5. QED
    BY <2>3, <2>4
<1>7. ASSUME NEW T \in SUBSET Pids, Closed(T, below)
      PROVE  depth[Levels] \subseteq T
  <2> DEFINE P == {m \in Nat : m <= Levels => depth[m] \subseteq T}
  <2>1. 0 \in P
    BY <1>1, <1>7 DEF Closed
  <2>2. ASSUME NEW m \in Nat, m \in P
        PROVE  m + 1 \in P
    <3>1. SUFFICES ASSUME m + 1 <= Levels PROVE depth[m + 1] \subseteq T
      OBVIOUS
    <3>2. m + 1 \in 0 .. Levels /\ m + 1 # 0 /\ (m + 1) - 1 = m /\ m <= Levels
      BY <1>0, <3>1
    <3>3. depth[m + 1] = depth[m] \cup UNION {below[p] : p \in depth[m]}
      BY <1>2, <3>2
    <3>4. depth[m] \subseteq T
      BY <2>2, <3>2
    <3>5. \A p \in depth[m] : below[p] \subseteq T
      BY <1>7, <3>4 DEF Closed
    <3>6. QED
      BY <3>3, <3>4, <3>5
  <2>3. P \in SUBSET Nat
    OBVIOUS
  <2> HIDE DEF P
  <2>4. Levels \in P
    BY <1>0, <2>1, <2>2, <2>3, Induct
  <2>5. QED
    BY <1>0, <2>4 DEF P
<1>8. QED
  BY <1>3, <1>5, <1>6, <1>7 DEF IsUnder, Closed

\* What is under the root, other than the root, is under something that is.
LEMMA ParentUnder ==
  ASSUME NEW below, NEW S, IsUnder(S, below), NEW x \in S, x # Root
  PROVE  \E p \in S : x \in below[p]
<1> SUFFICES ASSUME \A p \in S : x \notin below[p] PROVE FALSE
  OBVIOUS
<1> DEFINE T == S \ {x}
<1>1. T \in SUBSET Pids /\ Closed(T, below)
  BY DEF IsUnder, Closed
<1>2. S \subseteq T
  BY <1>1 DEF IsUnder
<1>3. QED
  BY <1>2

-----------------------------------------------------------------------------
(* The tree that is there.                                                 *)

\* Processes are spawned in the order of their numbers, by older ones that run;
\* so the nodes under a node are those of younger processes.
Family ==
  /\ \A a, b \in Pids : a < b /\ status[a] = "new" => status[b] = "new"
  /\ \A c \in Pids : ppid[c] < c /\ (ppid[c] \in Pids => status[ppid[c]] = "running")
  /\ \A p \in Pids : \A c \in children[p] : p < c

\* The processes that have been descendants all the while still are, by the
\* parents that they had; the children of one that has been a descendant at any
\* time have been, too.
Watched ==
  /\ stable \subseteq Pids /\ known \subseteq Pids
  /\ \A x \in stable : x # Root => ppid[x] \in stable /\ x \in ChildrenOf(ppid[x])
  /\ \A p \in known : ChildrenOf(p) \subseteq known

\* What is under the nodes that are done is done or to be done, and it is all
\* that has been there all the while.
UpToDate(done) ==
  /\ Root \in done \cup Range(agenda) /\ done \cup Range(agenda) \subseteq known
  /\ \A p \in done : children[p] \subseteq done \cup Range(agenda)
  /\ \A x \in stable : x # Root /\ ppid[x] \in done => x \in children[ppid[x]]

Updating ==
  pc \in {"orphans", "children"} =>
    /\ \E done \in SUBSET Pids : UpToDate(done)
    /\ pc = "children" => children[Head(agenda)] \subseteq known

TreeInv == Family /\ Watched /\ Updating

\* The nodes of the tree are the smallest closed set.
LEMMA InTreeFacts == TypeOK /\ Family => IsUnder(InTree, children)
<1> SUFFICES ASSUME TypeOK, Family PROVE IsUnder(InTree, children)
  OBVIOUS
<1> DEFINE depth == CHOOSE f : IsDepth(f, Levels, children)
<1>1. InTree = depth[Levels]
  BY DEF InTree, Under, IsDepth, DepthOf, Levels
<1>2. Levels \in Nat
  BY ProcessTreeAssumption DEF Levels
<1>3. IsDepth(depth, Levels, children)
  BY <1>2, DepthExists
<1> HIDE DEF depth
<1>4. YoungerUnder(children)
  BY DEF YoungerUnder, TypeOK, Family
<1>5. QED
  BY <1>1, <1>3, <1>4, DepthFacts

Offspring == [p \in Pids |-> ChildrenOf(p)]

\* So are the descendants.
LEMMA DescendantsFacts == TypeOK /\ Family => IsUnder(Descendants, Offspring)
<1> SUFFICES ASSUME TypeOK, Family PROVE IsUnder(Descendants, Offspring)
  OBVIOUS
<1> DEFINE Step(n, above) ==
             IF n = 0 THEN {Root} ELSE above \cup UNION {ChildrenOf(p) : p \in above}
           Solves(f) == f = [n \in 0 .. Levels |-> Step(n, f[n - 1])]
           depth == CHOOSE f : Solves(f)
<1>1. Descendants = depth[Levels]
  BY DEF Descendants, Under, Levels
<1>2. Levels \in Nat /\ Root \in Pids
  BY ProcessTreeAssumption, PidsFacts DEF Levels
<1>3. YoungerUnder(Offspring)
  <2>1. \A p \in Pids : Offspring[p] = ChildrenOf(p)
    BY DEF Offspring
  <2>2. \A p \in Pids : \A c \in ChildrenOf(p) : c \in Pids /\ p < c
    BY DEF ChildrenOf, Family
  <2>3. Offspring \in [Pids -> SUBSET Pids]
    BY <2>2 DEF Offspring
  <2>4. QED
    BY <2>1, <2>2, <2>3 DEF YoungerUnder
<1>4. ASSUME NEW n, NEW above \in SUBSET Pids
      PROVE  Step(n, above) = DepthOf(n, above, Offspring)
  <2>1. {ChildrenOf(p) : p \in above} = {Offspring[p] : p \in above}
    BY DEF Offspring
  <2>2. QED
    BY <2>1 DEF DepthOf
<1>5. ASSUME NEW n \in 0 .. Levels, n # 0
      PROVE  n - 1 \in 0 .. Levels
  BY <1>2, <1>5
<1>6. ASSUME NEW above, NEW other
      PROVE  Step(0, above) = Step(0, other) /\ DepthOf(0, above, Offspring) = Step(0, other)
  BY DEF DepthOf
<1> HIDE DEF Step
<1>7. \E f : Solves(f)
  <2>1. PICK f : IsDepth(f, Levels, Offspring)
    BY <1>2, DepthExists
  <2>2. \A n \in 0 .. Levels : f[n] \subseteq Pids
    BY <1>3, <2>1, DepthFacts
  <2>3. \A n \in 0 .. Levels : f[n] = DepthOf(n, f[n - 1], Offspring)
    BY <2>1 DEF IsDepth
  <2>4. ASSUME NEW n \in 0 .. Levels
        PROVE  f[n] = Step(n, f[n - 1])
    <3>1. CASE n = 0
      BY <1>6, <2>3, <3>1
    <3>2. CASE n # 0
      BY <1>4, <1>5, <2>2, <2>3, <3>2
    <3>3. QED
      BY <3>1, <3>2
  <2>5. f = [n \in 0 .. Levels |-> f[n]]
    BY <2>1 DEF IsDepth
  <2>6. QED
    BY <2>4, <2>5
<1>8. Solves(depth)
  BY <1>7
<1> HIDE DEF depth
<1>9. \A n \in 0 .. Levels : depth[n] = Step(n, depth[n - 1])
  BY <1>8
<1>10. ASSUME NEW n \in 0 .. Levels
       PROVE  depth[n] \subseteq Pids
  <2> DEFINE P == {m \in Nat : m <= Levels => depth[m] \subseteq Pids}
  <2>1. 0 \in P
    <3>1. 0 \in 0 .. Levels
      BY <1>2
    <3>2. depth[0] = Step(0, depth[0 - 1])
      BY <1>9, <3>1
    <3>3. depth[0] = {Root}
      BY <3>2 DEF Step
    <3>4. QED
      BY <1>2, <3>3
  <2>2. ASSUME NEW m \in Nat, m \in P
        PROVE  m + 1 \in P
    <3>1. SUFFICES ASSUME m + 1 <= Levels PROVE depth[m + 1] \subseteq Pids
      OBVIOUS
    <3>2. m + 1 \in 0 .. Levels /\ m + 1 # 0 /\ (m + 1) - 1 = m /\ m <= Levels
      BY <1>2, <3>1
    <3>3. depth[m + 1] = Step(m + 1, depth[m]) /\ depth[m] \subseteq Pids
      BY <1>9, <2>2, <3>2
    <3>4. \A p : ChildrenOf(p) \subseteq Pids
      BY DEF ChildrenOf
    <3>5. QED
      BY <3>2, <3>3, <3>4 DEF Step
  <2>3. P \in SUBSET Nat /\ n \in Nat /\ n <= Levels
    OBVIOUS
  <2> HIDE DEF P
  <2>4. n \in P
    BY <2>1, <2>2, <2>3, Induct
  <2>5. QED
    BY <2>3, <2>4 DEF P
<1>11. ASSUME NEW n \in 0 .. Levels
       PROVE  depth[n] = DepthOf(n, depth[n - 1], Offspring)
  <2>1. CASE n = 0
    BY <1>6, <1>9, <2>1
  <2>2. CASE n # 0
    BY <1>4, <1>5, <1>9, <1>10, <2>2
  <2>3. QED
    BY <2>1, <2>2
<1>12. depth = [n \in 0 .. Levels |-> depth[n]]
  BY <1>8
<1>13. IsDepth(depth, Levels, Offspring)
  BY <1>11, <1>12 DEF IsDepth
<1>14. QED
  BY <1>1, <1>3, <1>13, DepthFacts

-----------------------------------------------------------------------------
(* Each step keeps the tree current.                                       *)

\* The processes change, and the tree and what is to do does not.
LEMMA TreeWaits ==
  ASSUME Updating, Logging, known \subseteq known',
         \A x \in stable' : x \in stable /\ (x # Root => ppid'[x] = ppid[x])
  PROVE  Updating'
<1>1. UNCHANGED <<children, pc, agenda>>
  BY DEF Logging, tree
<1>2. SUFFICES ASSUME pc \in {"orphans", "children"}
               PROVE  /\ (\E done \in SUBSET Pids : UpToDate(done))'
                      /\ pc = "children" => children[Head(agenda)] \subseteq known'
  BY <1>1 DEF Updating
<1>3. PICK done \in SUBSET Pids : UpToDate(done)
  BY <1>2 DEF Updating
<1>4. UpToDate(done)'
  BY <1>1, <1>3 DEF UpToDate
<1>5. pc = "children" => children[Head(agenda)] \subseteq known
  BY <1>2 DEF Updating
<1>6. QED
  BY <1>4, <1>5

LEMMA SpawnKeepsTree ==
  ASSUME IInv, TreeInv, NEW p \in Pids, Spawn(p)
  PROVE  TreeInv'
<1>1. PICK c \in Pids : /\ status[c] = "new"
                        /\ \A older \in Root .. c - 1 : status[older] # "new"
                        /\ status' = [status EXCEPT ![c] = "running"]
                        /\ ppid' = [ppid EXCEPT ![c] = p]
                        /\ known' = IF p \in known THEN known \cup {c} ELSE known
  BY DEF Spawn
<1>2. status[p] = "running" /\ stable' = stable /\ Logging /\ children' = children
  BY DEF Spawn, Logging, tree
<1>3. /\ status \in [Pids -> {"new", "running", "zombie", "gone"}]
      /\ ppid \in [Pids -> Pids \cup {Outside}]
      /\ Family /\ Watched /\ Updating
  BY DEF IInv, TypeOK, TreeInv
<1>4. \A q \in Pids : q \in Nat /\ Root <= q
  BY ProcessTreeAssumption DEF Pids
<1>5. p < c
  <2>1. c < p => status[p] = "new"
    BY <1>1, <1>3 DEF Family
  <2>2. p # c
    BY <1>1, <1>2
  <2>3. QED
    BY <1>2, <1>4, <2>1, <2>2
<1>6. ASSUME NEW q \in Pids
      PROVE  /\ q # c => status'[q] = status[q] /\ ppid'[q] = ppid[q]
             /\ status'[c] = "running" /\ ppid'[c] = p
  BY <1>1, <1>3
\* A process that has not been spawned has no children.
<1>7. \A q \in Pids : ppid[q] # c
  BY <1>1, <1>3 DEF Family
<1>8. Family'
  <2>1. ASSUME NEW a \in Pids, NEW b \in Pids, a < b, status'[a] = "new"
        PROVE  status'[b] = "new"
    <3>1. a # c /\ status[a] = "new"
      BY <1>6, <2>1
    <3>2. ~ (a < c)
      <4>1. a < c => a \in Root .. c - 1
        BY <1>4
      <4>2. QED
        BY <1>1, <3>1, <4>1
    <3>3. b # c
      BY <2>1, <3>2
    <3>4. QED
      BY <1>3, <1>6, <2>1, <3>1, <3>3 DEF Family
  <2>2. ASSUME NEW q \in Pids
        PROVE  ppid'[q] < q /\ (ppid'[q] \in Pids => status'[ppid'[q]] = "running")
    <3>1. CASE q = c
      BY <1>1, <1>2, <1>5, <1>6, <3>1
    <3>2. CASE q # c
      BY <1>3, <1>6, <1>7, <3>2 DEF Family
    <3>3. QED
      BY <3>1, <3>2
  <2>3. QED
    BY <1>2, <1>3, <2>1, <2>2 DEF Family
<1>9. c \notin stable \/ c = Root
  BY <1>1, <1>3 DEF Watched, ChildrenOf
<1>10. c # Root
  BY <1>1 DEF IInv, Parents
<1>11. ASSUME NEW x \in stable, x # Root
       PROVE  /\ ppid'[x] = ppid[x]
              /\ ppid'[x] \in stable /\ x \in ChildrenOf(ppid[x])'
  <2>1. x \in Pids /\ x # c /\ ppid[x] \in stable /\ x \in ChildrenOf(ppid[x])
    BY <1>3, <1>9, <1>10, <1>11 DEF Watched
  <2>2. QED
    BY <1>6, <2>1 DEF ChildrenOf
<1>12. ASSUME NEW q \in known', NEW x \in ChildrenOf(q)'
       PROVE  x \in known'
  <2>1. x \in Pids /\ ppid'[x] = q /\ status'[x] \in {"running", "zombie"}
    BY DEF ChildrenOf
  <2>2. CASE x = c
    BY <1>1, <1>6, <2>1, <2>2, <1>5, <1>4
  <2>3. CASE x # c
    <3>1. ppid[x] = q /\ status[x] \in {"running", "zombie"} /\ q # c
      BY <1>6, <1>7, <2>1, <2>3
    <3>2. q \in known
      BY <1>1, <3>1
    <3>3. x \in known
      BY <1>3, <2>1, <3>1, <3>2 DEF Watched, ChildrenOf
    <3>4. QED
      BY <1>1, <3>3
  <2>4. QED
    BY <2>2, <2>3
<1>13. Watched'
  <2>1. stable' \subseteq Pids /\ known' \subseteq Pids
    BY <1>1, <1>2, <1>3 DEF Watched
  <2>2. QED
    BY <1>2, <1>11, <1>12, <2>1 DEF Watched
<1>14. Updating'
  BY <1>1, <1>2, <1>3, <1>11, TreeWaits
<1>15. QED
  BY <1>8, <1>13, <1>14 DEF TreeInv

\* The processes end, or are waited for: there are fewer children than there were.
LEMMA FewerChildren ==
  ASSUME IInv, TreeInv, Logging, known' = known, stable' \subseteq stable,
         status' \in [Pids -> {"new", "running", "zombie", "gone"}],
         \A q \in Pids : /\ ppid'[q] \in {ppid[q], Outside}
                         /\ (status'[q] = "new") <=> (status[q] = "new")
                         /\ status'[q] \in {"running", "zombie"}
                              => status[q] \in {"running", "zombie"}
                         /\ ppid'[q] \in Pids
                              => status'[ppid'[q]] = status[ppid'[q]],
         \A x \in stable' : x # Root => ppid'[x] \in stable' /\ x \in ChildrenOf(ppid[x])'
  PROVE  TreeInv'
<1>1. Family /\ Watched /\ Updating /\ children' = children
  BY DEF TreeInv, Logging, tree
<1>2. \A q \in Pids : q \in Nat \ {0}
  BY ProcessTreeAssumption DEF Pids
<1>3. Family'
  <2>1. ASSUME NEW q \in Pids
        PROVE  ppid'[q] < q /\ (ppid'[q] \in Pids => status'[ppid'[q]] = "running")
    <3>1. ppid'[q] < q
      BY <1>1, <1>2 DEF Family, Outside
    <3>2. ppid'[q] \in Pids => ppid'[q] = ppid[q]
      BY PidsFacts
    <3>3. QED
      BY <1>1, <3>1, <3>2 DEF Family
  <2>2. QED
    BY <1>1, <2>1 DEF Family
<1>4. ASSUME NEW q \in Pids
      PROVE  ChildrenOf(q)' \subseteq ChildrenOf(q)
  <2>1. ASSUME NEW x \in ChildrenOf(q)'
        PROVE  x \in ChildrenOf(q)
    <3>1. x \in Pids /\ ppid'[x] = q /\ status'[x] \in {"running", "zombie"}
      BY DEF ChildrenOf
    <3>2. ppid[x] = q /\ status[x] \in {"running", "zombie"}
      BY <3>1, PidsFacts
    <3>3. QED
      BY <3>1, <3>2 DEF ChildrenOf
  <2>2. QED
    BY <2>1
<1>5. Watched'
  <2>1. \A q \in known : ChildrenOf(q)' \subseteq known
    BY <1>1, <1>4 DEF Watched
  <2>2. QED
    BY <1>1, <2>1 DEF Watched
<1>6. ASSUME NEW x \in stable', x # Root
      PROVE  ppid'[x] = ppid[x]
  <2>1. x \in Pids /\ ppid'[x] \in Pids
    BY <1>1, <1>6 DEF Watched
  <2>2. QED
    BY <2>1, PidsFacts
<1>7. Updating'
  BY <1>1, <1>6, TreeWaits
<1>8. QED
  BY <1>3, <1>5, <1>7 DEF TreeInv

LEMMA EndKeepsTree ==
  ASSUME IInv, TreeInv, NEW p \in Pids, End(p), TypeOK'
  PROVE  TreeInv'
<1>1. /\ status[p] = "running" /\ status' = [status EXCEPT ![p] = "zombie"]
      /\ ppid' = [c \in Pids |-> IF ppid[c] = p THEN Outside ELSE ppid[c]]
      /\ stable' = stable \cap (Descendants')
      /\ known' = known /\ Logging /\ children' = children
  BY DEF End, Logging, tree
<1>2. /\ status \in [Pids -> {"new", "running", "zombie", "gone"}]
      /\ Family /\ Watched
  BY DEF IInv, TypeOK, TreeInv
<1>3. ASSUME NEW q \in Pids
      PROVE  /\ ppid'[q] \in {ppid[q], Outside} /\ ppid'[q] # p
             /\ (status'[q] = "new") <=> (status[q] = "new")
             /\ status'[q] \in {"running", "zombie"} => status[q] \in {"running", "zombie"}
             /\ q # p => status'[q] = status[q]
  BY <1>1, <1>2, PidsFacts
<1>4. Family'
  <2>1. \A q \in Pids : q \in Nat \ {0}
    BY ProcessTreeAssumption DEF Pids
  <2>2. ASSUME NEW q \in Pids
        PROVE  ppid'[q] < q /\ (ppid'[q] \in Pids => status'[ppid'[q]] = "running")
    <3>1. ppid'[q] < q
      BY <1>2, <1>3, <2>1 DEF Family, Outside
    <3>2. ppid'[q] \in Pids => ppid'[q] = ppid[q]
      BY <1>3, PidsFacts
    <3>3. QED
      BY <1>2, <1>3, <3>1, <3>2 DEF Family
  <2>3. QED
    BY <1>1, <1>2, <1>3, <2>2 DEF Family
<1>5. IsUnder(Descendants', Offspring')
  <2>1. TypeOK' /\ Family' => IsUnder(Descendants, Offspring)'
    BY DescendantsFacts, PTL
  <2>2. IsUnder(Descendants, Offspring)' => IsUnder(Descendants', Offspring')
    BY DEF IsUnder, Closed
  <2>3. QED
    BY <1>4, <2>1, <2>2
<1>6. ASSUME NEW x \in stable', x # Root
      PROVE  ppid'[x] \in stable' /\ x \in ChildrenOf(ppid[x])'
  <2>0. x \in Descendants'
    BY <1>1
  <2>1. PICK q \in Descendants' : q \in Pids /\ x \in ChildrenOf(q)'
    <3>1. PICK q \in Descendants' : x \in Offspring'[q]
      BY <1>5, <1>6, <2>0, ParentUnder
    <3>2. q \in Pids
      BY <1>5 DEF IsUnder
    <3>3. Offspring'[q] = ChildrenOf(q)'
      BY <3>2 DEF Offspring
    <3>4. QED
      BY <3>1, <3>2, <3>3
  <2>2. ppid'[x] = q /\ x \in Pids
    BY <2>1 DEF ChildrenOf
  <2>3. ppid[x] = q
    BY <1>3, <2>1, <2>2, PidsFacts
  <2>4. q \in stable
    BY <1>1, <1>2, <1>6, <2>3 DEF Watched
  <2>5. QED
    BY <1>1, <2>1, <2>2, <2>4
<1>7. QED
  BY <1>1, <1>2, <1>3, <1>6, FewerChildren DEF TypeOK

LEMMA WaitedForKeepsTree ==
  ASSUME IInv, TreeInv, NEW p \in Pids, WaitedFor(p)
  PROVE  TreeInv'
<1>1. /\ status[p] = "zombie" /\ status' = [status EXCEPT ![p] = "gone"]
      /\ stable' = stable \ {p} /\ ppid' = ppid /\ known' = known /\ Logging
  BY DEF WaitedFor
<1>2. /\ status \in [Pids -> {"new", "running", "zombie", "gone"}]
      /\ Family /\ Watched
  BY DEF IInv, TypeOK, TreeInv
<1>3. \A q \in Pids : ppid[q] # p
  BY <1>1, <1>2 DEF Family
<1>4. ASSUME NEW q \in Pids
      PROVE  /\ (status'[q] = "new") <=> (status[q] = "new")
             /\ status'[q] \in {"running", "zombie"} => status[q] \in {"running", "zombie"}
             /\ q # p => status'[q] = status[q]
  BY <1>1, <1>2
<1>5. ASSUME NEW x \in stable', x # Root
      PROVE  ppid'[x] \in stable' /\ x \in ChildrenOf(ppid[x])'
  <2>1. x \in stable /\ x # p /\ x \in Pids /\ ppid[x] \in stable /\ x \in ChildrenOf(ppid[x])
    BY <1>1, <1>2, <1>5 DEF Watched
  <2>2. ppid[x] # p /\ status'[x] = status[x]
    BY <1>3, <1>4, <2>1
  <2>3. QED
    BY <1>1, <2>1, <2>2 DEF ChildrenOf
<1>6. status' \in [Pids -> {"new", "running", "zombie", "gone"}]
  BY <1>1, <1>2
<1>7. \A q \in Pids : ppid'[q] \in Pids => status'[ppid'[q]] = status[ppid'[q]]
  BY <1>1, <1>3, <1>4
<1>8. QED
  BY <1>1, <1>4, <1>5, <1>6, <1>7, FewerChildren

\* The processes are what they were, but for their values.
LEMMA SameWorld ==
  ASSUME TreeInv, Logging, UNCHANGED <<status, ppid, stable, known>>
  PROVE  TreeInv'
<1>1. children' = children
  BY DEF Logging, tree
<1>2. Family' /\ Watched'
  BY <1>1 DEF TreeInv, Family, Watched, ChildrenOf
<1>3. Updating'
  BY TreeWaits DEF TreeInv
<1>4. QED
  BY <1>2, <1>3 DEF TreeInv

\* Before the update, and after it, nothing is said of what is done.
LEMMA StaysTree ==
  ASSUME TreeInv, UNCHANGED <<world, children>>, pc' \notin {"orphans", "children"}
  PROVE  TreeInv'
<1>1. UNCHANGED <<status, ppid, stable, known, children>>
  BY DEF world
<1>2. Family' /\ Watched'
  BY <1>1 DEF TreeInv, Family, Watched, ChildrenOf
<1>3. Updating'
  BY DEF Updating
<1>4. QED
  BY <1>2, <1>3 DEF TreeInv

\* The update begins at the root; the descendants are those that there are.
LEMMA TestRunningKeepsTree ==
  ASSUME IInv, TreeInv, TestRunning, pc' = "orphans"
  PROVE  TreeInv'
<1>1. /\ agenda' = <<Root>> /\ stable' = Descendants /\ known' = Descendants
      /\ UNCHANGED <<status, ppid, children>>
  BY DEF TestRunning, tree
<1>2. Family'
  BY <1>1 DEF TreeInv, Family
<1>3. IsUnder(Descendants, Offspring)
  BY DescendantsFacts DEF IInv, TreeInv
<1>4. \A p \in Descendants : p \in Pids /\ Offspring[p] = ChildrenOf(p)
  BY <1>3 DEF IsUnder, Offspring
<1>5. \A p : ChildrenOf(p)' = ChildrenOf(p)
  BY <1>1 DEF ChildrenOf
<1>6. ASSUME NEW x \in Descendants, x # Root
      PROVE  ppid[x] \in Descendants /\ x \in ChildrenOf(ppid[x])
  <2>1. PICK p \in Descendants : x \in Offspring[p]
    BY <1>3, <1>6, ParentUnder
  <2>2. x \in ChildrenOf(p)
    BY <1>4, <2>1
  <2>3. ppid[x] = p
    BY <2>2 DEF ChildrenOf
  <2>4. QED
    BY <2>1, <2>2, <2>3
<1>7. Watched'
  <2>1. \A p \in Descendants : ChildrenOf(p) \subseteq Descendants
    BY <1>3, <1>4 DEF IsUnder, Closed
  <2>2. \A x \in Descendants : ppid[x] = ppid'[x]
    BY <1>1
  <2>3. QED
    BY <1>1, <1>3, <1>5, <1>6, <2>1, <2>2 DEF Watched, IsUnder
<1>8. UpToDate({})'
  <2>1. Range(<<Root>>) = {Root}
    BY DEF Range
  <2>2. Root \in Descendants
    BY <1>3 DEF IsUnder, Closed
  <2>3. QED
    BY <1>1, <2>1, <2>2 DEF UpToDate
<1>9. Updating'
  <2>1. pc' # "children"
    OBVIOUS
  <2>2. (\E done \in SUBSET Pids : UpToDate(done))'
    BY <1>8
  <2>3. QED
    BY <2>1, <2>2 DEF Updating
<1>10. QED
  BY <1>2, <1>7, <1>9 DEF TreeInv

\* The nodes that are removed have no processes that have been descendants all
\* the while.
LEMMA RemoveOrphansKeepsTree ==
  ASSUME IInv, TreeInv, RemoveOrphans
  PROVE  TreeInv'
<1> DEFINE p == Head(agenda)
<1>1. /\ pc = "orphans" /\ pc' = "children"
      /\ children' = [children EXCEPT ![p] = children[p] \cap ChildrenOf(p)]
      /\ UNCHANGED <<status, ppid, stable, known, agenda>>
  BY DEF RemoveOrphans, StillChildren, world
<1>2. agenda \in Seq(Pids) /\ agenda # <<>> /\ children \in [Pids -> SUBSET Pids]
  BY <1>1 DEF IInv, TypeOK, Agenda, Sampling
<1>3. p \in Pids /\ p \in Range(agenda)
  <2>1. Head(agenda) \in Pids /\ Head(agenda) = agenda[1] /\ 1 \in 1 .. Len(agenda)
    BY <1>2, HeadIsFirst
  <2>2. DOMAIN agenda = 1 .. Len(agenda)
    BY <1>2
  <2>3. QED
    BY <2>1, <2>2 DEF Range
<1> HIDE DEF p
<1>4. Family /\ Watched /\ Updating
  BY DEF TreeInv
<1>5. ASSUME NEW q \in Pids
      PROVE  /\ children'[q] \subseteq children[q]
             /\ q # p => children'[q] = children[q]
             /\ children'[p] = children[p] \cap ChildrenOf(p)
  BY <1>1, <1>2, <1>3
<1>6. Family' /\ Watched'
  <2>1. Family'
    BY <1>1, <1>4, <1>5 DEF Family
  <2>2. QED
    BY <1>1, <1>4, <2>1 DEF Watched, ChildrenOf
<1>7. PICK done \in SUBSET Pids : UpToDate(done)
  BY <1>1, <1>4 DEF Updating
<1>8. ASSUME NEW x \in stable, x # Root, ppid[x] \in done
      PROVE  x \in children'[ppid[x]]
  <2>1. x \in children[ppid[x]]
    BY <1>7, <1>8 DEF UpToDate
  <2>2. x \in ChildrenOf(ppid[x])
    BY <1>4, <1>8 DEF Watched
  <2>3. QED
    BY <1>5, <1>8, <2>1, <2>2
<1>9. UpToDate(done)'
  <2>1. \A q \in done : children'[q] \subseteq done \cup Range(agenda)
    BY <1>5, <1>7 DEF UpToDate
  <2>2. Root \in done \cup Range(agenda) /\ done \cup Range(agenda) \subseteq known
    BY <1>7 DEF UpToDate
  <2>3. QED
    BY <1>1, <1>8, <2>1, <2>2 DEF UpToDate
<1>10. children'[p] \subseteq known
  <2>1. p \in known
    BY <1>3, <1>7 DEF UpToDate
  <2>2. QED
    BY <1>4, <1>5, <1>3, <2>1 DEF Watched
<1>11. Updating'
  <2>1. (\E d \in SUBSET Pids : UpToDate(d))'
    BY <1>9
  <2>2. children'[Head(agenda')] \subseteq known'
    BY <1>1, <1>10 DEF p
  <2>3. QED
    BY <2>1, <2>2 DEF Updating
<1>12. QED
  BY <1>6, <1>11 DEF TreeInv

\* When the nodes under a node are those that are listed, it is done.
LEMMA NodeDone ==
  ASSUME IInv, TreeInv, AddChildren
  PROVE  /\ Family' /\ Watched'
         /\ \E left \in Seq(Pids), done \in SUBSET Pids :
              /\ agenda' = (IF left = <<>> THEN <<Root>> ELSE left)
              /\ pc' = (IF left = <<>> THEN AfterUpdate ELSE "orphans")
              /\ Root \in done \cup Range(left) /\ done \cup Range(left) \subseteq known
              /\ \A q \in done : children'[q] \subseteq done \cup Range(left)
              /\ \A x \in stable : x # Root /\ ppid[x] \in done => x \in children'[ppid[x]]
<1> DEFINE p == Head(agenda)
           nodes == ByPid(children'[p])
           left == nodes \o Tail(agenda)
<1>1. /\ pc = "children"
      /\ children' = [children EXCEPT ![p] = children[p] \cup ChildrenOf(p)]
      /\ agenda' = (IF left = <<>> THEN <<Root>> ELSE left)
      /\ pc' = (IF left = <<>> THEN AfterUpdate ELSE "orphans")
      /\ UNCHANGED <<status, ppid, stable, known>>
  BY DEF AddChildren, Listed, world
<1>2. agenda \in Seq(Pids) /\ agenda # <<>> /\ children \in [Pids -> SUBSET Pids]
  BY <1>1 DEF IInv, TypeOK, Agenda, Sampling
<1>3. /\ p \in Pids /\ p = agenda[1]
      /\ Tail(agenda) \in Seq(Pids) /\ Len(agenda) \in Nat \ {0}
      /\ Len(Tail(agenda)) = Len(agenda) - 1
      /\ \A i \in 1 .. Len(Tail(agenda)) : Tail(agenda)[i] = agenda[i + 1]
      /\ DOMAIN agenda = 1 .. Len(agenda)
  BY <1>2, HeadTailProperties, LenProperties
<1>4. Family /\ Watched /\ Updating
  BY DEF TreeInv
<1>5. PICK before \in SUBSET Pids : UpToDate(before)
  BY <1>1, <1>4 DEF Updating
<1> DEFINE done == before \cup {p}
           rest == Tail(agenda)
<1>6. /\ children'[p] = children[p] \cup ChildrenOf(p)
      /\ \A q \in Pids : q # p => children'[q] = children[q]
      /\ children'[p] \in SUBSET Pids
  BY <1>1, <1>2, <1>3 DEF ChildrenOf
<1>7. Range(agenda) = {p} \cup Range(rest)
  <2>1. DOMAIN rest = 1 .. Len(rest) /\ Len(rest) \in Nat /\ Len(agenda) = Len(rest) + 1
    BY <1>3
  <2> HIDE DEF rest
  <2>2. \A i \in 1 .. Len(rest) : rest[i] = agenda[i + 1]
    BY <1>3 DEF rest
  <2> HIDE DEF p
  <2>3. ASSUME NEW x \in Range(agenda)
        PROVE  x = p \/ x \in Range(rest)
    <3>1. PICK i \in 1 .. Len(agenda) : x = agenda[i]
      BY <1>3 DEF Range
    <3>2. CASE i = 1
      BY <1>3, <3>1, <3>2
    <3>3. CASE i # 1
      <4>1. i - 1 \in 1 .. Len(rest) /\ (i - 1) + 1 = i
        BY <2>1, <3>3
      <4>2. rest[i - 1] = x
        BY <2>2, <3>1, <4>1
      <4>3. QED
        BY <2>1, <4>1, <4>2 DEF Range
    <3>4. QED
      BY <3>2, <3>3
  <2>4. ASSUME NEW x \in Range(rest)
        PROVE  x \in Range(agenda)
    <3>1. PICK i \in 1 .. Len(rest) : x = rest[i]
      BY <2>1 DEF Range
    <3>2. i + 1 \in 1 .. Len(agenda) /\ x = agenda[i + 1]
      BY <2>1, <2>2, <3>1
    <3>3. QED
      BY <1>3, <3>2 DEF Range
  <2>5. p \in Range(agenda)
    BY <1>3 DEF Range
  <2>6. QED
    BY <2>3, <2>4, <2>5
<1> HIDE DEF p, rest
<1>8. /\ nodes \in Seq(Pids)
      /\ \A c \in children'[p] : c \in Range(nodes)
      /\ Range(nodes) \subseteq children'[p]
  <2>1. /\ nodes \in Seq(Pids)
        /\ \A c \in children'[p] : \E i \in 1 .. Len(nodes) : nodes[i] = c
    <3> DEFINE S == children'[p]
    <3>1. S \in SUBSET Pids
      BY <1>6
    <3> HIDE DEF S
    <3>2. /\ ByPid(S) \in Seq(Pids)
          /\ \A c \in S : \E i \in 1 .. Len(ByPid(S)) : ByPid(S)[i] = c
      BY <3>1, ByPidFacts
    <3>3. QED
      BY <3>2 DEF S
  <2>2. nodes \in Seq(children'[p])
    BY <1>6, ByPidFacts
  <2> HIDE DEF nodes
  <2>3. QED
    BY <2>1, <2>2 DEF Range
<1> HIDE DEF nodes
<1>9. left \in Seq(Pids) /\ Range(left) = Range(nodes) \cup Range(rest)
  <2>1. left = nodes \o rest /\ rest \in Seq(Pids) /\ nodes \in Seq(Pids)
    BY <1>3, <1>8 DEF rest
  <2> HIDE DEF left, rest
  <2>2. QED
    BY <2>1, RangeOfBoth
<1> HIDE DEF left
<1>10. Range(left) = children'[p] \cup Range(rest)
  BY <1>8, <1>9
<1>11. children[p] \subseteq known /\ p \in known /\ ChildrenOf(p) \subseteq known
  <2>1. children[p] \subseteq known
    BY <1>1, <1>4 DEF Updating, p
  <2>2. p \in known
    BY <1>5, <1>7 DEF UpToDate
  <2>3. QED
    BY <1>4, <2>1, <2>2 DEF Watched
<1>12. Family'
  <2>1. \A c \in ChildrenOf(p) : p < c
    BY <1>4 DEF Family, ChildrenOf
  <2>2. \A q \in Pids : \A c \in children'[q] : q < c
    BY <1>4, <1>6, <2>1 DEF Family
  <2>3. QED
    BY <1>1, <1>4, <2>2 DEF Family
<1>13. Watched'
  BY <1>1, <1>4 DEF Watched, ChildrenOf
<1>14. /\ done \in SUBSET Pids
       /\ Root \in done \cup Range(left) /\ done \cup Range(left) \subseteq known
       /\ \A q \in done : children'[q] \subseteq done \cup Range(left)
  <2>1. \A q \in before : children[q] \subseteq done \cup Range(rest)
    BY <1>5, <1>7 DEF UpToDate
  <2>2. \A q \in before : q # p => children'[q] = children[q]
    BY <1>6
  <2>3. before \cup Range(rest) \subseteq known
    BY <1>5, <1>7 DEF UpToDate
  <2>4. Root \in done \cup Range(rest)
    BY <1>5, <1>7 DEF UpToDate
  <2>5. \A q \in done : children'[q] \subseteq done \cup Range(left)
    BY <1>10, <2>1, <2>2
  <2>6. done \cup Range(left) \subseteq known
    BY <1>6, <1>10, <1>11, <2>3
  <2>7. QED
    BY <1>3, <1>10, <2>4, <2>5, <2>6
<1>15. ASSUME NEW x \in stable, x # Root, ppid[x] \in done
       PROVE  x \in children'[ppid[x]]
  <2>1. CASE ppid[x] = p
    BY <1>4, <1>6, <1>15, <2>1 DEF Watched
  <2>2. CASE ppid[x] # p
    <3>1. x \in children[ppid[x]]
      BY <1>5, <1>15, <2>2 DEF UpToDate
    <3>2. QED
      BY <1>6, <1>15, <2>2, <3>1
  <2>3. QED
    BY <2>1, <2>2
<1>16. QED
  BY <1>1, <1>9, <1>12, <1>13, <1>14, <1>15

LEMMA AddChildrenKeepsTree ==
  ASSUME IInv, TreeInv, AddChildren
  PROVE  TreeInv'
<1>1. Family' /\ Watched'
  BY NodeDone
<1>2. PICK left \in Seq(Pids), done \in SUBSET Pids :
        /\ agenda' = (IF left = <<>> THEN <<Root>> ELSE left)
        /\ pc' = (IF left = <<>> THEN AfterUpdate ELSE "orphans")
        /\ Root \in done \cup Range(left) /\ done \cup Range(left) \subseteq known
        /\ \A q \in done : children'[q] \subseteq done \cup Range(left)
        /\ \A x \in stable : x # Root /\ ppid[x] \in done => x \in children'[ppid[x]]
  BY NodeDone
<1>3. UNCHANGED <<ppid, stable, known>>
  BY DEF AddChildren, world
<1>4. CASE left = <<>>
  <2>1. pc' \notin {"orphans", "children"}
    BY <1>2, <1>4 DEF AfterUpdate
  <2>2. QED
    BY <1>1, <2>1 DEF TreeInv, Updating
<1>5. CASE left # <<>>
  <2>1. agenda' = left /\ pc' = "orphans"
    BY <1>2, <1>5
  <2>2. UpToDate(done)'
    BY <1>2, <1>3, <2>1 DEF UpToDate
  <2>3. (\E d \in SUBSET Pids : UpToDate(d))'
    BY <2>2
  <2>4. Updating'
    BY <2>1, <2>3 DEF Updating
  <2>5. QED
    BY <1>1, <2>4 DEF TreeInv
<1>6. QED
  BY <1>4, <1>5

-----------------------------------------------------------------------------
(* The tree is current when the update ends.                               *)

LEMMA CurrentAtTheEnd ==
  ASSUME IInv, TreeInv, TypeOK', AddChildren, pc' \in {"load", "prefix"}
  PROVE  stable \subseteq InTree' /\ InTree' \subseteq known
<1>1. Family' /\ Watched
  BY NodeDone DEF TreeInv
<1>2. PICK left \in Seq(Pids), done \in SUBSET Pids :
        /\ agenda' = (IF left = <<>> THEN <<Root>> ELSE left)
        /\ pc' = (IF left = <<>> THEN AfterUpdate ELSE "orphans")
        /\ Root \in done \cup Range(left) /\ done \cup Range(left) \subseteq known
        /\ \A q \in done : children'[q] \subseteq done \cup Range(left)
        /\ \A x \in stable : x # Root /\ ppid[x] \in done => x \in children'[ppid[x]]
  BY NodeDone
<1>3. left = <<>>
  BY <1>2
<1>4. Range(left) = {}
  <2>1. Len(left) = 0 /\ DOMAIN left = 1 .. Len(left)
    BY <1>3
  <2>2. DOMAIN left = {}
    BY <2>1
  <2>3. QED
    BY <2>2 DEF Range
<1>5. IsUnder(InTree', children')
  <2>1. TypeOK' /\ Family' => IsUnder(InTree, children)'
    BY InTreeFacts, PTL
  <2>2. IsUnder(InTree, children)' => IsUnder(InTree', children')
    BY DEF IsUnder, Closed
  <2>3. QED
    BY <1>1, <2>1, <2>2
<1>6. Closed(done, children')
  BY <1>2, <1>4 DEF Closed
<1>7. InTree' \subseteq done
  BY <1>5, <1>6 DEF IsUnder
<1>8. InTree' \subseteq known
  BY <1>2, <1>7
\* The parent of the youngest that has no node has one, and it is under it.
<1>9. ASSUME stable \ InTree' # {}
      PROVE  FALSE
  <2> DEFINE Missing == stable \ InTree'
  <2>1. Missing \in SUBSET Nat
    BY <1>1, PidsFacts DEF Watched
  <2>2. PICK x \in Missing : \A y \in Missing : x <= y
    <3> HIDE DEF Missing
    <3>1. Missing # {}
      BY <1>9 DEF Missing
    <3>2. QED
      BY <2>1, <3>1, SmallestNumber
  <2>3. x # Root
    BY <1>5, <2>2 DEF IsUnder, Closed
  <2>4. x \in Pids /\ ppid[x] \in stable /\ ppid[x] \in Pids /\ ppid[x] < x
    BY <1>1, <2>2, <2>3 DEF Watched, TreeInv, Family
  <2>5. ppid[x] \in InTree'
    <3>1. ppid[x] \notin Missing
      <4>1. ppid[x] \in Nat /\ x \in Nat
        BY <2>4, PidsFacts
      <4>2. ~ (x <= ppid[x])
        BY <2>4, <4>1
      <4>3. QED
        BY <2>2, <4>2
    <3>2. QED
      BY <2>4, <3>1
  <2>6. x \in children'[ppid[x]]
    BY <1>2, <1>7, <2>2, <2>3, <2>5
  <2>7. x \in InTree'
    BY <1>5, <2>5, <2>6 DEF IsUnder, Closed
  <2>8. QED
    BY <2>2, <2>7
<1>10. QED
  BY <1>8, <1>9

LEMMA InitEstablishesTree == Init => TreeInv
<1> SUFFICES ASSUME Init PROVE TreeInv
  OBVIOUS
<1>1. \A p \in Pids : p \in Nat /\ Root <= p /\ Outside < p /\ Outside \notin Pids
  BY ProcessTreeAssumption DEF Pids, Outside
<1>2. Family
  <2>1. /\ status = [p \in Pids |-> IF p = Root THEN "running" ELSE "new"]
        /\ ppid = [p \in Pids |-> Outside] /\ children = [p \in Pids |-> {}]
    BY DEF Init
  <2>2. ASSUME NEW a \in Pids, NEW b \in Pids, a < b
        PROVE  status[b] = "new"
    <3>1. b # Root
      BY <1>1, <2>2, PidsFacts
    <3>2. QED
      BY <2>1, <3>1
  <2>3. QED
    BY <1>1, <2>1, <2>2 DEF Family
<1>3. Watched
  BY DEF Init, Watched
<1>4. Updating
  BY DEF Init, Updating
<1>5. QED
  BY <1>2, <1>3, <1>4 DEF TreeInv

LEMMA NextKeepsTree == IInv /\ TreeInv /\ IInv' /\ [Next]_vars => TreeInv'
<1> SUFFICES ASSUME IInv, TreeInv, IInv', [Next]_vars PROVE TreeInv'
  OBVIOUS
<1>1. CASE TestRunning
  <2>1. CASE pc' = "orphans"
    BY <1>1, <2>1, TestRunningKeepsTree
  <2>2. CASE pc' # "orphans"
    <3>1. pc' = "close" /\ UNCHANGED <<world, children>>
      BY <1>1, <2>2 DEF TestRunning, tree, world
    <3>2. QED
      BY <3>1, StaysTree
  <2>3. QED
    BY <2>1, <2>2
<1>2. CASE RemoveOrphans
  BY <1>2, RemoveOrphansKeepsTree
<1>3. CASE AddChildren
  BY <1>3, AddChildrenKeepsTree
<1>4. CASE Close \/ KeyboardInterrupt \/ AddChildrenRaises
  <2>1. pc' \in {"close", "closed", "crashed"} /\ UNCHANGED <<world, children>>
    BY <1>4 DEF Close, KeyboardInterrupt, AddChildrenRaises, Crash, tree
  <2>2. QED
    BY <2>1, StaysTree
<1>5. CASE LoadPrevious \/ WritePrefix \/ WriteColumn \/ EndLine
            \/ WriteComma \/ WriteRecord
  <2>1. UNCHANGED <<world, children>>
    BY <1>5 DEF LoadPrevious, WritePrefix, WriteColumn, EndLine, WriteComma,
                WriteRecord, tree
  <2>2. ASSUME NEW nodes, NEW step \in {"load", "prefix"}, Visit(nodes, step)
        PROVE  pc' \in {"test", "load", "prefix"}
    BY <2>2 DEF Visit, NextSample
  <2>3. pc' \in {"test", "load", "prefix", "column", "newline", "json", "record",
                  "crashed"}
    <3>1. CASE LoadPrevious
      BY <2>2, <3>1 DEF LoadPrevious, Crash
    <3>2. CASE WritePrefix
      BY <2>2, <3>2 DEF WritePrefix
    <3>3. CASE WriteColumn
      BY <2>2, <3>3 DEF WriteColumn
    <3>4. CASE EndLine
      BY <2>2, <3>4 DEF EndLine
    <3>5. CASE WriteComma
      BY <3>5 DEF WriteComma, Crash
    <3>6. CASE WriteRecord
      BY <2>2, <3>6 DEF WriteRecord
    <3>7. QED
      BY <1>5, <3>1, <3>2, <3>3, <3>4, <3>5, <3>6
  <2>4. QED
    BY <2>1, <2>3, StaysTree
<1>6. ASSUME NEW p \in Pids, Spawn(p) \/ End(p) \/ WaitedFor(p) \/ ValueChanges(p)
      PROVE  TreeInv'
  <2>1. CASE ValueChanges(p)
    <3>1. /\ UNCHANGED <<status, ppid, stable, known>> /\ Logging
      BY <2>1 DEF ValueChanges
    <3>2. QED
      BY <3>1, SameWorld
  <2>2. TypeOK'
    BY DEF IInv
  <2>3. QED
    BY <1>6, <2>1, <2>2, SpawnKeepsTree, EndKeepsTree, WaitedForKeepsTree
<1>7. CASE UNCHANGED vars
  <2>1. UNCHANGED <<status, ppid, stable, known>> /\ Logging
    BY <1>7 DEF vars, world, Logging
  <2>2. QED
    BY <2>1, SameWorld
<1>8. QED
  BY <1>1, <1>2, <1>3, <1>4, <1>5, <1>6, <1>7 DEF Next, LogStep

\* The processes have been spawned in their order, and while update_children
\* runs, what is done of the tree has all that has been there all the while and
\* nothing that was not there.
THEOREM TreeHasInvariant == Spec => []TreeInv
<1>1. Init => TreeInv
  BY InitEstablishesTree
<1>2. IInv /\ TreeInv /\ IInv' /\ [Next]_vars => TreeInv'
  BY NextKeepsTree
<1>3. QED
  BY <1>1, <1>2, SpecHasInvariant, PTL DEF Spec

LEMMA UpdateIsCurrent ==
  IInv /\ TreeInv /\ IInv' /\ [Next]_vars =>
    [pc = "children" /\ pc' \in {"load", "prefix"}
       => stable \subseteq InTree' /\ InTree' \subseteq known]_vars
<1> SUFFICES ASSUME IInv, TreeInv, IInv', [Next]_vars,
                    pc = "children", pc' \in {"load", "prefix"}
             PROVE  stable \subseteq InTree' /\ InTree' \subseteq known
  OBVIOUS
<1>1. AddChildren
  <2>1. pc' # pc
    OBVIOUS
  <2>2. ~ UNCHANGED vars
    BY <2>1 DEF vars
  <2>3. ~ TestRunning /\ ~ RemoveOrphans
    BY DEF TestRunning, RemoveOrphans
  <2>4. ~ Close /\ ~ KeyboardInterrupt /\ ~ AddChildrenRaises
    BY DEF Close, KeyboardInterrupt, AddChildrenRaises, Crash
  <2>5. ~ LoadPrevious /\ ~ WritePrefix /\ ~ WriteColumn /\ ~ EndLine
        /\ ~ WriteComma /\ ~ WriteRecord
    BY DEF LoadPrevious, WritePrefix, WriteColumn, EndLine, WriteComma, WriteRecord
  <2>6. ASSUME NEW p \in Pids
        PROVE  ~ (Spawn(p) \/ End(p) \/ WaitedFor(p) \/ ValueChanges(p))
    BY <2>1 DEF Spawn, End, WaitedFor, ValueChanges, Logging
  <2>7. QED
    BY <2>2, <2>3, <2>4, <2>5, <2>6 DEF Next, LogStep
<1>2. TypeOK'
  BY DEF IInv
<1>3. QED
  BY <1>1, <1>2, CurrentAtTheEnd

\* update_children ends with the tree that is there, however many processes come
\* and go while it runs: it has all that have been descendants all the while, and
\* none that was not there when it began or came since from one that was.
THEOREM TreeStaysCurrent == Spec => TreeIsCurrent
<1>1. IInv /\ TreeInv /\ IInv' /\ [Next]_vars =>
        [pc = "children" /\ pc' \in {"load", "prefix"}
           => stable \subseteq InTree' /\ InTree' \subseteq known]_vars
  BY UpdateIsCurrent
<1>2. QED
  BY <1>1, SpecHasInvariant, TreeHasInvariant, PTL DEF Spec, TreeIsCurrent

=============================================================================
