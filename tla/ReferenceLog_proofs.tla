------------------------- MODULE ReferenceLog_proofs -------------------------
(***************************************************************************)
(* For any number of tracers, objects, types and filters: what the log     *)
(* files of reference tracing hold when tracers are nested, suspended and  *)
(* fail, and what the analysis of them finds.                              *)
(*                                                                         *)
(* The proofs do not depend on which types a filter lets through: only on  *)
(* an event being written by the tracer that is called, to the log on top. *)
(***************************************************************************)
EXTENDS ReferenceLog, FiniteSetTheorems, SequenceTheorems,
        WellFoundedInduction, TLAPS

Kinds == {"NEW", "DEL"}

-----------------------------------------------------------------------------
(* The inductive invariant: names and the stack.                           *)

\* A name is made up once, for one tracer.
Names ==
  /\ file_number <= blocks
  /\ \A x \in Tracers : path[x] \in MadeUp => path[x][1] < file_number
  /\ \A x, y \in Tracers : path[x] = path[y] /\ path[x] \in MadeUp => x = y

\* A stacked tracer has a log that no other stacked tracer has, and is stacked
\* once; only the one on top is called.
Stacking ==
  /\ Len(stack) <= blocks
  /\ \A i \in 1 .. Len(stack) : path[stack[i]] # None
  /\ \A i, j \in 1 .. Len(stack) : stack[i] = stack[j] => i = j
  /\ \A i, j \in 1 .. Len(stack) : path[stack[i]] = path[stack[j]] => i = j
  /\ calling \in {None, Stacks!Top(stack)}
  /\ stack # <<>> => session.file = path[stack[1]]

\* What the logs of the stacked tracers say of the next: whether or not a reader
\* gets that far.
NestingWritten ==
  \A i \in 1 .. Len(stack) - 1 :
    LET own == logs[path[stack[i]]]
    IN  \E k \in DOMAIN own :
          /\ own[k] = Detached(path[stack[i + 1]])
          /\ \A j \in k + 1 .. Len(own) : own[j].kind = "MSG"

-----------------------------------------------------------------------------
(* Counts.                                                                 *)

\* The number of lines of a log that are in K.
Number(log, K) == Cardinality({i \in DOMAIN log : log[i] \in K})

OfKind(kind) == {line \in Lines : line.kind = kind}
OfType(kind, ty) == {line \in OfKind(kind) : line.type = ty}

Value(entry) == IF entry = None THEN 0 ELSE entry

TotalIn(counts, x) == counts[x].NEW + counts[x].DEL
Total(x) == TotalIn(count, x)

\* The events that are counted and not in the log.
Unwritten(own, total) == total - (Number(own, OfKind("NEW")) + Number(own, OfKind("DEL")))

\* If they are lines that are not finished, the table is right.
Matches(own, total, table) ==
  /\ Unwritten(own, total) >= Number(own, OfKind("half"))
  /\ Unwritten(own, total) = Number(own, OfKind("half")) =>
       \A ty \in Types :
         Value(table[ty]) = Number(own, OfType("NEW", ty)) - Number(own, OfType("DEL", ty))

\* No count of a type is further from 0 than there were events.
Bounded ==
  \A x \in Tracers :
    /\ Total(x) <= events
    /\ \A ty \in Types : -Total(x) <= Value(types_live_count[x][ty])
                         /\ Value(types_live_count[x][ty]) <= Total(x)

Tables ==
  \A i \in 1 .. Len(stack) :
    Matches(logs[path[stack[i]]], Total(stack[i]), types_live_count[stack[i]])

-----------------------------------------------------------------------------
(* The tree of the logs of a session.                                      *)

Depth == Cardinality(Tracers)

\* One log per tracer: level 1 is the outermost, and a log leads to those a
\* level below it; each but the outermost is led to.  Level 0 is not in the tree.
IsTree(level, l, names, file) ==
  /\ \A x \in Tracers : level[x] > 0 => names[x] \in FileNames
  /\ \A x, y \in Tracers : level[x] > 0 /\ level[y] > 0 /\ names[x] = names[y] => x = y
  /\ \E x \in Tracers : level[x] = 1
  /\ \A x \in Tracers : level[x] = 1 => names[x] = file
  /\ \A x \in Tracers : level[x] > 0 =>
       \A i \in 1 .. Len(l[names[x]]) :
         l[names[x]][i].kind = "detach" =>
           \E y \in Tracers : names[y] = l[names[x]][i].file /\ level[y] = level[x] + 1
  /\ \A y \in Tracers : level[y] > 1 =>
       \E x \in Tracers :
         /\ level[x] = level[y] - 1
         /\ \E i \in 1 .. Len(l[names[x]]) : l[names[x]][i] = Detached(names[y])

Levels(level) ==
  /\ \A i \in 1 .. Len(stack) : level[stack[i]] = i
  /\ IsTree(level, logs, path, session.file)

Intact == session.file # None /\ ~ session.rewritten

Tree == Intact => \E level \in [Tracers -> 0 .. Depth] : Levels(level)

-----------------------------------------------------------------------------
(* What a sequence of lines says last of an address.                       *)

About(line, a) == line.kind \in Kinds /\ line.address = a
Tells(line, a, kind, ty) == About(line, a) /\ line.kind = kind /\ line.type = ty

\* Of the first n lines.
SilentUpTo(s, n, a) == \A i \in 1 .. n : ~ About(s[i], a)
SaysUpTo(s, n, a, kind, ty) ==
  \E i \in 1 .. n : Tells(s[i], a, kind, ty) /\ \A j \in i + 1 .. n : ~ About(s[j], a)

Silent(s, a) == SilentUpTo(s, Len(s), a)
LastSays(s, a, kind, ty) == SaysUpTo(s, Len(s), a, kind, ty)

\* The lines of a session in the order they are read.
ReadFrom(l, file) == Reader!ReadingOrder(l, Depth, file)

\* They say of each address what the session does.
IsTold(trace, at, seen, unseen) ==
  \A a \in Addresses :
    /\ a \in seen => at[a] \in Types /\ LastSays(trace, a, "NEW", at[a])
    /\ a \in unseen => \E ty \in Types : LastSays(trace, a, "NEW", ty)
    /\ a \notin seen \cup unseen => \A ty \in Types : ~ LastSays(trace, a, "NEW", ty)

Told ==
  Intact /\ Reader!CanBeRead(logs, Depth, session.file) =>
    IsTold(ReadFrom(logs, session.file), heap, session.seen, session.unseen)

-----------------------------------------------------------------------------
IInv ==
  /\ TypeOK
  /\ Names
  /\ Stacking
  /\ Bounded
  /\ Tables
  /\ NestingWritten
  /\ Tree
  /\ Told

\* What the steps of the tracers rest on.
Base == TypeOK /\ Names /\ Stacking /\ Bounded

-----------------------------------------------------------------------------
(* Lines.                                                                  *)

LEMMA LineFacts ==
  /\ Line("MSG") \in Lines /\ Line("MSG").kind = "MSG"
  /\ Line("half") \in Lines /\ Line("half").kind = "half"
  /\ \A p \in FileNames : /\ Detached(p) \in Lines
                          /\ Detached(p).kind = "detach" /\ Detached(p).file = p
  /\ \A k \in Kinds, a \in Addresses, ty \in Types, n \in -MaxEvents .. MaxEvents :
       /\ EventLine(k, a, ty, n) \in Lines
       /\ EventLine(k, a, ty, n).kind = k
       /\ EventLine(k, a, ty, n).address = a
       /\ EventLine(k, a, ty, n).type = ty
  /\ \A line \in Lines :
       /\ line.kind \in {"MSG", "half", "detach", "NEW", "DEL"}
       /\ line.kind = "MSG" => line = Line("MSG")
       /\ line.kind = "half" => line = Line("half")
       /\ line.kind = "detach" => line.file \in FileNames /\ line = Detached(line.file)
       /\ line.kind \in Kinds => line.address \in Addresses /\ line.type \in Types
<1>1. /\ \A k : Line(k).kind = k
      /\ \A p : Detached(p).kind = "detach" /\ Detached(p).file = p
      /\ \A k, a, ty, n : /\ EventLine(k, a, ty, n).kind = k
                          /\ EventLine(k, a, ty, n).address = a
                          /\ EventLine(k, a, ty, n).type = ty
  BY DEF Line, Detached, EventLine
<1>2. /\ \A k \in {"MSG", "half"} : Line(k) \in Lines
      /\ \A p \in FileNames : Detached(p) \in Lines
      /\ \A k \in Kinds, a \in Addresses, ty \in Types, n \in -MaxEvents .. MaxEvents :
           EventLine(k, a, ty, n) \in Lines
  BY DEF Lines, Kinds
<1>3. ASSUME NEW line \in Lines
      PROVE  \/ \E k \in {"MSG", "half"} : line = Line(k)
             \/ \E p \in FileNames : line = Detached(p)
             \/ \E k \in Kinds, a \in Addresses, ty \in Types, n \in -MaxEvents .. MaxEvents :
                  line = EventLine(k, a, ty, n)
  BY DEF Lines, Kinds
<1>4. ASSUME NEW line \in Lines
      PROVE  /\ line.kind \in {"MSG", "half", "detach", "NEW", "DEL"}
             /\ line.kind = "MSG" => line = Line("MSG")
             /\ line.kind = "half" => line = Line("half")
             /\ line.kind = "detach" => line.file \in FileNames /\ line = Detached(line.file)
             /\ line.kind \in Kinds => line.address \in Addresses /\ line.type \in Types
  <2>1. CASE \E k \in {"MSG", "half"} : line = Line(k)
    BY <1>1, <2>1 DEF Kinds
  <2>2. CASE \E p \in FileNames : line = Detached(p)
    BY <1>1, <2>2 DEF Kinds
  <2>3. CASE \E k \in Kinds, a \in Addresses, ty \in Types, n \in -MaxEvents .. MaxEvents :
               line = EventLine(k, a, ty, n)
    <3>1. PICK k \in Kinds, a \in Addresses, ty \in Types, n \in -MaxEvents .. MaxEvents :
                 line = EventLine(k, a, ty, n)
      BY <2>3
    <3>2. line.kind = k /\ line.address = a /\ line.type = ty
      BY <1>1, <3>1
    <3>3. QED
      BY <3>2 DEF Kinds
  <2>4. QED
    BY <1>3, <2>1, <2>2, <2>3
<1>5. QED
  BY <1>1, <1>2, <1>4

\* t is s and lines of K after it.
Extends(s, t, K) ==
  /\ Len(t) >= Len(s)
  /\ \A i \in 1 .. Len(s) : t[i] = s[i]
  /\ \A i \in Len(s) + 1 .. Len(t) : t[i] \in K

LEMMA NothingAdded ==
  ASSUME NEW s \in Seq(Lines), NEW K
  PROVE  Extends(s, s, K)
BY DEF Extends

LEMMA LineAdded ==
  ASSUME NEW s \in Seq(Lines), NEW line \in Lines
  PROVE  /\ Append(s, line) \in Seq(Lines)
         /\ Len(Append(s, line)) = Len(s) + 1
         /\ Append(s, line)[Len(s) + 1] = line
         /\ \A i \in 1 .. Len(s) : Append(s, line)[i] = s[i]
         /\ Extends(s, Append(s, line), {line})
<1>1. /\ Append(s, line) \in Seq(Lines)
      /\ Len(Append(s, line)) = Len(s) + 1
      /\ Append(s, line)[Len(s) + 1] = line
      /\ \A i \in 1 .. Len(s) : Append(s, line)[i] = s[i]
      /\ Len(s) \in Nat
  OBVIOUS
<1>2. QED
  <2> DEFINE t == Append(s, line)
             n == Len(s)
  <2>1. n \in Nat /\ Len(t) = n + 1 /\ t[n + 1] = line /\ \A i \in 1 .. n : t[i] = s[i]
    BY <1>1
  <2> HIDE DEF t, n
  <2>2. \A i \in n + 1 .. n + 1 : t[i] = line
    BY <2>1
  <2>3. Extends(s, t, {line})
    BY <2>1, <2>2 DEF Extends, n
  <2>4. QED
    BY <1>1, <2>3 DEF t

LEMMA TwoLinesAdded ==
  ASSUME NEW s \in Seq(Lines), NEW line \in Lines
  PROVE  /\ s \o <<line, line>> \in Seq(Lines)
         /\ Extends(s, s \o <<line, line>>, {line})
<1> DEFINE pair == <<line, line>>
           t == s \o pair
           n == Len(s)
<1>1. pair \in Seq(Lines) /\ Len(pair) = 2 /\ \A i \in 1 .. 2 : pair[i] = line
  OBVIOUS
<1>2. s \in Seq(Lines) /\ n \in Nat
  OBVIOUS
<1>3. t \in Seq(Lines)
  BY <1>1, <1>2, ConcatProperties
<1>4. Len(t) = n + 2
  BY <1>1, <1>2, ConcatProperties
<1>5. \A i \in 1 .. n + 2 : t[i] = IF i <= n THEN s[i] ELSE pair[i - n]
  BY <1>1, <1>2, <1>4, ConcatProperties
<1> HIDE DEF t, n, pair
<1>6. \A i \in 1 .. n : t[i] = s[i]
  BY <1>2, <1>5
<1>7. ASSUME NEW i \in n + 1 .. n + 2
      PROVE  t[i] = line
  <2>1. i \in 1 .. n + 2 /\ ~ (i <= n) /\ i - n \in 1 .. 2
    BY <1>2, <1>7
  <2>2. QED
    BY <1>1, <1>5, <2>1
<1>8. QED
  BY <1>2, <1>3, <1>4, <1>6, <1>7 DEF Extends, t, n, pair

-----------------------------------------------------------------------------
(* Names and the stack.                                                    *)

\* What happens to names when a with statement is executed: other tracers keep
\* theirs, and if one has the same, the user has given it; no log that is being
\* written has it.
LEMMA NameMadeUp ==
  ASSUME Base, NEW x \in Tracers, MayEnter(x)
  PROVE  /\ path' \in [Tracers -> FileNames \cup {None}]
         /\ path'[x] \in FileNames /\ path'[x] # None
         /\ \A y \in Tracers \ {x} : /\ path'[y] = path[y]
                                     /\ path'[y] = path'[x] => path'[x] \in Paths
         /\ \A i \in 1 .. Len(stack) : path[stack[i]] # path'[x]
         /\ path[x] # None => path' = path
         /\ file_number' = Cardinality({y \in Tracers : path'[y] \in MadeUp})
         /\ filter' \in [Tracers -> Filters \cup {None}]
         /\ Names'
         /\ blocks' = blocks + 1 /\ blocks' \in 0 .. MaxBlocks
<1>1. /\ path \in [Tracers -> FileNames \cup {None}]
      /\ stack \in Seq(Tracers) /\ blocks \in 0 .. MaxBlocks /\ Len(stack) <= blocks
      /\ file_number = Cardinality({y \in Tracers : path[y] \in MadeUp})
      /\ filter \in [Tracers -> Filters \cup {None}]
  BY DEF Base, TypeOK, Stacking
<1>2. Names
  BY DEF Base
<1>3. None \notin FileNames /\ Paths \cap MadeUp = {} /\ FileNames = MadeUp \cup Paths
  BY NamesAssumption DEF FileNames
<1>4. blocks < MaxBlocks /\ blocks' = blocks + 1 /\ MaxBlocks \in Nat
  BY BoundsAssumption DEF MayEnter
<1>5. blocks' \in 0 .. MaxBlocks /\ blocks \in Nat
  BY <1>1, <1>4
<1>6. filter' \in [Tracers -> Filters \cup {None}]
  BY <1>1 DEF MayEnter, Constructed
<1> DEFINE named == {y \in Tracers : path[y] \in MadeUp}
<1>7. IsFiniteSet(named) /\ Cardinality(named) = file_number /\ file_number \in Nat
  <2>1. IsFiniteSet(named)
    BY TracersAssumption, FS_Subset
  <2>2. QED
    BY <1>1, <2>1, FS_CardinalityType
<1>8. \A i \in 1 .. Len(stack) : path[stack[i]] # path'[x]
  BY DEF MayEnter, NotInUse
<1>9. CASE path[x] # None
  <2>1. path' = path /\ file_number' = file_number
    BY <1>9 DEF MayEnter, LogFileName
  <2>2. path'[x] \in FileNames
    BY <1>1, <1>9, <2>1
  <2>3. ASSUME NEW y \in Tracers \ {x}
        PROVE  path'[y] = path[y] /\ (path'[y] = path'[x] => path'[x] \in Paths)
    BY <1>2, <1>3, <2>1, <2>2 DEF Names
  <2>4. Names'
    <3>1. file_number' <= blocks'
      BY <1>2, <1>4, <1>5, <1>7, <2>1 DEF Names
    <3>2. QED
      BY <1>2, <2>1, <3>1 DEF Names
  <2>5. QED
    BY <1>1, <1>3, <1>4, <1>5, <1>6, <1>8, <2>1, <2>2, <2>3, <2>4
<1>10. CASE path[x] = None /\ \E p \in Paths : path' = [path EXCEPT ![x] = p] /\ file_number' = file_number
  <2>1. PICK p \in Paths : path' = [path EXCEPT ![x] = p] /\ file_number' = file_number
    BY <1>10
  <2>2. p \in FileNames /\ p \notin MadeUp /\ None \notin MadeUp
    BY <1>3
  <2>3. path' \in [Tracers -> FileNames \cup {None}] /\ path'[x] = p
    BY <1>1, <2>1, <2>2
  <2>4. \A y \in Tracers \ {x} : path'[y] = path[y]
    BY <1>1, <2>1
  <2>5. \A y \in Tracers : path'[y] \in MadeUp => y # x /\ path[y] \in MadeUp /\ path'[y] = path[y]
    BY <2>2, <2>3, <2>4
  <2>6. \A y \in Tracers : path[y] \in MadeUp => path'[y] = path[y]
    BY <1>10, <2>2, <2>4
  <2>7. {y \in Tracers : path'[y] \in MadeUp} = named
    BY <2>5, <2>6
  <2>8. Names'
    <3>1. file_number' <= blocks'
      BY <1>2, <1>4, <1>5, <1>7, <2>1 DEF Names
    <3>2. \A y \in Tracers : path'[y] \in MadeUp => path'[y][1] < file_number'
      BY <1>2, <2>1, <2>5 DEF Names
    <3>3. \A y, z \in Tracers : path'[y] = path'[z] /\ path'[y] \in MadeUp => y = z
      BY <1>2, <2>5 DEF Names
    <3>4. QED
      BY <3>1, <3>2, <3>3 DEF Names, MadeUp
  <2>9. QED
    BY <1>3, <1>4, <1>5, <1>6, <1>7, <1>8, <1>10, <2>1, <2>2, <2>3, <2>4, <2>7, <2>8
<1>11. CASE /\ path[x] = None
            /\ path' = [path EXCEPT ![x] = <<file_number, Len(stack)>>]
            /\ file_number' = file_number + 1
  <2> DEFINE new == <<file_number, Len(stack)>>
  <2>1. path' = [path EXCEPT ![x] = new] /\ file_number' = file_number + 1
    BY <1>11
  <2>2. new \in MadeUp
    <3>1. file_number <= blocks
      BY <1>2 DEF Names
    <3>2. file_number \in 0 .. MaxBlocks /\ Len(stack) \in 0 .. MaxBlocks
      BY <1>1, <1>4, <1>5, <1>7, <3>1
    <3>3. QED
      BY <3>2 DEF MadeUp
  <2>3. new[1] = file_number
    OBVIOUS
  <2> HIDE DEF new
  <2>4. path' \in [Tracers -> FileNames \cup {None}] /\ path'[x] = new /\ new \in FileNames
    BY <1>1, <1>3, <2>1, <2>2
  <2>5. \A y \in Tracers \ {x} : path'[y] = path[y]
    BY <1>1, <2>1
  <2>6. ASSUME NEW y \in Tracers, path[y] \in MadeUp
        PROVE  path[y] # new /\ path[y][1] < file_number'
    <3>1. path[y][1] < file_number
      BY <1>2, <2>6 DEF Names
    <3>2. path[y][1] \in Int
      BY <2>6 DEF MadeUp
    <3>3. QED
      BY <1>7, <2>1, <2>3, <3>1, <3>2
  <2>7. \A y \in Tracers \ {x} : path'[y] # path'[x]
    BY <2>2, <2>4, <2>5, <2>6
  <2>8. file_number' = Cardinality({y \in Tracers : path'[y] \in MadeUp})
    <3>1. None \notin MadeUp
      BY <1>3
    <3>2. {y \in Tracers : path'[y] \in MadeUp} = named \cup {x} /\ x \notin named
      BY <1>11, <2>2, <2>4, <2>5, <3>1
    <3>3. Cardinality(named \cup {x}) = Cardinality(named) + 1
      BY <1>7, <3>2, FS_AddElement
    <3>4. QED
      BY <1>7, <2>1, <3>2, <3>3
  <2>9. Names'
    <3>1. file_number' <= blocks'
      BY <1>2, <1>4, <1>5, <1>7, <2>1 DEF Names
    <3>2. \A y \in Tracers : path'[y] \in MadeUp => path'[y][1] < file_number'
      BY <1>7, <2>1, <2>3, <2>4, <2>5, <2>6
    <3>3. \A y, z \in Tracers : path'[y] = path'[z] /\ path'[y] \in MadeUp => y = z
      BY <1>2, <2>5, <2>7 DEF Names
    <3>4. QED
      BY <3>1, <3>2, <3>3 DEF Names, MadeUp
  <2>10. QED
    BY <1>3, <1>4, <1>5, <1>6, <1>8, <1>11, <2>4, <2>5, <2>7, <2>8, <2>9
<1>12. QED
  <2>1. LogFileName(x)
    BY DEF MayEnter
  <2>2. QED
    BY <1>9, <1>10, <1>11, <2>1 DEF LogFileName, create_filename_within_cwd, create_filename,
       reference_tracing_ll_length

\* The tracers that are stacked, the one on top, and the one that is called.
LEMMA StackFacts ==
  ASSUME Base
  PROVE  /\ Len(stack) \in Nat /\ \A i \in 1 .. Len(stack) : stack[i] \in Tracers
         /\ stack = <<>> <=> Len(stack) = 0
         /\ \A i \in 1 .. Len(stack) : path[stack[i]] \in FileNames
         /\ stack # <<>> => Stacks!Top(stack) = stack[Len(stack)]
         /\ stack = <<>> => Stacks!Top(stack) = None
         /\ calling # None =>
              stack # <<>> /\ calling = stack[Len(stack)] /\ calling \in Tracers
              /\ path[calling] \in FileNames
         /\ \A i, j \in 1 .. Len(stack) : path[stack[i]] = path[stack[j]] => i = j
<1>1. stack \in Seq(Tracers) /\ path \in [Tracers -> FileNames \cup {None}]
  BY DEF Base, TypeOK
<1>2. Stacking /\ Names
  BY DEF Base
<1>3. Len(stack) \in Nat /\ \A i \in 1 .. Len(stack) : stack[i] \in Tracers
  BY <1>1
<1>4. stack = <<>> <=> Len(stack) = 0
  BY <1>1
<1>5. \A i \in 1 .. Len(stack) : path[stack[i]] \in FileNames
  BY <1>1, <1>2, <1>3 DEF Stacking
<1>6. /\ stack # <<>> => Stacks!Top(stack) = stack[Len(stack)]
      /\ stack = <<>> => Stacks!Top(stack) = None
  BY DEF Stacks!Top
<1>7. calling # None => stack # <<>> /\ calling = stack[Len(stack)]
  BY <1>2, <1>6 DEF Stacking
<1>8. stack # <<>> => Len(stack) \in 1 .. Len(stack)
  BY <1>3, <1>4
<1>9. \A i, j \in 1 .. Len(stack) : path[stack[i]] = path[stack[j]] => i = j
  BY <1>2 DEF Stacking
<1>10. QED
  BY <1>3, <1>4, <1>5, <1>6, <1>7, <1>8, <1>9

-----------------------------------------------------------------------------
(* What steps do.  A step enters a with block, or it chats: it writes      *)
(* nothing but messages; or it writes a line for an event, or half of one. *)

Popped == stack # <<>> /\ stack' = SubSeq(stack, 1, Len(stack) - 1)

NamesKept == UNCHANGED <<filter, path, file_number, blocks>>

Chatter ==
  /\ logs' \in [FileNames -> Seq(Lines)]
  /\ \A p \in FileNames : Extends(logs[p], logs'[p], {Line("MSG")})
  /\ UNCHANGED <<types_live_count, count, events>>
  /\ stack' = stack \/ Popped
  /\ calling' \in {None, Stacks!Top(stack')}
  /\ NamesKept \/ \E x \in Tracers : MayEnter(x)

\* What becomes of objects and of the session if nothing is written about them.
Missed(a) == IF a \in session.seen THEN {a} ELSE {}

Overlooked ==
  \/ UNCHANGED <<heap, session>>
  \/ \E a \in Addresses, ty \in Types :
       /\ heap[a] = NoObject /\ heap' = [heap EXCEPT ![a] = ty]
       /\ session' = session
  \/ \E a \in Addresses :
       /\ heap[a] # NoObject /\ heap' = [heap EXCEPT ![a] = NoObject]
       /\ session' = [session EXCEPT !.seen = @ \ {a}, !.unseen = @ \cup Missed(a)]

EventWritten(kind, a, ty) ==
  /\ calling # None
  /\ Log(kind, a, ty)
  /\ NamesKept
  /\ \/ /\ kind = "NEW" /\ heap' = [heap EXCEPT ![a] = ty]
        /\ session' = [session EXCEPT !.seen = @ \cup {a}, !.unseen = @ \ {a}]
     \/ /\ kind = "DEL" /\ heap' = [heap EXCEPT ![a] = NoObject]
        /\ session' = [session EXCEPT !.seen = @ \ {a}, !.unseen = @ \ {a}]

EventLost(kind, ty) ==
  /\ calling # None
  /\ LogFails(kind, ty)
  /\ NamesKept
  /\ Overlooked

LEMMA MessagesWritten ==
  ASSUME Base, NEW name \in FileNames,
         \/ logs' = logs
         \/ logs' = Writing(name, Line("MSG"))
         \/ logs' = [logs EXCEPT ![name] = @ \o <<Line("MSG"), Line("MSG")>>]
  PROVE  /\ logs' \in [FileNames -> Seq(Lines)]
         /\ \A p \in FileNames : Extends(logs[p], logs'[p], {Line("MSG")})
<1>1. logs \in [FileNames -> Seq(Lines)]
  BY DEF Base, TypeOK
<1>2. Line("MSG") \in Lines
  BY LineFacts
<1> DEFINE m == Line("MSG")
<1> HIDE DEF m
<1>3. \A p \in FileNames : Extends(logs[p], logs[p], {m})
  BY <1>1, NothingAdded
<1>4. CASE logs' = logs
  BY <1>1, <1>3, <1>4 DEF m
<1>5. ASSUME NEW new \in Seq(Lines), Extends(logs[name], new, {m}),
             logs' = [logs EXCEPT ![name] = new]
      PROVE  /\ logs' \in [FileNames -> Seq(Lines)]
             /\ \A p \in FileNames : Extends(logs[p], logs'[p], {m})
  BY <1>1, <1>3, <1>5
<1>6. CASE logs' = Writing(name, Line("MSG"))
  <2>1. logs' = [logs EXCEPT ![name] = Append(logs[name], m)]
    BY <1>6 DEF Writing, m
  <2>2. Append(logs[name], m) \in Seq(Lines) /\ Extends(logs[name], Append(logs[name], m), {m})
    BY <1>1, <1>2, LineAdded DEF m
  <2>3. QED
    BY <1>5, <2>1, <2>2 DEF m
<1>7. CASE logs' = [logs EXCEPT ![name] = @ \o <<Line("MSG"), Line("MSG")>>]
  <2>1. logs' = [logs EXCEPT ![name] = logs[name] \o <<m, m>>]
    BY <1>7 DEF m
  <2>2. logs[name] \o <<m, m>> \in Seq(Lines) /\ Extends(logs[name], logs[name] \o <<m, m>>, {m})
    BY <1>1, <1>2, TwoLinesAdded DEF m
  <2>3. QED
    BY <1>5, <2>1, <2>2 DEF m
<1>8. QED
  BY <1>4, <1>6, <1>7

\* The stack without its top.
LEMMA PoppedFacts ==
  ASSUME Base, Popped
  PROVE  /\ stack' \in Seq(Tracers) /\ Len(stack') = Len(stack) - 1
         /\ \A i \in 1 .. Len(stack') : stack'[i] = stack[i]
         /\ Len(stack) >= 1
<1>1. stack \in Seq(Tracers) /\ Len(stack) \in Nat /\ Len(stack) >= 1
  BY StackFacts DEF Base, TypeOK, Popped
<1> DEFINE n == Len(stack) - 1
<1>2. n \in Nat /\ 1 \in Int /\ \A i \in 1 .. n : stack[i] \in Tracers
  BY <1>1, StackFacts
<1>3. stack' = SubSeq(stack, 1, n)
  BY DEF Popped
<1>4. /\ SubSeq(stack, 1, n) \in Seq(Tracers)
      /\ Len(SubSeq(stack, 1, n)) = IF 1 <= n THEN n - 1 + 1 ELSE 0
      /\ \A i \in 1 .. n - 1 + 1 : SubSeq(stack, 1, n)[i] = stack[1 + i - 1]
  <2> HIDE DEF n
  <2> QED BY <1>2, SubSeqProperties
<1>5. Len(stack') = n
  <2> HIDE DEF n
  <2> QED BY <1>2, <1>3, <1>4
<1>6. \A i \in 1 .. n : stack'[i] = stack[i]
  <2> HIDE DEF n
  <2>1. n - 1 + 1 = n
    BY <1>2
  <2>2. \A i \in 1 .. n : 1 + i - 1 = i
    BY <1>2
  <2>3. QED
    BY <1>3, <1>4, <2>1, <2>2
<1>7. QED
  BY <1>1, <1>3, <1>4, <1>5, <1>6

\* The stack with one more on top.
LEMMA PushedFacts ==
  ASSUME Base, NEW x \in Tracers, Stacks!Begin(x)
  PROVE  /\ stack' \in Seq(Tracers) /\ Len(stack') = Len(stack) + 1
         /\ stack'[Len(stack')] = x /\ stack' # <<>>
         /\ \A i \in 1 .. Len(stack) : stack'[i] = stack[i] /\ stack[i] # x
         /\ calling' = x /\ Stacks!Top(stack') = x
         /\ \A y \in Tracers : stack' = Append(stack, y) => y = x
<1>1. stack \in Seq(Tracers) /\ stack' = Append(stack, x)
  BY DEF Base, TypeOK, Stacks!Begin
<1>2. /\ stack' \in Seq(Tracers) /\ Len(stack') = Len(stack) + 1
      /\ stack'[Len(stack')] = x /\ stack' # <<>>
      /\ \A i \in 1 .. Len(stack) : stack'[i] = stack[i]
  BY <1>1
<1>3. \A i \in 1 .. Len(stack) : stack[i] # x
  BY DEF Stacks!Begin, Stacks!Stacked
<1>4. calling' = x /\ Stacks!Top(stack') = x
  BY <1>2 DEF Stacks!Begin, Stacks!Top
<1>5. ASSUME NEW y \in Tracers, stack' = Append(stack, y)
      PROVE  y = x
  <2>1. Append(stack, y)[Len(stack) + 1] = y
    BY <1>1
  <2>2. QED
    BY <1>2, <1>5, <2>1
<1>6. QED
  BY <1>2, <1>3, <1>4, <1>5

LEMMA KindsOfSteps ==
  ASSUME Base, [Next]_vars
  PROVE  \/ \E x \in Tracers : Enter(x)
         \/ Chatter /\ Overlooked
         \/ \E kind \in Kinds, a \in Addresses, ty \in Types : EventWritten(kind, a, ty)
         \/ \E kind \in Kinds, ty \in Types : EventLost(kind, ty)
<1>1. /\ logs \in [FileNames -> Seq(Lines)] /\ calling \in {None, Stacks!Top(stack)}
      /\ heap \in [Addresses -> Types \cup {NoObject}]
  BY DEF Base, TypeOK, Stacking
<1>2. /\ \A i \in 1 .. Len(stack) : path[stack[i]] \in FileNames
      /\ stack # <<>> => Len(stack) \in 1 .. Len(stack)
      /\ stack # <<>> => Stacks!Top(stack) = stack[Len(stack)]
  BY StackFacts
<1>3. PICK somewhere \in FileNames : TRUE
  <2>1. 0 \in 0 .. MaxBlocks
    BY BoundsAssumption
  <2>2. <<0, 0>> \in FileNames
    BY <2>1 DEF FileNames, MadeUp
  <2>3. QED
    BY <2>2
<1> DEFINE Silence == /\ logs' \in [FileNames -> Seq(Lines)]
                      /\ \A p \in FileNames : Extends(logs[p], logs'[p], {Line("MSG")})
<1>4. logs' = logs => Silence
  BY <1>3, MessagesWritten
<1>5. \A name \in FileNames : logs' = Writing(name, Line("MSG")) => Silence
  BY MessagesWritten
<1>6. \A name \in FileNames :
        logs' = [logs EXCEPT ![name] = @ \o <<Line("MSG"), Line("MSG")>>] => Silence
  BY MessagesWritten
<1>7. \A x \in Tracers : WriteMessage(x) => Chatter /\ Overlooked
  <2> SUFFICES ASSUME NEW x \in Tracers, WriteMessage(x)
               PROVE  Chatter /\ Overlooked
    OBVIOUS
  <2>1. path[x] \in FileNames
    BY <1>2 DEF WriteMessage, Stacks!Stacked
  <2>2. Silence
    BY <1>5, <2>1 DEF WriteMessage
  <2>3. QED
    BY <1>1, <2>2 DEF WriteMessage, Talks, tracing, Chatter, NamesKept, Overlooked
<1>8. CASE UNCHANGED vars
  BY <1>1, <1>4, <1>8 DEF vars, Chatter, NamesKept, Overlooked
<1>9. ASSUME NEW x \in Tracers, EnterFails(x)
      PROVE  Chatter /\ Overlooked
  BY <1>1, <1>4, <1>9 DEF EnterFails, Stacks!Pause, Chatter, Overlooked
<1>10. CASE Exit
  <2>1. Popped /\ calling' = Stacks!Top(stack')
    BY <1>10 DEF Exit, Stacks!End, Popped
  <2>2. /\ Len(stack') = Len(stack) - 1 /\ Len(stack) >= 1 /\ Len(stack) \in Nat
        /\ stack' \in Seq(Tracers)
        /\ \A i \in 1 .. Len(stack') : stack'[i] = stack[i]
    BY <2>1, PoppedFacts, StackFacts
  <2>3. CASE Len(stack) = 1
    BY <1>4, <1>10, <2>1, <2>3 DEF Exit, Chatter, NamesKept, Overlooked
  <2>4. CASE Len(stack) # 1
    <3>1. stack' # <<>> /\ Len(stack') \in 1 .. Len(stack') /\ Len(stack') \in 1 .. Len(stack)
      BY <2>2, <2>4
    <3>2. Stacks!Top(stack') = stack[Len(stack')]
      BY <2>2, <3>1 DEF Stacks!Top
    <3>3. path[Stacks!Top(stack')] \in FileNames
      BY <1>2, <3>1, <3>2
    <3>4. Silence
      BY <1>5, <1>10, <2>4, <3>3 DEF Exit
    <3>5. QED
      BY <1>10, <2>1, <3>4 DEF Exit, Chatter, NamesKept, Overlooked
  <2>5. QED
    BY <2>3, <2>4
<1>11. CASE ModuleWriteMessage
  <2>1. Stacks!Top(stack) \in Tracers
    BY <1>2, <1>11, StackFacts DEF ModuleWriteMessage
  <2>2. QED
    BY <1>7, <1>11, <2>1 DEF ModuleWriteMessage
<1>12. CASE Suspend
  <2>1. path[reference_tracing_ll_get_data] \in FileNames
    <3>1. stack # <<>>
      BY <1>12, StackFacts DEF Suspend
    <3>2. QED
      BY <1>2, <3>1 DEF reference_tracing_ll_get_data
  <2>2. Silence
    BY <1>5, <1>12, <2>1 DEF Suspend
  <2>3. stack' = stack /\ calling' \in {None, Stacks!Top(stack')}
    BY <1>12 DEF Suspend, Stacks!Pause
  <2>4. QED
    BY <1>12, <2>2, <2>3 DEF Suspend, Talks, Chatter, NamesKept, Overlooked
<1>13. CASE Resume
  <2>1. path[reference_tracing_ll_get_data] \in FileNames
    BY <1>2, <1>13 DEF Resume, Stacks!Resume, reference_tracing_ll_get_data
  <2>2. Silence
    BY <1>6, <1>13, <2>1 DEF Resume
  <2>3. stack' = stack /\ calling' \in {None, Stacks!Top(stack')}
    BY <1>13 DEF Resume, Stacks!Resume
  <2>4. QED
    BY <1>13, <2>2, <2>3 DEF Resume, Talks, Chatter, NamesKept, Overlooked
<1>14. ASSUME NEW a \in Addresses, Destroy(a)
       PROVE  \/ Chatter /\ Overlooked
              \/ \E kind \in Kinds, b \in Addresses, ty \in Types : EventWritten(kind, b, ty)
              \/ \E kind \in Kinds, ty \in Types : EventLost(kind, ty)
  <2>1. heap[a] # NoObject /\ heap' = [heap EXCEPT ![a] = NoObject] /\ NamesKept
    BY <1>14 DEF Destroy, NamesKept
  <2>2. heap[a] \in Types
    BY <1>1, <2>1
  <2>3. \/ /\ Seen(heap[a])
           /\ Log("DEL", a, heap[a])
           /\ session' = [session EXCEPT !.seen = @ \ {a}, !.unseen = @ \ {a}]
        \/ /\ Seen(heap[a])
           /\ LogFails("DEL", heap[a])
           /\ session' = [session EXCEPT !.seen = @ \ {a}, !.unseen = @ \cup Missed(a)]
        \/ /\ Unseen
           /\ session' = [session EXCEPT !.seen = @ \ {a}, !.unseen = @ \cup Missed(a)]
    BY <1>14 DEF Destroy, Missed
  <2>4. CASE /\ Seen(heap[a])
             /\ Log("DEL", a, heap[a])
             /\ session' = [session EXCEPT !.seen = @ \ {a}, !.unseen = @ \ {a}]
    <3>1. EventWritten("DEL", a, heap[a])
      BY <2>1, <2>4 DEF EventWritten, Seen
    <3>2. QED
      BY <2>2, <3>1 DEF Kinds
  <2>5. CASE /\ Seen(heap[a])
             /\ LogFails("DEL", heap[a])
             /\ session' = [session EXCEPT !.seen = @ \ {a}, !.unseen = @ \cup Missed(a)]
    <3>1. Overlooked
      BY <2>1, <2>5 DEF Overlooked
    <3>2. EventLost("DEL", heap[a])
      BY <2>1, <2>5, <3>1 DEF EventLost, Seen
    <3>3. QED
      BY <2>2, <3>2 DEF Kinds
  <2>6. CASE /\ Unseen
             /\ session' = [session EXCEPT !.seen = @ \ {a}, !.unseen = @ \cup Missed(a)]
    <3>1. Overlooked
      BY <2>1, <2>6 DEF Overlooked
    <3>2. Chatter
      BY <1>1, <1>4, <2>1, <2>6 DEF Unseen, Chatter
    <3>3. QED
      BY <3>1, <3>2
  <2>7. QED
    BY <2>3, <2>4, <2>5, <2>6
<1>15. ASSUME NEW a \in Addresses, NEW ty \in Types, Create(a, ty)
       PROVE  \/ Chatter /\ Overlooked
              \/ \E kind \in Kinds, b \in Addresses, type \in Types : EventWritten(kind, b, type)
              \/ \E kind \in Kinds, type \in Types : EventLost(kind, type)
  <2>1. heap[a] = NoObject /\ heap' = [heap EXCEPT ![a] = ty] /\ NamesKept
    BY <1>15 DEF Create, NamesKept
  <2>2. \/ /\ Seen(ty)
           /\ Log("NEW", a, ty)
           /\ session' = [session EXCEPT !.seen = @ \cup {a}, !.unseen = @ \ {a}]
        \/ Seen(ty) /\ LogFails("NEW", ty) /\ session' = session
        \/ Unseen /\ session' = session
    BY <1>15 DEF Create
  <2>3. CASE /\ Seen(ty)
             /\ Log("NEW", a, ty)
             /\ session' = [session EXCEPT !.seen = @ \cup {a}, !.unseen = @ \ {a}]
    <3>1. EventWritten("NEW", a, ty)
      BY <2>1, <2>3 DEF EventWritten, Seen
    <3>2. QED
      BY <3>1 DEF Kinds
  <2>4. CASE Seen(ty) /\ LogFails("NEW", ty) /\ session' = session
    <3>1. Overlooked
      BY <2>1, <2>4 DEF Overlooked
    <3>2. EventLost("NEW", ty)
      BY <2>1, <2>4, <3>1 DEF EventLost, Seen
    <3>3. QED
      BY <3>2 DEF Kinds
  <2>5. CASE Unseen /\ session' = session
    <3>1. Overlooked
      BY <2>1, <2>5 DEF Overlooked
    <3>2. Chatter
      BY <1>1, <1>4, <2>1, <2>5 DEF Unseen, Chatter
    <3>3. QED
      BY <3>1, <3>2
  <2>6. QED
    BY <2>2, <2>3, <2>4, <2>5
<1>16. QED
  BY <1>7, <1>8, <1>9, <1>10, <1>11, <1>12, <1>13, <1>14, <1>15 DEF Next

-----------------------------------------------------------------------------
(* Every step keeps Base.                                                  *)

LEMMA OverlookedFacts ==
  ASSUME Base, Overlooked
  PROVE  /\ heap' \in [Addresses -> Types \cup {NoObject}]
         /\ session' \in Session
         /\ session'.file = session.file /\ session'.rewritten = session.rewritten
<1>1. heap \in [Addresses -> Types \cup {NoObject}] /\ session \in Session
  BY DEF Base, TypeOK
<1>2. CASE UNCHANGED <<heap, session>>
  BY <1>1, <1>2
<1>3. CASE \E a \in Addresses, ty \in Types :
             /\ heap[a] = NoObject /\ heap' = [heap EXCEPT ![a] = ty]
             /\ session' = session
  BY <1>1, <1>3
<1>4. CASE \E a \in Addresses :
             /\ heap[a] # NoObject /\ heap' = [heap EXCEPT ![a] = NoObject]
             /\ session' = [session EXCEPT !.seen = @ \ {a}, !.unseen = @ \cup Missed(a)]
  <2>1. PICK a \in Addresses :
             /\ heap[a] # NoObject /\ heap' = [heap EXCEPT ![a] = NoObject]
             /\ session' = [session EXCEPT !.seen = @ \ {a}, !.unseen = @ \cup Missed(a)]
    BY <1>4
  <2>2. heap' \in [Addresses -> Types \cup {NoObject}]
    BY <1>1, <2>1
  <2>3. session.seen \ {a} \in SUBSET Addresses /\ session.unseen \cup Missed(a) \in SUBSET Addresses
    BY <1>1 DEF Session, Missed
  <2>4. session' \in Session /\ session'.file = session.file /\ session'.rewritten = session.rewritten
    BY <1>1, <2>1, <2>3 DEF Session
  <2>5. QED
    BY <2>2, <2>4
<1>5. QED
  BY <1>2, <1>3, <1>4 DEF Overlooked

LEMMA ChatterKeepsBase ==
  ASSUME Base, Chatter, Overlooked
  PROVE  Base'
<1>1. TypeOK /\ Names /\ Stacking /\ Bounded
  BY DEF Base
<1>2. /\ heap' \in [Addresses -> Types \cup {NoObject}] /\ session' \in Session
      /\ session'.file = session.file
  BY OverlookedFacts
<1>3. /\ filter' \in [Tracers -> Filters \cup {None}]
      /\ path' \in [Tracers -> FileNames \cup {None}]
      /\ file_number' = Cardinality({x \in Tracers : path'[x] \in MadeUp})
      /\ blocks' \in 0 .. MaxBlocks /\ blocks' >= blocks
      /\ Names'
      /\ \A x \in Tracers : path[x] # None => path'[x] = path[x]
  <2>1. CASE NamesKept
    <3>1. Names'
      BY <1>1, <2>1 DEF NamesKept, Names
    <3>2. QED
      BY <1>1, <2>1, <3>1 DEF NamesKept, TypeOK
  <2>2. CASE \E x \in Tracers : MayEnter(x)
    <3>1. PICK x \in Tracers : MayEnter(x)
      BY <2>2
    <3>2. blocks \in 0 .. MaxBlocks
      BY <1>1 DEF TypeOK
    <3>3. blocks' = blocks + 1 /\ blocks' \in 0 .. MaxBlocks
      BY <3>1, NameMadeUp
    <3>4. \A y \in Tracers : path[y] # None => path'[y] = path[y]
      BY <3>1, NameMadeUp
    <3>5. blocks' >= blocks
      BY <3>2, <3>3
    <3>6. QED
      BY <3>1, <3>3, <3>4, <3>5, NameMadeUp
  <2>3. QED
    BY <2>1, <2>2 DEF Chatter
<1>4. stack' \in Seq(Tracers) /\ Len(stack') <= Len(stack)
      /\ \A i \in 1 .. Len(stack') : i \in 1 .. Len(stack) /\ stack'[i] = stack[i]
  <2>1. CASE stack' = stack
    BY <1>1, <2>1 DEF TypeOK
  <2>2. CASE Popped
    BY <2>2, PoppedFacts
  <2>3. QED
    BY <2>1, <2>2 DEF Chatter
<1>5. calling' \in Tracers \cup {None}
  <2>1. stack' # <<>> => Stacks!Top(stack') = stack'[Len(stack')] /\ stack'[Len(stack')] \in Tracers
    BY <1>4 DEF Stacks!Top
  <2>2. QED
    BY <2>1 DEF Chatter, Stacks!Top
<1>6. TypeOK'
  BY <1>1, <1>2, <1>3, <1>4, <1>5 DEF TypeOK, Chatter
<1>7. Stacking'
  <2>1. Len(stack') <= blocks'
    <3>1. Len(stack) \in Nat /\ Len(stack') \in Nat /\ blocks \in Nat /\ blocks' \in Nat
      BY <1>1, <1>3, <1>4, StackFacts DEF TypeOK
    <3>2. QED
      BY <1>1, <1>3, <1>4, <3>1 DEF Stacking
  <2>2. \A i \in 1 .. Len(stack') : path'[stack'[i]] # None
    BY <1>1, <1>3, <1>4, StackFacts DEF Stacking
  <2>3. /\ \A i, j \in 1 .. Len(stack') : stack'[i] = stack'[j] => i = j
        /\ \A i, j \in 1 .. Len(stack') : path'[stack'[i]] = path'[stack'[j]] => i = j
    <3>1. \A i \in 1 .. Len(stack') : path'[stack'[i]] = path[stack[i]]
      BY <1>1, <1>3, <1>4, StackFacts DEF Stacking
    <3>2. QED
      BY <1>1, <1>4, <3>1 DEF Stacking
  <2>4. ASSUME stack' # <<>>
        PROVE  session'.file = path'[stack'[1]]
    <3>1. 1 \in 1 .. Len(stack')
      BY <1>4, <2>4
    <3>2. 1 \in 1 .. Len(stack) /\ stack'[1] = stack[1] /\ stack # <<>>
      BY <1>4, <3>1, StackFacts
    <3>3. session.file = path[stack[1]] /\ path[stack[1]] # None /\ stack[1] \in Tracers
      BY <1>1, <3>2, StackFacts DEF Stacking
    <3>4. QED
      BY <1>2, <1>3, <3>2, <3>3
  <2>5. QED
    BY <2>1, <2>2, <2>3, <2>4 DEF Stacking, Chatter
<1>8. Bounded'
  BY <1>1 DEF Bounded, Chatter, Total, TotalIn
<1>9. QED
  BY <1>3, <1>6, <1>7, <1>8 DEF Base

\* A new log is empty; the one it takes over from says so; the others are as they were.
LEMMA OpenedFacts ==
  ASSUME Base, NEW x \in Tracers, Enter(x)
  PROVE  /\ logs' \in [FileNames -> Seq(Lines)]
         /\ logs'[path'[x]] = <<>>
         /\ \A p \in FileNames \ {path'[x]} :
              IF stack # <<>> /\ p = path[stack[Len(stack)]]
              THEN logs'[p] = Append(logs[p], Detached(path'[x]))
              ELSE logs'[p] = logs[p]
         /\ \A p \in FileNames \ {path'[x]} :
              Extends(logs[p], logs'[p], {Detached(path'[x])})
         /\ \A i \in 1 .. Len(stack) : path[stack[i]] # path'[x]
<1>1. logs \in [FileNames -> Seq(Lines)]
  BY DEF Base, TypeOK
<1>2. MayEnter(x) /\ Stacks!Begin(x) /\ logs' = OpenedLogs(x)
  BY DEF Enter
<1>3. path'[x] \in FileNames /\ Detached(path'[x]) \in Lines
  BY <1>2, NameMadeUp, LineFacts
<1> DEFINE line == Detached(path'[x])
<1>4. logs' = [p \in FileNames |->
                 IF p = path'[x] THEN <<>>
                 ELSE IF stack # <<>> /\ p = path[stack[Len(stack)]]
                 THEN Append(logs[p], line)
                 ELSE logs[p]]
  <2>1. stack # <<>> => reference_tracing_ll_get_data = stack[Len(stack)]
    BY StackFacts DEF reference_tracing_ll_get_data
  <2>2. QED
    BY <1>2, <2>1 DEF OpenedLogs
<1>5. \A p \in FileNames : /\ Append(logs[p], line) \in Seq(Lines)
                           /\ Extends(logs[p], Append(logs[p], line), {line})
                           /\ Extends(logs[p], logs[p], {line})
  BY <1>1, <1>3, LineAdded, NothingAdded
<1> HIDE DEF line
<1>6. \A p \in FileNames : logs'[p] \in Seq(Lines)
  <2>1. <<>> \in Seq(Lines)
    OBVIOUS
  <2>2. QED
    BY <1>1, <1>4, <1>5, <2>1
<1>7. logs' \in [FileNames -> Seq(Lines)]
  BY <1>4, <1>6
<1>8. \A i \in 1 .. Len(stack) : path[stack[i]] # path'[x]
  BY <1>2, NameMadeUp
<1>9. QED
  BY <1>3, <1>4, <1>5, <1>7, <1>8 DEF line

LEMMA EnterKeepsBase ==
  ASSUME Base, NEW x \in Tracers, Enter(x)
  PROVE  Base'
<1>1. TypeOK /\ Names /\ Stacking /\ Bounded
  BY DEF Base
<1>2. MayEnter(x) /\ Stacks!Begin(x)
      /\ UNCHANGED <<heap, types_live_count, count, objects, events, incidents>>
  BY DEF Enter
<1>4. session' \in Session
  <2>1. CASE stack = <<>>
    <3>1. session' = [file |-> path'[x], seen |-> {}, unseen |-> {}, rewritten |-> FALSE]
      BY <2>1 DEF Enter
    <3>2. path'[x] \in FileNames
      BY <1>2, NameMadeUp
    <3>3. QED
      BY <3>1, <3>2 DEF Session
  <2>2. CASE stack # <<>>
    <3>1. session' = [session EXCEPT !.rewritten = @ \/ OpenedInSession(path'[x])]
      BY <2>2 DEF Enter
    <3>2. session \in Session /\ (session.rewritten \/ OpenedInSession(path'[x])) \in BOOLEAN
      BY <1>1 DEF TypeOK, Session
    <3>3. QED
      BY <3>1, <3>2 DEF Session
  <2>3. QED
    BY <2>1, <2>2
<1>5. /\ stack' \in Seq(Tracers) /\ Len(stack') = Len(stack) + 1
      /\ stack'[Len(stack')] = x /\ stack' # <<>>
      /\ \A i \in 1 .. Len(stack) : stack'[i] = stack[i] /\ stack[i] # x
      /\ calling' = x /\ Stacks!Top(stack') = x
  BY <1>2, PushedFacts
<1>6. Len(stack) \in Nat /\ \A i \in 1 .. Len(stack') : i \in 1 .. Len(stack) \/ i = Len(stack')
  BY <1>5, StackFacts
<1>7. TypeOK'
  <2>1. logs' \in [FileNames -> Seq(Lines)]
    BY OpenedFacts
  <2>2. QED
    BY <1>1, <1>2, <1>4, <1>5, <2>1, NameMadeUp DEF TypeOK
<1>8. Stacking'
  <2>1. Len(stack') <= blocks'
    <3>1. blocks' = blocks + 1
      BY <1>2, NameMadeUp
    <3>2. Len(stack) <= blocks /\ blocks \in 0 .. MaxBlocks
      BY <1>1 DEF Stacking, TypeOK
    <3>3. QED
      BY <1>5, <1>6, <3>1, <3>2
  <2>2. \A i \in 1 .. Len(stack') : path'[stack'[i]] # None
    <3>1. path'[x] # None /\ \A y \in Tracers \ {x} : path'[y] = path[y]
      BY <1>2, NameMadeUp
    <3>2. \A i \in 1 .. Len(stack) : path[stack[i]] # None /\ stack[i] \in Tracers
      BY <1>1, StackFacts DEF Stacking
    <3>3. QED
      BY <1>5, <1>6, <3>1, <3>2
  <2>3. /\ \A i, j \in 1 .. Len(stack') : stack'[i] = stack'[j] => i = j
        /\ \A i, j \in 1 .. Len(stack') : path'[stack'[i]] = path'[stack'[j]] => i = j
    <3>1. \A i \in 1 .. Len(stack) : /\ path'[stack'[i]] = path[stack[i]]
                                     /\ path[stack[i]] # path'[x]
      <4>1. \A i \in 1 .. Len(stack) : stack[i] \in Tracers \ {x} /\ stack'[i] = stack[i]
        BY <1>5, StackFacts
      <4>2. /\ \A y \in Tracers \ {x} : path'[y] = path[y]
            /\ \A i \in 1 .. Len(stack) : path[stack[i]] # path'[x]
        BY <1>2, NameMadeUp
      <4>3. QED
        BY <4>1, <4>2
    <3>2. path'[stack'[Len(stack')]] = path'[x]
      BY <1>5
    <3>3. QED
      BY <1>1, <1>5, <1>6, <3>1, <3>2 DEF Stacking
  <2>4. session'.file = path'[stack'[1]]
    <3>1. CASE stack = <<>>
      <4>1. session'.file = path'[x] /\ stack'[1] = x
        BY <1>5, <3>1, StackFacts DEF Enter
      <4>2. QED
        BY <4>1
    <3>2. CASE stack # <<>>
      <4>1. session'.file = session.file
        BY <1>1, <3>2 DEF Enter, TypeOK, Session
      <4>2. session.file = path[stack[1]] /\ 1 \in 1 .. Len(stack)
        BY <1>1, <3>2, StackFacts DEF Stacking
      <4>3. stack'[1] = stack[1] /\ stack[1] # x /\ stack[1] \in Tracers
        BY <1>5, <4>2, StackFacts
      <4>4. QED
        BY <1>2, <4>1, <4>2, <4>3, NameMadeUp
    <3>3. QED
      BY <3>1, <3>2
  <2>5. QED
    BY <1>5, <2>1, <2>2, <2>3, <2>4 DEF Stacking
<1>9. Bounded'
  BY <1>1, <1>2 DEF Bounded, Total, TotalIn
<1>10. QED
  BY <1>2, <1>7, <1>8, <1>9, NameMadeUp DEF Base

\* An event is counted once, for the tracer that is called.
LEMMA CountedFacts ==
  ASSUME Base, calling # None, NEW kind \in Kinds, Counted(kind)
  PROVE  /\ count' \in [Tracers -> [Kinds -> 0 .. MaxEvents]]
         /\ events' = events + 1 /\ events' \in 0 .. MaxEvents
         /\ TotalIn(count', calling) = Total(calling) + 1
         /\ \A x \in Tracers \ {calling} : Total(x)' = Total(x)
         /\ \A x \in Tracers : Total(x) \in Nat
<1>1. /\ count \in [Tracers -> [Kinds -> 0 .. MaxEvents]] /\ events \in 0 .. MaxEvents
      /\ Bounded /\ MaxEvents \in Nat
  BY BoundsAssumption DEF Base, TypeOK, Kinds
<1>2. calling \in Tracers
  BY StackFacts
<1>3. \A x \in Tracers : /\ count[x].NEW \in Nat /\ count[x].DEL \in Nat
                         /\ count[x].NEW + count[x].DEL <= events
  BY <1>1 DEF Bounded, Total, TotalIn, Kinds
<1>4. /\ events < MaxEvents /\ events' = events + 1
      /\ count' = [count EXCEPT ![calling][kind] = @ + 1]
  BY DEF Counted
<1>5. /\ count'[calling] = [count[calling] EXCEPT ![kind] = @ + 1]
      /\ \A x \in Tracers \ {calling} : count'[x] = count[x]
  BY <1>1, <1>2, <1>4
<1>6. count'[calling] \in [Kinds -> 0 .. MaxEvents]
  <2>1. count[calling][kind] + 1 \in 0 .. MaxEvents
    <3>1. count[calling][kind] <= events /\ count[calling][kind] \in Nat
      BY <1>1, <1>2, <1>3 DEF Kinds
    <3>2. QED
      BY <1>1, <1>4, <3>1
  <2>2. QED
    BY <1>1, <1>2, <1>5, <2>1
<1>7. count' \in [Tracers -> [Kinds -> 0 .. MaxEvents]]
  BY <1>1, <1>2, <1>4, <1>5, <1>6
<1>8. TotalIn(count', calling) = Total(calling) + 1
  <2>1. CASE kind = "NEW"
    <3>1. count'[calling].NEW = count[calling].NEW + 1 /\ count'[calling].DEL = count[calling].DEL
      BY <1>1, <1>2, <1>5, <2>1 DEF Kinds
    <3>2. QED
      BY <1>2, <1>3, <3>1 DEF Total, TotalIn
  <2>2. CASE kind = "DEL"
    <3>1. count'[calling].NEW = count[calling].NEW /\ count'[calling].DEL = count[calling].DEL + 1
      BY <1>1, <1>2, <1>5, <2>2 DEF Kinds
    <3>2. QED
      BY <1>2, <1>3, <3>1 DEF Total, TotalIn
  <2>3. QED
    BY <2>1, <2>2 DEF Kinds
<1>9. \A x \in Tracers \ {calling} : Total(x)' = Total(x)
  BY <1>5 DEF Total, TotalIn
<1>10. \A x \in Tracers : Total(x) \in Nat
  BY <1>3 DEF Total, TotalIn
<1>11. QED
  BY <1>1, <1>4, <1>7, <1>8, <1>9, <1>10

Delta(kind) == IF kind = "NEW" THEN 1 ELSE -1

\* The number in the table and in the line is one more or one less.
LEMMA LogFacts ==
  ASSUME Base, calling # None, NEW kind \in Kinds, NEW a \in Addresses, NEW ty \in Types,
         Log(kind, a, ty)
  PROVE  LET new == Value(types_live_count[calling][ty]) + Delta(kind)
             line == EventLine(kind, a, ty, new)
         IN  /\ types_live_count' = [types_live_count EXCEPT ![calling][ty] = new]
             /\ new \in -MaxEvents .. MaxEvents
             /\ -(Total(calling) + 1) <= new /\ new <= Total(calling) + 1
             /\ line \in Lines
             /\ logs' = [logs EXCEPT ![path[calling]] = Append(@, line)]
             /\ logs' \in [FileNames -> Seq(Lines)]
             /\ Value(types_live_count[calling][ty]) \in Int
<1> DEFINE value == Value(types_live_count[calling][ty])
           new == value + Delta(kind)
           line == EventLine(kind, a, ty, new)
<1>1. /\ types_live_count \in [Tracers -> [Types -> (-MaxEvents .. MaxEvents) \cup {None}]]
      /\ logs \in [FileNames -> Seq(Lines)]
      /\ events \in 0 .. MaxEvents /\ MaxEvents \in Nat /\ Bounded
  BY BoundsAssumption DEF Base, TypeOK
<1>2. calling \in Tracers /\ path[calling] \in FileNames
  BY StackFacts
<1>3. Counted(kind)
  BY DEF Log
<1>4. events < MaxEvents /\ Total(calling) \in Nat
  BY <1>2, <1>3, CountedFacts DEF Counted
<1>5. value \in Int /\ -Total(calling) <= value /\ value <= Total(calling) /\ Total(calling) <= events
  <2>1. types_live_count[calling][ty] \in (-MaxEvents .. MaxEvents) \cup {None}
    BY <1>1, <1>2
  <2>2. QED
    BY <1>1, <1>2, <2>1 DEF Bounded, Value
<1>6. Delta(kind) \in {1, -1}
  BY DEF Delta
<1>7. new \in Int /\ -(Total(calling) + 1) <= new /\ new <= Total(calling) + 1
  <2> HIDE DEF value
  <2> QED BY <1>4, <1>5, <1>6
<1>8. new \in -MaxEvents .. MaxEvents
  <2> HIDE DEF new
  <2> QED BY <1>1, <1>4, <1>5, <1>7
<1>9. types_live_count' = [types_live_count EXCEPT ![calling][ty] = new]
  <2>1. types_live_count' =
          [types_live_count EXCEPT ![calling][ty] =
             (IF types_live_count[calling][ty] = None THEN 0 ELSE types_live_count[calling][ty])
             + (IF kind = "NEW" THEN 1 ELSE -1)]
    BY <1>1, <1>2 DEF Log, increment_types_live_count
  <2>2. QED
    BY <2>1 DEF Value, Delta
<1>10. types_live_count'[calling][ty] = new
  <2> HIDE DEF new
  <2> QED BY <1>1, <1>2, <1>9
<1>11. line \in Lines
  <2> HIDE DEF new
  <2> QED BY <1>8, LineFacts
<1>12. logs' = [logs EXCEPT ![path[calling]] = Append(@, line)]
  <2>1. logs' = Writing(path[calling], EventLine(kind, a, ty, types_live_count'[calling][ty]))
    BY DEF Log
  <2>2. logs' = Writing(path[calling], line)
    <3> HIDE DEF new
    <3> QED BY <1>10, <2>1
  <2>3. QED
    BY <2>2 DEF Writing
<1>13. logs' \in [FileNames -> Seq(Lines)]
  <2> HIDE DEF line
  <2>1. Append(logs[path[calling]], line) \in Seq(Lines)
    BY <1>1, <1>2, <1>11
  <2>2. QED
    BY <1>1, <1>12, <2>1
<1>14. QED
  BY <1>5, <1>7, <1>8, <1>9, <1>11, <1>12, <1>13

LEMMA LogFailsFacts ==
  ASSUME Base, calling # None, NEW kind \in Kinds, NEW ty \in Types, LogFails(kind, ty)
  PROVE  /\ Counted(kind) /\ UNCHANGED types_live_count
         /\ Line("half") \in Lines
         /\ logs' = [logs EXCEPT ![path[calling]] = Append(@, Line("half"))]
         /\ logs' \in [FileNames -> Seq(Lines)]
         /\ stack' = stack /\ calling' = None
<1>1. logs \in [FileNames -> Seq(Lines)]
  BY DEF Base, TypeOK
<1>2. path[calling] \in FileNames
  BY StackFacts
<1>3. Line("half") \in Lines
  BY LineFacts
<1>4. logs' = [logs EXCEPT ![path[calling]] = Append(@, Line("half"))]
  BY DEF LogFails, Writing
<1>5. logs' \in [FileNames -> Seq(Lines)]
  <2>1. Append(logs[path[calling]], Line("half")) \in Seq(Lines)
    BY <1>1, <1>2, <1>3
  <2>2. QED
    BY <1>1, <1>4, <2>1
<1>6. QED
  BY <1>3, <1>4, <1>5 DEF LogFails, Stacks!Pause

LEMMA EventKeepsBase ==
  ASSUME Base,
         \/ \E kind \in Kinds, a \in Addresses, ty \in Types : EventWritten(kind, a, ty)
         \/ \E kind \in Kinds, ty \in Types : EventLost(kind, ty)
  PROVE  Base'
<1>1. TypeOK /\ Names /\ Stacking /\ Bounded
  BY DEF Base
<1>2. ASSUME NamesKept, stack' = stack, calling' \in {None, calling},
             NEW kind \in Kinds, calling # None, Counted(kind),
             heap' \in [Addresses -> Types \cup {NoObject}], session' \in Session,
             session'.file = session.file,
             types_live_count' \in [Tracers -> [Types -> (-MaxEvents .. MaxEvents) \cup {None}]],
             logs' \in [FileNames -> Seq(Lines)],
             \A x \in Tracers \ {calling} : types_live_count'[x] = types_live_count[x],
             \A ty \in Types : -(Total(calling) + 1) <= Value(types_live_count'[calling][ty])
                               /\ Value(types_live_count'[calling][ty]) <= Total(calling) + 1
      PROVE  Base'
  <2>1. Names'
    BY <1>1, <1>2 DEF Names, NamesKept
  <2>2. Stacking'
    BY <1>1, <1>2 DEF Stacking, NamesKept
  <2>3. /\ count' \in [Tracers -> [Kinds -> 0 .. MaxEvents]]
        /\ events' = events + 1 /\ events' \in 0 .. MaxEvents
        /\ TotalIn(count', calling) = Total(calling) + 1
        /\ \A x \in Tracers \ {calling} : Total(x)' = Total(x)
        /\ \A x \in Tracers : Total(x) \in Nat
    BY <1>2, CountedFacts
  <2>4. TypeOK'
    BY <1>1, <1>2, <2>3 DEF TypeOK, NamesKept, Kinds
  <2>5. Bounded'
    <3>1. calling \in Tracers /\ events \in Nat
      BY <1>1, <1>2, StackFacts DEF TypeOK
    <3>2. ASSUME NEW x \in Tracers
          PROVE  /\ Total(x)' <= events'
                 /\ \A ty \in Types : -Total(x)' <= Value(types_live_count'[x][ty])
                                      /\ Value(types_live_count'[x][ty]) <= Total(x)'
      <4>1. /\ Total(x) <= events
            /\ \A ty \in Types : -Total(x) <= Value(types_live_count[x][ty])
                                 /\ Value(types_live_count[x][ty]) <= Total(x)
        BY <1>1 DEF Bounded
      <4>2. CASE x = calling
        <5>1. Total(x)' = Total(calling) + 1
          BY <2>3, <4>2 DEF Total
        <5>2. Total(x)' <= events'
          BY <2>3, <3>1, <4>1, <4>2, <5>1
        <5>3. QED
          BY <1>2, <4>2, <5>1, <5>2
      <4>3. CASE x # calling
        <5>1. Total(x)' = Total(x) /\ types_live_count'[x] = types_live_count[x]
          BY <1>2, <2>3, <4>3
        <5>2. Total(x)' <= events'
          BY <2>3, <3>1, <4>1, <5>1
        <5>3. QED
          BY <4>1, <5>1, <5>2
      <4>4. QED
        BY <4>2, <4>3
    <3>3. QED
      BY <3>2 DEF Bounded, Value
  <2>5a. QED
    BY <2>1, <2>2, <2>4, <2>5 DEF Base
<1>3. ASSUME NEW kind \in Kinds, NEW a \in Addresses, NEW ty \in Types, EventWritten(kind, a, ty)
      PROVE  Base'
  <2>1. calling # None /\ Log(kind, a, ty) /\ NamesKept
    BY <1>3 DEF EventWritten
  <2>2. heap' \in [Addresses -> Types \cup {NoObject}] /\ session' \in Session
        /\ session'.file = session.file
    <3>1. heap \in [Addresses -> Types \cup {NoObject}] /\ session \in Session
      BY <1>1 DEF TypeOK
    <3>2. heap' \in [Addresses -> Types \cup {NoObject}]
      BY <1>3, <3>1 DEF EventWritten
    <3>3. PICK s \in SUBSET Addresses, u \in SUBSET Addresses :
            session' = [session EXCEPT !.seen = s, !.unseen = u]
      <4>1. /\ session.seen \cup {a} \in SUBSET Addresses /\ session.seen \ {a} \in SUBSET Addresses
            /\ session.unseen \ {a} \in SUBSET Addresses
        BY <3>1 DEF Session
      <4>2. \/ session' = [session EXCEPT !.seen = session.seen \cup {a}, !.unseen = session.unseen \ {a}]
            \/ session' = [session EXCEPT !.seen = session.seen \ {a}, !.unseen = session.unseen \ {a}]
        BY <1>3, <3>1 DEF EventWritten, Session
      <4>3. QED
        BY <4>1, <4>2
    <3>4. session' \in Session /\ session'.file = session.file
      BY <3>1, <3>3 DEF Session
    <3>5. QED
      BY <3>2, <3>4
  <2> DEFINE new == Value(types_live_count[calling][ty]) + Delta(kind)
  <2>3. /\ types_live_count' = [types_live_count EXCEPT ![calling][ty] = new]
        /\ new \in -MaxEvents .. MaxEvents
        /\ -(Total(calling) + 1) <= new /\ new <= Total(calling) + 1
        /\ logs' \in [FileNames -> Seq(Lines)]
    BY <2>1, LogFacts
  <2>4. calling \in Tracers /\ stack' = stack /\ calling' = calling /\ Counted(kind)
    BY <2>1, StackFacts DEF Log, tracing
  <2>5. types_live_count \in [Tracers -> [Types -> (-MaxEvents .. MaxEvents) \cup {None}]]
    BY <1>1 DEF TypeOK
  <2> HIDE DEF new
  <2>6. /\ types_live_count' \in [Tracers -> [Types -> (-MaxEvents .. MaxEvents) \cup {None}]]
        /\ \A x \in Tracers \ {calling} : types_live_count'[x] = types_live_count[x]
        /\ types_live_count'[calling][ty] = new
        /\ \A other \in Types \ {ty} : types_live_count'[calling][other] = types_live_count[calling][other]
    BY <2>3, <2>4, <2>5
  <2>7. Total(calling) \in Nat
    BY <2>1, <2>4, CountedFacts
  <2>8. ASSUME NEW other \in Types
        PROVE  -(Total(calling) + 1) <= Value(types_live_count'[calling][other])
               /\ Value(types_live_count'[calling][other]) <= Total(calling) + 1
    <3>1. CASE other = ty
      <4>1. new \in Int /\ new # None
        BY <2>3, BoundsAssumption, NamesAssumption
      <4>2. Value(new) = new
        BY <4>1 DEF Value
      <4>3. QED
        BY <2>3, <2>6, <3>1, <4>2
    <3>2. CASE other # ty
      <4>1. /\ -Total(calling) <= Value(types_live_count[calling][other])
            /\ Value(types_live_count[calling][other]) <= Total(calling)
            /\ types_live_count'[calling][other] = types_live_count[calling][other]
        BY <1>1, <2>4, <2>6, <3>2 DEF Bounded
      <4>2. Value(types_live_count[calling][other]) \in Int
        BY <2>4, <2>5, BoundsAssumption DEF Value
      <4>3. QED
        <5> DEFINE v == Value(types_live_count[calling][other])
                   n == Total(calling)
        <5>1. v \in Int /\ n \in Nat /\ -n <= v /\ v <= n
          BY <2>7, <4>1, <4>2
        <5>2. -(n + 1) <= v /\ v <= n + 1
          <6> HIDE DEF v, n
          <6> QED BY <5>1
        <5>3. QED
          BY <4>1, <5>2
    <3>3. QED
      BY <3>1, <3>2
  <2>9. QED
    BY <1>2, <2>1, <2>2, <2>3, <2>4, <2>6, <2>8
<1>4. ASSUME NEW kind \in Kinds, NEW ty \in Types, EventLost(kind, ty)
      PROVE  Base'
  <2>1. calling # None /\ LogFails(kind, ty) /\ NamesKept /\ Overlooked
    BY <1>4 DEF EventLost
  <2>2. /\ Counted(kind) /\ types_live_count' = types_live_count
        /\ logs' \in [FileNames -> Seq(Lines)]
        /\ stack' = stack /\ calling' = None
    BY <2>1, LogFailsFacts
  <2>3. types_live_count \in [Tracers -> [Types -> (-MaxEvents .. MaxEvents) \cup {None}]]
        /\ calling \in Tracers
    BY <1>1, <2>1, StackFacts DEF TypeOK
  <2>4. Total(calling) \in Nat
    BY <2>1, <2>2, <2>3, CountedFacts
  <2>5. ASSUME NEW other \in Types
        PROVE  -(Total(calling) + 1) <= Value(types_live_count'[calling][other])
               /\ Value(types_live_count'[calling][other]) <= Total(calling) + 1
    <3> DEFINE v == Value(types_live_count[calling][other])
               n == Total(calling)
    <3>1. -n <= v /\ v <= n
      BY <1>1, <2>3 DEF Bounded
    <3>2. v \in Int /\ n \in Nat
      BY <2>3, <2>4, BoundsAssumption DEF Value
    <3>3. -(n + 1) <= v /\ v <= n + 1
      <4> HIDE DEF v, n
      <4> QED BY <3>1, <3>2
    <3>4. QED
      BY <2>2, <3>3
  <2>6. QED
    BY <1>2, <2>1, <2>2, <2>3, <2>5, OverlookedFacts
<1>5. QED
  BY <1>3, <1>4

LEMMA StepKeepsBase ==
  ASSUME Base, [Next]_vars
  PROVE  Base'
BY KindsOfSteps, ChatterKeepsBase, EnterKeepsBase, EventKeepsBase

-----------------------------------------------------------------------------
(* Logs grow.                                                              *)

LEMMA ExtendsKeeps ==
  ASSUME NEW s \in Seq(Lines), NEW t \in Seq(Lines), NEW K, Extends(s, t, K)
  PROVE  Len(t) >= Len(s) /\ SubSeq(t, 1, Len(s)) = s
<1> DEFINE n == Len(s)
           u == SubSeq(t, 1, n)
<1>1. n \in Nat /\ Len(t) \in Nat /\ Len(t) >= n /\ \A i \in 1 .. n : t[i] = s[i] /\ t[i] \in Lines
  BY DEF Extends
<1>2. /\ u \in Seq(Lines)
      /\ Len(u) = IF 1 <= n THEN n - 1 + 1 ELSE 0
      /\ \A i \in 1 .. n - 1 + 1 : u[i] = t[1 + i - 1]
  <2>1. 1 \in Int /\ n \in Int /\ \A i \in 1 .. n : t[i] \in Lines
    BY <1>1
  <2> HIDE DEF n
  <2> QED BY <2>1, SubSeqProperties
<1>3. Len(u) = n /\ \A i \in 1 .. n : u[i] = s[i]
  <2>1. n \in Nat /\ \A i \in 1 .. n : t[i] = s[i]
    BY <1>1
  <2> HIDE DEF n, u
  <2>2. n - 1 + 1 = n /\ \A i \in 1 .. n : 1 + i - 1 = i
    BY <2>1
  <2>3. QED
    BY <1>2, <2>1, <2>2
<1>4. u = s
  <2> HIDE DEF u
  <2> QED BY <1>2, <1>3, SeqEqual
<1>5. QED
  BY <1>1, <1>4

LEMMA OneLineWritten ==
  ASSUME Base, NEW name \in FileNames, NEW line \in Lines,
         logs' = [logs EXCEPT ![name] = Append(@, line)]
  PROVE  /\ logs' \in [FileNames -> Seq(Lines)]
         /\ logs'[name] = Append(logs[name], line)
         /\ \A p \in FileNames : Extends(logs[p], logs'[p], {line})
         /\ \A p \in FileNames \ {name} : logs'[p] = logs[p]
<1>1. logs \in [FileNames -> Seq(Lines)]
  BY DEF Base, TypeOK
<1>2. Append(logs[name], line) \in Seq(Lines)
      /\ Extends(logs[name], Append(logs[name], line), {line})
  BY <1>1, LineAdded
<1>3. \A p \in FileNames : Extends(logs[p], logs[p], {line})
  BY <1>1, NothingAdded
<1>4. QED
  BY <1>1, <1>2, <1>3

\* The line of an event, or what there is of it, goes to the log on top.
LEMMA EventLineWritten ==
  ASSUME Base,
         \/ \E kind \in Kinds, a \in Addresses, ty \in Types : EventWritten(kind, a, ty)
         \/ \E kind \in Kinds, ty \in Types : EventLost(kind, ty)
  PROVE  /\ \E line \in Lines : line.kind \in {"NEW", "DEL", "half"}
                                /\ logs' = [logs EXCEPT ![path[calling]] = Append(@, line)]
         /\ calling \in Tracers /\ path[calling] \in FileNames
         /\ stack # <<>> /\ calling = stack[Len(stack)]
         /\ stack' = stack /\ path' = path /\ session'.file = session.file
         /\ session'.rewritten = session.rewritten
<1>1. ASSUME NEW kind \in Kinds, NEW a \in Addresses, NEW ty \in Types, EventWritten(kind, a, ty)
      PROVE  /\ \E line \in Lines : line.kind \in {"NEW", "DEL", "half"}
                                    /\ logs' = [logs EXCEPT ![path[calling]] = Append(@, line)]
             /\ calling # None /\ stack' = stack /\ path' = path /\ session'.file = session.file
             /\ session'.rewritten = session.rewritten
  <2>1. calling # None /\ Log(kind, a, ty) /\ path' = path
    BY <1>1 DEF EventWritten, NamesKept
  <2> DEFINE new == Value(types_live_count[calling][ty]) + Delta(kind)
             line == EventLine(kind, a, ty, new)
  <2>2. line \in Lines /\ logs' = [logs EXCEPT ![path[calling]] = Append(@, line)]
        /\ new \in -MaxEvents .. MaxEvents
    BY <2>1, LogFacts
  <2>3. line.kind = kind
    BY <2>2, LineFacts
  <2>4. line.kind \in {"NEW", "DEL", "half"}
    BY <2>3 DEF Kinds
  <2>5. session'.file = session.file /\ session'.rewritten = session.rewritten
    <3>1. session \in Session
      BY DEF Base, TypeOK
    <3>2. QED
      BY <1>1, <3>1 DEF EventWritten, Session
  <2>6. stack' = stack
    BY <2>1 DEF Log, tracing
  <2> HIDE DEF line
  <2>7. QED
    BY <2>1, <2>2, <2>4, <2>5, <2>6
<1>2. ASSUME NEW kind \in Kinds, NEW ty \in Types, EventLost(kind, ty)
      PROVE  /\ \E line \in Lines : line.kind \in {"NEW", "DEL", "half"}
                                    /\ logs' = [logs EXCEPT ![path[calling]] = Append(@, line)]
             /\ calling # None /\ stack' = stack /\ path' = path /\ session'.file = session.file
             /\ session'.rewritten = session.rewritten
  <2>1. calling # None /\ LogFails(kind, ty) /\ path' = path /\ Overlooked
    BY <1>2 DEF EventLost, NamesKept
  <2>2. Line("half").kind = "half"
    BY LineFacts
  <2>3. QED
    BY <2>1, <2>2, LogFailsFacts, OverlookedFacts
<1>3. calling # None => /\ calling \in Tracers /\ path[calling] \in FileNames
                        /\ stack # <<>> /\ calling = stack[Len(stack)]
  BY StackFacts
<1>4. QED
  BY <1>1, <1>2, <1>3

\* A step keeps the log of a tracer as it is, or adds to it, but if the tracer is
\* entered, or another one to which the user has given the same path.
LEMMA LogsGrow ==
  ASSUME Base, [Next]_vars, NEW x \in Tracers, path[x] # None,
         ~ (\E y \in Tracers : OpensAgain(y, x))
  PROVE  Len(logs'[path[x]]) >= Len(logs[path[x]])
         /\ SubSeq(logs'[path[x]], 1, Len(logs[path[x]])) = logs[path[x]]
<1>1. path[x] \in FileNames /\ logs \in [FileNames -> Seq(Lines)]
  BY DEF Base, TypeOK
<1>2. logs' \in [FileNames -> Seq(Lines)]
  BY StepKeepsBase DEF Base, TypeOK
<1>3. ASSUME NEW K, Extends(logs[path[x]], logs'[path[x]], K)
      PROVE  Len(logs'[path[x]]) >= Len(logs[path[x]])
             /\ SubSeq(logs'[path[x]], 1, Len(logs[path[x]])) = logs[path[x]]
  BY <1>1, <1>2, <1>3, ExtendsKeeps
<1>4. ASSUME NEW y \in Tracers, Enter(y)
      PROVE  \E K : Extends(logs[path[x]], logs'[path[x]], K)
  <2>1. stack' = Append(stack, y) /\ MayEnter(y)
    BY <1>4 DEF Enter, Stacks!Begin
  <2>2. x # y /\ ~ (path'[y] \in Paths /\ path'[y] = path[x])
    BY <2>1 DEF OpensAgain
  <2>3. path[x] # path'[y]
    BY <2>1, <2>2, NameMadeUp
  <2>4. QED
    BY <1>1, <1>4, <2>3, OpenedFacts
<1>5. CASE Chatter /\ Overlooked
  BY <1>1, <1>3, <1>5 DEF Chatter
<1>6. ASSUME \/ \E kind \in Kinds, a \in Addresses, ty \in Types : EventWritten(kind, a, ty)
             \/ \E kind \in Kinds, ty \in Types : EventLost(kind, ty)
      PROVE  \E K : Extends(logs[path[x]], logs'[path[x]], K)
  <2>1. PICK line \in Lines : logs' = [logs EXCEPT ![path[calling]] = Append(@, line)]
    BY <1>6, EventLineWritten
  <2>2. path[calling] \in FileNames
    BY <1>6, EventLineWritten
  <2>3. Extends(logs[path[x]], logs'[path[x]], {line})
    BY <1>1, <2>1, <2>2, OneLineWritten
  <2>4. QED
    BY <2>3
<1>7. QED
  BY <1>3, <1>4, <1>5, <1>6, KindsOfSteps

-----------------------------------------------------------------------------
(* Nesting.                                                                *)

\* Messages may follow the last "detach"; and the log on top may grow.
LEMMA NestingKept ==
  ASSUME Base, Base', NestingWritten,
         stack' = stack \/ Popped,
         \A i \in 1 .. Len(stack) : path'[stack[i]] = path[stack[i]],
         \A i \in 1 .. Len(stack') - 1 :
           Extends(logs[path[stack[i]]], logs'[path[stack[i]]], {Line("MSG")})
  PROVE  NestingWritten'
<1> SUFFICES ASSUME NEW i \in 1 .. Len(stack') - 1
             PROVE  LET own == logs'[path'[stack'[i]]]
                    IN  \E k \in DOMAIN own :
                          /\ own[k] = Detached(path'[stack'[i + 1]])
                          /\ \A j \in k + 1 .. Len(own) : own[j].kind = "MSG"
  BY DEF NestingWritten
<1>1. /\ i \in 1 .. Len(stack) - 1 /\ i \in 1 .. Len(stack) /\ i + 1 \in 1 .. Len(stack)
      /\ stack'[i] = stack[i] /\ stack'[i + 1] = stack[i + 1]
  <2>1. CASE stack' = stack
    BY <2>1, StackFacts
  <2>2. CASE Popped
    <3>1. /\ Len(stack') = Len(stack) - 1 /\ Len(stack) \in Nat
          /\ \A k \in 1 .. Len(stack') : stack'[k] = stack[k]
      BY <2>2, PoppedFacts, StackFacts
    <3>2. i \in 1 .. Len(stack') /\ i + 1 \in 1 .. Len(stack')
      BY <3>1
    <3>3. QED
      BY <3>1, <3>2
  <2>3. QED
    BY <2>1, <2>2
<1> DEFINE was == logs[path[stack[i]]]
           own == logs'[path[stack[i]]]
<1>2. was \in Seq(Lines) /\ own \in Seq(Lines)
  BY <1>1, StackFacts DEF Base, TypeOK
<1>3. PICK k \in DOMAIN was :
        /\ was[k] = Detached(path[stack[i + 1]])
        /\ \A j \in k + 1 .. Len(was) : was[j].kind = "MSG"
  BY <1>1 DEF NestingWritten
<1>4. Extends(was, own, {Line("MSG")})
  OBVIOUS
<1>5. Len(was) \in Nat /\ Len(own) \in Nat /\ k \in 1 .. Len(was) /\ DOMAIN own = 1 .. Len(own)
  BY <1>2, <1>3
<1>6. k \in DOMAIN own /\ own[k] = Detached(path[stack[i + 1]])
  BY <1>3, <1>4, <1>5 DEF Extends
<1>7. ASSUME NEW j \in k + 1 .. Len(own)
      PROVE  own[j].kind = "MSG"
  <2>1. CASE j \in 1 .. Len(was)
    <3>1. j \in k + 1 .. Len(was)
      BY <1>5, <2>1
    <3>2. QED
      BY <1>3, <1>4, <2>1, <3>1 DEF Extends
  <2>2. CASE j \notin 1 .. Len(was)
    <3>1. j \in Len(was) + 1 .. Len(own)
      BY <1>5, <2>2
    <3>2. own[j] = Line("MSG")
      BY <1>4, <3>1 DEF Extends
    <3>3. QED
      BY <3>2, LineFacts
  <2>3. QED
    BY <2>1, <2>2
<1>8. path'[stack'[i]] = path[stack[i]] /\ path'[stack'[i + 1]] = path[stack[i + 1]]
  BY <1>1
<1>9. QED
  BY <1>6, <1>7, <1>8

LEMMA StepKeepsNesting ==
  ASSUME Base, [Next]_vars, NestingWritten
  PROVE  NestingWritten'
<1>1. Base'
  BY StepKeepsBase
<1>2. Len(stack) \in Nat /\ \A i \in 1 .. Len(stack) : path[stack[i]] \in FileNames
      /\ stack[i] \in Tracers
  BY StackFacts
<1>3. CASE Chatter /\ Overlooked
  <2>1. stack' = stack \/ Popped
    BY <1>3 DEF Chatter
  <2>2. ASSUME NEW i \in 1 .. Len(stack)
        PROVE  path'[stack[i]] = path[stack[i]]
    <3>1. CASE NamesKept
      BY <3>1 DEF NamesKept
    <3>2. ASSUME NEW x \in Tracers, MayEnter(x)
          PROVE  path'[stack[i]] = path[stack[i]]
      <4>1. stack[i] # x /\ stack[i] \in Tracers
        BY <1>2, <3>2 DEF MayEnter, Stacks!Stacked
      <4>2. QED
        BY <3>2, <4>1, NameMadeUp
    <3>3. QED
      BY <1>3, <3>1, <3>2 DEF Chatter
  <2>3. \A i \in 1 .. Len(stack') - 1 :
           Extends(logs[path[stack[i]]], logs'[path[stack[i]]], {Line("MSG")})
    <3>1. \A i \in 1 .. Len(stack') - 1 : i \in 1 .. Len(stack)
      <4>1. CASE stack' = stack
        BY <1>2, <4>1
      <4>2. CASE Popped
        <5>1. Len(stack') = Len(stack) - 1
          BY <4>2, PoppedFacts
        <5>2. QED
          BY <1>2, <5>1
      <4>3. QED
        BY <2>1, <4>1, <4>2
    <3>2. QED
      BY <1>2, <1>3, <3>1 DEF Chatter
  <2>4. QED
    BY <1>1, <2>1, <2>2, <2>3, NestingKept
<1>4. ASSUME \/ \E kind \in Kinds, a \in Addresses, ty \in Types : EventWritten(kind, a, ty)
             \/ \E kind \in Kinds, ty \in Types : EventLost(kind, ty)
      PROVE  NestingWritten'
  <2>1. /\ calling = stack[Len(stack)] /\ path[calling] \in FileNames
        /\ stack' = stack /\ path' = path
    BY <1>4, EventLineWritten
  <2>2. PICK line \in Lines : logs' = [logs EXCEPT ![path[calling]] = Append(@, line)]
    BY <1>4, EventLineWritten
  <2>3. ASSUME NEW i \in 1 .. Len(stack') - 1
        PROVE  Extends(logs[path[stack[i]]], logs'[path[stack[i]]], {Line("MSG")})
    <3>1. i \in 1 .. Len(stack) /\ Len(stack) \in 1 .. Len(stack) /\ i # Len(stack)
      BY <1>2, <2>1
    <3>2. path[stack[i]] # path[calling]
      BY <2>1, <3>1, StackFacts
    <3>3. logs'[path[stack[i]]] = logs[path[stack[i]]] /\ logs[path[stack[i]]] \in Seq(Lines)
      BY <1>2, <2>1, <2>2, <3>1, <3>2, OneLineWritten DEF Base, TypeOK
    <3>4. QED
      BY <3>3, NothingAdded
  <2>4. QED
    BY <1>1, <2>1, <2>3, NestingKept
<1>5. ASSUME NEW x \in Tracers, Enter(x)
      PROVE  NestingWritten'
  <2>1. MayEnter(x) /\ Stacks!Begin(x)
    BY <1>5 DEF Enter
  <2>2. /\ Len(stack') = Len(stack) + 1 /\ stack'[Len(stack')] = x
        /\ \A i \in 1 .. Len(stack) : stack'[i] = stack[i] /\ stack[i] # x
    BY <2>1, PushedFacts
  <2>3. \A i \in 1 .. Len(stack) : path'[stack[i]] = path[stack[i]] /\ path[stack[i]] # path'[x]
    BY <1>2, <2>1, <2>2, NameMadeUp
  <2>4. logs \in [FileNames -> Seq(Lines)]
    BY DEF Base, TypeOK
  <2> SUFFICES ASSUME NEW i \in 1 .. Len(stack') - 1
               PROVE  LET own == logs'[path'[stack'[i]]]
                      IN  \E k \in DOMAIN own :
                            /\ own[k] = Detached(path'[stack'[i + 1]])
                            /\ \A j \in k + 1 .. Len(own) : own[j].kind = "MSG"
    BY DEF NestingWritten
  <2>5. i \in 1 .. Len(stack) /\ stack'[i] = stack[i] /\ path'[stack[i]] = path[stack[i]]
        /\ path[stack[i]] \in FileNames \ {path'[x]} /\ Len(stack) \in 1 .. Len(stack)
    BY <1>2, <2>2, <2>3
  <2> DEFINE was == logs[path[stack[i]]]
             own == logs'[path[stack[i]]]
  <2>6. CASE i = Len(stack)
    <3>1. own = Append(was, Detached(path'[x])) /\ stack'[i + 1] = x
      <4>1. stack # <<>> /\ path[stack[i]] = path[stack[Len(stack)]]
        BY <2>5, <2>6, StackFacts
      <4>2. own = Append(was, Detached(path'[x]))
        BY <1>5, <2>5, <4>1, OpenedFacts
      <4>3. QED
        BY <2>2, <2>6, <4>2
    <3>2. Detached(path'[x]) \in Lines /\ was \in Seq(Lines)
      BY <2>1, <2>4, <2>5, NameMadeUp, LineFacts
    <3>3. Len(own) = Len(was) + 1 /\ own[Len(was) + 1] = Detached(path'[x]) /\ Len(was) \in Nat
          /\ DOMAIN own = 1 .. Len(own)
      <4> DEFINE line == Detached(path'[x])
      <4> HIDE DEF line
      <4>1. line \in Lines /\ own = Append(was, line)
        BY <3>1, <3>2 DEF line
      <4>2. QED
        BY <3>2, <4>1 DEF line
    <3>4. Len(was) + 1 \in DOMAIN own /\ \A j \in Len(was) + 2 .. Len(own) : FALSE
      BY <3>3
    <3>5. QED
      <4> DEFINE k == Len(was) + 1
      <4>1. k \in DOMAIN own /\ own[k] = Detached(path'[stack'[i + 1]])
        BY <3>1, <3>3, <3>4
      <4>2. \A j \in k + 1 .. Len(own) : own[j].kind = "MSG"
        BY <3>3
      <4>3. QED
        BY <2>5, <4>1, <4>2
  <2>7. CASE i # Len(stack)
    <3>1. i \in 1 .. Len(stack) - 1 /\ i + 1 \in 1 .. Len(stack)
      BY <1>2, <2>5, <2>7
    <3>2. path[stack[i]] # path[stack[Len(stack)]]
      BY <2>5, <2>7, StackFacts
    <3>3. own = was
      BY <1>5, <2>5, <3>2, OpenedFacts
    <3>4. stack'[i + 1] = stack[i + 1] /\ path'[stack[i + 1]] = path[stack[i + 1]]
      BY <2>2, <2>3, <3>1
    <3>5. \E k \in DOMAIN was :
            /\ was[k] = Detached(path[stack[i + 1]])
            /\ \A j \in k + 1 .. Len(was) : was[j].kind = "MSG"
      BY <3>1 DEF NestingWritten
    <3>6. QED
      BY <2>5, <3>3, <3>4, <3>5
  <2>8. QED
    BY <2>6, <2>7
<1>6. QED
  BY <1>3, <1>4, <1>5, KindsOfSteps

-----------------------------------------------------------------------------
(* Counting lines.                                                         *)

LEMMA NumberFacts ==
  ASSUME NEW s \in Seq(Lines), NEW K
  PROVE  /\ IsFiniteSet({i \in DOMAIN s : s[i] \in K})
         /\ Number(s, K) \in Nat
<1>1. DOMAIN s = 1 .. Len(s) /\ Len(s) \in Nat
  OBVIOUS
<1>2. IsFiniteSet(1 .. Len(s))
  BY <1>1, FS_Interval
<1>3. IsFiniteSet({i \in DOMAIN s : s[i] \in K})
  BY <1>1, <1>2, FS_Subset
<1>4. QED
  BY <1>3, FS_CardinalityType DEF Number

LEMMA NumberOfNone ==
  ASSUME NEW K
  PROVE  Number(<<>>, K) = 0
<1>1. {i \in DOMAIN <<>> : <<>>[i] \in K} = {}
  OBVIOUS
<1>2. QED
  BY <1>1, FS_EmptySet DEF Number

\* Lines of other sorts do not count.
LEMMA NumberKept ==
  ASSUME NEW s \in Seq(Lines), NEW t \in Seq(Lines), NEW M, NEW K, Extends(s, t, M), M \cap K = {}
  PROVE  Number(t, K) = Number(s, K)
<1>1. /\ DOMAIN s = 1 .. Len(s) /\ Len(s) \in Nat
      /\ DOMAIN t = 1 .. Len(t) /\ Len(t) \in Nat
  OBVIOUS
<1>2. ASSUME NEW i \in DOMAIN t, t[i] \in K
      PROVE  i \in DOMAIN s /\ s[i] \in K
  <2>1. i \notin Len(s) + 1 .. Len(t)
    BY <1>2 DEF Extends
  <2>2. i \in 1 .. Len(s)
    BY <1>1, <2>1
  <2>3. QED
    BY <1>1, <1>2, <2>2 DEF Extends
<1>3. ASSUME NEW i \in DOMAIN s, s[i] \in K
      PROVE  i \in DOMAIN t /\ t[i] \in K
  <2>1. i \in 1 .. Len(s) /\ i \in 1 .. Len(t)
    BY <1>1 DEF Extends
  <2>2. QED
    BY <1>1, <1>3, <2>1 DEF Extends
<1>4. {i \in DOMAIN t : t[i] \in K} = {i \in DOMAIN s : s[i] \in K}
  BY <1>2, <1>3
<1>5. QED
  BY <1>4 DEF Number

LEMMA OneMore ==
  ASSUME NEW s \in Seq(Lines), NEW line \in Lines, NEW K
  PROVE  Number(Append(s, line), K) = Number(s, K) + (IF line \in K THEN 1 ELSE 0)
<1> DEFINE t == Append(s, line)
           n == Len(s)
           old == {i \in DOMAIN s : s[i] \in K}
           new == {i \in DOMAIN t : t[i] \in K}
<1>1. /\ n \in Nat /\ DOMAIN s = 1 .. n /\ DOMAIN t = 1 .. n + 1
      /\ t[n + 1] = line /\ \A i \in 1 .. n : t[i] = s[i]
  BY LineAdded
<1>2. IsFiniteSet(old) /\ Cardinality(old) \in Nat
  BY NumberFacts DEF Number
<1>3. \A i \in 1 .. n + 1 : i \in 1 .. n \/ i = n + 1
  BY <1>1
<1>4. n + 1 \in 1 .. n + 1 /\ n + 1 \notin 1 .. n /\ \A i \in 1 .. n : i \in 1 .. n + 1
  BY <1>1
<1> HIDE DEF t, n
<1>5. CASE line \in K
  <2>1. new = old \cup {n + 1}
    BY <1>1, <1>3, <1>4, <1>5
  <2>2. n + 1 \notin old
    BY <1>1, <1>4
  <2>3. Cardinality(new) = Cardinality(old) + 1
    BY <1>2, <2>1, <2>2, FS_AddElement
  <2>4. QED
    BY <1>5, <2>3 DEF Number, t
<1>6. CASE line \notin K
  <2>1. new = old
    BY <1>1, <1>3, <1>4, <1>6
  <2>2. Number(t, K) = Number(s, K)
    BY <2>1 DEF Number
  <2>3. Number(s, K) \in Nat
    BY NumberFacts
  <2>4. Number(t, K) = Number(s, K) + (IF line \in K THEN 1 ELSE 0)
    BY <1>6, <2>2, <2>3
  <2>5. QED
    BY <2>4 DEF t
<1>7. QED
  BY <1>5, <1>6

-----------------------------------------------------------------------------
(* The counts and the lines.                                               *)

LEMMA MatchesMessages ==
  ASSUME NEW s \in Seq(Lines), NEW t \in Seq(Lines), NEW total, NEW table,
         Extends(s, t, {Line("MSG")}) \/ \E p \in FileNames : Extends(s, t, {Detached(p)}),
         Matches(s, total, table)
  PROVE  Matches(t, total, table)
<1>1. ASSUME NEW K, \A line \in K : line \in Lines /\ line.kind \in {"NEW", "DEL", "half"}
      PROVE  Number(t, K) = Number(s, K)
  <2>1. CASE Extends(s, t, {Line("MSG")})
    <3>1. {Line("MSG")} \cap K = {}
      BY <1>1, LineFacts
    <3>2. QED
      BY <2>1, <3>1, NumberKept
  <2>2. ASSUME NEW p \in FileNames, Extends(s, t, {Detached(p)})
        PROVE  Number(t, K) = Number(s, K)
    <3>1. {Detached(p)} \cap K = {}
      BY <1>1, LineFacts
    <3>2. QED
      BY <2>2, <3>1, NumberKept
  <2>3. QED
    BY <2>1, <2>2
<1>2. \A kind \in {"NEW", "DEL", "half"} : Number(t, OfKind(kind)) = Number(s, OfKind(kind))
  BY <1>1 DEF OfKind
<1>3. \A kind \in {"NEW", "DEL"}, ty \in Types :
        Number(t, OfType(kind, ty)) = Number(s, OfType(kind, ty))
  BY <1>1 DEF OfKind, OfType
<1>4. QED
  BY <1>2, <1>3 DEF Matches, Unwritten

LEMMA MatchesHalf ==
  ASSUME NEW s \in Seq(Lines), NEW total \in Nat, NEW table, Matches(s, total, table)
  PROVE  Matches(Append(s, Line("half")), total + 1, table)
<1> DEFINE line == Line("half")
           t == Append(s, line)
<1>1. line \in Lines /\ line.kind = "half"
  BY LineFacts
<1> HIDE DEF line
<1>2. line \in OfKind("half") /\ line \notin OfKind("NEW") /\ line \notin OfKind("DEL")
      /\ \A ty \in Types : line \notin OfType("NEW", ty) /\ line \notin OfType("DEL", ty)
  BY <1>1 DEF OfKind, OfType
<1>a. \A K : Number(s, K) \in Nat
  BY NumberFacts
<1>b. \A K : Number(t, K) = Number(s, K) + (IF line \in K THEN 1 ELSE 0)
  BY <1>1, OneMore
<1>c. \A K : line \notin K => Number(t, K) = Number(s, K)
  BY <1>a, <1>b
<1>3. /\ Number(t, OfKind("NEW")) = Number(s, OfKind("NEW"))
      /\ Number(t, OfKind("DEL")) = Number(s, OfKind("DEL"))
      /\ Number(t, OfKind("half")) = Number(s, OfKind("half")) + 1
  BY <1>2, <1>b, <1>c
<1>4. ASSUME NEW ty \in Types
      PROVE  /\ Number(t, OfType("NEW", ty)) = Number(s, OfType("NEW", ty))
             /\ Number(t, OfType("DEL", ty)) = Number(s, OfType("DEL", ty))
  BY <1>2, <1>c
<1>5. /\ Number(s, OfKind("NEW")) \in Nat /\ Number(s, OfKind("DEL")) \in Nat
      /\ Number(s, OfKind("half")) \in Nat
  BY <1>a
<1> DEFINE n == Number(s, OfKind("NEW"))
           d == Number(s, OfKind("DEL"))
           h == Number(s, OfKind("half"))
<1>6. /\ total - (n + d) >= h
      /\ total - (n + d) = h =>
           \A ty \in Types :
             Value(table[ty]) = Number(s, OfType("NEW", ty)) - Number(s, OfType("DEL", ty))
  BY DEF Matches, Unwritten
<1>7. /\ Number(t, OfKind("NEW")) = n /\ Number(t, OfKind("DEL")) = d
      /\ Number(t, OfKind("half")) = h + 1
  BY <1>3
<1> HIDE DEF t, n, d, h
<1>8. /\ (total + 1) - (n + d) >= h + 1
      /\ (total + 1) - (n + d) = h + 1 => total - (n + d) = h
  BY <1>5, <1>6 DEF n, d, h
<1>9. Matches(t, total + 1, table)
  <2>1. (total + 1) - (Number(t, OfKind("NEW")) + Number(t, OfKind("DEL"))) = (total + 1) - (n + d)
    BY <1>7
  <2>2. ASSUME (total + 1) - (n + d) = h + 1, NEW ty \in Types
        PROVE  Value(table[ty]) = Number(t, OfType("NEW", ty)) - Number(t, OfType("DEL", ty))
    BY <1>4, <1>6, <1>8, <2>2
  <2>3. (total + 1) - (Number(t, OfKind("NEW")) + Number(t, OfKind("DEL"))) >= Number(t, OfKind("half"))
    BY <1>7, <1>8, <2>1
  <2>4. ASSUME (total + 1) - (Number(t, OfKind("NEW")) + Number(t, OfKind("DEL")))
                 = Number(t, OfKind("half"))
        PROVE  \A ty \in Types :
                 Value(table[ty]) = Number(t, OfType("NEW", ty)) - Number(t, OfType("DEL", ty))
    <3>1. (total + 1) - (n + d) = h + 1
      BY <1>7, <2>1, <2>4
    <3>2. QED
      BY <2>2, <3>1
  <2>5. QED
    BY <2>3, <2>4, Zenon DEF Matches, Unwritten
<1>10. QED
  BY <1>9 DEF t, line

LEMMA MatchesEvent ==
  ASSUME NEW s \in Seq(Lines), NEW total \in Nat, NEW before, NEW after,
         NEW kind \in Kinds, NEW ty \in Types, NEW line \in Lines,
         line.kind = kind, line.type = ty,
         Value(before[ty]) \in Int, Value(after[ty]) = Value(before[ty]) + Delta(kind),
         \A other \in Types \ {ty} : Value(after[other]) = Value(before[other]),
         Matches(s, total, before)
  PROVE  Matches(Append(s, line), total + 1, after)
<1> DEFINE t == Append(s, line)
           n == Number(s, OfKind("NEW"))
           d == Number(s, OfKind("DEL"))
           h == Number(s, OfKind("half"))
           one(k) == IF k = kind THEN 1 ELSE 0
<1>1. line \notin OfKind("half") /\ \A k \in Kinds : line \in OfKind(k) <=> k = kind
  BY DEF OfKind, Kinds
<1>2. \A k \in Kinds, other \in Types : line \in OfType(k, other) <=> k = kind /\ other = ty
  BY <1>1 DEF OfType
<1>a. \A K : Number(s, K) \in Nat
  BY NumberFacts
<1>b. \A K : Number(t, K) = Number(s, K) + (IF line \in K THEN 1 ELSE 0)
  BY OneMore
<1>c. \A K : line \notin K => Number(t, K) = Number(s, K)
  BY <1>a, <1>b
<1>3. /\ Number(t, OfKind("NEW")) = n + one("NEW")
      /\ Number(t, OfKind("DEL")) = d + one("DEL")
      /\ Number(t, OfKind("half")) = h
      /\ n \in Nat /\ d \in Nat /\ h \in Nat
  <2>1. \A k \in Kinds : Number(t, OfKind(k)) = Number(s, OfKind(k)) + one(k)
    BY <1>1, <1>b
  <2>2. QED
    BY <1>1, <1>a, <1>c, <2>1 DEF Kinds
<1>4. ASSUME NEW other \in Types \ {ty}, NEW k \in Kinds
      PROVE  Number(t, OfType(k, other)) = Number(s, OfType(k, other))
  BY <1>2, <1>c
<1>5. ASSUME NEW k \in Kinds
      PROVE  Number(t, OfType(k, ty)) = Number(s, OfType(k, ty)) + one(k)
  BY <1>2, <1>b
<1>6. /\ total - (n + d) >= h
      /\ total - (n + d) = h =>
           \A other \in Types :
             Value(before[other]) = Number(s, OfType("NEW", other)) - Number(s, OfType("DEL", other))
  BY DEF Matches, Unwritten
<1>7. one("NEW") + one("DEL") = 1 /\ one("NEW") \in Int /\ one("DEL") \in Int
      /\ Delta(kind) = one("NEW") - one("DEL")
  BY DEF Kinds, Delta
<1> HIDE DEF t, n, d, h, one
<1>8. (total + 1) - ((n + one("NEW")) + (d + one("DEL"))) = total - (n + d)
  <2> DEFINE p == one("NEW")
             q == one("DEL")
  <2>1. p + q = 1 /\ p \in Int /\ q \in Int /\ n \in Int /\ d \in Int /\ total \in Int
    BY <1>3, <1>7
  <2> HIDE DEF p, q
  <2>2. (n + p) + (d + q) = (n + d) + 1
    BY <2>1
  <2>3. (total + 1) - ((n + p) + (d + q)) = total - (n + d)
    BY <2>1, <2>2
  <2>4. QED
    BY <2>3 DEF p, q
<1>9. ASSUME total - (n + d) = h, NEW other \in Types
      PROVE  Value(after[other]) = Number(t, OfType("NEW", other)) - Number(t, OfType("DEL", other))
  <2>1. Value(before[other]) = Number(s, OfType("NEW", other)) - Number(s, OfType("DEL", other))
    BY <1>6, <1>9
  <2>2. CASE other # ty
    BY <1>4, <2>1, <2>2 DEF Kinds
  <2>3. CASE other = ty
    <3> DEFINE v == Value(before[ty])
               a == Number(s, OfType("NEW", ty))
               b == Number(s, OfType("DEL", ty))
    <3>1. v = a - b /\ a \in Nat /\ b \in Nat /\ v \in Int
      BY <2>1, <2>3, NumberFacts
    <3>2. /\ Number(t, OfType("NEW", ty)) = a + one("NEW")
          /\ Number(t, OfType("DEL", ty)) = b + one("DEL")
          /\ Value(after[ty]) = v + (one("NEW") - one("DEL"))
      BY <1>5, <1>7 DEF Kinds
    <3> HIDE DEF v, a, b
    <3>3. v + (one("NEW") - one("DEL")) = (a + one("NEW")) - (b + one("DEL"))
      BY <1>7, <3>1
    <3>4. QED
      BY <2>3, <3>2, <3>3
  <2>4. QED
    BY <2>2, <2>3
<1>10. Matches(t, total + 1, after)
  <2>1. (total + 1) - (Number(t, OfKind("NEW")) + Number(t, OfKind("DEL"))) = total - (n + d)
    BY <1>3, <1>8
  <2>2. (total + 1) - (Number(t, OfKind("NEW")) + Number(t, OfKind("DEL"))) >= Number(t, OfKind("half"))
    BY <1>3, <1>6, <2>1
  <2>3. ASSUME (total + 1) - (Number(t, OfKind("NEW")) + Number(t, OfKind("DEL")))
                 = Number(t, OfKind("half"))
        PROVE  \A other \in Types :
                 Value(after[other]) =
                   Number(t, OfType("NEW", other)) - Number(t, OfType("DEL", other))
    <3>1. total - (n + d) = h
      BY <1>3, <2>1, <2>3
    <3>2. QED
      BY <1>9, <3>1
  <2>4. QED
    BY <2>2, <2>3, Zenon DEF Matches, Unwritten
<1>11. QED
  BY <1>10 DEF t


-----------------------------------------------------------------------------
(* The tables of the tracers and their logs.                               *)

\* What is popped is the last of the stack; names stay.
LEMMA NamesStay ==
  ASSUME Base, NamesKept \/ \E x \in Tracers : MayEnter(x)
  PROVE  \A y \in Tracers : path[y] # None => path'[y] = path[y]
<1>1. CASE NamesKept
  BY <1>1 DEF NamesKept
<1>2. ASSUME NEW x \in Tracers, MayEnter(x), NEW y \in Tracers, path[y] # None
      PROVE  path'[y] = path[y]
  BY <1>2, NameMadeUp
<1>3. QED
  BY <1>1, <1>2

LEMMA StackKept ==
  ASSUME Base, stack' = stack \/ Popped, NEW i \in 1 .. Len(stack')
  PROVE  i \in 1 .. Len(stack) /\ stack'[i] = stack[i]
<1>1. CASE Popped
  <2>1. Len(stack') = Len(stack) - 1 /\ \A k \in 1 .. Len(stack') : stack'[k] = stack[k]
    BY <1>1, PoppedFacts
  <2>2. QED
    BY <2>1, StackFacts
<1>2. QED
  BY <1>1

LEMMA ChatterKeepsTables ==
  ASSUME Base, Base', Tables, Chatter
  PROVE  Tables'
<1> SUFFICES ASSUME NEW i \in 1 .. Len(stack')
             PROVE  Matches(logs'[path'[stack'[i]]], TotalIn(count', stack'[i]),
                            types_live_count'[stack'[i]])
  BY DEF Tables, Total
<1>1. i \in 1 .. Len(stack) /\ stack'[i] = stack[i]
  BY StackKept DEF Chatter
<1> DEFINE x == stack[i]
           p == path[x]
<1>2. x \in Tracers /\ p \in FileNames /\ p # None
  BY <1>1, StackFacts DEF Base, Stacking
<1>3. path'[x] = p
  BY <1>2, NamesStay DEF Chatter
<1>4. Matches(logs[p], TotalIn(count, x), types_live_count[x])
  BY <1>1 DEF Tables, Total
<1>5. logs[p] \in Seq(Lines) /\ logs'[p] \in Seq(Lines) /\ Extends(logs[p], logs'[p], {Line("MSG")})
  BY <1>2 DEF Chatter, Base, TypeOK
<1>6. count' = count /\ types_live_count' = types_live_count
  BY DEF Chatter
<1> HIDE DEF x, p
<1>7. Matches(logs'[p], TotalIn(count, x), types_live_count[x])
  BY <1>4, <1>5, MatchesMessages
<1>8. QED
  BY <1>1, <1>3, <1>6, <1>7 DEF x

\* The log of a tracer that is stacked is empty: its table counts if it has counted nothing.
LEMMA EnterKeepsTables ==
  ASSUME Base, Base', Tables, NEW x \in Tracers, Enter(x)
  PROVE  Tables'
<1>1. MayEnter(x) /\ Stacks!Begin(x) /\ count' = count /\ types_live_count' = types_live_count
  BY DEF Enter
<1>2. /\ Len(stack') = Len(stack) + 1 /\ stack'[Len(stack')] = x
      /\ \A i \in 1 .. Len(stack) : stack'[i] = stack[i] /\ stack[i] # x
  BY <1>1, PushedFacts
<1>3. Len(stack) \in Nat /\ \A i \in 1 .. Len(stack) : stack[i] \in Tracers
  BY StackFacts
<1>4. Matches(<<>>, Total(x), types_live_count[x])
  <2> DEFINE total == Total(x)
  <2>1. /\ total \in Nat
        /\ \A ty \in Types : /\ Value(types_live_count[x][ty]) \in Int
                             /\ -total <= Value(types_live_count[x][ty])
                             /\ Value(types_live_count[x][ty]) <= total
    <3>1. count[x] \in [{"NEW", "DEL"} -> 0 .. MaxEvents] /\ MaxEvents \in Nat
      BY BoundsAssumption DEF Base, TypeOK
    <3>2. total \in Nat
      BY <3>1 DEF Total, TotalIn
    <3>3. \A ty \in Types : types_live_count[x][ty] \in (-MaxEvents .. MaxEvents) \cup {None}
      BY DEF Base, TypeOK
    <3>4. \A ty \in Types : Value(types_live_count[x][ty]) \in Int
      BY <3>1, <3>3 DEF Value
    <3>5. QED
      BY <3>2, <3>4 DEF Base, Bounded
  <2> HIDE DEF total
  <2>2. \A K : Number(<<>>, K) = 0
    BY NumberOfNone
  <2>3. Unwritten(<<>>, total) = total
    BY <2>1, <2>2 DEF Unwritten
  <2>4. Unwritten(<<>>, total) >= Number(<<>>, OfKind("half"))
    BY <2>1, <2>2, <2>3
  <2>5. ASSUME Unwritten(<<>>, total) = Number(<<>>, OfKind("half")), NEW ty \in Types
        PROVE  Value(types_live_count[x][ty])
                 = Number(<<>>, OfType("NEW", ty)) - Number(<<>>, OfType("DEL", ty))
    <3>1. total = 0
      BY <2>2, <2>3, <2>5
    <3>2. Value(types_live_count[x][ty]) = 0
      BY <2>1, <3>1
    <3>3. QED
      BY <2>2, <3>2
  <2>6. Matches(<<>>, total, types_live_count[x])
    BY <2>4, <2>5 DEF Matches
  <2>7. QED
    BY <2>6 DEF total
<1> SUFFICES ASSUME NEW i \in 1 .. Len(stack')
             PROVE  Matches(logs'[path'[stack'[i]]], TotalIn(count', stack'[i]),
                            types_live_count'[stack'[i]])
  BY DEF Tables, Total
<1>5. CASE i = Len(stack')
  BY <1>1, <1>2, <1>4, <1>5, OpenedFacts DEF Total
<1>6. CASE i # Len(stack')
  <2>1. i \in 1 .. Len(stack)
    BY <1>2, <1>3, <1>6
  <2> DEFINE y == stack[i]
             p == path[y]
  <2>2. y \in Tracers \ {x} /\ p \in FileNames \ {path'[x]} /\ stack'[i] = y
    <3>1. path[stack[i]] # path'[x]
      BY <2>1, OpenedFacts
    <3>2. path[stack[i]] \in FileNames
      BY <2>1, StackFacts
    <3>3. QED
      BY <1>2, <1>3, <2>1, <3>1, <3>2
  <2>3. path'[y] = p
    BY <1>1, <2>2, NameMadeUp
  <2>4. Matches(logs[p], TotalIn(count, y), types_live_count[y])
    BY <2>1 DEF Tables, Total
  <2>5. logs[p] \in Seq(Lines) /\ logs'[p] \in Seq(Lines)
        /\ Extends(logs[p], logs'[p], {Detached(path'[x])}) /\ path'[x] \in FileNames
    BY <1>1, <2>2, OpenedFacts, NameMadeUp DEF Base, TypeOK
  <2> HIDE DEF y, p
  <2>6. Matches(logs'[p], TotalIn(count, y), types_live_count[y])
    BY <2>4, <2>5, MatchesMessages
  <2>7. QED
    BY <1>1, <2>2, <2>3, <2>6
<1>7. QED
  BY <1>5, <1>6

LEMMA EventKeepsTables ==
  ASSUME Base, Base', Tables,
         \/ \E kind \in Kinds, a \in Addresses, ty \in Types : EventWritten(kind, a, ty)
         \/ \E kind \in Kinds, ty \in Types : EventLost(kind, ty)
  PROVE  Tables'
<1>1. /\ calling \in Tracers /\ path[calling] \in FileNames
      /\ stack # <<>> /\ calling = stack[Len(stack)]
      /\ stack' = stack /\ path' = path
  BY EventLineWritten
<1>2. Len(stack) \in 1 .. Len(stack)
  BY <1>1, StackFacts
<1>3. PICK line \in Lines : logs' = [logs EXCEPT ![path[calling]] = Append(@, line)]
  BY EventLineWritten
<1>4. \E kind \in Kinds : Counted(kind)
  BY DEF EventWritten, EventLost, Log, LogFails
<1>5. calling # None
  BY NamesAssumption, <1>1
<1>6. /\ TotalIn(count', calling) = Total(calling) + 1
      /\ \A x \in Tracers \ {calling} : TotalIn(count', x) = Total(x)
      /\ Total(calling) \in Nat
  BY <1>1, <1>4, <1>5, CountedFacts DEF Total
<1>7. \A x \in Tracers \ {calling} : types_live_count'[x] = types_live_count[x]
  <2>1. ASSUME NEW kind \in Kinds, NEW a \in Addresses, NEW ty \in Types, EventWritten(kind, a, ty)
        PROVE  \A x \in Tracers \ {calling} : types_live_count'[x] = types_live_count[x]
    <3>1. Log(kind, a, ty)
      BY <2>1 DEF EventWritten
    <3> DEFINE new == Value(types_live_count[calling][ty]) + Delta(kind)
    <3>2. types_live_count' = [types_live_count EXCEPT ![calling][ty] = new]
      BY <1>5, <3>1, LogFacts
    <3> HIDE DEF new
    <3>3. types_live_count \in [Tracers -> [Types -> (-MaxEvents .. MaxEvents) \cup {None}]]
      BY DEF Base, TypeOK
    <3>4. QED
      BY <3>2, <3>3
  <2>2. ASSUME NEW kind \in Kinds, NEW ty \in Types, EventLost(kind, ty)
        PROVE  types_live_count' = types_live_count
    BY <2>2 DEF EventLost, LogFails
  <2>3. QED
    BY <2>1, <2>2
<1>8. Matches(logs[path[calling]], Total(calling), types_live_count[calling])
  BY <1>1, <1>2 DEF Tables
<1>9. Matches(logs'[path[calling]], Total(calling) + 1, types_live_count'[calling])
  <2> DEFINE own == logs[path[calling]]
             total == Total(calling)
             table == types_live_count[calling]
  <2>1. own \in Seq(Lines) /\ total \in Nat
    BY <1>1, <1>6 DEF Base, TypeOK
  <2>2. ASSUME NEW kind \in Kinds, NEW a \in Addresses, NEW ty \in Types, EventWritten(kind, a, ty)
        PROVE  Matches(logs'[path[calling]], total + 1, types_live_count'[calling])
    <3> DEFINE new == Value(table[ty]) + Delta(kind)
               event == EventLine(kind, a, ty, new)
               after == types_live_count'[calling]
    <3>a. Log(kind, a, ty)
      BY <2>2 DEF EventWritten
    <3>1. /\ types_live_count' = [types_live_count EXCEPT ![calling][ty] = new]
          /\ new \in -MaxEvents .. MaxEvents
          /\ event \in Lines
          /\ logs' = [logs EXCEPT ![path[calling]] = Append(@, event)]
          /\ Value(table[ty]) \in Int
      BY <1>5, <3>a, LogFacts
    <3>2. event.kind = kind /\ event.type = ty
      BY <3>1, LineFacts
    <3>3. after[ty] = new /\ \A other \in Types \ {ty} : after[other] = table[other]
      <4>1. types_live_count \in [Tracers -> [Types -> (-MaxEvents .. MaxEvents) \cup {None}]]
        BY DEF Base, TypeOK
      <4>2. calling \in Tracers
        BY <1>5, StackFacts
      <4> HIDE DEF new, after
      <4>3. after = [types_live_count[calling] EXCEPT ![ty] = new]
        BY <3>1, <4>1, <4>2 DEF after
      <4>4. table \in [Types -> (-MaxEvents .. MaxEvents) \cup {None}]
        BY <1>1, <4>1, <4>2
      <4>5. QED
        BY <1>1, <4>3, <4>4
    <3>4. new # None
      BY <3>1, NamesAssumption
    <3>5. Value(after[ty]) = Value(table[ty]) + Delta(kind)
      BY <3>3, <3>4 DEF Value
    <3>6. \A other \in Types \ {ty} : Value(after[other]) = Value(table[other])
      BY <3>3
    <3>7. Matches(own, total, table)
      BY <1>8
    <3>8. logs'[path[calling]] = Append(own, event)
      BY <1>1, <3>1, OneLineWritten
    <3> HIDE DEF own, total, table, event, after, new
    <3>9. Matches(Append(own, event), total + 1, after)
      BY <2>1, <3>1, <3>2, <3>5, <3>6, <3>7, MatchesEvent
    <3>10. QED
      BY <3>8, <3>9 DEF after
  <2>3. ASSUME NEW kind \in Kinds, NEW ty \in Types, EventLost(kind, ty)
        PROVE  Matches(logs'[path[calling]], total + 1, types_live_count'[calling])
    <3>1. /\ logs' = [logs EXCEPT ![path[calling]] = Append(@, Line("half"))]
          /\ types_live_count' = types_live_count /\ Line("half") \in Lines
      BY <1>5, <2>3, LogFailsFacts DEF EventLost
    <3>2. logs'[path[calling]] = Append(own, Line("half"))
      BY <1>1, <3>1, OneLineWritten
    <3>3. Matches(own, total, table)
      BY <1>8
    <3> HIDE DEF own, total, table
    <3>4. Matches(Append(own, Line("half")), total + 1, table)
      BY <2>1, <3>3, MatchesHalf
    <3>5. QED
      BY <3>1, <3>2, <3>4 DEF table
  <2>4. QED
    BY <2>2, <2>3
<1> SUFFICES ASSUME NEW i \in 1 .. Len(stack')
             PROVE  Matches(logs'[path'[stack'[i]]], TotalIn(count', stack'[i]),
                            types_live_count'[stack'[i]])
  BY DEF Tables, Total
<1>10. CASE i = Len(stack)
  BY <1>1, <1>6, <1>9, <1>10
<1>11. CASE i # Len(stack)
  <2>1. i \in 1 .. Len(stack) /\ stack[i] \in Tracers /\ path[stack[i]] \in FileNames
        /\ path[stack[i]] # path[calling] /\ stack[i] # calling
    BY <1>1, <1>2, <1>11, StackFacts
  <2>2. logs'[path[stack[i]]] = logs[path[stack[i]]]
    BY <1>1, <1>3, <2>1, OneLineWritten
  <2>3. Matches(logs[path[stack[i]]], Total(stack[i]), types_live_count[stack[i]])
    BY <2>1 DEF Tables
  <2>4. QED
    BY <1>1, <1>6, <1>7, <2>1, <2>2, <2>3
<1>12. QED
  BY <1>10, <1>11

LEMMA StepKeepsTables ==
  ASSUME Base, [Next]_vars, Tables
  PROVE  Tables'
BY StepKeepsBase, KindsOfSteps, ChatterKeepsTables, EnterKeepsTables, EventKeepsTables

\* The queries answer for the tracer on top.
LEMMA TablesAnswer ==
  ASSUME Base, Tables
  PROVE  QueriesMatchLog
<1> SUFFICES ASSUME stack # <<>>
             PROVE  QueriesMatchLog
  BY DEF QueriesMatchLog
<1> DEFINE x == Stacks!Top(stack)
           own == logs[path[x]]
           table == types_live_count[x]
           lines(kind) == {i \in DOMAIN own : own[i].kind = kind}
           of(kind, ty) == {i \in lines(kind) : own[i].type = ty}
           counted == [ty \in {known \in Types : table[known] # None} |-> table[ty]]
           unwritten == count[x].NEW - Cardinality(lines("NEW"))
                        + count[x].DEL - Cardinality(lines("DEL"))
<1>1. x \in Tracers /\ path[x] \in FileNames /\ Matches(own, Total(x), table)
  <2>1. Len(stack) \in 1 .. Len(stack) /\ x = stack[Len(stack)]
    BY StackFacts
  <2>2. QED
    BY <2>1, StackFacts DEF Tables
<1>2. own \in Seq(Lines) /\ count[x].NEW \in Nat /\ count[x].DEL \in Nat
  <2>1. count[x] \in [{"NEW", "DEL"} -> 0 .. MaxEvents] /\ MaxEvents \in Nat
    BY <1>1, BoundsAssumption DEF Base, TypeOK
  <2>2. QED
    BY <1>1, <2>1 DEF Base, TypeOK
<1>3. \A i \in DOMAIN own : own[i] \in Lines
  BY <1>2
<1>4. \A kind : Cardinality(lines(kind)) = Number(own, OfKind(kind))
  <2>1. \A kind : lines(kind) = {i \in DOMAIN own : own[i] \in OfKind(kind)}
    BY <1>3 DEF OfKind
  <2>2. QED
    BY <2>1 DEF Number
<1>5. \A kind, ty : Cardinality(of(kind, ty)) = Number(own, OfType(kind, ty))
  <2>1. ASSUME NEW kind, NEW ty
        PROVE  of(kind, ty) = {i \in DOMAIN own : own[i] \in OfType(kind, ty)}
    <3> HIDE DEF own
    <3>1. \A i \in DOMAIN own :
            own[i] \in OfType(kind, ty) <=> own[i].kind = kind /\ own[i].type = ty
      BY <1>3 DEF OfKind, OfType
    <3>2. QED
      BY <3>1
  <2>2. ASSUME NEW kind, NEW ty
        PROVE  Cardinality(of(kind, ty)) = Number(own, OfType(kind, ty))
    <3> HIDE DEF of, own
    <3>1. QED
      BY <2>1 DEF Number
  <2>3. QED
    BY <2>2
<1>6. unwritten = Unwritten(own, Total(x))
  <2> DEFINE n == Number(own, OfKind("NEW"))
             d == Number(own, OfKind("DEL"))
             cn == count[x].NEW
             cd == count[x].DEL
  <2>1. n \in Nat /\ d \in Nat /\ cn \in Nat /\ cd \in Nat
    BY <1>2, NumberFacts
  <2>2. /\ unwritten = cn - n + cd - d
        /\ Unwritten(own, Total(x)) = (cn + cd) - (n + d)
    BY <1>4 DEF Unwritten, Total, TotalIn
  <2> HIDE DEF n, d, cn, cd, unwritten
  <2>3. cn - n + cd - d = (cn + cd) - (n + d)
    BY <2>1
  <2>4. QED
    BY <2>2, <2>3
<1>7. unwritten >= Cardinality(lines("half"))
  BY <1>1, <1>4, <1>6 DEF Matches
<1>8. ASSUME unwritten = Cardinality(lines("half")), NEW ty \in Types
      PROVE  Cardinality(of("NEW", ty)) - Cardinality(of("DEL", ty))
               = IF ty \in DOMAIN counted THEN counted[ty] ELSE 0
  <2>1. Value(table[ty]) = Number(own, OfType("NEW", ty)) - Number(own, OfType("DEL", ty))
    BY <1>1, <1>4, <1>6, <1>8 DEF Matches
  <2>2. Value(table[ty]) = IF ty \in DOMAIN counted THEN counted[ty] ELSE 0
    BY DEF Value
  <2>3. QED
    BY <1>5, <2>1, <2>2
<1>9. QED
  BY <1>7, <1>8 DEF QueriesMatchLog, reference_tracing_log_path, reference_tracing_ll_get_data,
     cpyReferenceTracing_dict_of_live_objects, cpyReferenceTracing_count_new,
     cpyReferenceTracing_count_del

-----------------------------------------------------------------------------
(***************************************************************************)
(* The reader's recursions.  A function that is defined by recursion is    *)
(* chosen among those that satisfy its equation: that there is one, and    *)
(* what follows from the equation, is proved for the smallest number for   *)
(* which it could fail.                                                    *)
(***************************************************************************)

\* A set of natural numbers has a smallest element.
LEMMA SmallestNumber ==
  ASSUME NEW S \in SUBSET Nat, S # {}
  PROVE  \E m \in S : \A k \in S : m <= k
<1> DEFINE Less == OpToRel(<, Nat)
<1>1. IsWellFoundedOn(Less, Nat)
  BY NatLessThanWellFounded
<1>2. \A k, m \in Nat : k < m => <<k, m>> \in Less
  BY DEF OpToRel
<1> HIDE DEF Less
<1>3. PICK m \in S : \A k \in S : ~ (<<k, m>> \in Less)
  BY <1>1, WFMin
<1>4. ASSUME NEW k \in S
      PROVE  m <= k
  <2>1. k \in Nat /\ m \in Nat /\ <<k, m>> \notin Less
    BY <1>3
  <2>2. k < m => <<k, m>> \in Less
    BY <1>2, <2>1
  <2>3. QED
    BY <2>1, <2>2
<1>5. QED
  BY <1>4

\* So a set of them that has 0 and, with each number, the next, has all of them.
LEMMA Induct ==
  ASSUME NEW P \in SUBSET Nat, NEW n \in Nat, 0 \in P,
         \A m \in Nat : m < n /\ m \in P => m + 1 \in P
  PROVE  n \in P
<1> DEFINE Bad == {m \in Nat : m <= n /\ m \notin P}
<1>1. SUFFICES ASSUME Bad # {} PROVE FALSE
  OBVIOUS
<1>2. Bad \in SUBSET Nat
  OBVIOUS
<1>3. PICK m \in Bad : \A k \in Bad : m <= k
  <2> HIDE DEF Bad
  <2> QED BY <1>1, <1>2, SmallestNumber
<1>4. m \in Nat /\ m <= n /\ m \notin P /\ m # 0
  BY <1>3
<1>5. m - 1 \in Nat /\ m - 1 < n /\ ~ (m <= m - 1) /\ (m - 1) + 1 = m
  BY <1>4
<1>6. m - 1 \in P
  BY <1>3, <1>5
<1>7. QED
  BY <1>4, <1>5, <1>6

\* Sequences one after the other.
IsFlat(flat, ss, n) ==
  flat = [i \in 1 .. n |-> IF i = 1 THEN ss[i] ELSE flat[i - 1] \o ss[i]]

LEMMA FlatExists ==
  ASSUME NEW ss, NEW n \in Nat
  PROVE  \E flat : IsFlat(flat, ss, n)
<1> DEFINE P == {m \in Nat : \E flat : IsFlat(flat, ss, m)}
<1>1. 0 \in P
  <2> DEFINE flat == [i \in 1 .. 0 |-> <<>>]
  <2>1. flat = [i \in 1 .. 0 |-> IF i = 1 THEN ss[i] ELSE flat[i - 1] \o ss[i]]
    OBVIOUS
  <2>2. QED
    BY <2>1 DEF IsFlat
<1>2. ASSUME NEW m \in Nat, m \in P
      PROVE  m + 1 \in P
  <2>1. PICK before : IsFlat(before, ss, m)
    BY <1>2
  <2> DEFINE Next1(f, i) == IF i = 1 THEN ss[i] ELSE f[i - 1] \o ss[i]
             flat == [i \in 1 .. m + 1 |-> Next1(before, i)]
  <2>2. ASSUME NEW i \in 1 .. m + 1
        PROVE  flat[i] = Next1(flat, i)
    <3>1. CASE i = 1
      BY <3>1
    <3>2. CASE i # 1
      <4>1. i - 1 \in 1 .. m /\ i - 1 \in 1 .. m + 1
        BY <1>2, <3>2
      <4>2. before[i - 1] = Next1(before, i - 1)
        BY <2>1, <4>1 DEF IsFlat
      <4>3. flat[i - 1] = Next1(before, i - 1)
        BY <4>1
      <4>4. flat[i] = Next1(before, i)
        OBVIOUS
      <4> HIDE DEF flat
      <4>5. QED
        BY <3>2, <4>2, <4>3, <4>4
    <3>3. QED
      BY <3>1, <3>2
  <2>3. flat = [i \in 1 .. m + 1 |-> flat[i]]
    OBVIOUS
  <2> HIDE DEF flat
  <2>4. IsFlat(flat, ss, m + 1)
    BY <2>2, <2>3 DEF IsFlat
  <2>5. QED
    BY <1>2, <2>4
<1>3. P \in SUBSET Nat
  OBVIOUS
<1> HIDE DEF P
<1>4. n \in P
  BY <1>1, <1>2, <1>3, Induct
<1>5. QED
  BY <1>4 DEF P

LEMMA FlattenSeqFacts ==
  ASSUME NEW ss, Len(ss) \in Nat
  PROVE  \E flat : /\ IsFlat(flat, ss, Len(ss))
                   /\ Len(ss) > 0 => Reader!FlattenSeq(ss) = flat[Len(ss)]
                   /\ Len(ss) = 0 => Reader!FlattenSeq(ss) = ss
<1> DEFINE flat == CHOOSE f : IsFlat(f, ss, Len(ss))
<1>1. Reader!FlattenSeq(ss) = IF Len(ss) = 0 THEN ss ELSE flat[Len(ss)]
  BY DEF Reader!FlattenSeq, IsFlat
<1>2. IsFlat(flat, ss, Len(ss))
  BY FlatExists
<1> HIDE DEF flat
<1>3. QED
  BY <1>1, <1>2

\* The files below the ones that are read.
OrderOf(l, n, below) ==
  [p \in DOMAIN l |->
     Reader!FlattenSeq([i \in 1 .. Len(l[p]) |->
       <<l[p][i]>> \o IF l[p][i].kind = "detach" /\ n > 0 THEN below[l[p][i].file] ELSE <<>>])]

IsOrder(order, l, depth) == order = [n \in 0 .. depth |-> OrderOf(l, n, order[n - 1])]

LEMMA OrderExists ==
  ASSUME NEW l, NEW depth \in Nat
  PROVE  \E order : IsOrder(order, l, depth)
<1> DEFINE P == {m \in Nat : \E order : IsOrder(order, l, m)}
<1>1. ASSUME NEW below, NEW other
      PROVE  OrderOf(l, 0, below) = OrderOf(l, 0, other)
  BY DEF OrderOf
<1>2. 0 \in P
  <2> DEFINE order == [n \in 0 .. 0 |-> OrderOf(l, n, <<>>)]
  <2>1. \A n \in 0 .. 0 : order[n] = OrderOf(l, n, order[n - 1])
    <3>1. ASSUME NEW n \in 0 .. 0
          PROVE  order[n] = OrderOf(l, n, order[n - 1])
      <4>1. n = 0
        OBVIOUS
      <4>2. order[n] = OrderOf(l, n, <<>>)
        OBVIOUS
      <4> HIDE DEF order
      <4>3. QED
        BY <1>1, <4>1, <4>2
    <3>2. QED
      BY <3>1
  <2>2. order = [n \in 0 .. 0 |-> order[n]]
    OBVIOUS
  <2> HIDE DEF order
  <2>3. IsOrder(order, l, 0)
    BY <2>1, <2>2 DEF IsOrder
  <2>4. QED
    BY <2>3
<1>3. ASSUME NEW m \in Nat, m \in P
      PROVE  m + 1 \in P
  <2>1. PICK before : IsOrder(before, l, m)
    BY <1>3
  <2> DEFINE order == [n \in 0 .. m + 1 |-> OrderOf(l, n, before[n - 1])]
  <2>2. ASSUME NEW n \in 0 .. m + 1
        PROVE  order[n] = OrderOf(l, n, order[n - 1])
    <3>1. order[n] = OrderOf(l, n, before[n - 1])
      OBVIOUS
    <3>2. CASE n = 0
      <4> HIDE DEF order
      <4> QED
        BY <1>1, <3>1, <3>2
    <3>3. CASE n # 0
      <4>1. n - 1 \in 0 .. m /\ n - 1 \in 0 .. m + 1
        BY <1>3, <3>3
      <4>2. before[n - 1] = OrderOf(l, n - 1, before[(n - 1) - 1])
        BY <2>1, <4>1 DEF IsOrder
      <4>3. order[n - 1] = OrderOf(l, n - 1, before[(n - 1) - 1])
        BY <4>1
      <4> HIDE DEF order
      <4>4. QED
        BY <3>1, <4>2, <4>3
    <3>4. QED
      BY <3>2, <3>3
  <2>3. order = [n \in 0 .. m + 1 |-> order[n]]
    OBVIOUS
  <2> HIDE DEF order
  <2>4. IsOrder(order, l, m + 1)
    BY <2>2, <2>3 DEF IsOrder
  <2>5. QED
    BY <1>3, <2>4
<1>4. P \in SUBSET Nat
  OBVIOUS
<1> HIDE DEF P
<1>5. depth \in P
  BY <1>2, <1>3, <1>4, Induct
<1>6. QED
  BY <1>5 DEF P

LEMMA ReadingOrderFacts ==
  ASSUME NEW l, NEW depth \in Nat
  PROVE  \E order : /\ IsOrder(order, l, depth)
                    /\ \A p : Reader!ReadingOrder(l, depth, p) = order[depth][p]
<1> DEFINE order == CHOOSE f : IsOrder(f, l, depth)
<1>1. \A p : Reader!ReadingOrder(l, depth, p) = order[depth][p]
  BY DEF Reader!ReadingOrder, IsOrder, OrderOf
<1>2. IsOrder(order, l, depth)
  BY OrderExists
<1>3. QED
  BY <1>1, <1>2

-----------------------------------------------------------------------------
(* What lines say, one sequence after the other.                           *)

Holds(s, line) == \E i \in 1 .. Len(s) : s[i] = line

LEMMA Joined ==
  ASSUME NEW s \in Seq(Lines), NEW t \in Seq(Lines)
  PROVE  /\ s \o t \in Seq(Lines) /\ Len(s \o t) = Len(s) + Len(t)
         /\ Len(s) \in Nat /\ Len(t) \in Nat
         /\ \A i \in 1 .. Len(s) : (s \o t)[i] = s[i]
         /\ \A j \in 1 .. Len(t) : (s \o t)[Len(s) + j] = t[j]
         /\ \A k \in 1 .. Len(s \o t) :
              k \in 1 .. Len(s) \/ \E j \in 1 .. Len(t) : k = Len(s) + j
<1>1. Len(s) \in Nat /\ Len(t) \in Nat
  OBVIOUS
<1>2. s \o t \in Seq(Lines) /\ Len(s \o t) = Len(s) + Len(t)
      /\ \A i \in 1 .. Len(s) + Len(t) : (s \o t)[i] = IF i <= Len(s) THEN s[i] ELSE t[i - Len(s)]
  BY ConcatProperties
<1> DEFINE u == s \o t
           n == Len(s)
           m == Len(t)
<1>3. n \in Nat /\ m \in Nat /\ Len(u) = n + m
      /\ \A i \in 1 .. n + m : u[i] = IF i <= n THEN s[i] ELSE t[i - n]
  BY <1>1, <1>2
<1> HIDE DEF u, n, m
<1>4. \A i \in 1 .. n : u[i] = s[i]
  BY <1>3
<1>5. ASSUME NEW j \in 1 .. m
      PROVE  u[n + j] = t[j]
  <2>1. n + j \in 1 .. n + m /\ ~ (n + j <= n) /\ (n + j) - n = j
    BY <1>3
  <2>2. QED
    BY <1>3, <2>1
<1>6. ASSUME NEW k \in 1 .. n + m, k \notin 1 .. n
      PROVE  \E j \in 1 .. m : k = n + j
  <2>1. k - n \in 1 .. m /\ k = n + (k - n)
    BY <1>3, <1>6
  <2>2. QED
    BY <2>1
<1>7. QED
  BY <1>2, <1>3, <1>4, <1>5, <1>6 DEF u, n, m

LEMMA JoinedHolds ==
  ASSUME NEW s \in Seq(Lines), NEW t \in Seq(Lines), NEW line
  PROVE  Holds(s \o t, line) <=> Holds(s, line) \/ Holds(t, line)
<1> DEFINE u == s \o t
           n == Len(s)
           m == Len(t)
<1>1. /\ n \in Nat /\ m \in Nat /\ Len(u) = n + m
      /\ \A i \in 1 .. n : u[i] = s[i]
      /\ \A j \in 1 .. m : u[n + j] = t[j]
      /\ \A k \in 1 .. n + m : k \in 1 .. n \/ \E j \in 1 .. m : k = n + j
  BY Joined
<1>2. ASSUME NEW k \in 1 .. Len(u), u[k] = line
      PROVE  Holds(s, line) \/ Holds(t, line)
  <2> HIDE DEF u
  <2>1. CASE k \in 1 .. n
    BY <1>1, <1>2, <2>1 DEF Holds
  <2>2. CASE \E j \in 1 .. m : k = n + j
    BY <1>1, <1>2, <2>2 DEF Holds
  <2>3. QED
    BY <1>1, <2>1, <2>2
<1>3. ASSUME NEW i \in 1 .. n, s[i] = line
      PROVE  Holds(u, line)
  <2> HIDE DEF u
  <2>1. i \in 1 .. Len(u)
    BY <1>1
  <2>2. QED
    BY <1>1, <1>3, <2>1 DEF Holds
<1>4. ASSUME NEW j \in 1 .. m, t[j] = line
      PROVE  Holds(u, line)
  <2> HIDE DEF u
  <2>1. n + j \in 1 .. Len(u)
    BY <1>1
  <2>2. QED
    BY <1>1, <1>4, <2>1 DEF Holds
<1>5. QED
  BY <1>2, <1>3, <1>4 DEF Holds

LEMMA JoinedSilent ==
  ASSUME NEW s \in Seq(Lines), NEW t \in Seq(Lines), NEW a
  PROVE  Silent(s \o t, a) <=> Silent(s, a) /\ Silent(t, a)
<1> DEFINE u == s \o t
           n == Len(s)
           m == Len(t)
<1>1. /\ n \in Nat /\ m \in Nat /\ Len(u) = n + m
      /\ \A i \in 1 .. n : u[i] = s[i]
      /\ \A j \in 1 .. m : u[n + j] = t[j]
      /\ \A k \in 1 .. n + m : k \in 1 .. n \/ \E j \in 1 .. m : k = n + j
  BY Joined
<1> HIDE DEF u
<1>2. ASSUME Silent(u, a)
      PROVE  Silent(s, a) /\ Silent(t, a)
  <2>1. \A k \in 1 .. n + m : ~ About(u[k], a)
    BY <1>1, <1>2 DEF Silent, SilentUpTo
  <2>2. \A i \in 1 .. n : i \in 1 .. n + m
    BY <1>1
  <2>3. \A j \in 1 .. m : n + j \in 1 .. n + m
    BY <1>1
  <2>4. \A i \in 1 .. n : ~ About(s[i], a)
    BY <1>1, <2>1, <2>2
  <2>5. \A j \in 1 .. m : ~ About(t[j], a)
    BY <1>1, <2>1, <2>3
  <2>6. QED
    BY <2>4, <2>5 DEF Silent, SilentUpTo
<1>3. ASSUME Silent(s, a), Silent(t, a)
      PROVE  Silent(u, a)
  <2>1. ASSUME NEW k \in 1 .. n + m
        PROVE  ~ About(u[k], a)
    <3>1. CASE k \in 1 .. n
      BY <1>1, <1>3, <3>1 DEF Silent, SilentUpTo
    <3>2. ASSUME NEW j \in 1 .. m, k = n + j
          PROVE  ~ About(u[k], a)
      BY <1>1, <1>3, <3>2 DEF Silent, SilentUpTo
    <3>3. QED
      BY <1>1, <3>1, <3>2
  <2>2. QED
    BY <1>1, <2>1 DEF Silent, SilentUpTo
<1>4. QED
  BY <1>2, <1>3 DEF u

LEMMA JoinedSays ==
  ASSUME NEW s \in Seq(Lines), NEW t \in Seq(Lines), NEW a, NEW kind, NEW ty
  PROVE  LastSays(s \o t, a, kind, ty) <=>
           LastSays(t, a, kind, ty) \/ (LastSays(s, a, kind, ty) /\ Silent(t, a))
<1> DEFINE u == s \o t
           n == Len(s)
           m == Len(t)
<1>1. /\ n \in Nat /\ m \in Nat /\ Len(u) = n + m
      /\ \A i \in 1 .. n : u[i] = s[i]
      /\ \A j \in 1 .. m : u[n + j] = t[j]
      /\ \A k \in 1 .. n + m : k \in 1 .. n \/ \E j \in 1 .. m : k = n + j
  BY Joined
<1> HIDE DEF u
<1>2. ASSUME NEW k \in 1 .. n + m, Tells(u[k], a, kind, ty),
             \A j \in k + 1 .. n + m : ~ About(u[j], a)
      PROVE  LastSays(t, a, kind, ty) \/ (LastSays(s, a, kind, ty) /\ Silent(t, a))
  <2>1. CASE k \in 1 .. n
    <3>1. Tells(s[k], a, kind, ty)
      BY <1>1, <1>2, <2>1
    <3>2. \A j \in k + 1 .. n : j \in 1 .. n /\ j \in k + 1 .. n + m
      BY <1>1, <2>1
    <3>3. \A j \in k + 1 .. n : ~ About(s[j], a)
      BY <1>1, <1>2, <3>2
    <3>4. \A j \in 1 .. m : n + j \in k + 1 .. n + m
      BY <1>1, <2>1
    <3>5. \A j \in 1 .. m : ~ About(t[j], a)
      BY <1>1, <1>2, <3>4
    <3>6. QED
      BY <2>1, <3>1, <3>3, <3>5 DEF LastSays, SaysUpTo, Silent, SilentUpTo
  <2>2. ASSUME NEW i \in 1 .. m, k = n + i
        PROVE  LastSays(t, a, kind, ty)
    <3>1. Tells(t[i], a, kind, ty)
      BY <1>1, <1>2, <2>2
    <3>2. \A j \in i + 1 .. m : j \in 1 .. m /\ n + j \in k + 1 .. n + m
      BY <1>1, <2>2
    <3>3. \A j \in i + 1 .. m : ~ About(t[j], a)
      BY <1>1, <1>2, <3>2
    <3>4. QED
      BY <3>1, <3>3 DEF LastSays, SaysUpTo
  <2>3. QED
    BY <1>1, <2>1, <2>2
<1>3. ASSUME NEW i \in 1 .. m, Tells(t[i], a, kind, ty), \A j \in i + 1 .. m : ~ About(t[j], a)
      PROVE  LastSays(u, a, kind, ty)
  <2>1. n + i \in 1 .. n + m /\ Tells(u[n + i], a, kind, ty)
    BY <1>1, <1>3
  <2>2. ASSUME NEW k \in n + i + 1 .. n + m
        PROVE  ~ About(u[k], a)
    <3>1. k - n \in 1 .. m /\ k - n \in i + 1 .. m /\ n + (k - n) = k
      BY <1>1, <2>2
    <3>2. QED
      BY <1>1, <1>3, <3>1
  <2>3. QED
    BY <1>1, <2>1, <2>2 DEF LastSays, SaysUpTo
<1>4. ASSUME NEW i \in 1 .. n, Tells(s[i], a, kind, ty), \A j \in i + 1 .. n : ~ About(s[j], a),
             Silent(t, a)
      PROVE  LastSays(u, a, kind, ty)
  <2>1. i \in 1 .. n + m /\ Tells(u[i], a, kind, ty)
    BY <1>1, <1>4
  <2>2. ASSUME NEW k \in i + 1 .. n + m
        PROVE  ~ About(u[k], a)
    <3>1. k \in 1 .. n + m
      BY <1>1, <2>2
    <3>2. CASE k \in 1 .. n
      <4>1. k \in i + 1 .. n
        BY <1>1, <2>2, <3>2
      <4>2. QED
        BY <1>1, <1>4, <3>2, <4>1
    <3>3. ASSUME NEW j \in 1 .. m, k = n + j
          PROVE  ~ About(u[k], a)
      BY <1>1, <1>4, <3>3 DEF Silent, SilentUpTo
    <3>4. QED
      BY <1>1, <3>1, <3>2, <3>3
  <2>3. QED
    BY <1>1, <2>1, <2>2 DEF LastSays, SaysUpTo
<1>5. QED
  BY <1>1, <1>2, <1>3, <1>4 DEF LastSays, SaysUpTo, u

\* s is the first n sequences of ss, one after the other: it has their lines,
\* and what it says last is what the last of them says that is not silent.
IsAllOf(s, ss, n) ==
  /\ s \in Seq(Lines)
  /\ \A line : Holds(s, line) <=> \E i \in 1 .. n : Holds(ss[i], line)
  /\ \A a : Silent(s, a) <=> \A i \in 1 .. n : Silent(ss[i], a)
  /\ \A a, kind, ty :
       LastSays(s, a, kind, ty) <=>
         \E i \in 1 .. n : LastSays(ss[i], a, kind, ty) /\ \A j \in i + 1 .. n : Silent(ss[j], a)

LEMMA NothingToSay ==
  ASSUME NEW a
  PROVE  /\ \A line : ~ Holds(<<>>, line)
         /\ Silent(<<>>, a)
         /\ \A kind, ty : ~ LastSays(<<>>, a, kind, ty)
<1>1. Len(<<>>) = 0 /\ \A i \in 1 .. 0 : FALSE
  OBVIOUS
<1>2. QED
  BY <1>1 DEF Holds, Silent, SilentUpTo, LastSays, SaysUpTo

LEMMA AllOfNone ==
  ASSUME NEW ss
  PROVE  IsAllOf(<<>>, ss, 0)
<1>1. \A i \in 1 .. 0 : FALSE
  OBVIOUS
<1>2. <<>> \in Seq(Lines)
  OBVIOUS
<1>3. QED
  BY <1>1, <1>2, NothingToSay DEF IsAllOf

LEMMA OneMorePiece ==
  ASSUME NEW s, NEW ss, NEW n \in Nat, IsAllOf(s, ss, n), ss[n + 1] \in Seq(Lines)
  PROVE  IsAllOf(s \o ss[n + 1], ss, n + 1)
<1> DEFINE t == ss[n + 1]
<1>1. s \in Seq(Lines) /\ t \in Seq(Lines)
  BY DEF IsAllOf
<1>2. n + 1 \in 1 .. n + 1 /\ \A i \in 1 .. n : i \in 1 .. n + 1
  OBVIOUS
<1>3. \A i \in 1 .. n + 1 : i \in 1 .. n \/ i = n + 1
  OBVIOUS
<1>4. s \o t \in Seq(Lines)
  BY <1>1
<1>5. ASSUME NEW line
      PROVE  Holds(s \o t, line) <=> \E i \in 1 .. n + 1 : Holds(ss[i], line)
  <2>1. Holds(s \o t, line) <=> Holds(s, line) \/ Holds(t, line)
    BY <1>1, JoinedHolds
  <2>2. Holds(s, line) <=> \E i \in 1 .. n : Holds(ss[i], line)
    BY DEF IsAllOf
  <2>3. QED
    BY <1>2, <1>3, <2>1, <2>2
<1>6. ASSUME NEW a
      PROVE  Silent(s \o t, a) <=> \A i \in 1 .. n + 1 : Silent(ss[i], a)
  <2>1. Silent(s \o t, a) <=> Silent(s, a) /\ Silent(t, a)
    BY <1>1, JoinedSilent
  <2>2. Silent(s, a) <=> \A i \in 1 .. n : Silent(ss[i], a)
    BY DEF IsAllOf
  <2>3. QED
    BY <1>2, <1>3, <2>1, <2>2
<1>7. ASSUME NEW a, NEW kind, NEW ty
      PROVE  LastSays(s \o t, a, kind, ty) <=>
               \E i \in 1 .. n + 1 : LastSays(ss[i], a, kind, ty)
                                     /\ \A j \in i + 1 .. n + 1 : Silent(ss[j], a)
  <2>1. LastSays(s \o t, a, kind, ty) <=>
          LastSays(t, a, kind, ty) \/ (LastSays(s, a, kind, ty) /\ Silent(t, a))
    BY <1>1, JoinedSays
  <2>2. LastSays(s, a, kind, ty) <=>
          \E i \in 1 .. n : LastSays(ss[i], a, kind, ty) /\ \A j \in i + 1 .. n : Silent(ss[j], a)
    BY DEF IsAllOf
  <2> HIDE DEF t
  <2>3. \A j \in (n + 1) + 1 .. n + 1 : FALSE
    OBVIOUS
  <2>4. \A i \in 1 .. n : n + 1 \in i + 1 .. n + 1
    OBVIOUS
  <2>5. \A i \in 1 .. n : \A j \in i + 1 .. n : j \in i + 1 .. n + 1
    OBVIOUS
  <2>6. \A i \in 1 .. n : \A j \in i + 1 .. n + 1 : j \in i + 1 .. n \/ j = n + 1
    OBVIOUS
  <2>7. ASSUME LastSays(t, a, kind, ty)
        PROVE  \E i \in 1 .. n + 1 : LastSays(ss[i], a, kind, ty)
                                     /\ \A j \in i + 1 .. n + 1 : Silent(ss[j], a)
    BY <1>2, <2>3, <2>7 DEF t
  <2>8. ASSUME NEW i \in 1 .. n, LastSays(ss[i], a, kind, ty),
               \A j \in i + 1 .. n : Silent(ss[j], a), Silent(t, a)
        PROVE  i \in 1 .. n + 1 /\ LastSays(ss[i], a, kind, ty)
               /\ \A j \in i + 1 .. n + 1 : Silent(ss[j], a)
    BY <1>2, <2>6, <2>8 DEF t
  <2>9. ASSUME NEW i \in 1 .. n + 1, LastSays(ss[i], a, kind, ty),
               \A j \in i + 1 .. n + 1 : Silent(ss[j], a)
        PROVE  \/ LastSays(t, a, kind, ty)
               \/ (\E k \in 1 .. n : LastSays(ss[k], a, kind, ty)
                                     /\ \A j \in k + 1 .. n : Silent(ss[j], a)) /\ Silent(t, a)
    <3>1. CASE i = n + 1
      BY <2>9, <3>1 DEF t
    <3>2. CASE i \in 1 .. n
      BY <2>4, <2>5, <2>9, <3>2 DEF t
    <3>3. QED
      BY <1>3, <3>1, <3>2
  <2>10. QED
    BY <2>1, <2>2, <2>7, <2>8, <2>9
<1>8. QED
  BY <1>4, <1>5, <1>6, <1>7 DEF IsAllOf

LEMMA FlattenedIsAll ==
  ASSUME NEW ss \in Seq(Seq(Lines))
  PROVE  IsAllOf(Reader!FlattenSeq(ss), ss, Len(ss))
<1> DEFINE n == Len(ss)
<1>1. n \in Nat /\ \A i \in 1 .. n : ss[i] \in Seq(Lines)
  OBVIOUS
<1>2. PICK flat : /\ IsFlat(flat, ss, n)
                  /\ n > 0 => Reader!FlattenSeq(ss) = flat[n]
                  /\ n = 0 => Reader!FlattenSeq(ss) = ss
  BY <1>1, FlattenSeqFacts
<1> HIDE DEF n
<1> DEFINE P == {m \in Nat : m \in 1 .. n => IsAllOf(flat[m], ss, m)}
<1>3. 0 \in P
  OBVIOUS
<1>4. ASSUME NEW m \in Nat, m < n, m \in P
      PROVE  m + 1 \in P
  <2>1. m + 1 \in 1 .. n /\ ss[m + 1] \in Seq(Lines)
    BY <1>1, <1>4
  <2>2. flat[m + 1] = IF m + 1 = 1 THEN ss[m + 1] ELSE flat[(m + 1) - 1] \o ss[m + 1]
    BY <1>2, <2>1 DEF IsFlat
  <2>3. CASE m = 0
    <3>1. IsAllOf(<<>> \o ss[m + 1], ss, m + 1)
      BY <2>1, <2>3, AllOfNone, OneMorePiece
    <3>2. <<>> \o ss[m + 1] = ss[m + 1]
      BY <2>1, ConcatEmptySeq
    <3>3. flat[m + 1] = ss[m + 1]
      BY <2>2, <2>3
    <3>4. QED
      BY <3>1, <3>2, <3>3
  <2>4. CASE m # 0
    <3>1. m \in 1 .. n /\ (m + 1) - 1 = m /\ m + 1 # 1
      BY <1>1, <1>4, <2>4
    <3>2. IsAllOf(flat[m], ss, m)
      BY <1>4, <3>1
    <3>3. IsAllOf(flat[m] \o ss[m + 1], ss, m + 1)
      BY <2>1, <3>2, OneMorePiece
    <3>4. flat[m + 1] = flat[m] \o ss[m + 1]
      BY <2>2, <3>1
    <3>5. IsAllOf(flat[m + 1], ss, m + 1)
      BY <3>3, <3>4
    <3> HIDE DEF P
    <3>6. m + 1 \in Nat /\ IsAllOf(flat[m + 1], ss, m + 1)
      BY <3>5
    <3>7. QED
      BY <3>6 DEF P
  <2>5. QED
    BY <2>3, <2>4
<1>5. P \in SUBSET Nat
  OBVIOUS
<1>6. n \in P
  <2> HIDE DEF P
  <2> QED BY <1>1, <1>3, <1>4, <1>5, Induct
<1>7. CASE n = 0
  <2>1. ss = <<>>
    BY <1>7 DEF n
  <2>2. Reader!FlattenSeq(ss) = <<>>
    BY <1>2, <1>7, <2>1
  <2>3. QED
    BY <1>7, <2>2, AllOfNone DEF n
<1>8. CASE n # 0
  <2>1. n \in 1 .. n /\ n > 0
    BY <1>1, <1>8
  <2>2. IsAllOf(flat[n], ss, n)
    BY <1>6, <2>1
  <2>3. QED
    BY <1>2, <2>1, <2>2 DEF n
<1>9. QED
  BY <1>7, <1>8

-----------------------------------------------------------------------------
(* What a log says with the logs it leads to.                              *)

LineHolds(order, n, line, other) ==
  other = line \/ (line.kind = "detach" /\ n > 0 /\ Holds(order[n - 1][line.file], other))

LineSilent(order, n, line, a) ==
  IF line.kind = "detach" THEN n > 0 => Silent(order[n - 1][line.file], a) ELSE ~ About(line, a)

LineSays(order, n, line, a, kind, ty) ==
  IF line.kind = "detach" THEN n > 0 /\ LastSays(order[n - 1][line.file], a, kind, ty)
  ELSE Tells(line, a, kind, ty)

\* order[n][p] is what is read of p and n levels below it.
ReadsLog(order, l, n, p) ==
  /\ order[n][p] \in Seq(Lines)
  /\ \A other :
       Holds(order[n][p], other) <=> \E i \in 1 .. Len(l[p]) : LineHolds(order, n, l[p][i], other)
  /\ \A a :
       Silent(order[n][p], a) <=> \A i \in 1 .. Len(l[p]) : LineSilent(order, n, l[p][i], a)
  /\ \A a, kind, ty :
       LastSays(order[n][p], a, kind, ty) <=>
         \E i \in 1 .. Len(l[p]) :
           /\ LineSays(order, n, l[p][i], a, kind, ty)
           /\ \A j \in i + 1 .. Len(l[p]) : LineSilent(order, n, l[p][j], a)

Reads(order, l, depth) == \A n \in 0 .. depth, p \in FileNames : ReadsLog(order, l, n, p)

LEMMA OneLineSays ==
  ASSUME NEW line \in Lines, NEW a
  PROVE  /\ <<line>> \in Seq(Lines)
         /\ \A other : Holds(<<line>>, other) <=> other = line
         /\ Silent(<<line>>, a) <=> ~ About(line, a)
         /\ \A kind, ty : LastSays(<<line>>, a, kind, ty) <=> Tells(line, a, kind, ty)
<1> DEFINE s == <<line>>
<1>1. s \in Seq(Lines) /\ Len(s) = 1 /\ s[1] = line
  OBVIOUS
<1>2. (\A i \in 1 .. 1 : i = 1) /\ 1 \in 1 .. 1 /\ \A j \in 1 + 1 .. 1 : FALSE
  OBVIOUS
<1> HIDE DEF s
<1>3. \A other : Holds(s, other) <=> other = line
  BY <1>1, <1>2 DEF Holds
<1>4. Silent(s, a) <=> ~ About(line, a)
  BY <1>1, <1>2 DEF Silent, SilentUpTo
<1>5. ASSUME NEW kind, NEW ty
      PROVE  LastSays(s, a, kind, ty) <=> Tells(line, a, kind, ty)
  BY <1>1, <1>2 DEF LastSays, SaysUpTo
<1>6. QED
  BY <1>1, <1>3, <1>4, <1>5 DEF s

PieceOf(order, n, line) ==
  <<line>> \o IF line.kind = "detach" /\ n > 0 THEN order[n - 1][line.file] ELSE <<>>

LEMMA PieceFacts ==
  ASSUME NEW order, NEW n, NEW line \in Lines,
         n > 0 => \A p \in FileNames : order[n - 1][p] \in Seq(Lines)
  PROVE  LET piece == PieceOf(order, n, line)
         IN  /\ piece \in Seq(Lines)
             /\ \A other : Holds(piece, other) <=> LineHolds(order, n, line, other)
             /\ \A a : Silent(piece, a) <=> LineSilent(order, n, line, a)
             /\ \A a, kind, ty :
                  LastSays(piece, a, kind, ty) <=> LineSays(order, n, line, a, kind, ty)
<1> DEFINE sub == IF line.kind = "detach" /\ n > 0 THEN order[n - 1][line.file] ELSE <<>>
           piece == PieceOf(order, n, line)
<1>1. piece = <<line>> \o sub
  BY DEF PieceOf
<1>2. sub \in Seq(Lines) /\ <<line>> \in Seq(Lines)
  <2>1. CASE line.kind = "detach" /\ n > 0
    BY <2>1, LineFacts, OneLineSays
  <2>2. CASE ~ (line.kind = "detach" /\ n > 0)
    <3>1. sub = <<>>
      BY <2>2
    <3> HIDE DEF sub
    <3>2. sub \in Seq(Lines)
      BY <3>1
    <3>3. <<line>> \in Seq(Lines)
      BY OneLineSays
    <3>4. QED
      BY <3>2, <3>3
  <2>3. QED
    BY <2>1, <2>2
<1>3. CASE line.kind = "detach" /\ n > 0
  <2> DEFINE s == order[n - 1][line.file]
             one == <<line>>
  <2>1. s \in Seq(Lines) /\ one \in Seq(Lines) /\ piece = one \o s
    BY <1>1, <1>2, <1>3
  <2>2. \A a : ~ About(line, a)
    BY <1>3 DEF About, Kinds
  <2>3. \A a, kind, ty : ~ Tells(line, a, kind, ty)
    BY <2>2 DEF Tells
  <2>a. /\ \A other : Holds(one, other) <=> other = line
        /\ \A a : Silent(one, a) <=> ~ About(line, a)
        /\ \A a, kind, ty : LastSays(one, a, kind, ty) <=> Tells(line, a, kind, ty)
    BY OneLineSays
  <2> HIDE DEF sub, piece, one
  <2>4. ASSUME NEW other
        PROVE  Holds(piece, other) <=> LineHolds(order, n, line, other)
    <3>1. Holds(piece, other) <=> other = line \/ Holds(s, other)
      BY <2>1, <2>a, JoinedHolds
    <3>2. QED
      BY <1>3, <3>1 DEF LineHolds
  <2>5. ASSUME NEW a
        PROVE  Silent(piece, a) <=> LineSilent(order, n, line, a)
    <3>1. Silent(piece, a) <=> Silent(s, a)
      BY <2>1, <2>2, <2>a, JoinedSilent
    <3>2. QED
      BY <1>3, <3>1 DEF LineSilent
  <2>6. ASSUME NEW a, NEW kind, NEW ty
        PROVE  LastSays(piece, a, kind, ty) <=> LineSays(order, n, line, a, kind, ty)
    <3>1. ~ LastSays(one, a, kind, ty)
      BY <2>3, <2>a
    <3>2. LastSays(piece, a, kind, ty) <=> LastSays(s, a, kind, ty)
      BY <2>1, <3>1, JoinedSays
    <3>3. QED
      BY <1>3, <3>2 DEF LineSays
  <2>7. piece \in Seq(Lines)
    BY <2>1, Joined
  <2>8. QED
    BY <2>4, <2>5, <2>6, <2>7 DEF piece
<1>4. CASE ~ (line.kind = "detach" /\ n > 0)
  <2>1. piece = <<line>>
    BY <1>1, <1>2, <1>4, ConcatEmptySeq
  <2>2. line.kind = "detach" => \A a : ~ About(line, a)
    BY DEF About, Kinds
  <2>3. line.kind = "detach" => \A a, kind, ty : ~ Tells(line, a, kind, ty)
    BY <2>2 DEF Tells
  <2> HIDE DEF sub, piece
  <2>4. \A other : Holds(piece, other) <=> LineHolds(order, n, line, other)
    BY <1>4, <2>1, OneLineSays DEF LineHolds
  <2>5. \A a : Silent(piece, a) <=> LineSilent(order, n, line, a)
    BY <1>4, <2>1, <2>2, OneLineSays DEF LineSilent
  <2>6. \A a, kind, ty : LastSays(piece, a, kind, ty) <=> LineSays(order, n, line, a, kind, ty)
    BY <1>4, <2>1, <2>3, OneLineSays DEF LineSays
  <2>7. QED
    BY <1>2, <2>1, <2>4, <2>5, <2>6 DEF piece
<1>5. QED
  BY <1>3, <1>4

LEMMA LevelRead ==
  ASSUME NEW l \in [FileNames -> Seq(Lines)], NEW depth \in Nat, NEW order, IsOrder(order, l, depth),
         NEW n \in 0 .. depth, NEW p \in FileNames,
         n > 0 => \A q \in FileNames : order[n - 1][q] \in Seq(Lines)
  PROVE  ReadsLog(order, l, n, p)
<1> DEFINE log == l[p]
           ss == [i \in 1 .. Len(log) |-> PieceOf(order, n, log[i])]
<1>1. log \in Seq(Lines) /\ Len(log) \in Nat /\ \A i \in 1 .. Len(log) : log[i] \in Lines
  OBVIOUS
<1>2. order[n][p] = Reader!FlattenSeq(ss)
  <2>1. order[n] = OrderOf(l, n, order[n - 1])
    BY DEF IsOrder
  <2>2. QED
    BY <2>1 DEF OrderOf, PieceOf
<1>3. ASSUME NEW i \in 1 .. Len(log)
      PROVE  /\ ss[i] \in Seq(Lines)
             /\ \A other : Holds(ss[i], other) <=> LineHolds(order, n, log[i], other)
             /\ \A a : Silent(ss[i], a) <=> LineSilent(order, n, log[i], a)
             /\ \A a, kind, ty :
                  LastSays(ss[i], a, kind, ty) <=> LineSays(order, n, log[i], a, kind, ty)
  <2>1. ss[i] = PieceOf(order, n, log[i])
    OBVIOUS
  <2> HIDE DEF ss, log
  <2>2. QED
    BY <1>1, <2>1, PieceFacts
<1>4. ss \in Seq(Seq(Lines)) /\ Len(ss) = Len(log)
  <2>1. \A i \in 1 .. Len(log) : ss[i] \in Seq(Lines)
    BY <1>3
  <2>2. ss = [i \in 1 .. Len(log) |-> ss[i]]
    OBVIOUS
  <2> HIDE DEF ss, log
  <2>3. ss \in [1 .. Len(log) -> Seq(Lines)]
    BY <2>1, <2>2
  <2>4. Len(log) \in Nat
    BY <1>1
  <2> HIDE DEF log
  <2>5. DOMAIN ss = 1 .. Len(log)
    BY <2>3
  <2>6. ss \in Seq(Seq(Lines))
    BY <2>3, <2>4
  <2>7. QED
    BY <2>4, <2>5, <2>6, LenProperties
<1> HIDE DEF ss
<1>5. IsAllOf(order[n][p], ss, Len(log))
  BY <1>2, <1>4, FlattenedIsAll
<1>6. order[n][p] \in Seq(Lines)
  BY <1>5 DEF IsAllOf
<1>7. ASSUME NEW other
      PROVE  Holds(order[n][p], other) <=> \E i \in 1 .. Len(log) : LineHolds(order, n, log[i], other)
  <2>1. Holds(order[n][p], other) <=> \E i \in 1 .. Len(log) : Holds(ss[i], other)
    BY <1>5 DEF IsAllOf
  <2>2. QED
    BY <1>3, <2>1
<1>8. ASSUME NEW a
      PROVE  Silent(order[n][p], a) <=> \A i \in 1 .. Len(log) : LineSilent(order, n, log[i], a)
  <2>1. Silent(order[n][p], a) <=> \A i \in 1 .. Len(log) : Silent(ss[i], a)
    BY <1>5 DEF IsAllOf
  <2>2. QED
    BY <1>3, <2>1
<1>9. ASSUME NEW a, NEW kind, NEW ty
      PROVE  LastSays(order[n][p], a, kind, ty) <=>
               \E i \in 1 .. Len(log) :
                 /\ LineSays(order, n, log[i], a, kind, ty)
                 /\ \A j \in i + 1 .. Len(log) : LineSilent(order, n, log[j], a)
  <2>1. LastSays(order[n][p], a, kind, ty) <=>
          \E i \in 1 .. Len(log) : LastSays(ss[i], a, kind, ty)
                                   /\ \A j \in i + 1 .. Len(log) : Silent(ss[j], a)
    BY <1>5 DEF IsAllOf
  <2>2. \A i \in 1 .. Len(log) : \A j \in i + 1 .. Len(log) : j \in 1 .. Len(log)
    BY <1>1
  <2>3. \A i \in 1 .. Len(log) : \A j \in i + 1 .. Len(log) :
          Silent(ss[j], a) <=> LineSilent(order, n, log[j], a)
    BY <1>3, <2>2
  <2>4. \A i \in 1 .. Len(log) :
          LastSays(ss[i], a, kind, ty) <=> LineSays(order, n, log[i], a, kind, ty)
    BY <1>3
  <2>5. QED
    BY <2>1, <2>3, <2>4
<1>10. QED
  BY <1>6, <1>7, <1>8, <1>9 DEF ReadsLog

LEMMA OrderReads ==
  ASSUME NEW l \in [FileNames -> Seq(Lines)], NEW depth \in Nat, NEW order, IsOrder(order, l, depth)
  PROVE  Reads(order, l, depth)
<1> DEFINE P == {n \in Nat : n <= depth => \A p \in FileNames : ReadsLog(order, l, n, p)}
<1>1. 0 \in P
  <2>1. 0 \in 0 .. depth
    OBVIOUS
  <2>2. \A p \in FileNames : ReadsLog(order, l, 0, p)
    BY <2>1, LevelRead
  <2>3. QED
    BY <2>2
<1>2. ASSUME NEW n \in Nat, n \in P
      PROVE  n + 1 \in P
  <2>1. ASSUME n + 1 <= depth, NEW p \in FileNames
        PROVE  ReadsLog(order, l, n + 1, p)
    <3>1. n + 1 \in 0 .. depth /\ n <= depth /\ (n + 1) - 1 = n
      BY <1>2, <2>1
    <3>2. \A q \in FileNames : ReadsLog(order, l, n, q)
      BY <1>2, <3>1
    <3>3. \A q \in FileNames : order[(n + 1) - 1][q] \in Seq(Lines)
      BY <3>1, <3>2 DEF ReadsLog
    <3> HIDE DEF P
    <3>4. QED
      BY <3>1, <3>3, LevelRead
  <2>2. QED
    BY <1>2, <2>1
<1>3. P \in SUBSET Nat
  OBVIOUS
<1>4. ASSUME NEW n \in 0 .. depth, NEW p \in FileNames
      PROVE  ReadsLog(order, l, n, p)
  <2>1. n \in Nat /\ n <= depth
    OBVIOUS
  <2>2. n \in P
    <3> HIDE DEF P
    <3> QED BY <1>1, <1>2, <1>3, <2>1, Induct
  <2>3. QED
    BY <2>1, <2>2
<1>5. QED
  BY <1>4 DEF Reads

-----------------------------------------------------------------------------
(* The analysis of what is read.                                           *)

ResultFrom(lines, i, before) ==
  IF i = 0 THEN Reader!NothingRead ELSE Reader!ReadLine(before, lines[i])

IsResult(result, lines, n) == result = [i \in 0 .. n |-> ResultFrom(lines, i, result[i - 1])]

LEMMA ResultExists ==
  ASSUME NEW lines, NEW n \in Nat
  PROVE  \E result : IsResult(result, lines, n)
<1> DEFINE P == {m \in Nat : \E result : IsResult(result, lines, m)}
<1>1. 0 \in P
  <2> DEFINE result == [i \in 0 .. 0 |-> Reader!NothingRead]
  <2>1. ASSUME NEW i \in 0 .. 0
        PROVE  result[i] = ResultFrom(lines, i, result[i - 1])
    <3>1. i = 0
      OBVIOUS
    <3>2. QED
      BY <3>1 DEF ResultFrom
  <2>2. result = [i \in 0 .. 0 |-> result[i]]
    OBVIOUS
  <2> HIDE DEF result
  <2>3. IsResult(result, lines, 0)
    BY <2>1, <2>2 DEF IsResult
  <2>4. QED
    BY <2>3
<1>2. ASSUME NEW m \in Nat, m \in P
      PROVE  m + 1 \in P
  <2>1. PICK before : IsResult(before, lines, m)
    BY <1>2
  <2> DEFINE result == [i \in 0 .. m + 1 |-> ResultFrom(lines, i, before[i - 1])]
  <2>2. ASSUME NEW i \in 0 .. m + 1
        PROVE  result[i] = ResultFrom(lines, i, result[i - 1])
    <3>1. result[i] = ResultFrom(lines, i, before[i - 1])
      OBVIOUS
    <3>2. CASE i = 0
      <4> HIDE DEF result
      <4> QED
        BY <3>1, <3>2 DEF ResultFrom
    <3>3. CASE i # 0
      <4>1. i - 1 \in 0 .. m /\ i - 1 \in 0 .. m + 1
        BY <1>2, <3>3
      <4>2. before[i - 1] = ResultFrom(lines, i - 1, before[(i - 1) - 1])
        BY <2>1, <4>1 DEF IsResult
      <4>3. result[i - 1] = ResultFrom(lines, i - 1, before[(i - 1) - 1])
        BY <4>1
      <4> HIDE DEF result
      <4>4. QED
        BY <3>1, <4>2, <4>3
    <3>4. QED
      BY <3>2, <3>3
  <2>3. result = [i \in 0 .. m + 1 |-> result[i]]
    OBVIOUS
  <2> HIDE DEF result
  <2>4. IsResult(result, lines, m + 1)
    BY <2>2, <2>3 DEF IsResult
  <2>5. QED
    BY <1>2, <2>4
<1>3. P \in SUBSET Nat
  OBVIOUS
<1> HIDE DEF P
<1>4. n \in P
  BY <1>1, <1>2, <1>3, Induct
<1>5. QED
  BY <1>4 DEF P

\* The last line that is about an address decides.
LEMMA SaysNext ==
  ASSUME NEW s, NEW n \in Nat, NEW a, NEW kind, NEW ty
  PROVE  SaysUpTo(s, n + 1, a, kind, ty) <=>
           IF About(s[n + 1], a) THEN Tells(s[n + 1], a, kind, ty) ELSE SaysUpTo(s, n, a, kind, ty)
<1>1. n + 1 \in 1 .. n + 1 /\ (\A j \in (n + 1) + 1 .. n + 1 : FALSE)
      /\ \A i \in 1 .. n + 1 : i \in 1 .. n \/ i = n + 1
  OBVIOUS
<1>2. \A i \in 1 .. n : i \in 1 .. n + 1 /\ n + 1 \in i + 1 .. n + 1
  OBVIOUS
<1>3. \A i \in 1 .. n : /\ \A j \in i + 1 .. n + 1 : j \in i + 1 .. n \/ j = n + 1
                        /\ \A j \in i + 1 .. n : j \in i + 1 .. n + 1
  OBVIOUS
<1>4. Tells(s[n + 1], a, kind, ty) => About(s[n + 1], a)
  BY DEF Tells
<1>5. CASE About(s[n + 1], a)
  BY <1>1, <1>2, <1>5 DEF SaysUpTo
<1>6. CASE ~ About(s[n + 1], a)
  <2>1. ASSUME SaysUpTo(s, n, a, kind, ty)
        PROVE  SaysUpTo(s, n + 1, a, kind, ty)
    BY <1>2, <1>3, <1>6, <2>1 DEF SaysUpTo
  <2>2. ASSUME SaysUpTo(s, n + 1, a, kind, ty)
        PROVE  SaysUpTo(s, n, a, kind, ty)
    <3>1. PICK i \in 1 .. n + 1 : Tells(s[i], a, kind, ty) /\ \A j \in i + 1 .. n + 1 : ~ About(s[j], a)
      BY <2>2 DEF SaysUpTo
    <3>2. i \in 1 .. n
      BY <1>1, <1>4, <1>6, <3>1
    <3>3. QED
      BY <1>3, <3>1, <3>2 DEF SaysUpTo
  <2>3. QED
    BY <1>6, <2>1, <2>2
<1>7. QED
  BY <1>5, <1>6

Results == [live_objects : [Addresses -> Types \cup {NoObject}],
            type_count_new : [Types -> Nat],
            type_count_del : [Types -> Nat],
            type_count_untracked : [Types -> Nat]]

LEMMA LineRead ==
  ASSUME NEW result \in Results, NEW line \in Lines
  PROVE  LET after == Reader!ReadLine(result, line)
         IN  /\ after \in Results
             /\ \A a \in Addresses :
                  after.live_objects[a] =
                    IF About(line, a) THEN IF line.kind = "NEW" THEN line.type ELSE NoObject
                    ELSE result.live_objects[a]
<1> DEFINE after == Reader!ReadLine(result, line)
           live == result.live_objects
           Read(v) == [live EXCEPT ![line.address] = v]
<1>1. line.kind \in Kinds => line.address \in Addresses /\ line.type \in Types
  BY LineFacts
<1>2. /\ live \in [Addresses -> Types \cup {NoObject}]
      /\ result.type_count_new \in [Types -> Nat] /\ result.type_count_del \in [Types -> Nat]
      /\ result.type_count_untracked \in [Types -> Nat]
      /\ result = [live_objects |-> live, type_count_new |-> result.type_count_new,
                   type_count_del |-> result.type_count_del,
                   type_count_untracked |-> result.type_count_untracked]
  BY DEF Results
<1>3. ASSUME NEW v \in Types \cup {NoObject}, line.kind \in Kinds, after \in Results,
             after.live_objects = Read(v), v = IF line.kind = "NEW" THEN line.type ELSE NoObject
      PROVE  \A a \in Addresses :
               after.live_objects[a] =
                 IF About(line, a) THEN IF line.kind = "NEW" THEN line.type ELSE NoObject
                 ELSE live[a]
  <2> HIDE DEF after, live
  <2>1. ASSUME NEW a \in Addresses
        PROVE  Read(v)[a] = IF a = line.address THEN v ELSE live[a]
    BY <1>1, <1>2, <1>3
  <2>2. \A a \in Addresses : About(line, a) <=> a = line.address
    BY <1>3 DEF About
  <2>3. QED
    BY <1>3, <2>1, <2>2
<1>4. CASE line.kind = "NEW"
  <2>1. after = [result EXCEPT !.live_objects[line.address] = line.type,
                               !.type_count_new[line.type] = @ + 1]
    BY <1>4 DEF Reader!ReadLine, Reader!add_new
  <2>2. line.kind \in Kinds
    BY <1>4 DEF Kinds
  <2>3. after.live_objects = Read(line.type)
    BY <1>2, <2>1
  <2>4. after \in Results
    <3>1. Read(line.type) \in [Addresses -> Types \cup {NoObject}]
      BY <1>1, <1>2, <2>2
    <3>2. [result.type_count_new EXCEPT ![line.type] = @ + 1] \in [Types -> Nat]
      BY <1>1, <1>2, <2>2
    <3>3. after = [live_objects |-> Read(line.type),
                   type_count_new |-> [result.type_count_new EXCEPT ![line.type] = @ + 1],
                   type_count_del |-> result.type_count_del,
                   type_count_untracked |-> result.type_count_untracked]
      BY <1>2, <2>1
    <3> HIDE DEF after, live, Read
    <3>4. QED
      BY <1>2, <3>1, <3>2, <3>3 DEF Results
  <2>5. QED
    BY <1>1, <1>3, <1>4, <2>2, <2>3, <2>4
<1>5. CASE line.kind = "DEL"
  <2> DEFINE untracked == IF live[line.address] = NoObject THEN 1 ELSE 0
  <2>1. after = [result EXCEPT !.live_objects[line.address] = NoObject,
                               !.type_count_untracked[line.type] = @ + untracked,
                               !.type_count_del[line.type] = @ + 1]
    BY <1>5 DEF Reader!ReadLine, Reader!add_del
  <2>2. line.kind \in Kinds
    BY <1>5 DEF Kinds
  <2>3. after.live_objects = Read(NoObject)
    BY <1>2, <2>1
  <2>4. after \in Results
    <3>1. Read(NoObject) \in [Addresses -> Types \cup {NoObject}]
      BY <1>1, <1>2, <2>2
    <3>2. [result.type_count_del EXCEPT ![line.type] = @ + 1] \in [Types -> Nat]
      BY <1>1, <1>2, <2>2
    <3>3. [result.type_count_untracked EXCEPT ![line.type] = @ + untracked] \in [Types -> Nat]
      BY <1>1, <1>2, <2>2
    <3>4. after = [live_objects |-> Read(NoObject),
                   type_count_new |-> result.type_count_new,
                   type_count_del |-> [result.type_count_del EXCEPT ![line.type] = @ + 1],
                   type_count_untracked |->
                     [result.type_count_untracked EXCEPT ![line.type] = @ + untracked]]
      BY <1>2, <2>1
    <3> HIDE DEF after, live, Read, untracked
    <3>5. QED
      BY <1>2, <3>1, <3>2, <3>3, <3>4 DEF Results
  <2>5. QED
    BY <1>3, <1>5, <2>2, <2>3, <2>4
<1>6. CASE line.kind \notin Kinds
  <2>1. after = result
    BY <1>6 DEF Reader!ReadLine, Kinds
  <2>2. \A a : ~ About(line, a)
    BY <1>6 DEF About
  <2>3. QED
    BY <2>1, <2>2
<1>7. QED
  BY <1>4, <1>5, <1>6 DEF Kinds

\* The analysis has the objects of whose addresses NEW is the last that is read.
LEMMA AnalyseFinds ==
  ASSUME NEW l, NEW depth, NEW p, Reader!ReadingOrder(l, depth, p) \in Seq(Lines)
  PROVE  LET lines == Reader!ReadingOrder(l, depth, p)
             live == Reader!Analyse(l, depth, p).live_objects
         IN  \A a \in Addresses : /\ live[a] \in Types \cup {NoObject}
                                  /\ \A ty \in Types : live[a] = ty <=> LastSays(lines, a, "NEW", ty)
<1> DEFINE lines == Reader!ReadingOrder(l, depth, p)
           n == Len(lines)
           result == CHOOSE f : IsResult(f, lines, n)
<1>1. lines \in Seq(Lines) /\ n \in Nat /\ \A i \in 1 .. n : lines[i] \in Lines
  OBVIOUS
<1>2. Reader!Analyse(l, depth, p) = result[n]
  BY DEF Reader!Analyse, IsResult, ResultFrom
<1>3. IsResult(result, lines, n)
  <2> HIDE DEF lines
  <2> QED BY <1>1, ResultExists
<1> HIDE DEF lines, n, result
<1> DEFINE Right(i) ==
             /\ result[i] \in Results
             /\ \A a \in Addresses, ty \in Types :
                  result[i].live_objects[a] = ty <=> SaysUpTo(lines, i, a, "NEW", ty)
           P == {i \in Nat : i <= n => Right(i)}
<1>4. 0 \in P
  <2>1. result[0] = Reader!NothingRead
    BY <1>1, <1>3 DEF IsResult, ResultFrom
  <2>2. /\ Reader!NothingRead \in Results
        /\ \A a \in Addresses : Reader!NothingRead.live_objects[a] = NoObject
    BY DEF Reader!NothingRead, Results
  <2>3. \A a, ty : ~ SaysUpTo(lines, 0, a, "NEW", ty)
    BY DEF SaysUpTo
  <2>4. Right(0)
    BY <2>1, <2>2, <2>3, NamesAssumption
  <2>5. QED
    BY <2>4
<1>5. ASSUME NEW i \in Nat, i \in P
      PROVE  i + 1 \in P
  <2>1. ASSUME i + 1 <= n
        PROVE  Right(i + 1)
    <3>1. i + 1 \in 0 .. n /\ i + 1 \in 1 .. n /\ i <= n /\ i + 1 # 0 /\ (i + 1) - 1 = i
      BY <1>1, <1>5, <2>1
    <3>2. Right(i)
      BY <1>5, <3>1
    <3> DEFINE line == lines[i + 1]
               after == result[i + 1]
    <3>3. after = Reader!ReadLine(result[i], line) /\ line \in Lines
      BY <1>1, <1>3, <3>1 DEF IsResult, ResultFrom
    <3>4. /\ after \in Results
          /\ \A a \in Addresses :
               after.live_objects[a] =
                 IF About(line, a) THEN IF line.kind = "NEW" THEN line.type ELSE NoObject
                 ELSE result[i].live_objects[a]
      BY <3>2, <3>3, LineRead
    <3>5. ASSUME NEW a \in Addresses, NEW ty \in Types
          PROVE  after.live_objects[a] = ty <=> SaysUpTo(lines, i + 1, a, "NEW", ty)
      <4>1. SaysUpTo(lines, i + 1, a, "NEW", ty) <=>
              IF About(line, a) THEN Tells(line, a, "NEW", ty) ELSE SaysUpTo(lines, i, a, "NEW", ty)
        BY <1>5, SaysNext
      <4>2. CASE About(line, a)
        <5>1. Tells(line, a, "NEW", ty) <=> line.kind = "NEW" /\ line.type = ty
          BY <4>2 DEF Tells
        <5>2. after.live_objects[a] = IF line.kind = "NEW" THEN line.type ELSE NoObject
          BY <3>4, <4>2
        <5>3. NoObject # ty
          BY NamesAssumption
        <5> HIDE DEF line, after
        <5>4. QED
          BY <4>1, <4>2, <5>1, <5>2, <5>3
      <4>3. CASE ~ About(line, a)
        <5>1. after.live_objects[a] = result[i].live_objects[a]
          BY <3>4, <4>3
        <5>2. result[i].live_objects[a] = ty <=> SaysUpTo(lines, i, a, "NEW", ty)
          BY <3>2
        <5> HIDE DEF line, after
        <5>3. QED
          BY <4>1, <4>3, <5>1, <5>2
      <4>4. QED
        BY <4>2, <4>3
    <3>6. QED
      BY <3>4, <3>5
  <2> HIDE DEF Right
  <2>2. QED
    BY <1>5, <2>1
<1>6. P \in SUBSET Nat
  OBVIOUS
<1>7. n \in P
  <2> HIDE DEF P
  <2> QED BY <1>1, <1>4, <1>5, <1>6, Induct
<1>8. Right(n)
  BY <1>1, <1>7
<1>9. ASSUME NEW a \in Addresses
      PROVE  /\ result[n].live_objects[a] \in Types \cup {NoObject}
             /\ \A ty \in Types : result[n].live_objects[a] = ty <=> LastSays(lines, a, "NEW", ty)
  <2>1. result[n].live_objects \in [Addresses -> Types \cup {NoObject}]
    BY <1>8 DEF Results
  <2>2. QED
    BY <1>8, <2>1 DEF LastSays, n
<1>10. QED
  BY <1>2, <1>9 DEF lines

-----------------------------------------------------------------------------
(* The logs of a session as a tree.                                        *)

LEMMA DepthFacts == Depth \in Nat
BY TracersAssumption, FS_CardinalityType DEF Depth

\* There is an order in which the logs are read.
LEMMA OrderFacts ==
  ASSUME NEW l \in [FileNames -> Seq(Lines)]
  PROVE  \E order : /\ Reads(order, l, Depth)
                    /\ \A p : ReadFrom(l, p) = order[Depth][p]
BY DepthFacts, ReadingOrderFacts, OrderReads DEF ReadFrom

\* Every line in the tree is read,
LEMMA LinesOfTreeAreRead ==
  ASSUME NEW l \in [FileNames -> Seq(Lines)], NEW level \in [Tracers -> 0 .. Depth],
         NEW names, NEW file, IsTree(level, l, names, file),
         NEW x \in Tracers, level[x] > 0, NEW i \in 1 .. Len(l[names[x]])
  PROVE  Holds(ReadFrom(l, file), l[names[x]][i])
<1>1. PICK order : Reads(order, l, Depth) /\ \A p : ReadFrom(l, p) = order[Depth][p]
  BY OrderFacts
<1>2. Depth \in Nat
  BY DepthFacts
<1> DEFINE trace == order[Depth][file]
           P == {m \in Nat : \A y \in Tracers : level[y] = m + 1 =>
                               \A line : Holds(order[Depth - m][names[y]], line) => Holds(trace, line)}
<1>3. 0 \in P
  <2>1. \A y \in Tracers : level[y] = 0 + 1 => names[y] = file
    BY DEF IsTree
  <2>2. Depth - 0 = Depth
    BY <1>2
  <2>3. QED
    BY <2>1, <2>2
<1>4. ASSUME NEW m \in Nat, m \in P
      PROVE  m + 1 \in P
  <2>1. ASSUME NEW y \in Tracers, level[y] = (m + 1) + 1, NEW line,
               Holds(order[Depth - (m + 1)][names[y]], line)
        PROVE  Holds(trace, line)
    <3>1. level[y] \in Nat /\ level[y] <= Depth /\ level[y] > 1 /\ level[y] - 1 = m + 1
      BY <1>2, <1>4, <2>1
    <3>2. PICK z \in Tracers : /\ level[z] = level[y] - 1
                               /\ \E k \in 1 .. Len(l[names[z]]) : l[names[z]][k] = Detached(names[y])
      BY <3>1 DEF IsTree
    <3>3. PICK k \in 1 .. Len(l[names[z]]) : l[names[z]][k] = Detached(names[y])
      BY <3>2
    <3>4. level[z] = m + 1 /\ level[z] > 0
      BY <1>4, <3>1, <3>2
    <3>5. names[z] \in FileNames /\ names[y] \in FileNames
      BY <3>1, <3>4 DEF IsTree
    <3> DEFINE n == Depth - m
    <3>6. n \in 0 .. Depth /\ n > 0 /\ n - 1 = Depth - (m + 1)
      BY <1>2, <1>4, <2>1, <3>1
    <3>7. Detached(names[y]).kind = "detach" /\ Detached(names[y]).file = names[y]
      BY <3>5, LineFacts
    <3>8. LineHolds(order, n, l[names[z]][k], line)
      BY <2>1, <3>3, <3>6, <3>7 DEF LineHolds
    <3>9. Holds(order[n][names[z]], line)
      BY <1>1, <3>3, <3>5, <3>6, <3>8 DEF Reads, ReadsLog
    <3>10. QED
      BY <1>4, <3>4, <3>9
  <2> HIDE DEF trace
  <2>2. QED
    BY <1>4, <2>1
<1>5. P \in SUBSET Nat
  OBVIOUS
<1>6. level[x] - 1 \in Nat /\ level[x] = (level[x] - 1) + 1 /\ level[x] <= Depth
  BY <1>2
<1>7. level[x] - 1 \in P
  <2> HIDE DEF P
  <2> QED BY <1>3, <1>4, <1>5, <1>6, Induct
<1>8. \A line : Holds(order[Depth - (level[x] - 1)][names[x]], line) => Holds(trace, line)
  BY <1>6, <1>7
<1>9. Holds(order[Depth - (level[x] - 1)][names[x]], l[names[x]][i])
  <2>1. Depth - (level[x] - 1) \in 0 .. Depth
    BY <1>2, <1>6
  <2>2. names[x] \in FileNames
    BY DEF IsTree
  <2>3. \A n : LineHolds(order, n, l[names[x]][i], l[names[x]][i])
    BY DEF LineHolds
  <2>4. QED
    BY <1>1, <2>1, <2>2, <2>3 DEF Reads, ReadsLog
<1>10. QED
  BY <1>1, <1>8, <1>9

\* and no other.
LEMMA LinesReadAreInTree ==
  ASSUME NEW l \in [FileNames -> Seq(Lines)], NEW level \in [Tracers -> 0 .. Depth],
         NEW names, NEW file, IsTree(level, l, names, file), NEW line, Holds(ReadFrom(l, file), line)
  PROVE  \E x \in Tracers : level[x] > 0 /\ Holds(l[names[x]], line)
<1>1. PICK order : Reads(order, l, Depth) /\ \A p : ReadFrom(l, p) = order[Depth][p]
  BY OrderFacts
<1>2. Depth \in Nat
  BY DepthFacts
<1> DEFINE InTree == \E x \in Tracers : level[x] > 0 /\ Holds(l[names[x]], line)
           P == {n \in Nat : n <= Depth =>
                   \A x \in Tracers : level[x] > 0 /\ Holds(order[n][names[x]], line) => InTree}
<1>3. ASSUME NEW n \in 0 .. Depth, NEW x \in Tracers, level[x] > 0, Holds(order[n][names[x]], line)
      PROVE  \/ InTree
             \/ n > 0 /\ \E y \in Tracers : level[y] > 0 /\ Holds(order[n - 1][names[y]], line)
  <2>1. names[x] \in FileNames
    BY <1>3 DEF IsTree
  <2>2. PICK i \in 1 .. Len(l[names[x]]) : LineHolds(order, n, l[names[x]][i], line)
    BY <1>1, <1>3, <2>1 DEF Reads, ReadsLog
  <2>3. CASE line = l[names[x]][i]
    BY <1>3, <2>3 DEF Holds
  <2>4. CASE /\ l[names[x]][i].kind = "detach" /\ n > 0
             /\ Holds(order[n - 1][l[names[x]][i].file], line)
    <3>1. PICK y \in Tracers : names[y] = l[names[x]][i].file /\ level[y] = level[x] + 1
      BY <1>3, <2>4 DEF IsTree
    <3>2. level[x] \in Nat
      BY <1>2
    <3>3. level[y] > 0
      BY <3>1, <3>2
    <3>4. QED
      BY <2>4, <3>1, <3>3
  <2>5. QED
    BY <2>2, <2>3, <2>4 DEF LineHolds
<1> HIDE DEF InTree
<1>4. 0 \in P
  BY <1>2, <1>3
<1>5. ASSUME NEW n \in Nat, n \in P
      PROVE  n + 1 \in P
  <2>1. ASSUME n + 1 <= Depth, NEW x \in Tracers, level[x] > 0, Holds(order[n + 1][names[x]], line)
        PROVE  InTree
    <3>1. n + 1 \in 0 .. Depth /\ n <= Depth /\ (n + 1) - 1 = n
      BY <1>2, <1>5, <2>1
    <3>2. \/ InTree
          \/ \E y \in Tracers : level[y] > 0 /\ Holds(order[(n + 1) - 1][names[y]], line)
      BY <1>3, <2>1, <3>1
    <3>3. QED
      BY <1>5, <3>1, <3>2
  <2>2. QED
    BY <1>5, <2>1
<1>6. P \in SUBSET Nat
  OBVIOUS
<1>7. Depth \in P
  <2> HIDE DEF P
  <2> QED BY <1>2, <1>4, <1>5, <1>6, Induct
<1>8. PICK x \in Tracers : level[x] = 1 /\ names[x] = file
  BY DEF IsTree
<1>9. Holds(order[Depth][names[x]], line)
  BY <1>1, <1>8
<1>10. QED
  BY <1>2, <1>7, <1>8, <1>9 DEF InTree

-----------------------------------------------------------------------------
(* What is told of an address as the logs grow.                            *)

\* A line that says nothing of an address, and leads to a log that is empty.
Mute(l, line, a) == IF line.kind = "detach" THEN l[line.file] = <<>> ELSE ~ About(line, a)

\* The places where lines are silent, and where they tell: if all that is
\* added is silent, the last that is not is the same.
LEMMA SilentTail ==
  ASSUME NEW k \in Nat, NEW m \in Nat, k <= m, NEW Q, NEW R, NEW S, NEW T,
         \A i \in 1 .. k : (i \in Q <=> i \in R) /\ (i \in S <=> i \in T),
         \A i \in k + 1 .. m : i \in R /\ i \notin T
  PROVE  /\ (\A i \in 1 .. m : i \in R) <=> (\A i \in 1 .. k : i \in Q)
         /\ (\E i \in 1 .. m : i \in T /\ \A j \in i + 1 .. m : j \in R) <=>
              (\E i \in 1 .. k : i \in S /\ \A j \in i + 1 .. k : j \in Q)
<1>1. /\ \A i \in 1 .. k : i \in 1 .. m
      /\ \A i \in 1 .. m : i \in 1 .. k \/ i \in k + 1 .. m
      /\ \A i \in 1 .. k : \A j \in i + 1 .. k : j \in 1 .. k /\ j \in i + 1 .. m
      /\ \A i \in 1 .. k : \A j \in i + 1 .. m : j \in i + 1 .. k \/ j \in k + 1 .. m
  OBVIOUS
<1>2. (\A i \in 1 .. m : i \in R) <=> (\A i \in 1 .. k : i \in Q)
  BY <1>1
<1>3. ASSUME NEW i \in 1 .. m, i \in T, \A j \in i + 1 .. m : j \in R
      PROVE  i \in 1 .. k /\ i \in S /\ \A j \in i + 1 .. k : j \in Q
  <2>1. i \in 1 .. k /\ i \in S
    BY <1>1, <1>3
  <2>2. QED
    BY <1>1, <1>3, <2>1
<1>4. ASSUME NEW i \in 1 .. k, i \in S, \A j \in i + 1 .. k : j \in Q
      PROVE  i \in 1 .. m /\ i \in T /\ \A j \in i + 1 .. m : j \in R
  BY <1>1, <1>4
<1>5. QED
  BY <1>2, <1>3, <1>4

SameOf(order, after, n, p, a) ==
  /\ Silent(after[n][p], a) <=> Silent(order[n][p], a)
  /\ \A kind, ty : LastSays(after[n][p], a, kind, ty) <=> LastSays(order[n][p], a, kind, ty)

\* A log that is empty leads nowhere.
LEMMA EmptyLog ==
  ASSUME NEW l, NEW order, Reads(order, l, Depth), NEW n \in 0 .. Depth, NEW p \in FileNames,
         l[p] = <<>>, NEW a
  PROVE  Silent(order[n][p], a) /\ \A kind, ty : ~ LastSays(order[n][p], a, kind, ty)
<1>1. \A i \in 1 .. Len(l[p]) : FALSE
  OBVIOUS
<1>2. ReadsLog(order, l, n, p)
  BY DEF Reads
<1>3. QED
  BY <1>1, <1>2 DEF ReadsLog

LEMMA SameAtLevel ==
  ASSUME NEW l \in [FileNames -> Seq(Lines)], NEW m \in [FileNames -> Seq(Lines)],
         NEW order, Reads(order, l, Depth), NEW after, Reads(after, m, Depth),
         NEW n \in 0 .. Depth, NEW p \in FileNames, NEW a,
         Len(l[p]) <= Len(m[p]),
         \A i \in 1 .. Len(l[p]) : m[p][i] = l[p][i],
         \A i \in Len(l[p]) + 1 .. Len(m[p]) : Mute(m, m[p][i], a),
         n > 0 => \A i \in 1 .. Len(l[p]) :
                    l[p][i].kind = "detach" => SameOf(order, after, n - 1, l[p][i].file, a)
  PROVE  SameOf(order, after, n, p, a)
<1> DEFINE s == l[p]
           t == m[p]
<1>1. /\ s \in Seq(Lines) /\ t \in Seq(Lines) /\ Len(s) \in Nat /\ Len(t) \in Nat
      /\ \A i \in 1 .. Len(s) : s[i] \in Lines
      /\ \A i \in 1 .. Len(t) : t[i] \in Lines
  OBVIOUS
<1>2. ReadsLog(order, l, n, p) /\ ReadsLog(after, m, n, p)
  BY DEF Reads
<1>3. ASSUME NEW i \in 1 .. Len(s)
      PROVE  /\ LineSilent(order, n, s[i], a) <=> LineSilent(after, n, t[i], a)
             /\ \A kind, ty :
                  LineSays(order, n, s[i], a, kind, ty) <=> LineSays(after, n, t[i], a, kind, ty)
  BY <1>3 DEF LineSilent, LineSays, SameOf
<1>4. ASSUME NEW i \in Len(s) + 1 .. Len(t)
      PROVE  /\ LineSilent(after, n, t[i], a)
             /\ \A kind, ty : ~ LineSays(after, n, t[i], a, kind, ty)
  <2>1. Mute(m, t[i], a) /\ t[i] \in Lines
    BY <1>1, <1>4
  <2>2. CASE t[i].kind = "detach"
    <3>1. t[i].file \in FileNames /\ m[t[i].file] = <<>>
      BY <2>1, <2>2, LineFacts DEF Mute
    <3>2. n > 0 => n - 1 \in 0 .. Depth
      BY DepthFacts
    <3>3. n > 0 => /\ Silent(after[n - 1][t[i].file], a)
                   /\ \A kind, ty : ~ LastSays(after[n - 1][t[i].file], a, kind, ty)
      BY <3>1, <3>2, EmptyLog
    <3>4. QED
      BY <2>2, <3>3 DEF LineSilent, LineSays
  <2>3. CASE t[i].kind # "detach"
    <3>1. ~ About(t[i], a)
      BY <2>1, <2>3 DEF Mute
    <3>2. QED
      BY <2>3, <3>1 DEF LineSilent, LineSays, Tells
  <2>4. QED
    BY <2>2, <2>3
<1> DEFINE Q == {i \in 1 .. Len(s) : LineSilent(order, n, s[i], a)}
           R == {i \in 1 .. Len(t) : LineSilent(after, n, t[i], a)}
           S(kind, ty) == {i \in 1 .. Len(s) : LineSays(order, n, s[i], a, kind, ty)}
           T(kind, ty) == {i \in 1 .. Len(t) : LineSays(after, n, t[i], a, kind, ty)}
<1>5. /\ \A i \in 1 .. Len(s) : i \in 1 .. Len(t)
      /\ \A i \in Len(s) + 1 .. Len(t) : i \in 1 .. Len(t)
      /\ \A i \in 1 .. Len(s) : \A j \in i + 1 .. Len(s) : j \in 1 .. Len(s)
      /\ \A i \in 1 .. Len(t) : \A j \in i + 1 .. Len(t) : j \in 1 .. Len(t)
  BY <1>1
<1>6. ASSUME NEW kind, NEW ty
      PROVE  /\ \A i \in 1 .. Len(s) : (i \in Q <=> i \in R) /\ (i \in S(kind, ty) <=> i \in T(kind, ty))
             /\ \A i \in Len(s) + 1 .. Len(t) : i \in R /\ i \notin T(kind, ty)
  <2> HIDE DEF s, t
  <2> QED
    BY <1>3, <1>4, <1>5
<1>7. Silent(after[n][p], a) <=> \A i \in 1 .. Len(t) : i \in R
  BY <1>2 DEF ReadsLog
<1>8. Silent(order[n][p], a) <=> \A i \in 1 .. Len(s) : i \in Q
  BY <1>2 DEF ReadsLog
<1>9. ASSUME NEW kind, NEW ty
      PROVE  /\ LastSays(after[n][p], a, kind, ty) <=>
                  \E i \in 1 .. Len(t) : i \in T(kind, ty) /\ \A j \in i + 1 .. Len(t) : j \in R
             /\ LastSays(order[n][p], a, kind, ty) <=>
                  \E i \in 1 .. Len(s) : i \in S(kind, ty) /\ \A j \in i + 1 .. Len(s) : j \in Q
  <2>1. LastSays(after[n][p], a, kind, ty) <=>
          \E i \in 1 .. Len(t) :
            /\ LineSays(after, n, t[i], a, kind, ty)
            /\ \A j \in i + 1 .. Len(t) : LineSilent(after, n, t[j], a)
    BY <1>2 DEF ReadsLog
  <2>2. LastSays(order[n][p], a, kind, ty) <=>
          \E i \in 1 .. Len(s) :
            /\ LineSays(order, n, s[i], a, kind, ty)
            /\ \A j \in i + 1 .. Len(s) : LineSilent(order, n, s[j], a)
    BY <1>2 DEF ReadsLog
  <2> HIDE DEF s, t
  <2>3. QED
    BY <1>5, <2>1, <2>2
<1> HIDE DEF Q, R, S, T
<1>10. ASSUME NEW kind, NEW ty
       PROVE  /\ Silent(after[n][p], a) <=> Silent(order[n][p], a)
              /\ LastSays(after[n][p], a, kind, ty) <=> LastSays(order[n][p], a, kind, ty)
  <2> DEFINE k == Len(s)
             h == Len(t)
             U == S(kind, ty)
             V == T(kind, ty)
  <2>1. k \in Nat /\ h \in Nat /\ k <= h
    BY <1>1
  <2>2. /\ \A i \in 1 .. k : (i \in Q <=> i \in R) /\ (i \in U <=> i \in V)
        /\ \A i \in k + 1 .. h : i \in R /\ i \notin V
    BY <1>6
  <2>3. /\ LastSays(after[n][p], a, kind, ty) <=>
             \E i \in 1 .. h : i \in V /\ \A j \in i + 1 .. h : j \in R
        /\ LastSays(order[n][p], a, kind, ty) <=>
             \E i \in 1 .. k : i \in U /\ \A j \in i + 1 .. k : j \in Q
    BY <1>9
  <2>4. /\ Silent(after[n][p], a) <=> \A i \in 1 .. h : i \in R
        /\ Silent(order[n][p], a) <=> \A i \in 1 .. k : i \in Q
    BY <1>7, <1>8
  <2> HIDE DEF k, h, U, V
  <2>5. /\ (\A i \in 1 .. h : i \in R) <=> (\A i \in 1 .. k : i \in Q)
        /\ (\E i \in 1 .. h : i \in V /\ \A j \in i + 1 .. h : j \in R) <=>
             (\E i \in 1 .. k : i \in U /\ \A j \in i + 1 .. k : j \in Q)
    BY <2>1, <2>2, SilentTail
  <2>6. QED
    BY <2>3, <2>4, <2>5
<1>11. QED
  BY <1>10 DEF SameOf

\* What the logs of the tree get says nothing of an address.
AddsNothing(level, l, names, m, a) ==
  \A x \in Tracers : level[x] > 0 =>
    LET p == names[x]
    IN  /\ Len(l[p]) <= Len(m[p])
        /\ \A i \in 1 .. Len(l[p]) : m[p][i] = l[p][i]
        /\ \A i \in Len(l[p]) + 1 .. Len(m[p]) : Mute(m, m[p][i], a)

\* If all that the logs of the tree get says nothing of an address, the same is
\* told of it.
LEMMA SameTold ==
  ASSUME NEW l \in [FileNames -> Seq(Lines)], NEW m \in [FileNames -> Seq(Lines)],
         NEW level \in [Tracers -> 0 .. Depth], NEW names, NEW file, IsTree(level, l, names, file),
         NEW a, AddsNothing(level, l, names, m, a)
  PROVE  \A kind, ty : LastSays(ReadFrom(m, file), a, kind, ty) <=> LastSays(ReadFrom(l, file), a, kind, ty)
<1>1. PICK order : Reads(order, l, Depth) /\ \A p : ReadFrom(l, p) = order[Depth][p]
  BY OrderFacts
<1>2. PICK after : Reads(after, m, Depth) /\ \A p : ReadFrom(m, p) = after[Depth][p]
  BY OrderFacts
<1>3. Depth \in Nat
  BY DepthFacts
<1> DEFINE P == {n \in Nat : n <= Depth =>
                   \A x \in Tracers : level[x] > 0 => SameOf(order, after, n, names[x], a)}
<1>4. ASSUME NEW n \in 0 .. Depth, NEW x \in Tracers, level[x] > 0,
             n > 0 => \A y \in Tracers : level[y] > 0 => SameOf(order, after, n - 1, names[y], a)
      PROVE  SameOf(order, after, n, names[x], a)
  <2> DEFINE p == names[x]
  <2>1. p \in FileNames
    BY <1>4 DEF IsTree
  <2>2. /\ Len(l[p]) <= Len(m[p])
        /\ \A i \in 1 .. Len(l[p]) : m[p][i] = l[p][i]
        /\ \A i \in Len(l[p]) + 1 .. Len(m[p]) : Mute(m, m[p][i], a)
    BY <1>4 DEF AddsNothing
  <2>3. ASSUME n > 0, NEW i \in 1 .. Len(l[p]), l[p][i].kind = "detach"
        PROVE  SameOf(order, after, n - 1, l[p][i].file, a)
    <3>1. PICK y \in Tracers : names[y] = l[p][i].file /\ level[y] = level[x] + 1
      BY <1>4, <2>3 DEF IsTree
    <3>2. level[x] \in Nat
      BY <1>3
    <3>3. level[y] > 0
      BY <3>1, <3>2
    <3>4. QED
      BY <1>4, <2>3, <3>1, <3>3
  <2> HIDE DEF p
  <2>4. SameOf(order, after, n, p, a)
    BY <1>1, <1>2, <2>1, <2>2, <2>3, SameAtLevel
  <2>5. QED
    BY <2>4 DEF p
<1>5. 0 \in P
  BY <1>3, <1>4
<1>6. ASSUME NEW n \in Nat, n \in P
      PROVE  n + 1 \in P
  <2>1. ASSUME n + 1 <= Depth, NEW x \in Tracers, level[x] > 0
        PROVE  SameOf(order, after, n + 1, names[x], a)
    <3>1. n + 1 \in 0 .. Depth /\ n <= Depth /\ (n + 1) - 1 = n
      BY <1>3, <1>6, <2>1
    <3>2. \A y \in Tracers : level[y] > 0 => SameOf(order, after, (n + 1) - 1, names[y], a)
      BY <1>6, <3>1
    <3> HIDE DEF P
    <3>3. QED
      BY <1>4, <2>1, <3>1, <3>2
  <2>2. QED
    BY <1>6, <2>1
<1>7. P \in SUBSET Nat
  OBVIOUS
<1>8. Depth \in P
  <2> HIDE DEF P
  <2> QED BY <1>3, <1>5, <1>6, <1>7, Induct
<1>9. PICK x \in Tracers : level[x] = 1 /\ names[x] = file
  BY DEF IsTree
<1>10. SameOf(order, after, Depth, file, a)
  BY <1>3, <1>8, <1>9
<1>11. QED
  BY <1>1, <1>2, <1>10 DEF SameOf

-----------------------------------------------------------------------------
(* The last event of a session.                                            *)

\* No more tracers are stacked than there are.
LEMMA StackFitsDepth ==
  ASSUME NEW s \in Seq(Tracers), \A i, j \in 1 .. Len(s) : s[i] = s[j] => i = j
  PROVE  Len(s) <= Depth
<1> DEFINE S == 1 .. Len(s)
<1>1. Len(s) \in Nat /\ s \in [S -> Tracers]
  OBVIOUS
<1>2. IsFiniteSet(S) /\ Cardinality(S) = Len(s)
  BY <1>1, FS_Interval
<1>3. SUFFICES ASSUME ~ (Len(s) <= Depth) PROVE FALSE
  OBVIOUS
<1>4. Cardinality(Tracers) < Cardinality(S)
  BY <1>1, <1>2, <1>3, DepthFacts DEF Depth
<1>5. \E i, j \in S : i # j /\ s[i] = s[j]
  BY <1>1, <1>2, <1>4, TracersAssumption, FS_PigeonHole
<1>6. QED
  BY <1>5

\* Lines do not say two things last.
LEMMA SaysOnce ==
  ASSUME NEW s \in Seq(Lines), NEW a, NEW kind, NEW ty, NEW other, NEW type,
         LastSays(s, a, kind, ty), LastSays(s, a, other, type)
  PROVE  kind = other /\ ty = type
<1>1. Len(s) \in Nat
  OBVIOUS
<1>2. PICK i \in 1 .. Len(s) : Tells(s[i], a, kind, ty) /\ \A j \in i + 1 .. Len(s) : ~ About(s[j], a)
  BY DEF LastSays, SaysUpTo
<1>3. PICK k \in 1 .. Len(s) : Tells(s[k], a, other, type) /\ \A j \in k + 1 .. Len(s) : ~ About(s[j], a)
  BY DEF LastSays, SaysUpTo
<1>4. About(s[i], a) /\ About(s[k], a)
  BY <1>2, <1>3 DEF Tells
<1>5. k \notin i + 1 .. Len(s) /\ i \notin k + 1 .. Len(s)
  BY <1>2, <1>3, <1>4
<1>6. i = k
  BY <1>1, <1>5
<1>7. QED
  BY <1>2, <1>3, <1>6 DEF Tells

\* From the outermost log the reader is led to the one on top, and nothing
\* that follows on the way back is about an object.
LEMMA LastEventTold ==
  ASSUME Base, NEW l \in [FileNames -> Seq(Lines)], NEW a, NEW kind, NEW ty,
         \A i \in 1 .. Len(stack) - 1 :
           \E k \in 1 .. Len(l[path[stack[i]]]) :
             /\ l[path[stack[i]]][k] = Detached(path[stack[i + 1]])
             /\ \A j \in k + 1 .. Len(l[path[stack[i]]]) : l[path[stack[i]]][j].kind = "MSG",
         stack # <<>>,
         NEW n, n = Len(l[path[stack[Len(stack)]]]), n > 0,
         Tells(l[path[stack[Len(stack)]]][n], a, kind, ty)
  PROVE  LastSays(ReadFrom(l, path[stack[1]]), a, kind, ty)
<1>1. PICK order : Reads(order, l, Depth) /\ \A p : ReadFrom(l, p) = order[Depth][p]
  BY OrderFacts
<1>2. Depth \in Nat
  BY DepthFacts
<1>3. /\ Len(stack) \in Nat /\ Len(stack) > 0 /\ Len(stack) <= Depth
      /\ \A i \in 1 .. Len(stack) : path[stack[i]] \in FileNames
  <2>1. stack \in Seq(Tracers) /\ \A i, j \in 1 .. Len(stack) : stack[i] = stack[j] => i = j
    BY DEF Base, TypeOK, Stacking
  <2>2. Len(stack) <= Depth
    BY <2>1, StackFitsDepth
  <2>3. QED
    BY <2>2, StackFacts
<1> DEFINE h == Len(stack)
           P == {m \in Nat : m < h =>
                   LastSays(order[(Depth - (h - m)) + 1][path[stack[h - m]]], a, kind, ty)}
<1> HIDE DEF h
<1>4. 0 \in P
  <2> DEFINE p == path[stack[h]]
             d == Depth - h + 1
  <2>1. p \in FileNames /\ d \in 0 .. Depth
    BY <1>2, <1>3 DEF h
  <2>2. l[p] \in Seq(Lines) /\ n = Len(l[p]) /\ n \in Nat /\ n \in 1 .. n
    BY <2>1 DEF h
  <2>3. LineSays(order, d, l[p][n], a, kind, ty)
    BY DEF LineSays, Tells, About, Kinds, h
  <2>4. \A j \in n + 1 .. Len(l[p]) : LineSilent(order, d, l[p][j], a)
    BY <2>2
  <2>5. LastSays(order[d][p], a, kind, ty)
    BY <1>1, <2>1, <2>2, <2>3, <2>4 DEF Reads, ReadsLog
  <2>6. h - 0 = h /\ d = (Depth - (h - 0)) + 1
    BY <1>2, <1>3 DEF h
  <2>7. QED
    BY <2>5, <2>6
<1>5. ASSUME NEW m \in Nat, m \in P
      PROVE  m + 1 \in P
  <2>1. ASSUME m + 1 < h
        PROVE  LastSays(order[(Depth - (h - (m + 1))) + 1][path[stack[h - (m + 1)]]], a, kind, ty)
    <3> DEFINE i == h - (m + 1)
               p == path[stack[i]]
               d == (Depth - i) + 1
    <3>1. /\ i \in 1 .. h - 1 /\ i \in 1 .. h /\ i + 1 \in 1 .. h /\ i + 1 = h - m
          /\ d \in 0 .. Depth /\ d > 0 /\ d - 1 = (Depth - (h - m)) + 1 /\ m < h
      BY <1>2, <1>3, <1>5, <2>1 DEF h
    <3>2. p \in FileNames /\ path[stack[i + 1]] \in FileNames
      BY <1>3, <3>1 DEF h
    <3> HIDE DEF i
    <3>3. l[p] \in Seq(Lines)
      BY <3>2
    <3>4. PICK k \in 1 .. Len(l[p]) :
            /\ l[p][k] = Detached(path[stack[i + 1]])
            /\ \A j \in k + 1 .. Len(l[p]) : l[p][j].kind = "MSG"
      BY <3>1 DEF h
    <3>5. LastSays(order[d - 1][path[stack[i + 1]]], a, kind, ty)
      BY <1>5, <3>1
    <3> HIDE DEF p, d
    <3>6. LineSays(order, d, l[p][k], a, kind, ty)
      <4>1. l[p][k].kind = "detach" /\ l[p][k].file = path[stack[i + 1]]
        BY <3>2, <3>4, LineFacts
      <4>2. QED
        BY <3>1, <3>5, <4>1 DEF LineSays
    <3>7. \A j \in k + 1 .. Len(l[p]) : LineSilent(order, d, l[p][j], a)
      BY <3>4 DEF LineSilent, About, Kinds
    <3>8. LastSays(order[d][p], a, kind, ty)
      BY <1>1, <3>1, <3>2, <3>4, <3>6, <3>7 DEF Reads, ReadsLog
    <3>9. QED
      BY <3>8 DEF i, p, d
  <2>2. QED
    BY <1>5, <2>1
<1>6. P \in SUBSET Nat
  OBVIOUS
<1>7. h - 1 \in P
  <2>1. h - 1 \in Nat
    BY <1>3 DEF h
  <2> HIDE DEF P
  <2>2. QED
    BY <1>4, <1>5, <1>6, <2>1, Induct
<1>8. h - 1 < h /\ h - (h - 1) = 1 /\ (Depth - 1) + 1 = Depth
  BY <1>2, <1>3 DEF h
<1>9. LastSays(order[(Depth - 1) + 1][path[stack[1]]], a, kind, ty)
  BY <1>7, <1>8
<1>10. QED
  BY <1>1, <1>8, <1>9

-----------------------------------------------------------------------------
(* How the tree grows.                                                     *)

Plain == {line \in Lines : line.kind # "detach"}

LEMMA MoreLines ==
  ASSUME NEW s, NEW t, NEW K, NEW L, K \subseteq L, Extends(s, t, K)
  PROVE  Extends(s, t, L)
BY DEF Extends

\* The logs of the tree keep their names, and get lines that lead nowhere.
GainPlainly(level, l, names, m, later) ==
  \A x \in Tracers : level[x] > 0 =>
    later[x] = names[x] /\ Extends(l[names[x]], m[names[x]], Plain)

\* Lines that lead nowhere leave the tree as it is.
LEMMA TreeGrows ==
  ASSUME NEW l \in [FileNames -> Seq(Lines)], NEW m \in [FileNames -> Seq(Lines)],
         NEW level \in [Tracers -> 0 .. Depth], NEW names, NEW later, NEW file,
         IsTree(level, l, names, file),
         GainPlainly(level, l, names, m, later)
  PROVE  IsTree(level, m, later, file)
<1>1. \A x \in Tracers : level[x] \in Nat
  BY DepthFacts
<1>0. \A x \in Tracers : level[x] > 0 =>
        later[x] = names[x] /\ Extends(l[names[x]], m[names[x]], Plain)
  BY DEF GainPlainly
<1>2. \A x \in Tracers : level[x] > 0 => names[x] \in FileNames
  BY DEF IsTree
<1>3. \A x \in Tracers : level[x] > 0 => later[x] \in FileNames
  BY <1>0, <1>2
<1>3a. \A x, y \in Tracers : level[x] > 0 /\ level[y] > 0 /\ later[x] = later[y] => x = y
  BY <1>0 DEF IsTree
<1>4. \A x \in Tracers : level[x] = 1 => later[x] = file
  <2>1. ASSUME NEW x \in Tracers, level[x] = 1
        PROVE  later[x] = file
    <3>1. level[x] > 0
      BY <2>1
    <3>2. QED
      BY <1>0, <2>1, <3>1 DEF IsTree
  <2>2. QED
    BY <2>1
<1>5. ASSUME NEW x \in Tracers, level[x] > 0, NEW i \in 1 .. Len(m[later[x]]),
             m[later[x]][i].kind = "detach"
      PROVE  \E y \in Tracers : later[y] = m[later[x]][i].file /\ level[y] = level[x] + 1
  <2> DEFINE p == names[x]
  <2>1. later[x] = p /\ p \in FileNames /\ Extends(l[p], m[p], Plain)
    BY <1>0, <1>2, <1>5
  <2> HIDE DEF p
  <2>2. Len(l[p]) \in Nat /\ Len(m[p]) \in Nat
    BY <2>1
  <2>3. i \notin Len(l[p]) + 1 .. Len(m[p])
    BY <1>5, <2>1 DEF Extends, Plain
  <2>4. i \in 1 .. Len(l[p])
    BY <1>5, <2>1, <2>2, <2>3
  <2>5. m[p][i] = l[p][i]
    BY <2>1, <2>4 DEF Extends
  <2>6. PICK y \in Tracers : names[y] = l[p][i].file /\ level[y] = level[x] + 1
    BY <1>5, <2>1, <2>4, <2>5 DEF IsTree, p
  <2>7. level[y] > 0
    BY <1>1, <2>6
  <2>8. QED
    BY <1>0, <2>1, <2>5, <2>6, <2>7
<1>6. ASSUME NEW y \in Tracers, level[y] > 1
      PROVE  \E x \in Tracers :
               /\ level[x] = level[y] - 1
               /\ \E i \in 1 .. Len(m[later[x]]) : m[later[x]][i] = Detached(later[y])
  <2>1. PICK x \in Tracers : /\ level[x] = level[y] - 1
                             /\ \E i \in 1 .. Len(l[names[x]]) : l[names[x]][i] = Detached(names[y])
    BY <1>6 DEF IsTree
  <2>2. level[x] > 0 /\ level[y] > 0
    BY <1>1, <1>6, <2>1
  <2>3. PICK i \in 1 .. Len(l[names[x]]) : l[names[x]][i] = Detached(names[y])
    BY <2>1
  <2> DEFINE p == names[x]
  <2>4. p \in FileNames /\ later[x] = p /\ Extends(l[p], m[p], Plain) /\ later[y] = names[y]
    BY <1>0, <1>2, <2>2
  <2>5. i \in 1 .. Len(m[p]) /\ m[p][i] = l[p][i]
    <3> HIDE DEF p
    <3>1. Len(l[p]) \in Nat /\ Len(m[p]) \in Nat
      BY <2>4
    <3>2. i \in 1 .. Len(l[p])
      BY DEF p
    <3>3. QED
      BY <2>4, <3>1, <3>2 DEF Extends
  <2>6. QED
    BY <2>1, <2>3, <2>4, <2>5
<1>7. \E x \in Tracers : level[x] = 1
  BY DEF IsTree
<1>8. QED
  BY <1>3, <1>3a, <1>4, <1>5, <1>6, <1>7 DEF IsTree

\* No log of the tree has the name.
IsNew(name, level, names) == \A y \in Tracers : level[y] > 0 => names[y] # name

\* A tracer that is stacked on top is in the tree, a level below the previous one.
LEMMA TreeDeepens ==
  ASSUME Base, NEW x \in Tracers, Enter(x), stack # <<>>,
         NEW level \in [Tracers -> 0 .. Depth], Levels(level), level[x] = 0,
         IsNew(path'[x], level, path)
  PROVE  LET deeper == [level EXCEPT ![x] = Len(stack) + 1]
         IN  /\ deeper \in [Tracers -> 0 .. Depth]
             /\ \A i \in 1 .. Len(stack') : deeper[stack'[i]] = i
             /\ IsTree(deeper, logs', path', session.file)
<1> DEFINE deeper == [level EXCEPT ![x] = Len(stack) + 1]
<1>1. MayEnter(x) /\ Stacks!Begin(x)
  BY DEF Enter
<1>2. /\ stack' \in Seq(Tracers) /\ Len(stack') = Len(stack) + 1 /\ stack'[Len(stack')] = x
      /\ \A i \in 1 .. Len(stack) : stack'[i] = stack[i] /\ stack[i] # x
  BY <1>1, PushedFacts
<1>3. Len(stack) \in Nat /\ Len(stack) >= 1 /\ \A i \in 1 .. Len(stack) : stack[i] \in Tracers
  BY StackFacts
<1>4. Len(stack) + 1 <= Depth
  <2>1. \A i, j \in 1 .. Len(stack) : stack[i] = stack[j] => i = j
    BY DEF Base, Stacking
  <2>2. \A i \in 1 .. Len(stack') : i \in 1 .. Len(stack) \/ i = Len(stack')
    BY <1>2, <1>3
  <2>3. \A i, j \in 1 .. Len(stack') : stack'[i] = stack'[j] => i = j
    BY <1>2, <2>1, <2>2
  <2>4. Len(stack') <= Depth
    BY <1>2, <2>3, StackFitsDepth
  <2>5. QED
    BY <1>2, <2>4
<1>5. /\ deeper \in [Tracers -> 0 .. Depth]
      /\ deeper[x] = Len(stack) + 1 /\ \A y \in Tracers \ {x} : deeper[y] = level[y]
  BY <1>3, <1>4, DepthFacts
<1> HIDE DEF deeper
<1>6. \A y \in Tracers : level[y] \in Nat
  BY DepthFacts
<1>7. /\ path'[x] \in FileNames
      /\ \A y \in Tracers \ {x} : path'[y] = path[y]
  BY <1>1, NameMadeUp
<1>8. IsTree(level, logs, path, session.file) /\ \A i \in 1 .. Len(stack) : level[stack[i]] = i
  BY DEF Levels
<1> DEFINE top == stack[Len(stack)]
           q == path[top]
<1>9. /\ top \in Tracers \ {x} /\ level[top] = Len(stack) /\ q \in FileNames \ {path'[x]}
      /\ logs'[q] = Append(logs[q], Detached(path'[x]))
  <2>1. Len(stack) \in 1 .. Len(stack)
    BY <1>3
  <2>2. top \in Tracers \ {x} /\ level[top] = Len(stack) /\ q \in FileNames /\ q # path'[x]
    BY <1>2, <1>3, <1>8, <2>1, StackFacts, OpenedFacts
  <2>3. QED
    BY <2>2, OpenedFacts
<1>10. ASSUME NEW y \in Tracers \ {x}, level[y] > 0
       PROVE  /\ path[y] \in FileNames \ {path'[x]} /\ path'[y] = path[y]
              /\ path[y] # q => logs'[path[y]] = logs[path[y]]
              /\ path[y] = q => y = top
  <2>1. path[y] \in FileNames /\ path'[y] = path[y]
    BY <1>7, <1>8, <1>10 DEF IsTree
  <2>3. path[y] # path'[x]
    BY <1>10 DEF IsNew
  <2>4. path[y] # q => logs'[path[y]] = logs[path[y]]
    <3>1. ASSUME NEW p \in FileNames \ {path'[x]}, p # q
          PROVE  logs'[p] = logs[p]
      BY <3>1, OpenedFacts
    <3>2. QED
      BY <2>1, <2>3, <3>1
  <2>5. path[y] = q => y = top
    <3>1. level[top] > 0
      BY <1>3, <1>9
    <3>2. QED
      BY <1>8, <1>9, <1>10, <3>1 DEF IsTree
  <2>6. QED
    BY <2>1, <2>3, <2>4, <2>5
<1>11. logs'[path'[x]] = <<>>
  BY OpenedFacts
<1>12. /\ logs[q] \in Seq(Lines) /\ Len(logs[q]) \in Nat /\ Len(logs'[q]) = Len(logs[q]) + 1
       /\ logs'[q][Len(logs[q]) + 1] = Detached(path'[x])
       /\ \A i \in 1 .. Len(logs[q]) : logs'[q][i] = logs[q][i]
  <2> DEFINE line == Detached(path'[x])
  <2>1. line \in Lines
    BY <1>7, LineFacts
  <2>2. logs[q] \in Seq(Lines)
    BY <1>9 DEF Base, TypeOK
  <2> HIDE DEF line
  <2>3. QED
    BY <1>9, <2>1, <2>2, LineAdded DEF line
<1> HIDE DEF top, q
<1>13. \A i \in 1 .. Len(stack') : deeper[stack'[i]] = i
  <2>1. \A i \in 1 .. Len(stack') : i \in 1 .. Len(stack) \/ i = Len(stack')
    BY <1>2, <1>3
  <2>2. ASSUME NEW i \in 1 .. Len(stack)
        PROVE  deeper[stack'[i]] = i
    BY <1>2, <1>3, <1>5, <1>8
  <2>3. QED
    BY <1>2, <1>5, <2>1, <2>2
<1>14. ASSUME NEW y \in Tracers, deeper[y] > 0
       PROVE  path'[y] \in FileNames
  BY <1>5, <1>7, <1>10, <1>14
<1>15. \E y \in Tracers : deeper[y] = 1
  <2>1. PICK y \in Tracers : level[y] = 1
    BY <1>8 DEF IsTree
  <2>2. QED
    BY <1>5, <2>1
<1>16. ASSUME NEW y \in Tracers, deeper[y] = 1
       PROVE  path'[y] = session.file
  <2>1. y \in Tracers \ {x}
    BY <1>3, <1>5, <1>16
  <2>2. level[y] = 1 /\ level[y] > 0
    BY <1>5, <1>16, <2>1
  <2>3. QED
    BY <1>8, <1>10, <2>1, <2>2 DEF IsTree
<1>17. ASSUME NEW y \in Tracers, deeper[y] > 0, NEW i \in 1 .. Len(logs'[path'[y]]),
              logs'[path'[y]][i].kind = "detach"
       PROVE  \E z \in Tracers : path'[z] = logs'[path'[y]][i].file /\ deeper[z] = deeper[y] + 1
  <2>1. y \in Tracers \ {x}
    <3>1. \A j \in 1 .. Len(<<>>) : FALSE
      OBVIOUS
    <3>2. QED
      BY <1>11, <1>17, <3>1
  <2>2. level[y] > 0 /\ deeper[y] = level[y]
    BY <1>5, <1>17, <2>1
  <2> DEFINE p == path[y]
  <2>3. p \in FileNames \ {path'[x]} /\ path'[y] = p
    BY <1>10, <2>1, <2>2
  <2>4. ASSUME i \in 1 .. Len(logs[p]), logs'[p][i] = logs[p][i]
        PROVE  \E z \in Tracers : path'[z] = logs'[path'[y]][i].file /\ deeper[z] = deeper[y] + 1
    <3>a. i \in 1 .. Len(logs[path[y]]) /\ logs[path[y]][i].kind = "detach"
      BY <1>17, <2>3, <2>4
    <3>1. PICK z \in Tracers : path[z] = logs[p][i].file /\ level[z] = level[y] + 1
      BY <1>8, <2>2, <3>a DEF IsTree
    <3>2. level[z] > 0 /\ z \in Tracers \ {x}
      <4>1. level[y] \in Nat /\ level[z] # 0
        BY <1>6, <3>1
      <4>2. QED
        BY <1>6, <3>1, <4>1
    <3>3. path'[z] = path[z] /\ deeper[z] = level[z]
      BY <1>5, <1>10, <3>2
    <3>4. QED
      BY <2>2, <2>3, <2>4, <3>1, <3>3
  <2> HIDE DEF p
  <2>5. CASE p # q
    <3>1. logs'[p] = logs[p]
      BY <1>10, <2>1, <2>2, <2>5 DEF p
    <3>2. QED
      BY <1>17, <2>3, <2>4, <3>1
  <2>6. CASE p = q
    <3>1. y = top
      BY <1>10, <2>1, <2>2, <2>6 DEF p
    <3>2. i \in 1 .. Len(logs[q]) \/ i = Len(logs[q]) + 1
      BY <1>12, <1>17, <2>3, <2>6
    <3>3. CASE i \in 1 .. Len(logs[q])
      BY <1>12, <2>4, <2>6, <3>3
    <3>4. CASE i = Len(logs[q]) + 1
      <4>1. logs'[path'[y]][i] = Detached(path'[x])
        BY <1>12, <2>3, <2>6, <3>4
      <4>2. logs'[path'[y]][i].file = path'[x]
        BY <1>7, <4>1, LineFacts
      <4>3. deeper[x] = deeper[y] + 1
        BY <1>5, <1>9, <2>2, <3>1
      <4>4. QED
        BY <4>2, <4>3
    <3>5. QED
      BY <3>2, <3>3, <3>4
  <2>7. QED
    BY <2>5, <2>6
<1>18. ASSUME NEW y \in Tracers, deeper[y] > 1
       PROVE  \E z \in Tracers :
                /\ deeper[z] = deeper[y] - 1
                /\ \E i \in 1 .. Len(logs'[path'[z]]) : logs'[path'[z]][i] = Detached(path'[y])
  <2>1. CASE y = x
    <3>1. deeper[top] = deeper[y] - 1 /\ top \in Tracers
      BY <1>3, <1>5, <1>9, <2>1
    <3>2. path'[top] = q
      BY <1>7, <1>9 DEF q
    <3>3. Len(logs[q]) + 1 \in 1 .. Len(logs'[path'[top]])
      BY <1>12, <3>2
    <3>4. logs'[path'[top]][Len(logs[q]) + 1] = Detached(path'[y])
      BY <1>12, <2>1, <3>2
    <3>5. QED
      BY <3>1, <3>3, <3>4
  <2>2. CASE y # x
    <3>1. level[y] > 1 /\ level[y] = deeper[y] /\ level[y] > 0 /\ y \in Tracers \ {x}
      BY <1>5, <1>6, <1>18, <2>2
    <3>2. PICK z \in Tracers : /\ level[z] = level[y] - 1
                               /\ \E i \in 1 .. Len(logs[path[z]]) : logs[path[z]][i] = Detached(path[y])
      BY <1>8, <3>1 DEF IsTree
    <3>3. PICK i \in 1 .. Len(logs[path[z]]) : logs[path[z]][i] = Detached(path[y])
      BY <3>2
    <3>4. level[z] > 0
      BY <1>6, <3>1, <3>2
    <3>5. z \in Tracers \ {x}
      BY <3>4
    <3>6. path'[z] = path[z] /\ path'[y] = path[y] /\ deeper[z] = deeper[y] - 1
      BY <1>5, <1>10, <3>1, <3>2, <3>4, <3>5
    <3>7. CASE path[z] # q
      <4>1. logs'[path[z]] = logs[path[z]]
        BY <1>10, <3>4, <3>5, <3>7
      <4>2. QED
        BY <3>3, <3>6, <4>1
    <3>8. CASE path[z] = q
      <4>1. i \in 1 .. Len(logs'[q]) /\ logs'[q][i] = logs[q][i]
        BY <1>12, <3>3, <3>8
      <4>2. QED
        BY <3>3, <3>6, <3>8, <4>1
    <3>9. QED
      BY <3>7, <3>8
  <2>3. QED
    BY <2>1, <2>2
<1>18a. ASSUME NEW y \in Tracers, NEW z \in Tracers, deeper[y] > 0, deeper[z] > 0, path'[y] = path'[z]
        PROVE  y = z
  <2>1. CASE y # x /\ z # x
    <3>1. level[y] > 0 /\ level[z] > 0 /\ path'[y] = path[y] /\ path'[z] = path[z]
      BY <1>5, <1>10, <1>18a, <2>1
    <3>2. QED
      BY <1>8, <1>18a, <3>1 DEF IsTree
  <2>2. \A w \in Tracers \ {x} : deeper[w] > 0 => path'[w] # path'[x]
    BY <1>5, <1>10
  <2>3. QED
    BY <1>18a, <2>1, <2>2
<1>19. IsTree(deeper, logs', path', session.file)
  BY <1>14, <1>18a, <1>15, <1>16, <1>17, <1>18 DEF IsTree
<1>20. QED
  BY <1>5, <1>13, <1>19 DEF deeper

-----------------------------------------------------------------------------
(* The steps of a session.                                                 *)

LEMMA ReadFromFacts ==
  ASSUME NEW l \in [FileNames -> Seq(Lines)], NEW file \in FileNames
  PROVE  /\ ReadFrom(l, file) \in Seq(Lines)
         /\ Reader!CanBeRead(l, Depth, file) <=>
              \A line : Holds(ReadFrom(l, file), line) => line.kind # "half"
<1>1. PICK order : Reads(order, l, Depth) /\ \A p : ReadFrom(l, p) = order[Depth][p]
  BY OrderFacts
<1>2. Depth \in 0 .. Depth
  BY DepthFacts
<1>3. ReadFrom(l, file) \in Seq(Lines)
  BY <1>1, <1>2 DEF Reads, ReadsLog
<1> DEFINE s == ReadFrom(l, file)
<1>4. Reader!CanBeRead(l, Depth, file) <=> \A i \in DOMAIN s : s[i].kind # "half"
  BY DEF Reader!CanBeRead, Reader!Legible, ReadFrom
<1>5. s \in Seq(Lines) /\ DOMAIN s = 1 .. Len(s)
  BY <1>3
<1> HIDE DEF s
<1>6. (\A i \in DOMAIN s : s[i].kind # "half") <=> \A line : Holds(s, line) => line.kind # "half"
  BY <1>5 DEF Holds
<1>7. QED
  BY <1>3, <1>4, <1>6 DEF s

\* What was in the tree is in it, and each log has what it had.
Continues(level, l, names, deeper, m, later) ==
  \A x \in Tracers : level[x] > 0 =>
    /\ deeper[x] > 0 /\ later[x] = names[x]
    /\ \E K : Extends(l[names[x]], m[names[x]], K)

\* What can be read could be read before.
LEMMA WasReadable ==
  ASSUME NEW l \in [FileNames -> Seq(Lines)], NEW m \in [FileNames -> Seq(Lines)],
         NEW file \in FileNames, NEW names, NEW later,
         NEW level \in [Tracers -> 0 .. Depth], IsTree(level, l, names, file),
         NEW deeper \in [Tracers -> 0 .. Depth], IsTree(deeper, m, later, file),
         Continues(level, l, names, deeper, m, later),
         Reader!CanBeRead(m, Depth, file)
  PROVE  Reader!CanBeRead(l, Depth, file)
<1>1. SUFFICES ASSUME NEW line, Holds(ReadFrom(l, file), line)
               PROVE  line.kind # "half"
  BY ReadFromFacts
<1>2. PICK x \in Tracers : level[x] > 0 /\ Holds(l[names[x]], line)
  BY <1>1, LinesReadAreInTree
<1> DEFINE p == names[x]
<1>3. p \in FileNames /\ deeper[x] > 0 /\ later[x] = p /\ \E K : Extends(l[p], m[p], K)
  BY <1>2 DEF IsTree, Continues
<1> HIDE DEF p
<1>4. PICK i \in 1 .. Len(l[p]) : l[p][i] = line
  BY <1>2 DEF Holds, p
<1>5. i \in 1 .. Len(m[p]) /\ m[p][i] = line
  <2>1. Len(l[p]) \in Nat /\ Len(m[p]) \in Nat
    BY <1>3
  <2>2. QED
    BY <1>3, <1>4, <2>1 DEF Extends
<1>6. Holds(ReadFrom(m, file), m[later[x]][i])
  BY <1>3, <1>5, LinesOfTreeAreRead
<1>7. QED
  BY <1>3, <1>5, <1>6, ReadFromFacts

\* A file that was not opened in the session is not in the tree.
LEMMA NotInTree ==
  ASSUME Base, NEW x \in Tracers, Enter(x), stack # <<>>,
         NEW level \in [Tracers -> 0 .. Depth], Levels(level), ~ OpenedInSession(path'[x])
  PROVE  level[x] = 0 /\ IsNew(path'[x], level, path)
<1>1. MayEnter(x) /\ Stacks!Begin(x)
  BY DEF Enter
<1>2. IsTree(level, logs, path, session.file) /\ logs \in [FileNames -> Seq(Lines)]
  BY DEF Levels, Base, TypeOK
<1>3. ASSUME NEW z \in Tracers, level[z] > 0, path[z] = path'[x]
      PROVE  FALSE
  <2>1. CASE level[z] = 1
    <3>1. path[z] = session.file
      BY <1>2, <2>1 DEF IsTree
    <3>2. session.file = path[stack[1]] /\ 1 \in 1 .. Len(stack)
      BY StackFacts DEF Base, Stacking
    <3>3. path[stack[1]] # path'[x]
      BY <1>1, <3>2, NameMadeUp
    <3>4. QED
      BY <1>3, <3>1, <3>2, <3>3
  <2>2. CASE level[z] # 1
    <3>1. level[z] > 1 /\ level[z] \in Nat
      BY <1>3, <2>2, DepthFacts
    <3>2. PICK y \in Tracers : /\ level[y] = level[z] - 1
                               /\ \E i \in 1 .. Len(logs[path[y]]) : logs[path[y]][i] = Detached(path[z])
      BY <1>2, <3>1 DEF IsTree
    <3>3. PICK i \in 1 .. Len(logs[path[y]]) : logs[path[y]][i] = Detached(path[z])
      BY <3>2
    <3>4. level[y] > 0
      BY <3>1, <3>2
    <3>5. Holds(ReadFrom(logs, session.file), Detached(path'[x]))
      BY <1>2, <1>3, <3>3, <3>4, LinesOfTreeAreRead
    <3>6. session.file \in FileNames
      BY <1>2 DEF IsTree
    <3> DEFINE s == ReadFrom(logs, session.file)
    <3>7. s \in Seq(Lines) /\ DOMAIN s = 1 .. Len(s)
      <4>1. s \in Seq(Lines)
        BY <1>2, <3>6, ReadFromFacts
      <4> HIDE DEF s
      <4>2. QED
        BY <4>1
    <3>8. LinesOf(session.file) = s
      BY DEF LinesOf, ReadFrom, Depth
    <3> HIDE DEF s
    <3>9. \E i1 \in DOMAIN s : s[i1] = Detached(path'[x])
      BY <3>5, <3>7 DEF Holds, s
    <3>10. QED
      BY <3>8, <3>9 DEF OpenedInSession
  <2>3. QED
    BY <2>1, <2>2
<1>4. IsNew(path'[x], level, path)
  BY <1>3 DEF IsNew
<1>5. level[x] = 0
  <2>1. SUFFICES ASSUME level[x] > 0 PROVE FALSE
    BY DepthFacts
  <2>2. path[x] # None
    BY <1>2, <2>1, NamesAssumption DEF IsTree
  <2>3. path'[x] = path[x]
    BY <1>1, <2>2, NameMadeUp
  <2>4. QED
    BY <1>3, <2>1, <2>3
<1>6. QED
  BY <1>4, <1>5

\* What becomes of objects nobody writes about, and of what the lines say of them.
LEMMA OverlookedTold ==
  ASSUME Base, Overlooked, NEW trace, IsTold(trace, heap, session.seen, session.unseen)
  PROVE  IsTold(trace, heap', session'.seen, session'.unseen)
<1>1. heap \in [Addresses -> Types \cup {NoObject}] /\ session \in Session
  BY DEF Base, TypeOK
<1>2. CASE UNCHANGED <<heap, session>>
  BY <1>2
<1>3. ASSUME NEW b \in Addresses, NEW ty \in Types, heap[b] = NoObject,
             heap' = [heap EXCEPT ![b] = ty], session' = session
      PROVE  IsTold(trace, heap', session'.seen, session'.unseen)
  <2>1. b \notin session.seen
    BY <1>3, NamesAssumption DEF IsTold
  <2>2. \A a \in Addresses \ {b} : heap'[a] = heap[a]
    BY <1>1, <1>3
  <2>3. QED
    BY <1>3, <2>1, <2>2 DEF IsTold
<1>4. ASSUME NEW b \in Addresses, heap[b] # NoObject, heap' = [heap EXCEPT ![b] = NoObject],
             session' = [session EXCEPT !.seen = @ \ {b}, !.unseen = @ \cup Missed(b)]
      PROVE  IsTold(trace, heap', session'.seen, session'.unseen)
  <2>1. session'.seen = session.seen \ {b} /\ session'.unseen = session.unseen \cup Missed(b)
    BY <1>1, <1>4 DEF Session
  <2>2. \A a \in Addresses \ {b} : heap'[a] = heap[a]
    BY <1>1, <1>4
  <2>3. ASSUME NEW a \in Addresses
        PROVE  /\ a \in session'.seen => heap'[a] \in Types /\ LastSays(trace, a, "NEW", heap'[a])
               /\ a \in session'.unseen => \E ty \in Types : LastSays(trace, a, "NEW", ty)
               /\ a \notin session'.seen \cup session'.unseen =>
                    \A ty \in Types : ~ LastSays(trace, a, "NEW", ty)
    <3>1. /\ a \in session.seen => heap[a] \in Types /\ LastSays(trace, a, "NEW", heap[a])
          /\ a \in session.unseen => \E ty \in Types : LastSays(trace, a, "NEW", ty)
          /\ a \notin session.seen \cup session.unseen =>
               \A ty \in Types : ~ LastSays(trace, a, "NEW", ty)
      BY DEF IsTold
    <3>2. CASE a # b
      <4>1. /\ a \in session'.seen <=> a \in session.seen
            /\ a \in session'.unseen <=> a \in session.unseen
            /\ heap'[a] = heap[a]
        BY <2>1, <2>2, <3>2 DEF Missed
      <4>2. QED
        BY <3>1, <4>1
    <3>3. CASE a = b
      <4>1. /\ a \notin session'.seen
            /\ a \in session'.unseen <=> a \in session.seen \cup session.unseen
        BY <2>1, <3>3 DEF Missed
      <4>2. QED
        BY <3>1, <4>1
    <3>4. QED
      BY <3>2, <3>3
  <2>4. QED
    BY <2>3 DEF IsTold
<1>5. QED
  BY <1>2, <1>3, <1>4 DEF Overlooked

\* The names of the logs in the tree stay.
LEMMA NamesInTree ==
  ASSUME NEW level, NEW l, NEW file, IsTree(level, l, path, file),
         \A y \in Tracers : path[y] # None => path'[y] = path[y]
  PROVE  \A x \in Tracers : level[x] > 0 => path[x] \in FileNames /\ path'[x] = path[x]
<1>1. \A p \in FileNames : p # None
  BY NamesAssumption
<1>2. \A x \in Tracers : level[x] > 0 => path[x] \in FileNames
  BY DEF IsTree
<1>3. ASSUME NEW x \in Tracers, level[x] > 0
      PROVE  path[x] \in FileNames /\ path'[x] = path[x]
  BY <1>1, <1>2, <1>3
<1>4. QED
  BY <1>3

\* The tree and what it tells, when no log gets a line that leads to another.
LEMMA PlainStep ==
  ASSUME Base, Base', NEW level \in [Tracers -> 0 .. Depth], Levels(level),
         stack' = stack \/ Popped,
         \A y \in Tracers : path[y] # None => path'[y] = path[y],
         session'.file = session.file, session.file # None,
         \A p \in FileNames : Extends(logs[p], logs'[p], Plain)
  PROVE  /\ \A i \in 1 .. Len(stack') : level[stack'[i]] = i
         /\ IsTree(level, logs', path', session'.file)
         /\ Reader!CanBeRead(logs', Depth, session'.file) => Reader!CanBeRead(logs, Depth, session.file)
         /\ \A a : (\A p \in FileNames : Extends(logs[p], logs'[p], {line \in Plain : ~ About(line, a)})) =>
              \A kind, ty : LastSays(ReadFrom(logs', session'.file), a, kind, ty) <=>
                              LastSays(ReadFrom(logs, session.file), a, kind, ty)
<1>1. /\ logs \in [FileNames -> Seq(Lines)] /\ logs' \in [FileNames -> Seq(Lines)]
      /\ session.file \in FileNames
  BY DEF Base, TypeOK, Session
<1>2. /\ IsTree(level, logs, path, session.file)
      /\ \A i \in 1 .. Len(stack) : level[stack[i]] = i
  BY DEF Levels
<1>3. \A i \in 1 .. Len(stack') : level[stack'[i]] = i
  BY <1>2, StackKept
<1>4. \A x \in Tracers : level[x] > 0 => path[x] \in FileNames /\ path'[x] = path[x]
  BY <1>2, NamesInTree
<1>5. IsTree(level, logs', path', session.file)
  <2>1. GainPlainly(level, logs, path, logs', path')
    BY <1>4 DEF GainPlainly
  <2>2. QED
    BY <1>1, <1>2, <2>1, TreeGrows
<1>6. ASSUME Reader!CanBeRead(logs', Depth, session.file)
      PROVE  Reader!CanBeRead(logs, Depth, session.file)
  <2>1. Continues(level, logs, path, level, logs', path')
    BY <1>4 DEF Continues
  <2>2. QED
    BY <1>1, <1>2, <1>5, <1>6, <2>1, WasReadable
<1>7. ASSUME NEW a, \A p \in FileNames : Extends(logs[p], logs'[p], {line \in Plain : ~ About(line, a)})
      PROVE  \A kind, ty : LastSays(ReadFrom(logs', session.file), a, kind, ty) <=>
                             LastSays(ReadFrom(logs, session.file), a, kind, ty)
  <2>1. ASSUME NEW x \in Tracers, level[x] > 0
        PROVE  /\ Len(logs[path[x]]) <= Len(logs'[path[x]])
               /\ \A i \in 1 .. Len(logs[path[x]]) : logs'[path[x]][i] = logs[path[x]][i]
               /\ \A i \in Len(logs[path[x]]) + 1 .. Len(logs'[path[x]]) :
                    Mute(logs', logs'[path[x]][i], a)
    <3> DEFINE s == logs[path[x]]
               t == logs'[path[x]]
    <3>1. Extends(s, t, {line \in Plain : ~ About(line, a)})
      BY <1>4, <1>7, <2>1
    <3>2. Len(s) \in Nat /\ Len(t) \in Nat
      BY <1>1, <1>4, <2>1
    <3> HIDE DEF s, t
    <3>3. /\ Len(s) <= Len(t) /\ \A i \in 1 .. Len(s) : t[i] = s[i]
          /\ \A i \in Len(s) + 1 .. Len(t) : t[i] \in Plain /\ ~ About(t[i], a)
      BY <3>1, <3>2 DEF Extends
    <3>4. \A i \in Len(s) + 1 .. Len(t) : Mute(logs', t[i], a)
      BY <3>3 DEF Mute, Plain
    <3>5. QED
      BY <3>3, <3>4 DEF s, t
  <2>2. AddsNothing(level, logs, path, logs', a)
    BY <2>1 DEF AddsNothing
  <2>3. QED
    BY <1>1, <1>2, <2>2, SameTold
<1>8. QED
  BY <1>3, <1>5, <1>6, <1>7

\* Lines about other addresses leave what is told of an address.
LEMMA StillTold ==
  ASSUME NEW trace, NEW later, IsTold(trace, heap, session.seen, session.unseen),
         \A a \in Addresses : \A kind, ty :
           LastSays(later, a, kind, ty) <=> LastSays(trace, a, kind, ty)
  PROVE  IsTold(later, heap, session.seen, session.unseen)
BY DEF IsTold

LEMMA OverlookedStep ==
  ASSUME Base, Base', Overlooked, Tree, Told,
         stack' = stack \/ Popped,
         \A y \in Tracers : path[y] # None => path'[y] = path[y],
         \A p \in FileNames : Extends(logs[p], logs'[p], {Line("MSG"), Line("half")})
  PROVE  Tree' /\ Told'
<1>1. session'.file = session.file /\ session'.rewritten = session.rewritten
  BY OverlookedFacts
<1>2. SUFFICES ASSUME Intact' PROVE Tree' /\ Told'
  BY DEF Tree, Told
<1>3. Intact /\ session.file # None
  BY <1>1, <1>2 DEF Intact
<1>4. PICK level \in [Tracers -> 0 .. Depth] : Levels(level)
  BY <1>3 DEF Tree
<1>5. \A a : {Line("MSG"), Line("half")} \subseteq {line \in Plain : ~ About(line, a)}
  BY LineFacts DEF Plain, About, Kinds
<1>6. \A a, p : p \in FileNames =>
        Extends(logs[p], logs'[p], {line \in Plain : ~ About(line, a)})
  BY <1>5, MoreLines
<1>7. \A p \in FileNames : Extends(logs[p], logs'[p], Plain)
  <2>1. {Line("MSG"), Line("half")} \subseteq Plain
    BY LineFacts DEF Plain
  <2>2. QED
    BY <2>1, MoreLines
<1> DEFINE trace == ReadFrom(logs, session.file)
           later == ReadFrom(logs', session'.file)
<1>8. /\ \A i \in 1 .. Len(stack') : level[stack'[i]] = i
      /\ IsTree(level, logs', path', session'.file)
      /\ Reader!CanBeRead(logs', Depth, session'.file) => Reader!CanBeRead(logs, Depth, session.file)
      /\ \A a : \A kind, ty : LastSays(later, a, kind, ty) <=> LastSays(trace, a, kind, ty)
  BY <1>1, <1>3, <1>4, <1>6, <1>7, PlainStep
<1>9. Tree'
  <2>1. Levels(level)'
    BY <1>8 DEF Levels
  <2>2. QED
    BY <2>1 DEF Tree
<1>10. ASSUME Reader!CanBeRead(logs', Depth, session'.file)
       PROVE  IsTold(later, heap', session'.seen, session'.unseen)
  <2>1. IsTold(trace, heap, session.seen, session.unseen)
    BY <1>3, <1>8, <1>10 DEF Told
  <2> HIDE DEF trace, later
  <2>2. IsTold(later, heap, session.seen, session.unseen)
    BY <1>8, <2>1, StillTold
  <2>3. QED
    BY <2>2, OverlookedTold
<1>11. Told'
  BY <1>10 DEF Told
<1>12. QED
  BY <1>9, <1>11

\* A with block in another: the log of its tracer is empty, and the one it is
\* led to from says nothing more.
LEMMA InnerBlockStep ==
  ASSUME Base, Base', NEW x \in Tracers, Enter(x), stack # <<>>, Tree, Told
  PROVE  Tree' /\ Told'
<1>1. /\ session \in Session /\ heap' = heap
      /\ session' = [session EXCEPT !.rewritten = @ \/ OpenedInSession(path'[x])]
      /\ MayEnter(x)
  BY DEF Base, TypeOK, Enter
<1>2. /\ session'.file = session.file
      /\ session'.seen = session.seen /\ session'.unseen = session.unseen
      /\ session'.rewritten = (session.rewritten \/ OpenedInSession(path'[x]))
  BY <1>1 DEF Session
<1>3. SUFFICES ASSUME Intact' PROVE Tree' /\ Told'
  BY DEF Tree, Told
<1>4. Intact /\ ~ OpenedInSession(path'[x])
  BY <1>2, <1>3 DEF Intact
<1>5. PICK level \in [Tracers -> 0 .. Depth] : Levels(level)
  BY <1>4 DEF Tree
<1>6. level[x] = 0 /\ IsNew(path'[x], level, path)
  BY <1>4, <1>5, NotInTree
<1>7. PICK deeper \in [Tracers -> 0 .. Depth] :
        /\ deeper = [level EXCEPT ![x] = Len(stack) + 1]
        /\ \A i \in 1 .. Len(stack') : deeper[stack'[i]] = i
        /\ IsTree(deeper, logs', path', session.file)
  BY <1>5, <1>6, TreeDeepens
<1>8. \A y \in Tracers : level[y] > 0 => deeper[y] = level[y] /\ y # x
  BY <1>6, <1>7, DepthFacts
<1>9. Tree'
  <2>1. Levels(deeper)'
    BY <1>2, <1>7 DEF Levels
  <2>2. QED
    BY <1>7, <2>1 DEF Tree
<1>10. /\ logs \in [FileNames -> Seq(Lines)] /\ logs' \in [FileNames -> Seq(Lines)]
       /\ session.file \in FileNames
       /\ IsTree(level, logs, path, session.file)
  BY <1>4, <1>5 DEF Base, TypeOK, Session, Levels, Intact
<1>11. logs'[path'[x]] = <<>> /\ path'[x] \in FileNames
  BY <1>1, OpenedFacts, NameMadeUp
<1>12. ASSUME NEW y \in Tracers, level[y] > 0
       PROVE  /\ deeper[y] > 0 /\ path'[y] = path[y]
              /\ Extends(logs[path[y]], logs'[path[y]], {Detached(path'[x])})
  <2>1. path[y] \in FileNames
    BY <1>10, <1>12 DEF IsTree
  <2>2. path'[y] = path[y] /\ path[y] # path'[x]
    BY <1>1, <1>6, <1>8, <1>12, NameMadeUp DEF IsNew
  <2>3. Extends(logs[path[y]], logs'[path[y]], {Detached(path'[x])})
    BY <2>1, <2>2, OpenedFacts
  <2>4. QED
    BY <1>8, <1>12, <2>2, <2>3
<1>13. ASSUME Reader!CanBeRead(logs', Depth, session.file)
       PROVE  Reader!CanBeRead(logs, Depth, session.file)
  <2>1. Continues(level, logs, path, deeper, logs', path')
    BY <1>12 DEF Continues
  <2>2. QED
    BY <1>7, <1>10, <1>13, <2>1, WasReadable
<1> DEFINE trace == ReadFrom(logs, session.file)
           later == ReadFrom(logs', session.file)
<1>14. ASSUME NEW a
       PROVE  \A kind, ty : LastSays(later, a, kind, ty) <=> LastSays(trace, a, kind, ty)
  <2>1. Mute(logs', Detached(path'[x]), a)
    BY <1>11, LineFacts DEF Mute
  <2>2. ASSUME NEW y \in Tracers, level[y] > 0
        PROVE  /\ Len(logs[path[y]]) <= Len(logs'[path[y]])
               /\ \A i \in 1 .. Len(logs[path[y]]) : logs'[path[y]][i] = logs[path[y]][i]
               /\ \A i \in Len(logs[path[y]]) + 1 .. Len(logs'[path[y]]) :
                    Mute(logs', logs'[path[y]][i], a)
    <3> DEFINE s == logs[path[y]]
               t == logs'[path[y]]
    <3>1. Extends(s, t, {Detached(path'[x])})
      BY <1>12, <2>2
    <3>2. path[y] \in FileNames
      BY <1>10, <2>2 DEF IsTree
    <3>3. Len(s) \in Nat /\ Len(t) \in Nat
      BY <1>10, <3>2
    <3> HIDE DEF s, t
    <3>4. /\ Len(s) <= Len(t) /\ \A i \in 1 .. Len(s) : t[i] = s[i]
          /\ \A i \in Len(s) + 1 .. Len(t) : t[i] = Detached(path'[x])
      BY <3>1, <3>3 DEF Extends
    <3>5. \A i \in Len(s) + 1 .. Len(t) : Mute(logs', t[i], a)
      BY <2>1, <3>4
    <3>6. QED
      BY <3>4, <3>5 DEF s, t
  <2>3. QED
    <3>1. AddsNothing(level, logs, path, logs', a)
      BY <2>2 DEF AddsNothing
    <3>2. QED
      BY <1>10, <3>1, SameTold
<1>15. ASSUME Reader!CanBeRead(logs', Depth, session'.file)
       PROVE  IsTold(later, heap', session'.seen, session'.unseen)
  <2>1. IsTold(trace, heap, session.seen, session.unseen)
    BY <1>2, <1>4, <1>13, <1>15 DEF Told
  <2> HIDE DEF trace, later
  <2>2. IsTold(later, heap, session.seen, session.unseen)
    BY <1>14, <2>1, StillTold
  <2>3. QED
    BY <1>1, <1>2, <2>2
<1>16. Told'
  BY <1>2, <1>15 DEF Told
<1>17. QED
  BY <1>9, <1>16

\* An outermost with block starts a session: its log is the tree, and is empty.
LEMMA OuterBlockStep ==
  ASSUME Base, Base', NEW x \in Tracers, Enter(x), stack = <<>>
  PROVE  Tree' /\ Told'
<1>1. /\ session' = [file |-> path'[x], seen |-> {}, unseen |-> {}, rewritten |-> FALSE]
      /\ MayEnter(x) /\ Stacks!Begin(x)
  BY DEF Enter
<1>2. /\ session'.file = path'[x] /\ session'.seen = {} /\ session'.unseen = {}
  BY <1>1
<1>3. logs'[path'[x]] = <<>> /\ path'[x] \in FileNames /\ logs' \in [FileNames -> Seq(Lines)]
  BY <1>1, OpenedFacts, NameMadeUp
<1> DEFINE level == [y \in Tracers |-> IF y = x THEN 1 ELSE 0]
<1>4. level \in [Tracers -> 0 .. Depth]
  <2>1. Depth # 0
    BY TracersAssumption, FS_EmptySet DEF Depth
  <2>2. 1 \in 0 .. Depth /\ 0 \in 0 .. Depth
    BY <2>1, DepthFacts
  <2>3. QED
    BY <2>2
<1>5. Len(logs'[path'[x]]) = 0
  BY <1>3
<1>6. IsTree(level, logs', path', path'[x])
  BY <1>3, <1>5 DEF IsTree
<1>7. \A i \in 1 .. Len(stack') : level[stack'[i]] = i
  <2>1. Len(stack) = 0
    BY StackFacts
  <2>2. Len(stack') = 1 /\ stack'[1] = x
    BY <1>1, <2>1, PushedFacts
  <2>3. QED
    BY <2>2
<1> HIDE DEF level
<1>8. Tree'
  <2>1. Levels(level)'
    BY <1>2, <1>6, <1>7 DEF Levels
  <2>2. QED
    BY <1>4, <2>1 DEF Tree
<1>9. ASSUME NEW a, NEW kind, NEW ty
      PROVE  ~ LastSays(ReadFrom(logs', path'[x]), a, kind, ty)
  <2>1. PICK order : Reads(order, logs', Depth) /\ \A p : ReadFrom(logs', p) = order[Depth][p]
    BY <1>3, OrderFacts
  <2>2. Depth \in 0 .. Depth
    BY DepthFacts
  <2>3. ~ LastSays(order[Depth][path'[x]], a, kind, ty)
    BY <1>3, <2>1, <2>2, EmptyLog
  <2>4. ReadFrom(logs', path'[x]) = order[Depth][path'[x]]
    BY <2>1
  <2>5. QED
    BY <2>3, <2>4
<1>10. IsTold(ReadFrom(logs', session'.file), heap', session'.seen, session'.unseen)
  BY <1>2, <1>9 DEF IsTold
<1>11. QED
  BY <1>8, <1>10 DEF Told

\* An event that is written is the last of its address that is told.
LEMMA WrittenStep ==
  ASSUME Base, Base', NEW kind \in Kinds, NEW a \in Addresses, NEW ty \in Types,
         EventWritten(kind, a, ty), NestingWritten', Tree, Told
  PROVE  Tree' /\ Told'
<1> DEFINE new == Value(types_live_count[calling][ty]) + Delta(kind)
           line == EventLine(kind, a, ty, new)
<1>1. calling # None /\ Log(kind, a, ty)
  BY DEF EventWritten
<1>2. /\ new \in -MaxEvents .. MaxEvents /\ line \in Lines
      /\ logs' = [logs EXCEPT ![path[calling]] = Append(@, line)]
  BY <1>1, LogFacts
<1>3. line.kind = kind /\ line.address = a /\ line.type = ty
  BY <1>2, LineFacts
<1> HIDE DEF new, line
<1>4. /\ calling \in Tracers /\ path[calling] \in FileNames
      /\ stack # <<>> /\ calling = stack[Len(stack)]
      /\ stack' = stack /\ path' = path
      /\ session'.file = session.file /\ session'.rewritten = session.rewritten
  BY EventLineWritten
<1>5. /\ logs' \in [FileNames -> Seq(Lines)]
      /\ logs'[path[calling]] = Append(logs[path[calling]], line)
      /\ \A p \in FileNames : Extends(logs[p], logs'[p], {line})
  BY <1>2, <1>4, OneLineWritten
<1>6. line \in Plain /\ \A b : b # a => ~ About(line, b)
  BY <1>2, <1>3 DEF Plain, About, Kinds
<1>7. SUFFICES ASSUME Intact' PROVE Tree' /\ Told'
  BY DEF Tree, Told
<1>8. Intact /\ session.file # None
  BY <1>4, <1>7 DEF Intact
<1>9. PICK level \in [Tracers -> 0 .. Depth] : Levels(level)
  BY <1>8 DEF Tree
<1>10. \A p \in FileNames : Extends(logs[p], logs'[p], Plain)
  <2>1. {line} \subseteq Plain
    BY <1>6
  <2>2. QED
    BY <1>5, <2>1, MoreLines
<1> DEFINE trace == ReadFrom(logs, session.file)
           later == ReadFrom(logs', session'.file)
<1>11. /\ \A i \in 1 .. Len(stack') : level[stack'[i]] = i
       /\ IsTree(level, logs', path', session'.file)
       /\ Reader!CanBeRead(logs', Depth, session'.file) => Reader!CanBeRead(logs, Depth, session.file)
       /\ \A b : (\A p \in FileNames : Extends(logs[p], logs'[p], {other \in Plain : ~ About(other, b)})) =>
            \A k, type : LastSays(later, b, k, type) <=> LastSays(trace, b, k, type)
  BY <1>4, <1>8, <1>9, <1>10, PlainStep
<1>12. Tree'
  <2>1. Levels(level)'
    BY <1>11 DEF Levels
  <2>2. QED
    BY <2>1 DEF Tree
<1>13. ASSUME NEW b, b # a
       PROVE  \A k, type : LastSays(later, b, k, type) <=> LastSays(trace, b, k, type)
  <2>1. {line} \subseteq {other \in Plain : ~ About(other, b)}
    BY <1>6, <1>13
  <2>2. \A p \in FileNames : Extends(logs[p], logs'[p], {other \in Plain : ~ About(other, b)})
    BY <1>5, <2>1, MoreLines
  <2> HIDE DEF trace, later
  <2>3. QED
    BY <1>11, <2>2
<1>14. LastSays(later, a, kind, ty)
  <2>1. ASSUME NEW i \in 1 .. Len(stack) - 1
        PROVE  \E k \in 1 .. Len(logs'[path[stack[i]]]) :
                 /\ logs'[path[stack[i]]][k] = Detached(path[stack[i + 1]])
                 /\ \A j \in k + 1 .. Len(logs'[path[stack[i]]]) : logs'[path[stack[i]]][j].kind = "MSG"
    <3>1. path[stack[i]] \in FileNames
      BY StackFacts
    <3> DEFINE own == logs'[path[stack[i]]]
    <3>2. DOMAIN own = 1 .. Len(own)
      BY <1>5, <3>1
    <3>3. \E k \in DOMAIN own : /\ own[k] = Detached(path[stack[i + 1]])
                                /\ \A j \in k + 1 .. Len(own) : own[j].kind = "MSG"
      BY <1>4 DEF NestingWritten
    <3> HIDE DEF own
    <3>4. QED
      BY <3>2, <3>3 DEF own
  <2> DEFINE top == logs'[path[stack[Len(stack)]]]
             n == Len(top)
  <2>2. logs[path[calling]] \in Seq(Lines)
    BY <1>4 DEF Base, TypeOK
  <2>3. n > 0 /\ top[n] = line
    BY <1>2, <1>4, <1>5, <2>2, LineAdded
  <2>4. Tells(top[n], a, kind, ty)
    BY <1>3, <2>3 DEF Tells, About
  <2>5. LastSays(ReadFrom(logs', path[stack[1]]), a, kind, ty)
    BY <1>4, <1>5, <2>1, <2>3, <2>4, LastEventTold
  <2>6. session'.file = path[stack[1]]
    BY <1>4 DEF Base, Stacking
  <2>7. QED
    BY <2>5, <2>6
<1>15. /\ heap \in [Addresses -> Types \cup {NoObject}] /\ session \in Session
  BY DEF Base, TypeOK
<1>16. \A b \in Addresses : b # a =>
         /\ heap'[b] = heap[b]
         /\ b \in session'.seen <=> b \in session.seen
         /\ b \in session'.unseen <=> b \in session.unseen
  <2>1. \/ session' = [session EXCEPT !.seen = @ \cup {a}, !.unseen = @ \ {a}]
        \/ session' = [session EXCEPT !.seen = @ \ {a}, !.unseen = @ \ {a}]
    BY DEF EventWritten
  <2>2. /\ session'.seen \in {session.seen \cup {a}, session.seen \ {a}}
        /\ session'.unseen = session.unseen \ {a}
    BY <1>15, <2>1 DEF Session
  <2>3. \A b \in Addresses : b # a => heap'[b] = heap[b]
    BY <1>15 DEF EventWritten
  <2>4. QED
    BY <2>2, <2>3
<1>17. /\ kind = "NEW" => heap'[a] = ty /\ a \in session'.seen /\ a \notin session'.unseen
       /\ kind = "DEL" => a \notin session'.seen \cup session'.unseen
  BY <1>15 DEF EventWritten, Session
<1>18. ASSUME Reader!CanBeRead(logs', Depth, session'.file)
       PROVE  IsTold(later, heap', session'.seen, session'.unseen)
  <2>1. IsTold(trace, heap, session.seen, session.unseen)
    BY <1>8, <1>11, <1>18 DEF Told
  <2>2. later \in Seq(Lines)
    <3>1. session'.file \in FileNames
      BY <1>4, <1>8, <1>15 DEF Session
    <3>2. QED
      BY <1>5, <3>1, ReadFromFacts
  <2> HIDE DEF trace, later
  <2>3. ASSUME NEW b \in Addresses
        PROVE  /\ b \in session'.seen => heap'[b] \in Types /\ LastSays(later, b, "NEW", heap'[b])
               /\ b \in session'.unseen => \E type \in Types : LastSays(later, b, "NEW", type)
               /\ b \notin session'.seen \cup session'.unseen =>
                    \A type \in Types : ~ LastSays(later, b, "NEW", type)
    <3>1. CASE b # a
      <4>1. /\ b \in session.seen => heap[b] \in Types /\ LastSays(trace, b, "NEW", heap[b])
            /\ b \in session.unseen => \E type \in Types : LastSays(trace, b, "NEW", type)
            /\ b \notin session.seen \cup session.unseen =>
                 \A type \in Types : ~ LastSays(trace, b, "NEW", type)
        BY <2>1 DEF IsTold
      <4>2. \A type : LastSays(later, b, "NEW", type) <=> LastSays(trace, b, "NEW", type)
        BY <1>13, <3>1
      <4>3. /\ heap'[b] = heap[b]
            /\ b \in session'.seen <=> b \in session.seen
            /\ b \in session'.unseen <=> b \in session.unseen
        BY <1>16, <3>1
      <4>4. QED
        BY <4>1, <4>2, <4>3
    <3>2. CASE b = a /\ kind = "NEW"
      BY <1>14, <1>17, <3>2
    <3>3. CASE b = a /\ kind = "DEL"
      <4>1. \A type : ~ LastSays(later, a, "NEW", type)
        BY <1>14, <2>2, <3>3, SaysOnce
      <4>2. QED
        BY <1>17, <3>3, <4>1
    <3>4. QED
      BY <3>1, <3>2, <3>3 DEF Kinds
  <2>4. QED
    BY <2>3 DEF IsTold
<1>19. Told'
  BY <1>18 DEF Told
<1>20. QED
  BY <1>12, <1>19

LEMMA StepKeepsTree ==
  ASSUME Base, [Next]_vars, NestingWritten, Tree, Told
  PROVE  Tree' /\ Told'
<1>1. Base' /\ NestingWritten'
  BY StepKeepsBase, StepKeepsNesting
<1>2. ASSUME NEW x \in Tracers, Enter(x)
      PROVE  Tree' /\ Told'
  BY <1>1, <1>2, InnerBlockStep, OuterBlockStep
<1>3. ASSUME Chatter, Overlooked
      PROVE  Tree' /\ Told'
  <2>1. \A y \in Tracers : path[y] # None => path'[y] = path[y]
    BY <1>3, NamesStay DEF Chatter
  <2>2. \A p \in FileNames : Extends(logs[p], logs'[p], {Line("MSG"), Line("half")})
    <3>1. {Line("MSG")} \subseteq {Line("MSG"), Line("half")}
      OBVIOUS
    <3>2. \A p \in FileNames : Extends(logs[p], logs'[p], {Line("MSG")})
      BY <1>3 DEF Chatter
    <3>3. QED
      BY <3>1, <3>2, MoreLines
  <2>3. stack' = stack \/ Popped
    BY <1>3 DEF Chatter
  <2>4. QED
    BY <1>1, <1>3, <2>1, <2>2, <2>3, OverlookedStep
<1>4. ASSUME NEW kind \in Kinds, NEW a \in Addresses, NEW ty \in Types, EventWritten(kind, a, ty)
      PROVE  Tree' /\ Told'
  BY <1>1, <1>4, WrittenStep
<1>5. ASSUME NEW kind \in Kinds, NEW ty \in Types, EventLost(kind, ty)
      PROVE  Tree' /\ Told'
  <2>1. calling # None /\ LogFails(kind, ty) /\ NamesKept /\ Overlooked
    BY <1>5 DEF EventLost
  <2>2. path[calling] \in FileNames
    BY <2>1, StackFacts
  <2>3. /\ logs' = [logs EXCEPT ![path[calling]] = Append(@, Line("half"))]
        /\ Line("half") \in Lines /\ stack' = stack
    BY <2>1, LogFailsFacts
  <2>4. \A p \in FileNames : Extends(logs[p], logs'[p], {Line("half")})
    BY <2>2, <2>3, OneLineWritten
  <2>5. \A p \in FileNames : Extends(logs[p], logs'[p], {Line("MSG"), Line("half")})
    <3>1. {Line("half")} \subseteq {Line("MSG"), Line("half")}
      OBVIOUS
    <3>2. QED
      BY <2>4, <3>1, MoreLines
  <2>6. \A y \in Tracers : path[y] # None => path'[y] = path[y]
    BY <2>1, NamesStay
  <2>7. QED
    BY <1>1, <2>1, <2>3, <2>5, <2>6, OverlookedStep
<1>6. QED
  BY <1>2, <1>3, <1>4, <1>5, KindsOfSteps

\* What is read is told to the user.
LEMMA LeaksFromTold ==
  ASSUME Base, Told
  PROVE  LeaksAreFound
<1> DEFINE live == Reader!Analyse(logs, Depth, session.file).live_objects
<1>1. SUFFICES ASSUME Intact, Reader!CanBeRead(logs, Depth, session.file)
               PROVE  /\ \A a \in session.seen : live[a] = heap[a] /\ heap[a] # NoObject
                      /\ {a \in Addresses : live[a] # NoObject} = session.seen \cup session.unseen
  BY DEF LeaksAreFound, Depth, Intact
<1>2. /\ logs \in [FileNames -> Seq(Lines)] /\ session.file \in FileNames
      /\ session.seen \subseteq Addresses /\ session.unseen \subseteq Addresses
  BY <1>1 DEF Base, TypeOK, Session, Intact
<1>3. IsTold(ReadFrom(logs, session.file), heap, session.seen, session.unseen)
  BY <1>1 DEF Told
<1>4. Reader!ReadingOrder(logs, Depth, session.file) = ReadFrom(logs, session.file)
  BY DEF ReadFrom
<1> DEFINE trace == ReadFrom(logs, session.file)
<1>5. trace \in Seq(Lines)
  BY <1>2, ReadFromFacts
<1>6. \A a \in Addresses : /\ live[a] \in Types \cup {NoObject}
                           /\ \A ty \in Types : live[a] = ty <=> LastSays(trace, a, "NEW", ty)
  BY <1>4, <1>5, AnalyseFinds
<1> HIDE DEF live, trace
<1>7. ASSUME NEW a \in Addresses
      PROVE  /\ a \in session.seen => live[a] = heap[a] /\ heap[a] # NoObject
             /\ live[a] # NoObject <=> a \in session.seen \cup session.unseen
  <2>1. /\ a \in session.seen => heap[a] \in Types /\ LastSays(trace, a, "NEW", heap[a])
        /\ a \in session.unseen => \E ty \in Types : LastSays(trace, a, "NEW", ty)
        /\ a \notin session.seen \cup session.unseen => \A ty \in Types : ~ LastSays(trace, a, "NEW", ty)
    BY <1>3 DEF IsTold, trace
  <2>2. QED
    BY <1>6, <2>1, NamesAssumption
<1>8. QED
  BY <1>2, <1>7

-----------------------------------------------------------------------------
(* The invariant.                                                          *)

LEMMA InitIInv == Init => IInv
<1> SUFFICES ASSUME Init PROVE IInv
  OBVIOUS
<1>1. stack = <<>> /\ calling = None /\ Len(stack) = 0
  BY DEF Init, Stacks!Init
<1>2. \A x \in Tracers : path[x] \notin MadeUp
  BY NamesAssumption DEF Init, FileNames
<1>3. 0 \in 0 .. MaxEvents /\ 0 \in 0 .. MaxBlocks /\ 0 \in -MaxEvents .. MaxEvents
  BY BoundsAssumption
<1>4. TypeOK
  <2>1. file_number = Cardinality({x \in Tracers : path[x] \in MadeUp})
    <3>1. {x \in Tracers : path[x] \in MadeUp} = {}
      BY <1>2
    <3>2. QED
      BY <3>1, FS_EmptySet DEF Init
  <2>2. stack \in Seq(Tracers) /\ calling \in Tracers \cup {None}
    BY <1>1
  <2>3. logs \in [FileNames -> Seq(Lines)]
    BY DEF Init
  <2>4. count \in [Tracers -> [{"NEW", "DEL"} -> 0 .. MaxEvents]]
    BY <1>3 DEF Init
  <2>5. session \in Session
    BY DEF Init, Session
  <2>6. QED
    BY <1>3, <2>1, <2>2, <2>3, <2>4, <2>5 DEF Init, TypeOK
<1>5. Names
  BY <1>2, BoundsAssumption DEF Init, Names
<1>6. Stacking
  BY <1>1 DEF Init, Stacking, Stacks!Top
<1>7. Bounded
  BY DEF Init, Bounded, Total, TotalIn, Value
<1>8. Tables
  BY <1>1 DEF Tables
<1>9. NestingWritten
  BY <1>1 DEF NestingWritten
<1>10. ~ Intact
  BY DEF Init, Intact
<1>11. QED
  BY <1>4, <1>5, <1>6, <1>7, <1>8, <1>9, <1>10 DEF IInv, Tree, Told

LEMMA StepKeepsIInv == IInv /\ [Next]_vars => IInv'
<1> SUFFICES ASSUME IInv, [Next]_vars PROVE IInv'
  OBVIOUS
<1>1. Base /\ Tables /\ NestingWritten /\ Tree /\ Told
  BY DEF IInv, Base
<1>2. Base'
  BY <1>1, StepKeepsBase
<1>3. Tables' /\ NestingWritten'
  BY <1>1, StepKeepsTables, StepKeepsNesting
<1>4. Tree' /\ Told'
  BY <1>1, StepKeepsTree
<1>5. QED
  BY <1>2, <1>3, <1>4 DEF IInv, Base

LEMMA IInvImplies == IInv => TypeOK /\ NestingIsReadable /\ QueriesMatchLog /\ LeaksAreFound
<1>1. IInv => Base /\ Tables /\ Told /\ TypeOK /\ NestingWritten
  BY DEF IInv, Base
<1>2. NestingWritten => NestingIsReadable
  BY DEF NestingWritten, NestingIsReadable
<1>3. QED
  BY <1>1, <1>2, TablesAnswer, LeaksFromTold

\* Of every number of tracers, nested and suspended in any order: the names, the
\* stack and the tables of the tracers agree, the logs of a session are a tree
\* and what is told of an object in it last is so.
THEOREM Invariance == Spec => []IInv
<1>1. QED
  BY InitIInv, StepKeepsIInv, PTL DEF Spec

\* The logs have lines of the kinds reference_trace_allocations_callback, the
\* message functions and __enter__ write, and a number is taken from
\* create_filename for each name that is made up.
THEOREM TypeCorrect == Spec => []TypeOK
BY Invariance, IInvImplies, PTL

\* From the log of any tracer that is stacked the reader of the logs is led to
\* the tracer that was stacked on it, and nothing about an object follows; if
\* the log has no line that was not finished for want of memory.
THEOREM NestingReadable == Spec => []NestingIsReadable
BY Invariance, IInvImplies, PTL

\* live_object_counts(), count_new and count_del answer what the log has.
THEOREM QueriesMatch == Spec => []QueriesMatchLog
BY Invariance, IInvImplies, PTL

\* util/ref_trace_analyse.py finds, in the logs of a session, each object whose
\* creation was logged and that is alive, and no object that was seen dying.
THEOREM LeaksFound == Spec => []LeaksAreFound
BY Invariance, IInvImplies, PTL

\* A log only grows, until its own tracer is entered once more, or another one
\* to which the user has given the same path.
THEOREM AppendOnly == Spec => LogsAreAppendOnly
<1> DEFINE Grows ==
      \A x \in Tracers :
        path[x] # None /\ ~ (\E y \in Tracers : OpensAgain(y, x))
        => LET was == logs[path[x]]
               now == logs'[path[x]]
           IN  Len(now) >= Len(was) /\ SubSeq(now, 1, Len(was)) = was
<1>1. IInv /\ [Next]_vars => Grows
  BY LogsGrow DEF IInv, Base
<1> HIDE DEF Grows
<1>2. IInv /\ [Next]_vars => [Grows]_vars
  BY <1>1
<1>3. Spec => [][Grows]_vars
  BY <1>2, Invariance, PTL DEF Spec
<1>4. QED
  BY <1>3 DEF LogsAreAppendOnly, Grows

=============================================================================
