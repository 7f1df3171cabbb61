----------------------- MODULE ProfileTraceStack_proofs -----------------------
(***************************************************************************)
(* With plain with blocks, of one thread at a time, no object entered      *)
(* while it is already in a block: for any number of threads, objects and  *)
(* wrappers the program never runs into a fault, the registered tracer is  *)
(* the head of the list, files are open exactly while they are stacked and *)
(* reference counts are exact.                                             *)
(*                                                                         *)
(* The last section assumes nothing of the usage: whatever blocks overlap, *)
(* each has a node of the list to itself, so the list is never found empty *)
(* by a block that ends; and its head can always be written to.            *)
(***************************************************************************)
EXTENDS ProfileTraceStack, SequenceTheorems, FiniteSetTheorems, TLAPS

\* The discipline assumed of the callers; objects may be used again later.
Disciplined == Usage \subseteq {"again"}

-----------------------------------------------------------------------------
(* The list of the wrappers, node by node.                                 *)

\* Pushing leaves the older nodes alone and makes the new one the head.
LEMMA PushFacts ==
  ASSUME NEW S, NEW l \in Seq(S), NEW w \in S
  PROVE  /\ ll_push(l, w) \in Seq(S)
         /\ Len(ll_push(l, w)) = Len(l) + 1
         /\ \A i \in 1 .. Len(l) : ll_push(l, w)[i] = l[i]
         /\ ll_push(l, w)[Len(l) + 1] = w
         /\ ll_get(ll_push(l, w)) = w
         /\ ll_push(l, w) # <<>>
  BY DEF ll_push, ll_get

\* Popping leaves the older nodes alone; the node below becomes the head.
LEMMA PopFacts ==
  ASSUME NEW S, NEW l \in Seq(S), l # <<>>
  PROVE  /\ ll_pop(l) \in Seq(S)
         /\ Len(ll_pop(l)) = Len(l) - 1
         /\ \A i \in 1 .. Len(l) - 1 : ll_pop(l)[i] = l[i]
         /\ ll_get(ll_pop(l)) = IF Len(l) = 1 THEN None ELSE l[Len(l) - 1]
<1>1. Len(l) \in Nat /\ Len(l) >= 1 /\ \A i \in 1 .. Len(l) : l[i] \in S
  OBVIOUS
<1>2. /\ ll_pop(l) \in Seq(S)
      /\ Len(ll_pop(l)) = Len(l) - 1
      /\ \A i \in 1 .. Len(l) - 1 : ll_pop(l)[i] = l[i]
  <2> DEFINE n == Len(l) - 1
  <2>1. 1 \in Int /\ n \in Int /\ \A i \in 1 .. n : l[i] \in S
    BY <1>1
  <2>2. /\ SubSeq(l, 1, n) \in Seq(S)
        /\ Len(SubSeq(l, 1, n)) = IF 1 <= n THEN n - 1 + 1 ELSE 0
        /\ \A i \in 1 .. n - 1 + 1 : SubSeq(l, 1, n)[i] = l[1 + i - 1]
    <3> HIDE DEF n
    <3> QED BY <2>1, SubSeqProperties
  <2>3. \A i \in 1 .. n : SubSeq(l, 1, n)[i] = l[i]
    BY <1>1, <2>2
  <2>4. Len(SubSeq(l, 1, n)) = n
    <3>1. n \in Int /\ 0 <= n
      BY <1>1
    <3> HIDE DEF n
    <3> QED BY <3>1, <2>2
  <2>5. QED
    BY <2>2, <2>3, <2>4 DEF ll_pop
<1>3. ll_pop(l) = <<>> <=> Len(l) = 1
  BY <1>1, <1>2
<1>4. QED
  BY <1>1, <1>2, <1>3 DEF ll_get

\* The head of a list that is not empty is one of its nodes.
LEMMA GetFacts ==
  ASSUME NEW S, NEW l \in Seq(S)
  PROVE  /\ l = <<>> => ll_get(l) = None
         /\ l # <<>> => /\ Len(l) \in 1 .. Len(l)
                        /\ ll_get(l) = l[Len(l)]
                        /\ ll_get(l) \in S
  BY DEF ll_get

-----------------------------------------------------------------------------
(* What the invariant says of the wrappers in one state.                   *)

\* In a with block the list has a node per block, and the thread calls its head.
LEMMA InsideFacts ==
  ASSUME IInv, NEW t \in Threads, blocks[t] # <<>>
  PROVE  /\ list \in Seq(Wrappers)
         /\ blocks[t] \in Seq(Objects)
         /\ Len(list) = Len(blocks[t])
         /\ list # <<>>
         /\ Len(list) \in Nat \ {0}
         /\ registered[t] = list[Len(list)]
         /\ \A i \in 1 .. Len(list) : /\ blocks[t][i] \in Objects
                                      /\ list[i] \in Wrappers
                                      /\ held[blocks[t][i]] = list[i]
         /\ \A u \in Threads \ {t} : blocks[u] = <<>> /\ registered[u] = None
<1>1. list \in Seq(Wrappers) /\ blocks[t] \in Seq(Objects)
  BY DEF IInv, TypeOK
<1>2. /\ Len(list) = Len(blocks[t])
      /\ \A i \in 1 .. Len(list) : held[blocks[t][i]] = list[i]
  BY DEF IInv, ListMatchesBlocks, ll_length
<1>3. list # <<>> /\ Len(list) \in Nat \ {0}
  BY <1>1, <1>2
<1>4. registered[t] = list[Len(list)]
  BY <1>3 DEF IInv, RegisteredIsHead, ll_get
<1>5. \A i \in 1 .. Len(list) : blocks[t][i] \in Objects /\ list[i] \in Wrappers
  BY <1>1, <1>2
<1>6. \A u \in Threads \ {t} : blocks[u] = <<>> /\ registered[u] = None
  BY DEF IInv, OneThreadInBlocks, RegisteredIsHead
<1>7. QED
  BY <1>1, <1>2, <1>3, <1>4, <1>5, <1>6

\* No wrapper is on the list twice.
LEMMA ListDistinct ==
  ASSUME IInv, NEW i \in 1 .. Len(list), NEW j \in 1 .. Len(list), list[i] = list[j]
  PROVE  i = j
<1>1. PICK t \in Threads : blocks[t] # <<>>
  <2>1. list # <<>>
    BY DEF IInv, TypeOK
  <2>2. QED
    BY <2>1 DEF IInv, OneThreadInBlocks
<1>2. /\ i \in 1 .. Len(blocks[t]) /\ j \in 1 .. Len(blocks[t])
      /\ blocks[t][i] \in Objects /\ blocks[t][j] \in Objects
      /\ held[blocks[t][i]] = held[blocks[t][j]]
      /\ held[blocks[t][i]] # None
  BY <1>1, InsideFacts, NoneAssumption
<1>3. blocks[t][i] = blocks[t][j]
  BY <1>2 DEF IInv, OwnersDistinct
<1>4. QED
  BY <1>2, <1>3 DEF IInv, BlocksDistinct

\* A free wrapper has no owner and is nowhere on the list.
LEMMA FreeFacts ==
  ASSUME IInv, NEW w \in Wrappers, file[w] = "free"
  PROVE  /\ refs[w] = 0
         /\ ~ Owned(w)
         /\ ~ Called(w)
         /\ w \notin lost
         /\ ~ OnList(list, w)
<1>1. refs[w] = 0 /\ refs[w] = (IF Owned(w) THEN 1 ELSE 0) + (IF Called(w) THEN 1 ELSE 0)
                                 + (IF w \in lost THEN 1 ELSE 0)
  BY DEF IInv, RefsExact
<1>2. ~ OnList(list, w)
  BY DEF IInv, OpenIffStacked
<1>3. QED
  BY <1>1, <1>2

-----------------------------------------------------------------------------
\* No object, no block, no file: the invariant holds at the start.
THEOREM InitInvariant == Init => IInv
<1> SUFFICES ASSUME Init PROVE IInv
  OBVIOUS
<1> USE DEF Init
<1>1. TypeOK
  <2>1. blocks \in [Threads -> Seq(Objects)] /\ list \in Seq(Wrappers)
    OBVIOUS
  <2>2. event_number \in [Wrappers -> 0 .. MaxEvents] /\ refs \in [Wrappers -> Nat]
    BY MaxEventsAssumption
  <2>3. QED
    BY <2>1, <2>2 DEF TypeOK
<1>2. NoFault /\ OneThreadInBlocks /\ BlocksDistinct /\ ListMatchesBlocks
  BY DEF NoFault, OneThreadInBlocks, BlocksDistinct, ListMatchesBlocks
<1>3. OwnersDistinct
  BY DEF OwnersDistinct
<1>4. RegisteredIsHead
  BY DEF RegisteredIsHead
<1>5. OpenIffStacked /\ SuspendedSaysDetached
  BY DEF OpenIffStacked, SuspendedSaysDetached, OnList
<1>6. RefsExact
  BY NoneAssumption DEF RefsExact, Owned, Called
<1>7. QED
  BY <1>1, <1>2, <1>3, <1>4, <1>5, <1>6 DEF IInv

-----------------------------------------------------------------------------
(* The steps.                                                              *)

\* Registering w for a thread adds one to its count and takes one from the
\* wrapper that was registered.
LEMMA SetTracerFacts ==
  ASSUME NEW r \in [Wrappers -> Int], NEW t \in Threads,
         NEW w \in Wrappers \cup {None}, registered[t] \in Wrappers \cup {None}
  PROVE  /\ SetTracer(r, t, w) \in [Wrappers -> Int]
         /\ \A x \in Wrappers : SetTracer(r, t, w)[x] =
              r[x] + (IF x = w THEN 1 ELSE 0) - (IF x = registered[t] THEN 1 ELSE 0)
<1> DEFINE r1 == Incref(r, w)
<1>1. /\ r1 \in [Wrappers -> Int]
      /\ \A x \in Wrappers : r1[x] = r[x] + (IF x = w THEN 1 ELSE 0)
  BY NoneAssumption DEF Incref
<1> HIDE DEF r1
<1>2. /\ Decref(r1, registered[t]) \in [Wrappers -> Int]
      /\ \A x \in Wrappers : Decref(r1, registered[t])[x] =
                               r1[x] - (IF x = registered[t] THEN 1 ELSE 0)
  BY <1>1, NoneAssumption DEF Decref
<1>3. QED
  BY <1>1, <1>2 DEF SetTracer, r1

\* When the interpreter lets go of what a thread calls, that loses a reference.
LEMMA ReleaseFacts ==
  ASSUME TypeOK, NEW t \in Threads
  PROVE  /\ SetTracer(refs, t, None) \in [Wrappers -> Int]
         /\ \A x \in Wrappers : SetTracer(refs, t, None)[x] =
              refs[x] - (IF x = registered[t] THEN 1 ELSE 0)
<1> DEFINE r == Decref(refs, registered[t])
<1>1. refs \in [Wrappers -> Int] /\ registered[t] \in Wrappers \cup {None}
  BY DEF TypeOK
<1>2. /\ r \in [Wrappers -> Int]
      /\ \A x \in Wrappers : r[x] = refs[x] - (IF x = registered[t] THEN 1 ELSE 0)
  BY <1>1, NoneAssumption DEF Decref
<1>3. SetTracer(refs, t, None) = r
  BY DEF SetTracer, Incref
<1> HIDE DEF r
<1>4. QED
  BY <1>2, <1>3

\* Deallocation touches only the wrappers without a reference.
LEMMA DeallocFacts ==
  ASSUME NEW f, NEW r, \A x \in Wrappers : f[x] \in {"free", "open", "closed"}
  PROVE  /\ Dealloc(f, r) \in [Wrappers -> {"free", "open", "closed"}]
         /\ \A x \in Wrappers : Dealloc(f, r)[x] = IF r[x] = 0 THEN "free" ELSE f[x]
  BY DEF Dealloc

\* A with block can be entered only where no other thread is in one.
LEMMA EntererFacts ==
  ASSUME IInv, Disciplined, NEW t \in Threads, NEW o \in Objects, MayEnter(t, o)
  PROVE  /\ \A u \in Threads \ {t} : blocks[u] = <<>> /\ registered[u] = None
         /\ \A i \in 1 .. Len(blocks[t]) : blocks[t][i] # o
         /\ blocks[t] = <<>> <=> list = <<>>
         /\ Len(list) = Len(blocks[t])
         /\ \A x \in Wrappers : Called(x) <=> registered[t] = x
         /\ registered[t] = ll_get(list)
<1>1. \A u \in Threads \ {t} : blocks[u] = <<>> /\ registered[u] = None
  BY DEF MayEnter, Disciplined, IInv, RegisteredIsHead
<1>2. \A i \in 1 .. Len(blocks[t]) : blocks[t][i] # o
  BY DEF MayEnter, Disciplined, InBlock
<1>3. list \in Seq(Wrappers) /\ blocks[t] \in Seq(Objects)
  BY DEF IInv, TypeOK
<1>4. CASE blocks[t] = <<>>
  <2>1. list = <<>>
    BY <1>1, <1>4 DEF IInv, OneThreadInBlocks
  <2>2. registered[t] = None /\ ll_get(list) = None
    BY <1>4, <2>1 DEF IInv, RegisteredIsHead, ll_get
  <2>3. QED
    BY <1>1, <1>2, <1>4, <2>1, <2>2, NoneAssumption DEF Called
<1>5. CASE blocks[t] # <<>>
  <2>1. list # <<>> /\ Len(list) = Len(blocks[t]) /\ registered[t] = ll_get(list)
    BY <1>5, InsideFacts DEF ll_get
  <2>2. QED
    BY <1>1, <1>2, <1>5, <2>1, NoneAssumption DEF Called
<1>6. QED
  BY <1>4, <1>5

\* __enter__ that succeeds preserves the invariant.
LEMMA EnterStep ==
  ASSUME IInv, Disciplined, NEW t \in Threads, NEW o \in Objects, Enter(t, o)
  PROVE  IInv'
<1>1. MayEnter(t, o)
  BY DEF Enter
<1>2. PICK w \in Wrappers :
        /\ Allocatable(w)
        /\ refs' = SetTracer([refs EXCEPT ![w] = 1], t, w)
        /\ file' = Dealloc([file EXCEPT ![w] = "open"], refs')
        /\ marker' = [DetachHead(marker) EXCEPT ![w] = "start"]
        /\ event_number' = [event_number EXCEPT ![w] = 1]
        /\ list' = ll_push(list, w)
        /\ registered' = [registered EXCEPT ![t] = w]
        /\ held' = [held EXCEPT ![o] = w]
  BY DEF Enter
<1>3. /\ blocks' = [blocks EXCEPT ![t] = Append(@, o)]
      /\ lost' = IF held[o] = None THEN lost ELSE lost \cup {held[o]}
      /\ kind' = kind /\ fault' = fault
  BY DEF Enter, ForgetHeld
<1>4. TypeOK
  BY DEF IInv
<1>5. /\ refs[w] = 0 /\ ~ Owned(w) /\ ~ Called(w) /\ w \notin lost
      /\ ~ OnList(list, w) /\ w # None
  BY <1>2, FreeFacts, NoneAssumption DEF Allocatable
<1>6. /\ \A u \in Threads \ {t} : blocks[u] = <<>> /\ registered[u] = None
      /\ \A i \in 1 .. Len(blocks[t]) : blocks[t][i] # o
      /\ blocks[t] = <<>> <=> list = <<>>
      /\ Len(list) = Len(blocks[t])
      /\ \A x \in Wrappers : Called(x) <=> registered[t] = x
      /\ registered[t] = ll_get(list)
  BY <1>1, EntererFacts
<1>7. /\ list \in Seq(Wrappers) /\ blocks[t] \in Seq(Objects)
      /\ Len(list) \in Nat
  BY <1>4 DEF TypeOK
<1>8. /\ list' \in Seq(Wrappers)
      /\ Len(list') = Len(list) + 1
      /\ \A i \in 1 .. Len(list) : list'[i] = list[i]
      /\ list'[Len(list) + 1] = w
      /\ ll_get(list') = w
      /\ list' # <<>>
  <2>1. /\ ll_push(list, w) \in Seq(Wrappers)
        /\ Len(ll_push(list, w)) = Len(list) + 1
        /\ \A i \in 1 .. Len(list) : ll_push(list, w)[i] = list[i]
        /\ ll_push(list, w)[Len(list) + 1] = w
        /\ ll_get(ll_push(list, w)) = w
        /\ ll_push(list, w) # <<>>
    BY <1>7, PushFacts
  <2>2. list' = ll_push(list, w)
    BY <1>2
  <2>3. QED
    BY <2>1, <2>2
<1>9. /\ blocks' \in [Threads -> Seq(Objects)]
      /\ blocks'[t] \in Seq(Objects)
      /\ blocks'[t] # <<>>
      /\ Len(blocks'[t]) = Len(list) + 1
      /\ \A i \in 1 .. Len(list) : blocks'[t][i] = blocks[t][i]
      /\ blocks'[t][Len(list) + 1] = o
      /\ \A u \in Threads \ {t} : blocks'[u] = <<>>
  <2>1. blocks'[t] = Append(blocks[t], o)
    BY <1>3, <1>4 DEF TypeOK
  <2>2. blocks' \in [Threads -> Seq(Objects)]
    BY <1>3, <1>4, <1>7 DEF TypeOK
  <2>3. /\ Append(blocks[t], o) \in Seq(Objects)
        /\ Append(blocks[t], o) # <<>>
        /\ Len(Append(blocks[t], o)) = Len(blocks[t]) + 1
        /\ \A i \in 1 .. Len(blocks[t]) : Append(blocks[t], o)[i] = blocks[t][i]
        /\ Append(blocks[t], o)[Len(blocks[t]) + 1] = o
    BY <1>7
  <2>4. \A u \in Threads \ {t} : blocks'[u] = <<>>
    BY <1>3, <1>4, <1>6 DEF TypeOK
  <2>5. QED
    BY <1>6, <2>1, <2>2, <2>3, <2>4
<1>10. /\ refs' \in [Wrappers -> Int]
       /\ refs'[w] = 2
       /\ \A x \in Wrappers \ {w} :
            refs'[x] = refs[x] - (IF x = registered[t] THEN 1 ELSE 0)
  <2>1. [refs EXCEPT ![w] = 1] \in [Wrappers -> Int]
    BY <1>4 DEF TypeOK
  <2>2. registered[t] \in Wrappers \cup {None} /\ registered[t] # w
    BY <1>4, <1>5, <1>6 DEF TypeOK
  <2> DEFINE r == [refs EXCEPT ![w] = 1]
  <2>3. r \in [Wrappers -> Int] /\ refs' = SetTracer(r, t, w)
    BY <1>2, <2>1
  <2>4. r[w] = 1 /\ \A x \in Wrappers \ {w} : r[x] = refs[x]
    BY <1>4 DEF TypeOK
  <2> HIDE DEF r
  <2>5. /\ refs' \in [Wrappers -> Int]
        /\ \A x \in Wrappers : refs'[x] =
             r[x] + (IF x = w THEN 1 ELSE 0) - (IF x = registered[t] THEN 1 ELSE 0)
    BY <1>4, <2>2, <2>3, SetTracerFacts
  <2>6. \A x \in Wrappers : r[x] \in Int
    BY <2>3
  <2>7. refs'[w] = 2
    BY <1>4, <2>2, <2>4, <2>5
  <2>8. ASSUME NEW x \in Wrappers \ {w}
        PROVE  refs'[x] = refs[x] - (IF x = registered[t] THEN 1 ELSE 0)
    <3>1. refs'[x] = refs[x] + 0 - (IF x = registered[t] THEN 1 ELSE 0)
      BY <2>4, <2>5
    <3>2. refs[x] \in Int
      BY <2>4, <2>6
    <3>3. CASE x = registered[t]
      BY <3>1, <3>2, <3>3
    <3>4. CASE x # registered[t]
      BY <3>1, <3>2, <3>4
    <3>5. QED
      BY <3>3, <3>4
  <2>9. QED
    BY <2>5, <2>7, <2>8
<1>11. \A x \in Wrappers \ {w} : Called(x)' <=> FALSE
  BY <1>2, <1>4, <1>6, NoneAssumption DEF Called, TypeOK
<1>12. Called(w)' /\ Owned(w)'
  BY <1>2, <1>4 DEF Called, Owned, TypeOK
<1>13. \A x \in Wrappers \ {w} : Owned(x)' <=> (Owned(x) /\ held[o] # x)
  <2>1. ASSUME NEW x \in Wrappers \ {w}, Owned(x)' PROVE Owned(x) /\ held[o] # x
    <3>1. PICK p \in Objects : held'[p] = x
      BY <2>1 DEF Owned
    <3>2. p # o /\ held[p] = x
      BY <1>2, <1>4, <3>1 DEF TypeOK
    <3>3. QED
      BY <3>2, NoneAssumption DEF Owned, IInv, OwnersDistinct
  <2>2. ASSUME NEW x \in Wrappers \ {w}, Owned(x), held[o] # x PROVE Owned(x)'
    BY <1>2, <1>4, <2>2 DEF Owned, TypeOK
  <2>3. QED
    BY <2>1, <2>2
<1>14. \A x \in Wrappers \ {w} :
         refs'[x] = (IF Owned(x)' THEN 1 ELSE 0) + (IF Called(x)' THEN 1 ELSE 0)
                    + (IF x \in lost' THEN 1 ELSE 0)
  <2> TAKE x \in Wrappers \ {w}
  <2>1. refs[x] = (IF Owned(x) THEN 1 ELSE 0) + (IF Called(x) THEN 1 ELSE 0)
                   + (IF x \in lost THEN 1 ELSE 0)
    BY DEF IInv, RefsExact
  <2>2. refs'[x] = (IF Owned(x) THEN 1 ELSE 0) + (IF x \in lost THEN 1 ELSE 0)
    BY <1>6, <1>10, <2>1
  <2>3. CASE held[o] = x
    <3>1. Owned(x) /\ x \notin lost /\ x \in lost' /\ ~ Owned(x)'
      BY <1>3, <1>13, <2>3, NoneAssumption DEF Owned, IInv, OwnersDistinct
    <3>2. QED
      BY <1>11, <2>2, <3>1
  <2>4. CASE held[o] # x
    <3>1. (x \in lost' <=> x \in lost) /\ (Owned(x)' <=> Owned(x))
      BY <1>3, <1>13, <2>4
    <3>2. QED
      BY <1>11, <2>2, <3>1
  <2>5. QED
    BY <2>3, <2>4
<1>15. refs'[w] = (IF Owned(w)' THEN 1 ELSE 0) + (IF Called(w)' THEN 1 ELSE 0)
                  + (IF w \in lost' THEN 1 ELSE 0)
  <2>1. w \notin lost'
    BY <1>3, <1>5 DEF Owned
  <2>2. QED
    BY <1>10, <1>12, <2>1
<1>16. refs' \in [Wrappers -> Nat]
  <2>1. \A x \in Wrappers : refs'[x] \in Nat
    BY <1>14, <1>15
  <2>2. QED
    BY <1>10, <2>1
<1>17. /\ file' \in [Wrappers -> {"free", "open", "closed"}]
       /\ file'[w] = "open"
       /\ \A x \in Wrappers \ {w} :
            file'[x] = IF refs'[x] = 0 THEN "free" ELSE file[x]
  <2>1. \A x \in Wrappers : [file EXCEPT ![w] = "open"][x] \in {"free", "open", "closed"}
    BY <1>4 DEF TypeOK
  <2>2. /\ file' \in [Wrappers -> {"free", "open", "closed"}]
        /\ \A x \in Wrappers :
             file'[x] = IF refs'[x] = 0 THEN "free" ELSE [file EXCEPT ![w] = "open"][x]
    <3> DEFINE f == [file EXCEPT ![w] = "open"]
               r == refs'
    <3>1. file' = Dealloc(f, r) /\ \A x \in Wrappers : f[x] \in {"free", "open", "closed"}
      BY <1>2, <2>1
    <3> HIDE DEF f, r
    <3>2. /\ Dealloc(f, r) \in [Wrappers -> {"free", "open", "closed"}]
          /\ \A x \in Wrappers : Dealloc(f, r)[x] = IF r[x] = 0 THEN "free" ELSE f[x]
      BY <3>1, DeallocFacts
    <3>3. QED
      BY <3>1, <3>2 DEF f, r
  <2>3. QED
    BY <1>4, <1>10, <2>2 DEF TypeOK
<1>18. \A x \in Wrappers : OnList(list', x) <=> (x = w \/ OnList(list, x))
  BY <1>7, <1>8 DEF OnList
<1>19. \A i \in 1 .. Len(list) :
         held[blocks[t][i]] = list[i] /\ held'[blocks[t][i]] = list[i] /\ blocks[t] # <<>>
  <2> SUFFICES ASSUME NEW i \in 1 .. Len(list)
               PROVE  held[blocks[t][i]] = list[i] /\ held'[blocks[t][i]] = list[i]
                      /\ blocks[t] # <<>>
    OBVIOUS
  <2>1. blocks[t] # <<>>
    BY <1>6, <1>7
  <2>2. held[blocks[t][i]] = list[i] /\ blocks[t][i] \in Objects
    BY <2>1, InsideFacts
  <2>3. held'[blocks[t][i]] = held[blocks[t][i]]
    BY <1>2, <1>4, <1>6, <2>2 DEF TypeOK
  <2>4. QED
    BY <2>1, <2>2, <2>3
<1>20. \A x \in Wrappers \ {w} : OnList(list, x) => refs'[x] # 0 /\ file[x] = "open"
  <2> SUFFICES ASSUME NEW x \in Wrappers \ {w}, OnList(list, x)
               PROVE  refs'[x] # 0 /\ file[x] = "open"
    OBVIOUS
  <2>1. PICK i \in 1 .. Len(list) : list[i] = x
    BY DEF OnList
  <2>2. blocks[t][i] \in Objects /\ held'[blocks[t][i]] = x
    BY <1>6, <1>7, <1>19, <2>1
  <2>3. Owned(x)'
    BY <2>2 DEF Owned
  <2>4. QED
    BY <1>14, <2>3 DEF IInv, OpenIffStacked
<1>21. TypeOK'
  <2>1. held' \in [Objects -> Wrappers \cup {None}]
        /\ registered' \in [Threads -> Wrappers \cup {None}]
    BY <1>2, <1>4 DEF TypeOK
  <2>2. lost' \in SUBSET Wrappers
    BY <1>3, <1>4 DEF TypeOK
  <2>3. event_number' \in [Wrappers -> 0 .. MaxEvents]
    BY <1>2, <1>4, MaxEventsAssumption DEF TypeOK
  <2>4. marker' \in [Wrappers -> {"none", "start", "detach", "reattach", "end"}]
    BY <1>2, <1>4 DEF TypeOK, DetachHead, Annotate
  <2>5. kind' \in {"P", "T"} /\ fault' \in {"none", "reattach", "release", "write"}
    BY <1>3, <1>4 DEF TypeOK
  <2>6. QED
    BY <1>8, <1>9, <1>16, <1>17, <2>1, <2>2, <2>3, <2>4, <2>5 DEF TypeOK
<1>22. NoFault'
  BY <1>3 DEF IInv, NoFault
<1>23. OneThreadInBlocks'
  BY <1>9 DEF OneThreadInBlocks
<1>24. BlocksDistinct'
  <2> SUFFICES ASSUME NEW u \in Threads,
                      NEW i \in 1 .. Len(blocks'[u]), NEW j \in 1 .. Len(blocks'[u]),
                      blocks'[u][i] = blocks'[u][j]
               PROVE  i = j
    BY DEF BlocksDistinct
  <2>1. u = t
    BY <1>9
  <2>2. i \in 1 .. Len(list) + 1 /\ j \in 1 .. Len(list) + 1
    BY <1>9, <2>1
  <2>3. CASE i \in 1 .. Len(list) /\ j \in 1 .. Len(list)
    <3>1. blocks[t][i] = blocks[t][j]
      BY <1>9, <2>1, <2>3
    <3>2. QED
      BY <1>6, <2>3, <3>1 DEF IInv, BlocksDistinct
  <2>4. CASE i = Len(list) + 1 \/ j = Len(list) + 1
    BY <1>6, <1>7, <1>9, <2>1, <2>2, <2>4
  <2>5. QED
    BY <1>7, <2>2, <2>3, <2>4
<1>25. ListMatchesBlocks'
  <2> SUFFICES ASSUME NEW u \in Threads, blocks'[u] # <<>>
               PROVE  /\ Len(list') = Len(blocks'[u])
                      /\ \A i \in 1 .. Len(list') : held'[blocks'[u][i]] = list'[i]
    BY DEF ListMatchesBlocks, ll_length
  <2>1. u = t
    BY <1>9
  <2>2. held'[o] = w
    BY <1>2, <1>4 DEF TypeOK
  <2>3. QED
    BY <1>7, <1>8, <1>9, <1>19, <2>1, <2>2
<1>26. OwnersDistinct'
  <2>1. ASSUME NEW p \in Objects PROVE held'[p] \notin lost'
    <3>1. CASE p = o
      BY <1>2, <1>3, <1>4, <1>5, <3>1 DEF TypeOK, Owned
    <3>2. CASE p # o
      BY <1>2, <1>3, <1>4, <3>2 DEF TypeOK, IInv, OwnersDistinct
    <3>3. QED
      BY <3>1, <3>2
  <2>2. ASSUME NEW p \in Objects, NEW q \in Objects, held'[p] = held'[q], held'[p] # None
        PROVE  p = q
    BY <1>2, <1>4, <1>5, <2>2 DEF TypeOK, IInv, OwnersDistinct, Owned
  <2>3. QED
    BY <2>1, <2>2 DEF OwnersDistinct
<1>27. RegisteredIsHead'
  BY <1>2, <1>4, <1>6, <1>8, <1>9 DEF RegisteredIsHead, TypeOK
<1>28. OpenIffStacked'
  <2> SUFFICES ASSUME NEW x \in Wrappers
               PROVE  file'[x] = "open" <=> OnList(list', x)
    BY DEF OpenIffStacked
  <2>1. CASE x = w
    BY <1>17, <1>18, <2>1
  <2>2. CASE x # w
    BY <1>17, <1>18, <1>20, <2>2 DEF IInv, OpenIffStacked
  <2>3. QED
    BY <2>1, <2>2
<1>29. RefsExact'
  <2> SUFFICES ASSUME NEW x \in Wrappers
               PROVE  file'[x] = "free" <=> refs'[x] = 0
    BY <1>14, <1>15 DEF RefsExact
  <2>1. CASE x = w
    BY <1>10, <1>17, <2>1
  <2>2. CASE x # w
    <3>1. CASE file[x] = "free"
      <4>1. ~ Owned(x) /\ x \notin lost /\ held[o] # x
        BY <3>1, FreeFacts DEF Owned
      <4>2. refs'[x] = 0
        BY <1>3, <1>11, <1>13, <1>14, <2>2, <4>1
      <4>3. QED
        BY <1>17, <2>2, <4>2
    <3>2. CASE file[x] # "free"
      BY <1>17, <2>2, <3>2
    <3>3. QED
      BY <3>1, <3>2
  <2>3. QED
    BY <2>1, <2>2
<1>30. SuspendedSaysDetached'
  <2> SUFFICES ASSUME NEW i \in 1 .. Len(list') - 1
               PROVE  marker'[list'[i]] = "detach"
    BY DEF SuspendedSaysDetached
  <2>1. i \in 1 .. Len(list) /\ list'[i] = list[i] /\ list[i] \in Wrappers
    BY <1>7, <1>8
  <2>2. list[i] # w
    BY <1>5, <2>1 DEF OnList
  <2>3. ll_get(list) = list[Len(list)] /\ ll_get(list) # None
    BY <1>7, <2>1, GetFacts, NoneAssumption
  <2>4. marker'[list[i]] = IF list[i] = list[Len(list)] THEN "detach" ELSE marker[list[i]]
    BY <1>2, <1>4, <2>1, <2>2, <2>3 DEF TypeOK, DetachHead, Annotate
  <2>5. CASE i = Len(list)
    BY <2>1, <2>4, <2>5
  <2>6. CASE i # Len(list)
    <3>1. i \in 1 .. Len(list) - 1
      BY <1>7, <2>1, <2>6
    <3>2. QED
      BY <2>1, <2>4, <3>1 DEF IInv, SuspendedSaysDetached
  <2>7. QED
    BY <2>5, <2>6
<1>31. QED
  BY <1>21, <1>22, <1>23, <1>24, <1>25, <1>26, <1>27, <1>28, <1>29, <1>30 DEF IInv

\* A stacked wrapper is owned by the object of its block.
LEMMA StackedOwned ==
  ASSUME IInv, NEW x \in Wrappers, OnList(list, x)
  PROVE  Owned(x)
<1>1. PICK i \in 1 .. Len(list) : list[i] = x
  BY DEF OnList
<1>2. PICK t \in Threads : blocks[t] # <<>>
  <2>1. list # <<>>
    BY <1>1 DEF IInv, TypeOK
  <2>2. QED
    BY <2>1 DEF IInv, OneThreadInBlocks
<1>3. blocks[t][i] \in Objects /\ held[blocks[t][i]] = x
  BY <1>1, <1>2, InsideFacts
<1>4. QED
  BY <1>3 DEF Owned

\* __exit__ finds its own wrapper registered and at the head of the list, and
\* the next wrapper below it, if any, is another one.
LEMMA LeaverFacts ==
  ASSUME IInv, NEW t \in Threads, blocks[t] # <<>>
  PROVE  LET w == held[Leaver(t)]
             head == ll_get(ll_pop(list))
         IN  /\ Leaver(t) \in Objects
             /\ w \in Wrappers
             /\ w = list[Len(list)]
             /\ registered[t] = w
             /\ \A x \in Wrappers : Called(x) <=> x = w
             /\ Owned(w)
             /\ head # w
             /\ head = IF Len(list) = 1 THEN None ELSE list[Len(list) - 1]
             /\ head \in Wrappers \cup {None}
             /\ head # None => OnList(list, head)
             /\ \A x \in Wrappers : OnList(ll_pop(list), x) <=> OnList(list, x) /\ x # w
<1> DEFINE n == Len(list)
           w == held[Leaver(t)]
           head == ll_get(ll_pop(list))
<1>1. /\ list \in Seq(Wrappers) /\ list # <<>> /\ n \in Nat \ {0}
      /\ n = Len(blocks[t]) /\ registered[t] = list[n]
      /\ \A i \in 1 .. n : /\ blocks[t][i] \in Objects
                           /\ list[i] \in Wrappers
                           /\ held[blocks[t][i]] = list[i]
      /\ \A u \in Threads \ {t} : registered[u] = None
  BY InsideFacts
<1>2. /\ Leaver(t) \in Objects /\ w \in Wrappers /\ w = list[n] /\ registered[t] = w
      /\ Owned(w)
  BY <1>1 DEF Leaver, Last, Owned
<1>3. /\ Len(ll_pop(list)) = n - 1
      /\ \A i \in 1 .. n - 1 : ll_pop(list)[i] = list[i]
      /\ head = IF n = 1 THEN None ELSE list[n - 1]
  BY <1>1, PopFacts
<1>4. \A i \in 1 .. n - 1 : list[i] # w
  <2>1. \A i, j \in 1 .. n : list[i] = list[j] => i = j
    BY ListDistinct
  <2>2. QED
    BY <1>1, <1>2, <2>1
<1>5. /\ head # w
      /\ head \in Wrappers \cup {None}
      /\ head # None => OnList(list, head)
  <2> HIDE DEF head, w
  <2>1. CASE n = 1
    BY <1>2, <1>3, <2>1, NoneAssumption
  <2>2. CASE n # 1
    <3>1. n - 1 \in 1 .. n /\ n - 1 \in 1 .. n - 1
      <4>1. n \in Nat \ {0}
        BY <1>1
      <4> HIDE DEF n
      <4>2. QED
        BY <2>2, <4>1
    <3>2. QED
      BY <1>1, <1>3, <1>4, <2>2, <3>1 DEF OnList
  <2>3. QED
    BY <2>1, <2>2
<1>6. \A x \in Wrappers : Called(x) <=> x = w
  BY <1>1, <1>2, NoneAssumption DEF Called
<1>7. \A x \in Wrappers : OnList(ll_pop(list), x) <=> OnList(list, x) /\ x # w
  <2> DEFINE l == ll_pop(list)
  <2> SUFFICES ASSUME NEW x \in Wrappers
               PROVE  (\E i \in 1 .. Len(l) : l[i] = x)
                         <=> (\E i \in 1 .. n : list[i] = x) /\ x # w
    BY DEF OnList
  <2> HIDE DEF l, w
  <2>1. ASSUME NEW i \in 1 .. Len(l), l[i] = x
        PROVE  (\E j \in 1 .. n : list[j] = x) /\ x # w
    <3>1. i \in 1 .. n - 1 /\ i \in 1 .. n
      BY <1>1, <1>3, <2>1 DEF l
    <3>2. list[i] = x
      BY <1>3, <2>1, <3>1 DEF l
    <3>3. QED
      BY <1>4, <3>1, <3>2
  <2>2. ASSUME NEW i \in 1 .. n, list[i] = x, x # w
        PROVE  \E j \in 1 .. Len(l) : l[j] = x
    <3>1. i \in 1 .. n - 1
      BY <1>1, <1>2, <2>2
    <3>2. l[i] = x /\ i \in 1 .. Len(l)
      BY <1>3, <2>2, <3>1 DEF l
    <3>3. QED
      BY <3>2
  <2>3. QED
    BY <2>1, <2>2
<1>8. QED
  BY <1>2, <1>3, <1>5, <1>6, <1>7

\* __exit__ that succeeds preserves the invariant, for either class.
LEMMA ExitStep ==
  ASSUME IInv, NEW t \in Threads, Leaving(t), Exit(t),
         blocks' = [blocks EXCEPT ![t] = SubSeq(@, 1, Len(@) - 1)],
         UNCHANGED <<kind, held, lost, event_number, fault>>
  PROVE  IInv'
<1> DEFINE n == Len(list)
           w == held[Leaver(t)]
           head == ll_get(ll_pop(list))
<1>1. TypeOK
  BY DEF IInv
<1>2. blocks[t] # <<>>
  BY DEF Leaving
<1>3. /\ w \in Wrappers /\ w = list[n] /\ registered[t] = w
      /\ \A x \in Wrappers : Called(x) <=> x = w
      /\ Owned(w)
      /\ head # w
      /\ head = IF n = 1 THEN None ELSE list[n - 1]
      /\ head \in Wrappers \cup {None}
      /\ head # None => OnList(list, head)
      /\ \A x \in Wrappers : OnList(ll_pop(list), x) <=> OnList(list, x) /\ x # w
  BY <1>2, LeaverFacts
<1>4. /\ list \in Seq(Wrappers) /\ list # <<>> /\ n \in Nat \ {0}
      /\ n = Len(blocks[t]) /\ blocks[t] \in Seq(Objects)
      /\ \A i \in 1 .. n : /\ blocks[t][i] \in Objects
                           /\ list[i] \in Wrappers
                           /\ held[blocks[t][i]] = list[i]
      /\ \A u \in Threads \ {t} : blocks[u] = <<>> /\ registered[u] = None
  BY <1>2, InsideFacts
<1>5. /\ list' = ll_pop(list)
      /\ registered' = [registered EXCEPT ![t] = head]
      /\ refs' = Incref(SetTracer(refs, t, None), head)
      /\ file' = Dealloc(CloseFile(file, w), refs')
      /\ marker' = Annotate([marker EXCEPT ![w] = "end"], head, "reattach")
  BY DEF Exit
<1>6. /\ list' \in Seq(Wrappers)
      /\ Len(list') = n - 1
      /\ \A i \in 1 .. n - 1 : list'[i] = list[i]
      /\ ll_get(list') = head
  <2>1. /\ ll_pop(list) \in Seq(Wrappers)
        /\ Len(ll_pop(list)) = n - 1
        /\ \A i \in 1 .. n - 1 : ll_pop(list)[i] = list[i]
    BY <1>4, PopFacts
  <2>2. QED
    BY <1>5, <2>1
<1>7. /\ blocks' \in [Threads -> Seq(Objects)]
      /\ Len(blocks'[t]) = n - 1
      /\ \A i \in 1 .. n - 1 : blocks'[t][i] = blocks[t][i]
      /\ \A u \in Threads \ {t} : blocks'[u] = <<>>
      /\ blocks'[t] = <<>> <=> n = 1
  <2> DEFINE b == ll_pop(blocks[t])
  <2>1. /\ b \in Seq(Objects)
        /\ Len(b) = n - 1
        /\ \A i \in 1 .. n - 1 : b[i] = blocks[t][i]
    BY <1>2, <1>4, PopFacts
  <2>2. blocks' = [blocks EXCEPT ![t] = b]
    BY DEF ll_pop
  <2> HIDE DEF b
  <2>3. blocks'[t] = b /\ blocks' \in [Threads -> Seq(Objects)]
    BY <1>1, <2>1, <2>2 DEF TypeOK
  <2>4. \A u \in Threads \ {t} : blocks'[u] = <<>>
    BY <1>1, <1>4, <2>2 DEF TypeOK
  <2>5. b = <<>> <=> n = 1
    <3>1. b = <<>> <=> Len(b) = 0
      BY <2>1
    <3>2. QED
      BY <1>4, <2>1, <3>1
  <2>6. QED
    BY <2>1, <2>3, <2>4, <2>5
<1>8. held' = held /\ lost' = lost /\ fault' = fault
  OBVIOUS
<1>9. \A x \in Wrappers : Owned(x)' <=> Owned(x)
  BY <1>8 DEF Owned
<1>10. \A x \in Wrappers : Called(x)' <=> x = head
  BY <1>1, <1>4, <1>5, NoneAssumption DEF Called, TypeOK
<1>11. /\ refs' \in [Wrappers -> Int]
       /\ \A x \in Wrappers : refs'[x] =
            refs[x] - (IF x = w THEN 1 ELSE 0) + (IF x = head THEN 1 ELSE 0)
  <2> DEFINE r == SetTracer(refs, t, None)
  <2>1. /\ r \in [Wrappers -> Int]
        /\ \A x \in Wrappers : r[x] =
             refs[x] + (IF x = None THEN 1 ELSE 0) - (IF x = registered[t] THEN 1 ELSE 0)
    <3>1. refs \in [Wrappers -> Int] /\ registered[t] \in Wrappers \cup {None}
      BY <1>1 DEF TypeOK
    <3>2. QED
      BY <3>1, SetTracerFacts
  <2>2. refs' = Incref(r, head)
    BY <1>5
  <2>3. w \in Wrappers /\ registered[t] = w /\ head \in Wrappers \cup {None}
    BY <1>3
  <2>4. \A x \in Wrappers : refs[x] \in Int
    BY <1>1 DEF TypeOK
  <2> HIDE DEF r, head, w
  <2>5. \A x \in Wrappers : r[x] = refs[x] - (IF x = w THEN 1 ELSE 0)
    BY <2>1, <2>3, <2>4, NoneAssumption
  <2>6. CASE head = None
    BY <2>1, <2>2, <2>4, <2>5, <2>6, NoneAssumption DEF Incref
  <2>7. CASE head # None
    <3>1. refs' = [r EXCEPT ![head] = @ + 1]
      BY <2>2, <2>7 DEF Incref
    <3>2. QED
      BY <2>1, <2>3, <2>4, <2>5, <2>7, <3>1
  <2>8. QED
    BY <2>6, <2>7
<1>12. \A x \in Wrappers :
         refs'[x] = (IF Owned(x)' THEN 1 ELSE 0) + (IF Called(x)' THEN 1 ELSE 0)
                    + (IF x \in lost' THEN 1 ELSE 0)
  <2> TAKE x \in Wrappers
  <2>1. refs[x] = (IF Owned(x) THEN 1 ELSE 0) + (IF Called(x) THEN 1 ELSE 0)
                   + (IF x \in lost THEN 1 ELSE 0)
    BY DEF IInv, RefsExact
  <2>2. QED
    BY <1>3, <1>8, <1>9, <1>10, <1>11, <2>1
<1>13. refs' \in [Wrappers -> Nat]
  <2>1. \A x \in Wrappers : refs'[x] \in Nat
    BY <1>12
  <2>2. QED
    BY <1>11, <2>1
<1>14. /\ file' \in [Wrappers -> {"free", "open", "closed"}]
       /\ file'[w] = "closed"
       /\ \A x \in Wrappers \ {w} :
            file'[x] = IF refs'[x] = 0 THEN "free" ELSE file[x]
  <2> DEFINE f == CloseFile(file, w)
             r == refs'
  <2>1. /\ file' = Dealloc(f, r)
        /\ f[w] = "closed"
        /\ \A x \in Wrappers \ {w} : f[x] = file[x]
        /\ \A x \in Wrappers : f[x] \in {"free", "open", "closed"}
    BY <1>1, <1>3, <1>5 DEF CloseFile, TypeOK
  <2>2. r[w] # 0
    BY <1>3, <1>9, <1>12
  <2>3. r = refs'
    OBVIOUS
  <2> HIDE DEF f, r
  <2>4. /\ Dealloc(f, r) \in [Wrappers -> {"free", "open", "closed"}]
        /\ \A x \in Wrappers : Dealloc(f, r)[x] = IF r[x] = 0 THEN "free" ELSE f[x]
    BY <2>1, DeallocFacts
  <2>5. QED
    BY <1>3, <2>1, <2>2, <2>3, <2>4
<1>15. TypeOK'
  <2>1. /\ held' \in [Objects -> Wrappers \cup {None}]
        /\ registered' \in [Threads -> Wrappers \cup {None}]
        /\ lost' \in SUBSET Wrappers
        /\ event_number' \in [Wrappers -> 0 .. MaxEvents]
        /\ kind' \in {"P", "T"} /\ fault' \in {"none", "reattach", "release", "write"}
    BY <1>1, <1>3, <1>5 DEF TypeOK
  <2>2. marker' \in [Wrappers -> {"none", "start", "detach", "reattach", "end"}]
    BY <1>1, <1>5 DEF TypeOK, Annotate
  <2>3. QED
    BY <1>6, <1>7, <1>13, <1>14, <2>1, <2>2 DEF TypeOK
<1>16. NoFault'
  BY <1>8 DEF IInv, NoFault
<1>17. OneThreadInBlocks'
  <2>1. \A u, v \in Threads : blocks'[u] # <<>> /\ blocks'[v] # <<>> => u = v
    BY <1>7
  <2>2. (\A u \in Threads : blocks'[u] = <<>>) => list' = <<>>
    BY <1>4, <1>6, <1>7
  <2>3. QED
    BY <2>1, <2>2 DEF OneThreadInBlocks
<1>18. BlocksDistinct'
  <2> SUFFICES ASSUME NEW u \in Threads,
                      NEW i \in 1 .. Len(blocks'[u]), NEW j \in 1 .. Len(blocks'[u]),
                      blocks'[u][i] = blocks'[u][j]
               PROVE  i = j
    BY DEF BlocksDistinct
  <2>1. u = t
    BY <1>7
  <2>2. i \in 1 .. n - 1 /\ j \in 1 .. n - 1
    BY <1>7, <2>1
  <2>3. blocks[t][i] = blocks[t][j] /\ i \in 1 .. Len(blocks[t]) /\ j \in 1 .. Len(blocks[t])
    BY <1>4, <1>7, <2>1, <2>2
  <2>4. QED
    BY <2>3 DEF IInv, BlocksDistinct
<1>19. ListMatchesBlocks'
  <2> SUFFICES ASSUME NEW u \in Threads, blocks'[u] # <<>>
               PROVE  /\ Len(list') = Len(blocks'[u])
                      /\ \A i \in 1 .. Len(list') : held'[blocks'[u][i]] = list'[i]
    BY DEF ListMatchesBlocks, ll_length
  <2>1. u = t
    BY <1>7
  <2>2. \A i \in 1 .. n - 1 : held'[blocks'[t][i]] = list'[i]
    BY <1>4, <1>6, <1>7, <1>8
  <2>3. QED
    BY <1>6, <1>7, <2>1, <2>2
<1>20. OwnersDistinct'
  BY <1>8 DEF IInv, OwnersDistinct
<1>21. RegisteredIsHead'
  <2> SUFFICES ASSUME NEW u \in Threads
               PROVE  registered'[u] = IF blocks'[u] = <<>> THEN None ELSE ll_get(list')
    BY DEF RegisteredIsHead
  <2>1. CASE u = t
    BY <1>1, <1>3, <1>5, <1>6, <1>7, <2>1 DEF TypeOK
  <2>2. CASE u # t
    BY <1>1, <1>4, <1>5, <1>7, <2>2 DEF TypeOK
  <2>3. QED
    BY <2>1, <2>2
<1>22. OpenIffStacked'
  <2> SUFFICES ASSUME NEW x \in Wrappers
               PROVE  file'[x] = "open" <=> OnList(list', x)
    BY DEF OpenIffStacked
  <2>1. CASE x = w
    BY <1>3, <1>5, <1>14, <2>1
  <2>2. CASE x # w
    <3>1. OnList(list', x) <=> OnList(list, x)
      BY <1>3, <1>5, <2>2
    <3>2. OnList(list, x) => refs'[x] # 0
      BY <1>9, <1>12, StackedOwned
    <3>3. QED
      BY <1>14, <2>2, <3>1, <3>2 DEF IInv, OpenIffStacked
  <2>3. QED
    BY <2>1, <2>2
<1>23. RefsExact'
  <2> SUFFICES ASSUME NEW x \in Wrappers
               PROVE  file'[x] = "free" <=> refs'[x] = 0
    BY <1>12 DEF RefsExact
  <2>1. CASE x = w
    BY <1>3, <1>9, <1>12, <1>14, <2>1
  <2>2. CASE x # w /\ file[x] = "free"
    <3>1. ~ OnList(list, x) /\ refs[x] = 0
      BY <2>2, FreeFacts
    <3>2. refs'[x] = 0
      BY <1>3, <1>11, <2>2, <3>1, NoneAssumption
    <3>3. QED
      BY <1>14, <2>2, <3>2
  <2>3. CASE x # w /\ file[x] # "free"
    BY <1>14, <2>3
  <2>4. QED
    BY <2>1, <2>2, <2>3
<1>24. SuspendedSaysDetached'
  <2> SUFFICES ASSUME NEW i \in 1 .. Len(list') - 1
               PROVE  marker'[list'[i]] = "detach"
    BY DEF SuspendedSaysDetached
  <2>1. /\ i \in 1 .. n - 2 /\ i \in 1 .. n /\ n - 1 \in 1 .. n /\ n # 1
        /\ list'[i] = list[i] /\ list[i] \in Wrappers
        /\ i \in 1 .. Len(list) - 1
    BY <1>4, <1>6
  <2>2. list[i] # head /\ list[i] # w
    <3>1. \A j, k \in 1 .. n : list[j] = list[k] => j = k
      BY ListDistinct
    <3>2. QED
      BY <1>3, <1>4, <2>1, <3>1
  <2>3. marker'[list[i]] = marker[list[i]]
    BY <1>1, <1>5, <2>1, <2>2 DEF Annotate, TypeOK
  <2>4. QED
    BY <2>1, <2>3 DEF IInv, SuspendedSaysDetached
<1>25. QED
  BY <1>15, <1>16, <1>17, <1>18, <1>19, <1>20, <1>21, <1>22, <1>23, <1>24 DEF IInv

\* __enter__ that can not open its file preserves the invariant: the wrapper
\* that the object forgets keeps the count of the reference that leaks.
LEMMA EnterFailsStep ==
  ASSUME IInv, Disciplined, NEW t \in Threads, NEW o \in Objects, EnterFails(t, o)
  PROVE  IInv'
<1>1. /\ marker' = DetachHead(marker)
      /\ held' = [held EXCEPT ![o] = None]
      /\ lost' = IF held[o] = None THEN lost ELSE lost \cup {held[o]}
      /\ UNCHANGED <<kind, blocks, list, registered, file, refs, event_number, fault>>
  BY DEF EnterFails, ForgetHeld
<1>2. TypeOK
  BY DEF IInv
<1>3. \A p \in Objects : held'[p] = IF p = o THEN None ELSE held[p]
  BY <1>1, <1>2 DEF TypeOK
<1>4. \A i \in 1 .. Len(list) : list[i] \in Wrappers
  BY <1>2 DEF TypeOK
<1>5. TypeOK'
  <2>1. marker' \in [Wrappers -> {"none", "start", "detach", "reattach", "end"}]
    BY <1>1, <1>2 DEF TypeOK, DetachHead, Annotate
  <2>2. held' \in [Objects -> Wrappers \cup {None}] /\ lost' \in SUBSET Wrappers
    BY <1>1, <1>2 DEF TypeOK
  <2>3. QED
    BY <1>1, <1>2, <2>1, <2>2 DEF TypeOK
<1>6. NoFault' /\ OneThreadInBlocks' /\ BlocksDistinct' /\ RegisteredIsHead' /\ OpenIffStacked'
  BY <1>1 DEF IInv, NoFault, OneThreadInBlocks, BlocksDistinct, RegisteredIsHead,
              OpenIffStacked
<1>7. ListMatchesBlocks'
  <2> SUFFICES ASSUME NEW u \in Threads, blocks[u] # <<>>, NEW i \in 1 .. Len(list)
               PROVE  held'[blocks[u][i]] = list[i]
    BY <1>1 DEF IInv, ListMatchesBlocks
  <2>1. blocks[u][i] \in Objects /\ held[blocks[u][i]] = list[i] /\ i \in 1 .. Len(blocks[u])
    BY InsideFacts
  <2>2. blocks[u][i] # o
    BY <2>1 DEF EnterFails, MayEnter, InBlock, Disciplined
  <2>3. QED
    BY <1>3, <2>1, <2>2
<1>8. OwnersDistinct'
  BY <1>1, <1>2, <1>3, NoneAssumption DEF IInv, OwnersDistinct, TypeOK
<1>9. RefsExact'
  <2> SUFFICES ASSUME NEW x \in Wrappers
               PROVE  refs[x] = (IF Owned(x)' THEN 1 ELSE 0) + (IF Called(x) THEN 1 ELSE 0)
                                + (IF x \in lost' THEN 1 ELSE 0)
    BY <1>1 DEF IInv, RefsExact, Called
  <2>1. refs[x] = (IF Owned(x) THEN 1 ELSE 0) + (IF Called(x) THEN 1 ELSE 0)
                   + (IF x \in lost THEN 1 ELSE 0)
    BY DEF IInv, RefsExact
  <2>2. CASE held[o] = x
    <3>1. Owned(x) /\ x \notin lost
      BY <2>2 DEF Owned, IInv, OwnersDistinct
    <3>2. x \in lost'
      BY <1>1, <2>2, NoneAssumption
    <3>3. ~ Owned(x)'
      BY <1>3, <2>2, NoneAssumption DEF Owned, IInv, OwnersDistinct
    <3>4. QED
      BY <2>1, <3>1, <3>2, <3>3
  <2>3. CASE held[o] # x
    <3>1. x \in lost' <=> x \in lost
      BY <1>1, <2>3
    <3>2. Owned(x)' <=> Owned(x)
      BY <1>3, <2>3, NoneAssumption DEF Owned
    <3>3. QED
      BY <2>1, <3>1, <3>2
  <2>4. QED
    BY <2>2, <2>3
<1>10. SuspendedSaysDetached'
  <2> SUFFICES ASSUME NEW i \in 1 .. Len(list) - 1
               PROVE  marker'[list[i]] = "detach"
    BY <1>1 DEF SuspendedSaysDetached
  <2>1. marker[list[i]] = "detach"
    BY DEF IInv, SuspendedSaysDetached
  <2>2. i \in 1 .. Len(list)
    BY <1>2 DEF TypeOK
  <2>3. list[i] \in Wrappers
    BY <1>4, <2>2
  <2>4. QED
    BY <1>1, <1>2, <2>1, <2>3 DEF TypeOK, DetachHead, Annotate
<1>11. QED
  BY <1>5, <1>6, <1>7, <1>8, <1>9, <1>10 DEF IInv

\* Deallocating an object outside with blocks preserves the invariant: its
\* wrapper is not on the list.
LEMMA DeallocObjectStep ==
  ASSUME IInv, NEW o \in Objects, DeallocObject(o)
  PROVE  IInv'
<1> DEFINE w == held[o]
<1>1. /\ w # None
      /\ \A t \in Threads : ~ InBlock(t, o)
      /\ held' = [held EXCEPT ![o] = None]
      /\ refs' = Decref(refs, w)
      /\ file' = Dealloc(file, refs')
      /\ UNCHANGED <<kind, blocks, list, registered, lost, event_number, marker, fault>>
  BY DEF DeallocObject
<1>2. TypeOK
  BY DEF IInv
<1>3. w \in Wrappers /\ \A p \in Objects : held'[p] = IF p = o THEN None ELSE held[p]
  BY <1>1, <1>2 DEF TypeOK
<1>4. \A u \in Threads, i \in 1 .. Len(list) :
        blocks[u] # <<>> => /\ blocks[u][i] \in Objects
                            /\ blocks[u][i] # o
                            /\ held[blocks[u][i]] = list[i]
  <2> TAKE u \in Threads, i \in 1 .. Len(list)
  <2> HAVE blocks[u] # <<>>
  <2>1. blocks[u][i] \in Objects /\ held[blocks[u][i]] = list[i] /\ i \in 1 .. Len(blocks[u])
    BY InsideFacts
  <2>2. QED
    BY <1>1, <2>1 DEF InBlock
<1>5. ~ OnList(list, w)
  <2> SUFFICES ASSUME NEW i \in 1 .. Len(list), list[i] = w PROVE FALSE
    BY DEF OnList
  <2>1. PICK t \in Threads : blocks[t] # <<>>
    <3>1. list # <<>>
      BY <1>2 DEF TypeOK
    <3>2. QED
      BY <3>1 DEF IInv, OneThreadInBlocks
  <2>2. QED
    BY <1>1, <1>4, <2>1 DEF IInv, OwnersDistinct
<1>6. \A x \in Wrappers : Owned(x)' <=> Owned(x) /\ x # w
  <2> TAKE x \in Wrappers
  <2>1. CASE x = w
    BY <1>1, <1>3, <2>1 DEF Owned, IInv, OwnersDistinct
  <2>2. CASE x # w
    BY <1>3, <2>2, NoneAssumption DEF Owned
  <2>3. QED
    BY <2>1, <2>2
<1>7. /\ refs' \in [Wrappers -> Int]
      /\ \A x \in Wrappers : refs'[x] = refs[x] - (IF x = w THEN 1 ELSE 0)
  BY <1>1, <1>2, <1>3 DEF Decref, TypeOK
<1>8. \A x \in Wrappers :
        refs'[x] = (IF Owned(x)' THEN 1 ELSE 0) + (IF Called(x)' THEN 1 ELSE 0)
                   + (IF x \in lost' THEN 1 ELSE 0)
  <2> TAKE x \in Wrappers
  <2>1. refs[x] = (IF Owned(x) THEN 1 ELSE 0) + (IF Called(x) THEN 1 ELSE 0)
                   + (IF x \in lost THEN 1 ELSE 0)
    BY DEF IInv, RefsExact
  <2>2. (Called(x)' <=> Called(x)) /\ (x \in lost' <=> x \in lost)
    BY <1>1 DEF Called
  <2>3. Owned(w)
    BY DEF Owned
  <2>4. QED
    BY <1>6, <1>7, <2>1, <2>2, <2>3
<1>9. refs' \in [Wrappers -> Nat]
  <2>1. \A x \in Wrappers : refs'[x] \in Nat
    BY <1>8
  <2>2. QED
    BY <1>7, <2>1
<1>10. /\ file' \in [Wrappers -> {"free", "open", "closed"}]
       /\ \A x \in Wrappers : file'[x] = IF refs'[x] = 0 THEN "free" ELSE file[x]
  <2> DEFINE r == refs'
  <2>1. (\A x \in Wrappers : file[x] \in {"free", "open", "closed"}) /\ file' = Dealloc(file, r)
    BY <1>1, <1>2 DEF TypeOK
  <2> HIDE DEF r
  <2>2. /\ Dealloc(file, r) \in [Wrappers -> {"free", "open", "closed"}]
        /\ \A x \in Wrappers : Dealloc(file, r)[x] = IF r[x] = 0 THEN "free" ELSE file[x]
    BY <2>1, DeallocFacts
  <2>3. QED
    BY <2>1, <2>2 DEF r
<1>11. TypeOK'
  <2>1. held' \in [Objects -> Wrappers \cup {None}]
    BY <1>1, <1>2 DEF TypeOK
  <2>2. QED
    BY <1>1, <1>2, <1>9, <1>10, <2>1 DEF TypeOK
<1>12. NoFault' /\ OneThreadInBlocks' /\ BlocksDistinct' /\ RegisteredIsHead'
       /\ SuspendedSaysDetached'
  BY <1>1 DEF IInv, NoFault, OneThreadInBlocks, BlocksDistinct, RegisteredIsHead,
              SuspendedSaysDetached
<1>13. ListMatchesBlocks'
  <2> SUFFICES ASSUME NEW u \in Threads, blocks[u] # <<>>, NEW i \in 1 .. Len(list)
               PROVE  held'[blocks[u][i]] = list[i]
    BY <1>1 DEF IInv, ListMatchesBlocks
  <2>1. QED
    BY <1>3, <1>4
<1>14. OwnersDistinct'
  BY <1>1, <1>2, <1>3, NoneAssumption DEF IInv, OwnersDistinct, TypeOK
<1>15. \A x \in Wrappers : OnList(list, x) => refs'[x] # 0
  BY <1>5, <1>6, <1>8, StackedOwned
<1>16. OpenIffStacked'
  BY <1>1, <1>10, <1>15 DEF IInv, OpenIffStacked
<1>17. RefsExact'
  <2> SUFFICES ASSUME NEW x \in Wrappers
               PROVE  file'[x] = "free" <=> refs'[x] = 0
    BY <1>8 DEF RefsExact
  <2>1. CASE file[x] = "free"
    <3>1. refs[x] = 0 /\ x # w
      BY <2>1, FreeFacts DEF Owned
    <3>2. QED
      BY <1>7, <1>10, <2>1, <3>1
  <2>2. CASE file[x] # "free"
    BY <1>10, <2>2
  <2>3. QED
    BY <2>1, <2>2
<1>18. QED
  BY <1>11, <1>12, <1>13, <1>14, <1>16, <1>17 DEF IInv

\* An event is seen by the head of the list, whose file is open.
LEMMA EventStep ==
  ASSUME IInv, NEW t \in Threads, Event(t)
  PROVE  /\ IInv'
         /\ event_number' = [event_number EXCEPT ![ll_get(list)] = @ + 1]
<1> DEFINE w == registered[t]
<1>1. /\ w # None
      /\ event_number[w] < MaxEvents
      /\ event_number' = [event_number EXCEPT ![w] = @ + 1]
      /\ fault' = "none" \/ file[w] # "open"
      /\ UNCHANGED <<kind, blocks, list, registered, held, file, refs, lost, marker>>
  BY DEF Event
<1>2. TypeOK
  BY DEF IInv
<1>3. blocks[t] # <<>> /\ w = ll_get(list)
  BY <1>1 DEF IInv, RegisteredIsHead
<1>4. w \in Wrappers /\ w = list[Len(list)] /\ Len(list) \in 1 .. Len(list)
  BY <1>3, InsideFacts
<1>5. file[w] = "open"
  BY <1>4 DEF IInv, OpenIffStacked, OnList
<1>6. fault' = "none"
  BY <1>1, <1>5
<1>7. event_number' \in [Wrappers -> 0 .. MaxEvents]
  BY <1>1, <1>2, <1>4, MaxEventsAssumption DEF TypeOK
<1>8. TypeOK' /\ NoFault'
  BY <1>1, <1>2, <1>6, <1>7 DEF TypeOK, NoFault
<1>9. /\ OneThreadInBlocks' /\ BlocksDistinct' /\ ListMatchesBlocks' /\ OwnersDistinct'
      /\ RegisteredIsHead' /\ OpenIffStacked' /\ SuspendedSaysDetached'
  BY <1>1 DEF IInv, OneThreadInBlocks, BlocksDistinct, ListMatchesBlocks, OwnersDistinct,
              RegisteredIsHead, OpenIffStacked, SuspendedSaysDetached
<1>10. RefsExact'
  BY <1>1 DEF IInv, RefsExact, Owned, Called
<1>11. QED
  BY <1>1, <1>3, <1>8, <1>9, <1>10 DEF IInv

\* The tracer that __exit__ registers again is alive and its file is open, and
\* the object that leaves has a wrapper: neither faulty exit can happen.
LEMMA ExitsAreSound ==
  ASSUME IInv, NEW t \in Threads
  PROVE  ~ ExitFaults(t) /\ ~ ExitWithoutWrapper(t)
<1> SUFFICES ASSUME Leaving(t) PROVE ~ ExitFaults(t) /\ ~ ExitWithoutWrapper(t)
  BY DEF ExitFaults, ExitWithoutWrapper
<1> DEFINE w == held[Leaver(t)]
           head == ll_get(ll_pop(list))
<1>1. TypeOK /\ blocks[t] # <<>>
  BY DEF Leaving, IInv
<1>2. /\ w \in Wrappers /\ registered[t] = w /\ head # w
      /\ head \in Wrappers \cup {None}
      /\ head # None => OnList(list, head)
  BY <1>1, LeaverFacts
<1>3. ~ ExitWithoutWrapper(t)
  BY <1>2, NoneAssumption DEF ExitWithoutWrapper
<1>4. ASSUME head # None
      PROVE  CloseFile(file, w)[head] = "open" /\ SetTracer(refs, t, None)[head] # 0
  <2>1. file[head] = "open" /\ head \in Wrappers
    BY <1>2, <1>4 DEF IInv, OpenIffStacked
  <2>2. CloseFile(file, w)[head] = "open"
    BY <1>1, <1>2, <2>1 DEF CloseFile, TypeOK
  <2>3. refs[head] # 0
    BY <2>1 DEF IInv, RefsExact
  <2>4. SetTracer(refs, t, None)[head] = refs[head]
    <3>1. refs \in [Wrappers -> Int] /\ registered[t] \in Wrappers \cup {None}
      BY <1>1 DEF TypeOK
    <3>2. SetTracer(refs, t, None)[head] = refs[head] + (IF head = None THEN 1 ELSE 0)
                                            - (IF head = registered[t] THEN 1 ELSE 0)
      BY <2>1, <3>1, SetTracerFacts
    <3>3. refs[head] \in Int
      BY <2>1, <3>1
    <3> HIDE DEF head, w
    <3>4. QED
      BY <1>2, <1>4, <3>2, <3>3
  <2>5. QED
    BY <2>2, <2>3, <2>4
<1>5. QED
  BY <1>3, <1>4 DEF ExitFaults

\* Every step preserves the invariant.
THEOREM NextInvariant ==
  ASSUME IInv, Disciplined, [Next]_vars
  PROVE  IInv'
<1>1. ASSUME NEW t \in Threads, NEW o \in Objects, Enter(t, o) PROVE IInv'
  BY <1>1, EnterStep
<1>2. ASSUME NEW t \in Threads, NEW o \in Objects, EnterFails(t, o) PROVE IInv'
  BY <1>2, EnterFailsStep
<1>3. ASSUME NEW t \in Threads, ProfileExit(t) PROVE IInv'
  BY <1>3, ExitStep DEF ProfileExit
<1>4. ASSUME NEW t \in Threads, TraceExit(t) PROVE IInv'
  BY <1>4, ExitStep DEF TraceExit
<1>5. ASSUME NEW t \in Threads, ExitFaults(t) \/ ExitWithoutWrapper(t) PROVE IInv'
  BY <1>5, ExitsAreSound
<1>6. ASSUME NEW t \in Threads, Event(t) PROVE IInv'
  BY <1>6, EventStep
<1>7. ASSUME NEW o \in Objects, DeallocObject(o) PROVE IInv'
  BY <1>7, DeallocObjectStep
<1>8. CASE UNCHANGED vars
  BY <1>8 DEF vars, IInv, TypeOK, NoFault, OneThreadInBlocks, BlocksDistinct,
              ListMatchesBlocks, OwnersDistinct, RegisteredIsHead, OpenIffStacked,
              RefsExact, Owned, Called, SuspendedSaysDetached
<1>9. QED
  BY <1>1, <1>2, <1>3, <1>4, <1>5, <1>6, <1>7, <1>8 DEF Next, ProfileEnter, TraceEnter

-----------------------------------------------------------------------------
(* What the specification guarantees.                                      *)

\* The inductive invariant holds throughout.
THEOREM Invariance ==
  ASSUME Disciplined
  PROVE  Spec => []IInv
<1>1. Init => IInv
  BY InitInvariant
<1>2. IInv /\ [Next]_vars => IInv'
  BY NextInvariant
<1>3. QED
  BY <1>1, <1>2, PTL DEF Spec

\* The variables keep their types.
THEOREM TypeCorrect ==
  ASSUME Disciplined
  PROVE  Spec => []TypeOK
<1>1. IInv => TypeOK
  BY DEF IInv
<1>2. QED
  BY <1>1, Invariance, PTL

\* No closed file is written to, nothing is popped from an empty list or released
\* twice, and no tracer without an open file is registered again.
THEOREM Faultless ==
  ASSUME Disciplined
  PROVE  Spec => []NoFault
<1>1. IInv => NoFault
  BY DEF IInv
<1>2. QED
  BY <1>1, Invariance, PTL

\* Stacking: the interpreter calls the head of the list, the list is the stack
\* of the with blocks, and the suspended logs say so.
THEOREM Stacking ==
  ASSUME Disciplined
  PROVE  Spec => [](RegisteredIsHead /\ ListMatchesBlocks /\ SuspendedSaysDetached)
<1>1. IInv => RegisteredIsHead /\ ListMatchesBlocks /\ SuspendedSaysDetached
  BY DEF IInv
<1>2. QED
  BY <1>1, Invariance, PTL

\* A log file is open exactly while its wrapper is on the list.
THEOREM FilesOpenWhileStacked ==
  ASSUME Disciplined
  PROVE  Spec => []OpenIffStacked
<1>1. IInv => OpenIffStacked
  BY DEF IInv
<1>2. QED
  BY <1>1, Invariance, PTL

\* Reference counts are exact, the leaked references included.
THEOREM ReferencesAccounted ==
  ASSUME Disciplined
  PROVE  Spec => []RefsAccount
<1>1. ASSUME IInv PROVE RefsAccount
  <2> SUFFICES ASSUME NEW w \in Wrappers
               PROVE  /\ refs[w] = Cardinality({o \in Objects : held[o] = w})
                                   + Cardinality({t \in Threads : registered[t] = w})
                                   + (IF w \in lost THEN 1 ELSE 0)
                      /\ file[w] = "free" <=> refs[w] = 0
    BY DEF RefsAccount
  <2>1. Cardinality({o \in Objects : held[o] = w}) = IF Owned(w) THEN 1 ELSE 0
    <3>1. CASE Owned(w)
      <4>1. PICK o \in Objects : held[o] = w
        BY <3>1 DEF Owned
      <4>2. {p \in Objects : held[p] = w} = {o}
        BY <1>1, <4>1, NoneAssumption DEF IInv, OwnersDistinct
      <4>3. QED
        BY <3>1, <4>2, FS_Singleton
    <3>2. CASE ~ Owned(w)
      <4>1. {p \in Objects : held[p] = w} = {}
        BY <3>2 DEF Owned
      <4>2. QED
        BY <3>2, <4>1, FS_EmptySet
    <3>3. QED
      BY <3>1, <3>2
  <2>2. Cardinality({t \in Threads : registered[t] = w}) = IF Called(w) THEN 1 ELSE 0
    <3>1. CASE Called(w)
      <4>1. PICK t \in Threads : registered[t] = w
        BY <3>1 DEF Called
      <4>2. {u \in Threads : registered[u] = w} = {t}
        BY <1>1, <4>1, NoneAssumption DEF IInv, RegisteredIsHead, OneThreadInBlocks
      <4>3. QED
        BY <3>1, <4>2, FS_Singleton
    <3>2. CASE ~ Called(w)
      <4>1. {u \in Threads : registered[u] = w} = {}
        BY <3>2 DEF Called
      <4>2. QED
        BY <3>2, <4>1, FS_EmptySet
    <3>3. QED
      BY <3>1, <3>2
  <2>3. QED
    BY <1>1, <2>1, <2>2 DEF IInv, RefsExact
<1>2. IInv => RefsAccount
  BY <1>1
<1>3. QED
  BY <1>2, Invariance, PTL

\* Only the head of the list sees events.
THEOREM SuspendedSilence ==
  ASSUME Disciplined
  PROVE  Spec => SuspendedIsSilent
<1> DEFINE Silent ==
      \A w \in Wrappers : event_number'[w] > event_number[w] => w = ll_get(list')
<1>1. ASSUME IInv, [Next]_vars PROVE [Silent]_vars
  <2> SUFFICES ASSUME NEW w \in Wrappers, event_number'[w] > event_number[w]
               PROVE  w = ll_get(list')
    OBVIOUS
  <2>1. event_number \in [Wrappers -> Int] /\ ~ event_number[w] > event_number[w]
    BY <1>1 DEF IInv, TypeOK
  <2>2. CASE \E t \in Threads, o \in Objects : Enter(t, o)
    <3>1. PICK x \in Wrappers : /\ event_number' = [event_number EXCEPT ![x] = 1]
                                /\ list' = ll_push(list, x)
      BY <2>2 DEF Enter
    <3>2. w = x
      BY <2>1, <3>1
    <3>3. list \in Seq(Wrappers) /\ ll_get(ll_push(list, x)) = x
      BY <1>1, PushFacts DEF IInv, TypeOK
    <3>4. QED
      BY <3>1, <3>2, <3>3
  <2>3. CASE \E t \in Threads : Event(t)
    <3>1. event_number' = [event_number EXCEPT ![ll_get(list)] = @ + 1] /\ list' = list
      BY <1>1, <2>3, EventStep DEF Event
    <3>2. QED
      BY <2>1, <3>1
  <2>4. CASE event_number' = event_number
    BY <2>1, <2>4
  <2>5. QED
    BY <1>1, <2>2, <2>3, <2>4
       DEF Next, vars, ProfileEnter, TraceEnter, EnterFails, ProfileExit, TraceExit, ExitFaults,
           ExitWithoutWrapper, DeallocObject
<1>2. IInv /\ [Next]_vars => [Silent]_vars
  BY <1>1
<1>3. QED
  BY <1>2, Invariance, PTL DEF SuspendedIsSilent, Spec

\* What the interpreter calls is the head of the list, whichever thread it is on.
LEMMA CallingIsHead ==
  ASSUME IInv
  PROVE  Calling = ll_get(list)
<1>1. CASE \A t \in Threads : blocks[t] = <<>>
  <2>1. list = <<>> /\ \A t \in Threads : registered[t] = None
    BY <1>1 DEF IInv, OneThreadInBlocks, RegisteredIsHead
  <2>2. QED
    BY <2>1 DEF Calling, ll_get
<1>2. CASE \E t \in Threads : blocks[t] # <<>>
  <2>1. PICK t \in Threads : blocks[t] # <<>>
    BY <1>2
  <2>2. registered[t] = ll_get(list) /\ registered[t] # None
    BY <2>1, InsideFacts, NoneAssumption DEF ll_get
  <2>3. \A u \in Threads : registered[u] # None => u = t
    BY <2>1, InsideFacts
  <2>4. (CHOOSE u \in Threads : registered[u] # None) = t
    BY <2>2, <2>3
  <2>5. QED
    BY <2>2, <2>4 DEF Calling
<1>3. QED
  BY <1>1, <1>2

\* The same of the state after a step.
LEMMA CallingIsHeadNext == IInv' => (Calling = ll_get(list))'
<1>1. IInv => Calling = ll_get(list)
  BY CallingIsHead
<1>2. QED
  BY <1>1, PTL

\* Each step of the code is a step of the stack of tracers, or leaves it alone.
LEMMA StackStep ==
  ASSUME IInv, IInv', Disciplined, [Next]_vars
  PROVE  [StackedContextManagers!Next]_(StackedContextManagers!vars)
<1>1. Calling = ll_get(list) /\ Calling' = ll_get(list')
  BY CallingIsHead, CallingIsHeadNext
<1>2. ASSUME NEW t \in Threads, NEW o \in Objects, Enter(t, o)
      PROVE  StackedContextManagers!Next
  <2>1. PICK w \in Wrappers : Allocatable(w) /\ list' = ll_push(list, w)
    BY <1>2 DEF Enter
  <2>2. list' = Append(list, w) /\ ll_get(list') = w
    <3>1. list \in Seq(Wrappers) /\ ll_get(ll_push(list, w)) = w
      BY PushFacts DEF IInv, TypeOK
    <3>2. QED
      BY <2>1, <3>1 DEF ll_push
  <2>3. StackedContextManagers!Begin(w)
    BY <1>1, <2>1, <2>2 DEF Allocatable, OnList, StackedContextManagers!Begin,
                            StackedContextManagers!Stacked
  <2>4. QED
    BY <2>3 DEF StackedContextManagers!Next
<1>3. ASSUME NEW t \in Threads, Leaving(t), list' = ll_pop(list)
      PROVE  StackedContextManagers!Next
  <2>1. list # <<>>
    BY <1>3, InsideFacts DEF Leaving
  <2>2. StackedContextManagers!End
    BY <1>1, <1>3, <2>1 DEF StackedContextManagers!End, StackedContextManagers!Top,
                            ll_pop, ll_get
  <2>3. QED
    BY <2>2 DEF StackedContextManagers!Next
<1>4. CASE UNCHANGED <<list, registered>>
  BY <1>4 DEF StackedContextManagers!vars, Calling
<1>5. QED
  BY <1>2, <1>3, <1>4, ExitsAreSound
     DEF Next, vars, ProfileEnter, TraceEnter, EnterFails, ProfileExit, TraceExit, Exit, DeallocObject, Event

\* The code implements the stack of context managers of the design note.
THEOREM Refinement ==
  ASSUME Disciplined
  PROVE  Spec => ImplementsTracerStack
<1>1. Init => StackedContextManagers!Init
  BY DEF Init, StackedContextManagers!Init, Calling
<1>2. IInv /\ IInv' /\ [Next]_vars =>
        [StackedContextManagers!Next]_(StackedContextManagers!vars)
  BY StackStep
<1>3. QED
  BY <1>1, <1>2, Invariance, PTL
     DEF Spec, ImplementsTracerStack, StackedContextManagers!Spec

-----------------------------------------------------------------------------
(***************************************************************************)
(* Any usage of with blocks: several threads at once, objects entered      *)
(* again while they are in a block.  The program may then run into a       *)
(* fault, but until it does every __exit__ finds something to pop, the     *)
(* head of the list has an open file and the reference counts are exact.   *)
(***************************************************************************)

\* The threads that call w, and whether it has an owner or was forgotten.
Callers(reg, w) == {t \in Threads : reg[t] = w}
OwnerCount(h, w) == IF \E o \in Objects : h[o] = w THEN 1 ELSE 0
LostCount(l, w) == IF w \in l THEN 1 ELSE 0

\* RefsAccount, where an object is the only owner of its wrapper.
Counted ==
  \A w \in Wrappers :
    /\ IsFiniteSet(Callers(registered, w))
    /\ refs[w] = OwnerCount(held, w) + Cardinality(Callers(registered, w)) + LostCount(lost, w)
    /\ file[w] = "free" <=> refs[w] = 0

\* An open file has an object in some with block, or no object and a reference
\* for ever: no deallocation closes it.
OpenIsNeeded ==
  \A w \in Wrappers :
    file[w] = "open" =>
      w \in lost \/ \E o \in Objects : held[o] = w /\ \E t \in Threads : InBlock(t, o)

\* Each block that the threads are inside has one of n nodes to itself.
NodePerBlock(node, inside, n) ==
  /\ \A t \in Threads : \A i \in 1 .. Len(inside[t]) : node[t][i] \in 1 .. n
  /\ \A t, u \in Threads : \A i \in 1 .. Len(inside[t]) : \A j \in 1 .. Len(inside[u]) :
       node[t][i] = node[u][j] => t = u /\ i = j

\* The list has at least as many nodes as there are with blocks.
EnoughNodes == \E node \in [Threads -> [Nat -> Nat]] : NodePerBlock(node, blocks, Len(list))

AnyUsageInv ==
  /\ TypeOK
  /\ OwnersDistinct
  /\ Counted
  /\ OpenIsNeeded
  /\ EnoughNodes
  /\ HeadIsWritable

\* What a count says of the owners of a wrapper.
LEMMA CountFacts ==
  ASSUME AnyUsageInv, NEW w \in Wrappers
  PROVE  /\ Cardinality(Callers(registered, w)) \in Nat
         /\ IsFiniteSet(Callers(registered, w))
         /\ refs[w] = OwnerCount(held, w) + Cardinality(Callers(registered, w))
                      + LostCount(lost, w)
         /\ \A t \in Threads : registered[t] = w => Cardinality(Callers(registered, w)) > 0
         /\ file[w] = "free" =>
              /\ refs[w] = 0
              /\ w \notin lost
              /\ \A o \in Objects : held[o] # w
              /\ \A t \in Threads : registered[t] # w
<1>1. /\ IsFiniteSet(Callers(registered, w))
      /\ refs[w] = OwnerCount(held, w) + Cardinality(Callers(registered, w)) + LostCount(lost, w)
      /\ file[w] = "free" <=> refs[w] = 0
  BY DEF AnyUsageInv, Counted
<1>2. Cardinality(Callers(registered, w)) \in Nat
  BY <1>1, FS_CardinalityType
<1>3. ASSUME NEW t \in Threads, registered[t] = w
      PROVE  Cardinality(Callers(registered, w)) > 0
  <2> DEFINE callers == Callers(registered, w)
  <2>1. t \in callers
    BY <1>3 DEF Callers
  <2>2. IsFiniteSet(callers) /\ Cardinality(callers) \in Nat
    BY <1>1, <1>2
  <2> HIDE DEF callers
  <2>3. Cardinality(callers) # 0
    BY <2>1, <2>2, FS_EmptySet
  <2>4. QED
    BY <2>2, <2>3 DEF callers
<1>4. OwnerCount(held, w) \in Nat /\ LostCount(lost, w) \in Nat
  BY DEF OwnerCount, LostCount
<1>5. ASSUME file[w] = "free"
      PROVE  /\ refs[w] = 0 /\ OwnerCount(held, w) = 0 /\ LostCount(lost, w) = 0
             /\ Cardinality(Callers(registered, w)) = 0
  BY <1>1, <1>2, <1>4, <1>5
<1>6. ASSUME file[w] = "free"
      PROVE  /\ refs[w] = 0
             /\ w \notin lost
             /\ \A o \in Objects : held[o] # w
             /\ \A t \in Threads : registered[t] # w
  <2>1. w \notin lost
    BY <1>5, <1>6 DEF LostCount
  <2>2. \A o \in Objects : held[o] # w
    BY <1>5, <1>6 DEF OwnerCount
  <2>3. \A t \in Threads : registered[t] # w
    BY <1>2, <1>3, <1>5, <1>6
  <2>4. QED
    BY <1>5, <1>6, <2>1, <2>2, <2>3
<1>7. QED
  BY <1>1, <1>2, <1>3, <1>6

\* When t calls v instead of what it called, the callers of both change by one.
LEMMA CallersAfter ==
  ASSUME AnyUsageInv, NEW t \in Threads, NEW v \in Wrappers \cup {None},
         registered' = [registered EXCEPT ![t] = v]
  PROVE  \A x \in Wrappers :
           /\ IsFiniteSet(Callers(registered', x))
           /\ Cardinality(Callers(registered', x)) =
                Cardinality(Callers(registered, x))
                + (IF x = v THEN 1 ELSE 0) - (IF x = registered[t] THEN 1 ELSE 0)
<1> TAKE x \in Wrappers
<1> DEFINE old == Callers(registered, x)
           new == Callers(registered', x)
<1>0. registered'[t] = v /\ \A u \in Threads \ {t} : registered'[u] = registered[u]
  BY DEF AnyUsageInv, TypeOK
<1>1. t \in old <=> x = registered[t]
  BY <1>0 DEF Callers
<1>2. x = v => new = old \cup {t}
  BY <1>0 DEF Callers
<1>3. x # v => new = old \ {t}
  BY <1>0 DEF Callers
<1>4. IsFiniteSet(old)
  BY CountFacts
<1> HIDE DEF old, new
<1>5. Cardinality(old) \in Nat
  BY <1>4, FS_CardinalityType
<1>6. /\ IsFiniteSet(old \cup {t})
      /\ Cardinality(old \cup {t}) = IF t \in old THEN Cardinality(old) ELSE Cardinality(old) + 1
  BY <1>4, FS_AddElement
<1>7. /\ IsFiniteSet(old \ {t})
      /\ Cardinality(old \ {t}) = IF t \in old THEN Cardinality(old) - 1 ELSE Cardinality(old)
  BY <1>4, FS_RemoveElement
<1>8. CASE x = v
  <2>1. /\ IsFiniteSet(new)
        /\ Cardinality(new) = IF t \in old THEN Cardinality(old) ELSE Cardinality(old) + 1
    <3>1. new = old \cup {t}
      BY <1>2, <1>8
    <3> DEFINE added == old \cup {t}
    <3>2. new = added
      BY <3>1
    <3>3. IsFiniteSet(added) /\ Cardinality(added) = IF t \in old THEN Cardinality(old)
                                                    ELSE Cardinality(old) + 1
      BY <1>6
    <3> HIDE DEF added
    <3>4. QED
      BY <3>2, <3>3
  <2>2. QED
    BY <1>1, <1>5, <1>8, <2>1 DEF new, old
<1>9. CASE x # v
  <2>1. /\ IsFiniteSet(new)
        /\ Cardinality(new) = IF t \in old THEN Cardinality(old) - 1 ELSE Cardinality(old)
    <3>1. new = old \ {t}
      BY <1>3, <1>9
    <3> DEFINE rest == old \ {t}
    <3>2. new = rest
      BY <3>1
    <3>3. IsFiniteSet(rest) /\ Cardinality(rest) = IF t \in old THEN Cardinality(old) - 1
                                                   ELSE Cardinality(old)
      BY <1>7
    <3> HIDE DEF rest
    <3>4. QED
      BY <3>2, <3>3
  <2>2. QED
    BY <1>1, <1>5, <1>9, <2>1 DEF new, old
<1>10. QED
  BY <1>8, <1>9

\* No block, no node, no file and no reference at the start.
LEMMA AnyUsageInit == Init => AnyUsageInv
<1> SUFFICES ASSUME Init
             PROVE  AnyUsageInv
  OBVIOUS
<1>1. TypeOK /\ OwnersDistinct
  BY InitInvariant DEF IInv
<1>2. Counted
  <2> SUFFICES ASSUME NEW w \in Wrappers
               PROVE  /\ IsFiniteSet(Callers(registered, w))
                      /\ refs[w] = OwnerCount(held, w) + Cardinality(Callers(registered, w))
                                   + LostCount(lost, w)
                      /\ file[w] = "free" <=> refs[w] = 0
    BY DEF Counted
  <2> DEFINE callers == Callers(registered, w)
  <2>1. callers = {}
    BY NoneAssumption DEF Init, Callers
  <2>2. OwnerCount(held, w) = 0 /\ LostCount(lost, w) = 0
    BY NoneAssumption DEF Init, OwnerCount, LostCount
  <2>3. refs[w] = 0 /\ file[w] = "free"
    BY DEF Init
  <2> HIDE DEF callers
  <2>4. IsFiniteSet(callers) /\ Cardinality(callers) = 0
    BY <2>1, FS_EmptySet
  <2>5. QED
    BY <2>2, <2>3, <2>4 DEF callers
<1>3. OpenIsNeeded /\ HeadIsWritable
  BY DEF Init, OpenIsNeeded, HeadIsWritable
<1>4. EnoughNodes
  <2> DEFINE node == [t \in Threads |-> [i \in Nat |-> 0]]
  <2>1. node \in [Threads -> [Nat -> Nat]]
    OBVIOUS
  <2>2. \A t \in Threads : 1 .. Len(blocks[t]) = {}
    BY DEF Init
  <2>3. NodePerBlock(node, blocks, Len(list))
    BY <2>2 DEF NodePerBlock
  <2>4. QED
    BY <2>1, <2>3 DEF EnoughNodes
<1>5. QED
  BY <1>1, <1>2, <1>3, <1>4 DEF AnyUsageInv

\* Leaving a block without touching the list leaves a node for every other.
LEMMA NodesKept ==
  ASSUME EnoughNodes, UNCHANGED list,
         \A t \in Threads : \A i \in 1 .. Len(blocks'[t]) : i \in 1 .. Len(blocks[t])
  PROVE  EnoughNodes'
<1>1. PICK node \in [Threads -> [Nat -> Nat]] : NodePerBlock(node, blocks, Len(list))
  BY DEF EnoughNodes
<1>2. NodePerBlock(node, blocks', Len(list))
  BY <1>1 DEF NodePerBlock
<1>3. QED
  BY <1>2 DEF EnoughNodes

\* A sequence without its last element.
LEMMA FrontFacts ==
  ASSUME NEW S, NEW s \in Seq(S), s # <<>>
  PROVE  /\ Len(s) \in Nat \ {0} /\ s[Len(s)] \in S
         /\ SubSeq(s, 1, Len(s) - 1) \in Seq(S)
         /\ Len(SubSeq(s, 1, Len(s) - 1)) = Len(s) - 1
         /\ \A i \in 1 .. Len(s) - 1 : SubSeq(s, 1, Len(s) - 1)[i] = s[i]
<1>1. Len(s) \in Nat \ {0}
  OBVIOUS
<1>2. s[Len(s)] \in S
  BY <1>1
<1>3. /\ ll_pop(s) \in Seq(S) /\ Len(ll_pop(s)) = Len(s) - 1
      /\ \A i \in 1 .. Len(s) - 1 : ll_pop(s)[i] = s[i]
  BY PopFacts
<1>4. ll_pop(s) = SubSeq(s, 1, Len(s) - 1)
  BY DEF ll_pop
<1>5. QED
  BY <1>1, <1>2, <1>3, <1>4

\* The sequence of blocks without the innermost one.
LEMMA LeavingFacts ==
  ASSUME TypeOK, NEW t \in Threads, Leaving(t),
         blocks' = [blocks EXCEPT ![t] = SubSeq(@, 1, Len(@) - 1)]
  PROVE  /\ blocks' \in [Threads -> Seq(Objects)]
         /\ Len(blocks[t]) \in Nat \ {0}
         /\ Leaver(t) \in Objects /\ Leaver(t) = blocks[t][Len(blocks[t])]
         /\ Len(blocks'[t]) = Len(blocks[t]) - 1
         /\ \A u \in Threads : \A i \in 1 .. Len(blocks'[u]) :
              i \in 1 .. Len(blocks[u]) /\ blocks'[u][i] = blocks[u][i]
         /\ \A u \in Threads \ {t} : blocks'[u] = blocks[u]
         /\ \A o \in Objects \ {Leaver(t)} :
              (\E u \in Threads : InBlock(u, o)) => (\E u \in Threads : InBlock(u, o)')
<1>1. blocks \in [Threads -> Seq(Objects)] /\ blocks[t] \in Seq(Objects) /\ blocks[t] # <<>>
  BY DEF TypeOK, Leaving
<1> DEFINE s == blocks[t]
           rest == SubSeq(s, 1, Len(s) - 1)
<1>2. s \in Seq(Objects) /\ s # <<>>
  BY <1>1
<1>3. blocks'[t] = rest /\ \A u \in Threads \ {t} : blocks'[u] = blocks[u]
  BY <1>1
<1>4. Leaver(t) = s[Len(s)]
  BY DEF Leaver, Last
<1> HIDE DEF s
<1>5. /\ Len(s) \in Nat \ {0} /\ s[Len(s)] \in Objects
      /\ rest \in Seq(Objects) /\ Len(rest) = Len(s) - 1
      /\ \A i \in 1 .. Len(s) - 1 : rest[i] = s[i]
  BY <1>2, FrontFacts
<1> HIDE DEF rest
<1>6. blocks' \in [Threads -> Seq(Objects)]
  BY <1>1, <1>3, <1>5 DEF rest, s
<1>7. \A u \in Threads : \A i \in 1 .. Len(blocks'[u]) :
        i \in 1 .. Len(blocks[u]) /\ blocks'[u][i] = blocks[u][i]
  BY <1>3, <1>5 DEF s
<1>8. ASSUME NEW o \in Objects \ {Leaver(t)}, NEW u \in Threads, InBlock(u, o)
      PROVE  InBlock(u, o)'
  <2>1. PICK i \in 1 .. Len(blocks[u]) : blocks[u][i] = o
    BY <1>8 DEF InBlock
  <2>2. CASE u = t
    <3>1. i \in 1 .. Len(s) - 1
      BY <1>4, <1>5, <2>1, <2>2 DEF s
    <3>2. i \in 1 .. Len(blocks'[u]) /\ blocks'[u][i] = o
      BY <1>3, <1>5, <2>1, <2>2, <3>1 DEF s
    <3>3. QED
      BY <3>2 DEF InBlock
  <2>3. CASE u # t
    BY <1>3, <2>1, <2>3 DEF InBlock
  <2>4. QED
    BY <2>2, <2>3
<1>9. QED
  BY <1>3, <1>4, <1>5, <1>6, <1>7, <1>8 DEF s

\* __exit__ of an object that has no wrapper.
LEMMA ExitWithoutWrapperAnyUsage ==
  ASSUME AnyUsageInv, NEW t \in Threads, ExitWithoutWrapper(t)
  PROVE  AnyUsageInv'
<1>1. /\ Leaving(t) /\ held[Leaver(t)] = None
      /\ registered' = [registered EXCEPT ![t] = None]
      /\ refs' = SetTracer(refs, t, None) /\ file' = Dealloc(file, refs')
      /\ blocks' = [blocks EXCEPT ![t] = SubSeq(@, 1, Len(@) - 1)]
      /\ fault' \in {"release", "none"}
      /\ UNCHANGED <<kind, list, held, lost, event_number, marker>>
  BY DEF ExitWithoutWrapper
<1>2. TypeOK /\ OwnersDistinct
  BY DEF AnyUsageInv
<1>3. /\ refs \in [Wrappers -> Int] /\ registered \in [Threads -> Wrappers \cup {None}]
      /\ \A x \in Wrappers : file[x] \in {"free", "open", "closed"}
  BY <1>2 DEF TypeOK
<1>4. /\ refs' \in [Wrappers -> Int]
      /\ \A x \in Wrappers : refs'[x] = refs[x] - (IF x = registered[t] THEN 1 ELSE 0)
  BY <1>1, <1>3, SetTracerFacts, NoneAssumption
<1>5. /\ file' \in [Wrappers -> {"free", "open", "closed"}]
      /\ \A x \in Wrappers : file'[x] = IF refs'[x] = 0 THEN "free" ELSE file[x]
  BY <1>1, <1>3, DeallocFacts
<1>6. \A x \in Wrappers :
        /\ IsFiniteSet(Callers(registered', x))
        /\ Cardinality(Callers(registered', x)) =
             Cardinality(Callers(registered, x))
             + (IF x = None THEN 1 ELSE 0) - (IF x = registered[t] THEN 1 ELSE 0)
  <2>1. registered' = [registered EXCEPT ![t] = None] /\ None \in Wrappers \cup {None}
    BY <1>1
  <2>2. QED
    BY <2>1, CallersAfter
<1>7. \A x \in Wrappers :
        /\ refs'[x] = OwnerCount(held, x) + Cardinality(Callers(registered', x))
                      + LostCount(lost, x)
        /\ refs'[x] \in Nat
        /\ file'[x] = "free" <=> refs'[x] = 0
  <2> TAKE x \in Wrappers
  <2> DEFINE own == OwnerCount(held, x)
             was == Cardinality(Callers(registered, x))
             now == Cardinality(Callers(registered', x))
             gone == LostCount(lost, x)
  <2>1. own \in Nat /\ gone \in Nat
    BY DEF OwnerCount, LostCount
  <2>2. refs[x] = own + was + gone /\ was \in Nat /\ (registered[t] = x => was > 0)
        /\ (file[x] = "free" => refs[x] = 0)
    BY CountFacts
  <2>3. now = was - (IF x = registered[t] THEN 1 ELSE 0)
    <3>1. x # None
      BY NoneAssumption
    <3>2. QED
      BY <1>6, <2>2, <3>1
  <2> HIDE DEF own, was, now, gone
  <2>4. refs'[x] = own + now + gone /\ now \in Nat
    BY <1>4, <2>1, <2>2, <2>3
  <2>5. file'[x] = "free" => refs'[x] = 0
    BY <1>4, <1>5, <2>1, <2>2, <2>3, <2>4
  <2>6. QED
    BY <1>5, <2>1, <2>4, <2>5 DEF own, now, gone
<1>8. TypeOK'
  <2>1. refs' \in [Wrappers -> Nat]
    BY <1>4, <1>7
  <2>2. blocks' \in [Threads -> Seq(Objects)]
    BY <1>1, <1>2, LeavingFacts
  <2>3. registered' \in [Threads -> Wrappers \cup {None}]
    BY <1>1, <1>3
  <2>4. QED
    BY <1>1, <1>2, <1>5, <2>1, <2>2, <2>3 DEF TypeOK
<1>9. OwnersDistinct'
  <2>1. held' = held /\ lost' = lost
    BY <1>1
  <2>2. QED
    BY <1>2, <2>1 DEF OwnersDistinct
<1>10. Counted'
  <2>1. held' = held /\ lost' = lost
    BY <1>1
  <2>2. \A x \in Wrappers : IsFiniteSet(Callers(registered', x))
    BY <1>6
  <2>3. QED
    BY <1>7, <2>1, <2>2 DEF Counted, OwnerCount, LostCount
<1>11. OpenIsNeeded'
  <2> SUFFICES ASSUME NEW w \in Wrappers, file'[w] = "open"
               PROVE  w \in lost' \/ \E o \in Objects : held'[o] = w /\ \E u \in Threads : InBlock(u, o)'
    BY DEF OpenIsNeeded
  <2>1. file[w] = "open"
    BY <1>5
  <2>2. CASE w \in lost
    BY <1>1, <2>2
  <2>3. CASE \E o \in Objects : held[o] = w /\ \E u \in Threads : InBlock(u, o)
    <3>1. PICK o \in Objects : held[o] = w /\ \E u \in Threads : InBlock(u, o)
      BY <2>3
    <3>2. o # Leaver(t)
      BY <1>1, <3>1, NoneAssumption
    <3>3. \E u \in Threads : InBlock(u, o)'
      BY <1>1, <1>2, <3>1, <3>2, LeavingFacts
    <3>4. QED
      BY <1>1, <3>1, <3>3
  <2>4. QED
    BY <2>1, <2>2, <2>3 DEF AnyUsageInv, OpenIsNeeded
<1>12. EnoughNodes'
  <2>1. \A u \in Threads : \A i \in 1 .. Len(blocks'[u]) : i \in 1 .. Len(blocks[u])
    BY <1>1, <1>2, LeavingFacts
  <2>2. QED
    BY <1>1, <2>1, NodesKept DEF AnyUsageInv
<1>13. HeadIsWritable'
  <2> SUFFICES ASSUME list # <<>>
               PROVE  file'[ll_get(list)] = "open"
    BY <1>1 DEF HeadIsWritable
  <2> DEFINE h == ll_get(list)
  <2>1. h \in Wrappers
    BY <1>2, GetFacts DEF TypeOK
  <2>2. file[h] = "open"
    BY DEF AnyUsageInv, HeadIsWritable
  <2> HIDE DEF h
  <2>3. h \in lost \/ \E o \in Objects : held[o] = h
    BY <2>1, <2>2 DEF AnyUsageInv, OpenIsNeeded
  <2>4. OwnerCount(held, h) + LostCount(lost, h) > 0
        /\ OwnerCount(held, h) \in Nat /\ LostCount(lost, h) \in Nat
    BY <2>3 DEF OwnerCount, LostCount
  <2>5. Cardinality(Callers(registered', h)) \in Nat
    BY <1>6, <2>1, FS_CardinalityType
  <2>6. refs'[h] # 0
    BY <1>7, <2>1, <2>4, <2>5
  <2>7. QED
    BY <1>5, <2>1, <2>2, <2>6 DEF h
<1>14. QED
  BY <1>8, <1>9, <1>10, <1>11, <1>12, <1>13 DEF AnyUsageInv

\* Nothing that the counts and the list depend on changes.
LEMMA StutterAnyUsage ==
  ASSUME AnyUsageInv, TypeOK', UNCHANGED <<blocks, list, registered, held, file, refs, lost>>
  PROVE  AnyUsageInv'
<1>1. OwnersDistinct'
  BY DEF AnyUsageInv, OwnersDistinct
<1>2. Counted'
  BY DEF AnyUsageInv, Counted, OwnerCount, LostCount
<1>3. OpenIsNeeded'
  BY DEF AnyUsageInv, OpenIsNeeded, InBlock
<1>4. EnoughNodes' /\ HeadIsWritable'
  BY DEF AnyUsageInv, EnoughNodes, HeadIsWritable
<1>5. QED
  BY <1>1, <1>2, <1>3, <1>4 DEF AnyUsageInv

\* An event, whether or not it is written to a closed file.
LEMMA EventAnyUsage ==
  ASSUME AnyUsageInv, NEW t \in Threads, Event(t)
  PROVE  AnyUsageInv'
<1>1. TypeOK'
  <2>1. /\ registered[t] \in Wrappers
        /\ event_number[registered[t]] \in 0 .. MaxEvents
        /\ event_number[registered[t]] < MaxEvents
        /\ event_number' = [event_number EXCEPT ![registered[t]] = @ + 1]
    BY DEF AnyUsageInv, TypeOK, Event
  <2>2. event_number' \in [Wrappers -> 0 .. MaxEvents]
    BY <2>1, MaxEventsAssumption DEF AnyUsageInv, TypeOK
  <2>3. QED
    BY <2>2 DEF AnyUsageInv, TypeOK, Event
<1>2. QED
  BY <1>1, StutterAnyUsage DEF Event

\* An object forgets its wrapper, whose reference stays.
LEMMA EnterFailsAnyUsage ==
  ASSUME AnyUsageInv, NEW t \in Threads, NEW o \in Objects, EnterFails(t, o)
  PROVE  AnyUsageInv'
<1>1. /\ held' = [held EXCEPT ![o] = None]
      /\ lost' = IF held[o] = None THEN lost ELSE lost \cup {held[o]}
      /\ UNCHANGED <<kind, blocks, list, registered, file, refs, event_number, fault>>
  BY DEF EnterFails, ForgetHeld
<1>2. TypeOK /\ OwnersDistinct
  BY DEF AnyUsageInv
<1>3. held \in [Objects -> Wrappers \cup {None}] /\ lost \in SUBSET Wrappers
  BY <1>2 DEF TypeOK
<1>4. TypeOK'
  <2>1. marker' \in [Wrappers -> {"none", "start", "detach", "reattach", "end"}]
    BY <1>2 DEF TypeOK, EnterFails, DetachHead, Annotate
  <2>2. held' \in [Objects -> Wrappers \cup {None}] /\ lost' \in SUBSET Wrappers
    BY <1>1, <1>3
  <2>3. QED
    BY <1>1, <1>2, <2>1, <2>2 DEF TypeOK
<1>5. OwnersDistinct'
  BY <1>1, <1>2, <1>3, NoneAssumption DEF OwnersDistinct
<1>6. \A x \in Wrappers : OwnerCount(held', x) + LostCount(lost', x)
                            = OwnerCount(held, x) + LostCount(lost, x)
  <2> TAKE x \in Wrappers
  <2>1. CASE held[o] = x
    <3>1. /\ \A p \in Objects : held'[p] # x
          /\ x \in lost' /\ x \notin lost
      BY <1>1, <1>2, <1>3, <2>1, NoneAssumption DEF OwnersDistinct
    <3>2. QED
      BY <2>1, <3>1 DEF OwnerCount, LostCount
  <2>2. CASE held[o] # x
    <3>1. /\ \A p \in Objects : held'[p] = x <=> held[p] = x
          /\ x \in lost' <=> x \in lost
      BY <1>1, <1>3, <2>2, NoneAssumption
    <3>2. QED
      BY <3>1 DEF OwnerCount, LostCount
  <2>3. QED
    BY <2>1, <2>2
<1>7. Counted'
  <2> SUFFICES ASSUME NEW x \in Wrappers
               PROVE  refs[x] = OwnerCount(held', x) + Cardinality(Callers(registered, x))
                                + LostCount(lost', x)
    BY <1>1 DEF AnyUsageInv, Counted
  <2>1. /\ OwnerCount(held, x) \in Nat /\ LostCount(lost, x) \in Nat
        /\ OwnerCount(held', x) \in Nat /\ LostCount(lost', x) \in Nat
    BY DEF OwnerCount, LostCount
  <2>2. /\ Cardinality(Callers(registered, x)) \in Nat
        /\ refs[x] = OwnerCount(held, x) + Cardinality(Callers(registered, x))
                     + LostCount(lost, x)
    BY CountFacts
  <2>3. QED
    BY <1>6, <2>1, <2>2
<1>8. OpenIsNeeded'
  <2> SUFFICES ASSUME NEW w \in Wrappers, file[w] = "open"
               PROVE  w \in lost' \/ \E p \in Objects : held'[p] = w /\ \E u \in Threads : InBlock(u, p)'
    BY <1>1 DEF OpenIsNeeded
  <2>1. CASE w \in lost \/ held[o] = w
    BY <1>1, <2>1, NoneAssumption
  <2>2. CASE held[o] # w /\ \E p \in Objects : held[p] = w /\ \E u \in Threads : InBlock(u, p)
    BY <1>1, <1>3, <2>2 DEF InBlock
  <2>3. QED
    BY <2>1, <2>2 DEF AnyUsageInv, OpenIsNeeded
<1>9. EnoughNodes' /\ HeadIsWritable'
  BY <1>1 DEF AnyUsageInv, EnoughNodes, HeadIsWritable
<1>10. QED
  BY <1>4, <1>5, <1>7, <1>8, <1>9 DEF AnyUsageInv

\* An object that is in no block has no open file: its deallocation closes none.
LEMMA DeallocObjectAnyUsage ==
  ASSUME AnyUsageInv, NEW o \in Objects, DeallocObject(o)
  PROVE  AnyUsageInv'
<1>1. /\ held[o] # None /\ \A t \in Threads : ~ InBlock(t, o)
      /\ held' = [held EXCEPT ![o] = None]
      /\ refs' = Decref(refs, held[o]) /\ file' = Dealloc(file, refs')
      /\ UNCHANGED <<kind, blocks, list, registered, lost, event_number, marker, fault>>
  BY DEF DeallocObject
<1>2. TypeOK /\ OwnersDistinct
  BY DEF AnyUsageInv
<1>3. /\ held \in [Objects -> Wrappers \cup {None}] /\ held[o] \in Wrappers
      /\ refs \in [Wrappers -> Nat]
      /\ \A x \in Wrappers : file[x] \in {"free", "open", "closed"}
  BY <1>1, <1>2 DEF TypeOK
<1>4. /\ refs' \in [Wrappers -> Int]
      /\ \A x \in Wrappers : refs'[x] = refs[x] - (IF x = held[o] THEN 1 ELSE 0)
  BY <1>1, <1>3 DEF Decref
<1>5. /\ file' \in [Wrappers -> {"free", "open", "closed"}]
      /\ \A x \in Wrappers : file'[x] = IF refs'[x] = 0 THEN "free" ELSE file[x]
  BY <1>1, <1>3, DeallocFacts
<1>6. \A x \in Wrappers :
        OwnerCount(held', x) = OwnerCount(held, x) - (IF x = held[o] THEN 1 ELSE 0)
  <2> TAKE x \in Wrappers
  <2>1. CASE held[o] = x
    <3>1. \A p \in Objects : held'[p] # x
      BY <1>1, <1>2, <1>3, <2>1, NoneAssumption DEF OwnersDistinct
    <3>2. QED
      BY <2>1, <3>1 DEF OwnerCount
  <2>2. CASE held[o] # x
    <3>1. \A p \in Objects : held'[p] = x <=> held[p] = x
      BY <1>1, <1>3, <2>2, NoneAssumption
    <3>2. QED
      BY <2>2, <3>1 DEF OwnerCount
  <2>3. QED
    BY <2>1, <2>2
<1>7. \A x \in Wrappers :
        /\ refs'[x] = OwnerCount(held', x) + Cardinality(Callers(registered, x))
                      + LostCount(lost, x)
        /\ refs'[x] \in Nat
        /\ file'[x] = "free" <=> refs'[x] = 0
  <2> TAKE x \in Wrappers
  <2> DEFINE own == OwnerCount(held, x)
             ownNow == OwnerCount(held', x)
             callers == Cardinality(Callers(registered, x))
             gone == LostCount(lost, x)
  <2>1. own \in Nat /\ gone \in Nat /\ ownNow \in Nat
    BY DEF OwnerCount, LostCount
  <2>2. refs[x] = own + callers + gone /\ callers \in Nat /\ (file[x] = "free" => refs[x] = 0)
    BY CountFacts
  <2>3. ownNow = own - (IF x = held[o] THEN 1 ELSE 0)
    BY <1>6
  <2> HIDE DEF own, ownNow, callers, gone
  <2>4. refs'[x] = ownNow + callers + gone
    BY <1>4, <2>1, <2>2, <2>3
  <2>5. file'[x] = "free" => refs'[x] = 0
    BY <1>4, <1>5, <2>1, <2>2, <2>3, <2>4
  <2>6. QED
    BY <1>5, <2>1, <2>2, <2>4, <2>5 DEF ownNow, callers, gone
<1>8. TypeOK'
  <2>1. refs' \in [Wrappers -> Nat]
    BY <1>4, <1>7
  <2>2. held' \in [Objects -> Wrappers \cup {None}]
    BY <1>1, <1>3
  <2>3. QED
    BY <1>1, <1>2, <1>5, <2>1, <2>2 DEF TypeOK
<1>9. OwnersDistinct'
  <2>1. /\ \A p \in Objects : held'[p] = IF p = o THEN None ELSE held[p]
        /\ lost' = lost /\ None \notin lost
    BY <1>1, <1>2, <1>3, NoneAssumption DEF TypeOK
  <2>2. \A p, q \in Objects : held'[p] = held'[q] /\ held'[p] # None => p = q
    BY <1>2, <2>1 DEF OwnersDistinct
  <2>3. \A p \in Objects : held'[p] \notin lost'
    BY <1>2, <2>1 DEF OwnersDistinct
  <2>4. QED
    BY <2>2, <2>3 DEF OwnersDistinct
<1>10. Counted'
  <2> SUFFICES ASSUME NEW x \in Wrappers
               PROVE  /\ IsFiniteSet(Callers(registered', x))
                      /\ refs'[x] = OwnerCount(held', x) + Cardinality(Callers(registered', x))
                                    + LostCount(lost', x)
                      /\ file'[x] = "free" <=> refs'[x] = 0
    BY DEF Counted
  <2>1. IsFiniteSet(Callers(registered, x))
    BY CountFacts
  <2>2. registered' = registered /\ lost' = lost
    BY <1>1
  <2>3. QED
    BY <1>7, <2>1, <2>2
<1>11. ASSUME NEW w \in Wrappers, file[w] = "open"
       PROVE  /\ w # held[o] /\ file'[w] = "open"
              /\ w \in lost \/ \E p \in Objects : held'[p] = w /\ \E t \in Threads : InBlock(t, p)
  <2>1. w \in lost \/ \E p \in Objects : held[p] = w /\ \E t \in Threads : InBlock(t, p)
    BY <1>11 DEF AnyUsageInv, OpenIsNeeded
  <2>2. w # held[o]
    BY <1>1, <1>2, <1>3, <2>1 DEF OwnersDistinct
  <2>3. refs'[w] # 0
    BY <1>3, <1>4, <1>11, <2>2, CountFacts DEF AnyUsageInv, Counted
  <2>4. QED
    BY <1>1, <1>3, <1>5, <1>11, <2>1, <2>2, <2>3
<1>12. OpenIsNeeded'
  <2> SUFFICES ASSUME NEW w \in Wrappers, file'[w] = "open"
               PROVE  w \in lost' \/ \E p \in Objects : held'[p] = w /\ \E t \in Threads : InBlock(t, p)'
    BY DEF OpenIsNeeded
  <2>1. file[w] = "open"
    BY <1>5
  <2>2. QED
    BY <1>1, <1>11, <2>1 DEF InBlock
<1>13. EnoughNodes'
  BY <1>1 DEF AnyUsageInv, EnoughNodes
<1>14. HeadIsWritable'
  <2> SUFFICES ASSUME list # <<>>
               PROVE  file'[ll_get(list)] = "open"
    BY <1>1 DEF HeadIsWritable
  <2>1. ll_get(list) \in Wrappers
    BY <1>2, GetFacts DEF TypeOK
  <2>2. file[ll_get(list)] = "open"
    BY DEF AnyUsageInv, HeadIsWritable
  <2>3. QED
    BY <1>11, <2>1, <2>2
<1>15. QED
  BY <1>8, <1>9, <1>10, <1>12, <1>13, <1>14 DEF AnyUsageInv

\* Inside a with block the list is not empty.
LEMMA NodesInside ==
  ASSUME TypeOK, EnoughNodes, NEW t \in Threads, blocks[t] # <<>>
  PROVE  list # <<>>
<1>1. PICK node \in [Threads -> [Nat -> Nat]] : NodePerBlock(node, blocks, Len(list))
  BY DEF EnoughNodes
<1>2. blocks[t] \in Seq(Objects)
  BY DEF TypeOK
<1>3. 1 \in 1 .. Len(blocks[t])
  BY <1>2
<1>4. node[t][1] \in 1 .. Len(list)
  BY <1>1, <1>3 DEF NodePerBlock
<1>5. list = <<>> => 1 .. Len(list) = {}
  OBVIOUS
<1>6. QED
  BY <1>4, <1>5

\* Of the blocks inside, all but the one that has the node freed are in after,
\* and the block that had the n-th node gets that one.
HandedOver(node, inside, n, new, after, freed) ==
  /\ n \in Nat \ {0}
  /\ freed \in 1 .. n
  /\ \A u \in Threads : \A i \in 1 .. Len(after[u]) :
       /\ i \in 1 .. Len(inside[u]) /\ node[u][i] # freed
       /\ new[u][i] = IF node[u][i] = n THEN freed ELSE node[u][i]

\* Then the blocks do with one node less.
LEMMA NodeHandedOver ==
  ASSUME NEW inside, NEW after, NEW node, NEW new, NEW n, NEW freed,
         NodePerBlock(node, inside, n), HandedOver(node, inside, n, new, after, freed)
  PROVE  NodePerBlock(new, after, n - 1)
<1>1. n \in Nat \ {0} /\ freed \in 1 .. n
  BY DEF HandedOver
<1>2. ASSUME NEW u \in Threads, NEW i \in 1 .. Len(after[u])
      PROVE  /\ i \in 1 .. Len(inside[u])
             /\ node[u][i] \in 1 .. n /\ node[u][i] # freed
             /\ new[u][i] = IF node[u][i] = n THEN freed ELSE node[u][i]
  <2>1. i \in 1 .. Len(inside[u]) /\ node[u][i] # freed
        /\ new[u][i] = IF node[u][i] = n THEN freed ELSE node[u][i]
    BY DEF HandedOver
  <2>2. node[u][i] \in 1 .. n
    BY <2>1 DEF NodePerBlock
  <2>3. QED
    BY <2>1, <2>2
<1>3. ASSUME NEW u \in Threads, NEW i \in 1 .. Len(after[u])
      PROVE  new[u][i] \in 1 .. n - 1
  <2> DEFINE was == node[u][i]
             now == new[u][i]
  <2>1. was \in 1 .. n /\ was # freed /\ now = IF was = n THEN freed ELSE was
    BY <1>2
  <2> HIDE DEF was, now
  <2>2. now \in 1 .. n - 1
    BY <1>1, <2>1
  <2>3. QED
    BY <2>2 DEF now
<1>4. ASSUME NEW u \in Threads, NEW v \in Threads, NEW i \in 1 .. Len(after[u]),
             NEW j \in 1 .. Len(after[v]), new[u][i] = new[v][j]
      PROVE  u = v /\ i = j
  <2>1. i \in 1 .. Len(inside[u]) /\ node[u][i] # freed
        /\ new[u][i] = IF node[u][i] = n THEN freed ELSE node[u][i]
    BY <1>2
  <2>2. j \in 1 .. Len(inside[v]) /\ node[v][j] # freed
        /\ new[v][j] = IF node[v][j] = n THEN freed ELSE node[v][j]
    BY <1>2
  <2>3. node[u][i] = node[v][j]
    BY <1>4, <2>1, <2>2
  <2>4. QED
    BY <2>1, <2>2, <2>3 DEF NodePerBlock
<1>5. QED
  BY <1>3, <1>4 DEF NodePerBlock

\* Blocks that differ have nodes that differ.
LEMMA NodesDiffer ==
  ASSUME NEW node, NEW inside, NEW n, NodePerBlock(node, inside, n),
         NEW u \in Threads, NEW i \in 1 .. Len(inside[u]),
         NEW v \in Threads, NEW j \in 1 .. Len(inside[v]), ~ (u = v /\ i = j)
  PROVE  node[u][i] # node[v][j]
BY DEF NodePerBlock

\* Popping a list that is not empty leaves one node less.
LEMMA PoppedLength ==
  ASSUME NEW l \in Seq(Wrappers), l # <<>>
  PROVE  Len(l) \in Nat \ {0} /\ Len(ll_pop(l)) = Len(l) - 1
<1>1. Len(l) \in Nat \ {0}
  OBVIOUS
<1>2. Len(ll_pop(l)) = Len(l) - 1
  BY PopFacts
<1>3. QED
  BY <1>1, <1>2

\* When a block is left and the head is popped, a node remains for each block.
LEMMA NodesPopped ==
  ASSUME TypeOK, EnoughNodes, NEW t \in Threads, Leaving(t),
         blocks' = [blocks EXCEPT ![t] = SubSeq(@, 1, Len(@) - 1)],
         list' = ll_pop(list)
  PROVE  EnoughNodes'
<1> DEFINE n == Len(list)
           last == Len(blocks[t])
<1>1. PICK node \in [Threads -> [Nat -> Nat]] : NodePerBlock(node, blocks, n)
  BY DEF EnoughNodes
<1>2. n \in Nat \ {0} /\ Len(list') = n - 1
  <2>1. list \in Seq(Wrappers) /\ list # <<>>
    BY NodesInside DEF TypeOK, Leaving
  <2>2. Len(ll_pop(list)) = Len(list) - 1 /\ Len(list) \in Nat \ {0}
    BY <2>1, PoppedLength
  <2>3. QED
    BY <2>2
<1>3. last \in Nat \ {0} /\ Len(blocks'[t]) = last - 1
      /\ \A u \in Threads : \A i \in 1 .. Len(blocks'[u]) : i \in 1 .. Len(blocks[u])
  BY LeavingFacts
<1> HIDE DEF n, last
<1>4. last \in 1 .. Len(blocks[t])
  BY <1>3 DEF last
<1>5. \A u \in Threads : \A i \in 1 .. Len(blocks'[u]) :
        i \in 1 .. Len(blocks[u]) /\ ~ (u = t /\ i = last)
  <2> TAKE u \in Threads
  <2> TAKE i \in 1 .. Len(blocks'[u])
  <2>1. i \in 1 .. Len(blocks[u])
    BY <1>3
  <2>2. u = t => i \in 1 .. last - 1
    BY <1>3
  <2>3. u = t => i # last
    BY <1>3, <2>2
  <2>4. QED
    BY <2>1, <2>3
<1> DEFINE freed == node[t][last]
           new == [u \in Threads |-> [i \in Nat |-> IF node[u][i] = n THEN freed ELSE node[u][i]]]
<1>6. freed \in 1 .. n
  BY <1>1, <1>4 DEF NodePerBlock
<1>7. new \in [Threads -> [Nat -> Nat]]
  <2>1. freed \in Nat
    BY <1>3
  <2> HIDE DEF freed
  <2>2. QED
    BY <2>1
<1>8. \A u \in Threads : \A i \in 1 .. Len(blocks'[u]) :
        /\ i \in 1 .. Len(blocks[u]) /\ node[u][i] # freed
        /\ new[u][i] = IF node[u][i] = n THEN freed ELSE node[u][i]
  <2> TAKE u \in Threads
  <2> TAKE i \in 1 .. Len(blocks'[u])
  <2>1. i \in 1 .. Len(blocks[u]) /\ ~ (u = t /\ i = last)
    BY <1>5
  <2>2. node[u][i] # node[t][last]
    BY <1>1, <1>4, <2>1, NodesDiffer
  <2>3. i \in Nat
    OBVIOUS
  <2>4. new[u][i] = IF node[u][i] = n THEN freed ELSE node[u][i]
    BY <2>3
  <2>5. QED
    BY <2>1, <2>2, <2>4
<1> HIDE DEF freed, new
<1>9. HandedOver(node, blocks, n, new, blocks', freed)
  BY <1>2, <1>6, <1>8 DEF HandedOver
<1>10. NodePerBlock(new, blocks', n - 1)
  BY <1>1, <1>9, NodeHandedOver
<1>11. NodePerBlock(new, blocks', Len(list'))
  BY <1>2, <1>10
<1>12. QED
  BY <1>7, <1>11 DEF EnoughNodes

\* __exit__ of an object that has a wrapper: which may not be the one that is
\* popped, and may be one whose file is closed already.
LEMMA ExitAnyUsage ==
  ASSUME AnyUsageInv, NEW t \in Threads, Leaving(t), held[Leaver(t)] # None, Exit(t),
         blocks' = [blocks EXCEPT ![t] = SubSeq(@, 1, Len(@) - 1)],
         UNCHANGED <<kind, held, lost, event_number, fault>>
  PROVE  AnyUsageInv'
<1> DEFINE w == held[Leaver(t)]
           head == ll_get(ll_pop(list))
           refs1 == SetTracer(refs, t, None)
           file1 == CloseFile(file, w)
<1>1. /\ head # None => file1[head] = "open" /\ refs1[head] > 0
      /\ list' = ll_pop(list)
      /\ registered' = [registered EXCEPT ![t] = head]
      /\ refs' = Incref(refs1, head)
      /\ file' = Dealloc(file1, refs')
      /\ marker' = Annotate([marker EXCEPT ![w] = "end"], head, "reattach")
  BY DEF Exit
<1>2. TypeOK /\ OwnersDistinct
  BY DEF AnyUsageInv
<1>3. /\ refs \in [Wrappers -> Int] /\ registered \in [Threads -> Wrappers \cup {None}]
      /\ file \in [Wrappers -> {"free", "open", "closed"}]
      /\ list \in Seq(Wrappers) /\ held \in [Objects -> Wrappers \cup {None}]
  BY <1>2 DEF TypeOK
<1>4. Leaver(t) \in Objects /\ w \in Wrappers
  BY <1>2, <1>3, LeavingFacts
<1>5. list # <<>>
  BY <1>2, NodesInside DEF AnyUsageInv, Leaving
<1>6. /\ ll_pop(list) \in Seq(Wrappers) /\ head \in Wrappers \cup {None}
      /\ ll_pop(list) # <<>> => head \in Wrappers
  BY <1>3, <1>5, PopFacts, GetFacts DEF ll_get
<1> HIDE DEF refs1, file1, head, w
<1>7. \A x \in Wrappers : file1[x] = IF x = w THEN "closed" ELSE file[x]
  BY <1>3, <1>4 DEF CloseFile, file1
<1>8. /\ refs1 \in [Wrappers -> Int]
      /\ \A x \in Wrappers : refs1[x] = refs[x] - (IF x = registered[t] THEN 1 ELSE 0)
  BY <1>2, ReleaseFacts DEF refs1
<1>9. /\ refs' \in [Wrappers -> Int]
      /\ \A x \in Wrappers : refs'[x] = refs1[x] + (IF x = head THEN 1 ELSE 0)
  BY <1>1, <1>6, <1>8, NoneAssumption DEF Incref
<1>10. /\ file' \in [Wrappers -> {"free", "open", "closed"}]
       /\ \A x \in Wrappers : file'[x] = IF refs'[x] = 0 THEN "free" ELSE file1[x]
  <2>1. \A x \in Wrappers : file1[x] \in {"free", "open", "closed"}
    BY <1>3, <1>7
  <2>2. QED
    BY <1>1, <2>1, DeallocFacts
<1>11. \A x \in Wrappers :
         /\ IsFiniteSet(Callers(registered', x))
         /\ Cardinality(Callers(registered', x)) =
              Cardinality(Callers(registered, x))
              + (IF x = head THEN 1 ELSE 0) - (IF x = registered[t] THEN 1 ELSE 0)
  BY <1>1, <1>6, CallersAfter
<1>12. \A x \in Wrappers :
         /\ refs'[x] = OwnerCount(held, x) + Cardinality(Callers(registered', x))
                       + LostCount(lost, x)
         /\ refs'[x] \in Nat
         /\ file'[x] = "free" <=> refs'[x] = 0
  <2> TAKE x \in Wrappers
  <2> DEFINE own == OwnerCount(held, x)
             was == Cardinality(Callers(registered, x))
             now == Cardinality(Callers(registered', x))
             gone == LostCount(lost, x)
  <2>1. own \in Nat /\ gone \in Nat
    BY DEF OwnerCount, LostCount
  <2>2. refs[x] = own + was + gone /\ was \in Nat /\ (registered[t] = x => was > 0)
        /\ (file[x] = "free" => refs[x] = 0)
    BY CountFacts
  <2>3. now = was + (IF x = head THEN 1 ELSE 0) - (IF x = registered[t] THEN 1 ELSE 0)
    BY <1>11
  <2>4. x = head => refs1[x] > 0
    BY <1>1, NoneAssumption
  <2> HIDE DEF own, was, now, gone
  <2>5. refs'[x] = own + now + gone /\ now \in Nat
    <3> DEFINE plus == IF x = head THEN 1 ELSE 0
               minus == IF x = registered[t] THEN 1 ELSE 0
    <3>1. plus \in {0, 1} /\ minus \in {0, 1} /\ (minus = 1 => was > 0)
      BY <2>2
    <3>2. refs'[x] = refs[x] - minus + plus
      BY <1>8, <1>9
    <3>3. now = was + plus - minus
      BY <2>3
    <3> HIDE DEF plus, minus
    <3>4. QED
      BY <2>1, <2>2, <3>1, <3>2, <3>3
  <2>6. file1[x] = "free" => refs'[x] = 0
    <3> SUFFICES ASSUME file1[x] = "free" PROVE refs'[x] = 0
      OBVIOUS
    <3>1. file[x] = "free"
      BY <1>7
    <3>2. refs[x] = 0 /\ was = 0
      BY <2>1, <2>2, <3>1
    <3>3. x # registered[t]
      BY <2>2, <3>2
    <3>4. refs1[x] = 0
      BY <1>8, <3>2, <3>3
    <3>5. x # head
      BY <2>4, <3>4
    <3>6. QED
      BY <1>9, <3>4, <3>5
  <2>7. QED
    BY <1>10, <2>1, <2>5, <2>6 DEF own, now, gone
<1>13. TypeOK'
  <2>1. refs' \in [Wrappers -> Nat]
    BY <1>9, <1>12
  <2>2. blocks' \in [Threads -> Seq(Objects)]
    BY <1>2, LeavingFacts
  <2>3. registered' \in [Threads -> Wrappers \cup {None}]
    BY <1>1, <1>3, <1>6
  <2>4. marker' \in [Wrappers -> {"none", "start", "detach", "reattach", "end"}]
    BY <1>1, <1>2, <1>4, <1>6 DEF TypeOK, Annotate
  <2>5. QED
    BY <1>1, <1>2, <1>6, <1>10, <2>1, <2>2, <2>3, <2>4 DEF TypeOK
<1>14. OwnersDistinct'
  BY <1>2 DEF OwnersDistinct
<1>15. Counted'
  BY <1>11, <1>12 DEF Counted, OwnerCount, LostCount
<1>16. OpenIsNeeded'
  <2> SUFFICES ASSUME NEW x \in Wrappers, file'[x] = "open"
               PROVE  x \in lost' \/ \E o \in Objects : held'[o] = x /\ \E u \in Threads : InBlock(u, o)'
    BY DEF OpenIsNeeded
  <2>1. file[x] = "open" /\ x # w
    BY <1>7, <1>10
  <2>2. CASE \E o \in Objects : held[o] = x /\ \E u \in Threads : InBlock(u, o)
    <3>1. PICK o \in Objects : held[o] = x /\ \E u \in Threads : InBlock(u, o)
      BY <2>2
    <3>2. o # Leaver(t)
      BY <2>1, <3>1 DEF w
    <3>3. \E u \in Threads : InBlock(u, o)'
      BY <1>2, <3>1, <3>2, LeavingFacts
    <3>4. QED
      BY <3>1, <3>3
  <2>3. QED
    BY <2>1, <2>2 DEF AnyUsageInv, OpenIsNeeded
<1>17. EnoughNodes'
  BY <1>1, <1>2, NodesPopped DEF AnyUsageInv
<1>18. HeadIsWritable'
  <2> SUFFICES ASSUME ll_pop(list) # <<>>
               PROVE  file'[head] = "open"
    BY <1>1 DEF HeadIsWritable, head
  <2>1. head \in Wrappers /\ file1[head] = "open" /\ refs1[head] > 0
    BY <1>1, <1>6, NoneAssumption
  <2>2. refs'[head] # 0
    BY <1>8, <1>9, <2>1
  <2>3. QED
    BY <1>10, <2>1, <2>2
<1>19. QED
  BY <1>13, <1>14, <1>15, <1>16, <1>17, <1>18 DEF AnyUsageInv

\* A new block gets the new node.
Added(node, inside, n, new, after, t, last) ==
  /\ n \in Nat
  /\ \A u \in Threads : \A i \in 1 .. Len(after[u]) :
       \/ u = t /\ i = last /\ new[u][i] = n + 1
       \/ i \in 1 .. Len(inside[u]) /\ new[u][i] = node[u][i]

\* Then the blocks need one node more.
LEMMA NodeAdded ==
  ASSUME NEW inside, NEW after, NEW node, NEW new, NEW n, NEW t, NEW last,
         NodePerBlock(node, inside, n), Added(node, inside, n, new, after, t, last)
  PROVE  NodePerBlock(new, after, n + 1)
<1>0. n \in Nat
  BY DEF Added
<1>1. ASSUME NEW u \in Threads, NEW i \in 1 .. Len(after[u])
      PROVE  \/ u = t /\ i = last /\ new[u][i] = n + 1
             \/ /\ i \in 1 .. Len(inside[u])
                /\ new[u][i] = node[u][i] /\ new[u][i] \in 1 .. n
  <2>1. CASE u = t /\ i = last /\ new[u][i] = n + 1
    BY <2>1
  <2>2. CASE i \in 1 .. Len(inside[u]) /\ new[u][i] = node[u][i]
    <3>1. node[u][i] \in 1 .. n
      BY <2>2 DEF NodePerBlock
    <3>2. QED
      BY <2>2, <3>1
  <2>3. QED
    BY <2>1, <2>2 DEF Added
<1>2. ASSUME NEW u \in Threads, NEW i \in 1 .. Len(after[u])
      PROVE  new[u][i] \in 1 .. n + 1
  BY <1>0, <1>1
<1>3. ASSUME NEW u \in Threads, NEW v \in Threads, NEW i \in 1 .. Len(after[u]),
             NEW j \in 1 .. Len(after[v]), new[u][i] = new[v][j]
      PROVE  u = v /\ i = j
  <2>1. CASE new[u][i] = n + 1
    <3>1. new[u][i] \notin 1 .. n /\ new[v][j] \notin 1 .. n
      BY <1>0, <1>3, <2>1
    <3>2. u = t /\ i = last
      BY <1>1, <3>1
    <3>3. v = t /\ j = last
      BY <1>1, <3>1
    <3>4. QED
      BY <3>2, <3>3
  <2>2. CASE new[u][i] # n + 1
    <3>1. i \in 1 .. Len(inside[u]) /\ new[u][i] = node[u][i]
      BY <1>1, <2>2
    <3>2. j \in 1 .. Len(inside[v]) /\ new[v][j] = node[v][j]
      BY <1>1, <1>3, <2>2
    <3>3. node[u][i] = node[v][j]
      BY <1>3, <3>1, <3>2
    <3>4. QED
      BY <3>1, <3>2, <3>3 DEF NodePerBlock
  <2>3. QED
    BY <2>1, <2>2
<1>4. QED
  BY <1>2, <1>3 DEF NodePerBlock

\* When a block is entered and a node is pushed, there is a node for each block.
LEMMA NodesPushed ==
  ASSUME TypeOK, EnoughNodes, NEW t \in Threads, NEW o \in Objects, NEW w \in Wrappers,
         blocks' = [blocks EXCEPT ![t] = Append(@, o)], list' = ll_push(list, w)
  PROVE  EnoughNodes'
<1> DEFINE n == Len(list)
           last == Len(blocks[t]) + 1
<1>1. PICK node \in [Threads -> [Nat -> Nat]] : NodePerBlock(node, blocks, n)
  BY DEF EnoughNodes
<1>2. n \in Nat /\ Len(list') = n + 1
  BY PushFacts DEF TypeOK
<1>3. blocks[t] \in Seq(Objects) /\ \A u \in Threads : Len(blocks[u]) \in Nat
  BY DEF TypeOK
<1>4. blocks'[t] = Append(blocks[t], o) /\ \A u \in Threads \ {t} : blocks'[u] = blocks[u]
  BY DEF TypeOK
<1>5. Len(blocks'[t]) = Len(blocks[t]) + 1
  BY <1>3, <1>4
<1>6. last \in Nat
  BY <1>3
<1>7. \A u \in Threads : \A i \in 1 .. Len(blocks'[u]) :
        i \in Nat /\ (i \in 1 .. Len(blocks[u]) \/ (u = t /\ i = last))
  <2> TAKE u \in Threads
  <2> TAKE i \in 1 .. Len(blocks'[u])
  <2> DEFINE k == Len(blocks[u])
  <2>1. CASE u = t
    <3>1. k \in Nat /\ last = k + 1 /\ i \in 1 .. k + 1
      BY <1>3, <1>5, <2>1
    <3> HIDE DEF k, last
    <3>2. i \in Nat /\ (i \in 1 .. k \/ i = last)
      BY <3>1
    <3>3. QED
      BY <2>1, <3>2 DEF k
  <2>2. CASE u # t
    <3>1. k \in Nat /\ i \in 1 .. k
      BY <1>3, <1>4, <2>2
    <3> HIDE DEF k, last
    <3>2. i \in Nat
      BY <3>1
    <3>3. QED
      BY <3>1, <3>2 DEF k
  <2>3. QED
    BY <2>1, <2>2
<1> HIDE DEF n, last
<1> DEFINE new == [u \in Threads |->
                     [i \in Nat |-> IF u = t /\ i = last THEN n + 1 ELSE node[u][i]]]
<1>8. new \in [Threads -> [Nat -> Nat]]
  BY <1>2
<1>9. \A u \in Threads : \A i \in Nat :
        new[u][i] = IF u = t /\ i = last THEN n + 1 ELSE node[u][i]
  OBVIOUS
<1> HIDE DEF new
<1>10. \A u \in Threads : \A i \in 1 .. Len(blocks'[u]) :
         \/ u = t /\ i = last /\ new[u][i] = n + 1
         \/ i \in 1 .. Len(blocks[u]) /\ new[u][i] = node[u][i]
  BY <1>7, <1>9
<1>11. Added(node, blocks, n, new, blocks', t, last)
  BY <1>2, <1>10 DEF Added
<1>12. NodePerBlock(new, blocks', n + 1)
  BY <1>1, <1>11, NodeAdded
<1>13. NodePerBlock(new, blocks', Len(list'))
  BY <1>2, <1>12
<1>14. QED
  BY <1>8, <1>13 DEF EnoughNodes

\* __enter__: the memory of the new wrapper has no owner left.
LEMMA EnterAnyUsage ==
  ASSUME AnyUsageInv, NEW t \in Threads, NEW o \in Objects, Enter(t, o)
  PROVE  AnyUsageInv'
<1>1. PICK w \in Wrappers :
        /\ Allocatable(w)
        /\ refs' = SetTracer([refs EXCEPT ![w] = 1], t, w)
        /\ file' = Dealloc([file EXCEPT ![w] = "open"], refs')
        /\ marker' = [DetachHead(marker) EXCEPT ![w] = "start"]
        /\ event_number' = [event_number EXCEPT ![w] = 1]
        /\ list' = ll_push(list, w)
        /\ registered' = [registered EXCEPT ![t] = w]
        /\ held' = [held EXCEPT ![o] = w]
  BY DEF Enter
<1>2. /\ blocks' = [blocks EXCEPT ![t] = Append(@, o)]
      /\ lost' = IF held[o] = None THEN lost ELSE lost \cup {held[o]}
      /\ UNCHANGED <<kind, fault>>
  BY DEF Enter, ForgetHeld
<1>3. TypeOK /\ OwnersDistinct
  BY DEF AnyUsageInv
<1>4. /\ refs \in [Wrappers -> Nat] /\ registered \in [Threads -> Wrappers \cup {None}]
      /\ file \in [Wrappers -> {"free", "open", "closed"}] /\ lost \in SUBSET Wrappers
      /\ list \in Seq(Wrappers) /\ held \in [Objects -> Wrappers \cup {None}]
      /\ blocks \in [Threads -> Seq(Objects)]
  BY <1>3 DEF TypeOK
<1>5. /\ refs[w] = 0 /\ w \notin lost /\ \A p \in Objects : held[p] # w
      /\ \A u \in Threads : registered[u] # w
  BY <1>1, CountFacts DEF Allocatable
<1> DEFINE refs1 == [refs EXCEPT ![w] = 1]
           file1 == [file EXCEPT ![w] = "open"]
<1>6. /\ refs1 \in [Wrappers -> Int]
      /\ \A x \in Wrappers : /\ refs1[x] = IF x = w THEN 1 ELSE refs[x]
                             /\ file1[x] = IF x = w THEN "open" ELSE file[x]
                             /\ file1[x] \in {"free", "open", "closed"}
  BY <1>4
<1>7. refs' = SetTracer(refs1, t, w) /\ file' = Dealloc(file1, refs')
  BY <1>1
<1> HIDE DEF refs1, file1
<1>8. /\ refs' \in [Wrappers -> Int]
      /\ \A x \in Wrappers : refs'[x] = refs1[x] + (IF x = w THEN 1 ELSE 0)
                                         - (IF x = registered[t] THEN 1 ELSE 0)
  BY <1>4, <1>6, <1>7, SetTracerFacts
<1>9. /\ file' \in [Wrappers -> {"free", "open", "closed"}]
      /\ \A x \in Wrappers : file'[x] = IF refs'[x] = 0 THEN "free" ELSE file1[x]
  BY <1>6, <1>7, DeallocFacts
<1>10. \A x \in Wrappers :
         /\ IsFiniteSet(Callers(registered', x))
         /\ Cardinality(Callers(registered', x)) =
              Cardinality(Callers(registered, x))
              + (IF x = w THEN 1 ELSE 0) - (IF x = registered[t] THEN 1 ELSE 0)
  BY <1>1, CallersAfter
<1>11. \A x \in Wrappers :
         OwnerCount(held', x) + LostCount(lost', x)
           = OwnerCount(held, x) + LostCount(lost, x) + (IF x = w THEN 1 ELSE 0)
  <2> TAKE x \in Wrappers
  <2>1. CASE x = w
    <3>1. held'[o] = x /\ x \notin lost'
      BY <1>1, <1>2, <1>4, <1>5, <2>1
    <3>2. OwnerCount(held', x) = 1 /\ LostCount(lost', x) = 0
      BY <3>1 DEF OwnerCount, LostCount
    <3>3. OwnerCount(held, x) = 0 /\ LostCount(lost, x) = 0
      BY <1>5, <2>1 DEF OwnerCount, LostCount
    <3>4. QED
      BY <2>1, <3>2, <3>3
  <2>2. CASE x # w /\ held[o] = x
    <3>1. /\ \A p \in Objects : held'[p] # x
          /\ x \in lost' /\ x \notin lost
      BY <1>1, <1>2, <1>3, <1>4, <2>2, NoneAssumption DEF OwnersDistinct
    <3>2. QED
      BY <2>2, <3>1 DEF OwnerCount, LostCount
  <2>3. CASE x # w /\ held[o] # x
    <3>1. /\ \A p \in Objects : held'[p] = x <=> held[p] = x
          /\ x \in lost' <=> x \in lost
      BY <1>1, <1>2, <1>4, <2>3, NoneAssumption
    <3>2. QED
      BY <2>3, <3>1 DEF OwnerCount, LostCount
  <2>4. QED
    BY <2>1, <2>2, <2>3
<1>12. \A x \in Wrappers :
         /\ refs'[x] = OwnerCount(held', x) + Cardinality(Callers(registered', x))
                       + LostCount(lost', x)
         /\ refs'[x] \in Nat
         /\ file'[x] = "free" <=> refs'[x] = 0
         /\ x = w => refs'[x] # 0
  <2> TAKE x \in Wrappers
  <2> DEFINE own == OwnerCount(held, x)
             ownNow == OwnerCount(held', x)
             was == Cardinality(Callers(registered, x))
             now == Cardinality(Callers(registered', x))
             gone == LostCount(lost, x)
             goneNow == LostCount(lost', x)
  <2>1. own \in Nat /\ gone \in Nat /\ ownNow \in Nat /\ goneNow \in Nat
    BY DEF OwnerCount, LostCount
  <2>2. refs[x] = own + was + gone /\ was \in Nat /\ (registered[t] = x => was > 0)
        /\ (file[x] = "free" => refs[x] = 0)
    BY CountFacts
  <2>3. now = was + (IF x = w THEN 1 ELSE 0) - (IF x = registered[t] THEN 1 ELSE 0)
    BY <1>10
  <2>4. ownNow + goneNow = own + gone + (IF x = w THEN 1 ELSE 0)
    BY <1>11
  <2>5. x = w => refs[x] = 0 /\ x # registered[t]
    BY <1>5
  <2> HIDE DEF own, ownNow, was, now, gone, goneNow
  <2>6. refs'[x] = ownNow + now + goneNow /\ now \in Nat
    <3>1. CASE x = w
      <4>1. refs'[x] = 2 /\ own = 0 /\ was = 0 /\ gone = 0
        BY <1>6, <1>8, <2>1, <2>2, <2>5, <3>1
      <4>2. QED
        BY <2>1, <2>3, <2>4, <2>5, <3>1, <4>1
    <3>2. CASE x # w
      <4>1. refs'[x] = own + was + gone - (IF x = registered[t] THEN 1 ELSE 0)
        <5> DEFINE minus == IF x = registered[t] THEN 1 ELSE 0
        <5>1. refs1[x] = own + was + gone
          BY <1>6, <2>2, <3>2
        <5>2. refs1[x] \in Int
          BY <1>6
        <5>3. refs'[x] = refs1[x] - minus
          BY <1>8, <3>2, <5>2
        <5>4. minus \in {0, 1}
          OBVIOUS
        <5> HIDE DEF minus
        <5>5. refs'[x] = own + was + gone - minus
          BY <2>1, <2>2, <5>1, <5>3, <5>4
        <5>6. QED
          BY <5>5 DEF minus
      <4>2. QED
        BY <2>1, <2>2, <2>3, <2>4, <3>2, <4>1
    <3>3. QED
      BY <3>1, <3>2
  <2>7. x = w => refs'[x] = 2
    BY <1>6, <1>8, <2>5
  <2>8. file1[x] = "free" => refs'[x] = 0
    BY <1>6, <1>8, <2>1, <2>2, <2>5
  <2>9. QED
    BY <1>9, <2>1, <2>6, <2>7, <2>8 DEF ownNow, now, goneNow
<1>13. TypeOK'
  <2>1. refs' \in [Wrappers -> Nat]
    BY <1>8, <1>12
  <2>2. blocks' \in [Threads -> Seq(Objects)]
    BY <1>2, <1>4
  <2>3. /\ registered' \in [Threads -> Wrappers \cup {None}]
        /\ held' \in [Objects -> Wrappers \cup {None}] /\ lost' \in SUBSET Wrappers
    BY <1>1, <1>2, <1>4
  <2>4. list' \in Seq(Wrappers)
    BY <1>1, <1>4, PushFacts
  <2>5. event_number' \in [Wrappers -> 0 .. MaxEvents]
    BY <1>1, <1>3, MaxEventsAssumption DEF TypeOK
  <2>6. marker' \in [Wrappers -> {"none", "start", "detach", "reattach", "end"}]
    BY <1>1, <1>3 DEF TypeOK, DetachHead, Annotate
  <2>7. QED
    BY <1>2, <1>3, <1>9, <2>1, <2>2, <2>3, <2>4, <2>5, <2>6 DEF TypeOK
<1>14. OwnersDistinct'
  <2>1. \A p, q \in Objects : held'[p] = held'[q] /\ held'[p] # None => p = q
    BY <1>1, <1>3, <1>4, <1>5 DEF OwnersDistinct
  <2>2. \A p \in Objects : held'[p] \notin lost'
    <3> TAKE p \in Objects
    <3>1. CASE p = o
      BY <1>1, <1>2, <1>4, <1>5, <3>1
    <3>2. CASE p # o
      BY <1>1, <1>2, <1>3, <1>4, <3>2 DEF OwnersDistinct
    <3>3. QED
      BY <3>1, <3>2
  <2>3. QED
    BY <2>1, <2>2 DEF OwnersDistinct
<1>15. Counted'
  BY <1>10, <1>12 DEF Counted
<1>16. OpenIsNeeded'
  <2> SUFFICES ASSUME NEW x \in Wrappers, file'[x] = "open"
               PROVE  x \in lost' \/ \E p \in Objects : held'[p] = x /\ \E u \in Threads : InBlock(u, p)'
    BY DEF OpenIsNeeded
  <2>1. \A u \in Threads : \A p \in Objects :
          InBlock(u, p) \/ (u = t /\ p = o) => InBlock(u, p)'
    <3> TAKE u \in Threads
    <3> TAKE p \in Objects
    <3>1. blocks[t] \in Seq(Objects) /\ blocks'[t] = Append(blocks[t], o)
          /\ \A v \in Threads \ {t} : blocks'[v] = blocks[v]
      BY <1>2, <1>4
    <3>2. /\ Len(blocks[t]) \in Nat /\ Len(blocks'[t]) = Len(blocks[t]) + 1
          /\ blocks'[t][Len(blocks[t]) + 1] = o
          /\ \A i \in 1 .. Len(blocks[t]) : blocks'[t][i] = blocks[t][i]
      BY <3>1
    <3>3. QED
      BY <3>1, <3>2 DEF InBlock
  <2>2. CASE x = w \/ x \in lost \/ held[o] = x
    BY <1>1, <1>2, <1>4, <2>1, <2>2, NoneAssumption
  <2>3. CASE x # w /\ x \notin lost /\ held[o] # x
    <3>1. file[x] = "open"
      BY <1>6, <1>9, <2>3
    <3>2. PICK p \in Objects : held[p] = x /\ \E u \in Threads : InBlock(u, p)
      BY <2>3, <3>1 DEF AnyUsageInv, OpenIsNeeded
    <3>3. QED
      BY <1>1, <1>4, <2>1, <2>3, <3>2
  <2>4. QED
    BY <2>2, <2>3
<1>17. EnoughNodes'
  BY <1>1, <1>2, <1>3, NodesPushed DEF AnyUsageInv
<1>18. HeadIsWritable'
  <2>1. ll_get(list') = w
    BY <1>1, <1>4, PushFacts
  <2>2. file'[w] = "open"
    BY <1>6, <1>9, <1>12
  <2>3. QED
    BY <2>1, <2>2 DEF HeadIsWritable
<1>19. QED
  BY <1>13, <1>14, <1>15, <1>16, <1>17, <1>18 DEF AnyUsageInv

\* The invariant of any usage holds, one step of the program after another.
THEOREM AnyUsageInvariance == Spec => []AnyUsageInv
<1>1. ASSUME AnyUsageInv, [Next]_vars
      PROVE  AnyUsageInv'
  <2>1. ASSUME NEW t \in Threads, NEW o \in Objects,
               ProfileEnter(t, o) \/ TraceEnter(t, o) \/ EnterFails(t, o)
        PROVE  AnyUsageInv'
    BY <1>1, <2>1, EnterAnyUsage, EnterFailsAnyUsage DEF ProfileEnter, TraceEnter
  <2>2. ASSUME NEW t \in Threads, ProfileExit(t) \/ TraceExit(t)
        PROVE  AnyUsageInv'
    BY <1>1, <2>2, ExitAnyUsage DEF ProfileExit, TraceExit
  <2>3. ASSUME NEW t \in Threads, ExitFaults(t)
        PROVE  AnyUsageInv'
    <3>1. TypeOK'
      BY <1>1, <2>3 DEF AnyUsageInv, TypeOK, ExitFaults
    <3>2. QED
      BY <1>1, <2>3, <3>1, StutterAnyUsage DEF ExitFaults
  <2>4. ASSUME NEW t \in Threads, ExitWithoutWrapper(t) \/ Event(t)
        PROVE  AnyUsageInv'
    BY <1>1, <2>4, ExitWithoutWrapperAnyUsage, EventAnyUsage
  <2>5. ASSUME NEW o \in Objects, DeallocObject(o)
        PROVE  AnyUsageInv'
    BY <1>1, <2>5, DeallocObjectAnyUsage
  <2>6. CASE UNCHANGED vars
    <3>1. TypeOK'
      BY <1>1, <2>6 DEF AnyUsageInv, TypeOK, vars
    <3>2. QED
      BY <1>1, <2>6, <3>1, StutterAnyUsage DEF vars
  <2>7. QED
    BY <1>1, <2>1, <2>2, <2>3, <2>4, <2>5, <2>6 DEF Next
<1>2. QED
  BY <1>1, AnyUsageInit, PTL DEF Spec

\* Whatever the threads do with the objects, __exit__ finds a node to pop.
THEOREM ListNeverRunsOut == Spec => []PopsNonEmpty
<1>1. AnyUsageInv => PopsNonEmpty
  <2> SUFFICES ASSUME AnyUsageInv, NEW t \in Threads, Leaving(t)
               PROVE  Len(list) > 0
    BY DEF PopsNonEmpty, ll_length
  <2>1. list \in Seq(Wrappers) /\ list # <<>>
    BY NodesInside DEF AnyUsageInv, TypeOK, Leaving
  <2>2. QED
    BY <2>1
<1>2. QED
  BY <1>1, AnyUsageInvariance, PTL

\* When a tracer is suspended the message goes to an open file, in any usage.
THEOREM HeadAlwaysWritable == Spec => []HeadIsWritable
<1>1. AnyUsageInv => HeadIsWritable
  BY DEF AnyUsageInv
<1>2. QED
  BY <1>1, AnyUsageInvariance, PTL

\* The reference counts are exact in any usage, also when several threads call
\* one wrapper, and no wrapper with an owner is deallocated.
THEOREM ReferencesAccountedInAnyUsage == Spec => [](TypeOK /\ RefsAccount)
<1>1. AnyUsageInv => TypeOK /\ RefsAccount
  <2> SUFFICES ASSUME AnyUsageInv, NEW w \in Wrappers
               PROVE  /\ refs[w] = Cardinality({o \in Objects : held[o] = w})
                                   + Cardinality({t \in Threads : registered[t] = w})
                                   + (IF w \in lost THEN 1 ELSE 0)
                      /\ file[w] = "free" <=> refs[w] = 0
    BY DEF AnyUsageInv, RefsAccount
  <2> DEFINE owners == {o \in Objects : held[o] = w}
  <2>1. Cardinality(owners) = OwnerCount(held, w)
    <3>1. CASE \E o \in Objects : held[o] = w
      <4>1. PICK o \in Objects : held[o] = w
        BY <3>1
      <4>2. owners = {o}
        BY <4>1, NoneAssumption DEF AnyUsageInv, OwnersDistinct
      <4>3. QED
        BY <3>1, <4>2, FS_Singleton DEF OwnerCount
    <3>2. CASE ~ \E o \in Objects : held[o] = w
      <4>1. owners = {}
        BY <3>2
      <4>2. QED
        BY <3>2, <4>1, FS_EmptySet DEF OwnerCount
    <3>3. QED
      BY <3>1, <3>2
  <2>2. QED
    BY <2>1 DEF AnyUsageInv, Counted, Callers, LostCount
<1>2. QED
  BY <1>1, AnyUsageInvariance, PTL

=============================================================================
