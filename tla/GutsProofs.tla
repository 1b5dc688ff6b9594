----------------------------- MODULE GutsProofs -----------------------------
(***************************************************************************)
(* Proofs about Guts for every number of mock functions, every instance    *)
(* size, every arena and every content of the instances, provided the      *)
(* index type is wide enough (WideIndex).                                  *)
(***************************************************************************)
EXTENDS Guts, TLAPS

-----------------------------------------------------------------------------
(* Arithmetic.                                                             *)

\* Multiples of the alignment are closed under addition.
LEMMA AlignedSum ==
    ASSUME NEW a \in Nat, NEW b \in Nat, a % AlignSize = 0, b % AlignSize = 0
    PROVE  (a + b) % AlignSize = 0
<1>1. CASE AlignSize = 1 BY <1>1
<1>2. CASE AlignSize = 2 BY <1>2
<1>3. CASE AlignSize = 4 BY <1>3
<1>4. CASE AlignSize = 8 BY <1>4
<1>5. CASE AlignSize = 16 BY <1>5
<1> QED BY <1>1, <1>2, <1>3, <1>4, <1>5, GutsAssumption

\* Rounding up gives the next multiple of the alignment.
LEMMA RoundUpFacts ==
    ASSUME NEW n \in Nat, n + AlignSize < IndexRange
    PROVE  /\ RoundUp(n) \in Nat
           /\ n <= RoundUp(n) /\ RoundUp(n) < n + AlignSize
           /\ RoundUp(n) % AlignSize = 0
<1>1. Add(n, AlignSize - 1) = n + AlignSize - 1
  BY GutsAssumption DEF Add
<1>2. CASE AlignSize = 1 BY <1>1, <1>2 DEF RoundUp
<1>3. CASE AlignSize = 2 BY <1>1, <1>3 DEF RoundUp
<1>4. CASE AlignSize = 4 BY <1>1, <1>4 DEF RoundUp
<1>5. CASE AlignSize = 8 BY <1>1, <1>5 DEF RoundUp
<1>6. CASE AlignSize = 16 BY <1>1, <1>6 DEF RoundUp
<1> QED BY <1>2, <1>3, <1>4, <1>5, <1>6, GutsAssumption

\* A span has room for the link word and the instance, and keeps alignment.
LEMMA SpanFacts ==
    ASSUME WideIndex, NEW r \in Roots
    PROVE  /\ Span(r) \in Nat
           /\ InstanceSize[r] + IndexSize <= Span(r)
           /\ Span(r) < InstanceSize[r] + IndexSize + AlignSize
           /\ Span(r) % AlignSize = 0
<1>1. /\ InstanceSize[r] \in Nat \ {0}
      /\ InstanceSize[r] + IndexSize + AlignSize < IndexRange
  BY GutsAssumption DEF WideIndex
<1>2. Add(InstanceSize[r], IndexSize) = InstanceSize[r] + IndexSize
  BY <1>1, GutsAssumption DEF Add
<1> QED BY <1>1, <1>2, RoundUpFacts, GutsAssumption DEF Span

-----------------------------------------------------------------------------
(* Type correctness and the invariants of the arena.                       *)

\* An empty buffer has no blocks, so nothing can overlap or run over.
LEMMA InitInv == Init => IInv
<1> SUFFICES ASSUME Init PROVE IInv
  OBVIOUS
<1>1. Blocks = {} /\ owner \in [Blocks -> Roots]
  BY DEF Init, Blocks
<1>2. AlignSize % AlignSize = 0
  BY GutsAssumption
<1>3. TypeOK
  BY <1>1, GutsAssumption DEF Init, TypeOK, Indexes, NONE
<1>4. WithinBuffer /\ NoOverlap
  BY <1>1, GutsAssumption DEF Init, WithinBuffer, NoOverlap
<1>5. ChainsAreQueues /\ OrderInv
  BY DEF Init, ChainsAreQueues, OrderInv
<1>6. ArenaInv
  BY <1>1, <1>2, GutsAssumption DEF Init, ArenaInv
<1>7. HeldInv /\ CursorInv
  BY DEF Init, HeldInv, CursorInv
<1> QED BY <1>3, <1>4, <1>5, <1>6, <1>7 DEF IInv

\* What the invariant says of one block.
LEMMA BlockFacts ==
    ASSUME IInv, NEW b \in Blocks
    PROVE  /\ b \in Nat /\ owner[b] \in Roots /\ InstanceSize[owner[b]] \in Nat \ {0}
           /\ b - IndexSize \in Offsets /\ b - IndexSize >= AlignSize
           /\ b + InstanceSize[owner[b]] <= freePtr
           /\ InArena(b)
<1>1. b \in Nat /\ owner[b] \in Roots /\ InstanceSize[owner[b]] \in Nat \ {0}
  BY GutsAssumption DEF IInv, TypeOK
<1>2. /\ AlignSize <= b - IndexSize /\ b + InstanceSize[owner[b]] <= freePtr
      /\ freePtr <= HeapLimit /\ freePtr \in Nat
  BY GutsAssumption DEF IInv, TypeOK, WithinBuffer, ArenaInv, Indexes
<1>3. b - IndexSize \in Offsets
  BY <1>1, <1>2, GutsAssumption DEF Offsets
<1> QED BY <1>1, <1>2, <1>3, GutsAssumption DEF InArena

\* What the invariant says of one entry of a queue.
LEMMA EntryFacts ==
    ASSUME IInv, NEW r \in Roots, NEW i \in 1 .. Len(queue[r])
    PROVE  /\ queue[r][i] \in Blocks /\ owner[queue[r][i]] = r
           /\ Link(queue[r][i]) = IF i < Len(queue[r]) THEN queue[r][i + 1] ELSE NONE
BY DEF IInv, TypeOK, ChainsAreQueues

\* A new block: it lies between the old end of the arena and the new one.
LEMMA CarveInv ==
    ASSUME WideIndex, IInv, pc = "idle", NEW r \in Roots,
           NEW contents \in [Offsets -> Nat],
           \A c \in Blocks : contents[c - IndexSize] = mem[c - IndexSize],
           Carve(r, contents),
           bufferSize' \in Nat, heap' \in Nat,
           freePtr + Span(r) <= bufferSize', bufferSize' <= heap', heap' <= HeapLimit
    PROVE  IInv'
<1> DEFINE b == freePtr + IndexSize
<1>a. /\ InstanceSize[r] \in Nat \ {0} /\ freePtr \in Nat /\ AlignSize \in Nat \ {0}
      /\ IndexSize \in Nat \ {0} /\ HeapLimit < IndexRange /\ HeapLimit \in Nat
      /\ AlignSize <= freePtr /\ freePtr % AlignSize = 0 /\ IndexRange \in Nat
  BY GutsAssumption DEF IInv, TypeOK, WithinBuffer, ArenaInv, Indexes
<1>b. /\ Span(r) \in Nat /\ InstanceSize[r] + IndexSize <= Span(r)
      /\ Span(r) % AlignSize = 0
  BY SpanFacts
<1>c. Add(freePtr, IndexSize) = b /\ Add(freePtr, Span(r)) = freePtr + Span(r)
  BY <1>a, <1>b DEF Add
<1>d. PICK d \in Data : mem' = [a \in Offsets |->
                   IF a \in freePtr .. freePtr + IndexSize - 1 THEN 0
                   ELSE IF a \in Body(b, r) THEN d ELSE contents[a]]
  BY <1>c DEF Carve
<1>e. /\ freePtr' = freePtr + Span(r) /\ pc' = "chain" /\ client' = r /\ obj' = b
      /\ root' = root /\ cur' = cur /\ queue' = queue
      /\ owner' = [c \in Blocks \cup {b} |-> IF c = b THEN r ELSE owner[c]]
  BY <1>c DEF Carve
<1>f. \A c \in Blocks : c < b /\ c # b
  BY <1>a, BlockFacts
<1>g. /\ Blocks' = Blocks \cup {b} /\ owner'[b] = r
      /\ \A c \in Blocks : owner'[c] = owner[c]
  BY <1>e, <1>f DEF Blocks
<1>h. b \in Nat /\ b - IndexSize = freePtr /\ freePtr \in Offsets
  BY <1>a, <1>b DEF Offsets
<1>i. mem' \in [Offsets -> Nat]
  BY <1>d, GutsAssumption
<1>j. mem'[b - IndexSize] = NONE
  BY <1>a, <1>d, <1>h DEF NONE
<1>k. ASSUME NEW c \in Blocks PROVE Link(c)' = Link(c)
  <2>1. c - IndexSize \in Offsets /\ c - IndexSize < freePtr /\ c \in Nat
    BY <1>a, BlockFacts
  <2>2. c - IndexSize \notin freePtr .. freePtr + IndexSize - 1 /\ c - IndexSize \notin Body(b, r)
    BY <1>a, <2>1 DEF Body
  <2> QED BY <1>d, <2>1, <2>2 DEF Link
<1>1. TypeOK'
  <2>1. Blocks' \subseteq Nat /\ owner' \in [Blocks' -> Roots]
    BY <1>e, <1>g, <1>h DEF IInv, TypeOK
  <2>2. queue' \in [Roots -> Seq(Blocks')]
    <3>1. \A q \in Seq(Blocks) : q \in Seq(Blocks')
      BY <1>g
    <3> QED BY <3>1, <1>e DEF IInv, TypeOK
  <2>3. bufferSize' \in Indexes /\ freePtr' \in Indexes /\ heap' \in Indexes
    BY <1>a, <1>b, <1>e DEF Indexes
  <2> QED BY <1>e, <1>h, <1>i, <2>1, <2>2, <2>3 DEF IInv, TypeOK
<1>2. WithinBuffer'
  <2>1. b % AlignSize = 0
    BY <1>a, AlignedSum, GutsAssumption
  <2>2. \A c \in Blocks' :
          /\ AlignSize <= c - IndexSize /\ c + InstanceSize[owner'[c]] <= freePtr'
          /\ c % AlignSize = 0
    <3> TAKE c \in Blocks'
    <3>1. CASE c = b
      BY <3>1, <1>a, <1>b, <1>e, <1>g, <2>1
    <3>2. CASE c \in Blocks
      BY <3>2, <1>a, <1>b, <1>e, <1>g, BlockFacts DEF IInv, WithinBuffer
    <3> QED BY <3>1, <3>2, <1>g
  <2>3. AlignSize <= freePtr' /\ freePtr' <= bufferSize' /\ bufferSize' <= heap'
    BY <1>a, <1>b, <1>e
  <2> QED BY <2>2, <2>3, Zenon DEF WithinBuffer
<1>3. NoOverlap'
  <2> SUFFICES ASSUME NEW c \in Blocks', NEW e \in Blocks', c < e
               PROVE  c + InstanceSize[owner'[c]] <= e - IndexSize
    BY DEF NoOverlap
  <2>1. CASE c \in Blocks /\ e \in Blocks
    BY <2>1, <1>g DEF IInv, NoOverlap
  <2>2. CASE c \in Blocks /\ e = b
    BY <2>2, <1>a, <1>g, BlockFacts
  <2>3. CASE c = b
    BY <2>3, <1>f, <1>g, <1>h, BlockFacts
  <2> QED BY <2>1, <2>2, <2>3, <1>g
<1>4. ChainsAreQueues'
  <2> SUFFICES ASSUME NEW s \in Roots
               PROVE  /\ queue'[s] = <<>> => root'[s] = NONE
                      /\ queue'[s] # <<>> => root'[s] = queue'[s][1]
                      /\ \A i \in 1 .. Len(queue'[s]) :
                           /\ owner'[queue'[s][i]] = s
                           /\ Link(queue[s][i])' =
                                IF i < Len(queue'[s]) THEN queue'[s][i + 1] ELSE NONE
    BY Zenon DEF ChainsAreQueues
  <2>1. /\ queue[s] = <<>> => root[s] = NONE
        /\ queue[s] # <<>> => root[s] = queue[s][1]
    BY DEF IInv, ChainsAreQueues
  <2>2. ASSUME NEW i \in 1 .. Len(queue[s])
        PROVE  /\ owner'[queue[s][i]] = s
               /\ mem'[queue[s][i] - IndexSize] =
                    IF i < Len(queue[s]) THEN queue[s][i + 1] ELSE NONE
    BY EntryFacts, <1>g, <1>k DEF Link
  <2> QED BY <2>1, <2>2, <1>e, Zenon DEF Link
<1>5. ArenaInv'
  BY <1>a, <1>b, <1>e, AlignedSum DEF ArenaInv
<1>6. HeldInv'
  <2>1. \A c \in Blocks' : c <= b
    BY <1>f, <1>g, <1>h, BlockFacts
  <2>2. \A s \in Roots : \A i \in 1 .. Len(queue[s]) : queue[s][i] < b
    BY <1>f, EntryFacts
  <2> QED BY <2>1, <2>2, <1>e, <1>g, <1>j DEF HeldInv, Link
<1>7. CursorInv' /\ OrderInv'
  BY <1>e DEF IInv, CursorInv, OrderInv
<1> QED BY <1>1, <1>2, <1>3, <1>4, <1>5, <1>6, <1>7 DEF IInv

\* MemNext follows the queue, and finds nothing after its newest entry.
LEMMA MemNextFacts ==
    ASSUME IInv, NEW r \in Roots
    PROVE  /\ MemNext(NONE) = NONE
           /\ \A i \in 1 .. Len(queue[r]) :
                /\ MemNext(queue[r][i]) = IF i < Len(queue[r]) THEN queue[r][i + 1] ELSE NONE
                /\ queue[r][i] # NONE
<1>1. MemNext(NONE) = NONE
  BY GutsAssumption DEF MemNext, InArena, NONE
<1>2. ASSUME NEW i \in 1 .. Len(queue[r])
      PROVE  /\ MemNext(queue[r][i]) = IF i < Len(queue[r]) THEN queue[r][i + 1] ELSE NONE
             /\ queue[r][i] # NONE
  <2>1. InArena(queue[r][i]) /\ queue[r][i] \in Nat /\ queue[r][i] # NONE
    BY EntryFacts, BlockFacts, GutsAssumption DEF InArena, NONE
  <2>2. CASE i < Len(queue[r])
    <3>1. i + 1 \in 1 .. Len(queue[r]) /\ Link(queue[r][i]) = queue[r][i + 1]
      BY <2>2, EntryFacts DEF IInv, TypeOK
    <3>2. queue[r][i + 1] \in Blocks
      BY <3>1, EntryFacts
    <3>3. queue[r][i + 1] \in Nat /\ 1 < queue[r][i + 1] /\ queue[r][i + 1] < freePtr
      <4>1. AlignSize \in Nat \ {0} /\ IndexSize \in Nat \ {0}
        BY GutsAssumption
      <4> QED BY <3>2, <4>1, BlockFacts DEF InArena
    <3> QED BY <2>1, <2>2, <3>1, <3>3 DEF MemNext
  <2>3. CASE ~(i < Len(queue[r]))
    BY <2>1, <2>3, EntryFacts DEF MemNext, NONE
  <2> QED BY <2>1, <2>2, <2>3
<1> QED BY <1>1, <1>2

\* A root is nothing exactly when its queue is empty.
LEMMA RootFacts ==
    ASSUME IInv, NEW r \in Roots
    PROVE  /\ queue[r] \in Seq(Blocks) /\ Len(queue[r]) \in Nat
           /\ root[r] = NONE <=> queue[r] = <<>>
           /\ queue[r] # <<>> => 1 \in 1 .. Len(queue[r]) /\ root[r] = queue[r][1]
<1>1. queue[r] \in Seq(Blocks) /\ Len(queue[r]) \in Nat
  BY DEF IInv, TypeOK
<1>2. queue[r] # <<>> => 1 \in 1 .. Len(queue[r]) /\ root[r] = queue[r][1]
  BY <1>1 DEF IInv, ChainsAreQueues
<1>3. queue[r] = <<>> => root[r] = NONE
  BY DEF IInv, ChainsAreQueues
<1> QED BY <1>1, <1>2, <1>3, MemNextFacts

\* The buffer and the blocks do not change with the chains.
LEMMA ArenaFrame ==
    ASSUME IInv, UNCHANGED <<arena, owner>>, pc' # "exited", pc # "exited"
    PROVE  WithinBuffer' /\ NoOverlap' /\ ArenaInv' /\ Blocks' = Blocks
<1>1. bufferSize' = bufferSize /\ freePtr' = freePtr /\ heap' = heap /\ owner' = owner
  BY DEF arena
<1>2. Blocks' = Blocks
  BY <1>1 DEF Blocks
<1>3. WithinBuffer'
  BY <1>1, <1>2 DEF IInv, WithinBuffer
<1>4. NoOverlap' /\ ArenaInv'
  BY <1>1, <1>2 DEF IInv, NoOverlap, ArenaInv
<1> QED BY <1>2, <1>3, <1>4

\* The chains stay what they are while neither links nor queues change.
LEMMA ChainsFrame ==
    ASSUME IInv, mem' = mem, root' = root, owner' = owner, queue' = queue
    PROVE  ChainsAreQueues' /\ OrderInv'
<1>1. ChainsAreQueues /\ OrderInv
  BY DEF IInv
<1>2. ChainsAreQueues'
  BY <1>1, ZenonT(60) DEF ChainsAreQueues, Link
<1>3. OrderInv'
  BY <1>1, ZenonT(60) DEF OrderInv
<1> QED BY <1>2, <1>3

\* A record carved where the room check found room is new and inside.
LEMMA NewFitsInv ==
    ASSUME WideIndex, IInv, NEW r \in Roots, NewFits(r) PROVE IInv'
<1>1. /\ Span(r) \in Nat /\ 1 <= Span(r)
  BY SpanFacts, GutsAssumption
<1>2. /\ AlignSize <= freePtr /\ freePtr <= bufferSize /\ AlignSize \in Nat
      /\ freePtr \in Nat /\ bufferSize \in Nat /\ heap \in Nat /\ heap <= HeapLimit
      /\ bufferSize # AlignSize => bufferSize <= heap
      /\ mem \in [Offsets -> Nat]
  BY GutsAssumption DEF IInv, TypeOK, WithinBuffer, ArenaInv, Indexes, NewFits
<1>3. /\ pc = "idle" /\ Carve(r, mem) /\ bufferSize' = bufferSize /\ heap' = heap
      /\ Span(r) <= bufferSize - freePtr
  BY <1>2 DEF NewFits, BytesFree, Sub
<1>4. freePtr + Span(r) <= bufferSize' /\ bufferSize' <= heap'
  BY <1>1, <1>2, <1>3
<1> QED BY <1>2, <1>3, <1>4, CarveInv

\* After realloc the same block fits, in a buffer that only got longer.
LEMMA NewGrowsInv ==
    ASSUME WideIndex, IInv, NEW r \in Roots, NewGrows(r) PROVE IInv'
<1> DEFINE grown == Add(Add(bufferSize, MemSize), Span(r))
<1>1. /\ Span(r) \in Nat /\ Span(r) < InstanceSize[r] + IndexSize + AlignSize
      /\ HeapLimit + MemSize + InstanceSize[r] + IndexSize + AlignSize < IndexRange
  BY SpanFacts DEF WideIndex
<1>2. /\ freePtr <= bufferSize /\ freePtr \in Nat /\ bufferSize \in Nat
      /\ bufferSize <= HeapLimit /\ MemSize \in Nat /\ HeapLimit \in Nat
      /\ AlignSize \in Nat /\ IndexSize \in Nat /\ InstanceSize[r] \in Nat
      /\ IndexRange \in Nat /\ mem \in [Offsets -> Nat] /\ heap \in Nat
      /\ AlignSize <= freePtr /\ (bufferSize # AlignSize => bufferSize <= heap)
  BY GutsAssumption DEF IInv, TypeOK, WithinBuffer, ArenaInv, Indexes, NewGrows
<1>3. grown = bufferSize + MemSize + Span(r)
  BY <1>1, <1>2 DEF Add
<1>4. PICK junk \in Data : Carve(r, [a \in Offsets |-> IF a < heap THEN mem[a] ELSE junk])
  BY DEF NewGrows
<1>5. pc = "idle" /\ bufferSize' = grown /\ heap' = grown /\ grown <= HeapLimit
  BY DEF NewGrows
<1> DEFINE contents == [a \in Offsets |-> IF a < heap THEN mem[a] ELSE junk]
<1>6. contents \in [Offsets -> Nat]
  BY <1>2, GutsAssumption
<1>7. ASSUME NEW c \in Blocks PROVE contents[c - IndexSize] = mem[c - IndexSize]
  <2>1. /\ c \in Nat /\ InArena(c)
        /\ c - IndexSize \in Offsets /\ c - IndexSize >= AlignSize
    BY BlockFacts
  <2>2. c - IndexSize < freePtr
    BY <1>2, <2>1 DEF InArena
  <2>3. c - IndexSize < heap
    BY <1>2, <2>1, <2>2
  <2> QED BY <2>1, <2>3
<1>8. bufferSize' \in Nat /\ heap' \in Nat /\ freePtr + Span(r) <= bufferSize'
  BY <1>1, <1>2, <1>3, <1>5
<1> HIDE DEF contents, grown
<1> QED BY <1>4, <1>5, <1>6, <1>7, <1>8, CarveInv DEF contents

\* A refusal ends the test and changes nothing else.
LEMMA NewRefusedInv ==
    ASSUME IInv, NEW r \in Roots, NewRefused(r) PROVE IInv'
<1>1. pc = "idle" /\ pc' = "aborted"
  BY DEF NewRefused
<1>2. UNCHANGED <<arena, mem, root, client, obj, cur, history>>
  BY DEF NewRefused
<1> USE <1>1, <1>2 DEF arena, history
<1>3. WithinBuffer' /\ NoOverlap' /\ ArenaInv' /\ Blocks' = Blocks
  BY ArenaFrame
<1>4. TypeOK'
  BY <1>3 DEF IInv, TypeOK
<1>5. ChainsAreQueues' /\ OrderInv'
  BY DEF IInv, ChainsAreQueues, OrderInv, Link
<1>6. HeldInv' /\ CursorInv'
  BY DEF HeldInv, CursorInv
<1> QED BY <1>3, <1>4, <1>5, <1>6 DEF IInv

\* The held block joins the queue of its function; the chain in memory follows.
LEMMA EnqueueInv ==
    ASSUME IInv, pc \in {"chain", "walk"}, Enqueued(client, obj), Return,
           UNCHANGED <<arena, owner>>,
           \/ /\ queue[client] = <<>>
              /\ root' = [root EXCEPT ![client] = obj] /\ mem' = mem
           \/ /\ queue[client] # <<>> /\ root' = root
              /\ mem' = [mem EXCEPT
                   ![queue[client][Len(queue[client])] - IndexSize] = obj]
    PROVE  IInv'
<1> DEFINE q == queue[client]
           n == Len(q)
<1>1. /\ client \in Roots /\ q \in Seq(Blocks) /\ n \in Nat
      /\ queue \in [Roots -> Seq(Blocks)]
      /\ root \in [Roots -> Nat] /\ mem \in [Offsets -> Nat]
  BY DEF IInv, TypeOK
<1>2. /\ obj \in Blocks /\ owner[obj] = client /\ Link(obj) = NONE
      /\ \A b \in Blocks : b <= obj
      /\ \A r \in Roots : \A i \in 1 .. Len(queue[r]) : queue[r][i] < obj
  BY DEF IInv, HeldInv
<1>3. pc' = "idle" /\ obj' = NONE /\ cur' = NONE /\ client' = client
  BY DEF Return
<1>4. /\ bufferSize' = bufferSize /\ freePtr' = freePtr /\ heap' = heap /\ owner' = owner
  BY DEF arena
<1>5. WithinBuffer' /\ NoOverlap' /\ ArenaInv' /\ Blocks' = Blocks
  BY <1>3, ArenaFrame
<1>6. /\ queue' = [queue EXCEPT ![client] = Append(q, obj)]
      /\ queue' \in [Roots -> Seq(Blocks)]
  BY <1>1, <1>2 DEF Enqueued
<1>7. /\ Len(queue'[client]) = n + 1 /\ queue'[client][n + 1] = obj
      /\ \A i \in 1 .. n : queue'[client][i] = q[i]
      /\ \A r \in Roots \ {client} : queue'[r] = queue[r]
  BY <1>1, <1>2, <1>6
<1>8. obj \in Nat /\ obj - IndexSize \in Offsets
  BY <1>2, BlockFacts
<1>9. /\ \A b \in Blocks : (n = 0 \/ b # q[n]) => Link(b)' = Link(b)
      /\ n # 0 => mem'[q[n] - IndexSize] = obj
      /\ n # 0 => q[n] \in Blocks /\ q[n] # obj
  <2>1. n = 0 <=> q = <<>>
    BY <1>1
  <2>2. n # 0 => q[n] \in Blocks /\ q[n] # obj
    <3> SUFFICES ASSUME n # 0 PROVE q[n] \in Blocks /\ q[n] # obj
      OBVIOUS
    <3>1. n \in 1 .. Len(queue[client])
      BY <1>1
    <3>2. q[n] \in Blocks /\ q[n] < obj
      BY <3>1, <1>1, <1>2, EntryFacts
    <3>3. ~(obj < obj)
      BY <1>8
    <3> QED BY <3>2, <3>3
  <2>3. CASE q = <<>>
    BY <2>1, <2>3 DEF Link
  <2>4. CASE q # <<>>
    <3>1. mem' = [mem EXCEPT ![q[n] - IndexSize] = obj]
      BY <2>4
    <3>2. q[n] - IndexSize \in Offsets /\ q[n] \in Nat /\ IndexSize \in Nat
      BY <2>1, <2>2, <2>4, BlockFacts, GutsAssumption
    <3>3. \A b \in Blocks : b \in Nat /\ b - IndexSize \in Offsets
      BY BlockFacts
    <3>4. \A b \in Blocks : b # q[n] => b - IndexSize # q[n] - IndexSize
      BY <3>2, <3>3
    <3> HIDE DEF q, n
    <3> QED BY <1>1, <2>1, <2>2, <2>4, <3>1, <3>2, <3>3, <3>4 DEF Link
  <2> QED BY <2>3, <2>4
<1>10. TypeOK'
  <2>1. root' \in [Roots -> Nat] /\ mem' \in [Offsets -> Nat]
    BY <1>1, <1>8
  <2> QED BY <1>3, <1>4, <1>5, <1>6, <2>1 DEF IInv, TypeOK, NONE
<1>11. ChainsAreQueues'
  <2> SUFFICES ASSUME NEW r \in Roots
               PROVE  /\ queue'[r] = <<>> => root'[r] = NONE
                      /\ queue'[r] # <<>> => root'[r] = queue'[r][1]
                      /\ \A i \in 1 .. Len(queue'[r]) :
                           /\ owner'[queue'[r][i]] = r
                           /\ Link(queue[r][i])' =
                                IF i < Len(queue'[r]) THEN queue'[r][i + 1] ELSE NONE
    BY Zenon DEF ChainsAreQueues
  <2>1. CASE r = client
    <3>1. root'[r] = queue'[r][1] /\ queue'[r] # <<>>
      <4>1. CASE q = <<>>
        BY <4>1, <2>1, <1>1, <1>6, <1>7
      <4>2. CASE q # <<>>
        <5>1. root' = root /\ root[client] = q[1] /\ 1 \in 1 .. n
          BY <4>2, <1>1, RootFacts
        <5> QED BY <5>1, <2>1, <1>1, <1>7
      <4> QED BY <4>1, <4>2
    <3>2. ASSUME NEW i \in 1 .. Len(queue'[r])
          PROVE  /\ owner'[queue'[r][i]] = r
                 /\ mem'[queue'[r][i] - IndexSize] =
                      IF i < Len(queue'[r]) THEN queue'[r][i + 1] ELSE NONE
      <4>1. CASE i = n + 1
        <5>1. queue'[r][i] = obj /\ Len(queue'[r]) = i
          BY <4>1, <2>1, <1>7
        <5>2. n # 0 => q[n] # obj
          BY <1>9
        <5>3. mem'[obj - IndexSize] = NONE
          BY <5>2, <1>2, <1>9 DEF Link
        <5> QED BY <5>1, <5>3, <4>1, <2>1, <1>1, <1>2, <1>4
      <4>2. CASE i = n /\ n # 0
        <5>1. queue'[r][i] = q[n] /\ queue'[r][i + 1] = obj /\ i < Len(queue'[r])
          BY <4>2, <2>1, <1>1, <1>7
        <5>2. owner[q[n]] = r
          BY <4>2, <2>1, <1>1, EntryFacts
        <5> QED BY <5>1, <5>2, <4>2, <1>4, <1>9
      <4>3. CASE i \in 1 .. n - 1
        <5>1. /\ i \in 1 .. Len(queue[client]) /\ i < Len(queue[client])
              /\ n \in 1 .. Len(queue[client]) /\ i < n
              /\ i + 1 \in 1 .. n /\ i < Len(queue'[r])
          BY <4>3, <2>1, <1>1, <1>7
        <5>2. queue'[r][i] = q[i] /\ queue'[r][i + 1] = q[i + 1]
          BY <5>1, <2>1, <1>7
        <5>3. q[i] \in Blocks /\ owner[q[i]] = r /\ Link(q[i]) = q[i + 1]
          BY <5>1, <2>1, <1>1, EntryFacts
        <5>4. q[i] < q[n]
          BY <5>1, <1>1 DEF IInv, OrderInv
        <5>5. q[i] # q[n]
          BY <5>3, <5>4, BlockFacts
        <5>6. mem'[q[i] - IndexSize] = q[i + 1]
          BY <5>3, <5>5, <1>9 DEF Link
        <5> QED BY <5>1, <5>2, <5>3, <5>6, <1>4
      <4> QED BY <4>1, <4>2, <4>3, <2>1, <1>1, <1>7
    <3> QED BY <3>1, <3>2 DEF Link
  <2>2. CASE r # client
    <3>1. queue'[r] = queue[r] /\ root'[r] = root[r]
      BY <2>2, <1>1, <1>7
    <3>2. ASSUME NEW i \in 1 .. Len(queue[r])
          PROVE  /\ owner[queue[r][i]] = r
                 /\ mem'[queue[r][i] - IndexSize] =
                      IF i < Len(queue[r]) THEN queue[r][i + 1] ELSE NONE
      <4>1. n # 0 => owner[q[n]] = client
        BY <1>1, EntryFacts
      <4>2. /\ queue[r][i] \in Blocks /\ owner[queue[r][i]] = r
            /\ Link(queue[r][i]) = IF i < Len(queue[r]) THEN queue[r][i + 1] ELSE NONE
        BY EntryFacts
      <4>3. n = 0 \/ queue[r][i] # q[n]
        BY <4>1, <4>2, <2>2
      <4> QED BY <4>2, <4>3, <1>9 DEF Link
    <3>3. /\ queue[r] = <<>> => root[r] = NONE
          /\ queue[r] # <<>> => root[r] = queue[r][1]
      BY DEF IInv, ChainsAreQueues
    <3> QED BY <3>1, <3>2, <3>3, <1>4 DEF Link
  <2> QED BY <2>1, <2>2
<1>12. HeldInv' /\ CursorInv'
  BY <1>3 DEF HeldInv, CursorInv
<1>13. OrderInv'
  <2> SUFFICES ASSUME NEW r \in Roots, NEW i \in 1 .. Len(queue'[r]),
                      NEW j \in 1 .. Len(queue'[r]), i < j
               PROVE  queue'[r][i] < queue'[r][j]
    BY DEF OrderInv
  <2>1. CASE r # client
    BY <2>1, <1>7 DEF IInv, OrderInv
  <2>2. CASE r = client /\ j = n + 1
    <3>1. i \in 1 .. n /\ queue'[r][i] = queue[client][i] /\ queue'[r][j] = obj
      BY <2>2, <1>1, <1>7
    <3> QED BY <3>1, <1>1, <1>2
  <2>3. CASE r = client /\ j # n + 1
    BY <2>3, <1>1, <1>7 DEF IInv, OrderInv
  <2> QED BY <2>1, <2>2, <2>3
<1> QED BY <1>5, <1>10, <1>11, <1>12, <1>13 DEF IInv

\* A record that starts a chain is the whole of it.
LEMMA ChainFirstInv == ASSUME IInv, ChainFirst PROVE IInv'
<1>1. client \in Roots
  BY DEF IInv, TypeOK
<1>2. queue[client] = <<>>
  BY <1>1, RootFacts DEF ChainFirst
<1> QED BY <1>2, EnqueueInv DEF ChainFirst

\* A held block and the root of its function are always legal: MemChain never
\* refuses them, and its walk starts on the oldest block of the queue.
LEMMA ChainEnterInv == ASSUME IInv, ChainEnter PROVE IInv'
<1>1. /\ client \in Roots /\ pc = "chain" /\ root[client] # NONE
      /\ UNCHANGED <<arena, mem, history>>
  BY DEF IInv, TypeOK, ChainEnter
<1>2. /\ queue[client] # <<>> /\ 1 \in 1 .. Len(queue[client])
      /\ root[client] = queue[client][1]
  BY <1>1, RootFacts
<1>3. InArena(root[client]) /\ InArena(obj)
  BY <1>1, <1>2, EntryFacts, BlockFacts DEF IInv, HeldInv
<1>4. /\ pc' = "walk" /\ cur' = root[client]
      /\ root' = root /\ client' = client /\ obj' = obj
      /\ mem' = mem /\ owner' = owner /\ queue' = queue
      /\ bufferSize' = bufferSize /\ freePtr' = freePtr /\ heap' = heap
  BY <1>1, <1>3 DEF ChainEnter, arena, history
<1>5. WithinBuffer' /\ NoOverlap' /\ ArenaInv' /\ Blocks' = Blocks
  BY <1>1, <1>4, ArenaFrame
<1>6. TypeOK'
  BY <1>1, <1>4, <1>5 DEF IInv, TypeOK
<1>7. ChainsAreQueues' /\ OrderInv'
  BY <1>4 DEF IInv, ChainsAreQueues, OrderInv, Link
<1>8. HeldInv'
  BY <1>1, <1>4, <1>5 DEF IInv, HeldInv, Link
<1>9. CursorInv'
  BY <1>2, <1>4 DEF CursorInv
<1> QED BY <1>5, <1>6, <1>7, <1>8, <1>9 DEF IInv

\* One step of CMock_Guts_MemChain's loop stays on the chain it walks.
LEMMA WalkOnInv == ASSUME IInv, WalkOn PROVE IInv'
<1>1. /\ client \in Roots /\ pc = "walk" /\ 0 < Link(cur) /\ cur' = Link(cur)
      /\ mem' = mem /\ root' = root /\ pc' = pc /\ client' = client /\ obj' = obj
      /\ owner' = owner /\ queue' = queue
      /\ bufferSize' = bufferSize /\ freePtr' = freePtr /\ heap' = heap
  BY DEF IInv, TypeOK, WalkOn, arena, history
<1>2. PICK i \in 1 .. Len(queue[client]) : cur = queue[client][i]
  BY <1>1 DEF IInv, CursorInv
<1>3. /\ Len(queue[client]) \in Nat /\ i < Len(queue[client])
      /\ cur' = queue[client][i + 1]
  BY <1>1, <1>2, EntryFacts, RootFacts DEF NONE
<1>4. i + 1 \in 1 .. Len(queue[client])
  BY <1>3
<1>5. WithinBuffer' /\ NoOverlap' /\ ArenaInv' /\ Blocks' = Blocks
  BY <1>1, ArenaFrame DEF arena
<1>6. TypeOK'
  <2>1. queue[client][i + 1] \in Blocks
    BY <1>1, <1>4, EntryFacts
  <2>2. cur' \in Nat
    BY <1>3, <2>1, BlockFacts
  <2> QED BY <1>1, <1>5, <2>2 DEF IInv, TypeOK
<1>7. ChainsAreQueues' /\ OrderInv'
  BY <1>1, ChainsFrame
<1>8. HeldInv'
  BY <1>1, <1>5 DEF IInv, HeldInv, Link
<1>9. CursorInv'
  BY <1>1, <1>3, <1>4 DEF CursorInv
<1> QED BY <1>5, <1>6, <1>7, <1>8, <1>9 DEF IInv

\* The walk never meets an illegal link, and ends on the newest block.
LEMMA WalkEndInv == ASSUME IInv, WalkEnd PROVE IInv'
<1>1. client \in Roots /\ pc = "walk"
  BY DEF IInv, TypeOK, WalkEnd
<1>2. PICK i \in 1 .. Len(queue[client]) : cur = queue[client][i]
  BY <1>1 DEF IInv, CursorInv
<1>3. queue[client] # <<>> /\ Len(queue[client]) \in Nat
  BY <1>1, <1>2, RootFacts
<1>4. AlignSize <= freePtr /\ freePtr \in Nat /\ AlignSize \in Nat \ {0}
  BY GutsAssumption DEF IInv, TypeOK, WithinBuffer, Indexes
<1>5. CASE i < Len(queue[client])
  <2>1. i + 1 \in 1 .. Len(queue[client]) /\ Link(cur) = queue[client][i + 1]
    BY <1>1, <1>2, <1>3, <1>5, EntryFacts
  <2>2. Link(cur) \in Nat /\ 0 < Link(cur) /\ Link(cur) < freePtr
    BY <1>1, <1>4, <2>1, EntryFacts, BlockFacts DEF InArena
  <2> QED BY <1>4, <2>2 DEF WalkEnd
<1>6. CASE i = Len(queue[client])
  <2>1. Link(cur) = 0
    BY <1>1, <1>2, <1>3, <1>6, EntryFacts DEF NONE
  <2>2. /\ mem' = [mem EXCEPT ![cur - IndexSize] = obj]
        /\ Enqueued(client, obj) /\ root' = root /\ Return
        /\ UNCHANGED <<arena, owner>>
    BY <1>4, <2>1 DEF WalkEnd
  <2> QED BY <1>1, <1>2, <1>3, <1>6, <2>2, EnqueueInv
<1> QED BY <1>3, <1>5, <1>6

\* Facts every step shares that changes no memory and only shortens queues.
LEMMA ShortenInv ==
    ASSUME IInv, pc = "idle", NEW r \in Roots,
           UNCHANGED <<arena, mem, call, owner>>,
           \/ /\ root' = [root EXCEPT ![r] = NONE]
              /\ queue' = [queue EXCEPT ![r] = <<>>]
           \/ /\ queue[r] # <<>>
              /\ root' = [root EXCEPT ![r] = IF 1 < Len(queue[r]) THEN queue[r][2] ELSE NONE]
              /\ queue' = [queue EXCEPT ![r] = Tail(queue[r])]
    PROVE  IInv'
<1>1. /\ pc' = pc /\ client' = client /\ obj' = obj /\ cur' = cur
      /\ mem' = mem /\ owner' = owner
      /\ bufferSize' = bufferSize /\ freePtr' = freePtr /\ heap' = heap
  BY DEF arena, call
<1>2. /\ queue \in [Roots -> Seq(Blocks)] /\ root \in [Roots -> Nat]
      /\ queue[r] \in Seq(Blocks) /\ Len(queue[r]) \in Nat
  BY DEF IInv, TypeOK
<1>3. WithinBuffer' /\ NoOverlap' /\ ArenaInv' /\ Blocks' = Blocks
  BY <1>1, ArenaFrame
<1>4. queue[r] # <<>> =>
        /\ Tail(queue[r]) \in Seq(Blocks)
        /\ Len(Tail(queue[r])) = Len(queue[r]) - 1
        /\ \A i \in 1 .. Len(queue[r]) - 1 : Tail(queue[r])[i] = queue[r][i + 1]
  BY <1>2
<1>5. queue' \in [Roots -> Seq(Blocks)]
  <2>1. <<>> \in Seq(Blocks)
    OBVIOUS
  <2>2. \A q \in Seq(Blocks) : [queue EXCEPT ![r] = q] \in [Roots -> Seq(Blocks)]
    BY <1>2
  <2>3. CASE queue' = [queue EXCEPT ![r] = <<>>]
    BY <2>1, <2>2, <2>3
  <2>4. CASE queue[r] # <<>> /\ queue' = [queue EXCEPT ![r] = Tail(queue[r])]
    BY <1>4, <2>2, <2>4
  <2> QED BY <2>3, <2>4
<1>6. (IF 1 < Len(queue[r]) THEN queue[r][2] ELSE NONE) \in Nat
  <2>1. CASE 1 < Len(queue[r])
    <3>1. 2 \in 1 .. Len(queue[r])
      BY <2>1, <1>2
    <3>2. queue[r][2] \in Nat
      BY <3>1, EntryFacts, BlockFacts
    <3> QED BY <2>1, <3>2
  <2>2. CASE ~(1 < Len(queue[r]))
    BY <2>2 DEF NONE
  <2> QED BY <2>1, <2>2
<1>7. TypeOK'
  <2>1. \A i \in Nat : [root EXCEPT ![r] = i] \in [Roots -> Nat]
    BY <1>2
  <2>2. root' \in [Roots -> Nat]
    BY <1>6, <2>1 DEF NONE
  <2> QED BY <1>1, <1>3, <1>5, <2>2 DEF IInv, TypeOK
<1>8. /\ \A s \in Roots \ {r} : queue'[s] = queue[s] /\ root'[s] = root[s]
      /\ \/ queue'[r] = <<>> /\ root'[r] = NONE
         \/ /\ queue[r] # <<>> /\ queue'[r] = Tail(queue[r])
            /\ root'[r] = IF 1 < Len(queue[r]) THEN queue[r][2] ELSE NONE
  BY <1>2
<1>9. ChainsAreQueues'
  <2> SUFFICES ASSUME NEW s \in Roots
               PROVE  /\ queue'[s] = <<>> => root'[s] = NONE
                      /\ queue'[s] # <<>> => root'[s] = queue'[s][1]
                      /\ \A i \in 1 .. Len(queue'[s]) :
                           /\ owner'[queue'[s][i]] = s
                           /\ Link(queue[s][i])' =
                                IF i < Len(queue'[s]) THEN queue'[s][i + 1] ELSE NONE
    BY Zenon DEF ChainsAreQueues
  <2>1. CASE queue'[s] = queue[s] /\ root'[s] = root[s]
    BY <2>1, <1>1 DEF IInv, ChainsAreQueues, Link
  <2>2. CASE queue'[s] = <<>> /\ root'[s] = NONE
    BY <2>2
  <2>3. CASE /\ s = r /\ queue[r] # <<>> /\ queue'[r] = Tail(queue[r])
             /\ root'[r] = IF 1 < Len(queue[r]) THEN queue[r][2] ELSE NONE
    <3>1. Len(queue'[r]) = Len(queue[r]) - 1
      BY <2>3, <1>4
    <3>2. /\ queue'[r] = <<>> => root'[r] = NONE
          /\ queue'[r] # <<>> => root'[r] = queue'[r][1]
      <4>1. CASE 1 < Len(queue[r])
        <5>1. 1 \in 1 .. Len(queue[r]) - 1
          BY <4>1, <1>2
        <5>2. queue'[r][1] = queue[r][1 + 1]
          BY <2>3, <5>1, <1>4, Zenon
        <5>3. Len(queue'[r]) # 0
          BY <3>1, <4>1, <1>2
        <5>4. queue'[r] # <<>>
          BY <5>3
        <5>5. queue[r][1 + 1] = queue[r][2]
          OBVIOUS
        <5> QED BY <2>3, <4>1, <5>2, <5>4, <5>5
      <4>2. CASE ~(1 < Len(queue[r]))
        BY <2>3, <3>1, <4>2, <1>2, <1>5
      <4> QED BY <4>1, <4>2
    <3>3. ASSUME NEW i \in 1 .. Len(queue'[r])
          PROVE  /\ owner[queue'[r][i]] = r
                 /\ mem[queue'[r][i] - IndexSize] =
                      IF i < Len(queue'[r]) THEN queue'[r][i + 1] ELSE NONE
      <4>1. /\ i \in 1 .. Len(queue[r]) - 1 /\ i + 1 \in 1 .. Len(queue[r])
            /\ i < Len(queue'[r]) <=> i + 1 < Len(queue[r])
        BY <3>1, <1>2
      <4>2. queue'[r][i] = queue[r][i + 1]
        BY <2>3, <4>1, <1>4
      <4>3. i < Len(queue'[r]) => queue'[r][i + 1] = queue[r][(i + 1) + 1]
        BY <2>3, <3>1, <4>1, <1>2, <1>4
      <4>4. /\ owner[queue[r][i + 1]] = r
            /\ Link(queue[r][i + 1]) =
                 IF i + 1 < Len(queue[r]) THEN queue[r][(i + 1) + 1] ELSE NONE
        BY <4>1, EntryFacts
      <4> QED BY <4>1, <4>2, <4>3, <4>4 DEF Link
    <3> QED BY <2>3, <3>2, <3>3, <1>1 DEF Link
  <2> QED BY <2>1, <2>2, <2>3, <1>8
<1>10. HeldInv' /\ CursorInv'
  BY <1>1 DEF HeldInv, CursorInv
<1>11. OrderInv'
  <2> SUFFICES ASSUME NEW s \in Roots, NEW i \in 1 .. Len(queue'[s]),
                      NEW j \in 1 .. Len(queue'[s]), i < j
               PROVE  queue'[s][i] < queue'[s][j]
    BY DEF OrderInv
  <2>1. CASE queue'[s] = queue[s]
    BY <2>1 DEF IInv, OrderInv
  <2>2. CASE queue'[s] = <<>>
    BY <2>2
  <2>3. CASE s = r /\ queue[r] # <<>> /\ queue'[r] = Tail(queue[r])
    <3>1. /\ i \in 1 .. Len(queue[r]) - 1 /\ j \in 1 .. Len(queue[r]) - 1
          /\ i + 1 \in 1 .. Len(queue[r]) /\ j + 1 \in 1 .. Len(queue[r]) /\ i + 1 < j + 1
      BY <2>3, <1>2, <1>4
    <3>2. queue'[s][i] = queue[r][i + 1] /\ queue'[s][j] = queue[r][j + 1]
      BY <2>3, <3>1, <1>4
    <3> QED BY <3>1, <3>2 DEF IInv, OrderInv
  <2> QED BY <2>1, <2>2, <2>3, <1>8
<1> QED BY <1>3, <1>7, <1>9, <1>10, <1>11 DEF IInv

\* A call's MemNext leaves the rest of a chain, or none.
LEMMA PopInv == ASSUME IInv, NEW r \in Roots, Pop(r) PROVE IInv'
<1>1. /\ pc = "idle" /\ UNCHANGED <<arena, mem, call, owner>>
      /\ root' = [root EXCEPT ![r] = MemNext(root[r])]
      /\ queue' = [queue EXCEPT ![r] = IF queue[r] = <<>> THEN queue[r] ELSE Tail(queue[r])]
  BY DEF Pop
<1>2. CASE queue[r] = <<>>
  <2>1. root[r] = NONE /\ MemNext(root[r]) = NONE
    BY <1>2, RootFacts, MemNextFacts
  <2> QED BY <1>1, <1>2, <2>1, ShortenInv
<1>3. CASE queue[r] # <<>>
  <2>1. MemNext(root[r]) = IF 1 < Len(queue[r]) THEN queue[r][2] ELSE NONE
    BY <1>3, RootFacts, MemNextFacts
  <2> QED BY <1>1, <1>3, <2>1, ShortenInv
<1> QED BY <1>2, <1>3

\* A chain dropped by its user leaves its records where they are.
LEMMA ForgetInv == ASSUME IInv, NEW r \in Roots, Forget(r) PROVE IInv'
BY ShortenInv DEF Forget

\* CMock_Guts_MemEndOfChain starts at a record of the chain it is given.
LEMMA EndEnterInv == ASSUME IInv, NEW r \in Roots, EndEnter(r) PROVE IInv'
<1>1. /\ pc = "idle" /\ pc' = "end" /\ client' = r /\ cur' = root[r]
      /\ mem' = mem /\ root' = root /\ obj' = obj /\ owner' = owner /\ queue' = queue
      /\ bufferSize' = bufferSize /\ freePtr' = freePtr /\ heap' = heap
  BY DEF EndEnter, arena, history
<1>2. WithinBuffer' /\ NoOverlap' /\ ArenaInv' /\ Blocks' = Blocks
  BY <1>1, ArenaFrame DEF arena
<1>3. TypeOK'
  BY <1>1, <1>2 DEF IInv, TypeOK
<1>4. ChainsAreQueues' /\ OrderInv'
  BY <1>1, ChainsFrame
<1>5. HeldInv'
  BY <1>1 DEF HeldInv
<1>6. CursorInv'
  BY <1>1, RootFacts DEF CursorInv
<1> QED BY <1>2, <1>3, <1>4, <1>5, <1>6 DEF IInv

\* One step of CMock_Guts_MemEndOfChain stays on that chain.
LEMMA EndOnInv == ASSUME IInv, EndOn PROVE IInv'
<1>1. /\ client \in Roots /\ pc = "end" /\ MemNext(cur) # NONE /\ cur' = MemNext(cur)
      /\ mem' = mem /\ root' = root /\ pc' = pc /\ client' = client /\ obj' = obj
      /\ owner' = owner /\ queue' = queue
      /\ bufferSize' = bufferSize /\ freePtr' = freePtr /\ heap' = heap
  BY DEF IInv, TypeOK, EndOn, arena, history
<1>2. PICK i \in 1 .. Len(queue[client]) : cur = queue[client][i]
  BY <1>1, MemNextFacts DEF IInv, CursorInv
<1>3. /\ Len(queue[client]) \in Nat /\ i < Len(queue[client])
      /\ cur' = queue[client][i + 1]
  BY <1>1, <1>2, MemNextFacts, RootFacts
<1>4. i + 1 \in 1 .. Len(queue[client])
  BY <1>3
<1>5. WithinBuffer' /\ NoOverlap' /\ ArenaInv' /\ Blocks' = Blocks
  BY <1>1, ArenaFrame DEF arena
<1>6. TypeOK'
  <2>1. queue[client][i + 1] \in Blocks
    BY <1>1, <1>4, EntryFacts
  <2>2. cur' \in Nat
    BY <1>3, <2>1, BlockFacts
  <2> QED BY <1>1, <1>5, <2>2 DEF IInv, TypeOK
<1>7. ChainsAreQueues' /\ OrderInv'
  BY <1>1, ChainsFrame
<1>8. HeldInv'
  BY <1>1 DEF HeldInv
<1>9. CursorInv'
  BY <1>1, <1>3, <1>4 DEF CursorInv
<1> QED BY <1>5, <1>6, <1>7, <1>8, <1>9 DEF IInv

\* Filling in the newest instance of a function touches no link word.
LEMMA EndFoundInv == ASSUME IInv, EndFound PROVE IInv'
<1>1. /\ client \in Roots /\ pc = "end" /\ MemNext(cur) = NONE /\ InArena(cur)
      /\ pc' = "idle" /\ obj' = NONE /\ cur' = NONE /\ client' = client
      /\ root' = root /\ owner' = owner /\ queue' = queue
      /\ bufferSize' = bufferSize /\ freePtr' = freePtr /\ heap' = heap
  BY DEF IInv, TypeOK, EndFound, Return, arena, history
<1>2. PICK d \in Data :
        mem' = [a \in Offsets |-> IF a \in Body(cur, client) THEN d ELSE mem[a]]
  BY DEF EndFound
<1>3. cur \in Blocks /\ owner[cur] = client
  <2>1. cur # NONE
    BY <1>1, GutsAssumption DEF InArena, NONE
  <2> QED BY <1>1, <2>1, EntryFacts DEF IInv, CursorInv
<1>4. ASSUME NEW b \in Blocks PROVE mem'[b - IndexSize] = mem[b - IndexSize]
  <2>1. /\ b \in Nat /\ b - IndexSize \in Offsets /\ cur \in Nat
        /\ IndexSize \in Nat \ {0} /\ InstanceSize[client] \in Nat \ {0}
    BY <1>3, BlockFacts, GutsAssumption
  <2>2. cur < b => cur + InstanceSize[client] <= b - IndexSize
    BY <1>3 DEF IInv, NoOverlap
  <2>3. b - IndexSize \notin Body(cur, client)
    BY <2>1, <2>2 DEF Body
  <2> QED BY <1>2, <2>1, <2>3
<1>5. mem' \in [Offsets -> Nat]
  BY <1>2, GutsAssumption DEF IInv, TypeOK
<1>6. WithinBuffer' /\ NoOverlap' /\ ArenaInv' /\ Blocks' = Blocks
  BY <1>1, ArenaFrame DEF arena
<1>7. TypeOK'
  BY <1>1, <1>5, <1>6 DEF IInv, TypeOK, NONE
<1>8. ChainsAreQueues'
  <2>1. \A r \in Roots : \A i \in 1 .. Len(queue[r]) :
          mem'[queue[r][i] - IndexSize] = mem[queue[r][i] - IndexSize]
    BY <1>4, EntryFacts
  <2> SUFFICES ASSUME NEW r \in Roots
               PROVE  /\ queue[r] = <<>> => root[r] = NONE
                      /\ queue[r] # <<>> => root[r] = queue[r][1]
                      /\ \A i \in 1 .. Len(queue[r]) :
                           /\ owner[queue[r][i]] = r
                           /\ mem'[queue[r][i] - IndexSize] =
                                IF i < Len(queue[r]) THEN queue[r][i + 1] ELSE NONE
    BY <1>1, Zenon DEF ChainsAreQueues, Link
  <2> QED BY <2>1 DEF IInv, ChainsAreQueues, Link
<1>9. HeldInv' /\ CursorInv' /\ OrderInv'
  BY <1>1 DEF IInv, HeldInv, CursorInv, OrderInv
<1> QED BY <1>6, <1>7, <1>8, <1>9 DEF IInv

\* The end of no chain is no record.
LEMMA EndMissingInv == ASSUME IInv, EndMissing PROVE IInv'
<1>1. /\ pc = "end" /\ pc' = "aborted"
      /\ mem' = mem /\ root' = root /\ client' = client /\ obj' = obj /\ cur' = cur
      /\ owner' = owner /\ queue' = queue
      /\ bufferSize' = bufferSize /\ freePtr' = freePtr /\ heap' = heap
  BY DEF EndMissing, arena, history
<1>2. WithinBuffer' /\ NoOverlap' /\ ArenaInv' /\ Blocks' = Blocks
  BY <1>1, ArenaFrame DEF arena
<1>3. TypeOK'
  BY <1>1, <1>2 DEF IInv, TypeOK
<1>4. ChainsAreQueues' /\ OrderInv'
  BY <1>1, ChainsFrame
<1>5. HeldInv' /\ CursorInv'
  BY <1>1 DEF IInv, HeldInv, CursorInv
<1> QED BY <1>2, <1>3, <1>4, <1>5 DEF IInv

\* After the buffer is freed no root and no record is left over.
LEMMA FreedInv == ASSUME IInv, FreeAll \/ FreeFinal PROVE IInv'
<1>1. /\ root' = [r \in Roots |-> NONE] /\ queue' = [r \in Roots |-> <<>>]
      /\ owner' = [b \in {} |-> client] /\ Blocks' = {}
      /\ obj' = NONE /\ cur' = NONE /\ freePtr' = AlignSize
      /\ bufferSize' = bufferSize /\ mem' = mem /\ client' = client
  BY DEF FreeAll, FreeFinal, Freed, Blocks
<1>2. pc # "exited" /\ pc' \in {"idle", "exited"}
  BY DEF FreeAll, FreeFinal
<1>3. (heap' = heap \/ heap' = 0) /\ (pc' = "idle" => heap' = heap)
  BY DEF FreeAll, FreeFinal
<1>4. /\ AlignSize \in Nat /\ AlignSize <= HeapLimit /\ HeapLimit < IndexRange
      /\ HeapLimit \in Nat /\ IndexRange \in Nat /\ AlignSize % AlignSize = 0
  BY GutsAssumption
<1>5. owner' \in [Blocks' -> Roots]
  BY <1>1
<1>6. TypeOK'
  BY <1>1, <1>2, <1>3, <1>4, <1>5 DEF IInv, TypeOK, NONE, Indexes
<1>7. WithinBuffer' /\ NoOverlap'
  BY <1>1, <1>2, <1>3, <1>4 DEF IInv, TypeOK, WithinBuffer, NoOverlap, Indexes
<1>8. ChainsAreQueues' /\ OrderInv'
  BY <1>1 DEF ChainsAreQueues, OrderInv
<1>9. ArenaInv'
  BY <1>1, <1>3, <1>4 DEF IInv, ArenaInv
<1>10. HeldInv' /\ CursorInv'
  BY <1>2 DEF HeldInv, CursorInv
<1> QED BY <1>6, <1>7, <1>8, <1>9, <1>10 DEF IInv

\* Every step of the memory manager preserves the invariant.
LEMMA NextInv == ASSUME WideIndex, IInv, [Next]_vars PROVE IInv'
<1>1. CASE Loop
  BY <1>1, ChainFirstInv, ChainEnterInv, WalkOnInv, WalkEndInv, EndOnInv,
     EndFoundInv, EndMissingInv DEF Loop
<1>2. CASE FreeAll \/ FreeFinal
  BY <1>2, FreedInv
<1>3. CASE \E r \in Roots :
             \/ NewFits(r) \/ NewGrows(r) \/ NewRefused(r)
             \/ Pop(r) \/ Forget(r) \/ EndEnter(r)
  BY <1>3, NewFitsInv, NewGrowsInv, NewRefusedInv, PopInv, ForgetInv, EndEnterInv
<1>4. CASE UNCHANGED vars
  BY <1>4 DEF vars, IInv, TypeOK, WithinBuffer, NoOverlap, ChainsAreQueues, ArenaInv,
     HeldInv, CursorInv, OrderInv, Blocks, Link
<1> QED BY <1>1, <1>2, <1>3, <1>4 DEF Next

-----------------------------------------------------------------------------
(* The theorems.                                                           *)

\* The inductive invariant holds in every reachable state.
THEOREM Invariance == ASSUME WideIndex PROVE Spec => []IInv
<1>1. Init => IInv
  BY InitInv
<1>2. IInv /\ [Next]_vars => IInv'
  BY NextInv
<1> QED BY <1>1, <1>2, PTL DEF Spec

\* Every variable of the memory manager keeps its type.
THEOREM TypeCorrect == ASSUME WideIndex PROVE Spec => []TypeOK
BY Invariance, PTL DEF IInv

\* No block of any instance size ever leaves the buffer the code owns.
THEOREM BlocksWithinBuffer == ASSUME WideIndex PROVE Spec => []WithinBuffer
BY Invariance, PTL DEF IInv

\* No two blocks handed out between two frees share a byte.
THEOREM BlocksDisjoint == ASSUME WideIndex PROVE Spec => []NoOverlap
BY Invariance, PTL DEF IInv

\* The links found in memory are the first-in first-out queues of the mocks.
THEOREM LinksAreQueues == ASSUME WideIndex PROVE Spec => []ChainsAreQueues
BY Invariance, PTL DEF IInv

-----------------------------------------------------------------------------
(* Guts implements CallQueue.                                              *)

\* An empty buffer holds empty queues.
LEMMA InitRefines == Init => CQ!CQInit
<1> SUFFICES ASSUME Init PROVE CQ!CQInit
  OBVIOUS
<1>1. Blocks = {}
  BY DEF Init, Blocks
<1> QED BY <1>1 DEF Init, CQ!CQInit

\* Carving a block hands out one that is not in use.
LEMMA CarveRefines ==
    ASSUME WideIndex, IInv, pc = "idle", NEW r \in Roots, NEW contents,
           Carve(r, contents), freePtr + Span(r) <= HeapLimit
    PROVE  CQ!Allocate
<1> DEFINE b == freePtr + IndexSize
<1>1. /\ freePtr \in Nat /\ IndexSize \in Nat \ {0} /\ Span(r) \in Nat
      /\ IndexSize < Span(r) /\ HeapLimit < IndexRange /\ HeapLimit \in Nat
      /\ IndexRange \in Nat
  <2>1. InstanceSize[r] \in Nat \ {0} /\ IndexSize \in Nat \ {0} /\ HeapLimit \in Nat
        /\ HeapLimit < IndexRange /\ IndexRange \in Nat
    BY GutsAssumption
  <2>2. freePtr \in Nat
    BY DEF IInv, TypeOK, Indexes
  <2> QED BY <2>1, <2>2, SpanFacts
<1>2. Add(freePtr, IndexSize) = b
  BY <1>1 DEF Add
<1>3. /\ pc' = "chain" /\ obj' = b /\ queue' = queue
      /\ owner' = [c \in Blocks \cup {b} |-> IF c = b THEN r ELSE owner[c]]
  BY <1>2 DEF Carve
<1>4. Blocks' = Blocks \cup {b}
  BY <1>3 DEF Blocks
<1>5. b \in Indexes \ {NONE}
  BY <1>1 DEF Indexes, NONE
<1>6. b \notin Blocks
  <2> SUFFICES ASSUME b \in Blocks PROVE FALSE
    OBVIOUS
  <2>1. InArena(b)
    BY BlockFacts
  <2>2. ~(b < freePtr)
    BY <1>1
  <2> QED BY <2>1, <2>2 DEF InArena
<1> HIDE DEF b
<1> QED BY <1>3, <1>4, <1>5, <1>6 DEF CQ!Allocate

\* Every step changes the queues as CallQueue lets it, or not at all.
LEMMA StepRefines == ASSUME WideIndex, IInv, [Next]_vars PROVE [CQ!CQNext]_CQ!cqVars
<1> SUFFICES ASSUME Next PROVE [CQ!CQNext]_CQ!cqVars
  BY DEF vars, CQ!cqVars, Blocks
<1>1. ASSUME NEW r \in Roots, NewFits(r) PROVE CQ!CQNext
  <2>1. /\ pc = "idle" /\ Carve(r, mem) /\ Span(r) <= BytesFree
    BY <1>1 DEF NewFits
  <2>2. freePtr + Span(r) <= HeapLimit
    <3>1. /\ freePtr \in Nat /\ bufferSize \in Nat /\ HeapLimit \in Nat
          /\ freePtr <= bufferSize /\ bufferSize <= HeapLimit
      BY GutsAssumption DEF IInv, TypeOK, WithinBuffer, ArenaInv, Indexes
    <3>2. BytesFree = bufferSize - freePtr
      BY <3>1 DEF BytesFree, Sub
    <3>3. Span(r) \in Nat
      BY SpanFacts
    <3> QED BY <2>1, <3>1, <3>2, <3>3
  <2> QED BY <2>1, <2>2, CarveRefines DEF CQ!CQNext
<1>2. ASSUME NEW r \in Roots, NewGrows(r) PROVE CQ!CQNext
  <2>1. PICK junk \in Data : Carve(r, [a \in Offsets |-> IF a < heap THEN mem[a] ELSE junk])
    BY <1>2 DEF NewGrows
  <2>2. /\ pc = "idle" /\ Add(Add(bufferSize, MemSize), Span(r)) <= HeapLimit
    BY <1>2 DEF NewGrows
  <2>3. freePtr + Span(r) <= HeapLimit
    <3>1. /\ Span(r) \in Nat /\ Span(r) < InstanceSize[r] + IndexSize + AlignSize
          /\ HeapLimit + MemSize + InstanceSize[r] + IndexSize + AlignSize < IndexRange
      BY SpanFacts DEF WideIndex
    <3>2. /\ freePtr <= bufferSize /\ freePtr \in Nat /\ bufferSize \in Nat
          /\ bufferSize <= HeapLimit
      BY DEF IInv, TypeOK, WithinBuffer, ArenaInv, Indexes
    <3>3. /\ MemSize \in Nat /\ HeapLimit \in Nat /\ AlignSize \in Nat
          /\ IndexSize \in Nat /\ InstanceSize[r] \in Nat /\ IndexRange \in Nat
      BY GutsAssumption
    <3>4. Add(Add(bufferSize, MemSize), Span(r)) = bufferSize + MemSize + Span(r)
      BY <3>1, <3>2, <3>3 DEF Add
    <3> QED BY <2>2, <3>1, <3>2, <3>3, <3>4
  <2> QED BY <2>1, <2>2, <2>3, CarveRefines DEF CQ!CQNext
<1>3. ASSUME NEW r \in Roots, NewRefused(r) PROVE UNCHANGED CQ!cqVars
  BY <1>3 DEF NewRefused, CQ!cqVars, Blocks, history
<1>4. ASSUME NEW r \in Roots, Pop(r) PROVE [CQ!CQNext]_CQ!cqVars
  <2>1. /\ pc' = pc /\ owner' = owner /\ obj' = obj /\ pc = "idle"
        /\ queue' = [queue EXCEPT ![r] = IF queue[r] = <<>> THEN queue[r] ELSE Tail(queue[r])]
        /\ queue \in [Roots -> Seq(Blocks)]
    BY <1>4 DEF Pop, call, IInv, TypeOK
  <2>2. CASE queue[r] = <<>>
    <3>1. queue' = queue
      BY <2>1, <2>2
    <3> QED BY <2>1, <3>1 DEF CQ!cqVars, Blocks
  <2>3. CASE queue[r] # <<>>
    BY <2>1, <2>3 DEF CQ!CQNext, CQ!Dequeue, Blocks
  <2> QED BY <2>2, <2>3
<1>5. ASSUME NEW r \in Roots, Forget(r) PROVE CQ!CQNext
  BY <1>5 DEF Forget, call, CQ!CQNext, CQ!Drop, Blocks
<1>6. ASSUME NEW r \in Roots, EndEnter(r) PROVE UNCHANGED CQ!cqVars
  BY <1>6 DEF EndEnter, history, CQ!cqVars, Blocks
<1>7. CASE FreeAll \/ FreeFinal
  <2>1. Blocks' = {} /\ queue' = [r \in Roots |-> <<>>] /\ pc' \in {"idle", "exited"}
    BY <1>7 DEF FreeAll, FreeFinal, Freed, Blocks
  <2> QED BY <2>1 DEF CQ!CQNext, CQ!Reset
<1>8. CASE EndOn \/ EndFound \/ EndMissing
  BY <1>8 DEF EndOn, EndFound, EndMissing, Return, history, CQ!cqVars, Blocks
<1>9. CASE WalkOn
  BY <1>9 DEF WalkOn, history, CQ!cqVars, Blocks
<1>10. ASSUME pc \in {"chain", "walk"}, Enqueued(client, obj), Return, owner' = owner
       PROVE  CQ!CQNext
  <2>1. client \in Roots /\ obj # NONE
    BY <1>10, BlockFacts, GutsAssumption DEF IInv, TypeOK, HeldInv, NONE
  <2>2. CQ!Enqueue(client)
    BY <1>10, <2>1 DEF CQ!Enqueue, Enqueued, Return, Blocks
  <2> QED BY <2>1, <2>2 DEF CQ!CQNext
<1>11. CASE ChainFirst
  BY <1>10, <1>11 DEF ChainFirst
<1>12. CASE ChainEnter
  <2>1. client \in Roots /\ pc = "chain" /\ root[client] # NONE
    BY <1>12 DEF IInv, TypeOK, ChainEnter
  <2>2. InArena(root[client]) /\ InArena(obj)
    BY <2>1, RootFacts, EntryFacts, BlockFacts DEF IInv, HeldInv
  <2> QED BY <1>12, <2>1, <2>2 DEF ChainEnter, history, CQ!cqVars, Blocks
<1>13. CASE WalkEnd
  <2>1. PICK i \in 1 .. Len(queue[client]) : cur = queue[client][i]
    BY <1>13 DEF WalkEnd, IInv, CursorInv
  <2>2. client \in Roots /\ Len(queue[client]) \in Nat /\ freePtr \in Nat
    BY RootFacts DEF IInv, TypeOK, Indexes
  <2>3. AlignSize <= freePtr /\ AlignSize \in Nat \ {0}
    BY GutsAssumption DEF IInv, WithinBuffer
  <2>4. ~(freePtr <= Link(cur))
    <3>1. CASE i < Len(queue[client])
      <4>1. i + 1 \in 1 .. Len(queue[client]) /\ Link(cur) = queue[client][i + 1]
        BY <2>1, <2>2, <3>1, EntryFacts
      <4> QED BY <2>2, <4>1, EntryFacts, BlockFacts DEF InArena
    <3>2. CASE ~(i < Len(queue[client]))
      BY <2>1, <2>2, <2>3, <3>2, EntryFacts DEF NONE
    <3> QED BY <3>1, <3>2
  <2> QED BY <1>10, <1>13, <2>4 DEF WalkEnd
<1> QED BY <1>1, <1>2, <1>3, <1>4, <1>5, <1>6, <1>7, <1>8, <1>9, <1>11, <1>12, <1>13
        DEF Next, Loop

\* The memory manager implements the abstract queues: every allocation hands out
\* a block not in use, every append and every pop is that of a queue.
THEOREM Refinement == ASSUME WideIndex PROVE Spec => ImplementsQueues
<1>1. Init => CQ!CQInit
  BY InitRefines
<1>2. IInv /\ [Next]_vars => [CQ!CQNext]_CQ!cqVars
  BY StepRefines
<1> QED BY <1>1, <1>2, Invariance, PTL DEF Spec, ImplementsQueues, CQ!CQSpec
=============================================================================
