-------------------------------- MODULE Guts --------------------------------
(***************************************************************************)
(* The memory manager of CMock (src/cmock.c), driven the way the generated *)
(* mocks drive it.  One arena serves every mock function: it only grows    *)
(* until it is freed as a whole, and the word in front of a block links it *)
(* to the next instance of the same function.  The two loops of the code,  *)
(* the walk of MemChain to the end of a chain and that of MemEndOfChain,   *)
(* are modelled one iteration per step.                                    *)
(*                                                                         *)
(* Addresses are byte offsets.  mem[a] is the word that starts at a; a     *)
(* write of a body sets the word at each of its offsets to one value.      *)
(* owner and queue are history variables: no guard reads them.             *)
(***************************************************************************)
EXTENDS Naturals, Sequences

CONSTANTS
    Roots,          \* the mock functions, one <name>_CallInstance each
    InstanceSize,   \* sizeof(CMOCK_<name>_CALL_INSTANCE), per function
    Data,           \* the words a body may hold
    MemSize,        \* CMOCK_MEM_SIZE
    AlignSize,      \* CMOCK_MEM_ALIGN_SIZE
    IndexSize,      \* CMOCK_MEM_INDEX_SIZE
    IndexRange,     \* CMOCK_MEM_INDEX_TYPE holds 0 .. IndexRange - 1
    HeapLimit,      \* realloc() cannot give more bytes than this
    Dynamic         \* CMOCK_MEM_DYNAMIC, else CMOCK_MEM_STATIC

NONE == 0

ASSUME GutsAssumption ==
    /\ NONE \in Data /\ Data \subseteq Nat
    /\ InstanceSize \in [Roots -> Nat \ {0}]
    /\ MemSize \in Nat
    /\ AlignSize \in {1, 2, 4, 8, 16} /\ AlignSize <= HeapLimit
    /\ IndexSize \in Nat /\ IndexSize >= AlignSize /\ IndexSize % AlignSize = 0
    /\ IndexRange \in Nat /\ HeapLimit \in Nat /\ HeapLimit < IndexRange
    /\ Dynamic \in BOOLEAN
    /\ ~Dynamic => MemSize + AlignSize <= HeapLimit

Offsets == 0 .. HeapLimit - 1
Indexes == 0 .. IndexRange - 1

VARIABLES
    bufferSize,     \* CMock_Guts_BufferSize
    freePtr,        \* CMock_Guts_FreePtr
    heap,           \* the bytes behind CMock_Guts_Buffer, 0 when it is NULL
    mem,            \* their contents
    root,           \* Mock.<name>_CallInstance of every function
    pc,             \* the call in progress
    client,         \* the function it is made for
    obj,            \* cmock_guts_index of an expectation being added
    cur,            \* where a loop stands in the chain
    owner,          \* history: the function of every block since the last free
    queue           \* history: the blocks each root should still lead to

arena == <<bufferSize, freePtr, heap>>
call == <<pc, client, obj, cur>>
history == <<owner, queue>>
vars == <<bufferSize, freePtr, heap, mem, root, pc, client, obj, cur, owner, queue>>

Blocks == DOMAIN owner

-----------------------------------------------------------------------------
(* Arithmetic of CMOCK_MEM_INDEX_TYPE, an unsigned type.                   *)

Add(a, b) == IF a + b < IndexRange THEN a + b ELSE a + b - IndexRange
Sub(a, b) == IF b <= a THEN a - b ELSE a + IndexRange - b

RoundUp(n) ==
    IF n % AlignSize = 0 THEN n
    ELSE LET m == Add(n, AlignSize - 1) IN m - (m % AlignSize)

\* Mutants: the padding, or the link word, is forgotten.
SpanUnpadded(r) == Add(InstanceSize[r], IndexSize)
SpanUnlinked(r) == RoundUp(InstanceSize[r])

\* The bytes MemNew takes for an instance of r: link word, body, padding.
Span(r) == RoundUp(Add(InstanceSize[r], IndexSize))

\* CMock_Guts_MemBytesCapacity, _MemBytesFree and _MemBytesUsed.
BytesCapacity == Sub(bufferSize, AlignSize)
BytesFree == Sub(bufferSize, freePtr)
BytesUsed == Sub(freePtr, AlignSize)

InArena(i) == AlignSize <= i /\ i < freePtr
Link(i) == mem[i - IndexSize]

\* CMock_Guts_MemNext.
MemNext(i) ==
    IF InArena(i) /\ 1 < Link(i) /\ Link(i) < freePtr THEN Link(i) ELSE NONE

Body(i, r) == i .. i + InstanceSize[r] - 1

-----------------------------------------------------------------------------
Init ==
    /\ bufferSize = IF Dynamic THEN AlignSize ELSE MemSize + AlignSize
    /\ freePtr = AlignSize
    /\ heap = IF Dynamic THEN 0 ELSE MemSize + AlignSize
    /\ mem = [a \in Offsets |-> 0]
    /\ root = [r \in Roots |-> NONE]
    /\ pc = "idle"
    /\ client \in Roots
    /\ obj = NONE
    /\ cur = NONE
    /\ owner = [b \in {} |-> client]
    /\ queue = [r \in Roots |-> <<>>]

\* Mutants: the link of a new block is not cleared; FreePtr does not advance.
CarveUncleared(r, contents) ==
    LET b == Add(freePtr, IndexSize) IN
    /\ \E d \in Data :
         mem' = [a \in Offsets |-> IF a \in Body(b, r) THEN d ELSE contents[a]]
    /\ freePtr' = Add(freePtr, Span(r))
    /\ pc' = "chain" /\ client' = r /\ obj' = b
    /\ owner' = [c \in Blocks \cup {b} |-> IF c = b THEN r ELSE owner[c]]
    /\ UNCHANGED <<root, cur, queue>>
CarveInPlace(r, contents) ==
    LET b == Add(freePtr, IndexSize) IN
    /\ mem' = [a \in Offsets |-> IF a \in Body(b, r) THEN 0 ELSE contents[a]]
    /\ pc' = "chain" /\ client' = r /\ obj' = b
    /\ owner' = [c \in Blocks \cup {b} |-> IF c = b THEN r ELSE owner[c]]
    /\ UNCHANGED <<freePtr, root, cur, queue>>

\* MemNew succeeds: the block starts at FreePtr, its link is cleared, and the
\* caller clears the instance (memset) and then fills it in.
Carve(r, contents) ==
    LET b == Add(freePtr, IndexSize) IN
    /\ \E d \in Data :
         mem' = [a \in Offsets |->
                   IF a \in freePtr .. freePtr + IndexSize - 1 THEN 0
                   ELSE IF a \in Body(b, r) THEN d ELSE contents[a]]
    /\ freePtr' = Add(freePtr, Span(r))
    /\ pc' = "chain"
    /\ client' = r
    /\ obj' = b
    /\ owner' = [c \in Blocks \cup {b} |-> IF c = b THEN r ELSE owner[c]]
    /\ UNCHANGED <<root, cur, queue>>

\* CMock_Guts_MemNew, enough room.
NewFits(r) ==
    /\ pc = "idle"
    /\ Span(r) <= BytesFree
    /\ Carve(r, mem)
    /\ UNCHANGED <<bufferSize, heap>>

\* CMock_Guts_MemNew, not enough room: realloc() gives a larger buffer whose
\* new bytes hold anything.
NewGrows(r) ==
    LET grown == Add(Add(bufferSize, MemSize), Span(r)) IN
    /\ pc = "idle"
    /\ Dynamic
    /\ BytesFree < Span(r)
    /\ grown <= HeapLimit
    /\ bufferSize' = grown
    /\ heap' = grown
    /\ \E junk \in Data :
         Carve(r, [a \in Offsets |-> IF a < heap THEN mem[a] ELSE junk])

\* CMock_Guts_MemNew, no memory: the mock fails the test (OutOfMemory).
NewRefused(r) ==
    /\ pc = "idle"
    /\ BytesFree < Span(r)
    /\ pc' = "aborted"
    /\ UNCHANGED <<arena, mem, root, client, obj, cur, history>>

Return == pc' = "idle" /\ obj' = NONE /\ cur' = NONE /\ UNCHANGED client

Enqueued(r, b) == queue' = [queue EXCEPT ![r] = Append(@, b)]

\* CMock_Guts_MemChain without a root: the new block is the chain.
ChainFirst ==
    /\ pc = "chain"
    /\ root[client] = NONE
    /\ root' = [root EXCEPT ![client] = obj]
    /\ Enqueued(client, obj)
    /\ Return
    /\ UNCHANGED <<arena, mem, owner>>

\* CMock_Guts_MemChain with a root: both indexes are checked, then the walk
\* starts at the root.  An illegal index makes the caller lose its chain.
ChainEnter ==
    /\ pc = "chain"
    /\ root[client] # NONE
    /\ IF InArena(root[client]) /\ InArena(obj)
       THEN /\ pc' = "walk"
            /\ cur' = root[client]
            /\ UNCHANGED <<root, client, obj>>
       ELSE /\ root' = [root EXCEPT ![client] = NONE]
            /\ Return
    /\ UNCHANGED <<arena, mem, history>>

\* One more iteration of MemChain's do-while loop.
WalkOn ==
    /\ pc = "walk"
    /\ 0 < Link(cur) /\ Link(cur) < freePtr
    /\ cur' = Link(cur)
    /\ UNCHANGED <<arena, mem, root, pc, client, obj, history>>

\* The loop ends: the last block gets linked to the new one, or an illegal link
\* makes the caller lose its chain.
WalkEnd ==
    /\ pc = "walk"
    /\ IF freePtr <= Link(cur)
       THEN /\ root' = [root EXCEPT ![client] = NONE]
            /\ UNCHANGED <<mem, queue>>
       ELSE /\ Link(cur) = 0
            /\ mem' = [mem EXCEPT ![cur - IndexSize] = obj]
            /\ Enqueued(client, obj)
            /\ UNCHANGED root
    /\ Return
    /\ UNCHANGED <<arena, owner>>

\* A mock call consumes the oldest instance of its chain.
Pop(r) ==
    /\ pc = "idle"
    /\ root' = [root EXCEPT ![r] = MemNext(@)]
    /\ queue' = [queue EXCEPT ![r] = IF @ = <<>> THEN @ ELSE Tail(@)]
    /\ UNCHANGED <<arena, mem, call, owner>>

\* The stateless IgnoreAndReturn forgets the chain.
Forget(r) ==
    /\ pc = "idle"
    /\ root' = [root EXCEPT ![r] = NONE]
    /\ queue' = [queue EXCEPT ![r] = <<>>]
    /\ UNCHANGED <<arena, mem, call, owner>>

\* CMock_Guts_MemEndOfChain, called to modify the newest instance of r.
EndEnter(r) ==
    /\ pc = "idle"
    /\ pc' = "end"
    /\ client' = r
    /\ cur' = root[r]
    /\ UNCHANGED <<arena, mem, root, obj, history>>

\* Mutant: the loop of MemEndOfChain asks for the successor of the root.
EndOnRoot ==
    /\ pc = "end"
    /\ MemNext(cur) # NONE
    /\ cur' = MemNext(root[client])
    /\ UNCHANGED <<arena, mem, root, pc, client, obj, history>>

EndOn ==
    /\ pc = "end"
    /\ MemNext(cur) # NONE
    /\ cur' = MemNext(cur)
    /\ UNCHANGED <<arena, mem, root, pc, client, obj, history>>

\* CMock_Guts_GetAddressFor: NULL fails the test, an instance is modified.
EndFound ==
    /\ pc = "end"
    /\ MemNext(cur) = NONE
    /\ InArena(cur)
    /\ \E d \in Data :
         mem' = [a \in Offsets |-> IF a \in Body(cur, client) THEN d ELSE mem[a]]
    /\ Return
    /\ UNCHANGED <<arena, root, history>>

EndMissing ==
    /\ pc = "end"
    /\ MemNext(cur) = NONE
    /\ ~InArena(cur)
    /\ pc' = "aborted"
    /\ UNCHANGED <<arena, mem, root, client, obj, cur, history>>

Freed ==
    /\ root' = [r \in Roots |-> NONE]
    /\ owner' = [b \in {} |-> client]
    /\ queue' = [r \in Roots |-> <<>>]
    /\ obj' = NONE
    /\ cur' = NONE
    /\ freePtr' = AlignSize
    /\ UNCHANGED <<bufferSize, mem, client>>

\* CMock_Guts_MemFreeAll, between two tests: every mock module is destroyed
\* before one is used again.  What the arena held stays in its bytes.
FreeAll ==
    /\ pc \in {"idle", "aborted"}
    /\ pc' = "idle"
    /\ UNCHANGED heap
    /\ Freed

\* CMock_Guts_MemFreeFinal, after the last test.
FreeFinal ==
    /\ pc \in {"idle", "aborted"}
    /\ pc' = "exited"
    /\ heap' = IF Dynamic THEN 0 ELSE heap
    /\ Freed

Loop == ChainFirst \/ ChainEnter \/ WalkOn \/ WalkEnd \/ EndOn \/ EndFound \/ EndMissing

Next ==
    \/ Loop
    \/ FreeAll
    \/ FreeFinal
    \/ \E r \in Roots :
         \/ NewFits(r) \/ NewGrows(r) \/ NewRefused(r)
         \/ Pop(r) \/ Forget(r) \/ EndEnter(r)

\* A call into the memory manager runs to its end; nothing else must happen.
Spec == Init /\ [][Next]_vars /\ WF_vars(Loop)

-----------------------------------------------------------------------------
(* Properties.                                                             *)

TypeOK ==
    /\ bufferSize \in Indexes /\ freePtr \in Indexes /\ heap \in Indexes
    /\ mem \in [Offsets -> Nat]
    /\ root \in [Roots -> Nat]
    /\ pc \in {"idle", "chain", "walk", "end", "aborted", "exited"}
    /\ client \in Roots
    /\ obj \in Nat /\ cur \in Nat
    /\ Blocks \subseteq Nat /\ owner \in [Blocks -> Roots]
    /\ queue \in [Roots -> Seq(Blocks)]

\* The buffer the code believes in is the buffer it has, and every block, link
\* word included, lies inside it, below FreePtr and aligned.
WithinBuffer ==
    /\ AlignSize <= freePtr /\ freePtr <= bufferSize
    /\ pc # "exited" /\ bufferSize # AlignSize => bufferSize <= heap
    /\ \A b \in Blocks :
         /\ AlignSize <= b - IndexSize /\ b + InstanceSize[owner[b]] <= freePtr
         /\ b % AlignSize = 0

\* No two blocks overlap, the link word of one and the body of another
\* included: filling in an instance never corrupts a chain, and an instance a
\* mock call has popped keeps its contents while a callback queues more.
NoOverlap ==
    \A b, c \in Blocks :
        b < c => b + InstanceSize[owner[b]] <= c - IndexSize

\* The links in memory are the queues: a root is the oldest block still
\* expected, each block links to the one queued after it and the newest links
\* to nothing, although no link is ever erased when the arena is freed.
ChainsAreQueues ==
    \A r \in Roots :
        /\ queue[r] = <<>> => root[r] = NONE
        /\ queue[r] # <<>> => root[r] = queue[r][1]
        /\ \A i \in 1 .. Len(queue[r]) :
             /\ owner[queue[r][i]] = r
             /\ Link(queue[r][i]) =
                  IF i < Len(queue[r]) THEN queue[r][i + 1] ELSE NONE

\* The memory manager implements the queues of CallQueue.
CQ == INSTANCE CallQueue WITH
        Blocks <- Indexes \ {NONE},
        live <- Blocks,
        held <- IF pc \in {"chain", "walk"} THEN obj ELSE NONE
ImplementsQueues == CQ!CQSpec

\* The two loops over a chain end: chains have no cycle.
LoopsEnd == pc \in {"chain", "walk", "end"} ~> pc \in {"idle", "aborted"}

-----------------------------------------------------------------------------
(* What makes the invariants inductive.                                    *)

\* The numbers of the arena stay where IndexRange does not matter.
ArenaInv ==
    /\ freePtr % AlignSize = 0
    /\ bufferSize <= HeapLimit
    /\ heap <= HeapLimit
    /\ pc = "exited" => Blocks = {}

\* A block being added is the newest one, ends its chain and is in no queue.
HeldInv ==
    pc \in {"chain", "walk"} =>
        /\ obj \in Blocks /\ owner[obj] = client /\ Link(obj) = NONE
        /\ \A b \in Blocks : b <= obj
        /\ \A r \in Roots : \A i \in 1 .. Len(queue[r]) : queue[r][i] < obj

\* A loop stands on a block of the chain it walks.
CursorInv ==
    /\ pc = "walk" => \E i \in 1 .. Len(queue[client]) : cur = queue[client][i]
    /\ pc = "end" =>
         \/ queue[client] = <<>> /\ cur = NONE
         \/ \E i \in 1 .. Len(queue[client]) : cur = queue[client][i]

\* Links lead to younger blocks only, which have higher addresses.
OrderInv ==
    \A r \in Roots : \A i, j \in 1 .. Len(queue[r]) :
        i < j => queue[r][i] < queue[r][j]

IInv ==
    /\ TypeOK /\ WithinBuffer /\ NoOverlap /\ ChainsAreQueues
    /\ ArenaInv /\ HeldInv /\ CursorInv /\ OrderInv

\* The index type counts beyond the end of the largest buffer asked for.
WideIndex ==
    \A r \in Roots :
        HeapLimit + MemSize + InstanceSize[r] + IndexSize + AlignSize < IndexRange
=============================================================================
