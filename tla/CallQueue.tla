----------------------------- MODULE CallQueue -----------------------------
(***************************************************************************)
(* What the memory manager of CMock promises to the generated mocks: every *)
(* mock function owns a FIFO of call instances, an instance is in at most  *)
(* one FIFO, and an instance that was handed out is not handed out again   *)
(* until everything is freed.  No addresses, no links, no arena.           *)
(***************************************************************************)
EXTENDS Naturals, Sequences

CONSTANTS
    Roots,      \* the mock functions: one CallInstance root each
    Blocks,     \* the names an allocated instance may have
    NONE        \* CMOCK_GUTS_NONE, the name no instance has

VARIABLES
    live,       \* the instances handed out since the last Reset
    held,       \* the instance handed out but not queued yet, or NONE
    queue       \* the FIFO of each mock function

cqVars == <<live, held, queue>>

CQTypeOK ==
    /\ live \in SUBSET Blocks
    /\ held \in live \cup {NONE}
    /\ queue \in [Roots -> Seq(live)]

CQInit ==
    /\ live = {}
    /\ held = NONE
    /\ queue = [r \in Roots |-> <<>>]

\* An instance that is not live is handed out.
Allocate ==
    /\ held = NONE
    /\ \E b \in Blocks \ live : live' = live \cup {b} /\ held' = b
    /\ UNCHANGED queue

\* The held instance becomes the last one of a queue.
Enqueue(r) ==
    /\ held # NONE
    /\ queue' = [queue EXCEPT ![r] = Append(@, held)]
    /\ held' = NONE
    /\ UNCHANGED live

\* The oldest instance of a queue is consumed; it stays live.
Dequeue(r) ==
    /\ queue[r] # <<>>
    /\ queue' = [queue EXCEPT ![r] = Tail(@)]
    /\ UNCHANGED <<live, held>>

\* A queue is forgotten as a whole; its instances stay live.
Drop(r) ==
    /\ queue' = [queue EXCEPT ![r] = <<>>]
    /\ UNCHANGED <<live, held>>

\* Everything is freed at once.
Reset ==
    /\ live' = {}
    /\ held' = NONE
    /\ queue' = [r \in Roots |-> <<>>]

CQNext ==
    \/ Allocate
    \/ Reset
    \/ \E r \in Roots : Enqueue(r) \/ Dequeue(r) \/ Drop(r)

CQSpec == CQInit /\ [][CQNext]_cqVars
=============================================================================
