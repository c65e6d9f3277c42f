------------------------------- MODULE CBuffer -------------------------------
(***************************************************************************)
(* The cyclic memory of src/common/cbuffer.c as its users are to see it: a *)
(* queue of blocks in a buffer of Size dwords, with the two pointers from  *)
(* which cbuffer_alloc and cbuffer_free compute where the next block goes. *)
(* A block is allocated and queued, or unqueued and released, in one step; *)
(* a crash may fall in between, and the memory survives it.                *)
(***************************************************************************)
EXTENDS Integers, Sequences

CONSTANTS
    Size,       \* dwords of the buffer
    ItemSizes,  \* the sizes of items, header included
    Crashes     \* the system may crash inside an operation

ASSUME SizeAssumption ==
    /\ Size \in Nat \ {0}
    /\ ItemSizes \subseteq 1 .. Size
    /\ Crashes \in BOOLEAN

VARIABLES
    read,   \* cb->read and
    write,  \* cb->write, as offsets from cb->start
    blocks  \* the items from the oldest to the newest

ringVars == <<read, write, blocks>>

Block == [at : 0 .. Size - 1, size : ItemSizes]
End(b) == b.at + b.size

NoSpace == -1

\* Mutant: the wrapped block may fill the space up to the read pointer.
AllocNoGap(r, w, s) ==
    IF w >= r
    THEN IF Size - w >= s THEN w ELSE IF r >= s THEN 0 ELSE NoSpace
    ELSE IF r - w >= s THEN w ELSE NoSpace

\* cbuffer_alloc with pointers r and w: the place of a block of s dwords.
\* Equal pointers mean "empty", so a wrapped block leaves a gap before r.
AllocAt(r, w, s) ==
    IF w >= r
    THEN IF Size - w >= s THEN w ELSE IF r > s THEN 0 ELSE NoSpace
    ELSE IF r - w > s THEN w ELSE NoSpace

RingInit == read = 0 /\ write = 0 /\ blocks = <<>>

cqueue_enqueue(s) ==
    LET at == AllocAt(read, write, s) IN
    /\ at # NoSpace
    /\ write' = at + s
    /\ blocks' = Append(blocks, [at |-> at, size |-> s])
    /\ UNCHANGED read

\* cbuffer_free up to the end of the oldest block; the pointers of an empty
\* buffer are reset.
cqueue_dequeue ==
    LET r == End(Head(blocks)) IN
    /\ blocks # <<>>
    /\ blocks' = Tail(blocks)
    /\ IF r = write THEN read' = 0 /\ write' = 0
                    ELSE read' = r /\ UNCHANGED write

cqueue_init == read' = 0 /\ write' = 0 /\ blocks' = <<>>

\* A crash in cqueue_enqueue: memory was allocated but no block queued.
CrashInEnqueue(s) ==
    LET at == AllocAt(read, write, s) IN
    /\ Crashes
    /\ at # NoSpace
    /\ write' = at + s
    /\ UNCHANGED <<read, blocks>>

\* A crash in cqueue_dequeue: the block has left the queue, its memory may not
\* have been released, or only one of the pointers reset.
CrashInDequeue ==
    LET r == End(Head(blocks)) IN
    /\ Crashes
    /\ blocks # <<>>
    /\ blocks' = Tail(blocks)
    /\ \/ UNCHANGED <<read, write>>
       \/ read' = r /\ UNCHANGED write
       \/ read' = r /\ r = write /\ write' = 0

RingNext ==
    \/ \E s \in ItemSizes : cqueue_enqueue(s) \/ CrashInEnqueue(s)
    \/ cqueue_dequeue \/ CrashInDequeue
    \/ cqueue_init

RingSpec == RingInit /\ [][RingNext]_ringVars

-----------------------------------------------------------------------------
RingTypeOK ==
    /\ read \in 0 .. Size
    /\ write \in 0 .. Size
    /\ blocks \in Seq(Block)

\* No two blocks overlap, and none leaves the buffer: an item that is written
\* never damages another, wherever the pointers have wrapped.
Disjoint ==
    /\ \A i \in 1 .. Len(blocks) : End(blocks[i]) <= Size
    /\ \A i, j \in 1 .. Len(blocks) : i < j =>
           \/ End(blocks[i]) <= blocks[j].at
           \/ End(blocks[j]) <= blocks[i].at

\* The place of the next item is free: an append never damages an item, also
\* when a reset has cut off the operations before it.
NextIsFree ==
    \A s \in ItemSizes, i \in 1 .. Len(blocks) :
        LET at == AllocAt(read, write, s) IN
        \/ at = NoSpace
        \/ at + s <= blocks[i].at
        \/ End(blocks[i]) <= at

\* Without a crash the memory of an empty queue is whole again: an item of any
\* size that fits the buffer fits it then.
EmptyIsWhole ==
    blocks = <<>> => \A s \in ItemSizes : AllocAt(read, write, s) # NoSpace
=============================================================================
