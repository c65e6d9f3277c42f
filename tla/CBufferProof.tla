---------------------------- MODULE CBufferProof ----------------------------
(***************************************************************************)
(* Proofs about CBuffer, for buffers and items of every size: the blocks   *)
(* never overlap, also after crashes, and an empty buffer that has not     *)
(* crashed takes an item of any size.                                      *)
(***************************************************************************)
EXTENDS CBuffer, SequenceTheorems, TLAPS

\* For pointers r and w: block b lies on the upper side of the buffer, or on
\* the lower side (the only side when the pointers do not wrap).
Upper(r, w, b) == r > w /\ r <= b.at /\ End(b) <= Size
Lower(r, w, b) == End(b) <= w /\ (r <= w => r <= b.at)

Placed(r, w, b) == Upper(r, w, b) \/ Lower(r, w, b)

\* Block b comes before block c in the queue.
Ordered(r, w, b, c) ==
    \/ Upper(r, w, b) /\ Lower(r, w, c)
    \/ End(b) <= c.at /\ (Upper(r, w, b) <=> Upper(r, w, c))

InOrder(r, w, s) ==
    /\ \A i \in 1 .. Len(s) : Placed(r, w, s[i])
    /\ \A i, j \in 1 .. Len(s) : i < j => Ordered(r, w, s[i], s[j])

RingInv == RingTypeOK /\ InOrder(read, write, blocks)

LEMMA BlockFacts ==
    ASSUME NEW b \in Block
    PROVE  b.at \in Nat /\ b.size \in Nat \ {0} /\ End(b) \in Nat /\ End(b) > b.at
<1>1. b.at \in 0 .. Size - 1 /\ b.size \in ItemSizes
  BY Zenon DEF Block
<1>2. b.at \in Nat /\ b.size \in Nat \ {0}
  <2>1. Size \in Nat /\ b.size \in 1 .. Size
    BY <1>1, SizeAssumption
  <2>2. QED
    BY <1>1, <2>1
<1>3. QED
  BY <1>2 DEF End

LEMMA RingDisjoint == RingInv => Disjoint
<1> SUFFICES ASSUME RingInv PROVE Disjoint
  OBVIOUS
<1>1. \A i \in 1 .. Len(blocks) : blocks[i] \in Block
  BY DEF RingInv, RingTypeOK
<1>2. \A i \in 1 .. Len(blocks) : /\ blocks[i].at \in Nat
                                  /\ End(blocks[i]) \in Nat
                                  /\ End(blocks[i]) <= Size
  <2> TAKE i \in 1 .. Len(blocks)
  <2>1. Placed(read, write, blocks[i])
    BY DEF RingInv, InOrder
  <2>2. QED
    BY <1>1, <2>1, BlockFacts, SizeAssumption
      DEF RingInv, RingTypeOK, Placed, Upper, Lower
<1>3. ASSUME NEW i \in 1 .. Len(blocks), NEW j \in 1 .. Len(blocks), i < j
      PROVE  \/ End(blocks[i]) <= blocks[j].at
             \/ End(blocks[j]) <= blocks[i].at
  <2>1. Ordered(read, write, blocks[i], blocks[j])
    BY <1>3 DEF RingInv, InOrder
  <2>2. QED
    BY <1>2, <2>1 DEF Ordered, Upper, Lower, RingInv, RingTypeOK
<1>4. QED
  BY <1>2, <1>3 DEF Disjoint

\* What cbuffer_alloc finds is free.
LEMMA AllocFacts ==
    ASSUME RingTypeOK, NEW s \in ItemSizes, NEW at,
           at = AllocAt(read, write, s), at # NoSpace
    PROVE  /\ s \in Nat \ {0} /\ at \in 0 .. Size - 1 /\ at + s \in 0 .. Size
           /\ \/ at = write /\ read <= write
              \/ at = 0 /\ read <= write /\ at + s < read
              \/ at = write /\ write < read /\ at + s < read
BY SizeAssumption DEF AllocAt, RingTypeOK, NoSpace

\* Moving the write pointer over free memory keeps every block in its place.
LEMMA WriteMoves ==
    ASSUME RingInv, NEW s \in ItemSizes, NEW at,
           at = AllocAt(read, write, s), at # NoSpace
    PROVE  InOrder(read, at + s, blocks)
<1>1. \A i \in 1 .. Len(blocks) :
          /\ blocks[i] \in Block /\ blocks[i].at \in Nat /\ End(blocks[i]) \in Nat
          /\ blocks[i].at < End(blocks[i])
  BY BlockFacts DEF RingInv, RingTypeOK
<1>2. /\ read \in 0 .. Size /\ write \in 0 .. Size
      /\ at \in 0 .. Size - 1 /\ at + s \in 0 .. Size /\ s \in Nat \ {0}
      /\ \/ at = write /\ read <= write
         \/ at = 0 /\ read <= write /\ at + s < read
         \/ at = write /\ write < read /\ at + s < read
  BY AllocFacts DEF RingInv, RingTypeOK
<1>3. ASSUME NEW i \in 1 .. Len(blocks)
      PROVE  /\ Placed(read, at + s, blocks[i])
             /\ Upper(read, at + s, blocks[i]) <=>
                    \/ Upper(read, write, blocks[i])
                    \/ at = 0 /\ read <= write /\ at + s < read
  <2>1. Placed(read, write, blocks[i])
    BY DEF RingInv, InOrder
  <2>2. QED
    BY <1>1, <1>2, <2>1, SizeAssumption DEF Placed, Upper, Lower
<1>4. ASSUME NEW i \in 1 .. Len(blocks), NEW j \in 1 .. Len(blocks), i < j
      PROVE  Ordered(read, at + s, blocks[i], blocks[j])
  <2>1. Ordered(read, write, blocks[i], blocks[j])
    BY <1>4 DEF RingInv, InOrder
  <2>2. QED
    BY <1>1, <1>2, <1>3, <2>1, SizeAssumption DEF Ordered, Placed, Upper, Lower
<1>5. QED
  BY <1>3, <1>4 DEF InOrder

LEMMA EnqueueOrder ==
    ASSUME RingInv, NEW s \in ItemSizes, cqueue_enqueue(s)
    PROVE  RingInv'
<1>1. PICK at : at = AllocAt(read, write, s)
  OBVIOUS
<1>2. /\ at # NoSpace /\ write' = at + s /\ read' = read
      /\ blocks' = Append(blocks, [at |-> at, size |-> s])
  BY <1>1 DEF cqueue_enqueue
<1>3. InOrder(read, at + s, blocks)
  BY <1>1, <1>2, WriteMoves
<1>4. PICK b : b = [at |-> at, size |-> s]
  OBVIOUS
<1>5. /\ read \in 0 .. Size /\ write \in 0 .. Size /\ s \in Nat \ {0}
      /\ at \in 0 .. Size - 1 /\ at + s \in 0 .. Size
      /\ \/ at = write /\ read <= write
         \/ at = 0 /\ read <= write /\ at + s < read
         \/ at = write /\ write < read /\ at + s < read
  BY <1>1, <1>2, AllocFacts DEF RingInv, RingTypeOK
<1>6. b \in Block /\ b.at = at /\ End(b) = at + s
  BY <1>4, <1>5 DEF Block, End
<1>7. blocks \in Seq(Block) /\ blocks' = Append(blocks, b)
  BY <1>2, <1>4 DEF RingInv, RingTypeOK
<1>8. RingTypeOK'
  BY <1>2, <1>5, <1>6, <1>7 DEF RingTypeOK
<1>9. /\ Len(blocks') = Len(blocks) + 1
      /\ \A i \in 1 .. Len(blocks) : blocks'[i] = blocks[i]
      /\ blocks'[Len(blocks) + 1] = b /\ Len(blocks) \in Nat
  BY <1>7
<1>10. Placed(read, at + s, b) /\ ~ Upper(read, at + s, b)
  BY <1>5, <1>6 DEF Placed, Upper, Lower
<1>11. ASSUME NEW i \in 1 .. Len(blocks)
       PROVE  Ordered(read, at + s, blocks[i], b)
  <2>1. Placed(read, at + s, blocks[i]) /\ Placed(read, write, blocks[i])
    BY <1>3 DEF InOrder, RingInv
  <2>2. /\ blocks[i] \in Block /\ blocks[i].at \in Nat /\ End(blocks[i]) \in Nat
        /\ blocks[i].at < End(blocks[i])
    BY BlockFacts DEF RingInv, RingTypeOK
  <2>3. QED
    BY <1>5, <1>6, <1>10, <2>1, <2>2, SizeAssumption
      DEF Ordered, Placed, Upper, Lower
<1>12. InOrder(read, at + s, blocks')
  <2>1. ASSUME NEW i \in 1 .. Len(blocks')
        PROVE  Placed(read, at + s, blocks'[i])
    BY <1>3, <1>9, <1>10 DEF InOrder
  <2>2. ASSUME NEW i \in 1 .. Len(blocks'), NEW j \in 1 .. Len(blocks'), i < j
        PROVE  Ordered(read, at + s, blocks'[i], blocks'[j])
    <3>1. i \in 1 .. Len(blocks)
      BY <1>9, <2>2
    <3>2. CASE j \in 1 .. Len(blocks)
      BY <1>3, <1>9, <2>2, <3>1, <3>2 DEF InOrder
    <3>3. CASE j = Len(blocks) + 1
      BY <1>9, <1>11, <3>1, <3>3
    <3>4. QED
      BY <1>9, <3>2, <3>3
  <2>3. QED
    BY <2>1, <2>2 DEF InOrder
<1>13. QED
  BY <1>2, <1>8, <1>12 DEF RingInv

LEMMA CrashInEnqueueOrder ==
    ASSUME RingInv, NEW s \in ItemSizes, CrashInEnqueue(s)
    PROVE  RingInv'
<1>1. PICK at : at = AllocAt(read, write, s)
  OBVIOUS
<1>2. at # NoSpace /\ write' = at + s /\ read' = read /\ blocks' = blocks
  BY <1>1 DEF CrashInEnqueue
<1>3. InOrder(read, at + s, blocks) /\ at + s \in 0 .. Size
  BY <1>1, <1>2, WriteMoves, AllocFacts DEF RingInv
<1>4. QED
  BY <1>2, <1>3 DEF RingInv, RingTypeOK

\* Taking the oldest block off the queue, and moving the read pointer or not.
LEMMA TailOrder ==
    ASSUME RingInv, blocks # <<>>, NEW r, NEW w,
           \/ r = read /\ w = write
           \/ r = End(Head(blocks)) /\ w = write
           \/ r = End(Head(blocks)) /\ r = write /\ w = 0
           \/ End(Head(blocks)) = write /\ r = 0 /\ w = 0
    PROVE  /\ r \in 0 .. Size /\ w \in 0 .. Size
           /\ Tail(blocks) \in Seq(Block) /\ InOrder(r, w, Tail(blocks))
<1>1. PICK b \in Block : b = Head(blocks) /\ b = blocks[1]
  BY HeadTailProperties DEF RingInv, RingTypeOK
<1>2. PICK s \in Seq(Block) : s = Tail(blocks)
  BY HeadTailProperties DEF RingInv, RingTypeOK
<1>3. /\ Len(s) \in Nat /\ Len(blocks) = Len(s) + 1
      /\ \A i \in 1 .. Len(s) : s[i] = blocks[i + 1]
  BY <1>2, HeadTailProperties DEF RingInv, RingTypeOK
<1>4. /\ b.at \in Nat /\ End(b) \in Nat /\ b.at < End(b)
      /\ \A i \in 1 .. Len(s) : /\ s[i].at \in Nat /\ End(s[i]) \in Nat
                                /\ s[i].at < End(s[i])
  BY <1>1, <1>2, BlockFacts
<1>5. read \in 0 .. Size /\ write \in 0 .. Size /\ Size \in Nat
  BY SizeAssumption DEF RingInv, RingTypeOK
<1>6. Placed(read, write, b)
  BY <1>1, <1>3 DEF RingInv, InOrder
<1>7. \A i \in 1 .. Len(s) : /\ Placed(read, write, s[i])
                             /\ Ordered(read, write, b, s[i])
  <2> TAKE i \in 1 .. Len(s)
  <2>1. i + 1 \in 1 .. Len(blocks) /\ 1 \in 1 .. Len(blocks) /\ 1 < i + 1
    BY <1>3
  <2>2. QED
    BY <1>1, <1>3, <2>1 DEF RingInv, InOrder
<1>8. \A i, j \in 1 .. Len(s) : i < j => Ordered(read, write, s[i], s[j])
  <2> SUFFICES ASSUME NEW i \in 1 .. Len(s), NEW j \in 1 .. Len(s), i < j
               PROVE  Ordered(read, write, s[i], s[j])
    OBVIOUS
  <2>1. i + 1 \in 1 .. Len(blocks) /\ j + 1 \in 1 .. Len(blocks) /\ i + 1 < j + 1
    BY <1>3
  <2>2. QED
    BY <1>3, <2>1 DEF RingInv, InOrder
<1>9. r \in 0 .. Size /\ w \in 0 .. Size /\ End(b) <= Size
  BY <1>1, <1>4, <1>5, <1>6 DEF Placed, Upper, Lower
<1>10. CASE r = read /\ w = write
  BY <1>2, <1>7, <1>8, <1>9, <1>10 DEF InOrder
<1>11. CASE End(b) = write
  \* The oldest block is the newest too: there is no block left.
  <2>1. ASSUME NEW i \in 1 .. Len(s)
        PROVE  FALSE
    <3>1. Placed(read, write, s[i]) /\ Ordered(read, write, b, s[i])
      BY <1>7
    <3>2. QED
      BY <1>4, <1>5, <1>6, <1>11, <3>1 DEF Placed, Ordered, Upper, Lower
  <2>2. QED
    BY <1>2, <1>9, <2>1 DEF InOrder
<1>12. CASE r = End(b) /\ w = write /\ End(b) # write
  <2>1. ASSUME NEW i \in 1 .. Len(s)
        PROVE  /\ Placed(r, w, s[i])
               /\ Upper(r, w, s[i]) <=> r > w /\ Upper(read, write, s[i])
    <3>1. Placed(read, write, s[i]) /\ Ordered(read, write, b, s[i])
      BY <1>7
    <3>2. QED
      BY <1>4, <1>5, <1>6, <1>9, <1>12, <3>1 DEF Placed, Ordered, Upper, Lower
  <2>2. ASSUME NEW i \in 1 .. Len(s), NEW j \in 1 .. Len(s), i < j
        PROVE  Ordered(r, w, s[i], s[j])
    <3>1. Ordered(read, write, s[i], s[j])
      BY <1>8, <2>2
    <3>2. /\ Placed(read, write, s[i]) /\ Ordered(read, write, b, s[i])
          /\ Placed(read, write, s[j]) /\ Ordered(read, write, b, s[j])
      BY <1>7
    <3>3. QED
      BY <1>4, <1>5, <1>6, <1>9, <1>12, <2>1, <3>1, <3>2
        DEF Placed, Ordered, Upper, Lower
  <2>3. QED
    BY <1>2, <1>9, <2>1, <2>2 DEF InOrder
<1>13. QED
  BY <1>1, <1>10, <1>11, <1>12

LEMMA RingNextFree == RingInv => NextIsFree
<1> SUFFICES ASSUME RingInv, NEW s \in ItemSizes, NEW i \in 1 .. Len(blocks), NEW at,
                    at = AllocAt(read, write, s), at # NoSpace
             PROVE  at + s <= blocks[i].at \/ End(blocks[i]) <= at
  BY DEF NextIsFree
<1>1. Placed(read, write, blocks[i])
  BY DEF RingInv, InOrder
<1>2. /\ blocks[i].at \in Nat /\ End(blocks[i]) \in Nat
      /\ blocks[i].at < End(blocks[i])
  BY BlockFacts DEF RingInv, RingTypeOK
<1>3. /\ read \in 0 .. Size /\ write \in 0 .. Size
      /\ s \in Nat \ {0} /\ at \in 0 .. Size - 1
      /\ \/ at = write /\ read <= write
         \/ at = 0 /\ read <= write /\ at + s < read
         \/ at = write /\ write < read /\ at + s < read
  BY AllocFacts DEF RingInv, RingTypeOK
<1>4. QED
  BY <1>1, <1>2, <1>3, SizeAssumption DEF Placed, Upper, Lower

LEMMA RingInvInit == RingInit => RingInv
<1> SUFFICES ASSUME RingInit PROVE RingInv
  OBVIOUS
<1>1. blocks = <<>> /\ Len(blocks) = 0 /\ blocks \in Seq(Block)
  BY DEF RingInit
<1>2. QED
  BY <1>1, SizeAssumption DEF RingInit, RingInv, RingTypeOK, InOrder

LEMMA RingInvStep == RingInv /\ [RingNext]_ringVars => RingInv'
<1> SUFFICES ASSUME RingInv, [RingNext]_ringVars PROVE RingInv'
  OBVIOUS
<1>1. CASE cqueue_dequeue
  <2>1. blocks' = Tail(blocks) /\ blocks # <<>>
    BY <1>1 DEF cqueue_dequeue
  <2>2. QED
    BY <1>1, <2>1, TailOrder DEF cqueue_dequeue, RingInv, RingTypeOK
<1>2. CASE CrashInDequeue
  <2>1. blocks' = Tail(blocks) /\ blocks # <<>>
    BY <1>2 DEF CrashInDequeue
  <2>2. QED
    BY <1>2, <2>1, TailOrder DEF CrashInDequeue, RingInv, RingTypeOK
<1>3. CASE cqueue_init
  <2>1. /\ read' = 0 /\ write' = 0 /\ blocks' = <<>>
        /\ Len(blocks') = 0 /\ blocks' \in Seq(Block)
    BY <1>3 DEF cqueue_init
  <2>2. QED
    BY <2>1, SizeAssumption DEF RingInv, RingTypeOK, InOrder
<1>4. CASE UNCHANGED ringVars
  BY <1>4 DEF ringVars, RingInv, RingTypeOK
<1>5. QED
  BY <1>1, <1>2, <1>3, <1>4, EnqueueOrder, CrashInEnqueueOrder DEF RingNext

\* Items never overlap and never leave the buffer, for every size of the buffer
\* and of the items, however often the pointers wrap and the system crashes.
THEOREM BlocksDisjoint == RingSpec => []Disjoint
<1>1. RingSpec => []RingInv
  BY RingInvInit, RingInvStep, PTL DEF RingSpec
<1>2. QED
  BY <1>1, RingDisjoint, PTL

\* What cbuffer_alloc returns is never part of an item, for every size of the
\* buffer and of the items, and after crashes too.
THEOREM AllocatesFree == RingSpec => []NextIsFree
<1>1. RingSpec => []RingInv
  BY RingInvInit, RingInvStep, PTL DEF RingSpec
<1>2. QED
  BY <1>1, RingNextFree, PTL

\* The write pointer follows the newest block; both pointers are at the start
\* when there is none.
TightInv ==
    IF blocks = <<>> THEN read = 0 /\ write = 0
                     ELSE End(blocks[Len(blocks)]) = write

\* Only the newest block ends at the write pointer.
LEMMA NewestLast ==
    ASSUME RingInv, NEW i \in 1 .. Len(blocks), End(blocks[i]) = write
    PROVE  i = Len(blocks)
<1>1. PICK n : n = Len(blocks)
  OBVIOUS
<1>2. n \in Nat /\ n \in 1 .. Len(blocks)
  BY <1>1 DEF RingInv, RingTypeOK
<1>3. SUFFICES ASSUME i < n PROVE FALSE
  BY <1>1, <1>2
<1>4. /\ Ordered(read, write, blocks[i], blocks[n])
      /\ Placed(read, write, blocks[i]) /\ Placed(read, write, blocks[n])
  BY <1>2, <1>3 DEF RingInv, InOrder
<1>5. /\ blocks[i].at \in Nat /\ End(blocks[i]) > blocks[i].at
      /\ blocks[n].at \in Nat /\ End(blocks[n]) > blocks[n].at
      /\ End(blocks[i]) \in Nat /\ End(blocks[n]) \in Nat
  BY <1>2, BlockFacts DEF RingInv, RingTypeOK
<1>6. read \in Nat /\ write \in Nat /\ Size \in Nat
  BY SizeAssumption DEF RingInv, RingTypeOK
<1>7. QED
  BY <1>4, <1>5, <1>6 DEF Ordered, Placed, Upper, Lower

LEMMA TightStep ==
    ASSUME ~ Crashes
    PROVE  RingInv /\ TightInv /\ [RingNext]_ringVars => TightInv'
<1> SUFFICES ASSUME RingInv, TightInv, [RingNext]_ringVars PROVE TightInv'
  OBVIOUS
<1>1. ASSUME NEW s \in ItemSizes, cqueue_enqueue(s)
      PROVE  TightInv'
  <2>1. PICK at : at = AllocAt(read, write, s)
    OBVIOUS
  <2>2. PICK b : b = [at |-> at, size |-> s]
    OBVIOUS
  <2>3. write' = at + s /\ blocks' = Append(blocks, b) /\ End(b) = at + s
    BY <1>1, <2>1, <2>2 DEF cqueue_enqueue, End
  <2>4. at # NoSpace
    BY <1>1, <2>1 DEF cqueue_enqueue
  <2>5. at \in 0 .. Size - 1
    BY <2>1, <2>4, AllocFacts DEF RingInv
  <2>6. b \in Block
    BY <2>2, <2>5 DEF Block
  <2>7. blocks' # <<>> /\ blocks'[Len(blocks')] = b
    BY <2>3, <2>6 DEF RingInv, RingTypeOK
  <2>8. QED
    BY <2>3, <2>7 DEF TightInv
<1>2. CASE cqueue_dequeue
  <2>1. /\ blocks # <<>> /\ blocks' = Tail(blocks)
        /\ IF End(Head(blocks)) = write THEN read' = 0 /\ write' = 0
                                        ELSE write' = write
    BY <1>2 DEF cqueue_dequeue
  <2>2. PICK s \in Seq(Block) : s = Tail(blocks)
    BY <2>1, HeadTailProperties DEF RingInv, RingTypeOK
  <2>3. /\ Head(blocks) = blocks[1] /\ Len(s) \in Nat /\ Len(blocks) = Len(s) + 1
        /\ \A i \in 1 .. Len(s) : s[i] = blocks[i + 1]
    BY <2>1, <2>2, HeadTailProperties DEF RingInv, RingTypeOK
  <2>4. s = <<>> <=> Len(s) = 0
    BY EmptySeq
  <2>5. CASE End(Head(blocks)) = write
    <3>1. 1 \in 1 .. Len(blocks) /\ End(blocks[1]) = write
      BY <2>3, <2>5
    <3>2. 1 = Len(blocks)
      BY <3>1, NewestLast
    <3>3. QED
      BY <2>1, <2>2, <2>3, <2>4, <2>5, <3>2 DEF TightInv
  <2>6. CASE End(Head(blocks)) # write
    <3>1. End(blocks[Len(blocks)]) = write
      BY <2>1 DEF TightInv
    <3>2. Len(blocks) # 1
      BY <2>3, <2>6, <3>1
    <3>3. Len(s) \in 1 .. Len(s) /\ Len(s) + 1 = Len(blocks) /\ s # <<>>
      BY <2>3, <2>4, <3>2
    <3>4. s[Len(s)] = blocks[Len(blocks)]
      BY <2>3, <3>3
    <3>5. QED
      BY <2>1, <2>2, <2>6, <3>1, <3>3, <3>4 DEF TightInv
  <2>7. QED
    BY <2>5, <2>6
<1>3. CASE cqueue_init
  BY <1>3 DEF cqueue_init, TightInv
<1>4. CASE UNCHANGED ringVars
  BY <1>4 DEF ringVars, TightInv
<1>5. QED
  BY <1>1, <1>2, <1>3, <1>4 DEF RingNext, CrashInEnqueue, CrashInDequeue

\* Without crashes nothing of the buffer is lost: when it is empty, an item of
\* any size has room.
THEOREM EmptyTakesAll ==
    ASSUME ~ Crashes
    PROVE  RingSpec => []EmptyIsWhole
<1>1. RingInit => TightInv
  BY DEF RingInit, TightInv
<1>2. TightInv => EmptyIsWhole
  <2>1. \A s \in ItemSizes : Size - 0 >= s /\ s \in Nat
    BY SizeAssumption
  <2>2. QED
    BY <2>1 DEF TightInv, EmptyIsWhole, AllocAt, NoSpace
<1>3. RingSpec => [](RingInv /\ TightInv)
  BY <1>1, RingInvInit, RingInvStep, TightStep, PTL DEF RingSpec
<1>4. QED
  BY <1>2, <1>3, PTL

=============================================================================
