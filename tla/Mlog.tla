-------------------------------- MODULE Mlog ---------------------------------
(***************************************************************************)
(* The memory log: src/common/mlog.c on the queue of src/common/cbuffer.c. *)
(* The queue, its pointers and its items are in memory that survives a     *)
(* reset ("Intended for uninitialised memory to be persistent across       *)
(* resets"), which may come between any two stores; mlog_init then decides *)
(* whether what it finds is a queue.  Every store that a crash can tell    *)
(* apart is an action.  Stores reach the memory in program order.  The     *)
(* variables of CBuffer are the ring as it was when the mutex was last     *)
(* free: what the stores have done, seen from outside.                     *)
(*                                                                         *)
(* An address is an offset in dwords; a header is one dword wide.  What a  *)
(* message holds never looks like a header.                                *)
(***************************************************************************)
EXTENDS CBuffer, FiniteSets

CONSTANTS
    Tries,      \* "cnt" of _append: 10
    CrashAt     \* the steps before which the system may be reset

VARIABLES
    head,   \* cq->next, the oldest item
    tail,   \* cq->prev, the newest item
    count,  \* cq->count
    cb_read,   \* cq->cb.read
    cb_write,  \* cq->cb.write
    mem,    \* the headers in the log buffer
    pc,     \* the next store of the writer, which has _mlog_mutex
    item,   \* the item the writer is at, then the end of the one it frees
    size,   \* the size of the item to append
    tries,  \* cnt
    it,     \* the iterator of a reader
    got,    \* the reader holds _mlog_mutex: mlog_itertor_get gave it a message
    leaked  \* history: since cqueue_init a crash may have lost free memory

links == <<head, tail, count>>
ring == <<cb_read, cb_write>>
writer == <<item, size, tries>>
reader == <<it, got>>
detail == <<links, ring, mem, pc, writer, reader, leaked>>
vars == <<detail, ringVars>>

Addr == 0 .. Size - 1
Queue == -1     \* the address of the queue itself, where both lists end
Junk == -2      \* no address: text or filling read as a pointer
None == -3      \* an iterator at its end

Header == [next : Addr \cup {Queue, Junk}, prev : Addr \cup {Queue, Junk},
           size : ItemSizes \cup {0}, magic : BOOLEAN, data : {"fill", "zero", "msg"}]

\* A dword that is not the start of an item: CBUFFER_FILL, or cleared.
Fill == [next |-> Junk, prev |-> Junk, size |-> 0, magic |-> FALSE, data |-> "fill"]
Zero == [Fill EXCEPT !.data = "zero"]

Labels == {"idle", "alloc",
           "clear", "linkPrev", "linkTail", "setSize", "setMagic", "counted", "text",
           "unlinkHead", "unlinkPrev", "unmagic", "fill", "setRead",
           "resetWrite", "resetRead", "uncount",
           "initWrite", "initRead", "initFill", "initNext", "initPrev", "initCount",
           "boot"}

ASSUME MlogAssumption ==
    /\ Tries \in Nat
    /\ CrashAt \subseteq Labels \ {"boot"}

-----------------------------------------------------------------------------
(* Validation.                                                             *)

\* Mutant: the neighbours are not asked.
ValidAlone(a) ==
    a \in Addr /\ mem[a].magic /\ mem[a].size >= 1 /\ a + mem[a].size <= Size

\* cqueue_validate_item: in the buffer, and its neighbours point back.
cqueue_validate_item(a) ==
    LET i == mem[a] IN
    /\ a \in Addr
    /\ i.magic /\ i.size >= 1 /\ a + i.size <= Size
    /\ i.next # a /\ i.prev # a
    /\ IF i.next = Queue THEN tail = a ELSE i.next \in Addr /\ mem[i.next].prev = a
    /\ IF i.prev = Queue THEN head = a ELSE i.prev \in Addr /\ mem[i.prev].next = a

\* The items met by following a link of valid items, from address a on.
Newer(a) ==
    LET w[n \in 0 .. Size] ==
        IF n = 0 THEN a
        ELSE IF cqueue_validate_item(w[n - 1]) THEN mem[w[n - 1]].next ELSE w[n - 1]
    IN w
Older(a) ==
    LET w[n \in 0 .. Size] ==
        IF n = 0 THEN a
        ELSE IF cqueue_validate_item(w[n - 1]) THEN mem[w[n - 1]].prev ELSE w[n - 1]
    IN w

Length(w) == Cardinality({n \in 0 .. Size : w[n] # Queue})

\* cqueue_validate: both walks end at the queue and are equally long.  An empty
\* "next" is an empty queue, whatever "prev" is.
cqueue_validate ==
    \/ head = Queue
    \/ /\ Newer(head)[Size] = Queue /\ Older(tail)[Size] = Queue
       /\ Length(Newer(head)) = Length(Older(tail))
       /\ tail # Queue

Oldest == Newer(head)
Items == [i \in 1 .. Length(Oldest) |->
             [at |-> Oldest[i - 1], size |-> mem[Oldest[i - 1]].size]]
Live == {blocks[i].at : i \in 1 .. Len(blocks)}

Init ==
    /\ head = Queue /\ tail = Queue /\ count = 0
    /\ cb_read = 0 /\ cb_write = 0
    /\ mem = [a \in Addr |-> Fill]
    /\ pc = "idle" /\ item = 0 /\ size = 0 /\ tries = 0
    /\ it = None /\ got = FALSE /\ leaked = FALSE
    /\ RingInit

-----------------------------------------------------------------------------
(* _append: cqueue_enqueue, and while it fails cqueue_dequeue.             *)

\* One store, from label l to label k.
Store(l, k) == pc = l /\ pc' = k

\* item->next = v, where item may be the queue itself; the same for prev.
SetNext(a, v) ==
    IF a = Queue THEN head' = v /\ UNCHANGED mem
                 ELSE mem' = [mem EXCEPT ![a].next = v] /\ UNCHANGED head
SetPrev(a, v) ==
    IF a = Queue THEN tail' = v /\ UNCHANGED mem
                 ELSE mem' = [mem EXCEPT ![a].prev = v] /\ UNCHANGED tail

mlog_append(s) ==
    /\ ~ got
    /\ Store("idle", "alloc")
    /\ size' = s /\ tries' = Tries
    /\ UNCHANGED <<links, ring, mem, item, reader>>

Alloc == AllocAt(cb_read, cb_write, size)

AllocStore ==
    /\ Alloc # NoSpace
    /\ Store("alloc", "clear")
    /\ item' = Alloc /\ cb_write' = Alloc + size
    /\ UNCHANGED <<links, cb_read, mem, size, tries, reader>>

\* Mutant: the newest item goes.
DropNewest ==
    /\ Alloc = NoSpace /\ head # Queue
    /\ Store("alloc", "unlinkHead")
    /\ item' = tail
    /\ UNCHANGED <<links, ring, mem, size, tries, reader>>

\* No space: drop the oldest item, or the new one when there is none.
AllocFull ==
    /\ Alloc = NoSpace /\ head # Queue
    /\ Store("alloc", "unlinkHead")
    /\ item' = head
    /\ UNCHANGED <<links, ring, mem, size, tries, reader>>
GiveUp ==
    /\ Alloc = NoSpace /\ head = Queue
    /\ Store("alloc", "idle")
    /\ UNCHANGED <<links, ring, mem, writer, reader>>

\* The memset, and the links of the new item, which nothing points to yet.
Clear ==
    /\ Store("clear", "linkPrev")
    /\ mem' = [a \in Addr |->
                  IF a = item THEN [Zero EXCEPT !.next = Queue, !.prev = tail]
                  ELSE IF a \in item .. item + size - 1 THEN Zero ELSE mem[a]]
    /\ UNCHANGED <<links, ring, writer, reader>>
LinkPrev ==
    /\ Store("linkPrev", "linkTail")
    /\ SetNext(mem[item].prev, item)
    /\ UNCHANGED <<tail, count, ring, writer, reader>>
LinkTail ==
    /\ Store("linkTail", "setSize")
    /\ tail' = item
    /\ UNCHANGED <<head, count, ring, mem, writer, reader>>
SetSize ==
    /\ Store("setSize", "setMagic")
    /\ mem' = [mem EXCEPT ![item].size = size]
    /\ UNCHANGED <<links, ring, writer, reader>>
SetMagic ==
    /\ Store("setMagic", "counted")
    /\ mem' = [mem EXCEPT ![item].magic = TRUE]
    /\ UNCHANGED <<links, ring, writer, reader>>
Counted ==
    /\ Store("counted", "text")
    /\ count' = count + 1
    /\ UNCHANGED <<head, tail, ring, mem, writer, reader>>
Text ==
    /\ Store("text", "idle")
    /\ mem' = [mem EXCEPT ![item].data = "msg"]
    /\ UNCHANGED <<links, ring, writer, reader>>

UnlinkHead ==
    /\ Store("unlinkHead", "unlinkPrev")
    /\ head' = mem[item].next
    /\ UNCHANGED <<tail, count, ring, mem, writer, reader>>
UnlinkPrev ==
    /\ Store("unlinkPrev", "unmagic")
    /\ SetPrev(head, Queue)
    /\ UNCHANGED <<head, count, ring, writer, reader>>
Unmagic ==
    /\ Store("unmagic", "fill")
    /\ mem' = [mem EXCEPT ![item].magic = FALSE]
    /\ item' = item + mem[item].size
    /\ UNCHANGED <<links, ring, size, tries, reader>>

\* Mutant: one dword too many is filled.
FreedOne == IF item >= cb_read THEN cb_read .. item
                               ELSE (cb_write .. Size - 1) \cup (0 .. item)

\* What cbuffer_free releases: up to the end of the item, or to the end of the
\* buffer and on from its start.
Freed == IF item >= cb_read THEN cb_read .. item - 1
                         ELSE (cb_write .. Size - 1) \cup (0 .. item - 1)
FillFreed ==
    /\ Store("fill", "setRead")
    /\ mem' = [a \in Addr |-> IF a \in Freed THEN Fill ELSE mem[a]]
    /\ UNCHANGED <<links, ring, writer, reader>>
\* Mutant: the pointers of an empty buffer are not reset.
SetReadOnly ==
    /\ Store("setRead", "uncount")
    /\ cb_read' = item
    /\ UNCHANGED <<links, cb_write, mem, writer, reader>>

SetRead ==
    /\ Store("setRead", IF item = cb_write THEN "resetWrite" ELSE "uncount")
    /\ cb_read' = item
    /\ UNCHANGED <<links, cb_write, mem, writer, reader>>
ResetWrite ==
    /\ Store("resetWrite", "resetRead")
    /\ cb_write' = 0
    /\ UNCHANGED <<links, cb_read, mem, writer, reader>>
ResetRead ==
    /\ Store("resetRead", "uncount")
    /\ cb_read' = 0
    /\ UNCHANGED <<links, cb_write, mem, writer, reader>>

\* Mutant: "--cnt", one try less.
UncountEarly ==
    /\ Store("uncount", IF tries <= 1 THEN "idle" ELSE "alloc")
    /\ count' = count - 1
    /\ tries' = IF tries = 0 THEN tries ELSE tries - 1
    /\ UNCHANGED <<head, tail, ring, mem, item, size, reader>>

\* "&& cnt--": after the last try nothing is appended.
Uncount ==
    /\ Store("uncount", IF tries = 0 THEN "idle" ELSE "alloc")
    /\ count' = count - 1
    /\ tries' = IF tries = 0 THEN tries ELSE tries - 1
    /\ UNCHANGED <<head, tail, ring, mem, item, size, reader>>

AppendStep ==
    \/ AllocStore \/ AllocFull \/ GiveUp
    \/ Clear \/ LinkPrev \/ LinkTail \/ SetSize \/ SetMagic \/ Counted \/ Text
    \/ UnlinkHead \/ UnlinkPrev \/ Unmagic \/ FillFreed \/ SetRead
    \/ ResetWrite \/ ResetRead \/ Uncount

-----------------------------------------------------------------------------
(* cqueue_init, for mlog_reset and for mlog_init.                          *)

mlog_reset ==
    /\ ~ got
    /\ Store("idle", "initWrite")
    /\ UNCHANGED <<links, ring, mem, writer, reader>>

InitWrite ==
    /\ Store("initWrite", "initRead")
    /\ cb_write' = 0
    /\ UNCHANGED <<links, cb_read, mem, writer, reader>>
InitRead ==
    /\ Store("initRead", "initFill")
    /\ cb_read' = 0
    /\ UNCHANGED <<links, cb_write, mem, writer, reader>>
InitFill ==
    /\ Store("initFill", "initNext")
    /\ mem' = [a \in Addr |-> Fill]
    /\ UNCHANGED <<links, ring, writer, reader>>
InitNext ==
    /\ Store("initNext", "initPrev")
    /\ head' = Queue
    /\ UNCHANGED <<tail, count, ring, mem, writer, reader>>
InitPrev ==
    /\ Store("initPrev", "initCount")
    /\ tail' = Queue
    /\ UNCHANGED <<head, count, ring, mem, writer, reader>>
InitCount ==
    /\ Store("initCount", "idle")
    /\ count' = 0
    /\ UNCHANGED <<head, tail, ring, mem, writer, reader>>

InitStep ==
    InitWrite \/ InitRead \/ InitFill \/ InitNext \/ InitPrev \/ InitCount

\* A reset: only the memory is left.
Crash ==
    /\ Crashes /\ pc \in CrashAt
    /\ pc' = "boot"
    /\ item' = 0 /\ size' = 0 /\ tries' = 0
    /\ it' = None /\ got' = FALSE
    /\ UNCHANGED <<links, ring, mem>>

\* cqueue_validate counts the items of the queue it accepts.
mlog_init ==
    /\ Store("boot", IF cqueue_validate THEN "idle" ELSE "initWrite")
    /\ count' = IF cqueue_validate THEN Length(Oldest) ELSE 0
    /\ UNCHANGED <<head, tail, ring, mem, writer, reader>>

-----------------------------------------------------------------------------
(* A reader with an iterator, which it keeps while others append.          *)

Free == pc = "idle" /\ ~ got
\* Mutant: an iterator is not checked.
Unchecked(a) == IF a = Queue THEN None ELSE a
Checked(a) == IF cqueue_validate_item(a) THEN a ELSE None

mlog_itertor_first ==
    /\ Free
    /\ it' = Checked(IF head = Queue THEN Queue ELSE tail)
    /\ UNCHANGED <<links, ring, mem, pc, writer, got>>
mlog_itertor_last ==
    /\ Free
    /\ it' = Checked(head)
    /\ UNCHANGED <<links, ring, mem, pc, writer, got>>

\* The item of the iterator may be gone: what is in its place, text or filling,
\* is then taken for a pointer.
Pointer(p) == IF p = Junk THEN Addr \cup {Queue, Junk} ELSE {p}

mlog_itertor_prev ==
    /\ Free /\ it # None
    /\ \E p \in Pointer(mem[it].prev) : it' = Checked(p)
    /\ UNCHANGED <<links, ring, mem, pc, writer, got>>
mlog_itertor_next ==
    /\ Free /\ it # None
    /\ \E p \in Pointer(mem[it].next) : it' = Checked(p)
    /\ UNCHANGED <<links, ring, mem, pc, writer, got>>

\* The mutex is kept with a message, until it is released.
mlog_itertor_get ==
    /\ Free /\ it # None
    /\ got' = cqueue_validate_item(it)
    /\ UNCHANGED <<links, ring, mem, pc, writer, it>>
mlog_itertor_release ==
    /\ got /\ got' = FALSE
    /\ UNCHANGED <<links, ring, mem, pc, writer, it>>

Step ==
    \/ \E s \in ItemSizes : mlog_append(s)
    \/ AppendStep
    \/ mlog_reset \/ InitStep
    \/ Crash \/ mlog_init
    \/ mlog_itertor_first \/ mlog_itertor_last
    \/ mlog_itertor_prev \/ mlog_itertor_next
    \/ mlog_itertor_get \/ mlog_itertor_release

AtRest == pc \in {"idle", "alloc"}

Next ==
    /\ Step
    /\ leaked' = IF pc' = "boot" THEN TRUE ELSE IF pc = "initCount" THEN FALSE ELSE leaked
    /\ IF AtRest'
       THEN read' = cb_read' /\ write' = cb_write' /\ blocks' = Items'
       ELSE UNCHANGED ringVars

Spec == Init /\ [][Next]_vars

-----------------------------------------------------------------------------
TypeOK ==
    /\ head \in Addr \cup {Queue} /\ tail \in Addr \cup {Queue}
    /\ count \in 0 .. Size
    /\ cb_read \in 0 .. Size /\ cb_write \in 0 .. Size
    /\ mem \in [Addr -> Header]
    /\ pc \in Labels
    /\ item \in 0 .. Size /\ size \in ItemSizes \cup {0} /\ tries \in 0 .. Tries
    /\ it \in Addr \cup {None} /\ got \in BOOLEAN /\ leaked \in BOOLEAN

\* Whenever the mutex is free, and after every reset that mlog_init accepted:
\* both lists are the same items, as many as are counted, all written.
QueueSound ==
    AtRest =>
        /\ head = Queue <=> tail = Queue
        /\ cqueue_validate
        /\ count = Length(Oldest)
        /\ \A a \in Live : mem[a].data # "fill"

\* A stale iterator is found out: only live items pass the validation, although
\* the memory of others is reused while the iterator is kept.
StaleRejected == AtRest => \A a \in Addr : cqueue_validate_item(a) <=> a \in Live

\* As long as no crash has lost memory, an empty queue takes an item of any
\* size, although cbuffer_free moves its pointers only when blocks are released.
WholeUnlessCrashed == AtRest /\ ~ leaked => EmptyIsWhole

\* As long as no crash has lost memory, _append, which returns EOK whatever
\* happens, drops so many old messages that the new one is kept.
MessageKept ==
    [][~ leaked /\ pc' = "idle" => pc \in {"idle", "text", "boot", "initCount"}]_vars

\* "Uninitialised memory to be persistent across resets": whatever a reset cut
\* off, a message appended afterwards is in the log for its readers.
MessageReadable ==
    [][pc = "text" /\ pc' = "idle" => head # Queue /\ item \in Live']_vars

\* Each operation, seen from its end and also when it is cut off by a reset, is
\* a step of the cyclic buffer: items leave it in the order they came.
IsRing == RingSpec
=============================================================================
