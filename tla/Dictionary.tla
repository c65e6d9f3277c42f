----------------------------- MODULE Dictionary ------------------------------
(***************************************************************************)
(* The hash table of common/dictionary.c, with its iterator: two           *)
(* dictionaries of different sizes, and one iterator that walks either.    *)
(* A value is left out (dictionary_replace copies it over an entry of      *)
(* whatever size).  Nothing in the code says when an iterator may be used; *)
(* it is assumed here (ItUsable): not after another call has added or taken  *)
(* out an entry, nor after dictionary_it_remove, and to take an entry out  *)
(* only from a walk without compare function, or after dictionary_it_at.   *)
(***************************************************************************)
EXTENDS Integers, FiniteSets, SequencesExt

CONSTANTS
    Dicts, HashSize,    \* the dictionaries, and how many chains each has
    Keys,               \* keys, as the number that is hashed
    Entries, NoEntry,   \* struct dlist
    Rank                \* what the compare function of a walk tells of a key

ASSUME HashSizeAssumption == HashSize \in [Dicts -> Nat \ {0}]
ASSUME KeysAssumption == Keys \subseteq Nat

VARIABLES
    hashtab, dlist_next, keyval, dict_count,
    it,         \* the iterator: its entry, the one before it, its chain
    it_walk     \* history: what the iterator is used for

dictVars == <<hashtab, dlist_next, keyval, dict_count, it, it_walk>>

NoKey == -1
Hash(d, k) == k % HashSize[d]
NoWalk == [dict |-> CHOOSE d \in Dicts : TRUE, mode |-> "none", usable |-> FALSE,
           left |-> FALSE, seen |-> <<>>, all |-> {}]

NoIt   == [np |-> NoEntry, prev |-> NoEntry, idx |-> 0]

dictionary_init ==
    /\ hashtab = [d \in Dicts |-> [b \in 0 .. HashSize[d] - 1 |-> NoEntry]]
    /\ dlist_next = [e \in Entries |-> NoEntry]
    /\ keyval = [e \in Entries |-> NoKey]
    /\ dict_count = [d \in Dicts |-> 0]
    /\ it = NoIt /\ it_walk = NoWalk

\* The chain b of a dictionary, followed for as many steps as there are entries.
Row(d, b) ==
    LET entry[i \in 0 .. Cardinality(Entries)] ==
            IF i = 0 THEN hashtab[d][b]
            ELSE IF entry[i - 1] = NoEntry THEN NoEntry ELSE dlist_next[entry[i - 1]]
    IN  IF hashtab[d][b] = NoEntry THEN <<>>
        ELSE SelectSeq([i \in 1 .. Cardinality(Entries) + 1 |-> entry[i - 1]],
                       LAMBDA e : e # NoEntry)

Order(d) == FlattenSeq([b \in 1 .. HashSize[d] |-> Row(d, b - 1)])
Held(d)  == ToSet(Order(d))

\* The entry of a key with the one before it in its chain, or NoEntry.
Found(d, k) ==
    LET row == Row(d, Hash(d, k))
        at  == {i \in DOMAIN row : keyval[row[i]] = k}
    IN  IF at = {} THEN [np |-> NoEntry, prev |-> NoEntry]
        ELSE LET i == CHOOSE i \in at : \A j \in at : i <= j
             IN  [np |-> row[i], prev |-> IF i = 1 THEN NoEntry ELSE row[i - 1]]

dict_lookup(d, k) == Found(d, k).np

\* Takes np, after prev, out of chain b.
Detach(d, b, np, prev) ==
    IF prev # NoEntry
      THEN [tab |-> hashtab, next |-> [dlist_next EXCEPT ![prev] = dlist_next[np]]]
    ELSE [tab |-> [hashtab EXCEPT ![d][b] = dlist_next[np]], next |-> dlist_next]

\* The iterator is not touched, but not used any more either.
Outdates == it' = NoIt /\ it_walk' = NoWalk

\* Nothing, if the key is there; an allocation that fails changes nothing either.
dictionary_install_size(d, k) ==
    /\ dict_lookup(d, k) = NoEntry
    /\ \E e \in Entries : keyval[e] = NoKey
    /\ LET np == CHOOSE e \in Entries : keyval[e] = NoKey
           b  == Hash(d, k)
       IN  /\ keyval' = [keyval EXCEPT ![np] = k]
           /\ dlist_next' = [dlist_next EXCEPT ![np] = hashtab[d][b]]
           /\ hashtab' = [hashtab EXCEPT ![d][b] = np]
    /\ dict_count' = [dict_count EXCEPT ![d] = @ + 1]
    /\ Outdates

TakeOut(d, b, np, prev) ==
    LET out == Detach(d, b, np, prev)
    IN  /\ hashtab' = out.tab
        /\ dlist_next' = [out.next EXCEPT ![np] = NoEntry]
        /\ keyval' = [keyval EXCEPT ![np] = NoKey]
        /\ dict_count' = [dict_count EXCEPT ![d] = @ - 1]
        /\ Outdates

dictionary_remove(d, k) ==
    /\ dict_lookup(d, k) # NoEntry
    /\ TakeOut(d, Hash(d, k), Found(d, k).np, Found(d, k).prev)

\* Every entry of every chain; the callback is told of each before it goes.
dictionary_remove_all(d) ==
    /\ Held(d) # {}
    /\ hashtab' = [hashtab EXCEPT ![d] = [b \in DOMAIN @ |-> NoEntry]]
    /\ keyval' = [e \in Entries |-> IF e \in Held(d) THEN NoKey ELSE keyval[e]]
    /\ dict_count' = [dict_count EXCEPT ![d] = @ - Len(Order(d))]
    /\ dlist_next' = [e \in Entries |-> IF e \in Held(d) THEN NoEntry ELSE dlist_next[e]]
    /\ Outdates

----------------------------------------------------------------------------
\* The entry after that of i, in the same chain or in a later one.
_it_next(d, i) ==
    LET later == {b \in 0 .. HashSize[d] - 1 : b > i.idx /\ hashtab[d][b] # NoEntry}
        first == CHOOSE b \in later : \A c \in later : b <= c
    IN  IF i.np # NoEntry /\ dlist_next[i.np] # NoEntry
          THEN [i EXCEPT !.np = dlist_next[i.np], !.prev = i.np]
        ELSE IF later = {} THEN [i EXCEPT !.np = NoEntry, !.prev = NoEntry]
        ELSE [np |-> hashtab[d][first], prev |-> NoEntry, idx |-> first]

\* The first of the entries in places that have the least rank.
Smallest(order, places) ==
    LET rank(i) == Rank[keyval[order[i]]]
    IN  order[CHOOSE i \in places : \A j \in places :
                rank(i) < rank(j) \/ (rank(i) = rank(j) /\ i <= j)]

dictionary_it_first(d, mode) ==
    LET first == _it_next(d, [np |-> NoEntry, prev |-> NoEntry, idx |-> -1])
        least == Smallest(Order(d), DOMAIN Order(d))
        sort  == mode # "table" /\ first.np # NoEntry
        start == IF sort THEN [np |-> least, prev |-> NoEntry, idx |-> Hash(d, keyval[least])]
                 ELSE first
    IN  /\ it' = start
        /\ it_walk' = [dict |-> d, mode |-> mode, usable |-> TRUE, left |-> FALSE,
                       seen |-> IF start.np = NoEntry THEN <<>> ELSE <<start.np>>,
                       all |-> Held(d)]
        /\ UNCHANGED <<hashtab, dlist_next, keyval, dict_count>>

\* With a compare function: the equal entries that follow, then the least of
\* the greater ones; it->prev stays as it was.
SortedNext(d) ==
    LET order   == Order(d)
        here    == CHOOSE i \in DOMAIN order : order[i] = it.np
        rank(i) == Rank[keyval[order[i]]]
        equal   == {i \in DOMAIN order : i > here /\ rank(i) = rank(here)}
        greater == {i \in DOMAIN order : rank(i) > rank(here)}
        among   == IF it_walk.mode = "unique" \/ equal = {} THEN greater ELSE equal
    IN  IF among = {} THEN [it EXCEPT !.np = NoEntry, !.idx = -1]
        ELSE [it EXCEPT !.np = Smallest(order, among),
                        !.idx = Hash(d, keyval[Smallest(order, among)])]

NextOf(d) == IF it_walk.mode \in {"sorted", "unique"} THEN SortedNext(d) ELSE _it_next(d, it)

Seen(np) == IF np = NoEntry THEN it_walk.seen ELSE Append(it_walk.seen, np)
ItUsable   == it_walk.usable /\ it.np # NoEntry

dictionary_it_next ==
    /\ ItUsable
    /\ it' = NextOf(it_walk.dict)
    /\ it_walk' = [it_walk EXCEPT !.left = TRUE, !.seen = Seen(it'.np)]
    /\ UNCHANGED <<hashtab, dlist_next, keyval, dict_count>>

\* Mutant: the entry before is forgotten.
AtForgets(d, k) ==
    /\ it' = [np |-> dict_lookup(d, k), prev |-> NoEntry, idx |-> Hash(d, k)]
    /\ it_walk' = [NoWalk EXCEPT !.dict = d, !.mode = "at", !.usable = TRUE, !.left = TRUE]
    /\ UNCHANGED <<hashtab, dlist_next, keyval, dict_count>>

\* it->prev is the last of the chain when the key is not there.
dictionary_it_at(d, k) ==
    /\ it' = IF dict_lookup(d, k) = NoEntry
               THEN [np |-> NoEntry, idx |-> -1,
                     prev |-> LET row == Row(d, Hash(d, k))
                              IN  IF row = <<>> THEN NoEntry ELSE Last(row)]
             ELSE Found(d, k) @@ [idx |-> Hash(d, k)]
    /\ it_walk' = [NoWalk EXCEPT !.dict = d, !.mode = "at", !.usable = TRUE, !.left = TRUE]
    /\ UNCHANGED <<hashtab, dlist_next, keyval, dict_count>>

Removable == ItUsable /\ it_walk.mode \in {"table", "at"}

\* The iterator still points at the entry, which is freed.
dictionary_it_remove ==
    /\ Removable
    /\ TakeOut(it_walk.dict, it.idx, it.np, it.prev)

\* What the iterator is after a move: only a walk that left no entry behind
\* may go on, for it->prev is put back and may be of another chain.
Moved(next) ==
    /\ it' = [next EXCEPT !.prev = it.prev]
    /\ it_walk' = [it_walk EXCEPT !.usable = ~it_walk.left, !.seen = Seen(next.np)]

\* Mutant: the iterator goes on after the entry has moved.
MovesFirst(d, dest, e) ==
    LET out   == Detach(d, it.idx, e, it.prev)
        b     == Hash(dest, keyval[e])
        links == [out.next EXCEPT ![e] = out.tab[dest][b]]
        i     == IF links[e] = NoEntry THEN _it_next(d, [it EXCEPT !.np = NoEntry])
                 ELSE [it EXCEPT !.np = links[e], !.prev = e]
    IN  /\ hashtab' = [out.tab EXCEPT ![dest][b] = e]
        /\ dlist_next' = links
        /\ Moved(i)

\* The iterator goes on first; then the entry is put at the head of a chain of dest.
Relink(d, dest, e) ==
    LET out == Detach(d, it.idx, e, it.prev)
        b   == Hash(dest, keyval[e])
    IN  /\ hashtab' = [out.tab EXCEPT ![dest][b] = e]
        /\ dlist_next' = [out.next EXCEPT ![e] = out.tab[dest][b]]
        /\ Moved(NextOf(d))

dictionary_it_move(dest) ==
    LET d == it_walk.dict IN
    /\ Removable /\ dest # d
    /\ \/ /\ dict_lookup(dest, keyval[it.np]) = NoEntry
          /\ Relink(d, dest, it.np)
          /\ dict_count' = [dict_count EXCEPT ![d] = @ - 1, ![dest] = @ + 1]
       \/ /\ dict_lookup(dest, keyval[it.np]) # NoEntry
          /\ it' = NextOf(d)
          /\ it_walk' = [it_walk EXCEPT !.left = TRUE, !.seen = Seen(it'.np)]
          /\ UNCHANGED <<hashtab, dlist_next, dict_count>>
    /\ UNCHANGED keyval

DictNext ==
    \/ \E d \in Dicts, k \in Keys :
          dictionary_install_size(d, k) \/ dictionary_remove(d, k) \/ dictionary_it_at(d, k)
    \/ \E d \in Dicts : dictionary_remove_all(d) \/ dictionary_it_move(d)
    \/ \E d \in Dicts, mode \in {"table", "sorted", "unique"} : dictionary_it_first(d, mode)
    \/ dictionary_it_next
    \/ dictionary_it_remove

----------------------------------------------------------------------------
\* Every entry that is allocated is in one dictionary, once, in the chain of
\* its key; a key is there once; and the count of a dictionary is right
\* (dictionary_it_remove and dictionary_it_move unlink by what the iterator
\* remembers of the entry before).
DictWhole ==
    /\ \A d \in Dicts :
          LET order == Order(d)
              place(i) == Hash(d, keyval[order[i]])
          IN  /\ dict_count[d] = Len(order)
              /\ ToSet(order) \subseteq {e \in Entries : keyval[e] \in Keys}
              /\ \A i \in DOMAIN order : order[i] \in ToSet(Row(d, place(i)))
              /\ \A i, j \in DOMAIN order : keyval[order[i]] = keyval[order[j]] => i = j
    /\ \A e \in Entries : keyval[e] # NoKey =>
          \E d \in Dicts : e \in Held(d) /\ \A c \in Dicts \ {d} : e \notin Held(c)

\* A walk that has come to its end has met every entry that there was when it
\* began, once, and in order if it compares; a walk for unique entries one of
\* every rank.  A walk that moves every entry meets them all too
\* (dictionary_it_first, dictionary_it_next, dictionary_it_move).
WalkMeetsAll ==
    LET seen == it_walk.seen
        rank(i) == Rank[keyval[seen[i]]]
    IN  it_walk.usable /\ it_walk.mode # "at" /\ it.np = NoEntry =>
          /\ \A i, j \in DOMAIN seen : i < j =>
                /\ seen[i] # seen[j]
                /\ it_walk.mode = "sorted" => rank(i) <= rank(j)
                /\ it_walk.mode = "unique" => rank(i) < rank(j)
          /\ IF it_walk.mode = "unique"
               THEN {Rank[keyval[e]] : e \in it_walk.all} = {rank(i) : i \in DOMAIN seen}
             ELSE it_walk.all = ToSet(seen)
=============================================================================
