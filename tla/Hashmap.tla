------------------------------ MODULE Hashmap ------------------------------
(***************************************************************************)
(* The hashmap of src/src/hashmap.c: open addressing with triangular       *)
(* steps, tombstones, and a table that doubles and halves.  The server     *)
(* keeps its index of pseudos in one (Server has it as a function).        *)
(*                                                                         *)
(* The hash function is any function; a key is a pointer to a string that  *)
(* nobody changes, is no longer than KEY_MAXLEN, and is not "$".           *)
(***************************************************************************)
EXTENDS Integers, FiniteSets, FiniteSetsExt

CONSTANTS
    Keys,
    Hashes,         \* the functions from Keys to numbers to try
    AskedSize,      \* the argument of hashmap_create
    MaxSize,        \* bound: no table grows further
    MaxValue,       \* bound: no value grows further
    NULL, TOMBSTONE

(* 1 << n.  In tables of more than 2^16 cases the uint i * (i + 1) of jump *)
(* wraps; no program asks for one of more than 512.                        *)
shifted[n \in 0 .. 16] == IF n = 0 THEN 1 ELSE 2 * shifted[n - 1]

ASSUME HashmapAssumption ==
    /\ AskedSize \in 1 .. shifted[16] /\ MaxSize \in 0 .. shifted[16]
    /\ MaxValue \in Nat
    /\ \A hash \in Hashes : hash \in [Keys -> Nat]
    /\ NULL \notin Keys /\ TOMBSTONE \notin Keys /\ NULL # TOMBSTONE

VARIABLES
    hash,     \* jenkins_one_at_a_time_hash
    h,        \* the Hashmap: size, count and items
    map,      \* observation: the map the callers mean, a set of pairs
    grew,     \* observation: has an insertion resized the table?
    stuck     \* an insertion that does not end

hvars == <<hash, h, map, grew, stuck>>

Item(k, v) == [key |-> k, value |-> v]
NoItem     == Item(NULL, 0)              \* calloc
Powers     == {shifted[n] : n \in 0 .. 16}

EmptyTable(n) == [size |-> n, count |-> 0, items |-> [p \in 0 .. n - 1 |-> NoItem]]

(* hashmap_create: the size is rounded up to a power of two.               *)
Create(n) == EmptyTable(Min({p \in Powers : p >= n}))

(* Mutant of jump: quadratic steps do not reach every case.                 *)
jumpSquare(i) == i * i

jump(i)        == (i * (i + 1)) \div 2
Index(k, n)    == hash[k] % n
Probe(k, i, n) == (Index(k, n) + jump(i)) % n

-----------------------------------------------------------------------------
(* hashmap_find: at most size probes, the first that meets NULL or the key *)
(* ends it.                                                                *)
Find(t, k) ==
    LET ends == {i \in 0 .. t.size - 1 :
                    t.items[Probe(k, i, t.size)].key \in {NULL, k}}
        p    == Probe(k, Min(ends), t.size)
    IN  IF ends = {} \/ t.items[p].key = NULL THEN -1 ELSE p

Get(t, k) == IF Find(t, k) = -1 THEN 0 ELSE t.items[Find(t, k)].value

(* The key that step i of the loop of hashmap_insert sees: that of step 0  *)
(* was read before the table was resized.                                  *)
Seen(t, index, first, i) ==
    IF i = 0 THEN first ELSE t.items[(index + jump(i)) % t.size].key

(* The loop ends at the first step that sees NULL or the key, if there is  *)
(* one: the probes repeat after 2 * size steps.                            *)
Ends(t, k, index, first) ==
    {i \in 0 .. 2 * t.size : Seen(t, index, first, i) \in {NULL, k}}

(* The rest of hashmap_insert: the item goes to the first tombstone on the *)
(* way, or to the end.                                                     *)
Put(t, k, v, index, first) ==
    LET end   == Min(Ends(t, k, index, first))
        tombs == {i \in 0 .. end - 1 : Seen(t, index, first, i) = TOMBSTONE}
        p     == (index + jump(IF tombs = {} THEN end ELSE Min(tombs))) % t.size
    IN  IF Seen(t, index, first, end) = k THEN t
        ELSE [t EXCEPT !.items[p] = Item(k, v), !.count = @ + 1]

(* The keys of the cases from..size-1 are inserted into a new table, in    *)
(* order.  None of these insertions resizes: the new table is half full at *)
(* most.                                                                   *)
Again(t, from, n) ==
    LET Step(p, u) ==
            LET i == t.items[p] IN
            IF i.key \in {NULL, TOMBSTONE} THEN u
            ELSE Put(u, i.key, i.value, Index(i.key, n), u.items[Index(i.key, n)].key)
        upTo[p \in from .. t.size] ==
            IF p = from THEN EmptyTable(n) ELSE Step(p - 1, upTo[p - 1])
    IN  upTo[t.size]

(* Mutant of Resize: the loop starts at 1.                                 *)
ResizeFromOne(t, n) == Again(t, 1, n)

(* hashmap_resize                                                          *)
Resize(t, n) == Again(t, 0, n)

TooFull(t)  == 4 * t.count >= 3 * t.size                   \* LOAD
TooEmpty(t) == t.size > 2 /\ 4 * t.count < t.size

-----------------------------------------------------------------------------
HashmapInit ==
    /\ hash \in Hashes
    /\ h = Create(AskedSize)
    /\ map = {} /\ grew = FALSE /\ stuck = FALSE

Known == {pair[1] : pair \in map}
Value(k) == IF k \in Known THEN (CHOOSE pair \in map : pair[1] = k)[2] ELSE 0

(* hashmap_insert.  The index and the first key are read before the resize.*)
InsertInto(k, v) ==
    LET index == Index(k, h.size)
        first == h.items[index].key
        t     == IF TooFull(h) THEN Resize(h, 2 * h.size) ELSE h
    IN
      /\ TooFull(h) => 2 * h.size <= MaxSize
      /\ grew' = (grew \/ TooFull(h))
      /\ stuck' = (Ends(t, k, index, first) = {})
      /\ h' = IF stuck' THEN t ELSE Put(t, k, v, index, first)
      /\ map' = IF k \in Known \/ stuck' THEN map ELSE map \cup {<<k, v>>}

hashmap_insert(k, v) ==
    /\ ~stuck
    /\ InsertInto(k, v)
    /\ UNCHANGED hash

hashmap_increase(k, incr) ==
    /\ ~stuck /\ Value(k) + incr <= MaxValue
    /\ \/ /\ Find(h, k) = -1
          /\ InsertInto(k, incr)
       \/ /\ Find(h, k) # -1
          /\ h.items[Find(h, k)].value + incr <= MaxValue
          /\ h' = [h EXCEPT !.items[Find(h, k)].value = @ + incr]
          /\ map' = {pair \in map : pair[1] # k} \cup {<<k, Value(k) + incr>>}
          /\ UNCHANGED <<grew, stuck>>
    /\ UNCHANGED hash

(* Mutant of Removed: the case is emptied, which cuts the probes of others.*)
RemovedEmpty(t, p) == [t EXCEPT !.items[p] = NoItem, !.count = @ - 1]

Removed(t, p) == [t EXCEPT !.items[p] = Item(TOMBSTONE, 0), !.count = @ - 1]

hashmap_remove(k) ==
    /\ ~stuck /\ Find(h, k) # -1
    /\ LET t == Removed(h, Find(h, k)) IN
         h' = IF TooEmpty(t) THEN Resize(t, t.size \div 2) ELSE t
    /\ map' = {pair \in map : pair[1] # k}
    /\ UNCHANGED <<hash, grew, stuck>>

HashmapNext ==
    \/ \E k \in Keys : hashmap_insert(k, 1) \/ hashmap_increase(k, 1)
                       \/ hashmap_remove(k)

HashmapSpec == HashmapInit /\ [][HashmapNext]_hvars

-----------------------------------------------------------------------------
(* Through collisions, tombstones and shrinking, what hashmap_find and     *)
(* hashmap_get answer is the map its callers mean, until an insertion      *)
(* resizes the table.  The server's table, twice as large as the number of *)
(* sessions, never is.                                                     *)
IsTheMap ==
    ~grew => \A k \in Keys :
        /\ (Find(h, k) # -1) <=> (k \in Known)
        /\ Get(h, k) = Value(k)

(* hashmap_insert has a loop without bound.  It hangs only in a table      *)
(* where every case is taken and some by a tombstone: never before the     *)
(* first removal, however full the table is.                               *)
HangsOnTombstones ==
    stuck => LET keys == {h.items[p].key : p \in DOMAIN h.items}
             IN  NULL \notin keys /\ TOMBSTONE \in keys

(* The insertion that makes the table grow uses the index of the small one:*)
(* it may put its key where hashmap_find does not look and, in place of    *)
(* another key; of the keys that were found it loses one at most.          *)
Lost == {k \in Keys : Find(h, k) # -1 /\ Find(h', k) = -1}

GrowthLosesOne == [][h'.size > h.size => Cardinality(Lost) <= 1]_hvars
=============================================================================
