-------------------------------- MODULE PkDict --------------------------------
(***************************************************************************)
(* pk_dict (pkutils.c): a hash table that looks for a key in a bucket of   *)
(* MaxBucket entries from its own, wrapping at the end of the table, takes *)
(* a key any number of times, and is rebuilt with one bit more when a      *)
(* bucket is full and with one less when it has emptied, or left as it was *)
(* where that fails.  Every operation holds the lock of the table.         *)
(***************************************************************************)
EXTENDS Integers, FiniteSets

CONSTANTS
  Keys, Vals,   \* what is added
  Home(_, _),   \* a key's first entry in a table of so many bits: _PK_DICT_HASH
  MinBits,      \* _PK_DICT_MINBITS: 10
  MaxBits,      \* dict->maxbits: 27
  MaxBucket,    \* dict->maxbucket: 40
  ShrinkBits,   \* tables of more bits than that shrink: 16
  ShrinkPart,   \* when less than one entry in so many is used: 5
  SpareBits,    \* of more bits than that, tables must not be mostly empty: 23
  MaxCount      \* bounds the runs only: the entries added

ASSUME DictSizes ==
  /\ {MinBits, MaxBits, MaxBucket, ShrinkBits, SpareBits, MaxCount} \subseteq Nat
  /\ MinBits <= ShrinkBits /\ MinBits <= MaxBits /\ MaxBucket <= 2^MinBits
  /\ ShrinkPart \in Nat \ {0}
  /\ \A k \in Keys, b \in MinBits..MaxBits : Home(k, b) \in 0..(2^b - 1)
  /\ \A b \in MinBits..MaxBits : 2^b \in Nat \ {0}   \* true, but not to the provers

VARIABLES
  dict,    \* the table: bits, entries, shrink_at, count
  held,    \* history: how often each key was added with each value, and is still in
  astray   \* pk_dict_rm_val goes on in the table that a rebuild has freed

dictVars == <<dict, held, astray>>

NoVal == "no value"
Empty == [key |-> "no key", val |-> NoVal]
Pair(k, v) == [key |-> k, val |-> v]
ASSUME NoneIsNone == Empty.key \notin Keys /\ NoVal \notin Vals   \* NULLs: pk_dict_add asserts it

\* _pk_dict_set_size
Sized(bits) == [bits |-> bits, entries |-> [i \in 0..(2^bits - 1) |-> Empty],
                shrink_at |-> (2^bits) \div ShrinkPart, count |-> 0]

DictInit ==
  /\ dict = Sized(MinBits)
  /\ held = [e \in [key : Keys, val : Vals] |-> 0]
  /\ astray = FALSE
-----------------------------------------------------------------------------
\* The i-th entry of k's bucket.
Nth(d, k, i) == (Home(k, d.bits) + i) % 2^d.bits
Where(d, k, key) == {i \in 0..(MaxBucket - 1) : d.entries[Nth(d, k, i)].key = key}
Closest(d, k, key) ==
  Nth(d, k, CHOOSE i \in Where(d, k, key) : \A j \in Where(d, k, key) : i <= j)

\* _pk_dict_add
Room(d, k) == Where(d, k, Empty.key) # {}
Put(d, k, v) == [d EXCEPT !.entries[Closest(d, k, Empty.key)] = Pair(k, v), !.count = @ + 1]

\* pk_dict_find
Find(d, k) == IF Where(d, k, k) = {} THEN NoVal ELSE d.entries[Closest(d, k, k)].val

\* An entry of the old table is added to the new one, until one does not fit.
Reinsert(r, e) ==
  IF r.failed \/ e = Empty THEN r
  ELSE IF Room(r.d, e.key) THEN [r EXCEPT !.d = Put(r.d, e.key, e.val)]
  ELSE [r EXCEPT !.failed = TRUE]

Rebuilt(d, bits) ==
  LET after[n \in 0..2^d.bits] ==
        IF n = 0 THEN [d |-> Sized(bits), failed |-> FALSE]
        ELSE Reinsert(after[n - 1], d.entries[n - 1])
  IN  after[2^d.bits]

\* Seeded bug: where it fails, what was built so far stays.
RolledBackNot(old, new) == new

RolledBack(old, new) == old

\* _pk_dict_resize; calloc may fail.
Resize(d, bits, memory) ==
  LET new == Rebuilt(d, bits)
      due == new.d.count - new.d.count \div 3
  IN  IF bits > MaxBits \/ (bits > SpareBits /\ 2^bits > 3 * d.count) \/ ~memory
      THEN [d |-> d, ok |-> FALSE]
      ELSE IF new.failed THEN [d |-> RolledBack(d, new.d), ok |-> FALSE]
      ELSE [d |-> [new.d EXCEPT !.shrink_at = IF due < @ THEN due ELSE @], ok |-> TRUE]

\* A removal may leave a table that is worth shrinking.
Shrink(d, memory) ==
  IF ~(d.bits > ShrinkBits /\ d.shrink_at > d.count) THEN [d |-> d, ok |-> FALSE]
  ELSE LET r == Resize(d, d.bits - 1, memory)
       IN  IF r.ok THEN r ELSE [r EXCEPT !.d.shrink_at = @ - @ \div 5]

Without(d, i) == [d EXCEPT !.entries[i] = Empty, !.count = @ - 1]
-----------------------------------------------------------------------------
\* pk_dict_add: one try, and one more in a larger table; that one failing too makes
\* the table larger again, for nothing.
Add(k, v) ==
  /\ \E memory \in BOOLEAN :
       LET once  == Resize(dict, dict.bits + 1, memory)
           twice == Resize(once.d, once.d.bits + 1, memory)
       IN  CASE Room(dict, k) -> dict' = Put(dict, k, v)
             [] ~Room(dict, k) /\ ~once.ok -> dict' = once.d
             [] ~Room(dict, k) /\ once.ok /\ Room(once.d, k) -> dict' = Put(once.d, k, v)
             [] OTHER -> dict' = twice.d
  /\ held' = IF dict'.count > dict.count THEN [held EXCEPT ![Pair(k, v)] = @ + 1] ELSE held
  /\ UNCHANGED astray

\* pk_dict_rm
Rm(k) ==
  /\ Find(dict, k) # NoVal
  /\ \E memory \in BOOLEAN : dict' = Shrink(Without(dict, Closest(dict, k, k)), memory).d
  /\ held' = [held EXCEPT ![Pair(k, Find(dict, k))] = @ - 1]
  /\ UNCHANGED astray

\* pk_dict_rm_val
Weed(r, i, v, memory) ==
  IF r.astray \/ r.d.entries[i].val # v THEN r
  ELSE LET less == Shrink(Without(r.d, i), memory)
       IN  [d |-> less.d, astray |-> less.ok]

Weeded(d, v, memory) ==
  LET after[n \in 0..2^d.bits] ==
        IF n = 0 THEN [d |-> d, astray |-> FALSE]
        ELSE Weed(after[n - 1], n - 1, v, memory)
  IN  after[2^d.bits]

RmVal(v) ==
  /\ \E memory \in BOOLEAN :
       LET s == Weeded(dict, v, memory) IN dict' = s.d /\ astray' = s.astray
  /\ held' = [e \in DOMAIN held |-> IF e.val = v THEN 0 ELSE held[e]]

\* Once the walk is astray anything may follow; nothing more is said.
DictNext ==
  /\ ~astray
  /\ \/ dict.count < MaxCount /\ \E k \in Keys, v \in Vals : Add(k, v)
     \/ \E k \in Keys : Rm(k)
     \/ \E v \in Vals : RmVal(v)

DictSpec == DictInit /\ [][DictNext]_dictVars
-----------------------------------------------------------------------------
(***************************************************************************)
(* However often the table was rebuilt, or failed to be, between an        *)
(* addition and a search: a key is found as long as it was added more      *)
(* often than removed, with one of the values it was added with, and the   *)
(* count, by which the table decides to shrink, is right.                  *)
(***************************************************************************)
FindsWhatIsHeld ==
  ~astray =>
    /\ \A k \in Keys :
         IF \A v \in Vals : held[Pair(k, v)] = 0 THEN Find(dict, k) = NoVal
         ELSE \E v \in Vals : Find(dict, k) = v /\ held[Pair(k, v)] > 0
    /\ dict.count = Cardinality({i \in DOMAIN dict.entries : dict.entries[i] # Empty})

(***************************************************************************)
(* pk_dict_rm_val never walks on in a table that was freed (pkutils.c:952).*)
(* It does, where a removal shrinks the table: for reproduction only.      *)
(***************************************************************************)
NeverAstray == ~astray
=============================================================================
