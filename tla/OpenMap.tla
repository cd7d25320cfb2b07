------------------------------- MODULE OpenMap -------------------------------
(***************************************************************************)
(* map<K, V> of runtime/collections/collections.c: one table with linear   *)
(* probing.  A removed key leaves a tombstone, which a search steps over   *)
(* and an insertion takes; growing drops the tombstones.                   *)
(***************************************************************************)
EXTENDS Integers, FiniteSets

CONSTANTS Key, Value,
          Hash,         \* hphl_map_hash: a number per key
          InitCap,      \* 8 in the code
          MaxCap,       \* bound: no growth beyond it
          Empty, Tomb   \* occupied = 0 and occupied = 2

OpenMapAssumption ==
    /\ Hash \in [Key -> Nat] /\ InitCap \in Nat \ {0} /\ MaxCap \in Nat
    /\ Empty # Tomb /\ Empty \notin Key \X Value /\ Tomb \notin Key \X Value

VARIABLES table,    \* slot -> Empty, Tomb or <<key, value>>
          count,
          last      \* not in the code: the last call and what it returned

vars == <<table, count, last>>

NoSlots(cap) == [i \in 0 .. cap - 1 |-> Empty]
Init == table = NoSlots(InitCap) /\ count = 0 /\ last = <<"new">>

Capacity(t) == Cardinality(DOMAIN t)
Full(t, i) == t[i] \notin {Empty, Tomb}
Has(t, i, k) == Full(t, i) /\ t[i][1] = k

\* The j-th slot a search for k looks at, and the looks before it ends: at an
\* empty slot or after one round.
Probe(t, k, j) == (Hash[k] + j) % Capacity(t)
Looks(t, k) ==
    {j \in 0 .. Capacity(t) - 1 : \A i \in 0 .. j - 1 : t[Probe(t, k, i)] # Empty}
Where(t, S, k) == Probe(t, k, CHOOSE j \in S : \A i \in S : j <= i)
FoundToTomb(t, k) ==                                          \* a mutation
    {j \in Looks(t, k) : /\ Has(t, Probe(t, k, j), k)
                         /\ \A i \in 0 .. j - 1 : t[Probe(t, k, i)] # Tomb}
Found(t, k) == {j \in Looks(t, k) : Has(t, Probe(t, k, j), k)}

\* hphl_map_get and hphl_map_contains
Contains(k) == Found(table, k) # {}
ValueOf(k) == table[Where(table, Found(table, k), k)][2]
Get(k) ==
    /\ Contains(k) /\ last' = <<"get", k, ValueOf(k)>>
    /\ UNCHANGED <<table, count>>

\* hphl_map_grow: what is in goes to the first free slot of the new table.
GrownAsIs(t) ==                                               \* a mutation
    [i \in 0 .. 2 * Capacity(t) - 1 |-> IF i \in DOMAIN t THEN t[i] ELSE Empty]
Placed(t, e) ==
    [t EXCEPT ![Where(t, {j \in DOMAIN t : t[Probe(t, e[1], j)] = Empty}, e[1])] = e]
Grown(t) ==                                                   \* to twice the slots
    LET Move[i \in 0 .. Capacity(t)] ==
            IF i = 0 THEN NoSlots(2 * Capacity(t))
            ELSE IF Full(t, i - 1) THEN Placed(Move[i - 1], t[i - 1]) ELSE Move[i - 1]
    IN  Move[Capacity(t)]

Crowded == 4 * count >= 3 * Capacity(table)

\* Where a new key goes: the first tombstone passed, else the empty slot.
Free(t, k) ==
    LET tombs == {j \in Looks(t, k) : t[Probe(t, k, j)] = Tomb}
    IN  IF tombs # {} THEN tombs ELSE {j \in Looks(t, k) : t[Probe(t, k, j)] = Empty}

\* hphl_map_put: the first growth comes before the search, also for a key that
\* is in; one that is in keeps its slot.  With no slot left there is another.
Put(k, v) ==
    LET first == IF Crowded THEN Grown(table) ELSE table
        t == IF Found(first, k) \cup Free(first, k) = {} THEN Grown(first) ELSE first
        in == Found(t, k) # {}
        slot == Where(t, IF in THEN Found(t, k) ELSE Free(t, k), k)
    IN  /\ Capacity(t) <= MaxCap
        /\ table' = [t EXCEPT ![slot] = <<k, v>>]
        /\ count' = IF in THEN count ELSE count + 1
        /\ last' = <<"put", k, v>>

RemovedEmpty == Empty                                         \* a mutation
Removed == Tomb

\* hphl_map_remove
Remove(k) ==
    /\ table' = IF Contains(k) THEN [table EXCEPT ![Where(table, Found(table, k), k)] = Removed]
                ELSE table
    /\ count' = IF Contains(k) THEN count - 1 ELSE count
    /\ last' = <<"remove", k, Contains(k)>>

Clear == table' = NoSlots(Capacity(table)) /\ count' = 0 /\ last' = <<"clear">>

Next ==
    \/ \E k \in Key, v \in Value : Put(k, v)
    \/ \E k \in Key : Remove(k) \/ Get(k)
    \/ Clear

Spec == Init /\ [][Next]_vars

-----------------------------------------------------------------------------
In == {i \in DOMAIN table : Full(table, i)}
Keys == {table[i][1] : i \in In}
Contents == [k \in Keys |-> table[CHOOSE i \in In : table[i][1] = k][2]]

\* The types; the counter is the number of keys, none of them in two slots.
TypeOK ==
    /\ table \in [DOMAIN table -> (Key \X Value) \cup {Empty, Tomb}]
    /\ DOMAIN table = 0 .. Capacity(table) - 1 /\ Capacity(table) \in InitCap .. MaxCap
    /\ count = Cardinality(In) /\ count = Cardinality(Keys)

\* A search finds what is in, past tombstones, growth and collisions, and
\* nothing else (hphl_map_get, hphl_map_contains).
FindsAll ==
    \A k \in Key : /\ Contains(k) <=> k \in Keys
                   /\ Contains(k) => ValueOf(k) = Contents[k]

\* The table does what a map does: every call returns what a map's would, and
\* the other keys keep their values.
A == INSTANCE KeyMap WITH map <- Contents
MapIsFunction == A!Spec
=============================================================================
