--------------------------------- MODULE Gc ---------------------------------
(***************************************************************************)
(* The generational mark-sweep collector of runtime/gc/gc.c, as seen by    *)
(* one running program: registered root slots, a write barrier with a card *)
(* bit per object, a remembered set, minor collections started by an       *)
(* allocation and major ones by gc_pressure().                             *)
(*                                                                         *)
(* A collection runs to its end before the program goes on; each grey      *)
(* object scanned is a step of its own.  Objects keep their address.       *)
(***************************************************************************)
EXTENDS Integers, Sequences, FiniteSets, TLC

CONSTANTS
    Obj,        \* addresses of blocks
    Field,      \* the pointer slots of an object, all in its class bitmap
    None,
    MaxRoots,   \* bound: root slots registered at a time
    RootLimit,  \* an allocation collects only with at most so many roots
    Threshold,  \* HPHL_GC_ALLOC_THRESHOLD: young objects that start a minor
    PromoAge,   \* HPHL_GC_PROMO_AGE: minors survived before promotion
    Pressure    \* when the program calls gc_pressure(): "never", "calm" (only
                \* while nothing is remembered) or "any" time

ASSUME GcAssumption ==
    /\ None \notin Obj /\ IsFiniteSet(Obj)
    /\ MaxRoots \in Nat /\ RootLimit \in Nat /\ Threshold \in Nat
    /\ PromoAge \in Nat \ {0} /\ Pressure \in {"never", "calm", "any"}

VARIABLES
    table,              \* per object: "young", "old" or "none" if unregistered
    ref,                \* the contents of the pointer slots
    gen, mark, card,    \* header bits, kept by a free block in the cache
    age,                \* gc_young_age
    remembered, grey,   \* gc_remembered, grey_list
    root,               \* the contents of the registered root slots
    phase,              \* "run", "minor", "minorTrace", "alloc", "majorTrace"
    block, want         \* of an allocation: its block and its root slot

heap == <<table, ref, gen, mark, card, age, remembered, grey>>
vars == <<table, ref, gen, mark, card, age, remembered, grey, root, phase,
          block, want>>

Init ==
    /\ table = [o \in Obj |-> "none"]
    /\ ref = [o \in Obj |-> [f \in Field |-> None]]
    /\ gen = [o \in Obj |-> FALSE]
    /\ mark = [o \in Obj |-> FALSE]
    /\ card = [o \in Obj |-> FALSE]
    /\ age = [o \in Obj |-> 0]
    /\ remembered = {} /\ grey = {}
    /\ root = <<>>
    /\ phase = "run"
    /\ block = None /\ want = 0

Symmetry == Permutations(Obj)         \* objects are interchangeable

Registered == {o \in Obj : table[o] # "none"}
Young == {o \in Obj : table[o] = "young"}
Old == {o \in Obj : table[o] = "old"}

Roots == {root[i] : i \in DOMAIN root} \ {None}
Children(S) == {ref[o][f] : o \in S, f \in Field} \ {None}

-----------------------------------------------------------------------------
(* The program *)

\* A frame registers a slot (hphl_gc_register_slots) and pops it at its end
\* (hphl_gc_pop_roots).
Enter ==
    /\ phase = "run" /\ Len(root) < MaxRoots
    /\ root' = Append(root, None)
    /\ UNCHANGED <<heap, phase, block, want>>

Leave ==
    /\ phase = "run" /\ root # <<>>
    /\ root' = SubSeq(root, 1, Len(root) - 1)
    /\ UNCHANGED <<heap, phase, block, want>>

\* A slot takes the value of a slot or of a field of an object in a slot.
Assign(i) ==
    /\ phase = "run"
    /\ \E v \in {None} \cup Roots \cup Children(Roots) :
          root' = [root EXCEPT ![i] = v]
    /\ UNCHANGED <<heap, phase, block, want>>

\* The barrier in front of a store: compiled inline, then
\* hphl_write_barrier_slow.
BarrierYoung(o) == ~gen[o] /\ ~card[o]                        \* a mutation
Barrier(o) == gen[o] /\ ~card[o]

Store(i, f) ==
    /\ phase = "run" /\ root[i] # None
    /\ LET o == root[i]
       IN  /\ IF Barrier(o)
              THEN /\ card' = [card EXCEPT ![o] = TRUE]
                   /\ remembered' = remembered \cup {o}
              ELSE UNCHANGED <<card, remembered>>
           /\ \E v \in {None} \cup Roots : ref' = [ref EXCEPT ![o][f] = v]
    /\ UNCHANGED <<table, gen, mark, age, grey, root, phase, block, want>>

\* A header bit of a block taken for an object: hphl_tc_free keeps a free block
\* with its header and hphl_tc_alloc returns it so; malloc's is clear.
Header(bit, o, cached) == [bit EXCEPT ![o] = cached /\ @]

\* gc_maybe_collect_on_alloc: enough young objects, 0 being never, and few roots.
Collects == Threshold > 0 /\ Cardinality(Young) >= Threshold /\ Len(root) <= RootLimit

\* hphl_shared_alloc takes a block, and hphl_gc_register may collect before it
\* registers the block.
StartAlloc(i) ==
    /\ phase = "run"
    /\ \E o \in Obj \ Registered, cached \in BOOLEAN :
          /\ block' = o
          /\ gen' = Header(gen, o, cached)
          /\ mark' = Header(mark, o, cached)
          /\ card' = Header(card, o, cached)
          /\ ref' = [ref EXCEPT ![o] = [f \in Field |-> None]]
    /\ want' = i
    /\ phase' = IF Collects THEN "minor" ELSE "alloc"
    /\ UNCHANGED <<table, age, remembered, grey, root>>

EndAlloc ==
    /\ phase = "alloc"
    /\ table' = [table EXCEPT ![block] = "young"]
    /\ age' = [age EXCEPT ![block] = 0]
    /\ root' = [root EXCEPT ![want] = block]
    /\ phase' = "run"
    /\ block' = None /\ want' = 0
    /\ UNCHANGED <<ref, gen, mark, card, remembered, grey>>
-----------------------------------------------------------------------------
(* Marking: grey_push and visit_grey take registered, unmarked objects *)

Unmarked(S, m) == {o \in S \cap Registered : ~m[o]}

\* hphl_gc_minor up to the mark loop.  The marks of old objects stay as the
\* last trace left them.  Children of the remembered objects are seeds, and
\* the remembered set is consumed.
BeginMinor ==
    /\ phase = "minor"
    /\ LET cleared == [o \in Obj |-> mark[o] /\ o \notin Young]
           seeds == Unmarked(Roots \cup Children(remembered), cleared)
       IN  /\ mark' = [o \in Obj |-> cleared[o] \/ o \in seeds]
           /\ grey' = seeds
    /\ card' = [o \in Obj |-> card[o] /\ o \notin remembered]
    /\ remembered' = {}
    /\ phase' = "minorTrace"
    /\ UNCHANGED <<table, ref, gen, age, root, block, want>>

\* hphl_gc_pressure: the card table, which compiled code never writes, has
\* nothing to add; hphl_gc_major drops the remembered set and leaves the card bits
\* of its members set.
GcPressure ==
    /\ phase = "run"
    /\ Pressure = "any" \/ (Pressure = "calm" /\ remembered = {})
    /\ remembered' = {}
    /\ phase' = "majorTrace"

\* Then hphl_gc_sweep clears every mark, so what a scan of the stack marked
\* before is forgotten, and seeds the roots.  An empty heap is left alone.
BeginMajor ==
    /\ GcPressure /\ Registered # {}
    /\ LET seeds == Unmarked(Roots, [o \in Obj |-> FALSE])
       IN  /\ mark' = [o \in Obj |-> o \in seeds \/ (mark[o] /\ o \notin Registered)]
           /\ grey' = seeds
    /\ UNCHANGED <<table, ref, gen, card, age, root, block, want>>

\* hphl_gc_step: one grey object is scanned.
VisitedOld(o) == Unmarked(Children({o}) \cap Old, mark)         \* a mutation
Visited(o) == Unmarked(Children({o}), mark)
Scan(o) ==
    /\ phase \in {"minorTrace", "majorTrace"} /\ o \in grey
    /\ LET new == Visited(o)
       IN  /\ mark' = [c \in Obj |-> mark[c] \/ c \in new]
           /\ grey' = (grey \ {o}) \cup new
    /\ UNCHANGED <<table, ref, gen, card, age, remembered, root, phase, block,
                   want>>

-----------------------------------------------------------------------------
(* Sweeping *)

\* gc_obj_alive_after_mark: with no root at all the count decides, and it is
\* one from birth.
AliveByCount(o) == TRUE                                       \* a mutation
Alive(o) == root = <<>> \/ mark[o]

\* hphl_gc_minor after the mark loop: dead young objects are freed, the others
\* age and are promoted in place; a promoted object is remembered unless its
\* card bit is set (hphl_gc_rem_add).
RipeLate(o) == age[o] >= PromoAge                             \* a mutation
Ripe(o) == age[o] + 1 >= PromoAge

EndMinor ==
    /\ phase = "minorTrace" /\ grey = {}
    /\ LET stay == {o \in Young : Alive(o)}
           promoted == {o \in stay : Ripe(o)}
       IN  /\ table' = [o \in Obj |->
                           IF o \in promoted THEN "old"
                           ELSE IF o \in Young \ stay THEN "none" ELSE table[o]]
           /\ age' = [o \in Obj |->
                         IF o \in stay \ promoted THEN age[o] + 1 ELSE 0]
           /\ gen' = [o \in Obj |-> gen[o] \/ o \in promoted]
           /\ card' = [o \in Obj |-> card[o] \/ o \in promoted]
           /\ remembered' = remembered \cup {o \in promoted : ~card[o]}
    /\ phase' = "alloc"
    /\ UNCHANGED <<ref, mark, grey, root, block, want>>

\* hphl_gc_sweep after the mark loop: dead objects of both tables are freed and
\* nothing is promoted.
EndMajor ==
    /\ phase = "majorTrace" /\ grey = {}
    /\ table' = [o \in Obj |-> IF Alive(o) THEN table[o] ELSE "none"]
    /\ card' = [o \in Obj |-> card[o] /\ (o \in Old => Alive(o))]
    /\ age' = [o \in Obj |-> IF Alive(o) THEN age[o] ELSE 0]
    /\ phase' = "run"
    /\ UNCHANGED <<ref, gen, mark, remembered, grey, root, block, want>>

Next ==
    \/ Enter \/ Leave
    \/ \E i \in DOMAIN root :
          Assign(i) \/ StartAlloc(i) \/ \E f \in Field : Store(i, f)
    \/ EndAlloc
    \/ BeginMinor \/ BeginMajor
    \/ \E o \in Obj : Scan(o)
    \/ EndMinor \/ EndMajor

Spec == Init /\ [][Next]_vars

-----------------------------------------------------------------------------
(* Properties *)

\* The types, and the places where each variable rests between collections.
TypeOK ==
    /\ table \in [Obj -> {"none", "young", "old"}]
    /\ ref \in [Obj -> [Field -> Obj \cup {None}]]
    /\ gen \in [Obj -> BOOLEAN] /\ mark \in [Obj -> BOOLEAN]
    /\ card \in [Obj -> BOOLEAN]
    /\ age \in [Obj -> 0 .. PromoAge - 1]
    /\ remembered \subseteq Obj /\ grey \subseteq Registered
    /\ root \in Seq(Obj \cup {None}) /\ Len(root) <= MaxRoots
    /\ phase \in {"run", "minor", "minorTrace", "alloc", "majorTrace"}
    /\ block \in Obj \cup {None} /\ want \in 0 .. Len(root)
    /\ phase \in {"run", "majorTrace"} <=> block = None

\* A variable of the program never holds an object the collector has freed,
\* whichever path through the heap the value came by.
RootsLive == Roots \subseteq Registered

\* Whenever the program runs, an old object with a young child is in the
\* remembered set, so the next minor collection sees the child.
OldToYoungRemembered ==
    phase = "run" =>
        \A o \in Old : Children({o}) \cap Young # {} => o \in remembered

\* The objects reachable from the roots, as the least set closed under fields.
Reachable ==
    {o \in Obj : \A S \in SUBSET Obj :
        Roots \subseteq S /\ Children(S) \subseteq S => o \in S}

\* A major collection frees exactly the objects no root reaches: cycles among
\* garbage go, and everything a variable can get at stays.
MajorIsExact ==
    [][EndMajor /\ root # <<>> => Registered' = Registered \cap Reachable]_vars
=============================================================================
