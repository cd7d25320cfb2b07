------------------------------ MODULE GcProofs ------------------------------
(***************************************************************************)
(* The collector is right for any number of objects, fields and root slots *)
(* and any thresholds, while promotion comes at the first collection and   *)
(* gc_pressure is called only when nothing is remembered.  Without either  *)
(* limit it is not: the run gc_default_age and the README.                 *)
(***************************************************************************)
EXTENDS Gc, SeqLemmas

Limits == PromoAge = 1 /\ Pressure \in {"never", "calm"}

\* The compiled barrier looks at the header: an old object has its bit.
OldHasBit == \A o \in Old : gen[o]

\* The two records of what is remembered agree, also on free blocks, which go
\* back to the program with the header they had.
CardExact == \A o \in Obj : card[o] <=> o \in remembered
RememberedLive == remembered \subseteq Registered

\* No object points to a freed one, whether or not it can be reached.
Closed == Children(Registered) \subseteq Registered

\* The block being allocated is known to nobody and points to nothing; without
\* one no slot waits for it.
BlockClean ==
    /\ block # None => block \notin Registered /\ Children({block}) = {}
    /\ block = None => want = 0

\* Outside the mark loop old objects with young children are remembered.
Remembers ==
    phase # "minorTrace" =>
        \A o \in Old : Children({o}) \cap Young # {} => o \in remembered

\* In a minor trace the roots and the young children of old objects are
\* marked, and so are the children of each young object already scanned.
MinorMarks ==
    phase = "minorTrace" =>
        /\ remembered = {}
        /\ \A o \in Roots : mark[o]
        /\ \A o \in Old : \A c \in Children({o}) \cap Young : mark[c]
        /\ \A o \in Young \ grey : mark[o] => \A c \in Children({o}) : mark[c]

\* In a major trace the same for all objects, and only what is reachable is
\* marked.
MajorMarks ==
    phase = "majorTrace" =>
        /\ remembered = {}
        /\ \A o \in Roots : mark[o]
        /\ \A o \in Registered \ grey : mark[o] => \A c \in Children({o}) : mark[c]
        /\ \A o \in Registered : mark[o] => o \in Reachable
        /\ grey \subseteq Reachable

IInv ==
    /\ Limits /\ TypeOK
    /\ RootsLive /\ Closed /\ BlockClean
    /\ OldHasBit /\ CardExact /\ RememberedLive /\ Remembers
    /\ MinorMarks /\ MajorMarks

-----------------------------------------------------------------------------

\* A slot of a sequence, or none, is replaced.
LEMMA SetSlot ==
    ASSUME NEW S, NEW q \in Seq(S), NEW k \in 0 .. Len(q), NEW x \in S
    PROVE  /\ [q EXCEPT ![k] = x] \in Seq(S)
           /\ Len([q EXCEPT ![k] = x]) = Len(q)
           /\ DOMAIN [q EXCEPT ![k] = x] = DOMAIN q
           /\ \A i \in DOMAIN q : [q EXCEPT ![k] = x][i] \in {q[i], x}
<1>1. Len(q) \in Nat /\ DOMAIN q = 1 .. Len(q) /\ q \in [1 .. Len(q) -> S]
  BY LenProperties
<1>2. CASE k = 0
  <2>1. [q EXCEPT ![k] = x] = q
    BY <1>1, <1>2
  <2> QED
    BY <2>1, <1>1
<1>3. CASE k \in 1 .. Len(q)
  BY <1>1, <1>3, ExceptSeq
<1> QED
  BY <1>1, <1>2, <1>3

\* What the program reads in a slot is an object or None.
LEMMA RootTypes ==
    ASSUME TypeOK
    PROVE  /\ Len(root) \in Nat /\ DOMAIN root = 1 .. Len(root)
           /\ \A i \in DOMAIN root : root[i] \in Obj \cup {None}
           /\ Roots \subseteq Obj
BY LenProperties, ElementOfSeq DEF TypeOK, Roots

\* A child is what some field of some parent holds.
LEMMA ChildrenOf ==
    ASSUME TypeOK, NEW S \in SUBSET Obj
    PROVE  /\ Children(S) \subseteq Obj
           /\ \A c : c \in Children(S) <=>
                c # None /\ \E o \in S : \E f \in Field : ref[o][f] = c
           /\ \A c : c \in Children(S) <=> \E o \in S : c \in Children({o})
BY DEF Children, TypeOK

\* Everything a closed set with the roots holds is reachable, step by step.
LEMMA ReachableClosed ==
    ASSUME TypeOK
    PROVE  /\ Roots \subseteq Reachable
           /\ \A o \in Reachable : Children({o}) \subseteq Reachable
<1>1. Roots \subseteq Reachable
  BY RootTypes DEF Reachable
<1>2. ASSUME NEW o \in Reachable, NEW c \in Children({o}) PROVE c \in Reachable
  <2>1. o \in Obj /\ c \in Obj
    BY <1>2, ChildrenOf DEF Reachable
  <2>2. ASSUME NEW S \in SUBSET Obj, Roots \subseteq S, Children(S) \subseteq S
        PROVE  c \in S
    <3>1. o \in S
      BY <2>2, <1>2 DEF Reachable
    <3> QED
      BY <2>2, <3>1, <1>2 DEF Children
  <2> QED
    BY <2>1, <2>2 DEF Reachable
<1> QED
  BY <1>1, <1>2

-----------------------------------------------------------------------------

LEMMA InitIInv == Limits /\ Init => IInv
<1> SUFFICES ASSUME Limits, Init PROVE IInv
  OBVIOUS
<1> USE GcAssumption DEF Init
<1>1. Registered = {} /\ Old = {} /\ Young = {} /\ Roots = {}
  BY DEF Registered, Old, Young, Roots
<1>2. root \in Seq(Obj \cup {None}) /\ Len(root) = 0
  BY EmptySeq, LenProperties
<1>3. TypeOK
  BY <1>1, <1>2 DEF TypeOK, Limits
<1>4. RootsLive /\ Closed /\ BlockClean
  BY <1>1 DEF RootsLive, Closed, Children, BlockClean
<1>5. OldHasBit /\ CardExact /\ RememberedLive /\ Remembers
  BY <1>1 DEF OldHasBit, CardExact, RememberedLive, Remembers
<1>6. MinorMarks /\ MajorMarks
  BY DEF MinorMarks, MajorMarks
<1> QED
  BY <1>3, <1>4, <1>5, <1>6 DEF IInv

\* Steps of the program that change slots only.
LEMMA SlotsIInv ==
    ASSUME IInv, phase = "run", UNCHANGED <<heap, phase, block, want>>,
           root' \in Seq(Obj \cup {None}), Len(root') <= MaxRoots,
           Roots' \subseteq Registered
    PROVE  IInv'
<1> USE DEF IInv, heap
<1>1. Registered' = Registered /\ Old' = Old /\ Young' = Young
  BY DEF Registered, Old, Young
<1>2. \A S : Children(S)' = Children(S)
  BY DEF Children
<1>3. Limits' /\ Len(root') \in Nat
  BY LenProperties DEF Limits
<1>4. TypeOK'
  <2>1. want = 0
    BY DEF TypeOK, BlockClean
  <2> QED
    BY <2>1, <1>1, <1>3 DEF TypeOK
<1>5. RootsLive' /\ Closed'
  BY <1>1 DEF RootsLive, Closed, Children
<1>b. BlockClean'
  BY <1>1 DEF BlockClean, Children
<1>6. OldHasBit' /\ CardExact' /\ RememberedLive' /\ Remembers'
  BY <1>1, <1>2 DEF OldHasBit, CardExact, RememberedLive, Remembers, Children
<1>7. MinorMarks' /\ MajorMarks'
  BY DEF MinorMarks, MajorMarks
<1> QED
  BY <1>3, <1>4, <1>5, <1>b, <1>6, <1>7

LEMMA EnterIInv == IInv /\ Enter => IInv'
<1> SUFFICES ASSUME IInv, Enter PROVE IInv'
  OBVIOUS
<1> USE DEF IInv, Enter
<1>1. /\ root' \in Seq(Obj \cup {None}) /\ Len(root') = Len(root) + 1
      /\ \A i \in 1 .. Len(root) : root'[i] = root[i]
      /\ root'[Len(root) + 1] = None
      /\ DOMAIN root' = 1 .. Len(root')
  BY AppendFacts, LenProperties DEF TypeOK
<1>2. Roots' \subseteq Roots
  BY <1>1, RootTypes DEF Roots
<1> QED
  BY <1>1, <1>2, RootTypes, SlotsIInv, GcAssumption DEF RootsLive, heap

LEMMA LeaveIInv == IInv /\ Leave => IInv'
<1> SUFFICES ASSUME IInv, Leave PROVE IInv'
  OBVIOUS
<1> USE DEF IInv, Leave
<1>1. Len(root) \in Nat \ {0} /\ root' = Front(root)
  BY FrontFacts DEF TypeOK, Front
<1>2. /\ root' \in Seq(Obj \cup {None}) /\ Len(root') = Len(root) - 1
      /\ \A i \in 1 .. Len(root) - 1 : root'[i] = root[i]
      /\ DOMAIN root' = 1 .. Len(root')
  <2>1. root \in Seq(Obj \cup {None}) /\ root # <<>>
    BY DEF TypeOK
  <2>2. /\ root' \in Seq(Obj \cup {None}) /\ Len(root') = Len(root) - 1
        /\ \A i \in 1 .. Len(root) - 1 : root'[i] = root[i]
    BY <2>1, <1>1, FrontFacts
  <2> QED
    BY <2>2, LenProperties
<1>3. Roots' \subseteq Roots
  BY <1>1, <1>2, RootTypes DEF Roots
<1> QED
  BY <1>1, <1>2, <1>3, SlotsIInv, GcAssumption, SMTT(30) DEF RootsLive, heap, TypeOK

LEMMA AssignIInv ==
    ASSUME IInv, NEW i \in DOMAIN root, Assign(i)
    PROVE  IInv'
<1> USE DEF IInv
<1>1. PICK v \in {None} \cup Roots \cup Children(Roots) : root' = [root EXCEPT ![i] = v]
  BY DEF Assign
<1>2. v \in Registered \cup {None}
  <2>1. Roots \subseteq Registered
    BY DEF RootsLive
  <2>2. Children(Roots) \subseteq Children(Registered)
    BY <2>1 DEF Children
  <2> QED
    BY <2>1, <2>2 DEF Closed
<1>3. i \in 0 .. Len(root) /\ v \in Obj \cup {None}
  BY <1>2, RootTypes DEF Registered
<1>4. /\ root' \in Seq(Obj \cup {None}) /\ Len(root') = Len(root)
      /\ DOMAIN root' = DOMAIN root
      /\ \A j \in DOMAIN root : root'[j] \in {root[j], v}
  BY <1>1, <1>3, SetSlot DEF TypeOK
<1>5. Roots' \subseteq Registered
  BY <1>2, <1>4 DEF Roots, RootsLive
<1> QED
  BY <1>4, <1>5, SlotsIInv DEF Assign, TypeOK

\* A store of a young object into an old one is remembered.
LEMMA StoreIInv ==
    ASSUME IInv, NEW i \in DOMAIN root, NEW f \in Field, Store(i, f)
    PROVE  IInv'
<1> USE DEF IInv
<1> DEFINE o == root[i]
<1>1. o \in Roots /\ o \in Registered /\ o \in Obj
  BY RootTypes DEF Roots, Store, RootsLive, Registered
<1>2. PICK v \in {None} \cup Roots : ref' = [ref EXCEPT ![o][f] = v]
  BY DEF Store
<1>3. /\ \A x \in Obj : card'[x] <=> x \in remembered'
      /\ card' \in [Obj -> BOOLEAN]
      /\ remembered \subseteq remembered' /\ remembered' \subseteq remembered \cup {o}
      /\ gen[o] => o \in remembered'
  <2>1. CASE Barrier(o)
    <3>1. card' = [card EXCEPT ![o] = TRUE] /\ remembered' = remembered \cup {o}
      BY <2>1 DEF Store
    <3>2. \A x \in Obj : card'[x] <=> x \in remembered'
      BY <3>1, <1>1 DEF CardExact, TypeOK
    <3> QED
      BY <3>1, <3>2 DEF TypeOK
  <2>2. CASE ~Barrier(o)
    <3>1. UNCHANGED <<card, remembered>>
      BY <2>2 DEF Store
    <3> QED
      BY <2>2, <3>1, <1>1 DEF Barrier, CardExact, TypeOK
  <2> QED
    BY <2>1, <2>2
<1>u. phase = "run" /\ UNCHANGED <<table, gen, mark, age, grey, root, phase, block, want>>
  BY DEF Store
<1>4. Registered' = Registered /\ Old' = Old /\ Young' = Young /\ Roots' = Roots
  BY <1>u DEF Registered, Old, Young, Roots
<1>5. v \in Registered \cup {None}
  BY DEF RootsLive
<1>6. ref' \in [Obj -> [Field -> Obj \cup {None}]]
  BY <1>1, <1>2, <1>5 DEF TypeOK, Registered
<1>7. \A x \in Obj : \A c : c \in Children({x})' =>
         c \in Children({x}) \/ (x = o /\ c = v /\ v # None)
  BY <1>1, <1>2 DEF Children, TypeOK
<1>8. Limits'
  BY DEF Limits
<1>9. TypeOK'
  BY <1>1, <1>3, <1>4, <1>6, <1>u DEF TypeOK
<1>10. RootsLive'
  BY <1>4 DEF RootsLive
<1>11. Closed'
  <2> SUFFICES ASSUME NEW c \in Children(Registered)' PROVE c \in Registered
    BY <1>4 DEF Closed
  <2>1. PICK x \in Registered : c \in Children({x})'
    BY <1>4 DEF Children
  <2>2. x \in Obj
    BY DEF Registered
  <2>3. CASE c \in Children({x})
    BY <2>3 DEF Children, Closed
  <2>4. CASE c = v /\ v # None
    BY <2>4, <1>5
  <2> QED
    BY <2>1, <2>2, <2>3, <2>4, <1>7
<1>12. BlockClean'
  BY <1>u DEF BlockClean, TypeOK
<1>13. OldHasBit' /\ CardExact' /\ RememberedLive'
  BY <1>1, <1>3, <1>4, <1>u DEF OldHasBit, CardExact, RememberedLive
<1>14. Remembers'
  <2> SUFFICES ASSUME NEW x \in Old, NEW c \in Children({x})' \cap Young
               PROVE  x \in remembered'
    BY <1>4 DEF Remembers
  <2>1. x \in Obj
    BY DEF Old
  <2>2. CASE c \in Children({x})
    BY <2>2, <1>3, <1>u DEF Remembers
  <2>3. CASE x = o
    BY <2>3, <1>3 DEF OldHasBit
  <2> QED
    BY <2>1, <2>2, <2>3, <1>7
<1>15. MinorMarks' /\ MajorMarks'
  BY <1>u DEF MinorMarks, MajorMarks
<1> QED
  BY <1>8, <1>9, <1>10, <1>11, <1>12, <1>13, <1>14, <1>15

\* A free block has no card bit, since only registered objects are remembered.
LEMMA StartAllocIInv ==
    ASSUME IInv, NEW i \in DOMAIN root, StartAlloc(i)
    PROVE  IInv'
<1> USE DEF IInv
<1>1. PICK o \in Obj \ Registered, cached \in BOOLEAN :
          /\ block' = o
          /\ gen' = [gen EXCEPT ![o] = cached /\ @]
          /\ mark' = [mark EXCEPT ![o] = cached /\ @]
          /\ card' = [card EXCEPT ![o] = cached /\ @]
          /\ ref' = [ref EXCEPT ![o] = [f \in Field |-> None]]
  BY DEF StartAlloc, Header
<1>u. /\ phase = "run" /\ phase' \in {"minor", "alloc"} /\ want' = i
      /\ UNCHANGED <<table, age, remembered, grey, root>>
  BY DEF StartAlloc, Header
<1>2. Registered' = Registered /\ Old' = Old /\ Young' = Young /\ Roots' = Roots
  BY <1>u DEF Registered, Old, Young, Roots
<1>3. \A x \in Registered : Children({x})' = Children({x})
  BY <1>1 DEF Children, TypeOK, Registered
<1>4. Limits'
  BY DEF Limits
<1>5. TypeOK'
  <2>1. want' \in 0 .. Len(root')
    BY <1>u, RootTypes
  <2>2. block' \in Obj /\ block' # None
    BY <1>1, GcAssumption
  <2>3. /\ gen' \in [Obj -> BOOLEAN] /\ mark' \in [Obj -> BOOLEAN]
        /\ card' \in [Obj -> BOOLEAN] /\ ref' \in [Obj -> [Field -> Obj \cup {None}]]
    BY <1>1 DEF TypeOK
  <2> QED
    BY <2>1, <2>2, <2>3, <1>2, <1>u DEF TypeOK
<1>6. RootsLive'
  BY <1>2 DEF RootsLive
<1>7. Closed'
  BY <1>2, <1>3 DEF Closed, Children
<1>8. BlockClean'
  <2>1. block' \notin Registered' /\ block' # None /\ block' \in Obj
    BY <1>1, <1>2, GcAssumption
  <2>2. \A f \in Field : ref'[block'][f] = None
    BY <2>1, <1>1 DEF TypeOK
  <2> QED
    BY <2>1, <2>2 DEF BlockClean, Children
<1>9. OldHasBit' /\ CardExact' /\ RememberedLive'
  BY <1>1, <1>2, <1>u DEF OldHasBit, CardExact, RememberedLive, TypeOK, Old, Registered
<1>10. Remembers'
  <2>1. Old \subseteq Registered
    BY DEF Old, Registered
  <2> QED
    BY <2>1, <1>2, <1>3, <1>u DEF Remembers
<1>11. MinorMarks' /\ MajorMarks'
  BY <1>u DEF MinorMarks, MajorMarks
<1> QED
  BY <1>4, <1>5, <1>6, <1>7, <1>8, <1>9, <1>10, <1>11

\* The new object is young, and nothing old points to it yet.
LEMMA EndAllocIInv == IInv /\ EndAlloc => IInv'
<1> SUFFICES ASSUME IInv, EndAlloc PROVE IInv'
  OBVIOUS
<1> USE DEF IInv, EndAlloc
<1>1. block \in Obj /\ block # None /\ block \notin Registered /\ Children({block}) = {}
  BY DEF TypeOK, BlockClean
<1>2. /\ Registered' = Registered \cup {block}
      /\ Young' = Young \cup {block} /\ Old' = Old
  BY <1>1 DEF Registered, Young, Old, TypeOK
<1>3. \A S : Children(S)' = Children(S)
  BY DEF Children
<1>4. /\ root' \in Seq(Obj \cup {None}) /\ Len(root') = Len(root)
      /\ DOMAIN root' = DOMAIN root
      /\ \A j \in DOMAIN root : root'[j] \in {root[j], block}
  <2>1. root \in Seq(Obj \cup {None}) /\ want \in 0 .. Len(root) /\ block \in Obj \cup {None}
    BY DEF TypeOK
  <2>2. root' = [root EXCEPT ![want] = block]
    OBVIOUS
  <2> QED
    BY <2>1, <2>2, SetSlot
<1>5. Roots' \subseteq Roots \cup {block}
  BY <1>4 DEF Roots
<1>6. Limits'
  BY DEF Limits
<1>7. TypeOK'
  <2>1. age' \in [Obj -> 0 .. PromoAge - 1]
    BY <1>1 DEF TypeOK, Limits
  <2>2. table' \in [Obj -> {"none", "young", "old"}]
    BY DEF TypeOK
  <2> QED
    BY <2>1, <2>2, <1>2, <1>4, RootTypes DEF TypeOK
<1>8. RootsLive'
  BY <1>2, <1>5 DEF RootsLive
<1>9. Closed'
  <2>1. Children(Registered \cup {block}) = Children(Registered) \cup Children({block})
    BY DEF Children
  <2> QED
    BY <2>1, <1>1, <1>2, <1>3 DEF Closed
<1>10. BlockClean'
  BY DEF BlockClean
<1>11. OldHasBit' /\ CardExact' /\ RememberedLive'
  BY <1>2 DEF OldHasBit, CardExact, RememberedLive
<1>12. Remembers'
  <2> SUFFICES ASSUME NEW x \in Old, NEW c \in Children({x}), c \in Young \cup {block}
               PROVE  x \in remembered
    BY <1>2, <1>3 DEF Remembers
  <2>1. c \in Registered
    BY DEF Closed, Children, Old, Registered
  <2>2. c \in Young
    BY <2>1, <1>1
  <2> QED
    BY <2>2 DEF Remembers
<1>13. MinorMarks' /\ MajorMarks'
  BY DEF MinorMarks, MajorMarks
<1> QED
  BY <1>6, <1>7, <1>8, <1>9, <1>10, <1>11, <1>12, <1>13

-----------------------------------------------------------------------------
(* Collections *)

\* What consumes the remembered set has seen every young child of an old object.
LEMMA BeginMinorIInv == IInv /\ BeginMinor => IInv'
<1> SUFFICES ASSUME IInv, BeginMinor PROVE IInv'
  OBVIOUS
<1> USE DEF IInv
<1> DEFINE cleared == [o \in Obj |-> mark[o] /\ o \notin Young]
           seeds == Unmarked(Roots \cup Children(remembered), cleared)
<1>u. /\ phase = "minor" /\ phase' = "minorTrace" /\ remembered' = {}
      /\ mark' = [o \in Obj |-> cleared[o] \/ o \in seeds] /\ grey' = seeds
      /\ card' = [o \in Obj |-> card[o] /\ o \notin remembered]
      /\ UNCHANGED <<table, ref, gen, age, root, block, want>>
  BY DEF BeginMinor
<1>1. /\ Registered' = Registered /\ Old' = Old /\ Young' = Young /\ Roots' = Roots
      /\ \A S : Children(S)' = Children(S)
  BY <1>u DEF Registered, Old, Young, Roots, Children
<1>2. \A c \in (Roots \cup Children(remembered)) \cap Registered : mark'[c]
  BY <1>u DEF Unmarked, Registered
<1>3. \A c \in Young : mark'[c] => c \in grey'
  BY <1>u DEF Young
<1>4. seeds \subseteq Registered
  BY DEF Unmarked
<1>5. TypeOK'
  <2>1. mark' \in [Obj -> BOOLEAN] /\ card' \in [Obj -> BOOLEAN]
    BY <1>u DEF TypeOK
  <2> HIDE DEF seeds, cleared
  <2> QED
    BY <2>1, <1>u, <1>1, <1>4 DEF TypeOK
<1> HIDE DEF seeds, cleared
<1>6. Limits' /\ RootsLive' /\ Closed' /\ BlockClean'
  BY <1>u, <1>1 DEF Limits, RootsLive, Closed, BlockClean
<1>7. OldHasBit' /\ CardExact' /\ RememberedLive' /\ Remembers'
  BY <1>u, <1>1 DEF OldHasBit, CardExact, RememberedLive, Remembers
<1>8. \A o \in Old : \A c \in Children({o}) \cap Young : mark'[c]
  <2> SUFFICES ASSUME NEW o \in Old, NEW c \in Children({o}), c \in Young PROVE mark'[c]
    OBVIOUS
  <2>1. o \in remembered /\ c \in Registered
    BY <1>u DEF Remembers, Young, Registered
  <2>2. c \in Children(remembered)
    BY <2>1 DEF Children
  <2> QED
    BY <2>1, <2>2, <1>2
<1>9. MinorMarks' /\ MajorMarks'
  BY <1>u, <1>1, <1>2, <1>3, <1>8 DEF MinorMarks, MajorMarks, RootsLive
<1> QED
  BY <1>5, <1>6, <1>7, <1>9

\* gc_pressure with nothing remembered: no old object has a young child.
LEMMA BeginMajorIInv == IInv /\ BeginMajor => IInv'
<1> SUFFICES ASSUME IInv, BeginMajor PROVE IInv'
  OBVIOUS
<1> USE DEF IInv
<1> DEFINE seeds == Unmarked(Roots, [o \in Obj |-> FALSE])
<1>u. /\ phase = "run" /\ phase' = "majorTrace" /\ remembered = {} /\ remembered' = {}
      /\ mark' = [o \in Obj |-> o \in seeds \/ (mark[o] /\ o \notin Registered)]
      /\ grey' = seeds
      /\ UNCHANGED <<table, ref, gen, card, age, root, block, want>>
  BY DEF BeginMajor, GcPressure, Limits
<1>1. /\ Registered' = Registered /\ Old' = Old /\ Young' = Young /\ Roots' = Roots
      /\ \A S : Children(S)' = Children(S)
  BY <1>u DEF Registered, Old, Young, Roots, Children
<1>2. Reachable' = Reachable
  BY <1>1 DEF Reachable
<1>3. seeds = Roots
  BY RootTypes DEF Unmarked, RootsLive
<1>4. /\ \A o \in Roots : mark'[o]
      /\ \A o \in Registered : mark'[o] => o \in Roots
  BY <1>u, <1>3, RootTypes DEF Registered
<1>5. TypeOK'
  <2>1. mark' \in [Obj -> BOOLEAN]
    BY <1>u DEF TypeOK
  <2> HIDE DEF seeds
  <2> QED
    BY <2>1, <1>u, <1>1, <1>3 DEF TypeOK, RootsLive
<1> HIDE DEF seeds
<1>6. Limits' /\ RootsLive' /\ Closed' /\ BlockClean'
  BY <1>u, <1>1 DEF Limits, RootsLive, Closed, BlockClean
<1>7. OldHasBit' /\ CardExact' /\ RememberedLive' /\ Remembers'
  BY <1>u, <1>1 DEF OldHasBit, CardExact, RememberedLive, Remembers
<1>8. MinorMarks' /\ MajorMarks'
  BY <1>u, <1>1, <1>2, <1>3, <1>4, ReachableClosed DEF MinorMarks, MajorMarks
<1> QED
  BY <1>5, <1>6, <1>7, <1>8

\* Scanning an object marks its children; nothing else loses a mark.
LEMMA ScanIInv ==
    ASSUME IInv, NEW o \in Obj, Scan(o)
    PROVE  IInv'
<1> USE DEF IInv
<1> DEFINE new == Visited(o)
<1>u. /\ phase \in {"minorTrace", "majorTrace"} /\ o \in grey
      /\ mark' = [c \in Obj |-> mark[c] \/ c \in new]
      /\ grey' = (grey \ {o}) \cup new
      /\ UNCHANGED <<table, ref, gen, card, age, remembered, root, phase, block, want>>
  BY DEF Scan
<1>1. /\ Registered' = Registered /\ Old' = Old /\ Young' = Young /\ Roots' = Roots
      /\ \A S : Children(S)' = Children(S)
  BY <1>u DEF Registered, Old, Young, Roots, Children
<1>2. Reachable' = Reachable
  BY <1>1 DEF Reachable
<1>3. new \subseteq Registered /\ new \subseteq Children({o}) /\ Registered \subseteq Obj
  BY DEF Visited, Unmarked, Registered
<1>4. o \in Registered /\ \A x \in Registered : Children({x}) \subseteq Registered
  BY <1>u DEF TypeOK, Closed, Children
<1>5. \A c \in Children({o}) : mark'[c]
  BY <1>u, <1>3, <1>4 DEF Visited, Unmarked
<1> HIDE DEF new
<1>6. \A c \in Obj : mark[c] => mark'[c]
  BY <1>u
<1>7. ASSUME NEW x \in Registered \ grey', mark'[x],
             x # o => (mark[x] /\ x \notin grey => \A c \in Children({x}) : mark[c])
      PROVE  \A c \in Children({x}) : mark'[c]
  <2>1. x # o => mark[x] /\ x \notin grey
    BY <1>7, <1>u, <1>3
  <2> QED
    BY <2>1, <1>7, <1>5, <1>6, <1>4, <1>3
<1>8. TypeOK'
  <2>1. mark' \in [Obj -> BOOLEAN]
    BY <1>u DEF TypeOK
  <2> QED
    BY <2>1, <1>u, <1>1, <1>3 DEF TypeOK
<1>9. Limits' /\ RootsLive' /\ Closed' /\ BlockClean'
  BY <1>u, <1>1 DEF Limits, RootsLive, Closed, BlockClean
<1>10. OldHasBit' /\ CardExact' /\ RememberedLive' /\ Remembers'
  BY <1>u, <1>1 DEF OldHasBit, CardExact, RememberedLive, Remembers
<1>11. MinorMarks'
  <2> SUFFICES ASSUME phase = "minorTrace" PROVE MinorMarks'
    BY <1>u DEF MinorMarks
  <2>1. Young \subseteq Registered /\ Roots \subseteq Obj
    BY RootTypes DEF Young, Registered
  <2>2. \A x \in Young \ grey' : mark'[x] => \A c \in Children({x}) : mark'[c]
    BY <2>1, <1>7 DEF MinorMarks
  <2>3. \A x \in Old : \A c \in Children({x}) \cap Young : mark'[c]
    BY <2>1, <1>3, <1>6 DEF MinorMarks
  <2> QED
    BY <2>1, <2>2, <2>3, <1>1, <1>6, <1>u DEF MinorMarks
<1>12. MajorMarks'
  <2> SUFFICES ASSUME phase = "majorTrace" PROVE MajorMarks'
    BY <1>u DEF MajorMarks
  <2>1. \A x \in Registered \ grey' : mark'[x] => \A c \in Children({x}) : mark'[c]
    BY <1>7 DEF MajorMarks
  <2>2. new \subseteq Reachable
    BY <1>u, <1>3, ReachableClosed DEF MajorMarks
  <2>3. \A x \in Registered : mark'[x] => x \in Reachable
    BY <2>2, <1>u, <1>3 DEF MajorMarks
  <2> QED
    BY <2>1, <2>2, <2>3, <1>1, <1>2, <1>3, <1>6, <1>u, RootTypes DEF MajorMarks
<1> QED
  BY <1>8, <1>9, <1>10, <1>11, <1>12

\* All that is young is freed or becomes old and remembered.
LEMMA EndMinorIInv == IInv /\ EndMinor => IInv'
<1> SUFFICES ASSUME IInv, EndMinor PROVE IInv'
  OBVIOUS
<1> USE DEF IInv
<1> DEFINE stay == {o \in Young : Alive(o)}
           promoted == {o \in stay : Ripe(o)}
<1>0. promoted = stay
  BY DEF Ripe, Limits, TypeOK, Young
<1>u. /\ phase = "minorTrace" /\ grey = {} /\ phase' = "alloc"
      /\ table' = [o \in Obj |-> IF o \in promoted THEN "old"
                                 ELSE IF o \in Young \ stay THEN "none" ELSE table[o]]
      /\ age' = [o \in Obj |-> IF o \in stay \ promoted THEN age[o] + 1 ELSE 0]
      /\ gen' = [o \in Obj |-> gen[o] \/ o \in promoted]
      /\ card' = [o \in Obj |-> card[o] \/ o \in promoted]
      /\ remembered' = remembered \cup {o \in promoted : ~card[o]}
      /\ UNCHANGED <<ref, mark, grey, root, block, want>>
  BY DEF EndMinor
<1>1. /\ stay \subseteq Young
      /\ \A o \in Young : o \in stay <=> root = <<>> \/ mark[o]
  BY DEF Alive
<1> HIDE DEF stay, promoted
<1>2. Young \subseteq Registered /\ Old \subseteq Registered /\ Registered = Young \cup Old
      /\ Young \cap Old = {} /\ Registered \subseteq Obj
  BY DEF Young, Old, Registered, TypeOK
<1>3. Old' = Old \cup stay /\ Young' = {} /\ Registered' = Old \cup stay
  BY <1>0, <1>u, <1>1, <1>2 DEF Old, Young, Registered, TypeOK
<1>4. Roots' = Roots /\ \A S : Children(S)' = Children(S)
  BY <1>u DEF Roots, Children
<1>5. \A o \in Obj : ~card[o]
  BY <1>u DEF MinorMarks, CardExact
<1>6. remembered' = stay
  BY <1>0, <1>1, <1>2, <1>5, <1>u DEF MinorMarks
<1>7. TypeOK'
  <2>1. /\ table' \in [Obj -> {"none", "young", "old"}]
        /\ gen' \in [Obj -> BOOLEAN] /\ card' \in [Obj -> BOOLEAN]
    BY <1>u DEF TypeOK
  <2>2. age' \in [Obj -> 0 .. PromoAge - 1]
    BY <1>0, <1>u DEF Limits
  <2> QED
    BY <2>1, <2>2, <1>u, <1>1, <1>2, <1>6 DEF TypeOK
<1>8. RootsLive'
  <2>1. ASSUME NEW o \in Roots PROVE o \in Old \cup stay
    <3>1. root # <<>> /\ mark[o] /\ o \in Registered
      BY <1>u DEF Roots, MinorMarks, RootsLive
    <3> QED
      BY <3>1, <1>1, <1>2
  <2> QED
    BY <2>1, <1>3, <1>4 DEF RootsLive
<1>9. Closed'
  <2> SUFFICES ASSUME NEW x \in Old \cup stay, NEW c \in Children({x})
               PROVE  c \in Old \cup stay
    <3>1. Children(Registered)' = Children(Old \cup stay)
      BY <1>3, <1>u DEF Children
    <3>2. \A c : c \in Children(Old \cup stay) => \E x \in Old \cup stay : c \in Children({x})
      BY <1>1, <1>2, ChildrenOf
    <3> QED
      BY <3>1, <3>2, <1>3 DEF Closed
  <2>1. x \in Registered /\ c \in Registered
    BY <1>1, <1>2 DEF Closed, Children
  <2>2. CASE root = <<>>
    BY <2>1, <2>2, <1>1, <1>2
  <2>3. CASE root # <<>> /\ c \in Young
    <3>1. CASE x \in Old
      BY <3>1, <2>3, <1>1, <1>u DEF MinorMarks
    <3>2. CASE x \in stay
      <4>1. mark[x] /\ x \in Young \ grey
        BY <3>2, <2>3, <1>1, <1>u
      <4> QED
        BY <4>1, <2>3, <1>1, <1>u DEF MinorMarks
    <3> QED
      BY <3>1, <3>2
  <2> QED
    BY <2>1, <2>2, <2>3, <1>2
<1>10. BlockClean'
  BY <1>1, <1>2, <1>3, <1>4, <1>u DEF BlockClean
<1>11. OldHasBit'
  BY <1>0, <1>1, <1>2, <1>3, <1>u DEF OldHasBit
<1>12. CardExact' /\ RememberedLive' /\ Remembers'
  BY <1>0, <1>3, <1>5, <1>6, <1>u DEF CardExact, RememberedLive, Remembers
<1>13. Limits' /\ MinorMarks' /\ MajorMarks'
  BY <1>u DEF Limits, MinorMarks, MajorMarks
<1> QED
  BY <1>7, <1>8, <1>9, <1>10, <1>11, <1>12, <1>13

\* At the end of a major trace the marked objects are those that are reached.
LEMMA MarkedReached ==
    ASSUME IInv, phase = "majorTrace", grey = {}
    PROVE  \A o \in Registered : mark[o] <=> o \in Reachable
<1> USE DEF IInv
<1> DEFINE S == {o \in Registered : mark[o]}
<1>1. Roots \subseteq S
  BY DEF MajorMarks, RootsLive
<1>2. Children(S) \subseteq S
  <2> SUFFICES ASSUME NEW c \in Children(S) PROVE c \in S
    OBVIOUS
  <2>1. PICK x \in S : c \in Children({x})
    BY DEF Children
  <2>2. c \in Registered
    BY <2>1 DEF Closed, Children
  <2> QED
    BY <2>1, <2>2 DEF MajorMarks
<1>3. S \in SUBSET Obj
  BY DEF Registered
<1>4. Reachable \subseteq S
  BY <1>1, <1>2, <1>3 DEF Reachable
<1> QED
  BY <1>4 DEF MajorMarks

\* The marked objects stay, and with them all they point to.
LEMMA EndMajorIInv == IInv /\ EndMajor => IInv'
<1> SUFFICES ASSUME IInv, EndMajor PROVE IInv'
  OBVIOUS
<1> USE DEF IInv
<1>u. /\ phase = "majorTrace" /\ grey = {} /\ phase' = "run"
      /\ table' = [o \in Obj |-> IF Alive(o) THEN table[o] ELSE "none"]
      /\ card' = [o \in Obj |-> card[o] /\ (o \in Old => Alive(o))]
      /\ age' = [o \in Obj |-> IF Alive(o) THEN age[o] ELSE 0]
      /\ UNCHANGED <<ref, gen, mark, remembered, grey, root, block, want>>
  BY DEF EndMajor
<1>1. \A o \in Obj : Alive(o) <=> root = <<>> \/ mark[o]
  BY DEF Alive
<1>2. /\ Registered' = {o \in Registered : Alive(o)}
      /\ Old' \subseteq Old /\ Young' \subseteq Young
  BY <1>u DEF Registered, Old, Young, TypeOK
<1>3. Roots' = Roots /\ \A S : Children(S)' = Children(S)
  BY <1>u DEF Roots, Children
<1>4. remembered = {} /\ \A o \in Obj : ~card[o]
  BY <1>u DEF MajorMarks, CardExact
<1>5. Registered \subseteq Obj /\ Registered' \subseteq Registered
  BY <1>2 DEF Registered
<1>6. TypeOK'
  <2>1. table' \in [Obj -> {"none", "young", "old"}] /\ card' \in [Obj -> BOOLEAN]
    BY <1>u DEF TypeOK
  <2>2. age' \in [Obj -> 0 .. PromoAge - 1]
    BY <1>u DEF TypeOK, Limits
  <2> QED
    BY <2>1, <2>2, <1>u DEF TypeOK
<1>7. RootsLive'
  <2>1. ASSUME NEW o \in Roots PROVE Alive(o) /\ o \in Registered
    BY <1>1, <1>5, <1>u DEF MajorMarks, RootsLive
  <2> QED
    BY <2>1, <1>2, <1>3 DEF RootsLive
<1>8. Closed'
  <2> SUFFICES ASSUME NEW x \in Registered, Alive(x), NEW c \in Children({x})
               PROVE  c \in Registered /\ Alive(c)
    <3> DEFINE S == {o \in Registered : Alive(o)}
    <3>1. Children(Registered)' = Children(S)
      BY <1>2, <1>u DEF Children
    <3>2. \A c : c \in Children(S) => \E x \in S : c \in Children({x})
      BY <1>5, ChildrenOf
    <3> QED
      BY <3>1, <3>2, <1>2 DEF Closed
  <2>1. c \in Registered
    BY DEF Closed, Children
  <2>2. CASE root = <<>>
    BY <2>1, <2>2 DEF Alive
  <2>3. CASE root # <<>>
    BY <2>1, <2>3, <1>u DEF Alive, MajorMarks
  <2> QED
    BY <2>2, <2>3
<1>9. BlockClean' /\ OldHasBit' /\ CardExact' /\ RememberedLive'
  BY <1>2, <1>3, <1>4, <1>5, <1>u DEF BlockClean, OldHasBit, CardExact, RememberedLive
<1>10. Remembers'
  BY <1>2, <1>3, <1>u DEF Remembers
<1>11. Limits' /\ MinorMarks' /\ MajorMarks'
  BY <1>u DEF Limits, MinorMarks, MajorMarks
<1> QED
  BY <1>6, <1>7, <1>8, <1>9, <1>10, <1>11

LEMMA NextIInv == IInv /\ [Next]_vars => IInv'
<1> SUFFICES ASSUME IInv, [Next]_vars PROVE IInv'
  OBVIOUS
<1>1. CASE UNCHANGED vars
  <2> USE <1>1 DEF IInv, vars
  <2>1. /\ Registered' = Registered /\ Old' = Old /\ Young' = Young /\ Roots' = Roots
        /\ \A S : Children(S)' = Children(S)
    BY DEF Registered, Old, Young, Roots, Children
  <2>2. Reachable' = Reachable
    BY <2>1 DEF Reachable
  <2>3. Limits' /\ TypeOK'
    BY <2>1 DEF Limits, TypeOK
  <2>4. RootsLive' /\ Closed' /\ BlockClean'
    BY <2>1 DEF RootsLive, Closed, BlockClean
  <2>5. OldHasBit' /\ CardExact' /\ RememberedLive' /\ Remembers'
    BY <2>1 DEF OldHasBit, CardExact, RememberedLive, Remembers
  <2>6. MinorMarks' /\ MajorMarks'
    BY <2>1, <2>2 DEF MinorMarks, MajorMarks
  <2> QED
    BY <2>3, <2>4, <2>5, <2>6
<1> QED
  BY <1>1, EnterIInv, LeaveIInv, AssignIInv, StoreIInv, StartAllocIInv, EndAllocIInv,
     BeginMinorIInv, BeginMajorIInv, ScanIInv, EndMinorIInv, EndMajorIInv DEF Next

\* The inductive invariant holds for every program and every heap.
THEOREM GcInvariance == Limits /\ Spec => []IInv
BY InitIInv, NextIInv, PTL DEF Spec

\* A variable never holds a freed object.
THEOREM VariablesLive == Limits /\ Spec => []RootsLive
<1>1. IInv => RootsLive
  BY DEF IInv
<1> QED
  BY <1>1, GcInvariance, PTL

\* Every pointer from an old object to a young one is known to the next minor
\* collection.
THEOREM BarrierComplete == Limits /\ Spec => []OldToYoungRemembered
<1>1. IInv => OldToYoungRemembered
  BY DEF IInv, Remembers, OldToYoungRemembered
<1> QED
  BY <1>1, GcInvariance, PTL

\* A major collection frees what cannot be reached and nothing else.
THEOREM MajorExact == Limits /\ Spec => MajorIsExact
<1>1. IInv /\ [Next]_vars => [EndMajor /\ root # <<>> => Registered' = Registered \cap Reachable]_vars
  <2> SUFFICES ASSUME IInv, EndMajor, root # <<>>
               PROVE  Registered' = Registered \cap Reachable
    OBVIOUS
  <2>1. Registered' = {o \in Registered : mark[o]}
    BY DEF EndMajor, Alive, Registered, IInv, TypeOK
  <2> QED
    BY <2>1, MarkedReached DEF EndMajor
<1> QED
  BY <1>1, GcInvariance, PTL DEF MajorIsExact, Spec
=============================================================================
