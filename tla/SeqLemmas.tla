----------------------------- MODULE SeqLemmas -----------------------------
(***************************************************************************)
(* Facts about the sequence operators the scheduler's modules use, for     *)
(* sequences over any set.                                                 *)
(***************************************************************************)
EXTENDS Integers, SequencesExt, SequenceTheorems, WellFoundedInduction, TLAPS

\* No element occurs twice.
Distinct(q) == \A i, j \in 1 .. Len(q) : q[i] = q[j] => i = j

\* The least of a set of numbers, and induction: a set with 0 and the successor of
\* each of its members has all numbers.
LEMMA Least ==
    ASSUME NEW S, S \subseteq Nat, S # {}
    PROVE  \E x \in S : \A y \in S : x <= y
<1> DEFINE R == OpToRel(<, Nat)
<1>1. IsWellFoundedOn(R, Nat)
  BY NatLessThanWellFounded
<1>2. \A x, y \in Nat : <<y, x>> \in R <=> y < x
  BY DEF OpToRel
<1> HIDE DEF R
<1>3. PICK x \in S : \A y \in S : ~(<<y, x>> \in R)
  BY <1>1, WFMin
<1>4. \A y \in S : ~(y < x)
  BY <1>2, <1>3
<1> QED  BY <1>4

LEMMA SetInduction ==
    ASSUME NEW T, T \subseteq Nat, 0 \in T, \A n \in T : n + 1 \in T
    PROVE  T = Nat
<1> SUFFICES ASSUME Nat \ T # {} PROVE FALSE
  OBVIOUS
<1>1. PICK x \in Nat \ T : \A y \in Nat \ T : x <= y
  BY Least
<1>2. x - 1 \in Nat /\ ~(x <= x - 1) /\ (x - 1) + 1 = x
  BY <1>1
<1>3. x - 1 \in T
  BY <1>1, <1>2
<1> QED  BY <1>1, <1>2, <1>3

\* Pushing onto a stack.
LEMMA AppendFacts ==
    ASSUME NEW S, NEW q \in Seq(S), NEW x \in S
    PROVE  /\ Append(q, x) \in Seq(S)
           /\ Len(Append(q, x)) = Len(q) + 1
           /\ \A i \in 1 .. Len(q) : Append(q, x)[i] = q[i]
           /\ Append(q, x)[Len(q) + 1] = x
  BY AppendProperties

\* Popping a stack.
LEMMA FrontFacts ==
    ASSUME NEW S, NEW q \in Seq(S), q # <<>>
    PROVE  /\ Len(q) \in Nat \ {0}
           /\ Last(q) \in S
           /\ Front(q) \in Seq(S)
           /\ Len(Front(q)) = Len(q) - 1
           /\ \A i \in 1 .. Len(q) - 1 : Front(q)[i] = q[i]
<1>1. Len(q) \in Nat \ {0}
  BY LenProperties, EmptySeq
<1>2. Last(q) \in S
  BY <1>1, ElementOfSeq DEF Last
<1>3. /\ Front(q) \in Seq(S)
      /\ Len(Front(q)) = Len(q) - 1
      /\ \A i \in 1 .. Len(q) - 1 : Front(q)[i] = q[i]
  <2> DEFINE n == Len(q) - 1
  <2>1. 1 \in Int /\ n \in Int /\ \A i \in 1 .. n : q[i] \in S
    BY <1>1, ElementOfSeq
  <2>2. Front(q) = SubSeq(q, 1, n)
    BY DEF Front
  <2>a. n \in Nat
    BY <1>1
  <2> HIDE DEF n
  <2>3. (IF 1 <= n THEN n - 1 + 1 ELSE 0) = n /\ n - 1 + 1 = n
    BY <2>a
  <2>4. \A i \in 1 .. n : 1 + i - 1 = i
    BY <2>a
  <2>5. /\ SubSeq(q, 1, n) \in Seq(S)
        /\ Len(SubSeq(q, 1, n)) = IF 1 <= n THEN n - 1 + 1 ELSE 0
        /\ \A i \in 1 .. n - 1 + 1 : SubSeq(q, 1, n)[i] = q[1 + i - 1]
    BY <2>1, SubSeqProperties
  <2>6. /\ Front(q) \in Seq(S) /\ Len(Front(q)) = n
        /\ \A i \in 1 .. n : Front(q)[i] = q[i]
    BY <2>2, <2>3, <2>4, <2>5
  <2> QED  BY <2>6 DEF n
<1> QED  BY <1>1, <1>2, <1>3

\* A push followed by a pop, and the other way round.
LEMMA PushPop ==
    ASSUME NEW S, NEW q \in Seq(S), NEW x \in S
    PROVE  /\ Append(q, x) # <<>>
           /\ Last(Append(q, x)) = x
           /\ Front(Append(q, x)) = q
<1> DEFINE p == Append(q, x)
<1>1. /\ p \in Seq(S) /\ Len(q) \in Nat /\ Len(p) = Len(q) + 1
      /\ p[Len(q) + 1] = x
      /\ \A i \in 1 .. Len(q) : p[i] = q[i]
  BY AppendFacts, LenProperties
<1> HIDE DEF p
<1>2. p # <<>>
  BY <1>1, EmptySeq
<1>3. Last(p) = x
  BY <1>1 DEF Last
<1>4. /\ Front(p) \in Seq(S) /\ Len(Front(p)) = Len(p) - 1
      /\ \A i \in 1 .. Len(p) - 1 : Front(p)[i] = p[i]
  BY <1>1, <1>2, FrontFacts
<1>5. Len(Front(p)) = Len(q) /\ \A i \in 1 .. Len(Front(p)) : Front(p)[i] = q[i]
  BY <1>1, <1>4
<1>6. Front(p) = q
  BY <1>4, <1>5, SeqEqual
<1> QED  BY <1>2, <1>3, <1>6 DEF p

LEMMA PopPush ==
    ASSUME NEW S, NEW q \in Seq(S), q # <<>>
    PROVE  Append(Front(q), Last(q)) = q
<1> DEFINE f == Front(q)
           p == Append(f, Last(q))
<1>1. /\ Len(q) \in Nat \ {0} /\ Last(q) \in S /\ Last(q) = q[Len(q)]
      /\ f \in Seq(S) /\ Len(f) = Len(q) - 1
      /\ \A i \in 1 .. Len(q) - 1 : f[i] = q[i]
  BY FrontFacts DEF Last
<1> HIDE DEF f
<1>2. /\ p \in Seq(S) /\ Len(p) = Len(f) + 1 /\ p[Len(f) + 1] = Last(q)
      /\ \A i \in 1 .. Len(f) : p[i] = f[i]
  BY <1>1, AppendFacts
<1> HIDE DEF p
<1>3. Len(p) = Len(q) /\ \A i \in 1 .. Len(p) : p[i] = q[i]
  BY <1>1, <1>2
<1>4. p = q
  BY <1>2, <1>3, SeqEqual
<1> QED  BY <1>4 DEF p, f

\* Changing one element in place.
LEMMA ReplaceFacts ==
    ASSUME NEW S, NEW q \in Seq(S), NEW k \in 1 .. Len(q), NEW x \in S
    PROVE  /\ ReplaceAt(q, k, x) \in Seq(S)
           /\ Len(ReplaceAt(q, k, x)) = Len(q)
           /\ ReplaceAt(q, k, x)[k] = x
           /\ \A i \in 1 .. Len(q) : i # k => ReplaceAt(q, k, x)[i] = q[i]
<1>1. ReplaceAt(q, k, x) \in Seq(S) /\ Len(ReplaceAt(q, k, x)) = Len(q)
  BY ExceptSeq, LenProperties DEF ReplaceAt
<1>2. /\ ReplaceAt(q, k, x)[k] = x
      /\ \A i \in 1 .. Len(q) : i # k => ReplaceAt(q, k, x)[i] = q[i]
  BY DEF ReplaceAt
<1> QED  BY <1>1, <1>2

\* Taking the oldest element of a queue.
LEMMA TailFacts ==
    ASSUME NEW S, NEW q \in Seq(S), q # <<>>
    PROVE  /\ Head(q) \in S /\ Head(q) = q[1]
           /\ Tail(q) \in Seq(S)
           /\ Len(Tail(q)) = Len(q) - 1
           /\ \A i \in 1 .. Len(q) - 1 : Tail(q)[i] = q[i + 1]
  BY HeadTailProperties, ElementOfSeq, LenProperties, EmptySeq

\* Taking an element out of the middle of a queue.
LEMMA RemoveAtFacts ==
    ASSUME NEW S, NEW q \in Seq(S), NEW k \in 1 .. Len(q)
    PROVE  /\ RemoveAt(q, k) \in Seq(S)
           /\ Len(RemoveAt(q, k)) = Len(q) - 1
           /\ \A i \in 1 .. Len(q) - 1 :
                 RemoveAt(q, k)[i] = IF i < k THEN q[i] ELSE q[i + 1]
<1> DEFINE a == SubSeq(q, 1, k - 1)
           b == SubSeq(q, k + 1, Len(q))
<1>0. Len(q) \in Nat /\ k \in Nat
  BY LenProperties
<1>1. /\ a \in Seq(S) /\ Len(a) = k - 1
      /\ \A i \in 1 .. k - 1 : a[i] = q[i]
  BY <1>0, SubSeqProperties
<1>2. /\ b \in Seq(S) /\ Len(b) = Len(q) - k
      /\ \A i \in 1 .. Len(q) - k : b[i] = q[i + k]
  BY <1>0, SubSeqProperties
<1> HIDE DEF a, b
<1>3. /\ a \o b \in Seq(S) /\ Len(a \o b) = Len(q) - 1
      /\ \A i \in 1 .. Len(q) - 1 :
            (a \o b)[i] = IF i <= k - 1 THEN a[i] ELSE b[i - (k - 1)]
  <2>1. /\ a \o b \in Seq(S)
        /\ Len(a \o b) = Len(a) + Len(b)
        /\ \A i \in 1 .. Len(a) + Len(b) :
              (a \o b)[i] = IF i <= Len(a) THEN a[i] ELSE b[i - Len(a)]
    BY <1>1, <1>2, ConcatProperties, Zenon
  <2>2. Len(a) = k - 1 /\ Len(b) = Len(q) - k /\ Len(a) + Len(b) = Len(q) - 1
    BY <1>0, <1>1, <1>2
  <2> QED  BY <2>1, <2>2
<1>4. ASSUME NEW i \in 1 .. Len(q) - 1
      PROVE  (a \o b)[i] = IF i < k THEN q[i] ELSE q[i + 1]
  BY <1>0, <1>1, <1>2, <1>3
<1>5. RemoveAt(q, k) = a \o b
  BY DEF RemoveAt, a, b
<1> QED  BY <1>3, <1>4, <1>5

\* A queue without duplicates after each operation on it.
LEMMA DistinctAppend ==
    ASSUME NEW S, NEW q \in Seq(S), Distinct(q), NEW x \in S,
           \A i \in 1 .. Len(q) : q[i] # x
    PROVE  Distinct(Append(q, x))
  BY AppendFacts, LenProperties DEF Distinct

LEMMA DistinctTail ==
    ASSUME NEW S, NEW q \in Seq(S), q # <<>>, Distinct(q)
    PROVE  /\ Distinct(Tail(q))
           /\ \A i \in 1 .. Len(Tail(q)) : Tail(q)[i] # Head(q)
  BY TailFacts, LenProperties, EmptySeq DEF Distinct

LEMMA DistinctRemoveAt ==
    ASSUME NEW S, NEW q \in Seq(S), NEW k \in 1 .. Len(q), Distinct(q)
    PROVE  /\ Distinct(RemoveAt(q, k))
           /\ \A i \in 1 .. Len(RemoveAt(q, k)) : RemoveAt(q, k)[i] # q[k]
<1> DEFINE r == RemoveAt(q, k)
           old(i) == IF i < k THEN i ELSE i + 1
<1>1. Len(q) \in Nat /\ k \in Nat /\ Len(r) = Len(q) - 1
  BY RemoveAtFacts, LenProperties
<1>2. \A i \in 1 .. Len(r) : r[i] = q[old(i)] /\ old(i) \in 1 .. Len(q) \ {k}
  BY <1>1, RemoveAtFacts
<1>3. \A i, j \in 1 .. Len(r) : old(i) = old(j) => i = j
  BY <1>1
<1> HIDE DEF r, old
<1>4. Distinct(r) /\ \A i \in 1 .. Len(r) : r[i] # q[k]
  BY <1>2, <1>3 DEF Distinct
<1> QED  BY <1>4 DEF r

\* The elements of a sequence after each operation on it.
LEMMA RangeAppend ==
    ASSUME NEW S, NEW q \in Seq(S), NEW x \in S
    PROVE  Range(Append(q, x)) = Range(q) \cup {x}
<1> DEFINE p == Append(q, x)
<1>1. /\ Len(q) \in Nat /\ DOMAIN q = 1 .. Len(q) /\ DOMAIN p = 1 .. Len(q) + 1
      /\ p[Len(q) + 1] = x /\ \A i \in 1 .. Len(q) : p[i] = q[i]
  BY AppendFacts, LenProperties
<1> HIDE DEF p
<1>2. Range(p) \subseteq Range(q) \cup {x}
  BY <1>1 DEF Range
<1>3. Range(q) \subseteq Range(p) /\ x \in Range(p)
  BY <1>1 DEF Range
<1> QED  BY <1>2, <1>3 DEF p

LEMMA RangeFront ==
    ASSUME NEW S, NEW q \in Seq(S), q # <<>>, Distinct(q)
    PROVE  /\ Distinct(Front(q)) /\ Last(q) \in Range(q)
           /\ Range(Front(q)) = Range(q) \ {Last(q)}
<1> DEFINE p == Front(q)
<1>1. /\ Len(q) \in Nat \ {0} /\ Last(q) = q[Len(q)]
      /\ DOMAIN q = 1 .. Len(q) /\ DOMAIN p = 1 .. Len(q) - 1 /\ Len(p) = Len(q) - 1
      /\ \A i \in 1 .. Len(q) - 1 : p[i] = q[i]
  BY FrontFacts, LenProperties DEF Last
<1> HIDE DEF p
<1>2. Distinct(p)
  BY <1>1 DEF Distinct
<1>3. Range(p) \subseteq Range(q) \ {Last(q)}
  BY <1>1 DEF Range, Distinct
<1>4. Range(q) \ {Last(q)} \subseteq Range(p)
  BY <1>1 DEF Range
<1>5. Last(q) \in Range(q)
  BY <1>1 DEF Range
<1> QED  BY <1>2, <1>3, <1>4, <1>5 DEF p

LEMMA RangeRemoveAt ==
    ASSUME NEW S, NEW q \in Seq(S), NEW k \in 1 .. Len(q), Distinct(q)
    PROVE  Range(RemoveAt(q, k)) = Range(q) \ {q[k]}
<1> DEFINE p == RemoveAt(q, k)
<1>1. /\ Len(q) \in Nat /\ k \in Nat
      /\ DOMAIN q = 1 .. Len(q) /\ DOMAIN p = 1 .. Len(q) - 1
      /\ \A i \in 1 .. Len(q) - 1 : p[i] = IF i < k THEN q[i] ELSE q[i + 1]
  <2>1. /\ p \in Seq(S) /\ Len(p) = Len(q) - 1
        /\ \A i \in 1 .. Len(q) - 1 : p[i] = IF i < k THEN q[i] ELSE q[i + 1]
    BY RemoveAtFacts
  <2> HIDE DEF p
  <2> QED  BY <2>1, LenProperties
<1> HIDE DEF p
<1>2. ASSUME NEW i \in 1 .. Len(q) - 1 PROVE p[i] \in Range(q) \ {q[k]}
  <2> DEFINE j == IF i < k THEN i ELSE i + 1
  <2>1. j \in 1 .. Len(q) /\ j # k /\ p[i] = q[j]
    BY <1>1
  <2> HIDE DEF j
  <2> QED  BY <1>1, <2>1 DEF Range, Distinct
<1>3. ASSUME NEW i \in 1 .. Len(q), q[i] # q[k] PROVE q[i] \in Range(p)
  <2>1. CASE i < k
    BY <1>1, <2>1 DEF Range
  <2>2. CASE i > k
    <3>1. i - 1 \in 1 .. Len(q) - 1 /\ p[i - 1] = q[i]
      BY <1>1, <2>2
    <3> QED  BY <1>1, <3>1 DEF Range
  <2> QED  BY <1>1, <1>3, <2>1, <2>2
<1> QED  BY <1>1, <1>2, <1>3 DEF p, Range

\* Putting the last element in the place of another.
LEMMA LastInPlaceFacts ==
    ASSUME NEW S, NEW q \in Seq(S), NEW k \in 1 .. Len(q), Distinct(q)
    PROVE  LET r == Front(ReplaceAt(q, k, Last(q)))
           IN  /\ r \in Seq(S) /\ Len(r) = Len(q) - 1 /\ Distinct(r)
               /\ Range(r) = Range(q) \ {q[k]}
<1> DEFINE p == ReplaceAt(q, k, Last(q))
           r == Front(p)
<1>1. Len(q) \in Nat /\ Len(q) > 0 /\ k \in Nat /\ k \in 1 .. Len(q)
  BY LenProperties
<1>2. q # <<>> /\ Last(q) \in S
  BY <1>1, EmptySeq, FrontFacts
<1>3. /\ p \in Seq(S) /\ Len(p) = Len(q)
      /\ p[k] = Last(q) /\ \A i \in 1 .. Len(q) : i # k => p[i] = q[i]
  <2>1. p = [q EXCEPT ![k] = Last(q)]
    BY DEF ReplaceAt
  <2> HIDE DEF p, r
  <2>2. p \in Seq(S) /\ Len(p) = Len(q)
    BY <1>1, <1>2, <2>1, ExceptSeq, LenProperties
  <2> QED  BY <1>1, <2>1, <2>2
<1> HIDE DEF p
<1>4. p # <<>>
  BY <1>1, <1>3, EmptySeq
<1>5. /\ r \in Seq(S) /\ Len(r) = Len(q) - 1
      /\ \A i \in 1 .. Len(q) - 1 : r[i] = p[i]
  BY <1>3, <1>4, FrontFacts
<1> HIDE DEF r
<1>6. k < Len(q) => k \in 1 .. Len(q) - 1 /\ r[k] = q[Len(q)]
  BY <1>1, <1>3, <1>5 DEF Last
<1>7. \A i \in 1 .. Len(q) - 1 : i # k => r[i] = q[i]
  BY <1>1, <1>3, <1>5
<1>8. Distinct(r)
  BY <1>1, <1>5, <1>6, <1>7 DEF Distinct
<1>9. ASSUME NEW i \in 1 .. Len(q) - 1 PROVE \E j \in 1 .. Len(q) : j # k /\ r[i] = q[j]
  BY <1>1, <1>6, <1>7
<1>10. ASSUME NEW j \in 1 .. Len(q), j # k PROVE \E i \in 1 .. Len(q) - 1 : r[i] = q[j]
  BY <1>1, <1>6, <1>7, <1>10
<1>11. DOMAIN q = 1 .. Len(q) /\ DOMAIN r = 1 .. Len(q) - 1
  BY <1>5, LenProperties
<1>12. Range(r) \subseteq Range(q) \ {q[k]}
  <2> SUFFICES ASSUME NEW i \in 1 .. Len(q) - 1 PROVE r[i] \in Range(q) \ {q[k]}
    BY <1>11 DEF Range
  <2>1. PICK j \in 1 .. Len(q) : j # k /\ r[i] = q[j]
    BY <1>9
  <2> QED  BY <1>1, <1>11, <2>1 DEF Range, Distinct
<1>13. Range(q) \ {q[k]} \subseteq Range(r)
  BY <1>1, <1>10, <1>11 DEF Range
<1> QED  BY <1>5, <1>8, <1>12, <1>13 DEF r, p
=============================================================================
