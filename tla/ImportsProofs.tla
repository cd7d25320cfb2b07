---------------------------- MODULE ImportsProofs ----------------------------
(***************************************************************************)
(* What the loader of imports promises, for any project.                   *)
(***************************************************************************)
EXTENDS Imports, SeqLemmas

(***************************************************************************)
(* Normal paths (lexically_normal).                                        *)
(***************************************************************************)
Words == STRING
Segs == Seq(Words)
NormStep(d, f, i) == IF i = 0 THEN <<>> ELSE Into(f[i - 1], d[i])
Norms(d, f, n) == f = [i \in 0 .. n |-> NormStep(d, f, i)]

\* The prefixes of a path have their normal forms.
LEMMA NormsExist == ASSUME NEW d PROVE \A n \in Nat : \E f : Norms(d, f, n)
<1> DEFINE T == {n \in Nat : \E f : Norms(d, f, n)}
<1>1. 0 \in T
  <2> DEFINE f == [i \in 0 .. 0 |-> <<>>]
  <2>1. Norms(d, f, 0)
    BY DEF Norms, NormStep
  <2> QED  BY <2>1
<1>2. ASSUME NEW n \in T PROVE n + 1 \in T
  <2>1. n \in Nat
    OBVIOUS
  <2>2. PICK f : Norms(d, f, n)
    OBVIOUS
  <2> DEFINE g == [i \in 0 .. n + 1 |-> IF i = n + 1 THEN NormStep(d, f, i) ELSE f[i]]
  <2>3. ASSUME NEW i \in 0 .. n + 1 PROVE g[i] = NormStep(d, g, i)
    <3>1. i # 0 => i - 1 \in 0 .. n /\ g[i - 1] = f[i - 1]
      BY <2>1
    <3>2. NormStep(d, g, i) = NormStep(d, f, i)
      <4> HIDE DEF g
      <4> QED  BY <3>1 DEF NormStep
    <3>3. i # n + 1 => i \in 0 .. n /\ f[i] = NormStep(d, f, i)
      BY <2>1, <2>2 DEF Norms
    <3> QED  BY <3>2, <3>3
  <2>4. g = [i \in 0 .. n + 1 |-> NormStep(d, g, i)]
    <3>1. g = [i \in 0 .. n + 1 |-> g[i]]
      OBVIOUS
    <3> HIDE DEF g
    <3> QED  BY <2>3, <3>1
  <2>5. Norms(d, g, n + 1)
    BY <2>4 DEF Norms
  <2> QED  BY <2>1, <2>5
<1> HIDE DEF T
<1>3. T = Nat
  <2>1. T \subseteq Nat
    BY DEF T
  <2> QED  BY <1>1, <1>2, <2>1, SetInduction
<1> QED  BY <1>3 DEF T

LEMMA NormsAt ==
    ASSUME NEW d, NEW n \in Nat, NEW f, Norms(d, f, n)
    PROVE  /\ f[0] = <<>>
           /\ \A i \in 1 .. n : f[i] = Into(f[i - 1], d[i])
           /\ \A i \in Nat : i + 1 <= n => f[i + 1] = Into(f[i], d[i + 1])
<1>1. \A i \in 0 .. n : f[i] = NormStep(d, f, i)
  BY DEF Norms
<1>2. \A i \in 1 .. n : f[i] = Into(f[i - 1], d[i])
  BY <1>1 DEF NormStep
<1>3. f[0] = <<>>
  BY <1>1 DEF NormStep
<1>4. ASSUME NEW i \in Nat, i + 1 <= n PROVE f[i + 1] = Into(f[i], d[i + 1])
  <2>1. i + 1 \in 1 .. n /\ (i + 1) - 1 = i
    BY <1>4
  <2> QED  BY <1>2, <2>1
<1> QED  BY <1>2, <1>3, <1>4

LEMMA NormsFirst ==
    ASSUME NEW d, NEW n \in Nat, NEW f, Norms(d, f, n)
    PROVE  f[0] = <<>>
  BY NormsAt

\* Its normal form is the last one.
LEMMA NormalIs ==
    ASSUME NEW d \in Segs
    PROVE  /\ Len(d) \in Nat
           /\ \E f : Norms(d, f, Len(d)) /\ Normal(d) = f[Len(d)]
<1> DEFINE n == Len(d)
           f == CHOOSE g : Norms(d, g, n)
<1>1. n \in Nat
  BY LenProperties DEF Segs
<1>2. Normal(d) = f[n]
  BY DEF Normal, Norms, NormStep
<1>3. Norms(d, f, n)
  BY <1>1, NormsExist
<1> QED  BY <1>1, <1>2, <1>3

\* Two paths that go on alike.
Alike(d, f, x, e, g, y, k) ==
    /\ x \in Nat /\ y \in Nat /\ k \in Nat /\ f[x] = g[y]
    /\ \A i \in 1 .. k : d[x + i] = e[y + i]
    /\ \E n \in Nat : Norms(d, f, n) /\ x + k <= n
    /\ \E n \in Nat : Norms(e, g, n) /\ y + k <= n

LEMMA NormsAlike ==
    ASSUME NEW d, NEW f, NEW x, NEW e, NEW g, NEW y, NEW k, Alike(d, f, x, e, g, y, k)
    PROVE  f[x + k] = g[y + k]
<1>a. /\ x \in Nat /\ y \in Nat /\ k \in Nat /\ f[x] = g[y]
      /\ \A i \in 1 .. k : d[x + i] = e[y + i]
  BY DEF Alike
<1>n. PICK n \in Nat : Norms(d, f, n) /\ x + k <= n
  BY DEF Alike
<1>m. PICK m \in Nat : Norms(e, g, m) /\ y + k <= m
  BY DEF Alike
<1> DEFINE T == {i \in Nat : i <= k => f[x + i] = g[y + i]}
<1>1. 0 \in T
  BY <1>a
<1>2. ASSUME NEW i \in T PROVE i + 1 \in T
  <2> SUFFICES ASSUME i + 1 <= k PROVE f[x + (i + 1)] = g[y + (i + 1)]
    OBVIOUS
  <2>1. i \in Nat /\ f[x + i] = g[y + i]
    BY <1>a
  <2>2. /\ x + i \in Nat /\ (x + i) + 1 <= n /\ (x + i) + 1 = x + (i + 1)
        /\ y + i \in Nat /\ (y + i) + 1 <= m /\ (y + i) + 1 = y + (i + 1)
        /\ i + 1 \in 1 .. k
    BY <1>a, <1>n, <1>m, <2>1
  <2>3. f[(x + i) + 1] = Into(f[x + i], d[(x + i) + 1]) /\ g[(y + i) + 1] = Into(g[y + i], e[(y + i) + 1])
    BY <1>n, <1>m, <2>2, NormsAt
  <2>4. f[x + i] = g[y + i] /\ d[x + (i + 1)] = e[y + (i + 1)]
    BY <1>a, <2>1, <2>2
  <2> HIDE DEF T
  <2> QED  BY <2>2, <2>3, <2>4
<1> HIDE DEF T
<1>3. T = Nat
  <2>1. T \subseteq Nat
    BY DEF T
  <2> QED  BY <1>1, <1>2, <2>1, SetInduction
<1>4. k \in T /\ k <= k
  BY <1>a, <1>3
<1> QED  BY <1>4 DEF T

\* In a normal form no ".." is left but in front.
Reduced(s) == \A i \in 1 .. Len(s) - 1 : s[i + 1] = ".." => s[i] = ".."
Normed(s) == s \in Segs /\ Reduced(s)

LEMMA IntoNormed ==
    ASSUME NEW s, Normed(s), NEW x \in Words
    PROVE  Normed(Into(s, x))
<1>1. s \in Segs /\ Reduced(s) /\ s \in Seq(Words)
  BY DEF Normed, Segs
<1>2. Len(s) \in Nat
  BY <1>1, LenProperties
<1>3. CASE x = ".." /\ s # <<>> /\ Last(s) # ".."
  <2>1. /\ Front(s) \in Seq(Words) /\ Len(Front(s)) = Len(s) - 1 /\ Len(s) \in Nat \ {0}
        /\ \A i \in 1 .. Len(s) - 1 : Front(s)[i] = s[i]
    BY <1>1, <1>3, FrontFacts
  <2>2. ASSUME NEW i \in 1 .. Len(Front(s)) - 1, Front(s)[i + 1] = ".." PROVE Front(s)[i] = ".."
    <3>1. i \in 1 .. Len(s) - 1 /\ i + 1 \in 1 .. Len(s) - 1
      BY <2>1
    <3>2. Front(s)[i] = s[i] /\ Front(s)[i + 1] = s[i + 1]
      BY <2>1, <3>1
    <3> QED  BY <1>1, <2>2, <3>1, <3>2 DEF Reduced
  <2>3. Into(s, x) = Front(s)
    BY <1>3 DEF Into
  <2> QED  BY <2>1, <2>2, <2>3 DEF Normed, Reduced, Segs
<1>4. CASE ~(x = ".." /\ s # <<>> /\ Last(s) # "..")
  <2> DEFINE t == Append(s, x)
  <2>1. /\ t \in Seq(Words) /\ Len(t) = Len(s) + 1 /\ t[Len(s) + 1] = x
        /\ \A i \in 1 .. Len(s) : t[i] = s[i]
    BY <1>1, AppendFacts
  <2> HIDE DEF t
  <2>2. ASSUME NEW i \in 1 .. Len(t) - 1, t[i + 1] = ".." PROVE t[i] = ".."
    <3>1. i \in 1 .. Len(s) /\ t[i] = s[i]
      BY <1>2, <2>1
    <3>2. CASE i = Len(s)
      <4>1. x = ".." /\ s # <<>>
        BY <1>2, <2>1, <2>2, <3>1, <3>2, EmptySeq
      <4>2. Last(s) = s[i]
        BY <3>2 DEF Last
      <4> QED  BY <1>4, <3>1, <4>1, <4>2
    <3>3. CASE i # Len(s)
      <4>1. i \in 1 .. Len(s) - 1 /\ i + 1 \in 1 .. Len(s)
        BY <1>2, <3>1, <3>3
      <4>2. t[i + 1] = s[i + 1]
        BY <2>1, <4>1
      <4> QED  BY <1>1, <2>2, <3>1, <4>1, <4>2 DEF Reduced
    <3> QED  BY <3>2, <3>3
  <2>3. Into(s, x) = t
    BY <1>4 DEF Into, t
  <2> QED  BY <2>1, <2>2, <2>3 DEF Normed, Reduced, Segs
<1> QED  BY <1>3, <1>4

LEMMA NormsNormed ==
    ASSUME NEW n \in Nat, NEW d, \A i \in 1 .. n : d[i] \in Words, NEW f, Norms(d, f, n)
    PROVE  \A i \in 0 .. n : Normed(f[i])
<1> DEFINE T == {i \in Nat : i <= n => Normed(f[i])}
<1>1. 0 \in T
  <2>1. Normed(<<>>)
    BY DEF Normed, Segs, Reduced
  <2> QED  BY <2>1, NormsAt
<1>2. ASSUME NEW i \in T PROVE i + 1 \in T
  <2> SUFFICES ASSUME i + 1 <= n PROVE Normed(f[i + 1])
    OBVIOUS
  <2>1. i \in Nat /\ Normed(f[i])
    OBVIOUS
  <2>2. f[i + 1] = Into(f[i], d[i + 1]) /\ d[i + 1] \in Words
    BY <2>1, NormsAt
  <2> QED  BY <2>1, <2>2, IntoNormed
<1> HIDE DEF T
<1>3. T = Nat
  <2>1. T \subseteq Nat
    BY DEF T
  <2> QED  BY <1>1, <1>2, <2>1, SetInduction
<1> QED  BY <1>3 DEF T

LEMMA NormalNormed ==
    ASSUME NEW d \in Segs
    PROVE  Normed(Normal(d))
<1>1. \A i \in 1 .. Len(d) : d[i] \in Words
  BY ElementOfSeq DEF Segs
<1>2. Len(d) \in Nat
  BY NormalIs
<1>3. PICK f : Norms(d, f, Len(d)) /\ Normal(d) = f[Len(d)]
  BY NormalIs
<1> QED  BY <1>1, <1>2, <1>3, NormsNormed

\* A normal form is its own.
LEMMA NormedStays ==
    ASSUME NEW s, Normed(s)
    PROVE  Normal(s) = s
<1>1. s \in Seq(Words) /\ s \in Segs /\ Reduced(s) /\ Len(s) \in Nat
  BY LenProperties DEF Normed, Segs
<1>2. PICK f : Norms(s, f, Len(s)) /\ Normal(s) = f[Len(s)]
  BY <1>1, NormalIs
<1>3. \A i \in 1 .. Len(s) : s[i] \in Words
  BY <1>1, ElementOfSeq
<1>4. \A i \in 0 .. Len(s) : f[i] \in Seq(Words)
  BY <1>1, <1>2, <1>3, NormsNormed DEF Normed, Segs
<1> DEFINE Same(i) == Len(f[i]) = i /\ \A j \in 1 .. i : f[i][j] = s[j]
           T == {i \in Nat : i <= Len(s) => Same(i)}
<1>5. 0 \in T
  <2>1. f[0] = <<>>
    BY <1>1, <1>2, NormsAt
  <2> QED  BY <2>1
<1>6. ASSUME NEW i \in T PROVE i + 1 \in T
  <2> SUFFICES ASSUME i + 1 <= Len(s) PROVE Same(i + 1)
    OBVIOUS
  <2>0. i \in Nat /\ i <= Len(s)
    BY <1>1
  <2>1. i \in Nat /\ Len(f[i]) = i /\ \A j \in 1 .. i : f[i][j] = s[j]
    <3>1. i <= Len(s) => Same(i)
      OBVIOUS
    <3> HIDE DEF T
    <3> QED  BY <2>0, <3>1
  <2>2. i + 1 \in 1 .. Len(s) /\ i \in 0 .. Len(s) /\ f[i] \in Seq(Words) /\ s[i + 1] \in Words
    BY <1>1, <1>3, <1>4, <2>1
  <2>3. f[i + 1] = Into(f[i], s[i + 1])
    BY <1>1, <1>2, <2>1, NormsAt
  <2>4. ~(s[i + 1] = ".." /\ f[i] # <<>> /\ Last(f[i]) # "..")
    <3> SUFFICES ASSUME s[i + 1] = "..", f[i] # <<>> PROVE Last(f[i]) = ".."
      OBVIOUS
    <3>1. i # 0
      BY <2>1, <2>2, EmptySeq
    <3>2. i \in 1 .. Len(s) - 1 /\ i \in 1 .. i
      BY <1>1, <2>1, <2>2, <3>1
    <3>3. s[i] = ".."
      BY <1>1, <3>2 DEF Reduced
    <3>4. f[i][i] = s[i] /\ Last(f[i]) = f[i][i]
      BY <2>1, <3>2 DEF Last
    <3> QED  BY <3>3, <3>4
  <2>5. f[i + 1] = Append(f[i], s[i + 1])
    BY <2>3, <2>4 DEF Into
  <2>6. /\ Len(f[i + 1]) = i + 1 /\ f[i + 1][i + 1] = s[i + 1]
        /\ \A j \in 1 .. i : f[i + 1][j] = f[i][j]
    BY <2>1, <2>2, <2>5, AppendFacts
  <2>7. \A j \in 1 .. i + 1 : j = i + 1 \/ j \in 1 .. i
    BY <2>1
  <2> HIDE DEF T
  <2> QED  BY <2>1, <2>6, <2>7
<1> HIDE DEF T
<1>7. T = Nat
  <2>1. T \subseteq Nat
    BY DEF T
  <2> QED  BY <1>5, <1>6, <2>1, SetInduction
<1>8. Same(Len(s))
  <2>1. Len(s) \in T /\ Len(s) <= Len(s)
    BY <1>1, <1>7
  <2> QED  BY <2>1 DEF T
<1>9. f[Len(s)] \in Seq(Words)
  BY <1>1, <1>4
<1> QED  BY <1>1, <1>2, <1>8, <1>9, SeqEqual

LEMMA NormalAgain ==
    ASSUME NEW d \in Segs
    PROVE  /\ Normal(d) \in Segs /\ Normal(Normal(d)) = Normal(d)
<1>1. Normed(Normal(d))
  BY NormalNormed
<1> QED  BY <1>1, NormedStays DEF Normed

LEMMA ConcatFacts ==
    ASSUME NEW S, NEW a \in Seq(S), NEW b \in Seq(S)
    PROVE  /\ a \o b \in Seq(S) /\ Len(a \o b) = Len(a) + Len(b)
           /\ \A i \in 1 .. Len(a) : (a \o b)[i] = a[i]
           /\ \A i \in 1 .. Len(b) : (a \o b)[Len(a) + i] = b[i]
<1>1. Len(a) \in Nat /\ Len(b) \in Nat
  BY LenProperties
<1> QED  BY <1>1, ConcatProperties

\* What is appended to a path is appended to its normal form.
LEMMA NormalOver ==
    ASSUME NEW a \in Segs, NEW b \in Segs
    PROVE  a \o b \in Segs /\ Normal(a \o b) = Normal(Normal(a) \o b)
<1> DEFINE m == Normal(a)
           p == a \o b
           q == m \o b
<1>1. m \in Segs /\ Normal(m) = m
  BY NormalAgain
<1>2. /\ p \in Segs /\ Len(p) = Len(a) + Len(b)
      /\ \A i \in 1 .. Len(a) : p[i] = a[i]
      /\ \A i \in 1 .. Len(b) : p[Len(a) + i] = b[i]
  BY ConcatFacts DEF Segs
<1>3. /\ q \in Segs /\ Len(q) = Len(m) + Len(b)
      /\ \A i \in 1 .. Len(m) : q[i] = m[i]
      /\ \A i \in 1 .. Len(b) : q[Len(m) + i] = b[i]
  BY <1>1, ConcatFacts DEF Segs
<1>4. Len(a) \in Nat /\ Len(b) \in Nat /\ Len(m) \in Nat
  BY <1>1, NormalIs
<1>5. PICK fa : Norms(a, fa, Len(a)) /\ m = fa[Len(a)]
  BY NormalIs
<1>6. PICK fm : Norms(m, fm, Len(m)) /\ m = fm[Len(m)]
  BY <1>1, NormalIs
<1> HIDE DEF m, p, q
<1>7. PICK f : Norms(p, f, Len(p)) /\ Normal(p) = f[Len(p)]
  BY <1>2, NormalIs
<1>8. PICK g : Norms(q, g, Len(q)) /\ Normal(q) = g[Len(q)]
  BY <1>3, NormalIs
<1>9. f[Len(a)] = m
  <2>0. Len(p) \in Nat
    BY <1>2, <1>4
  <2>1. f[0] = fa[0]
    <3>1. f[0] = <<>>
      BY <1>7, <2>0, NormsFirst
    <3>2. fa[0] = <<>>
      BY <1>4, <1>5, NormsFirst
    <3> QED  BY <3>1, <3>2
  <2>2. \A i \in 1 .. Len(a) : p[0 + i] = a[0 + i]
    BY <1>2, <1>4
  <2>3. /\ Len(a) \in Nat /\ Len(p) \in Nat /\ 0 \in Nat
        /\ 0 + Len(a) <= Len(p) /\ 0 + Len(a) <= Len(a)
    BY <1>2, <1>4
  <2>4. Alike(p, f, 0, a, fa, 0, Len(a))
    BY <1>5, <1>7, <2>1, <2>2, <2>3 DEF Alike
  <2>5. f[0 + Len(a)] = fa[0 + Len(a)]
    BY <2>4, NormsAlike
  <2> QED  BY <1>4, <1>5, <2>5
<1>10. g[Len(m)] = m
  <2>0. Len(q) \in Nat
    BY <1>3, <1>4
  <2>1. g[0] = fm[0]
    <3>1. g[0] = <<>>
      BY <1>8, <2>0, NormsFirst
    <3>2. fm[0] = <<>>
      BY <1>4, <1>6, NormsFirst
    <3> QED  BY <3>1, <3>2
  <2>2. \A i \in 1 .. Len(m) : q[0 + i] = m[0 + i]
    BY <1>3, <1>4
  <2>3. /\ Len(m) \in Nat /\ Len(q) \in Nat /\ 0 \in Nat
        /\ 0 + Len(m) <= Len(q) /\ 0 + Len(m) <= Len(m)
    BY <1>3, <1>4
  <2>4. Alike(q, g, 0, m, fm, 0, Len(m))
    BY <1>6, <1>8, <2>1, <2>2, <2>3 DEF Alike
  <2>5. g[0 + Len(m)] = fm[0 + Len(m)]
    BY <2>4, NormsAlike
  <2> QED  BY <1>4, <1>6, <2>5
<1>11. f[Len(a) + Len(b)] = g[Len(m) + Len(b)]
  <2>1. \A i \in 1 .. Len(b) : p[Len(a) + i] = q[Len(m) + i]
    BY <1>2, <1>3
  <2>2. /\ Len(p) \in Nat /\ Len(q) \in Nat
        /\ Len(a) + Len(b) <= Len(p) /\ Len(m) + Len(b) <= Len(q)
    BY <1>2, <1>3, <1>4
  <2>3. Alike(p, f, Len(a), q, g, Len(m), Len(b))
    BY <1>4, <1>7, <1>8, <1>9, <1>10, <2>1, <2>2 DEF Alike
  <2> QED  BY <2>3, NormsAlike
<1>12. Normal(p) = Normal(q)
  BY <1>2, <1>3, <1>7, <1>8, <1>11
<1> QED  BY <1>2, <1>12 DEF m, p, q

(***************************************************************************)
(* A file by any of its paths.                                             *)
(***************************************************************************)
\* The editor's texts are of files, however their paths are written.
ByFile == \A pr \in Projects : \A p, q \in Path :
            Canonical(p) = Canonical(q) =>
              /\ p \in DOMAIN pr.over <=> q \in DOMAIN pr.over
              /\ p \in DOMAIN pr.over => pr.over[p] = pr.over[q]

LEMMA PathParts ==
    /\ \A p \in Path : p[1] \in Segs /\ p[2] \in Words /\ p = <<p[1], p[2]>>
    /\ \A d \in Segs, n \in Words : <<d, n>> \in Path /\ <<d, n>>[1] = d /\ <<d, n>>[2] = n
<1>1. Path = Segs \X Words
  BY DEF Path, Segs, Words
<1> QED  BY <1>1

LEMMA CanonicalOnce ==
    ASSUME NEW p \in Path
    PROVE  /\ Canonical(p) \in Path /\ Canonical(Canonical(p)) = Canonical(p)
           /\ Canonical(p)[1] = Normal(p[1]) /\ Canonical(p)[2] = p[2]
<1>1. p[1] \in Segs /\ p[2] \in Words
  BY PathParts
<1>2. Normal(p[1]) \in Segs /\ Normal(Normal(p[1])) = Normal(p[1])
  BY <1>1, NormalAgain
<1>3. Canonical(p) = <<Normal(p[1]), p[2]>>
  BY DEF Canonical
<1>4. Canonical(p) \in Path /\ Canonical(p)[1] = Normal(p[1]) /\ Canonical(p)[2] = p[2]
  BY <1>1, <1>2, <1>3, PathParts
<1>5. Canonical(Canonical(p)) = <<Normal(Canonical(p)[1]), Canonical(p)[2]>>
  BY DEF Canonical
<1> QED  BY <1>2, <1>3, <1>4, <1>5

LEMMA SamePlace ==
    ASSUME NEW d \in Segs, NEW e \in Segs, NEW n \in Words
    PROVE  Canonical(<<d, n>>) = Canonical(<<e, n>>) <=> Normal(d) = Normal(e)
<1>1. /\ <<d, n>> \in Path /\ <<d, n>>[1] = d /\ <<d, n>>[2] = n
      /\ <<e, n>> \in Path /\ <<e, n>>[1] = e /\ <<e, n>>[2] = n
  BY PathParts
<1>2. Canonical(<<d, n>>) = <<Normal(d), n>> /\ Canonical(<<e, n>>) = <<Normal(e), n>>
  BY <1>1 DEF Canonical
<1> QED  BY <1>2

LEMMA SameText ==
    ASSUME proj \in Projects, ByFile, NEW p \in Path, NEW q \in Path, Canonical(p) = Canonical(q)
    PROVE  /\ OnDisk(p) = OnDisk(q) /\ Text(p) = Text(q) /\ NoText(p) = NoText(q)
<1>1. OnDisk(p) = OnDisk(q)
  BY DEF OnDisk
<1>2. /\ p \in DOMAIN proj.over <=> q \in DOMAIN proj.over
      /\ p \in DOMAIN proj.over => proj.over[p] = proj.over[q]
  BY DEF ByFile
<1>3. Text(p) = Text(q)
  BY <1>2 DEF Text, Edited
<1>4. NoText(p) = NoText(q)
  BY <1>1, <1>2 DEF NoText, Edited
<1> QED  BY <1>1, <1>3, <1>4

\* What the loader comes to: files, the main one, modules of the library.
Good(p) == /\ p \in Path
           /\ OnDisk(p) \/ Canonical(p) = Canonical(proj.main) \/ \E n \in Std : p = <<<<"std">>, n>>

LEMMA StdIs ==
    ASSUME NEW n \in Std
    PROVE  LET p == <<<<"std">>, n>> IN p \in Path /\ IsStd(p) /\ Canonical(p) = p /\ p[2] = n
<1>1. n \in Words /\ "std" \in Words
  BY ImportsAssumption DEF Words
<1>2. <<"std">> \in Segs /\ Len(<<"std">>) = 1
  BY <1>1 DEF Segs
<1>3. Reduced(<<"std">>)
  BY <1>2 DEF Reduced
<1>4. Normal(<<"std">>) = <<"std">>
  BY <1>2, <1>3, NormedStays DEF Normed
<1>5. <<<<"std">>, n>> \in Path /\ <<<<"std">>, n>>[1] = <<"std">> /\ <<<<"std">>, n>>[2] = n
  BY <1>1, <1>2, PathParts
<1> QED  BY <1>4, <1>5 DEF IsStd, Canonical

LEMMA StdNormal == <<"std">> \in Segs /\ Normal(<<"std">>) = <<"std">>
<1>1. "std" \in Words
  BY ImportsAssumption DEF Words
<1>2. <<"std">> \in Segs /\ Len(<<"std">>) = 1
  BY <1>1 DEF Segs
<1>3. Reduced(<<"std">>)
  BY <1>2 DEF Reduced
<1> QED  BY <1>2, <1>3, NormedStays DEF Normed

LEMMA ProjectIs ==
    ASSUME proj \in Projects
    PROVE  /\ proj.main \in Path /\ Normal(proj.main[1]) # <<"std">>
           /\ \A k \in DOMAIN proj.files : k \in Path /\ Canonical(k) = k /\ ~IsStd(k)
           /\ \A f \in Texts(proj) : f.mods \in Seq([n : STRING, on : Seq(STRING)]) /\ f.imports \in Seq(ImportDecls)
           /\ proj.dirs \in Seq(Segs)
           /\ \A d \in DOMAIN proj.pkgs : proj.pkgs[d].entry \in Words
  BY ImportsAssumption DEF Segs, Words

LEMMA GoodFacts ==
    ASSUME proj \in Projects, ByFile, NEW p, Good(p)
    PROVE  /\ p \in Path /\ Canonical(p) \in Places
           /\ IsStd(p) => p = Canonical(p) /\ p[2] \in Std
           /\ IsStd(Canonical(p)) <=> IsStd(p)
           /\ Leaf(Canonical(p)) <=> Leaf(p)
<1>1. p \in Path /\ Canonical(p) \in Path /\ Canonical(Canonical(p)) = Canonical(p)
  BY CanonicalOnce DEF Good
<1>2. proj.main \in Path /\ Normal(proj.main[1]) # <<"std">>
  BY ProjectIs
<1>3. Canonical(p)[1] = Normal(p[1])
  BY <1>1, CanonicalOnce
<1>4. p[1] = <<"std">> => Canonical(p)[1] = <<"std">>
  BY <1>3, StdNormal
<1>5. NoText(Canonical(p)) = NoText(p)
  BY <1>1, SameText
<1>6. CASE OnDisk(p)
  <2>1. Canonical(p) \in DOMAIN proj.files /\ ~IsStd(Canonical(p))
    BY <1>6, ProjectIs DEF OnDisk
  <2>2. ~IsStd(p)
    BY <1>4, <2>1 DEF IsStd
  <2> QED  BY <1>1, <1>5, <2>1, <2>2 DEF Places, Leaf
<1>7. CASE Canonical(p) = Canonical(proj.main)
  <2>1. Canonical(p)[1] # <<"std">>
    BY <1>2, <1>7, CanonicalOnce
  <2>2. ~IsStd(p) /\ ~IsStd(Canonical(p))
    BY <1>4, <2>1 DEF IsStd
  <2> QED  BY <1>1, <1>5, <1>7, <2>2 DEF Places, Leaf
<1>8. CASE \E n \in Std : p = <<<<"std">>, n>>
  <2>1. PICK n \in Std : p = <<<<"std">>, n>>
    BY <1>8
  <2>2. IsStd(p) /\ Canonical(p) = p /\ p[2] = n
    BY <2>1, StdIs
  <2> QED  BY <1>1, <2>1, <2>2 DEF Places
<1> QED  BY <1>6, <1>7, <1>8 DEF Good

LEMMA PlacesGood ==
    ASSUME proj \in Projects, ByFile, NEW k \in Places
    PROVE  Good(k) /\ Canonical(k) = k
<1>1. CASE k \in DOMAIN proj.files
  BY <1>1, ProjectIs DEF Good, OnDisk
<1>2. CASE k = Canonical(proj.main)
  BY <1>2, ProjectIs, CanonicalOnce DEF Good
<1>3. CASE k \in {<<<<"std">>, n>> : n \in Std}
  <2>1. PICK n \in Std : k = <<<<"std">>, n>>
    BY <1>3
  <2> QED  BY <2>1, StdIs DEF Good
<1> QED  BY <1>1, <1>2, <1>3 DEF Places

\* A file that has a text has imports, and a name that no library module has.
Reserved == \A pr \in Projects : \A f \in Texts(pr) : OwnModule(f) \notin Std

LEMMA TextIs ==
    ASSUME proj \in Projects, NEW p, ~NoText(p)
    PROVE  /\ Text(p) \in Texts(proj) /\ Text(p).imports \in Seq(ImportDecls)
           /\ Len(Text(p).imports) \in Nat
           /\ DOMAIN Text(p).imports = 1 .. Len(Text(p).imports)
           /\ \A j \in 1 .. Len(Text(p).imports) : Text(p).imports[j] \in ImportDecls
           /\ OwnModule(Text(p)) \in STRING
<1>1. Text(p) \in Texts(proj)
  BY DEF Text, Texts, NoText, Edited, OnDisk
<1>2. Text(p).imports \in Seq(ImportDecls) /\ Text(p).mods \in Seq([n : STRING, on : Seq(STRING)])
  BY <1>1, ProjectIs
<1>3. /\ Len(Text(p).imports) \in Nat /\ DOMAIN Text(p).imports = 1 .. Len(Text(p).imports)
      /\ \A j \in 1 .. Len(Text(p).imports) : Text(p).imports[j] \in ImportDecls
  BY <1>2, LenProperties, ElementOfSeq
<1>4. OwnModule(Text(p)) \in STRING
  <2> DEFINE ms == Text(p).mods
             M == [n : STRING, on : Seq(STRING)]
  <2>1. ms # <<>> => ms[1] \in M
    <3>1. ms \in Seq(M)
      BY <1>2
    <3> HIDE DEF ms, M
    <3> QED  BY <3>1, TailFacts
  <2>2. \A m \in M : m.n \in STRING
    OBVIOUS
  <2>3. "main" \in STRING
    BY ImportsAssumption
  <2> HIDE DEF M
  <2> QED  BY <2>1, <2>2, <2>3 DEF OwnModule
<1> QED  BY <1>1, <1>2, <1>3, <1>4

(***************************************************************************)
(* What is found (resolveImport).                                          *)
(***************************************************************************)
LEMMA MinIs ==
    ASSUME NEW I, I \subseteq Nat, I # {}
    PROVE  Min(I) \in I
<1>1. \E x \in I : \A y \in I : x <= y
  BY Least
<1> QED  BY <1>1 DEF Min

\* Nothing, or the same file.
SameFile(p, q) ==
  /\ p = NoFile <=> q = NoFile
  /\ p # NoFile => p \in Path /\ q \in Path /\ Canonical(p) = Canonical(q) /\ Good(p) /\ Good(q)

LEMMA FirstFoundAlike ==
    ASSUME proj \in Projects, ByFile, NEW m \in Nat, NEW ps, NEW qs,
           DOMAIN ps = 1 .. m, DOMAIN qs = 1 .. m,
           \A i \in 1 .. m : ps[i] \in Path /\ qs[i] \in Path /\ Canonical(ps[i]) = Canonical(qs[i])
    PROVE  SameFile(FirstFound(ps), FirstFound(qs))
<1> DEFINE I == {i \in DOMAIN ps : OnDisk(ps[i])}
           J == {i \in DOMAIN qs : OnDisk(qs[i])}
<1>1. \A i \in 1 .. m : OnDisk(ps[i]) = OnDisk(qs[i])
  BY DEF OnDisk
<1>2. I = J /\ I \subseteq Nat
  BY <1>1
<1>3. NoFile \notin Path
  BY ImportsAssumption
<1>4. /\ FirstFound(ps) = IF I = {} THEN NoFile ELSE ps[Min(I)]
      /\ FirstFound(qs) = IF J = {} THEN NoFile ELSE qs[Min(J)]
  BY DEF FirstFound
<1>5. ASSUME I # {} PROVE Min(I) \in 1 .. m /\ OnDisk(ps[Min(I)]) /\ OnDisk(qs[Min(I)])
  <2>1. Min(I) \in I
    BY <1>2, <1>5, MinIs
  <2> QED  BY <1>1, <2>1
<1> HIDE DEF I, J
<1>6. CASE I = {}
  BY <1>2, <1>4, <1>6 DEF SameFile
<1>7. CASE I # {}
  <2> DEFINE p == ps[Min(I)]
             q == qs[Min(I)]
  <2>1. p \in Path /\ q \in Path /\ Canonical(p) = Canonical(q) /\ OnDisk(p) /\ OnDisk(q)
    BY <1>5, <1>7
  <2>2. FirstFound(ps) = p /\ FirstFound(qs) = q
    BY <1>2, <1>4, <1>7
  <2> HIDE DEF p, q
  <2> QED  BY <1>3, <2>1, <2>2 DEF SameFile, Good
<1> QED  BY <1>6, <1>7

LEMMA BasesAre ==
    ASSUME proj \in Projects, NEW d, NEW n \in Words
    PROVE  \E m \in Nat : DOMAIN Bases(d, n) = 1 .. m /\ \A i \in 1 .. m : Bases(d, n)[i] \in Words
<1>1. "lib" \in Words
  BY ImportsAssumption DEF Words
<1>2. CASE d \notin DOMAIN proj.pkgs \/ proj.pkgs[d].n # n
  <2>1. Bases(d, n) = <<n>>
    BY <1>2 DEF Bases
  <2> QED  BY <2>1
<1>3. CASE ~(d \notin DOMAIN proj.pkgs \/ proj.pkgs[d].n # n)
  <2> DEFINE e == proj.pkgs[d].entry
  <2>1. e \in Words
    BY <1>3, ProjectIs
  <2>2. Bases(d, n) = IF e = "" THEN <<n, "lib">> ELSE <<n, e, "lib">>
    BY <1>3 DEF Bases
  <2> HIDE DEF e
  <2> DEFINE bs == Bases(d, n)
  <2>3. CASE e = ""
    <3>1. bs = <<n, "lib">>
      BY <2>2, <2>3
    <3>2. DOMAIN bs = 1 .. 2 /\ \A i \in 1 .. 2 : bs[i] = n \/ bs[i] = "lib"
      <4> HIDE DEF bs
      <4> QED  BY <3>1
    <3> QED  BY <1>1, <3>2
  <2>4. CASE e # ""
    <3>1. bs = <<n, e, "lib">>
      BY <2>2, <2>4
    <3>2. DOMAIN bs = 1 .. 3 /\ \A i \in 1 .. 3 : bs[i] = n \/ bs[i] = e \/ bs[i] = "lib"
      <4> HIDE DEF bs
      <4> QED  BY <3>1
    <3> QED  BY <1>1, <2>1, <3>2
  <2> QED  BY <2>3, <2>4
<1> QED  BY <1>2, <1>3

LEMMA FoundInAlike ==
    ASSUME proj \in Projects, ByFile, NEW d \in Segs, NEW e \in Segs, Normal(d) = Normal(e), NEW n \in Words
    PROVE  SameFile(FoundIn(d, n), FoundIn(e, n))
<1> DEFINE bs == Bases(Normal(d), n)
           ps == [i \in DOMAIN bs |-> <<d, bs[i]>>]
           qs == [i \in DOMAIN bs |-> <<e, bs[i]>>]
<1>1. PICK m \in Nat : DOMAIN bs = 1 .. m /\ \A i \in 1 .. m : bs[i] \in Words
  BY BasesAre
<1>2. FoundIn(d, n) = FirstFound(ps) /\ FoundIn(e, n) = FirstFound(qs)
  BY DEF FoundIn
<1> HIDE DEF bs
<1>3. DOMAIN ps = 1 .. m /\ DOMAIN qs = 1 .. m
  BY <1>1
<1>4. \A i \in 1 .. m : ps[i] = <<d, bs[i]>> /\ qs[i] = <<e, bs[i]>>
  BY <1>1
<1> HIDE DEF ps, qs
<1>5. ASSUME NEW i \in 1 .. m PROVE ps[i] \in Path /\ qs[i] \in Path /\ Canonical(ps[i]) = Canonical(qs[i])
  <2>1. bs[i] \in Words
    BY <1>1
  <2>2. <<d, bs[i]>> \in Path /\ <<e, bs[i]>> \in Path
    BY <2>1, PathParts
  <2>3. Canonical(<<d, bs[i]>>) = Canonical(<<e, bs[i]>>)
    BY <2>1, SamePlace
  <2> QED  BY <1>4, <2>2, <2>3
<1>6. SameFile(FirstFound(ps), FirstFound(qs))
  BY <1>3, <1>5, FirstFoundAlike
<1> QED  BY <1>2, <1>6

LEMMA ImportIs ==
    ASSUME NEW imp \in ImportDecls
    PROVE  imp.n \in Words /\ (imp.by = "path" => imp.d \in Segs)
  BY DEF ImportDecls, Words, Segs

LEMMA SearchDirsAlike ==
    ASSUME proj \in Projects, NEW p \in Path, NEW q \in Path, Canonical(p) = Canonical(q)
    PROVE  \E m \in Nat : /\ DOMAIN SearchDirs(p) = 1 .. m /\ DOMAIN SearchDirs(q) = 1 .. m
                          /\ \A i \in 1 .. m : /\ SearchDirs(p)[i] \in Segs /\ SearchDirs(q)[i] \in Segs
                                               /\ Normal(SearchDirs(p)[i]) = Normal(SearchDirs(q)[i])
<1> DEFINE a == <<p[1], proj.main[1]>>
           b == <<q[1], proj.main[1]>>
           ds == proj.dirs
<1>1. proj.main[1] \in Segs /\ p[1] \in Segs /\ q[1] \in Segs /\ ds \in Seq(Segs)
  BY ProjectIs, PathParts
<1>2. Normal(p[1]) = Normal(q[1])
  BY CanonicalOnce
<1>3. /\ a \in Seq(Segs) /\ b \in Seq(Segs) /\ Len(a) = 2 /\ Len(b) = 2
      /\ \A i \in 1 .. 2 : a[i] \in Segs /\ b[i] \in Segs /\ Normal(a[i]) = Normal(b[i])
  <2>1. /\ Len(a) = 2 /\ a[1] = p[1] /\ a[2] = proj.main[1]
        /\ Len(b) = 2 /\ b[1] = q[1] /\ b[2] = proj.main[1]
    OBVIOUS
  <2>2. a \in Seq(Segs) /\ b \in Seq(Segs)
    <3> DEFINE u == p[1]
               v == q[1]
               w == proj.main[1]
    <3>1. u \in Segs /\ v \in Segs /\ w \in Segs
      BY <1>1
    <3> HIDE DEF u, v, w
    <3>2. <<u, w>> \in Seq(Segs) /\ <<v, w>> \in Seq(Segs)
      BY <3>1
    <3> QED  BY <3>2 DEF u, v, w
  <2>3. \A i \in 1 .. 2 : i = 1 \/ i = 2
    OBVIOUS
  <2> HIDE DEF a, b
  <2> QED  BY <1>1, <1>2, <2>1, <2>2, <2>3
<1>4. SearchDirs(p) = a \o ds /\ SearchDirs(q) = b \o ds
  BY DEF SearchDirs
<1> HIDE DEF a, b, ds
<1>5. Len(ds) \in Nat /\ \A i \in 1 .. Len(ds) : ds[i] \in Segs
  BY <1>1, LenProperties, ElementOfSeq
<1>6. /\ a \o ds \in Seq(Segs) /\ Len(a \o ds) = 2 + Len(ds)
      /\ \A i \in 1 .. 2 : (a \o ds)[i] = a[i]
      /\ \A i \in 1 .. Len(ds) : (a \o ds)[2 + i] = ds[i]
  <2>1. a \in Seq(Segs) /\ ds \in Seq(Segs)
    BY <1>1, <1>3
  <2>2. /\ a \o ds \in Seq(Segs) /\ Len(a \o ds) = Len(a) + Len(ds)
        /\ \A i \in 1 .. Len(a) : (a \o ds)[i] = a[i]
        /\ \A i \in 1 .. Len(ds) : (a \o ds)[Len(a) + i] = ds[i]
    BY <2>1, ConcatFacts
  <2> QED  BY <1>3, <2>2
<1>7. /\ b \o ds \in Seq(Segs) /\ Len(b \o ds) = 2 + Len(ds)
      /\ \A i \in 1 .. 2 : (b \o ds)[i] = b[i]
      /\ \A i \in 1 .. Len(ds) : (b \o ds)[2 + i] = ds[i]
  <2>1. b \in Seq(Segs) /\ ds \in Seq(Segs)
    BY <1>1, <1>3
  <2>2. /\ b \o ds \in Seq(Segs) /\ Len(b \o ds) = Len(b) + Len(ds)
        /\ \A i \in 1 .. Len(b) : (b \o ds)[i] = b[i]
        /\ \A i \in 1 .. Len(ds) : (b \o ds)[Len(b) + i] = ds[i]
    BY <2>1, ConcatFacts
  <2> QED  BY <1>3, <2>2
<1> DEFINE m == 2 + Len(ds)
<1>8. DOMAIN (a \o ds) = 1 .. m /\ DOMAIN (b \o ds) = 1 .. m /\ m \in Nat
  BY <1>5, <1>6, <1>7, LenProperties
<1>9. ASSUME NEW i \in 1 .. m
      PROVE  (a \o ds)[i] \in Segs /\ (b \o ds)[i] \in Segs /\ Normal((a \o ds)[i]) = Normal((b \o ds)[i])
  <2>1. CASE i \in 1 .. 2
    BY <1>3, <1>6, <1>7, <2>1
  <2>2. CASE i \notin 1 .. 2
    <3>1. i - 2 \in 1 .. Len(ds) /\ 2 + (i - 2) = i
      BY <1>5, <2>2
    <3>2. (a \o ds)[i] = ds[i - 2] /\ (b \o ds)[i] = ds[i - 2]
      BY <1>6, <1>7, <3>1
    <3> QED  BY <1>5, <3>1, <3>2
  <2> QED  BY <2>1, <2>2
<1> QED  BY <1>4, <1>8, <1>9

\* A file's imports lead to the same files however its path is written.
LEMMA ResolveAlike ==
    ASSUME proj \in Projects, ByFile, NEW p \in Path, NEW q \in Path, Canonical(p) = Canonical(q), NEW imp \in ImportDecls
    PROVE  SameFile(Resolve(imp, p), Resolve(imp, q))
<1>1. imp.n \in Words /\ (imp.by = "path" => imp.d \in Segs)
  BY ImportIs
<1>2. p[1] \in Segs /\ q[1] \in Segs /\ Normal(p[1]) = Normal(q[1])
  BY PathParts, CanonicalOnce
<1>3. CASE imp.by = "path"
  <2> DEFINE d == p[1] \o imp.d
             e == q[1] \o imp.d
             ps == <<<<d, imp.n>>>>
             qs == <<<<e, imp.n>>>>
  <2>1. d \in Segs /\ e \in Segs /\ Normal(d) = Normal(e)
    <3>1. /\ d \in Segs /\ Normal(d) = Normal(Normal(p[1]) \o imp.d)
          /\ e \in Segs /\ Normal(e) = Normal(Normal(q[1]) \o imp.d)
      BY <1>1, <1>2, <1>3, NormalOver
    <3> QED  BY <1>2, <3>1
  <2>2. Resolve(imp, p) = FirstFound(ps) /\ Resolve(imp, q) = FirstFound(qs)
    BY <1>3 DEF Resolve
  <2> HIDE DEF d, e
  <2>3. <<d, imp.n>> \in Path /\ <<e, imp.n>> \in Path /\ Canonical(<<d, imp.n>>) = Canonical(<<e, imp.n>>)
    BY <1>1, <2>1, PathParts, SamePlace
  <2>4. DOMAIN ps = 1 .. 1 /\ DOMAIN qs = 1 .. 1 /\ ps[1] = <<d, imp.n>> /\ qs[1] = <<e, imp.n>>
    OBVIOUS
  <2> HIDE DEF ps, qs
  <2>5. \A i \in 1 .. 1 : ps[i] \in Path /\ qs[i] \in Path /\ Canonical(ps[i]) = Canonical(qs[i])
    BY <2>3, <2>4
  <2>6. 1 \in Nat
    OBVIOUS
  <2>7. SameFile(FirstFound(ps), FirstFound(qs))
    BY <2>4, <2>5, <2>6, FirstFoundAlike
  <2> QED  BY <2>2, <2>7
<1>4. CASE imp.by # "path" /\ imp.n \in Std
  <2>1. Resolve(imp, p) = <<<<"std">>, imp.n>> /\ Resolve(imp, q) = <<<<"std">>, imp.n>>
    BY <1>4 DEF Resolve
  <2>2. <<<<"std">>, imp.n>> \in Path
    BY <1>4, StdIs
  <2>3. Good(<<<<"std">>, imp.n>>)
    BY <1>4, <2>2 DEF Good
  <2>4. <<<<"std">>, imp.n>> # NoFile
    BY <2>2, ImportsAssumption
  <2> QED  BY <2>1, <2>2, <2>3, <2>4 DEF SameFile
<1>5. CASE imp.by # "path" /\ imp.n \notin Std
  <2> DEFINE ds == SearchDirs(p)
             es == SearchDirs(q)
             I == {i \in DOMAIN ds : FoundIn(ds[i], imp.n) # NoFile}
             J == {i \in DOMAIN es : FoundIn(es[i], imp.n) # NoFile}
  <2>1. PICK m \in Nat : /\ DOMAIN ds = 1 .. m /\ DOMAIN es = 1 .. m
                         /\ \A i \in 1 .. m : ds[i] \in Segs /\ es[i] \in Segs /\ Normal(ds[i]) = Normal(es[i])
    BY SearchDirsAlike
  <2>2. /\ Resolve(imp, p) = IF I = {} THEN NoFile ELSE FoundIn(ds[Min(I)], imp.n)
        /\ Resolve(imp, q) = IF J = {} THEN NoFile ELSE FoundIn(es[Min(J)], imp.n)
    BY <1>5 DEF Resolve
  <2> HIDE DEF ds, es
  <2>3. \A i \in 1 .. m : SameFile(FoundIn(ds[i], imp.n), FoundIn(es[i], imp.n))
    BY <1>1, <2>1, FoundInAlike
  <2>4. I = J /\ I \subseteq 1 .. m /\ I \subseteq Nat
    BY <2>1, <2>3 DEF SameFile
  <2> HIDE DEF I, J
  <2>5. CASE I = {}
    BY <2>2, <2>4, <2>5 DEF SameFile
  <2>6. CASE I # {}
    <3>1. Min(I) \in 1 .. m
      BY <2>4, <2>6, MinIs
    <3> QED  BY <2>2, <2>3, <2>4, <2>6, <3>1
  <2> QED  BY <2>5, <2>6
<1> QED  BY <1>3, <1>4, <1>5

(***************************************************************************)
(* The graph of files.                                                     *)
(***************************************************************************)
\* An import that is done leads to a file that is seen.
Done(imp, p, S) == Resolve(imp, p) # NoFile /\ Canonical(Resolve(imp, p)) \in S

LEMMA ImportLeads ==
    ASSUME proj \in Projects, ByFile, NEW p, Good(p), ~Leaf(p), NEW j \in 1 .. Len(Text(p).imports)
    PROVE  LET r == Resolve(Text(p).imports[j], p)
               k == Canonical(p)
           IN  /\ r = NoFile => NoFile \in Targets(k)
               /\ r # NoFile => Good(r) /\ Canonical(r) \in Follows(k)
<1> DEFINE k == Canonical(p)
           imp == Text(p).imports[j]
           r == Resolve(imp, p)
           s == Resolve(imp, k)
<1>1. p \in Path /\ k \in Path /\ Canonical(k) = Canonical(p) /\ ~Leaf(k)
  BY CanonicalOnce, GoodFacts DEF Good
<1>2. Text(k) = Text(p)
  BY <1>1, SameText
<1>3. imp \in ImportDecls /\ j \in DOMAIN Text(p).imports
  BY TextIs DEF Leaf
<1>4. SameFile(r, s)
  <2> HIDE DEF imp, k
  <2> QED  BY <1>1, <1>3, ResolveAlike
<1>5. s \in Targets(k)
  <2>1. Targets(k) = {Resolve(Text(k).imports[i], k) : i \in DOMAIN Text(k).imports}
    BY <1>1 DEF Targets
  <2> HIDE DEF k
  <2> QED  BY <1>2, <1>3, <2>1
<1> HIDE DEF r, s, imp
<1>6. r # NoFile => Good(r) /\ s # NoFile /\ Canonical(r) = Canonical(s)
  BY <1>4 DEF SameFile
<1>7. s # NoFile => Canonical(s) \in Follows(k)
  BY <1>5 DEF Follows
<1>8. r = NoFile => s = NoFile
  BY <1>4 DEF SameFile
<1> QED  BY <1>5, <1>6, <1>7, <1>8 DEF r, imp

LEMMA AllLead ==
    ASSUME proj \in Projects, ByFile, NEW p, Good(p), ~Leaf(p), NEW S,
           \A j \in 1 .. Len(Text(p).imports) : Done(Text(p).imports[j], p, S)
    PROVE  NoFile \notin Targets(Canonical(p)) /\ Follows(Canonical(p)) \subseteq S
<1> DEFINE k == Canonical(p)
<1>1. p \in Path /\ k \in Path /\ Canonical(k) = Canonical(p) /\ ~Leaf(k)
  BY CanonicalOnce, GoodFacts DEF Good
<1>2. Text(k) = Text(p)
  BY <1>1, SameText
<1>3. ASSUME NEW r \in Targets(k) PROVE r # NoFile /\ Canonical(r) \in S
  <2>1. Targets(k) = {Resolve(Text(k).imports[i], k) : i \in DOMAIN Text(k).imports}
    BY <1>1 DEF Targets
  <2> HIDE DEF k
  <2>2. PICK j \in DOMAIN Text(p).imports : r = Resolve(Text(p).imports[j], k)
    BY <1>2, <1>3, <2>1
  <2> DEFINE imp == Text(p).imports[j]
             q == Resolve(imp, p)
  <2>3. j \in 1 .. Len(Text(p).imports) /\ imp \in ImportDecls
    BY <2>2, TextIs DEF Leaf
  <2>4. SameFile(q, r)
    <3>1. r = Resolve(imp, k)
      BY <2>2
    <3> HIDE DEF imp
    <3> QED  BY <1>1, <2>3, <3>1, ResolveAlike DEF k
  <2>5. q # NoFile /\ Canonical(q) \in S
    BY <2>3 DEF Done
  <2> HIDE DEF q, imp
  <2> QED  BY <2>4, <2>5 DEF SameFile
<1> HIDE DEF k
<1>4. NoFile \notin Targets(k) /\ Follows(k) \subseteq S
  BY <1>3 DEF Follows
<1> QED  BY <1>4 DEF k

LEMMA FollowsPlaces ==
    ASSUME proj \in Projects, ByFile, NEW k \in Places
    PROVE  Follows(k) \subseteq Places
<1>1. Good(k) /\ Canonical(k) = k
  BY PlacesGood
<1>2. CASE Leaf(k)
  BY <1>2 DEF Follows, Targets
<1>3. CASE ~Leaf(k)
  <2> SUFFICES ASSUME NEW p \in Targets(k), p # NoFile PROVE Canonical(p) \in Places
    BY DEF Follows
  <2>1. Targets(k) = {Resolve(Text(k).imports[i], k) : i \in DOMAIN Text(k).imports}
    BY <1>3 DEF Targets
  <2>2. PICK i \in DOMAIN Text(k).imports : p = Resolve(Text(k).imports[i], k)
    BY <2>1
  <2>3. i \in 1 .. Len(Text(k).imports)
    BY <1>3, TextIs DEF Leaf
  <2>4. Good(p)
    BY <1>1, <1>3, <2>2, <2>3, ImportLeads
  <2> QED  BY <2>4, GoodFacts
<1> QED  BY <1>2, <1>3

LEMMA ClosedIs ==
    ASSUME NEW T
    PROVE  T \in Closed <=> T \subseteq Places /\ \A k \in T : Follows(k) \subseteq T
<1>1. \A k, l : <<k, l>> \in Edges <=> k \in Places /\ l \in Follows(k)
  BY DEF Edges
<1>2. \A e \in Edges : e = <<e[1], e[2]>>
  BY DEF Edges
<1>3. T \in Closed <=> T \subseteq Places /\ \A e \in Edges : e[1] \in T => e[2] \in T
  BY DEF Closed
<1>4. ASSUME T \subseteq Places, \A e \in Edges : e[1] \in T => e[2] \in T, NEW k \in T
      PROVE  Follows(k) \subseteq T
  <2> SUFFICES ASSUME NEW l \in Follows(k) PROVE l \in T
    OBVIOUS
  <2>1. <<k, l>> \in Edges
    BY <1>1, <1>4
  <2>2. <<k, l>>[1] = k /\ <<k, l>>[2] = l
    OBVIOUS
  <2> QED  BY <1>4, <2>1, <2>2
<1>5. ASSUME \A k \in T : Follows(k) \subseteq T, NEW e \in Edges, e[1] \in T
      PROVE  e[2] \in T
  <2>1. e[2] \in Follows(e[1])
    BY <1>1, <1>2
  <2> QED  BY <1>5, <2>1
<1> QED  BY <1>3, <1>4, <1>5

\* What is reached is the least closed set.
Reached(S) == Beyond(Closed, S)

LEMMA ReachedLeast ==
    ASSUME NEW S, NEW T, S \subseteq T, T \subseteq Places, \A k \in T : Follows(k) \subseteq T
    PROVE  Reached(S) \subseteq T
<1>1. T \in Closed
  BY ClosedIs
<1> QED  BY <1>1 DEF Reached, Beyond

LEMMA ReachedClosed ==
    ASSUME proj \in Projects, ByFile, NEW S, S \subseteq Places
    PROVE  /\ S \subseteq Reached(S) /\ Reached(S) \subseteq Places
           /\ \A k \in Reached(S) : Follows(k) \subseteq Reached(S)
<1>1. S \subseteq Reached(S) /\ Reached(S) \subseteq Places
  BY DEF Reached, Beyond
<1>2. ASSUME NEW k \in Reached(S), NEW l \in Follows(k) PROVE l \in Reached(S)
  <2>1. l \in Places
    BY <1>1, FollowsPlaces
  <2>2. ASSUME NEW T \in Closed, S \subseteq T PROVE l \in T
    <3>1. k \in T
      BY <2>2 DEF Reached, Beyond
    <3> QED  BY <1>2, <3>1, ClosedIs
  <2> QED  BY <2>1, <2>2 DEF Reached, Beyond
<1> QED  BY <1>1, <1>2

LEMMA ReachedInside ==
    ASSUME proj \in Projects, ByFile, NEW R, NEW S, R \subseteq Places, S \subseteq Reached(R)
    PROVE  Reached(S) \subseteq Reached(R)
  BY ReachedClosed, ReachedLeast

\* Main and what it leads to.
LEMMA ProgramIs ==
    ASSUME proj \in Projects, ByFile
    PROVE  /\ Good(proj.main) /\ ~IsStd(proj.main) /\ Canonical(proj.main) \in Program
           /\ Program \subseteq Places
           /\ \A k \in Program : Follows(k) \subseteq Program
           /\ \A T : /\ Canonical(proj.main) \in T /\ T \subseteq Places /\ \A k \in T : Follows(k) \subseteq T
                     => Program \subseteq T
<1> DEFINE m == Canonical(proj.main)
<1>1. Good(proj.main)
  BY ProjectIs DEF Good
<1>2. m \in Places
  BY DEF Places
<1>3. ~IsStd(proj.main)
  BY ProjectIs, StdNormal DEF IsStd
<1>4. Program = Reached({m})
  BY DEF Program, Reached
<1> HIDE DEF m
<1>5. /\ {m} \subseteq Reached({m}) /\ Reached({m}) \subseteq Places
      /\ \A k \in Reached({m}) : Follows(k) \subseteq Reached({m})
  <2>1. {m} \subseteq Places
    BY <1>2
  <2> QED  BY <2>1, ReachedClosed
<1>6. \A T : m \in T /\ T \subseteq Places /\ (\A k \in T : Follows(k) \subseteq T) => Reached({m}) \subseteq T
  BY ReachedLeast
<1> QED  BY <1>1, <1>3, <1>4, <1>5, <1>6 DEF m

(***************************************************************************)
(* The invariant of the loader: of the frames st, the files loaded S, the  *)
(* modules mo, the declarations de and the outcome re.                     *)
(***************************************************************************)
Frame == [path : Path, i : Nat, to : Path \cup {NoFile}]
Key(fr) == Canonical(fr.path)
Keys(st) == {Key(st[i]) : i \in 1 .. Len(st)}
Imps(fr) == Text(fr.path).imports
Under(k) == Reached(Follows(k))

\* A frame is of a file of the program that can be loaded so far; the imports
\* passed are loaded.
FrameOK(fr, S) ==
  /\ Good(fr.path) /\ ~Leaf(fr.path) /\ ~Nameless(Key(fr))
  /\ Key(fr) \in Program /\ Key(fr) \notin S
  /\ fr.i \in 1 .. Len(Imps(fr)) + 1
  /\ \A j \in 1 .. fr.i - 1 : Done(Imps(fr)[j], fr.path, S)

\* It waits for the file its import leads to.
Waiting(fr) ==
  /\ fr.i <= Len(Imps(fr))
  /\ fr.to # NoFile /\ fr.to = Resolve(Imps(fr)[fr.i], fr.path)

\* The frames are a path of the graph without a repetition.
ChainOK(st) ==
  /\ \A i, j \in 1 .. Len(st) : i < j => Key(st[i]) # Key(st[j]) /\ Key(st[j]) \in Under(Key(st[i]))
  /\ \A i \in 1 .. Len(st) - 1 : Waiting(st[i]) /\ Canonical(st[i].to) = Key(st[i + 1])
  /\ st # <<>> => st[1].path = proj.main
StackOK(st, S) ==
  /\ st \in Seq(Frame)
  /\ \A i \in 1 .. Len(st) : FrameOK(st[i], S)
  /\ ChainOK(st)

\* What is loaded can be, and all it leads to is loaded.
LoadedOK(S) ==
  /\ S \subseteq Program
  /\ \A k \in S : ~IsStd(k) => Whole(k) /\ ~Nameless(k) /\ Follows(k) \subseteq S /\ k \notin Under(k)

\* The modules are those of the files seen, which have one each.
ModulesOK(mo, A) ==
  /\ mo \in Seq(STRING)
  /\ \A k, l \in A : ModuleOf(k) = ModuleOf(l) => k = l
  /\ \A k \in A : ModuleOf(k) = "main" \/ ModuleOf(k) \in Range(mo)
  /\ \A i \in 1 .. Len(mo) : \E k \in A : ModuleOf(k) = mo[i]

\* The declarations are those of the files loaded, dependencies first.
DeclsOK(de, S) ==
  /\ de \in Seq(Path) /\ Distinct(de)
  /\ Range(de) = {k \in S : ~IsStd(k)}
  /\ \A i \in 1 .. Len(de) : \A k \in Under(de[i]) : IsStd(k) \/ \E j \in 1 .. i - 1 : de[j] = k

\* Where the loader is.
StageOK(st, S, re) ==
  /\ re = "start" => st = <<>> /\ S = {}
  /\ re \in {"next", "enter", "back"} => st # <<>>
  /\ re \in {"enter", "back"} => Waiting(Last(st))
  /\ re = "back" => Canonical(Last(st).to) \in S
  /\ re = "loaded" => st = <<>> /\ Canonical(proj.main) \in S

Refusals == {"cycle", "unreadable", "nameless", "twice", "missing"}
Goes(st, lo, mo, de, re) ==
  /\ re \in {"start", "next", "enter", "back", "loaded"}
  /\ lo \in Seq(Path)
  /\ StackOK(st, Range(lo)) /\ LoadedOK(Range(lo)) /\ ModulesOK(mo, Range(lo) \cup Keys(st))
  /\ DeclsOK(de, Range(lo)) /\ StageOK(st, Range(lo), re)
Holds(st, lo, mo, de, re) == \/ re \in Refusals /\ ~Loadable
                             \/ Goes(st, lo, mo, de, re)

\* The graph is of the project alone.
LEMMA StaticFiles ==
    ASSUME proj' = proj
    PROVE  /\ \A p : OnDisk(p)' = OnDisk(p) /\ Text(p)' = Text(p) /\ NoText(p)' = NoText(p)
           /\ \A p : Leaf(p)' = Leaf(p) /\ Good(p)' = Good(p) /\ Nameless(p)' = Nameless(p) /\ ModuleOf(p)' = ModuleOf(p)
           /\ Places' = Places
<1>1. \A p : OnDisk(p)' = OnDisk(p)
  BY DEF OnDisk
<1>2. \A p : Edited(p)' = Edited(p)
  BY DEF Edited
<1>3. \A p : Text(p)' = Text(p)
  BY <1>2 DEF Text
<1>4. \A p : NoText(p)' = NoText(p)
  BY <1>1, <1>2 DEF NoText
<1>5. \A p : Leaf(p)' = Leaf(p)
  BY <1>4 DEF Leaf
<1>6. \A p : Good(p)' = Good(p)
  BY <1>1 DEF Good
<1>7. \A p : Nameless(p)' = Nameless(p)
  BY <1>3 DEF Nameless
<1>8. \A p : ModuleOf(p)' = ModuleOf(p)
  BY <1>3 DEF ModuleOf
<1>9. Places' = Places
  BY DEF Places
<1> QED  BY <1>1, <1>3, <1>4, <1>5, <1>6, <1>7, <1>8, <1>9

LEMMA StaticGraph ==
    ASSUME proj' = proj
    PROVE  /\ \A imp, p : Resolve(imp, p)' = Resolve(imp, p)
           /\ \A k : Targets(k)' = Targets(k) /\ Follows(k)' = Follows(k) /\ Under(k)' = Under(k) /\ Whole(k)' = Whole(k)
           /\ Program' = Program /\ Loadable' = Loadable
<1>1. \A ps : FirstFound(ps)' = FirstFound(ps)
  BY StaticFiles DEF FirstFound
<1>2. \A d, n : Bases(d, n)' = Bases(d, n)
  BY DEF Bases
<1>3. ASSUME NEW d, NEW n PROVE FoundIn(d, n)' = FoundIn(d, n)
  <2> DEFINE Found(bs) == FirstFound([i \in DOMAIN bs |-> <<d, bs[i]>>])
  <2>1. \A bs : Found(bs)' = Found(bs)
    BY <1>1
  <2>2. FoundIn(d, n) = Found(Bases(Normal(d), n)) /\ FoundIn(d, n)' = Found(Bases(Normal(d), n))'
    BY DEF FoundIn
  <2>3. Bases(Normal(d), n)' = Bases(Normal(d), n)
    BY <1>2
  <2> HIDE DEF Found
  <2> QED  BY <2>1, <2>2, <2>3
<1>4. \A p : SearchDirs(p)' = SearchDirs(p)
  BY DEF SearchDirs
<1>5. ASSUME NEW imp, NEW p PROVE Resolve(imp, p)' = Resolve(imp, p)
  <2>1. SearchDirs(p)' = SearchDirs(p)
    BY <1>4
  <2>2. \A d : FoundIn(d, imp.n)' = FoundIn(d, imp.n)
    BY <1>3
  <2> QED  BY <1>1, <2>1, <2>2 DEF Resolve
<1>6. \A k : Targets(k)' = Targets(k)
  BY <1>5, StaticFiles DEF Targets
<1>7. \A k : Follows(k)' = Follows(k)
  BY <1>6 DEF Follows
<1>8. Edges' = Edges
  BY <1>7, StaticFiles DEF Edges
<1>9. Closed' = Closed
  BY <1>8, StaticFiles DEF Closed
<1>10. \A C, S : Beyond(C, S)' = Beyond(C, S)
  BY StaticFiles DEF Beyond
<1>11. \A k : Under(k)' = Under(k)
  BY <1>7, <1>9, <1>10 DEF Under, Reached
<1>12. \A k : Whole(k)' = Whole(k)
  BY <1>6, StaticFiles DEF Whole
<1>13. Program' = Program
  BY <1>9, <1>10 DEF Program
<1>14. Loadable' = Loadable
  BY <1>7, <1>9, <1>10, <1>12, StaticFiles DEF Loadable
<1> QED  BY <1>5, <1>6, <1>7, <1>11, <1>12, <1>13, <1>14

LEMMA StaticHolds ==
    ASSUME proj' = proj
    PROVE  \A st, lo, mo, de, re : Holds(st, lo, mo, de, re)' = Holds(st, lo, mo, de, re)
<1>1. \A fr : Imps(fr)' = Imps(fr)
  BY StaticFiles DEF Imps
<1>2. \A imp, p, S : Done(imp, p, S)' = Done(imp, p, S)
  BY StaticGraph DEF Done
<1>3. \A fr, S : FrameOK(fr, S)' = FrameOK(fr, S)
  BY <1>1, <1>2, StaticFiles, StaticGraph DEF FrameOK
<1>4. \A fr : Waiting(fr)' = Waiting(fr)
  BY <1>1, StaticGraph DEF Waiting
<1>5. \A st : ChainOK(st)' = ChainOK(st)
  BY <1>4, StaticGraph DEF ChainOK
<1>6. \A st, S : StackOK(st, S)' = StackOK(st, S)
  BY <1>3, <1>5 DEF StackOK
<1>7. \A S : LoadedOK(S)' = LoadedOK(S)
  BY StaticFiles, StaticGraph DEF LoadedOK
<1>8. \A mo, A : ModulesOK(mo, A)' = ModulesOK(mo, A)
  BY StaticFiles DEF ModulesOK
<1>9. \A de, S : DeclsOK(de, S)' = DeclsOK(de, S)
  BY StaticGraph DEF DeclsOK
<1>10. \A st, S, re : StageOK(st, S, re)' = StageOK(st, S, re)
  BY <1>4 DEF StageOK
<1>11. \A st, lo, mo, de, re : Goes(st, lo, mo, de, re)' = Goes(st, lo, mo, de, re)
  BY <1>6, <1>7, <1>8, <1>9, <1>10 DEF Goes
<1>12. \A st, lo, mo, de, re : Holds(st, lo, mo, de, re)' = Holds(st, lo, mo, de, re)
  BY <1>11, StaticGraph DEF Holds
<1> QED  BY <1>12

LEMMA Static ==
    ASSUME proj' = proj, Holds(stack', loaded', modules', decls', res')
    PROVE  Holds(stack, loaded, modules, decls, res)'
  BY StaticHolds

(***************************************************************************)
(* The frames.                                                             *)
(***************************************************************************)
Given == proj \in Projects /\ ByFile /\ Reserved

LEMMA FrameFacts ==
    ASSUME Given, NEW fr \in Frame, NEW S, FrameOK(fr, S)
    PROVE  /\ Good(fr.path) /\ fr.path \in Path /\ Key(fr) \in Program /\ Key(fr) \in Places
           /\ ~IsStd(Key(fr)) /\ Key(fr) \notin S
           /\ Len(Imps(fr)) \in Nat /\ fr.i \in Nat
           /\ Text(Key(fr)) = Text(fr.path)
           /\ Follows(Key(fr)) \subseteq Under(Key(fr)) /\ Under(Key(fr)) \subseteq Places
           /\ \A k \in Under(Key(fr)) : Follows(k) \subseteq Under(Key(fr))
           /\ \A j \in 1 .. Len(Imps(fr)) : LET r == Resolve(Imps(fr)[j], fr.path)
                                            IN  /\ r = NoFile => NoFile \in Targets(Key(fr))
                                                /\ r # NoFile => Good(r) /\ Canonical(r) \in Follows(Key(fr))
<1>1. Good(fr.path) /\ ~Leaf(fr.path) /\ Key(fr) \in Program /\ Key(fr) \notin S
  BY DEF FrameOK
<1>2. Key(fr) \in Places /\ fr.path \in Path
  BY <1>1, GoodFacts DEF Key, Given
<1>3. ~IsStd(Key(fr))
  BY <1>1, GoodFacts DEF Key, Given, Leaf
<1>4. Len(Imps(fr)) \in Nat /\ fr.i \in Nat
  BY <1>1, TextIs DEF Leaf, Imps, Given, Frame
<1>5. Text(Key(fr)) = Text(fr.path)
  <2>1. Key(fr) \in Path /\ Canonical(Key(fr)) = Canonical(fr.path)
    BY <1>2, CanonicalOnce DEF Key
  <2> QED  BY <1>2, <2>1, SameText DEF Given
<1>6. Follows(Key(fr)) \subseteq Places
  BY <1>2, FollowsPlaces DEF Given
<1>7. /\ Follows(Key(fr)) \subseteq Under(Key(fr)) /\ Under(Key(fr)) \subseteq Places
      /\ \A k \in Under(Key(fr)) : Follows(k) \subseteq Under(Key(fr))
  BY <1>6, ReachedClosed DEF Under, Given
<1>8. \A j \in 1 .. Len(Imps(fr)) : LET r == Resolve(Imps(fr)[j], fr.path)
                                    IN  /\ r = NoFile => NoFile \in Targets(Key(fr))
                                        /\ r # NoFile => Good(r) /\ Canonical(r) \in Follows(Key(fr))
  BY <1>1, ImportLeads DEF Given, Imps, Key
<1> QED  BY <1>1, <1>2, <1>3, <1>4, <1>5, <1>7, <1>8

LEMMA WaitingFacts ==
    ASSUME Given, NEW fr \in Frame, NEW S, FrameOK(fr, S), Waiting(fr)
    PROVE  Good(fr.to) /\ Canonical(fr.to) \in Follows(Key(fr)) /\ Canonical(fr.to) \in Program
<1>1. fr.i \in 1 .. Len(Imps(fr))
  BY FrameFacts DEF FrameOK, Waiting
<1>2. Good(fr.to) /\ Canonical(fr.to) \in Follows(Key(fr))
  BY <1>1, FrameFacts DEF Waiting
<1>3. Follows(Key(fr)) \subseteq Program
  BY FrameFacts, ProgramIs DEF Given
<1> QED  BY <1>2, <1>3

\* More is loaded, but not the frame's file.
LEMMA MoreLoaded ==
    ASSUME NEW fr, NEW S, NEW T, FrameOK(fr, S), S \subseteq T, Key(fr) \notin T
    PROVE  FrameOK(fr, T)
  BY DEF FrameOK, Done

LEMMA StackMoreLoaded ==
    ASSUME NEW st, NEW S, NEW T, StackOK(st, S), S \subseteq T, \A i \in 1 .. Len(st) : Key(st[i]) \notin T
    PROVE  StackOK(st, T)
  BY MoreLoaded DEF StackOK

LEMMA StackPushed ==
    ASSUME Given, NEW st, NEW S, StackOK(st, S), NEW fr \in Frame, FrameOK(fr, S),
           \A i \in 1 .. Len(st) : Key(st[i]) # Key(fr),
           st = <<>> => fr.path = proj.main,
           st # <<>> => Waiting(Last(st)) /\ Canonical(Last(st).to) = Key(fr)
    PROVE  /\ StackOK(Append(st, fr), S) /\ Keys(Append(st, fr)) = Keys(st) \cup {Key(fr)}
           /\ Append(st, fr) # <<>>
<1> DEFINE tt == Append(st, fr)
           n == Len(st)
<1>1. /\ st \in Seq(Frame) /\ n \in Nat
      /\ tt \in Seq(Frame) /\ Len(tt) = n + 1 /\ tt[n + 1] = fr /\ tt # <<>>
      /\ \A i \in 1 .. n : tt[i] = st[i]
      /\ \A i \in 1 .. n : st[i] \in Frame /\ FrameOK(st[i], S)
  BY AppendFacts, LenProperties, ElementOfSeq, PushPop DEF StackOK
<1>2. Last(st) = st[n]
  BY DEF Last
<1>3. n # 0 => st # <<>>
  BY <1>1, EmptySeq
<1>4. (n = 0 => st = <<>>) /\ \A i \in 1 .. n : Key(st[i]) # Key(fr)
  BY <1>1, EmptySeq
<1>5. /\ \A i, j \in 1 .. n : i < j => Key(st[i]) # Key(st[j]) /\ Key(st[j]) \in Under(Key(st[i]))
      /\ \A i \in 1 .. n - 1 : Waiting(st[i]) /\ Canonical(st[i].to) = Key(st[i + 1])
      /\ st # <<>> => st[1].path = proj.main
  BY DEF StackOK, ChainOK
<1> HIDE DEF tt, n
<1>6. \A i \in 1 .. n + 1 : i = n + 1 \/ i \in 1 .. n
  BY <1>1
<1>7. \A i \in 1 .. n + 1 : FrameOK(tt[i], S)
  BY <1>1, <1>6
<1>8. ASSUME NEW i \in 1 .. n PROVE Key(fr) \in Under(Key(st[i]))
  <2>1. n \in 1 .. n /\ st # <<>>
    BY <1>1, <1>3
  <2>2. Key(fr) \in Follows(Key(st[n]))
    BY <1>1, <1>2, <2>1, WaitingFacts
  <2>3. CASE i = n
    BY <1>1, <2>2, <2>3, FrameFacts
  <2>4. CASE i # n
    <3>1. Key(st[n]) \in Under(Key(st[i]))
      BY <1>5, <2>1, <2>4
    <3> QED  BY <1>1, <2>2, <3>1, FrameFacts
  <2> QED  BY <2>3, <2>4
<1>9. ASSUME NEW i \in 1 .. n + 1, NEW j \in 1 .. n + 1, i < j
      PROVE  Key(tt[i]) # Key(tt[j]) /\ Key(tt[j]) \in Under(Key(tt[i]))
  <2>1. i \in 1 .. n /\ tt[i] = st[i]
    BY <1>1, <1>9
  <2>2. CASE j = n + 1
    BY <1>1, <1>4, <1>8, <2>1, <2>2
  <2>3. CASE j \in 1 .. n
    BY <1>1, <1>5, <1>9, <2>1, <2>3
  <2> QED  BY <1>6, <2>2, <2>3
<1>10. ASSUME NEW i \in 1 .. n PROVE Waiting(tt[i]) /\ Canonical(tt[i].to) = Key(tt[i + 1])
  <2>1. CASE i = n
    <3>1. st # <<>>
      BY <1>1, <1>3, <2>1
    <3> QED  BY <1>1, <1>2, <2>1, <3>1
  <2>2. CASE i # n
    <3>1. i \in 1 .. n - 1 /\ i + 1 \in 1 .. n
      BY <1>1, <2>2
    <3> QED  BY <1>1, <1>5, <3>1
  <2> QED  BY <2>1, <2>2
<1>11. tt[1].path = proj.main
  <2>1. CASE n = 0
    BY <1>1, <1>4, <2>1
  <2>2. CASE n # 0
    <3>1. 1 \in 1 .. n
      BY <1>1, <2>2
    <3> QED  BY <1>1, <1>3, <1>5, <2>2, <3>1
  <2> QED  BY <2>1, <2>2
<1>12. ChainOK(tt)
  <2>1. (n + 1) - 1 = n
    BY <1>1
  <2> QED  BY <1>1, <1>9, <1>10, <1>11, <2>1 DEF ChainOK
<1>13. Keys(tt) = Keys(st) \cup {Key(fr)}
  <2>1. Keys(tt) = {Key(tt[i]) : i \in 1 .. n + 1} /\ Keys(st) = {Key(st[i]) : i \in 1 .. n}
    BY <1>1 DEF Keys, n
  <2>2. \A i \in 1 .. n : i \in 1 .. n + 1
    BY <1>1
  <2>3. n + 1 \in 1 .. n + 1
    BY <1>1
  <2> QED  BY <1>1, <1>6, <2>1, <2>2, <2>3
<1>14. StackOK(tt, S)
  BY <1>1, <1>7, <1>12 DEF StackOK
<1> QED  BY <1>1, <1>13, <1>14 DEF tt

LEMMA StackPopped ==
    ASSUME Given, NEW st, NEW S, StackOK(st, S), st # <<>>
    PROVE  /\ StackOK(Front(st), S) /\ Keys(Front(st)) \cup {Key(Last(st))} = Keys(st)
           /\ Key(Last(st)) \notin Keys(Front(st))
           /\ Last(st) \in Frame /\ FrameOK(Last(st), S)
           /\ Len(st) = 1 => Front(st) = <<>> /\ Key(Last(st)) = Canonical(proj.main)
           /\ Len(st) # 1 => /\ Front(st) # <<>> /\ Waiting(Last(Front(st)))
                             /\ Canonical(Last(Front(st)).to) = Key(Last(st))
<1> DEFINE tt == Front(st)
           n == Len(st)
<1>1. /\ st \in Seq(Frame) /\ n \in Nat \ {0}
      /\ tt \in Seq(Frame) /\ Len(tt) = n - 1 /\ Last(st) = st[n] /\ Last(st) \in Frame
      /\ \A i \in 1 .. n - 1 : tt[i] = st[i]
      /\ \A i \in 1 .. n : FrameOK(st[i], S)
  BY FrontFacts DEF StackOK, Last
<1>2. /\ \A i, j \in 1 .. n : i < j => Key(st[i]) # Key(st[j]) /\ Key(st[j]) \in Under(Key(st[i]))
      /\ \A i \in 1 .. n - 1 : Waiting(st[i]) /\ Canonical(st[i].to) = Key(st[i + 1])
      /\ st[1].path = proj.main
  BY DEF StackOK, ChainOK
<1>3. n - 1 = 0 => tt = <<>>
  BY <1>1, EmptySeq
<1>4. n - 1 # 0 => tt # <<>>
  BY <1>1, EmptySeq
<1>5. Last(tt) = tt[n - 1]
  BY <1>1 DEF Last
<1> HIDE DEF tt, n
<1>6. \A i \in 1 .. n - 1 : i \in 1 .. n
  BY <1>1
<1>7. ChainOK(tt)
  <2>1. \A i, j \in 1 .. n - 1 : i < j => Key(tt[i]) # Key(tt[j]) /\ Key(tt[j]) \in Under(Key(tt[i]))
    BY <1>1, <1>2, <1>6
  <2>2. ASSUME NEW i \in 1 .. (n - 1) - 1 PROVE Waiting(tt[i]) /\ Canonical(tt[i].to) = Key(tt[i + 1])
    <3>1. i \in 1 .. n - 1 /\ i + 1 \in 1 .. n - 1
      BY <1>1
    <3> QED  BY <1>1, <1>2, <3>1
  <2>3. tt # <<>> => tt[1].path = proj.main
    <3>1. tt # <<>> => 1 \in 1 .. n - 1
      BY <1>1, <1>3
    <3> QED  BY <1>1, <1>2, <3>1
  <2> QED  BY <1>1, <2>1, <2>2, <2>3 DEF ChainOK
<1>8. StackOK(tt, S)
  BY <1>1, <1>6, <1>7 DEF StackOK
<1>9. Keys(tt) = {Key(st[i]) : i \in 1 .. n - 1} /\ Keys(st) = {Key(st[i]) : i \in 1 .. n}
  BY <1>1 DEF Keys, n
<1>10. Keys(tt) \cup {Key(st[n])} = Keys(st)
  <2>1. \A i \in 1 .. n : i = n \/ i \in 1 .. n - 1
    BY <1>1
  <2>2. n \in 1 .. n
    BY <1>1
  <2> QED  BY <1>6, <1>9, <2>1, <2>2
<1>11. Key(st[n]) \notin Keys(tt)
  <2>1. \A i \in 1 .. n - 1 : i < n /\ n \in 1 .. n
    BY <1>1
  <2>2. \A i \in 1 .. n - 1 : Key(st[i]) # Key(st[n])
    BY <1>2, <1>6, <2>1
  <2> QED  BY <1>9, <2>2
<1>12. n = 1 => tt = <<>> /\ Key(st[n]) = Canonical(proj.main)
  BY <1>1, <1>2, <1>3 DEF Key
<1>13. n # 1 => tt # <<>> /\ Waiting(Last(tt)) /\ Canonical(Last(tt).to) = Key(st[n])
  <2> SUFFICES ASSUME n # 1 PROVE tt # <<>> /\ Waiting(Last(tt)) /\ Canonical(Last(tt).to) = Key(st[n])
    OBVIOUS
  <2>1. n - 1 \in 1 .. n - 1 /\ n - 1 # 0 /\ (n - 1) + 1 = n
    BY <1>1
  <2> QED  BY <1>1, <1>2, <1>4, <1>5, <2>1
<1>14. FrameOK(st[n], S)
  <2>1. n \in 1 .. n
    BY <1>1
  <2> QED  BY <1>1, <2>1
<1> QED  BY <1>1, <1>8, <1>10, <1>11, <1>12, <1>13, <1>14 DEF tt, n

\* The frame on top goes on.
LEMMA TopChanged ==
    ASSUME Given, NEW st, NEW S, StackOK(st, S), st # <<>>, NEW fr \in Frame, FrameOK(fr, S),
           fr.path = Last(st).path
    PROVE  /\ StackOK([st EXCEPT ![Len(st)] = fr], S) /\ Keys([st EXCEPT ![Len(st)] = fr]) = Keys(st)
           /\ [st EXCEPT ![Len(st)] = fr] # <<>> /\ Last([st EXCEPT ![Len(st)] = fr]) = fr
<1> DEFINE tt == [st EXCEPT ![Len(st)] = fr]
           n == Len(st)
<1>1. /\ st \in Seq(Frame) /\ n \in Nat \ {0} /\ n \in 1 .. n
      /\ Last(st) = st[n] /\ \A i \in 1 .. n : FrameOK(st[i], S)
  BY FrontFacts DEF StackOK, Last
<1>2. tt \in Seq(Frame) /\ Len(tt) = n /\ tt[n] = fr /\ \A i \in 1 .. n : i # n => tt[i] = st[i]
  <2>1. tt = ReplaceAt(st, n, fr)
    BY DEF ReplaceAt
  <2>2. n \in 1 .. Len(st)
    BY <1>1
  <2>3. /\ ReplaceAt(st, n, fr) \in Seq(Frame) /\ Len(ReplaceAt(st, n, fr)) = Len(st)
        /\ ReplaceAt(st, n, fr)[n] = fr
        /\ \A i \in 1 .. Len(st) : i # n => ReplaceAt(st, n, fr)[i] = st[i]
    <3> HIDE DEF n
    <3> QED  BY <1>1, <2>2, ReplaceFacts
  <2> QED  BY <2>1, <2>3
<1>3. tt # <<>>
  BY <1>1, <1>2, EmptySeq
<1>4. Last(tt) = fr
  BY <1>2 DEF Last
<1>5. /\ \A i, j \in 1 .. n : i < j => Key(st[i]) # Key(st[j]) /\ Key(st[j]) \in Under(Key(st[i]))
      /\ \A i \in 1 .. n - 1 : Waiting(st[i]) /\ Canonical(st[i].to) = Key(st[i + 1])
      /\ st[1].path = proj.main
  BY DEF StackOK, ChainOK
<1> HIDE DEF tt, n
<1>6. \A i \in 1 .. n : tt[i].path = st[i].path
  BY <1>1, <1>2
<1>7. \A i \in 1 .. n : Key(tt[i]) = Key(st[i])
  BY <1>6 DEF Key
<1>8. ChainOK(tt)
  <2>1. ASSUME NEW i \in 1 .. n - 1 PROVE Waiting(tt[i]) /\ Canonical(tt[i].to) = Key(tt[i + 1])
    <3>1. i \in 1 .. n /\ i # n /\ i + 1 \in 1 .. n
      BY <1>1
    <3> QED  BY <1>2, <1>5, <1>7, <3>1
  <2>2. tt[1].path = proj.main
    BY <1>1, <1>5, <1>6
  <2> QED  BY <1>2, <1>5, <1>7, <2>1, <2>2 DEF ChainOK
<1>9. \A i \in 1 .. n : FrameOK(tt[i], S)
  BY <1>1, <1>2
<1>10. Keys(tt) = Keys(st)
  BY <1>2, <1>7 DEF Keys, n
<1>11. StackOK(tt, S)
  BY <1>2, <1>8, <1>9 DEF StackOK
<1> QED  BY <1>3, <1>4, <1>10, <1>11 DEF tt, n

(***************************************************************************)
(* What is loaded, and the modules.                                        *)
(***************************************************************************)
LEMMA LoadedClosed ==
    ASSUME Given, NEW S, LoadedOK(S)
    PROVE  /\ S \subseteq Places /\ \A k \in S : Follows(k) \subseteq S
           /\ \A k : Follows(k) \subseteq S => Under(k) \subseteq S
<1>1. S \subseteq Places
  BY ProgramIs DEF LoadedOK, Given
<1>2. ASSUME NEW k \in S PROVE Follows(k) \subseteq S
  <2>1. CASE IsStd(k)
    <3>1. Leaf(k)
      BY <2>1 DEF Leaf
    <3> QED  BY <3>1 DEF Follows, Targets
  <2>2. CASE ~IsStd(k)
    BY <2>2 DEF LoadedOK
  <2> QED  BY <2>1, <2>2
<1>3. ASSUME NEW k, Follows(k) \subseteq S PROVE Under(k) \subseteq S
  BY <1>1, <1>2, <1>3, ReachedLeast DEF Under
<1> QED  BY <1>1, <1>2, <1>3

LEMMA StdLoaded ==
    ASSUME NEW S, LoadedOK(S), NEW k \in Program, IsStd(k)
    PROVE  LoadedOK(S \cup {k})
  BY DEF LoadedOK

LEMMA FileLoaded ==
    ASSUME Given, NEW S, LoadedOK(S), NEW k \in Program, k \notin S, Whole(k), ~Nameless(k), Follows(k) \subseteq S
    PROVE  LoadedOK(S \cup {k}) /\ Under(k) \subseteq S
<1>1. Under(k) \subseteq S
  BY LoadedClosed
<1> QED  BY <1>1 DEF LoadedOK

LEMMA MainModule ==
    ASSUME Given, NEW k \in Places, ModuleOf(k) = "main", ~IsStd(k) => ~Nameless(k)
    PROVE  k = Canonical(proj.main)
<1>1. Good(k)
  BY PlacesGood DEF Given
<1>2. CASE IsStd(k)
  <2>1. k[2] \in Std
    BY <1>1, <1>2, GoodFacts DEF Given
  <2> QED  BY <1>2, <2>1, ImportsAssumption DEF ModuleOf
<1>3. CASE ~IsStd(k)
  BY <1>3 DEF ModuleOf, Nameless
<1> QED  BY <1>2, <1>3

\* The files seen are of the program, and have their module names.
LEMMA SeenIs ==
    ASSUME Given, NEW st, NEW S, StackOK(st, S), LoadedOK(S), NEW k \in S \cup Keys(st)
    PROVE  k \in Program /\ k \in Places /\ (~IsStd(k) => ~Nameless(k) /\ ~NoText(k))
<1>1. Program \subseteq Places
  BY ProgramIs DEF Given
<1>2. CASE k \in S
  BY <1>1, <1>2 DEF LoadedOK, Whole
<1>3. CASE k \in Keys(st)
  <2>1. PICK i \in 1 .. Len(st) : k = Key(st[i])
    BY <1>3 DEF Keys
  <2>2. FrameOK(st[i], S) /\ st[i] \in Frame
    BY <2>1, ElementOfSeq DEF StackOK
  <2>3. Good(st[i].path) /\ ~Leaf(st[i].path) /\ ~Nameless(k) /\ k \in Program
    BY <2>1, <2>2 DEF FrameOK
  <2>4. ~Leaf(k)
    BY <2>1, <2>3, GoodFacts DEF Given, Key
  <2> QED  BY <1>1, <2>3, <2>4 DEF Leaf
<1> QED  BY <1>2, <1>3

LEMMA ModulesMore ==
    ASSUME Given, NEW st, NEW S, StackOK(st, S), LoadedOK(S), NEW mo, ModulesOK(mo, S \cup Keys(st)),
           NEW k \in Places, k \notin S \cup Keys(st), ModuleOf(k) \in STRING,
           ~IsStd(k) => ~Nameless(k),
           ModuleOf(k) # "main" => \A i \in 1 .. Len(mo) : mo[i] # ModuleOf(k)
    PROVE  ModulesOK(IF ModuleOf(k) = "main" THEN mo ELSE Append(mo, ModuleOf(k)), (S \cup Keys(st)) \cup {k})
<1> DEFINE A == S \cup Keys(st)
           m == ModuleOf(k)
           mm == IF m = "main" THEN mo ELSE Append(mo, m)
<1>1. /\ mo \in Seq(STRING)
      /\ \A l, n \in A : ModuleOf(l) = ModuleOf(n) => l = n
      /\ \A l \in A : ModuleOf(l) = "main" \/ ModuleOf(l) \in Range(mo)
      /\ \A i \in 1 .. Len(mo) : \E l \in A : ModuleOf(l) = mo[i]
  BY DEF ModulesOK
<1>2. ASSUME NEW l \in A, ModuleOf(l) = m PROVE FALSE
  <2>1. CASE m = "main"
    <3>1. l \in Places /\ (~IsStd(l) => ~Nameless(l))
      BY SeenIs
    <3>2. l = Canonical(proj.main)
      BY <1>2, <2>1, <3>1, MainModule
    <3>3. k = Canonical(proj.main)
      BY <2>1, MainModule
    <3> QED  BY <3>2, <3>3
  <2>2. CASE m # "main"
    <3>1. m \in Range(mo)
      BY <1>1, <1>2, <2>2
    <3>2. DOMAIN mo = 1 .. Len(mo)
      BY <1>1, LenProperties
    <3> QED  BY <2>2, <3>1, <3>2 DEF Range
  <2> QED  BY <2>1, <2>2
<1> HIDE DEF A
<1>3. \A l, n \in A \cup {k} : ModuleOf(l) = ModuleOf(n) => l = n
  BY <1>1, <1>2
<1>4. CASE m = "main"
  <2>1. mm = mo
    BY <1>4
  <2> HIDE DEF mm
  <2> QED  BY <1>1, <1>3, <1>4, <2>1 DEF ModulesOK, A
<1>5. CASE m # "main"
  <2>1. mm = Append(mo, m)
    BY <1>5
  <2>2. m \in STRING
    OBVIOUS
  <2> HIDE DEF mm, m
  <2>3. /\ mm \in Seq(STRING) /\ Len(mm) = Len(mo) + 1 /\ Len(mo) \in Nat
        /\ \A i \in 1 .. Len(mo) : mm[i] = mo[i]
        /\ mm[Len(mo) + 1] = m
    BY <1>1, <2>1, <2>2, AppendFacts, LenProperties
  <2>4. Range(mm) = Range(mo) \cup {m}
    BY <1>1, <2>1, <2>2, RangeAppend
  <2>5. \A l \in A \cup {k} : ModuleOf(l) = "main" \/ ModuleOf(l) \in Range(mm)
    BY <1>1, <2>4 DEF m
  <2>6. ASSUME NEW i \in 1 .. Len(mm) PROVE \E l \in A \cup {k} : ModuleOf(l) = mm[i]
    <3>1. CASE i = Len(mo) + 1
      BY <2>3, <3>1 DEF m
    <3>2. CASE i # Len(mo) + 1
      <4>1. i \in 1 .. Len(mo)
        BY <2>3, <3>2
      <4> QED  BY <1>1, <2>3, <4>1
    <3> QED  BY <3>1, <3>2
  <2>7. ModulesOK(mm, A \cup {k})
    BY <1>3, <2>3, <2>5, <2>6 DEF ModulesOK
  <2> QED  BY <2>7 DEF mm, m, A
<1> QED  BY <1>4, <1>5

(***************************************************************************)
(* What is refused.                                                        *)
(***************************************************************************)
LEMMA LoadableIs ==
    Loadable <=> \A k \in Program :
      /\ ~IsStd(k) => Whole(k) /\ ~Nameless(k) /\ k \notin Under(k)
      /\ \A l \in Program : ModuleOf(k) = ModuleOf(l) => k = l
  BY DEF Loadable, Program, Under, Reached

\* A library's module and a file are not of the same name.
LEMMA ModuleIs ==
    ASSUME Given, NEW p, Good(p)
    PROVE  /\ IsStd(p) => ModuleOf(Canonical(p)) = p[2] /\ p[2] \in Std
           /\ ~IsStd(p) => ModuleOf(Canonical(p)) = OwnModule(Text(p))
           /\ ~IsStd(p) /\ ~NoText(p) => ModuleOf(Canonical(p)) \in STRING \ Std
           /\ IsStd(Canonical(p)) = IsStd(p) /\ NoText(Canonical(p)) = NoText(p)
           /\ Nameless(Canonical(p)) <=> OwnModule(Text(p)) = "main" /\ Canonical(p) # Canonical(proj.main)
<1>1. /\ IsStd(p) => p = Canonical(p) /\ p[2] \in Std
      /\ IsStd(Canonical(p)) <=> IsStd(p)
  BY GoodFacts DEF Given
<1>2. Text(Canonical(p)) = Text(p) /\ NoText(Canonical(p)) = NoText(p)
  <2>1. p \in Path /\ Canonical(p) \in Path /\ Canonical(Canonical(p)) = Canonical(p)
    BY CanonicalOnce DEF Good
  <2> QED  BY <2>1, SameText DEF Given
<1>3. ~NoText(p) => OwnModule(Text(p)) \in STRING /\ OwnModule(Text(p)) \notin Std
  BY TextIs DEF Given, Reserved
<1>4. IsStd(Canonical(p)) = IsStd(p)
  BY <1>1 DEF IsStd
<1> QED  BY <1>1, <1>2, <1>3, <1>4 DEF ModuleOf, Nameless

(***************************************************************************)
(* The steps.                                                              *)
(***************************************************************************)
LEMMA InChain ==
    ASSUME NEW S, StackOK(stack, S), NEW k
    PROVE  Contains(Chain, k) <=> k \in Keys(stack)
<1>1. stack \in Seq(Frame) /\ DOMAIN stack = 1 .. Len(stack) /\ Len(stack) \in Nat
  BY LenProperties DEF StackOK
<1> DEFINE n == Len(stack)
           c == [i \in DOMAIN stack |-> Canonical(stack[i].path)]
<1>2. c = [i \in 1 .. n |-> Canonical(stack[i].path)]
  BY <1>1
<1>3. DOMAIN c = 1 .. n /\ \A i \in 1 .. n : c[i] = Key(stack[i])
  BY <1>1 DEF Key
<1>4. Len(c) = n
  BY <1>1, <1>2
<1>5. c = Chain
  BY DEF Chain
<1> HIDE DEF c
<1> QED  BY <1>3, <1>4, <1>5 DEF Contains, Keys

LEMMA InLoaded ==
    ASSUME loaded \in Seq(Path), NEW k
    PROVE  Contains(loaded, k) <=> k \in Range(loaded)
<1>1. DOMAIN loaded = 1 .. Len(loaded)
  BY LenProperties
<1> QED  BY <1>1 DEF Contains, Range

\* The file p comes next.
Coming(p) ==
  /\ Good(p) /\ Canonical(p) \in Program
  /\ stack = <<>> => p = proj.main /\ Range(loaded) = {}
  /\ stack # <<>> => Waiting(Last(stack)) /\ Last(stack).to = p

LEMMA EnterCycle ==
    ASSUME Given, Goes(stack, loaded, modules, decls, res), NEW p, Coming(p), Canonical(p) \in Keys(stack)
    PROVE  ~Loadable
<1> DEFINE k == Canonical(p)
           S == Range(loaded)
           n == Len(stack)
<1>1. StackOK(stack, S) /\ stack \in Seq(Frame) /\ n \in Nat
  BY LenProperties DEF Goes, StackOK
<1>2. \A i \in 1 .. n : stack[i] \in Frame /\ FrameOK(stack[i], S)
  BY <1>1, ElementOfSeq DEF StackOK
<1>3. PICK j \in 1 .. n : k = Key(stack[j])
  BY DEF Keys
<1>4. n \in 1 .. n /\ stack # <<>> /\ Last(stack) = stack[n]
  BY <1>1, <1>3, EmptySeq DEF Last
<1>5. k \in Follows(Key(stack[n]))
  <2>1. Waiting(stack[n]) /\ stack[n].to = p
    BY <1>4 DEF Coming
  <2> QED  BY <1>2, <1>4, <2>1, WaitingFacts
<1> HIDE DEF k, n, S
<1>6. k \in Under(k)
  <2>1. CASE j = n
    BY <1>2, <1>3, <1>4, <1>5, <2>1, FrameFacts
  <2>2. CASE j # n
    <3>1. Key(stack[n]) \in Under(k)
      <4>1. \A a, b \in 1 .. n : a < b => Key(stack[b]) \in Under(Key(stack[a]))
        BY <1>1 DEF StackOK, ChainOK, n
      <4>2. j < n
        BY <1>1, <1>3, <2>2
      <4> QED  BY <1>3, <1>4, <4>1, <4>2
    <3> QED  BY <1>2, <1>3, <1>5, <3>1, FrameFacts
  <2> QED  BY <2>1, <2>2
<1>7. k \in Program /\ ~IsStd(k)
  BY <1>2, <1>3, FrameFacts
<1> QED  BY <1>6, <1>7, LoadableIs

LEMMA EnterAgain ==
    ASSUME Given, Goes(stack, loaded, modules, decls, res), NEW p, Coming(p), Canonical(p) \in Range(loaded)
    PROVE  Goes(stack, loaded, modules, decls, "back")
<1>1. stack # <<>>
  BY DEF Coming
<1> QED  BY <1>1 DEF Goes, StageOK, Coming

LEMMA EnterStd ==
    ASSUME Given, Goes(stack, loaded, modules, decls, res), NEW p, Coming(p), IsStd(p),
           Canonical(p) \notin Range(loaded) \cup Keys(stack)
    PROVE  Goes(stack, Append(loaded, Canonical(p)),
                IF Named(modules, p[2]) THEN modules ELSE Append(modules, p[2]), decls, "back")
<1> DEFINE k == Canonical(p)
           S == Range(loaded)
           T == S \cup {k}
           lo == Append(loaded, k)
           mo == IF Named(modules, p[2]) THEN modules ELSE Append(modules, p[2])
<1>1. /\ StackOK(stack, S) /\ LoadedOK(S) /\ ModulesOK(modules, S \cup Keys(stack))
      /\ DeclsOK(decls, S) /\ loaded \in Seq(Path) /\ modules \in Seq(STRING)
  BY DEF Goes, ModulesOK
<1>2. /\ Good(p) /\ k \in Program /\ k \in Places /\ k \in Path /\ IsStd(k)
      /\ ModuleOf(k) = p[2] /\ p[2] \in Std
  BY GoodFacts, ModuleIs, CanonicalOnce, ProgramIs DEF Coming, Given
<1>3. p[2] # "main" /\ p[2] \in STRING
  BY <1>2, ImportsAssumption
<1>4. \A i \in 1 .. Len(modules) : modules[i] # p[2]
  <2> SUFFICES ASSUME NEW i \in 1 .. Len(modules), modules[i] = p[2] PROVE FALSE
    OBVIOUS
  <2>1. PICK l \in S \cup Keys(stack) : ModuleOf(l) = p[2]
    BY <1>1 DEF ModulesOK
  <2>2. l \in Places /\ (~IsStd(l) => ~NoText(l))
    BY <1>1, <2>1, SeenIs
  <2>3. Good(l) /\ Canonical(l) = l
    BY <2>2, PlacesGood DEF Given
  <2>4. IsStd(l) /\ l[2] = p[2]
    BY <1>2, <2>1, <2>2, <2>3, ModuleIs
  <2>5. \A q : Good(q) /\ IsStd(q) => q = <<<<"std">>, q[2]>>
    BY PathParts DEF Good, IsStd
  <2>6. l = p
    BY <1>2, <2>3, <2>4, <2>5
  <2> QED  BY <2>1, <2>3, <2>6
<1>5. mo = IF ModuleOf(k) = "main" THEN modules ELSE Append(modules, ModuleOf(k))
  <2>1. DOMAIN modules = 1 .. Len(modules)
    BY <1>1, LenProperties
  <2>2. ~Named(modules, p[2])
    BY <1>4, <2>1 DEF Named
  <2> QED  BY <1>2, <1>3, <2>2
<1> HIDE DEF mo
<1>6. ModulesOK(mo, (S \cup Keys(stack)) \cup {k})
  BY <1>1, <1>2, <1>3, <1>4, <1>5, ModulesMore
<1>7. lo \in Seq(Path) /\ Range(lo) = T
  BY <1>1, <1>2, AppendFacts, RangeAppend
<1> HIDE DEF k, lo
<1>8. StackOK(stack, T)
  <2>1. \A i \in 1 .. Len(stack) : Key(stack[i]) \in Keys(stack) /\ Key(stack[i]) \notin S
    BY <1>1 DEF StackOK, FrameOK, Keys
  <2>2. \A i \in 1 .. Len(stack) : Key(stack[i]) \notin T
    BY <2>1 DEF k
  <2> QED  BY <1>1, <2>2, StackMoreLoaded
<1>9. LoadedOK(T)
  BY <1>1, <1>2, StdLoaded
<1>10. DeclsOK(decls, T)
  BY <1>1, <1>2 DEF DeclsOK
<1>11. StageOK(stack, T, "back")
  <2>1. stack # <<>>
    <3>1. proj.main = p => FALSE
      BY ProgramIs DEF Given
    <3> QED  BY <3>1 DEF Coming
  <2> QED  BY <2>1 DEF StageOK, Coming, k
<1>12. T \cup Keys(stack) = (S \cup Keys(stack)) \cup {k}
  OBVIOUS
<1> HIDE DEF T, S
<1> QED  BY <1>6, <1>7, <1>8, <1>9, <1>10, <1>11, <1>12 DEF Goes, k, lo, mo

LEMMA EnterUnreadable ==
    ASSUME Given, NEW p, Coming(p), ~IsStd(p), NoText(p)
    PROVE  ~Loadable
<1>1. ~Whole(Canonical(p)) /\ ~IsStd(Canonical(p)) /\ Canonical(p) \in Program
  BY ModuleIs DEF Coming, Whole
<1> QED  BY <1>1, LoadableIs

LEMMA EnterNameless ==
    ASSUME Given, NEW p, Coming(p), ~IsStd(p), OwnModule(Text(p)) = "main", Canonical(p) # Canonical(proj.main)
    PROVE  ~Loadable
<1>1. Nameless(Canonical(p)) /\ ~IsStd(Canonical(p)) /\ Canonical(p) \in Program
  BY ModuleIs DEF Coming
<1> QED  BY <1>1, LoadableIs

LEMMA EnterTwice ==
    ASSUME Given, Goes(stack, loaded, modules, decls, res), NEW p, Coming(p), ~IsStd(p),
           Canonical(p) \notin Range(loaded) \cup Keys(stack), Named(modules, OwnModule(Text(p)))
    PROVE  ~Loadable
<1> DEFINE A == Range(loaded) \cup Keys(stack)
           m == OwnModule(Text(p))
<1>1. /\ StackOK(stack, Range(loaded)) /\ LoadedOK(Range(loaded)) /\ modules \in Seq(STRING)
      /\ \A i \in 1 .. Len(modules) : \E k \in A : ModuleOf(k) = modules[i]
  BY DEF Goes, ModulesOK
<1>2. DOMAIN modules = 1 .. Len(modules)
  BY <1>1, LenProperties
<1>3. PICK l \in A : ModuleOf(l) = m
  BY <1>1, <1>2 DEF Named
<1>4. l \in Program
  BY <1>1, <1>3, SeenIs
<1>5. ModuleOf(Canonical(p)) = m /\ Canonical(p) \in Program
  BY ModuleIs DEF Coming
<1>6. l # Canonical(p)
  BY <1>3
<1> QED  BY <1>3, <1>4, <1>5, <1>6, LoadableIs

LEMMA EnterFile ==
    ASSUME Given, Goes(stack, loaded, modules, decls, res), NEW p, Coming(p), ~IsStd(p), ~NoText(p),
           Canonical(p) \notin Range(loaded) \cup Keys(stack),
           OwnModule(Text(p)) = "main" => Canonical(p) = Canonical(proj.main),
           OwnModule(Text(p)) # "main" => ~Named(modules, OwnModule(Text(p)))
    PROVE  Goes(Append(stack, [path |-> p, i |-> 1, to |-> NoFile]), loaded,
                IF OwnModule(Text(p)) = "main" THEN modules ELSE Append(modules, OwnModule(Text(p))), decls, "next")
<1> DEFINE k == Canonical(p)
           S == Range(loaded)
           fr == [path |-> p, i |-> 1, to |-> NoFile]
           tt == Append(stack, fr)
           m == OwnModule(Text(p))
           mo == IF m = "main" THEN modules ELSE Append(modules, m)
<1>1. /\ StackOK(stack, S) /\ LoadedOK(S) /\ ModulesOK(modules, S \cup Keys(stack))
      /\ DeclsOK(decls, S) /\ loaded \in Seq(Path) /\ modules \in Seq(STRING)
  BY DEF Goes, ModulesOK
<1>2. /\ Good(p) /\ p \in Path /\ k \in Program /\ k \in Places /\ k \notin S \cup Keys(stack)
      /\ ~IsStd(k) /\ ~Nameless(k) /\ ModuleOf(k) = m /\ m \in STRING
  BY GoodFacts, ModuleIs DEF Coming, Given
<1>3. fr \in Frame /\ fr.path = p /\ fr.i = 1
  BY <1>2 DEF Frame
<1>4. Key(fr) = k
  BY <1>3 DEF Key
<1> HIDE DEF fr
<1>5. FrameOK(fr, S)
  <2>1. ~Leaf(p)
    BY DEF Leaf
  <2>2. Len(Imps(fr)) \in Nat
    BY <1>3, TextIs DEF Imps, Given
  <2>3. 1 \in 1 .. Len(Imps(fr)) + 1 /\ \A j \in 1 .. 1 - 1 : FALSE
    BY <2>2
  <2> HIDE DEF k, S
  <2>4. fr.i \in 1 .. Len(Imps(fr)) + 1 /\ \A j \in 1 .. fr.i - 1 : Done(Imps(fr)[j], fr.path, S)
    BY <1>3, <2>3
  <2>5. Key(fr) \notin S
    BY <1>2, <1>4
  <2> QED  BY <1>2, <1>3, <1>4, <2>1, <2>4, <2>5 DEF FrameOK
<1>6. StackOK(tt, S) /\ Keys(tt) = Keys(stack) \cup {k} /\ tt # <<>>
  <2>1. \A i \in 1 .. Len(stack) : Key(stack[i]) # Key(fr)
    BY <1>2, <1>4 DEF Keys
  <2>2. stack = <<>> => fr.path = proj.main
    BY <1>3 DEF Coming
  <2>3. stack # <<>> => Waiting(Last(stack)) /\ Canonical(Last(stack).to) = Key(fr)
    BY <1>4 DEF Coming
  <2> HIDE DEF S, k
  <2> QED  BY <1>1, <1>3, <1>4, <1>5, <2>1, <2>2, <2>3, StackPushed
<1>7. ModulesOK(mo, (S \cup Keys(stack)) \cup {k})
  <2>1. ModuleOf(k) # "main" => \A i \in 1 .. Len(modules) : modules[i] # ModuleOf(k)
    <3>1. DOMAIN modules = 1 .. Len(modules)
      BY <1>1, LenProperties
    <3> QED  BY <1>2, <3>1 DEF Named
  <2>2. mo = IF ModuleOf(k) = "main" THEN modules ELSE Append(modules, ModuleOf(k))
    BY <1>2
  <2>3. ModuleOf(k) \in STRING
    BY <1>2
  <2> HIDE DEF mo, m, k, S
  <2> QED  BY <1>1, <1>2, <2>1, <2>2, <2>3, ModulesMore
<1>8. S \cup Keys(tt) = (S \cup Keys(stack)) \cup {k}
  BY <1>6
<1>9. StageOK(tt, S, "next")
  BY <1>6 DEF StageOK
<1> HIDE DEF tt, mo, S
<1>10. Goes(tt, loaded, mo, decls, "next")
  BY <1>1, <1>6, <1>7, <1>8, <1>9 DEF Goes, S
<1> QED  BY <1>10 DEF tt, mo, fr

LEMMA EnterKeeps ==
    ASSUME Given, Goes(stack, loaded, modules, decls, res), NEW p, Coming(p), Enter(p)
    PROVE  Holds(stack', loaded', modules', decls', res')
<1> DEFINE k == Canonical(p)
           own == OwnModule(Text(p))
           c == k \in Keys(stack)
           l == k \in Range(loaded)
<1>1. (Contains(Chain, k) <=> c) /\ (Contains(loaded, k) <=> l)
  <2>1. StackOK(stack, Range(loaded)) /\ loaded \in Seq(Path)
    BY DEF Goes
  <2>2. Contains(Chain, k) <=> c
    BY <2>1, InChain
  <2>3. Contains(loaded, k) <=> l
    BY <2>1, InLoaded
  <2> QED  BY <2>2, <2>3
<1>2. CASE c
  <2>1. res' = "cycle"
    BY <1>1, <1>2 DEF Enter, Fail
  <2> QED  BY <1>2, <2>1, EnterCycle DEF Holds, Refusals
<1>3. CASE ~c /\ l
  <2>1. UNCHANGED <<stack, loaded, modules, decls>> /\ res' = "back"
    BY <1>1, <1>3 DEF Enter
  <2> QED  BY <1>3, <2>1, EnterAgain DEF Holds
<1>4. CASE ~c /\ ~l /\ IsStd(p)
  <2>1. /\ stack' = stack /\ loaded' = Append(loaded, k) /\ decls' = decls /\ res' = "back"
        /\ modules' = IF Named(modules, p[2]) THEN modules ELSE Append(modules, p[2])
    BY <1>1, <1>4 DEF Enter
  <2>2. Goes(stack, Append(loaded, k), IF Named(modules, p[2]) THEN modules ELSE Append(modules, p[2]), decls, "back")
    BY <1>4, EnterStd
  <2> QED  BY <2>1, <2>2 DEF Holds
<1>5. CASE ~c /\ ~l /\ ~IsStd(p) /\ NoText(p)
  <2>1. res' = "unreadable"
    BY <1>1, <1>5 DEF Enter, Fail
  <2> QED  BY <1>5, <2>1, EnterUnreadable DEF Holds, Refusals
<1>6. CASE ~c /\ ~l /\ ~IsStd(p) /\ ~NoText(p) /\ own = "main" /\ k # Canonical(proj.main)
  <2>1. res' = "nameless"
    BY <1>1, <1>6 DEF Enter, Fail
  <2> QED  BY <1>6, <2>1, EnterNameless DEF Holds, Refusals
<1>7. CASE ~c /\ ~l /\ ~IsStd(p) /\ ~NoText(p) /\ own # "main" /\ Named(modules, own)
  <2>1. res' = "twice"
    BY <1>1, <1>7 DEF Enter, Fail
  <2> QED  BY <1>7, <2>1, EnterTwice DEF Holds, Refusals
<1>8. CASE ~c /\ ~l /\ ~IsStd(p) /\ ~NoText(p) /\ ~(own = "main" /\ k # Canonical(proj.main)) /\ ~(own # "main" /\ Named(modules, own))
  <2>1. /\ stack' = Append(stack, [path |-> p, i |-> 1, to |-> NoFile])
        /\ modules' = (IF own = "main" THEN modules ELSE Append(modules, own))
        /\ loaded' = loaded /\ decls' = decls /\ res' = "next"
    BY <1>1, <1>8 DEF Enter
  <2>2. Goes(Append(stack, [path |-> p, i |-> 1, to |-> NoFile]), loaded,
             IF own = "main" THEN modules ELSE Append(modules, own), decls, "next")
    BY <1>8, EnterFile
  <2> QED  BY <2>1, <2>2 DEF Holds
<1> QED  BY <1>2, <1>3, <1>4, <1>5, <1>6, <1>7, <1>8

\* The frame on top, of a loader that goes on.
LEMMA TopIs ==
    ASSUME Given, Goes(stack, loaded, modules, decls, res), stack # <<>>
    PROVE  /\ Top \in Frame /\ FrameOK(Top, Range(loaded)) /\ Top = Last(stack)
           /\ Len(stack) \in Nat \ {0} /\ stack \in Seq(Frame) /\ StackOK(stack, Range(loaded))
           /\ Top.path \in Path /\ Top.i \in Nat /\ Top.to \in Path \cup {NoFile}
           /\ Import = Imps(Top)[Top.i] /\ Text(Top.path).imports = Imps(Top) /\ Len(Imps(Top)) \in Nat
<1>1. stack \in Seq(Frame) /\ StackOK(stack, Range(loaded))
  BY DEF Goes, StackOK
<1>2. Len(stack) \in Nat \ {0} /\ Top = Last(stack)
  BY <1>1, FrontFacts DEF Top, Last
<1>3. Top \in Frame /\ FrameOK(Top, Range(loaded))
  BY <1>1, <1>2, ElementOfSeq DEF Top, StackOK
<1>4. Top.path \in Path /\ Top.i \in Nat /\ Top.to \in Path \cup {NoFile}
  BY <1>3 DEF Frame
<1> QED  BY <1>1, <1>2, <1>3, <1>4, FrameFacts DEF Import, Imps

\* The step puts fr on top.
LEMMA GoOn ==
    ASSUME Given, Goes(stack, loaded, modules, decls, res), stack # <<>>,
           NEW fr \in Frame, fr.path = Top.path, FrameOK(fr, Range(loaded)),
           NEW re \in {"next", "enter"}, re = "enter" => Waiting(fr),
           stack' = [stack EXCEPT ![Len(stack)] = fr], UNCHANGED <<loaded, modules, decls>>, res' = re
    PROVE  Goes(stack', loaded', modules', decls', res')
<1> DEFINE S == Range(loaded)
           tt == [stack EXCEPT ![Len(stack)] = fr]
<1>1. StackOK(tt, S) /\ Keys(tt) = Keys(stack) /\ tt # <<>> /\ Last(tt) = fr
  <2>1. StackOK(stack, S) /\ fr.path = Last(stack).path /\ FrameOK(fr, S)
    BY TopIs
  <2> HIDE DEF S
  <2> QED  BY <2>1, TopChanged
<1>2. StageOK(tt, S, re)
  <2> HIDE DEF tt
  <2> QED  BY <1>1 DEF StageOK
<1>3. Goes(tt, loaded, modules, decls, re)
  <2> HIDE DEF tt
  <2> QED  BY <1>1, <1>2 DEF Goes
<1> QED  BY <1>3

LEMMA FollowKeeps ==
    ASSUME Given, Goes(stack, loaded, modules, decls, res), Follow
    PROVE  Holds(stack', loaded', modules', decls', res')
<1> DEFINE to == Resolve(Import, Top.path)
           S == Range(loaded)
<1>1. res = "next" /\ stack # <<>>
  BY DEF Follow, Goes, StageOK
<1>2. /\ Top \in Frame /\ FrameOK(Top, S) /\ Len(stack) \in Nat \ {0} /\ stack \in Seq(Frame)
      /\ Top.path \in Path /\ Top.i \in Nat /\ Import = Imps(Top)[Top.i]
      /\ Text(Top.path).imports = Imps(Top) /\ Len(Imps(Top)) \in Nat
  BY <1>1, TopIs
<1>3. Top.i \in 1 .. Len(Imps(Top))
  BY <1>2 DEF Follow, FrameOK
<1>4. /\ to = NoFile => NoFile \in Targets(Key(Top))
      /\ to # NoFile => Good(to)
      /\ Key(Top) \in Program /\ ~IsStd(Key(Top))
  BY <1>2, <1>3, FrameFacts
<1>5. CASE to = NoFile
  <2>1. res' = "missing"
    BY <1>5 DEF Follow, Fail
  <2>2. ~Loadable
    <3>1. ~Whole(Key(Top))
      BY <1>4, <1>5 DEF Whole
    <3> QED  BY <1>4, <3>1, LoadableIs
  <2> QED  BY <2>1, <2>2 DEF Holds, Refusals
<1>6. CASE to # NoFile
  <2> DEFINE fr == [Top EXCEPT !.to = to]
  <2>1. to \in Path
    BY <1>4, <1>6 DEF Good
  <2>2. stack' = [stack EXCEPT ![Len(stack)].to = to] /\ res' = "enter" /\ UNCHANGED <<loaded, modules, decls>>
    BY <1>6 DEF Follow
  <2> HIDE DEF to
  <2>3. fr \in Frame /\ fr.path = Top.path /\ fr.i = Top.i /\ fr.to = to
    BY <1>2, <2>1 DEF Frame
  <2>4. stack' = [stack EXCEPT ![Len(stack)] = fr]
    BY <2>2 DEF Top
  <2> HIDE DEF fr
  <2>5. FrameOK(fr, S)
    BY <1>2, <2>3 DEF FrameOK, Imps, Key
  <2>6. Waiting(fr)
    <3>1. Imps(fr) = Imps(Top)
      BY <2>3 DEF Imps
    <3> QED  BY <1>2, <1>3, <1>6, <2>3, <3>1 DEF Waiting, to
  <2> HIDE DEF S
  <2>7. Goes(stack', loaded', modules', decls', res')
    BY <1>1, <2>2, <2>3, <2>4, <2>5, <2>6, GoOn DEF S
  <2> QED  BY <2>7 DEF Holds
<1> QED  BY <1>5, <1>6

LEMMA ComeBackKeeps ==
    ASSUME Given, Goes(stack, loaded, modules, decls, res), ComeBack
    PROVE  Holds(stack', loaded', modules', decls', res')
<1> DEFINE S == Range(loaded)
           fr == [Top EXCEPT !.i = @ + 1]
<1>1. res = "back" /\ stack # <<>>
  BY DEF ComeBack, Goes, StageOK
<1>2. /\ Top \in Frame /\ FrameOK(Top, S) /\ Top = Last(stack) /\ Len(stack) \in Nat \ {0}
      /\ stack \in Seq(Frame) /\ Top.i \in Nat /\ Len(Imps(Top)) \in Nat
  BY <1>1, TopIs
<1>3. Waiting(Top) /\ Canonical(Top.to) \in S
  BY <1>1, <1>2 DEF Goes, StageOK
<1>4. fr \in Frame /\ fr.path = Top.path /\ fr.i = Top.i + 1
  BY <1>2 DEF Frame
<1>5. stack' = [stack EXCEPT ![Len(stack)] = fr] /\ res' = "next" /\ UNCHANGED <<loaded, modules, decls>>
  BY DEF ComeBack, Top
<1> HIDE DEF fr
<1>6. Imps(fr) = Imps(Top) /\ Key(fr) = Key(Top)
  BY <1>4 DEF Imps, Key
<1>7. FrameOK(fr, S)
  <2>1. fr.i \in 1 .. Len(Imps(fr)) + 1
    BY <1>2, <1>3, <1>4, <1>6 DEF Waiting, FrameOK
  <2>2. ASSUME NEW j \in 1 .. fr.i - 1 PROVE Done(Imps(fr)[j], fr.path, S)
    <3>1. j = Top.i \/ j \in 1 .. Top.i - 1
      BY <1>2, <1>4
    <3>2. CASE j = Top.i
      BY <1>3, <1>4, <1>6, <3>2 DEF Done, Waiting
    <3>3. CASE j \in 1 .. Top.i - 1
      BY <1>2, <1>4, <1>6, <3>3 DEF FrameOK
    <3> QED  BY <3>1, <3>2, <3>3
  <2> QED  BY <1>2, <1>4, <1>6, <2>1, <2>2 DEF FrameOK
<1> HIDE DEF S
<1>8. Goes(stack', loaded', modules', decls', res')
  BY <1>1, <1>4, <1>5, <1>7, GoOn DEF S
<1> QED  BY <1>8 DEF Holds

LEMMA FinishKeeps ==
    ASSUME Given, Goes(stack, loaded, modules, decls, res), Finish
    PROVE  Holds(stack', loaded', modules', decls', res')
<1> DEFINE S == Range(loaded)
           k == Key(Top)
           T == S \cup {k}
           ff == Front(stack)
           lo == Append(loaded, k)
           de == Append(decls, k)
           re == IF Len(stack) = 1 THEN "loaded" ELSE "back"
<1>1. res = "next" /\ stack # <<>>
  BY DEF Finish, Goes, StageOK
<1>2. /\ Top \in Frame /\ FrameOK(Top, S) /\ Top = Last(stack) /\ Len(stack) \in Nat \ {0}
      /\ stack \in Seq(Frame) /\ StackOK(stack, S) /\ Top.i \in Nat /\ Len(Imps(Top)) \in Nat
      /\ Text(Top.path).imports = Imps(Top)
  BY <1>1, TopIs
<1>3. /\ LoadedOK(S) /\ ModulesOK(modules, S \cup Keys(stack)) /\ DeclsOK(decls, S)
      /\ loaded \in Seq(Path) /\ decls \in Seq(Path)
  BY DEF Goes, DeclsOK
<1>4. /\ stack' = ff /\ loaded' = lo /\ decls' = de /\ modules' = modules /\ res' = re
      /\ Top.i > Len(Imps(Top))
  BY <1>2 DEF Finish, Placed, Key
<1>5. k \in Program /\ k \in Places /\ k \in Path /\ k \notin S /\ ~IsStd(k) /\ ~Nameless(k)
  BY <1>2, FrameFacts, CanonicalOnce DEF FrameOK, Key
<1>6. Good(Top.path) /\ ~Leaf(Top.path)
  BY <1>2 DEF FrameOK
<1>7. \A j \in 1 .. Len(Text(Top.path).imports) : Done(Text(Top.path).imports[j], Top.path, S)
  BY <1>2, <1>4 DEF FrameOK
<1>8. NoFile \notin Targets(k) /\ Follows(k) \subseteq S
  BY <1>6, <1>7, AllLead DEF Given, Key
<1>9. Whole(k)
  BY <1>6, <1>8, ModuleIs DEF Whole, Leaf, Key
<1>10. LoadedOK(T) /\ Under(k) \subseteq S
  <2> HIDE DEF S, k
  <2> QED  BY <1>3, <1>5, <1>8, <1>9, FileLoaded
<1>11. /\ StackOK(ff, S) /\ Keys(ff) \cup {k} = Keys(stack) /\ k \notin Keys(ff)
       /\ Len(stack) = 1 => ff = <<>> /\ k = Canonical(proj.main)
       /\ Len(stack) # 1 => ff # <<>> /\ Waiting(Last(ff)) /\ Canonical(Last(ff).to) = k
  BY <1>1, <1>2, StackPopped
<1>12. StackOK(ff, T)
  <2>1. \A i \in 1 .. Len(ff) : Key(ff[i]) \in Keys(ff) /\ Key(ff[i]) \notin S
    BY <1>11 DEF StackOK, FrameOK, Keys
  <2>2. \A i \in 1 .. Len(ff) : Key(ff[i]) \notin T
    <3> HIDE DEF ff, k, S
    <3> QED  BY <1>11, <2>1
  <2> HIDE DEF ff, k, S
  <2> QED  BY <1>11, <2>2, StackMoreLoaded
<1> HIDE DEF k, ff
<1>13. lo \in Seq(Path) /\ Range(lo) = T
  BY <1>3, <1>5, AppendFacts, RangeAppend
<1>14. DeclsOK(de, T)
  <2>1. /\ Distinct(decls) /\ Range(decls) = {l \in S : ~IsStd(l)} /\ Len(decls) \in Nat
        /\ DOMAIN decls = 1 .. Len(decls)
        /\ \A i \in 1 .. Len(decls) : \A l \in Under(decls[i]) : IsStd(l) \/ \E j \in 1 .. i - 1 : decls[j] = l
    BY <1>3, LenProperties DEF DeclsOK
  <2>2. \A i \in 1 .. Len(decls) : decls[i] # k
    BY <1>5, <2>1 DEF Range
  <2>3. /\ de \in Seq(Path) /\ Distinct(de) /\ Len(de) = Len(decls) + 1 /\ de[Len(decls) + 1] = k
        /\ \A i \in 1 .. Len(decls) : de[i] = decls[i]
    BY <1>3, <1>5, <2>1, <2>2, AppendFacts, DistinctAppend
  <2>4. Range(de) = {l \in T : ~IsStd(l)}
    <3>1. Range(de) = Range(decls) \cup {k}
      BY <1>3, <1>5, RangeAppend
    <3> HIDE DEF de, S
    <3> QED  BY <1>5, <2>1, <3>1
  <2> HIDE DEF de, T, S
  <2>5. ASSUME NEW i \in 1 .. Len(de), NEW l \in Under(de[i]) PROVE IsStd(l) \/ \E j \in 1 .. i - 1 : de[j] = l
    <3>1. CASE i \in 1 .. Len(decls)
      <4>1. IsStd(l) \/ \E j \in 1 .. i - 1 : decls[j] = l
        BY <2>1, <2>3, <2>5, <3>1
      <4>2. \A j \in 1 .. i - 1 : de[j] = decls[j]
        BY <2>1, <2>3, <3>1
      <4> QED  BY <4>1, <4>2
    <3>2. CASE i = Len(decls) + 1
      <4>1. l \in S
        BY <1>10, <2>3, <2>5, <3>2
      <4>2. IsStd(l) \/ l \in Range(decls)
        BY <2>1, <4>1
      <4>3. IsStd(l) \/ \E j \in 1 .. Len(decls) : decls[j] = l
        BY <2>1, <4>2 DEF Range
      <4>4. i - 1 = Len(decls)
        BY <2>1, <3>2
      <4> QED  BY <2>3, <4>3, <4>4
    <3>3. i \in 1 .. Len(decls) \/ i = Len(decls) + 1
      BY <2>1, <2>3
    <3> QED  BY <3>1, <3>2, <3>3
  <2> QED  BY <2>3, <2>4, <2>5 DEF DeclsOK
<1>15. T \cup Keys(ff) = S \cup Keys(stack)
  BY <1>11
<1>16. StageOK(ff, T, re)
  <2>1. CASE Len(stack) = 1
    BY <1>11, <2>1 DEF StageOK
  <2>2. CASE Len(stack) # 1
    BY <1>11, <2>2 DEF StageOK
  <2> QED  BY <2>1, <2>2
<1>17. re \in {"start", "next", "enter", "back", "loaded"}
  OBVIOUS
<1> HIDE DEF T, S, lo, de, re
<1>18. Goes(ff, lo, modules, de, re)
  BY <1>3, <1>10, <1>12, <1>13, <1>14, <1>15, <1>16, <1>17 DEF Goes
<1> QED  BY <1>4, <1>18 DEF Holds

(***************************************************************************)
(* The declared dependencies: of each module the first block that has any. *)
(***************************************************************************)
Block == [n : STRING, on : Seq(STRING)]
FirstStep(ds, ms, f, i) ==
  IF i = 0 THEN ds
  ELSE IF ms[i].on = <<>> \/ \E j \in DOMAIN f[i - 1] : f[i - 1][j].n = ms[i].n THEN f[i - 1]
  ELSE Append(f[i - 1], ms[i])
Firsts(ds, ms, f, n) == f = [i \in 0 .. n |-> FirstStep(ds, ms, f, i)]

LEMMA FirstsExist == ASSUME NEW ds, NEW ms PROVE \A n \in Nat : \E f : Firsts(ds, ms, f, n)
<1> DEFINE T == {n \in Nat : \E f : Firsts(ds, ms, f, n)}
<1>1. 0 \in T
  <2> DEFINE f == [i \in 0 .. 0 |-> ds]
  <2>1. Firsts(ds, ms, f, 0)
    BY DEF Firsts, FirstStep
  <2> QED  BY <2>1
<1>2. ASSUME NEW n \in T PROVE n + 1 \in T
  <2>1. n \in Nat
    OBVIOUS
  <2>2. PICK f : Firsts(ds, ms, f, n)
    OBVIOUS
  <2> DEFINE g == [i \in 0 .. n + 1 |-> IF i = n + 1 THEN FirstStep(ds, ms, f, i) ELSE f[i]]
  <2>3. ASSUME NEW i \in 0 .. n + 1 PROVE g[i] = FirstStep(ds, ms, g, i)
    <3>1. i # 0 => i - 1 \in 0 .. n /\ g[i - 1] = f[i - 1]
      BY <2>1
    <3>2. FirstStep(ds, ms, g, i) = FirstStep(ds, ms, f, i)
      <4> HIDE DEF g
      <4> QED  BY <3>1 DEF FirstStep
    <3>3. i # n + 1 => i \in 0 .. n /\ f[i] = FirstStep(ds, ms, f, i)
      BY <2>1, <2>2 DEF Firsts
    <3> QED  BY <3>2, <3>3
  <2>4. g = [i \in 0 .. n + 1 |-> FirstStep(ds, ms, g, i)]
    <3>1. g = [i \in 0 .. n + 1 |-> g[i]]
      OBVIOUS
    <3> HIDE DEF g
    <3> QED  BY <2>3, <3>1
  <2>5. Firsts(ds, ms, g, n + 1)
    BY <2>4 DEF Firsts
  <2> QED  BY <2>1, <2>5
<1> HIDE DEF T
<1>3. T = Nat
  <2>1. T \subseteq Nat
    BY DEF T
  <2> QED  BY <1>1, <1>2, <2>1, SetInduction
<1> QED  BY <1>3 DEF T

\* A list of declared dependencies names a module once.
Once(ds) ==
  /\ ds \in Seq(Block)
  /\ \A i, j \in 1 .. Len(ds) : ds[i].n = ds[j].n => i = j
  /\ \A i \in 1 .. Len(ds) : ds[i].on # <<>>
Says(ds, b) == b.on = <<>> \/ \E i \in 1 .. Len(ds) : ds[i].n = b.n
\* After k blocks of a file.
Taken(ds, ms, r, k) ==
  /\ Once(r)
  /\ \A i \in 1 .. Len(r) : r[i] \in Range(ds) \cup Range(ms)
  /\ \A i \in 1 .. Len(ds) : Says(r, ds[i])
  /\ \A i \in 1 .. k : Says(r, ms[i])

LEMMA TakenMore ==
    ASSUME NEW ds, Once(ds), NEW ms \in Seq(Block), NEW k \in 1 .. Len(ms), NEW r, Taken(ds, ms, r, k - 1)
    PROVE  Taken(ds, ms, IF ms[k].on = <<>> \/ \E j \in DOMAIN r : r[j].n = ms[k].n THEN r ELSE Append(r, ms[k]), k)
<1>1. /\ r \in Seq(Block) /\ DOMAIN r = 1 .. Len(r) /\ Len(r) \in Nat /\ ms[k] \in Block
      /\ Len(ms) \in Nat /\ DOMAIN ms = 1 .. Len(ms)
  BY LenProperties, ElementOfSeq DEF Taken, Once
<1>2. \A i \in 1 .. k : i = k \/ i \in 1 .. k - 1
  BY <1>1
<1>3. CASE ms[k].on = <<>> \/ \E j \in DOMAIN r : r[j].n = ms[k].n
  <2>1. Says(r, ms[k])
    BY <1>1, <1>3 DEF Says
  <2> QED  BY <1>2, <1>3, <2>1 DEF Taken
<1>4. CASE ~(ms[k].on = <<>> \/ \E j \in DOMAIN r : r[j].n = ms[k].n)
  <2> DEFINE s == Append(r, ms[k])
  <2>1. /\ s \in Seq(Block) /\ Len(s) = Len(r) + 1 /\ s[Len(r) + 1] = ms[k]
        /\ \A i \in 1 .. Len(r) : s[i] = r[i]
    BY <1>1, AppendFacts
  <2> HIDE DEF s
  <2>2. \A i \in 1 .. Len(s) : i = Len(s) \/ i \in 1 .. Len(r)
    BY <1>1, <2>1
  <2>3. \A i \in 1 .. Len(r) : r[i].n # ms[k].n
    BY <1>1, <1>4
  <2>4. \A i, j \in 1 .. Len(s) : s[i].n = s[j].n => i = j
    <3>1. \A i, j \in 1 .. Len(r) : r[i].n = r[j].n => i = j
      BY DEF Taken, Once
    <3> QED  BY <2>1, <2>2, <2>3, <3>1
  <2>5. Once(s)
    BY <1>4, <2>1, <2>2, <2>4 DEF Taken, Once
  <2>6. ms[k] \in Range(ms)
    BY <1>1 DEF Range
  <2>7. \A i \in 1 .. Len(s) : s[i] \in Range(ds) \cup Range(ms)
    BY <2>1, <2>2, <2>6 DEF Taken
  <2>8. \A b : Says(r, b) => Says(s, b)
    <3>1. \A i \in 1 .. Len(r) : i \in 1 .. Len(s)
      BY <1>1, <2>1
    <3> QED  BY <2>1, <3>1 DEF Says
  <2>9. Says(s, ms[k])
    <3>1. Len(s) \in 1 .. Len(s)
      BY <1>1, <2>1
    <3> QED  BY <2>1, <3>1 DEF Says
  <2>10. Taken(ds, ms, s, k)
    BY <1>2, <2>5, <2>7, <2>8, <2>9 DEF Taken
  <2> QED  BY <1>4, <2>10 DEF s
<1> QED  BY <1>3, <1>4

LEMMA FirstOfIs ==
    ASSUME NEW ds, Once(ds), NEW ms \in Seq(Block)
    PROVE  Taken(ds, ms, FirstOf(ds, ms), Len(ms))
<1> DEFINE n == Len(ms)
           f == CHOOSE g : Firsts(ds, ms, g, n)
<1>1. n \in Nat
  BY LenProperties
<1>2. FirstOf(ds, ms) = f[n]
  BY DEF FirstOf, Firsts, FirstStep
<1>3. Firsts(ds, ms, f, n)
  BY <1>1, FirstsExist
<1> HIDE DEF f
<1>4. \A i \in 0 .. n : f[i] = FirstStep(ds, ms, f, i)
  BY <1>3 DEF Firsts
<1> DEFINE T == {k \in Nat : k <= n => Taken(ds, ms, f[k], k)}
<1>5. 0 \in T
  <2>1. f[0] = ds
    BY <1>1, <1>4 DEF FirstStep
  <2>2. \A i \in 1 .. Len(ds) : ds[i] \in Range(ds) /\ Says(ds, ds[i])
    <3>1. DOMAIN ds = 1 .. Len(ds)
      BY LenProperties DEF Once
    <3> QED  BY <3>1 DEF Range, Says
  <2> QED  BY <2>1, <2>2 DEF Taken
<1>6. ASSUME NEW k \in T PROVE k + 1 \in T
  <2> SUFFICES ASSUME k + 1 <= n PROVE Taken(ds, ms, f[k + 1], k + 1)
    OBVIOUS
  <2>1. k + 1 \in 1 .. n /\ k + 1 \in 0 .. n /\ (k + 1) - 1 = k /\ k + 1 # 0 /\ Taken(ds, ms, f[k], k)
    BY <1>1
  <2>2. f[k + 1] = IF ms[k + 1].on = <<>> \/ \E j \in DOMAIN f[k] : f[k][j].n = ms[k + 1].n THEN f[k]
                   ELSE Append(f[k], ms[k + 1])
    BY <1>4, <2>1 DEF FirstStep
  <2> HIDE DEF T
  <2>3. Taken(ds, ms, f[k], (k + 1) - 1)
    BY <2>1
  <2>4. k + 1 \in 1 .. Len(ms)
    BY <2>1
  <2> HIDE DEF n
  <2> QED  BY <2>2, <2>3, <2>4, TakenMore
<1> HIDE DEF T
<1>7. T = Nat
  <2>1. T \subseteq Nat
    BY DEF T
  <2> QED  BY <1>5, <1>6, <2>1, SetInduction
<1> QED  BY <1>1, <1>2, <1>7 DEF T

(***************************************************************************)
(* What is written down of the files: module, aliases, dependencies.       *)
(***************************************************************************)
Mods(k) == Range(Text(k).mods)

\* The module kept of a file is its own.
FilesOK(fm, A) == DOMAIN fm = A /\ \A k \in A : fm[k] = ModuleOf(k)

\* The aliases of the imports done are written down.
Aliased(al, imp, p) ==
  Renamed(imp) => \E x \in 1 .. Len(al) : al[x].n = imp.as /\ al[x].m = ModuleOf(Canonical(Resolve(imp, p)))
Alias == [n : STRING, m : STRING]
AliasesOK(al, st, S) ==
  /\ al \in Seq(Alias)
  /\ \A k \in S : ~IsStd(k) => \A j \in 1 .. Len(Text(k).imports) : Aliased(al, Text(k).imports[j], k)
  /\ \A i \in 1 .. Len(st) : \A j \in 1 .. st[i].i - 1 : Aliased(al, Imps(st[i])[j], st[i].path)

\* The dependencies are those that the blocks of the files seen declare.
DepsOK(ds, A) ==
  /\ Once(ds)
  /\ \A i \in 1 .. Len(ds) : \E k \in A : ~IsStd(k) /\ ds[i] \in Mods(k)
  /\ \A k \in A : ~IsStd(k) => \A b \in Mods(k) : Says(ds, b)

NamesOK(st, lo, fm, al, ds) ==
  /\ FilesOK(fm, Range(lo) \cup Keys(st))
  /\ AliasesOK(al, st, Range(lo))
  /\ DepsOK(ds, Range(lo) \cup Keys(st))

LEMMA FilesMore ==
    ASSUME NEW fm, NEW A, FilesOK(fm, A), NEW k, k \notin A, NEW m, m = ModuleOf(k)
    PROVE  FilesOK(Noted(fm, k, m), A \cup {k})
<1> DEFINE gm == Noted(fm, k, m)
<1>1. DOMAIN gm = A \cup {k}
  BY DEF FilesOK, Noted
<1>2. \A l \in A \cup {k} : gm[l] = IF l = k THEN m ELSE fm[l]
  BY DEF FilesOK, Noted
<1> HIDE DEF gm
<1>3. FilesOK(gm, A \cup {k})
  BY <1>1, <1>2 DEF FilesOK
<1> QED  BY <1>3 DEF gm

LEMMA ModsAre ==
    ASSUME proj \in Projects, NEW k, ~NoText(k)
    PROVE  Text(k).mods \in Seq(Block)
  BY TextIs, ProjectIs DEF Block

\* A library module has no block.
LEMMA DepsStd ==
    ASSUME NEW ds, NEW A, DepsOK(ds, A), NEW k, IsStd(k)
    PROVE  DepsOK(ds, A \cup {k})
<1>1. \A i \in 1 .. Len(ds) : \E l \in A \cup {k} : ~IsStd(l) /\ ds[i] \in Mods(l)
  BY DEF DepsOK
<1>2. \A l \in A \cup {k} : ~IsStd(l) => \A b \in Mods(l) : Says(ds, b)
  BY DEF DepsOK
<1> QED  BY <1>1, <1>2 DEF DepsOK

LEMMA DepsMore ==
    ASSUME NEW ds, NEW A, DepsOK(ds, A), NEW k, ~IsStd(k), Text(k).mods \in Seq(Block)
    PROVE  DepsOK(FirstOf(ds, Text(k).mods), A \cup {k})
<1> DEFINE ms == Text(k).mods
           r == FirstOf(ds, ms)
<1>1. Once(ds) /\ ds \in Seq(Block) /\ DOMAIN ds = 1 .. Len(ds)
  BY LenProperties DEF DepsOK, Once
<1>2. Taken(ds, ms, r, Len(ms))
  BY <1>1, FirstOfIs
<1>3. DOMAIN ms = 1 .. Len(ms) /\ Mods(k) = Range(ms)
  BY LenProperties DEF Mods
<1> HIDE DEF r, ms
<1>4. ASSUME NEW i \in 1 .. Len(r) PROVE \E l \in A \cup {k} : ~IsStd(l) /\ r[i] \in Mods(l)
  <2>1. r[i] \in Range(ds) \cup Range(ms)
    BY <1>2 DEF Taken
  <2>2. CASE r[i] \in Range(ds)
    <3>1. PICK x \in 1 .. Len(ds) : r[i] = ds[x]
      BY <1>1, <2>2 DEF Range
    <3> QED  BY <3>1 DEF DepsOK
  <2>3. CASE r[i] \in Range(ms)
    BY <1>3, <2>3
  <2> QED  BY <2>1, <2>2, <2>3
<1>5. ASSUME NEW l \in A \cup {k}, ~IsStd(l), NEW b \in Mods(l) PROVE Says(r, b)
  <2>1. CASE l \in A
    <3>1. Says(ds, b)
      BY <1>5, <2>1 DEF DepsOK
    <3>2. CASE b.on = <<>>
      BY <3>2 DEF Says
    <3>3. CASE b.on # <<>>
      <4>1. PICK x \in 1 .. Len(ds) : ds[x].n = b.n
        BY <3>1, <3>3 DEF Says
      <4>2. Says(r, ds[x]) /\ ds[x].on # <<>>
        BY <1>1, <1>2 DEF Taken, Once
      <4> QED  BY <4>1, <4>2 DEF Says
    <3> QED  BY <3>2, <3>3
  <2>2. CASE l = k
    <3>1. PICK x \in 1 .. Len(ms) : b = ms[x]
      BY <1>3, <1>5, <2>2 DEF Range
    <3> QED  BY <1>2, <3>1 DEF Taken
  <2> QED  BY <1>5, <2>1, <2>2
<1>6. DepsOK(r, A \cup {k})
  BY <1>2, <1>4, <1>5 DEF DepsOK, Taken
<1> QED  BY <1>6 DEF r, ms

LEMMA AliasesMore ==
    ASSUME NEW al \in Seq(Alias), NEW a \in Alias
    PROVE  LET bs == Append(al, a)
           IN  /\ bs \in Seq(Alias)
               /\ \A imp, p : Aliased(al, imp, p) => Aliased(bs, imp, p)
               /\ \A imp, p : /\ Renamed(imp) => a.n = imp.as /\ a.m = ModuleOf(Canonical(Resolve(imp, p)))
                              => Aliased(bs, imp, p)
<1> DEFINE bs == Append(al, a)
           n == Len(al)
<1>1. /\ n \in Nat /\ Len(bs) = n + 1 /\ bs \in Seq(Alias) /\ bs[n + 1] = a
      /\ \A i \in 1 .. n : bs[i] = al[i]
  <2>1. Len(al) \in Nat
    BY LenProperties
  <2> HIDE DEF Alias
  <2>2. /\ Append(al, a) \in Seq(Alias) /\ Len(Append(al, a)) = Len(al) + 1 /\ Append(al, a)[Len(al) + 1] = a
        /\ \A i \in 1 .. Len(al) : Append(al, a)[i] = al[i]
    BY AppendFacts
  <2> QED  BY <2>1, <2>2
<1> HIDE DEF bs, n
<1>2. n + 1 \in 1 .. Len(bs) /\ \A i \in 1 .. n : i \in 1 .. Len(bs)
  BY <1>1
<1>3. ASSUME NEW imp, NEW p, Aliased(al, imp, p) PROVE Aliased(bs, imp, p)
  <2> SUFFICES ASSUME Renamed(imp) PROVE \E x \in 1 .. Len(bs) : bs[x].n = imp.as /\ bs[x].m = ModuleOf(Canonical(Resolve(imp, p)))
    BY DEF Aliased
  <2>1. PICK x \in 1 .. n : al[x].n = imp.as /\ al[x].m = ModuleOf(Canonical(Resolve(imp, p)))
    BY <1>3 DEF Aliased, n
  <2> QED  BY <1>1, <1>2, <2>1
<1>4. ASSUME NEW imp, NEW p, Renamed(imp) => a.n = imp.as /\ a.m = ModuleOf(Canonical(Resolve(imp, p)))
      PROVE  Aliased(bs, imp, p)
  <2> SUFFICES ASSUME Renamed(imp) PROVE \E x \in 1 .. Len(bs) : bs[x].n = imp.as /\ bs[x].m = ModuleOf(Canonical(Resolve(imp, p)))
    BY DEF Aliased
  <2> QED  BY <1>1, <1>2, <1>4
<1>5. bs \in Seq(Alias)
  BY <1>1
<1> QED  BY <1>3, <1>4, <1>5 DEF bs

\* Who is entered is written down.
LEMMA NamesEnter ==
    ASSUME Given, Goes(stack, loaded, modules, decls, res), NEW p, Coming(p), Enter(p),
           NamesOK(stack, loaded, fileModule, aliases, deps)
    PROVE  res' \in Refusals \/ NamesOK(stack', loaded', fileModule', aliases', deps')
<1> DEFINE k == Canonical(p)
           own == OwnModule(Text(p))
           S == Range(loaded)
           A == S \cup Keys(stack)
           fr == [path |-> p, i |-> 1, to |-> NoFile]
<1>1. loaded \in Seq(Path) /\ StackOK(stack, S) /\ stack \in Seq(Frame)
  BY DEF Goes, StackOK
<1>2. (Contains(Chain, k) <=> k \in Keys(stack)) /\ (Contains(loaded, k) <=> k \in S)
  BY <1>1, InChain, InLoaded
<1>3. /\ Good(p) /\ p \in Path /\ k \in Path /\ (IsStd(k) <=> IsStd(p)) /\ Text(k) = Text(p) /\ NoText(k) = NoText(p)
      /\ IsStd(p) => ModuleOf(k) = p[2]
      /\ ~IsStd(p) => ModuleOf(k) = own
  BY GoodFacts, CanonicalOnce, ModuleIs, SameText DEF Coming, Given
<1>4. FilesOK(fileModule, A) /\ AliasesOK(aliases, stack, S) /\ DepsOK(deps, A)
  BY DEF NamesOK
<1> SUFFICES ASSUME res' \notin Refusals PROVE NamesOK(stack', loaded', fileModule', aliases', deps')
  OBVIOUS
<1>5. k \notin Keys(stack)
  BY <1>2 DEF Enter, Fail, Refusals
<1>6. CASE k \in S
  <2>1. UNCHANGED <<stack, loaded, fileModule, deps, aliases>>
    BY <1>2, <1>5, <1>6 DEF Enter
  <2> QED  BY <2>1
<1>7. CASE k \notin S /\ IsStd(p)
  <2>1. /\ fileModule' = Noted(fileModule, k, p[2]) /\ loaded' = Append(loaded, k)
        /\ UNCHANGED <<stack, deps, aliases>>
    BY <1>2, <1>5, <1>7 DEF Enter
  <2> HIDE DEF k
  <2>2. Range(loaded') = S \cup {k}
    BY <1>1, <1>3, <2>1, RangeAppend
  <2> HIDE DEF S
  <2>3. Range(loaded') \cup Keys(stack') = A \cup {k}
    BY <2>1, <2>2
  <2> HIDE DEF A
  <2>4. k \notin A
    BY <1>5, <1>7 DEF A
  <2>5. FilesOK(fileModule', A \cup {k})
    BY <1>3, <1>4, <1>7, <2>1, <2>4, FilesMore
  <2>6. DepsOK(deps', A \cup {k})
    BY <1>3, <1>4, <1>7, <2>1, DepsStd
  <2>7. AliasesOK(aliases', stack', S \cup {k})
    BY <1>3, <1>4, <1>7, <2>1 DEF AliasesOK
  <2> QED  BY <2>2, <2>3, <2>5, <2>6, <2>7 DEF NamesOK
<1>8. CASE k \notin S /\ ~IsStd(p)
  <2>1. /\ ~NoText(p)
        /\ fileModule' = Noted(fileModule, k, own) /\ deps' = FirstOf(deps, Text(p).mods)
        /\ stack' = Append(stack, fr) /\ UNCHANGED <<loaded, aliases>>
    BY <1>2, <1>5, <1>8 DEF Enter, Fail, Refusals
  <2>2. fr \in Frame /\ fr.path = p /\ fr.i = 1 /\ Key(fr) = k
    BY <1>3 DEF Frame, Key
  <2> HIDE DEF k, fr
  <2>3. /\ stack' \in Seq(Frame) /\ Len(stack') = Len(stack) + 1 /\ stack'[Len(stack) + 1] = fr /\ Len(stack) \in Nat
        /\ \A i \in 1 .. Len(stack) : stack'[i] = stack[i]
    BY <1>1, <2>1, <2>2, AppendFacts, LenProperties
  <2>4. \A i \in 1 .. Len(stack') : i \in 1 .. Len(stack) \/ i = Len(stack) + 1
    BY <2>3
  <2>5. Keys(stack') = Keys(stack) \cup {k}
    BY <2>2, <2>3, <2>4 DEF Keys
  <2>6. Range(loaded') = S /\ Range(loaded') \cup Keys(stack') = A \cup {k}
    BY <2>1, <2>5
  <2> HIDE DEF S, A
  <2>7. k \notin A
    BY <1>5, <1>8 DEF A
  <2>8. FilesOK(fileModule', A \cup {k})
    BY <1>3, <1>4, <1>8, <2>1, <2>7, FilesMore
  <2>9. DepsOK(deps', A \cup {k})
    <3>1. Text(k).mods \in Seq(Block)
      BY <1>3, <2>1, ModsAre DEF Given
    <3> QED  BY <1>3, <1>4, <1>8, <2>1, <3>1, DepsMore
  <2>10. AliasesOK(aliases', stack', S)
    <3>1. ASSUME NEW i \in 1 .. Len(stack'), NEW j \in 1 .. stack'[i].i - 1
          PROVE  Aliased(aliases, Imps(stack'[i])[j], stack'[i].path)
      <4>1. CASE i \in 1 .. Len(stack)
        BY <1>4, <2>3, <3>1, <4>1 DEF AliasesOK
      <4>2. CASE i = Len(stack) + 1
        <5>1. j \in 1 .. 1 - 1
          BY <2>2, <2>3, <3>1, <4>2
        <5> QED  BY <5>1
      <4> QED  BY <2>4, <4>1, <4>2
    <3>2. \A i \in 1 .. Len(stack') : \A j \in 1 .. stack'[i].i - 1 : Aliased(aliases', Imps(stack'[i])[j], stack'[i].path)
      BY <2>1, <3>1
    <3> QED  BY <1>4, <2>1, <3>2 DEF AliasesOK
  <2> QED  BY <2>6, <2>8, <2>9, <2>10 DEF NamesOK
<1> QED  BY <1>6, <1>7, <1>8

LEMMA NamesFollow ==
    ASSUME Given, Goes(stack, loaded, modules, decls, res), Follow,
           NamesOK(stack, loaded, fileModule, aliases, deps)
    PROVE  res' \in Refusals \/ NamesOK(stack', loaded', fileModule', aliases', deps')
<1> DEFINE n == Len(stack)
           to == Resolve(Import, Top.path)
<1>1. stack # <<>>
  BY DEF Follow, Goes, StageOK
<1>2. n \in Nat \ {0} /\ stack \in Seq(Frame)
  BY <1>1, TopIs
<1> SUFFICES ASSUME res' \notin Refusals PROVE NamesOK(stack', loaded', fileModule', aliases', deps')
  OBVIOUS
<1>3. stack' = [stack EXCEPT ![n].to = to] /\ UNCHANGED <<loaded, fileModule, aliases, deps>>
  BY DEF Follow, Fail, Refusals
<1> HIDE DEF to
<1>4. DOMAIN stack = 1 .. n /\ \A i \in 1 .. n : stack[i] \in Frame
  BY <1>2, LenProperties, ElementOfSeq
<1>5. Len(stack') = n /\ \A i \in 1 .. n : stack'[i].i = stack[i].i /\ stack'[i].path = stack[i].path
  <2>1. DOMAIN stack' = 1 .. n
    BY <1>3, <1>4
  <2>2. \A i \in 1 .. n : stack'[i] = IF i = n THEN [stack[i] EXCEPT !.to = to] ELSE stack[i]
    BY <1>3, <1>4
  <2>3. \A fr \in Frame : LET gr == [fr EXCEPT !.to = to] IN gr.i = fr.i /\ gr.path = fr.path
    BY DEF Frame
  <2>4. \A i \in 1 .. n : stack'[i].i = stack[i].i /\ stack'[i].path = stack[i].path
    BY <1>4, <2>2, <2>3
  <2>5. Len(stack') = n
    <3>1. stack' = [i \in 1 .. n |-> stack'[i]]
      BY <1>3, <1>4
    <3>2. n \in Nat
      BY <1>2
    <3> HIDE DEF n
    <3> QED  BY <2>1, <3>1, <3>2
  <2> QED  BY <2>4, <2>5
<1>6. Keys(stack') = Keys(stack)
  BY <1>5 DEF Keys, Key
<1>7. AliasesOK(aliases', stack', Range(loaded'))
  <2>1. AliasesOK(aliases, stack, Range(loaded))
    BY DEF NamesOK
  <2>2. ASSUME NEW i \in 1 .. n, NEW j \in 1 .. stack'[i].i - 1 PROVE Aliased(aliases, Imps(stack'[i])[j], stack'[i].path)
    <3>1. Imps(stack'[i]) = Imps(stack[i])
      BY <1>5 DEF Imps
    <3> QED  BY <1>5, <2>1, <2>2, <3>1 DEF AliasesOK
  <2>3. \A i \in 1 .. Len(stack') : \A j \in 1 .. stack'[i].i - 1 : Aliased(aliases', Imps(stack'[i])[j], stack'[i].path)
    BY <1>3, <1>5, <2>2
  <2> QED  BY <1>3, <2>1, <2>3 DEF AliasesOK
<1> QED  BY <1>3, <1>6, <1>7 DEF NamesOK

\* An import that is done is written down with its module.
LEMMA NamesComeBack ==
    ASSUME Given, Goes(stack, loaded, modules, decls, res), ComeBack,
           NamesOK(stack, loaded, fileModule, aliases, deps)
    PROVE  NamesOK(stack', loaded', fileModule', aliases', deps')
<1> DEFINE n == Len(stack)
           S == Range(loaded)
           a == [n |-> Import.as, m |-> fileModule[Canonical(Top.to)]]
<1>1. stack # <<>> /\ res = "back" /\ Waiting(Last(stack)) /\ Canonical(Last(stack).to) \in S
  BY DEF ComeBack, Goes, StageOK
<1>2. /\ n \in Nat \ {0} /\ stack \in Seq(Frame) /\ StackOK(stack, S) /\ Top = Last(stack) /\ Top \in Frame
      /\ Top.i \in Nat /\ Import = Imps(Top)[Top.i] /\ Len(Imps(Top)) \in Nat /\ FrameOK(Top, S)
      /\ Text(Top.path).imports = Imps(Top)
  BY <1>1, TopIs
<1>3. /\ FilesOK(fileModule, S \cup Keys(stack)) /\ AliasesOK(aliases, stack, S) /\ LoadedOK(S)
  BY DEF NamesOK, Goes
<1>4. /\ Top.i \in 1 .. Len(Imps(Top)) /\ Top.to = Resolve(Import, Top.path)
      /\ Canonical(Top.to) \in S /\ fileModule[Canonical(Top.to)] = ModuleOf(Canonical(Top.to))
  <2>1. Top.i \in 1 .. Len(Imps(Top))
    BY <1>1, <1>2 DEF Waiting, FrameOK
  <2>2. Top.to = Resolve(Import, Top.path) /\ Canonical(Top.to) \in S
    BY <1>1, <1>2 DEF Waiting
  <2> QED  BY <1>3, <2>1, <2>2 DEF FilesOK
<1>5. a \in Alias
  <2>1. Import \in ImportDecls
    <3>1. ~NoText(Top.path)
      BY <1>2 DEF FrameOK, Leaf
    <3> QED  BY <1>2, <1>4, <3>1, TextIs DEF Given
  <2>2. Import.as \in STRING
    BY <2>1 DEF ImportDecls
  <2>3. ModuleOf(Canonical(Top.to)) \in STRING
    <3> DEFINE c == Canonical(Top.to)
    <3>1. c \in Program /\ c \in Places /\ (~IsStd(c) => ~NoText(c))
      BY <1>2, <1>3, <1>4, SeenIs
    <3>2. Good(c) /\ Canonical(c) = c
      BY <3>1, PlacesGood DEF Given
    <3> HIDE DEF c
    <3>3. IsStd(c) => ModuleOf(c) \in Std
      BY <3>2, ModuleIs
    <3>4. ~IsStd(c) => ModuleOf(c) \in STRING
      BY <3>1, <3>2, ModuleIs
    <3> QED  BY <3>3, <3>4, ImportsAssumption DEF c
  <2> QED  BY <1>4, <2>2, <2>3 DEF Alias
<1>6. /\ stack' = [stack EXCEPT ![n].i = @ + 1] /\ UNCHANGED <<loaded, fileModule, deps>>
      /\ aliases' = IF ~Renamed(Import) THEN aliases ELSE Append(aliases, a)
  BY DEF ComeBack
<1>7. a.n = Import.as /\ a.m = ModuleOf(Canonical(Resolve(Import, Top.path)))
  BY <1>4
<1> HIDE DEF a
<1>8. /\ aliases' \in Seq(Alias)
      /\ \A imp, p : Aliased(aliases, imp, p) => Aliased(aliases', imp, p)
      /\ Aliased(aliases', Import, Top.path)
  <2>1. CASE ~Renamed(Import)
    BY <1>3, <1>6, <2>1 DEF AliasesOK, Aliased
  <2>2. CASE Renamed(Import)
    <3>1. aliases' = Append(aliases, a) /\ aliases \in Seq(Alias)
      BY <1>3, <1>6, <2>2 DEF AliasesOK
    <3> QED  BY <1>5, <1>7, <3>1, AliasesMore
  <2> QED  BY <2>1, <2>2
<1>9. DOMAIN stack = 1 .. n /\ \A i \in 1 .. n : stack[i] \in Frame
  BY <1>2, LenProperties, ElementOfSeq
<1>10. /\ Len(stack') = n /\ \A i \in 1 .. n : stack'[i].path = stack[i].path
       /\ \A i \in 1 .. n : stack'[i].i = IF i = n THEN stack[i].i + 1 ELSE stack[i].i
  <2>1. DOMAIN stack' = 1 .. n
    BY <1>6, <1>9
  <2>2. \A i \in 1 .. n : stack'[i] = IF i = n THEN [stack[i] EXCEPT !.i = @ + 1] ELSE stack[i]
    BY <1>6, <1>9
  <2>3. \A fr \in Frame : LET gr == [fr EXCEPT !.i = @ + 1] IN gr.i = fr.i + 1 /\ gr.path = fr.path
    BY DEF Frame
  <2>4. \A i \in 1 .. n : /\ stack'[i].path = stack[i].path
                          /\ stack'[i].i = IF i = n THEN stack[i].i + 1 ELSE stack[i].i
    BY <1>9, <2>2, <2>3
  <2>5. Len(stack') = n
    <3>1. stack' = [i \in 1 .. n |-> stack'[i]]
      BY <1>6, <1>9
    <3>2. n \in Nat
      BY <1>2
    <3> HIDE DEF n
    <3> QED  BY <2>1, <3>1, <3>2
  <2> QED  BY <2>4, <2>5
<1>11. Keys(stack') = Keys(stack)
  BY <1>10 DEF Keys, Key
<1>12. AliasesOK(aliases', stack', S)
  <2>1. ASSUME NEW i \in 1 .. n, NEW j \in 1 .. stack'[i].i - 1 PROVE Aliased(aliases', Imps(stack'[i])[j], stack'[i].path)
    <3>1. Imps(stack'[i]) = Imps(stack[i]) /\ stack'[i].path = stack[i].path
      BY <1>10 DEF Imps
    <3>2. CASE j \in 1 .. stack[i].i - 1
      <4>1. Aliased(aliases, Imps(stack[i])[j], stack[i].path)
        BY <1>3, <3>2 DEF AliasesOK
      <4> QED  BY <1>8, <3>1, <4>1
    <3>3. CASE j \notin 1 .. stack[i].i - 1
      <4>1. stack[i].i \in Nat
        BY <1>9 DEF Frame
      <4>2. i = n /\ j = stack[i].i
        BY <1>10, <2>1, <3>3, <4>1
      <4>3. stack[i] = Top
        BY <4>2 DEF Top
      <4> QED  BY <1>2, <1>8, <3>1, <4>2, <4>3
    <3> QED  BY <3>2, <3>3
  <2>2. \A i \in 1 .. Len(stack') : \A j \in 1 .. stack'[i].i - 1 : Aliased(aliases', Imps(stack'[i])[j], stack'[i].path)
    BY <1>10, <2>1
  <2>3. ASSUME NEW k \in S, ~IsStd(k), NEW j \in 1 .. Len(Text(k).imports) PROVE Aliased(aliases', Text(k).imports[j], k)
    BY <1>3, <1>8, <2>3 DEF AliasesOK
  <2> HIDE DEF S
  <2> QED  BY <1>8, <2>2, <2>3 DEF AliasesOK
<1> QED  BY <1>6, <1>11, <1>12 DEF NamesOK

LEMMA NamesFinish ==
    ASSUME Given, Goes(stack, loaded, modules, decls, res), Finish,
           NamesOK(stack, loaded, fileModule, aliases, deps)
    PROVE  NamesOK(stack', loaded', fileModule', aliases', deps')
<1> DEFINE S == Range(loaded)
           k == Key(Top)
           ff == Front(stack)
<1>1. stack # <<>> /\ loaded \in Seq(Path)
  BY DEF Finish, Goes, StageOK
<1>2. /\ stack \in Seq(Frame) /\ StackOK(stack, S) /\ Top = Last(stack) /\ Top \in Frame /\ Len(stack) \in Nat \ {0}
      /\ Top.i \in Nat /\ Len(Imps(Top)) \in Nat /\ FrameOK(Top, S) /\ Text(Top.path).imports = Imps(Top)
  BY <1>1, TopIs
<1>3. stack' = ff /\ loaded' = Append(loaded, k) /\ UNCHANGED <<fileModule, deps, aliases>> /\ Top.i > Len(Imps(Top))
  BY <1>2 DEF Finish, Key
<1>4. Keys(ff) \cup {k} = Keys(stack)
  BY <1>1, <1>2, StackPopped
<1>5. /\ k \in Path /\ ~IsStd(k) /\ Good(Top.path) /\ ~Leaf(Top.path)
  BY <1>2, FrameFacts, CanonicalOnce DEF FrameOK, Key
<1>6. Range(loaded') = S \cup {k}
  BY <1>1, <1>3, <1>5, RangeAppend
<1>7. Range(loaded') \cup Keys(stack') = S \cup Keys(stack)
  BY <1>3, <1>4, <1>6
<1>8. AliasesOK(aliases, stack, S)
  BY DEF NamesOK
<1>9. ASSUME NEW j \in 1 .. Len(Text(k).imports) PROVE Aliased(aliases, Text(k).imports[j], k)
  <2> DEFINE imp == Text(k).imports[j]
  <2>1. Text(k) = Text(Top.path)
    BY <1>2, FrameFacts DEF Key
  <2>2. j \in 1 .. Len(Imps(Top)) /\ imp = Imps(Top)[j] /\ j \in 1 .. Top.i - 1
    BY <1>2, <1>3, <2>1
  <2>3. imp \in ImportDecls /\ Resolve(imp, Top.path) # NoFile
    <3>1. ~NoText(Top.path)
      BY <1>5 DEF Leaf
    <3> HIDE DEF imp
    <3>2. imp \in ImportDecls
      BY <1>2, <2>2, <3>1, TextIs DEF Given
    <3>3. Done(Imps(Top)[j], Top.path, S)
      BY <1>2, <2>2 DEF FrameOK
    <3> QED  BY <2>2, <3>2, <3>3 DEF Done
  <2>4. Aliased(aliases, imp, Top.path)
    <3>1. Len(stack) \in 1 .. Len(stack) /\ stack[Len(stack)] = Top
      BY <1>2 DEF Top
    <3> HIDE DEF imp
    <3> QED  BY <1>8, <2>2, <3>1 DEF AliasesOK
  <2>5. Canonical(Resolve(imp, k)) = Canonical(Resolve(imp, Top.path))
    <3>1. Canonical(k) = Canonical(Top.path) /\ Top.path \in Path
      BY <1>5, CanonicalOnce DEF Key, Good
    <3> HIDE DEF imp, k
    <3>2. SameFile(Resolve(imp, Top.path), Resolve(imp, k))
      BY <1>5, <2>3, <3>1, ResolveAlike DEF Given
    <3> QED  BY <2>3, <3>2 DEF SameFile
  <2> HIDE DEF imp, k
  <2>6. Aliased(aliases, imp, k)
    BY <2>4, <2>5 DEF Aliased
  <2> QED  BY <2>6 DEF imp
<1>10. AliasesOK(aliases', stack', Range(loaded'))
  <2>1. /\ Len(ff) = Len(stack) - 1 /\ \A i \in 1 .. Len(ff) : ff[i] = stack[i] /\ i \in 1 .. Len(stack)
    <3>1. Len(ff) = Len(stack) - 1 /\ \A i \in 1 .. Len(stack) - 1 : ff[i] = stack[i]
      BY <1>1, <1>2, FrontFacts
    <3> HIDE DEF ff
    <3> QED  BY <1>2, <3>1
  <2> HIDE DEF ff, k, S
  <2>2. \A i \in 1 .. Len(ff) : \A j \in 1 .. ff[i].i - 1 : Aliased(aliases, Imps(ff[i])[j], ff[i].path)
    BY <1>8, <2>1 DEF AliasesOK
  <2>3. ASSUME NEW l \in S \cup {k}, ~IsStd(l), NEW j \in 1 .. Len(Text(l).imports) PROVE Aliased(aliases, Text(l).imports[j], l)
    BY <1>8, <1>9, <2>3 DEF AliasesOK
  <2>4. AliasesOK(aliases, ff, S \cup {k})
    BY <1>8, <2>2, <2>3 DEF AliasesOK
  <2> QED  BY <1>3, <1>6, <2>4
<1> QED  BY <1>3, <1>7, <1>10 DEF NamesOK

(***************************************************************************)
(* The invariant of the loader, and what it says of an outcome.            *)
(***************************************************************************)
\* What the analysis does comes after.
Judged == {"clash", "undeclared", "visit", "depcycle", "ok"}
Passed(re) == IF re \in Judged THEN "loaded" ELSE re
LInv ==
  /\ proj \in Projects
  /\ Holds(stack, loaded, modules, decls, Passed(res))
  /\ Passed(res) \in Refusals \/ NamesOK(stack, loaded, fileModule, aliases, deps)

LEMMA NamesStatic ==
    ASSUME proj' = proj, NamesOK(stack', loaded', fileModule', aliases', deps')
    PROVE  NamesOK(stack, loaded, fileModule, aliases, deps)'
<1>1. \A fr : Imps(fr)' = Imps(fr)
  BY StaticFiles DEF Imps
<1>2. \A k : Mods(k)' = Mods(k)
  BY StaticFiles DEF Mods
<1>3. \A fm, A : FilesOK(fm, A)' = FilesOK(fm, A)
  BY StaticFiles DEF FilesOK
<1>4. \A al, imp, p : Aliased(al, imp, p)' = Aliased(al, imp, p)
  BY StaticFiles, StaticGraph DEF Aliased
<1>5. \A al, st, S : AliasesOK(al, st, S)' = AliasesOK(al, st, S)
  BY <1>1, <1>4, StaticFiles DEF AliasesOK
<1>6. \A ds, A : DepsOK(ds, A)' = DepsOK(ds, A)
  BY <1>2 DEF DepsOK
<1>7. \A st, lo, fm, al, ds : NamesOK(st, lo, fm, al, ds)' = NamesOK(st, lo, fm, al, ds)
  BY <1>3, <1>5, <1>6 DEF NamesOK
<1> QED  BY <1>7

LEMMA InitHolds ==
    ASSUME ImportsInit
    PROVE  LInv
<1>1. /\ proj \in Projects /\ stack = <<>> /\ loaded = <<>> /\ modules = <<>> /\ decls = <<>> /\ Passed(res) = "start"
      /\ fileModule = <<>> /\ aliases = <<>> /\ deps = <<>>
  BY DEF ImportsInit, Passed, Judged
<1>2. /\ Range(<<>>) = {} /\ Len(<<>>) = 0 /\ \A S : <<>> \in Seq(S)
      /\ Keys(<<>>) = {} /\ DOMAIN <<>> = {}
  BY DEF Range, Keys
<1>3. StackOK(<<>>, {}) /\ LoadedOK({}) /\ ModulesOK(<<>>, {}) /\ DeclsOK(<<>>, {}) /\ StageOK(<<>>, {}, "start")
  BY <1>2 DEF StackOK, ChainOK, LoadedOK, ModulesOK, DeclsOK, StageOK, Distinct
<1>4. Goes(<<>>, <<>>, <<>>, <<>>, "start")
  BY <1>2, <1>3 DEF Goes
<1>5. FilesOK(<<>>, {}) /\ AliasesOK(<<>>, <<>>, {}) /\ DepsOK(<<>>, {})
  BY <1>2 DEF FilesOK, AliasesOK, DepsOK, Once
<1>6. NamesOK(<<>>, <<>>, <<>>, <<>>, <<>>)
  BY <1>2, <1>5 DEF NamesOK
<1> QED  BY <1>1, <1>4, <1>6 DEF LInv, Holds

LEMMA LoadHolds ==
    ASSUME ByFile, Reserved, LInv, LoadNext
    PROVE  LInv' /\ res \notin Judged /\ res' \notin Judged
<1>1. Given /\ proj' = proj
  BY DEF Given, LInv, LoadNext, Start, Follow, Descend, ComeBack, Finish
<1>2. res \in {"start", "next", "enter", "back"}
  BY DEF LoadNext, Start, Follow, Descend, ComeBack, Finish
<1>3. res \notin Judged /\ res \notin Refusals /\ Passed(res) = res
  BY <1>2 DEF Judged, Refusals, Passed
<1>4. Goes(stack, loaded, modules, decls, res) /\ NamesOK(stack, loaded, fileModule, aliases, deps)
  BY <1>3 DEF LInv, Holds
<1>5. /\ Holds(stack', loaded', modules', decls', res')
      /\ res' \in Refusals \/ NamesOK(stack', loaded', fileModule', aliases', deps')
  <2>1. CASE Start
    <3>1. Coming(proj.main)
      <4>1. stack = <<>> /\ Range(loaded) = {}
        BY <1>4, <2>1 DEF Goes, StageOK, Start
      <4> QED  BY <1>1, <4>1, ProgramIs DEF Coming, Given
    <3> QED  BY <1>1, <1>4, <2>1, <3>1, EnterKeeps, NamesEnter DEF Start
  <2>2. CASE Follow
    BY <1>1, <1>4, <2>2, FollowKeeps, NamesFollow
  <2>3. CASE Descend
    <3>1. res = "enter" /\ stack # <<>> /\ Waiting(Last(stack))
      BY <1>4, <2>3 DEF Goes, StageOK, Descend
    <3>2. Top \in Frame /\ FrameOK(Top, Range(loaded)) /\ Top = Last(stack)
      BY <1>1, <1>4, <3>1, TopIs
    <3>3. Good(Top.to) /\ Canonical(Top.to) \in Program
      BY <1>1, <3>1, <3>2, WaitingFacts
    <3>4. Coming(Top.to)
      BY <3>1, <3>2, <3>3 DEF Coming
    <3> QED  BY <1>1, <1>4, <2>3, <3>4, EnterKeeps, NamesEnter DEF Descend
  <2>4. CASE ComeBack
    BY <1>1, <1>4, <2>4, ComeBackKeeps, NamesComeBack
  <2>5. CASE Finish
    BY <1>1, <1>4, <2>5, FinishKeeps, NamesFinish
  <2> QED  BY <2>1, <2>2, <2>3, <2>4, <2>5 DEF LoadNext
<1>6. Holds(stack, loaded, modules, decls, res)' /\ (res' \in Refusals \/ NamesOK(stack, loaded, fileModule, aliases, deps)')
  BY <1>1, <1>5, Static, NamesStatic
<1>7. res' \notin Judged
  BY <1>5 DEF Holds, Goes, Judged, Refusals
<1>8. Passed(res)' = res'
  BY <1>7 DEF Passed, Judged
<1>9. proj' \in Projects /\ Refusals' = Refusals
  BY <1>1 DEF Given, Refusals
<1> QED  BY <1>3, <1>6, <1>7, <1>8, <1>9 DEF LInv

\* The analysis leaves all this as it is.
LEMMA AnalysisHolds ==
    ASSUME LInv, UNCHANGED <<proj, stack, loaded, modules, fileModule, deps, aliases, decls>>,
           Passed(res') = Passed(res)
    PROVE  LInv'
<1>1. /\ proj' = proj /\ stack' = stack /\ loaded' = loaded /\ modules' = modules /\ decls' = decls
      /\ fileModule' = fileModule /\ deps' = deps /\ aliases' = aliases
  OBVIOUS
<1>2. \A st, lo, mo, de, re : Holds(st, lo, mo, de, re)' = Holds(st, lo, mo, de, re)
  BY <1>1, StaticHolds
<1>3. Passed(res)' = Passed(res')
  BY DEF Passed, Judged
<1>4. Holds(stack, loaded, modules, decls, Passed(res))'
  BY <1>1, <1>2, <1>3 DEF LInv
<1>5. Passed(res) \in Refusals \/ NamesOK(stack, loaded, fileModule, aliases, deps)'
  <2>1. Passed(res) \in Refusals \/ NamesOK(stack', loaded', fileModule', aliases', deps')
    BY <1>1 DEF LInv
  <2> QED  BY <1>1, <2>1, NamesStatic
<1>6. proj' \in Projects /\ Refusals' = Refusals
  BY <1>1 DEF LInv, Refusals
<1> QED  BY <1>3, <1>4, <1>5, <1>6 DEF LInv

LEMMA AllLoaded ==
    ASSUME Given, NEW mo, Goes(stack, loaded, mo, decls, "loaded")
    PROVE  Range(loaded) = Program
<1> DEFINE S == Range(loaded)
<1>1. LoadedOK(S) /\ Canonical(proj.main) \in S
  BY DEF Goes, StageOK
<1> HIDE DEF S
<1>2. S \subseteq Places /\ \A k \in S : Follows(k) \subseteq S
  BY <1>1, LoadedClosed
<1>3. Program \subseteq S
  BY <1>1, <1>2, ProgramIs DEF Given
<1>4. S = Program
  BY <1>1, <1>3 DEF LoadedOK
<1> QED  BY <1>4 DEF S

LEMMA HoldsIsExact ==
    ASSUME ByFile, Reserved, LInv
    PROVE  LoadedIsLoadable /\ RefusedIsNot /\ DepsFirst
<1>1. Given
  BY DEF Given, LInv
<1>2. RefusedIsNot
  BY DEF RefusedIsNot, LInv, Holds, Goes, Refusals, Passed, Judged
<1>3. ASSUME res = "loaded" PROVE Loadable /\ DepsFirst
  <2> DEFINE S == Range(loaded)
  <2>1. Goes(stack, loaded, modules, decls, res)
    BY <1>3 DEF LInv, Holds, Refusals, Passed, Judged
  <2>2. LoadedOK(S) /\ ModulesOK(modules, S \cup Keys(stack)) /\ DeclsOK(decls, S) /\ Canonical(proj.main) \in S
    BY <1>3, <2>1 DEF Goes, StageOK
  <2>3. S = Program
    BY <1>1, <1>3, <2>1, AllLoaded DEF S
  <2> HIDE DEF S
  <2>4. Loadable
    <3>1. \A k, l \in Program : ModuleOf(k) = ModuleOf(l) => k = l
      BY <2>2, <2>3 DEF ModulesOK
    <3> QED  BY <2>2, <2>3, <3>1, LoadableIs DEF LoadedOK
  <2>5. DepsFirst
    <3>1. /\ decls \in Seq(Path) /\ Distinct(decls) /\ Range(decls) = {k \in Program : ~IsStd(k)}
          /\ \A i \in 1 .. Len(decls) : \A k \in Under(decls[i]) : IsStd(k) \/ \E j \in 1 .. i - 1 : decls[j] = k
      BY <2>2, <2>3 DEF DeclsOK
    <3>2. DOMAIN decls = 1 .. Len(decls)
      BY <3>1, LenProperties
    <3>3. ToSet(decls) = {k \in Program : ~IsStd(k)}
      BY <3>1 DEF ToSet, Range
    <3>4. IsInjective(decls)
      BY <3>1, <3>2 DEF IsInjective, Distinct
    <3> QED  BY <3>1, <3>2, <3>3, <3>4 DEF DepsFirst, Program, Under, Reached
  <2> QED  BY <2>4, <2>5
<1> QED  BY <1>2, <1>3 DEF LoadedIsLoadable, DepsFirst

(***************************************************************************)
(* The names and the dependencies of a loaded program.                     *)
(***************************************************************************)
\* The files of different modules that say of one module what it depends on agree.
OneBlock == \A pr \in Projects : \A f, g \in Texts(pr) : f = g \/ OwnModule(f) # OwnModule(g) =>
              \A b \in Range(f.mods), c \in Range(g.mods) :
                b.n = c.n /\ b.on # <<>> /\ c.on # <<>> => Range(b.on) = Range(c.on)
Settled ==
  /\ Given /\ Goes(stack, loaded, modules, decls, "loaded")
  /\ NamesOK(stack, loaded, fileModule, aliases, deps)

LEMMA SettledIs ==
    ASSUME Settled
    PROVE  LET S == Range(loaded)
           IN  /\ S = Program /\ LoadedOK(S) /\ AliasesOK(aliases, stack, S)
               /\ FilesOK(fileModule, S) /\ DepsOK(deps, S)
               /\ \A k, l \in S : ModuleOf(k) = ModuleOf(l) => k = l
               /\ Range(decls) = {k \in S : ~IsStd(k)}
<1> DEFINE S == Range(loaded)
<1>1. S = Program
  BY AllLoaded DEF Settled
<1>2. stack = <<>> /\ LoadedOK(S) /\ ModulesOK(modules, S \cup Keys(stack)) /\ DeclsOK(decls, S)
  BY DEF Settled, Goes, StageOK
<1>3. S \cup Keys(stack) = S
  <2>1. Keys(stack) = {}
    BY <1>2 DEF Keys
  <2> QED  BY <2>1
<1>4. FilesOK(fileModule, S \cup Keys(stack)) /\ AliasesOK(aliases, stack, S) /\ DepsOK(deps, S \cup Keys(stack))
  BY DEF Settled, NamesOK
<1>5. ModulesOK(modules, S) /\ FilesOK(fileModule, S) /\ DepsOK(deps, S)
  BY <1>2, <1>3, <1>4
<1> HIDE DEF S
<1>6. (\A k, l \in S : ModuleOf(k) = ModuleOf(l) => k = l) /\ Range(decls) = {k \in S : ~IsStd(k)}
  BY <1>2, <1>5 DEF ModulesOK, DeclsOK
<1>7. /\ S = Program /\ LoadedOK(S) /\ AliasesOK(aliases, stack, S)
      /\ FilesOK(fileModule, S) /\ DepsOK(deps, S)
  BY <1>1, <1>2, <1>4, <1>5
<1> QED  BY <1>6, <1>7 DEF S

\* A file that is loaded has its text.
LEMMA FileIs ==
    ASSUME Settled, NEW k \in Range(loaded), ~IsStd(k)
    PROVE  /\ Good(k) /\ Canonical(k) = k /\ ~NoText(k) /\ Text(k) \in Texts(proj)
           /\ ModuleOf(k) = OwnModule(Text(k)) /\ NoFile \notin Targets(k) /\ Follows(k) \subseteq Range(loaded)
<1>1. Given /\ k \in Program /\ Whole(k) /\ Follows(k) \subseteq Range(loaded)
  <2>1. Given
    BY DEF Settled
  <2> QED  BY <2>1, SettledIs DEF LoadedOK
<1>2. Good(k) /\ Canonical(k) = k
  BY <1>1, ProgramIs, PlacesGood DEF Given
<1>3. ~NoText(k) /\ NoFile \notin Targets(k)
  BY <1>1 DEF Whole
<1>4. Text(k) \in Texts(proj)
  BY <1>1, <1>3, TextIs DEF Given
<1> QED  BY <1>1, <1>2, <1>3, <1>4 DEF ModuleOf

\* With no clash, a name that a file gives means what it was given to.
LEMMA NamesMean ==
    ASSUME Settled, ~Clash(aliases), NEW k \in Program, ~IsStd(k), NEW i \in DOMAIN Text(k).imports,
           Renamed(Text(k).imports[i])
    PROVE  ModuleKey(Text(k).imports[i].as) = fileModule[Canonical(Resolve(Text(k).imports[i], k))]
<1> DEFINE imp == Text(k).imports[i]
           r == Resolve(imp, k)
           S == Range(loaded)
           I == {x \in DOMAIN aliases : aliases[x].n = imp.as}
<1>1. k \in S /\ Given
  BY SettledIs DEF Settled
<1>2. AliasesOK(aliases, stack, S) /\ FilesOK(fileModule, S)
  BY SettledIs
<1>3. /\ Good(k) /\ Canonical(k) = k /\ ~NoText(k) /\ NoFile \notin Targets(k) /\ Follows(k) \subseteq S
  BY <1>1, FileIs
<1>4. i \in 1 .. Len(Text(k).imports)
  BY <1>1, <1>3, TextIs DEF Given
<1>5. Canonical(r) \in S
  <2>1. ~Leaf(k)
    BY <1>3 DEF Leaf
  <2> QED  BY <1>1, <1>3, <1>4, <2>1, ImportLeads DEF Given
<1>6. DOMAIN aliases = 1 .. Len(aliases)
  <2>1. aliases \in Seq(Alias)
    BY <1>2 DEF AliasesOK
  <2> QED  BY <2>1, LenProperties
<1>7. Aliased(aliases, imp, k)
  BY <1>1, <1>2, <1>4 DEF AliasesOK
<1> HIDE DEF imp, r
<1>8. Renamed(imp)
  BY DEF imp
<1>9. PICK x \in 1 .. Len(aliases) : aliases[x].n = imp.as /\ aliases[x].m = ModuleOf(Canonical(r))
  BY <1>7, <1>8 DEF Aliased, r
<1>10. x \in I /\ (CHOOSE y \in I : TRUE) \in I
  BY <1>6, <1>9
<1>11. ModuleKey(imp.as) = aliases[CHOOSE y \in I : TRUE].m
  BY <1>10, Zenon DEF ModuleKey
<1> DEFINE c == CHOOSE y \in I : TRUE
<1>12. c \in DOMAIN aliases /\ aliases[c].n = imp.as
  BY <1>10
<1> HIDE DEF c
<1>13. aliases[c].m = aliases[x].m
  BY <1>6, <1>9, <1>12 DEF Clash
<1>14. fileModule[Canonical(r)] = ModuleOf(Canonical(r))
  BY <1>2, <1>5 DEF FilesOK
<1> QED  BY <1>9, <1>11, <1>13, <1>14 DEF c, imp, r

LEMMA InBlocks ==
    ASSUME Settled
    PROVE  \A b : b \in Blocks <=> \E k \in Range(loaded) : ~IsStd(k) /\ b \in Mods(k)
<1>1. {decls[i] : i \in DOMAIN decls} = {k \in Range(loaded) : ~IsStd(k)}
  BY SettledIs DEF Range
<1>2. \A b : b \in Blocks <=> \E i \in DOMAIN decls : b \in Mods(decls[i])
  BY DEF Blocks, Mods, ToSet, Range
<1> QED  BY <1>1, <1>2

\* What is kept of a module's dependencies is what its blocks declare.
LEMMA DeclaredIs ==
    ASSUME Settled, OneBlock, NEW m \in Known
    PROVE  Declared[m] = Range(On(m)) \cap Known
<1> DEFINE S == Range(loaded)
           I == {i \in DOMAIN deps : deps[i].n = m}
           U == UNION {ToSet(b.on) : b \in {c \in Blocks : c.n = m}}
<1>1. Declared[m] = U \cap Known
  BY DEF Declared
<1>2. DepsOK(deps, S)
  BY SettledIs
<1>3. DOMAIN deps = 1 .. Len(deps)
  BY <1>2, LenProperties DEF DepsOK, Once
<1>4. \A b \in Blocks : Says(deps, b)
  BY <1>2, InBlocks DEF DepsOK
<1>5. \A q : q \in U <=> \E b \in Blocks : b.n = m /\ q \in Range(b.on)
  BY DEF ToSet, Range
<1>6. Range(On(m)) = U
  <2>1. CASE I = {}
    <3>1. On(m) = <<>>
      BY <2>1 DEF On
    <3>2. Range(<<>>) = {}
      BY DEF Range
    <3>3. ASSUME NEW b \in Blocks, b.n = m PROVE b.on = <<>>
      BY <1>3, <1>4, <2>1, <3>3 DEF Says
    <3> HIDE DEF U
    <3> QED  BY <1>5, <3>1, <3>2, <3>3
  <2>2. CASE I # {}
    <3> DEFINE x == CHOOSE y \in I : TRUE
               c == deps[x]
    <3>1. x \in DOMAIN deps /\ c.n = m
      BY <2>2
    <3>2. On(m) = c.on
      BY <2>2 DEF On
    <3> HIDE DEF x, I
    <3>3. PICK l \in S : ~IsStd(l) /\ c \in Mods(l)
      BY <1>2, <1>3, <3>1 DEF DepsOK
    <3>4. c.on # <<>>
      BY <1>2, <1>3, <3>1 DEF DepsOK, Once
    <3> HIDE DEF c
    <3>5. c \in Blocks
      BY <3>3, InBlocks
    <3>6. ASSUME NEW b \in Blocks, b.n = m, b.on # <<>> PROVE Range(b.on) = Range(c.on)
      <4>1. PICK k \in S : ~IsStd(k) /\ b \in Mods(k)
        BY InBlocks
      <4>2. Text(k) \in Texts(proj) /\ Text(l) \in Texts(proj)
        BY <3>3, <4>1, FileIs
      <4>3. Text(k) = Text(l) \/ OwnModule(Text(k)) # OwnModule(Text(l))
        <5>1. ModuleOf(k) = OwnModule(Text(k)) /\ ModuleOf(l) = OwnModule(Text(l))
          BY <3>3, <4>1 DEF ModuleOf
        <5>2. ModuleOf(k) = ModuleOf(l) => k = l
          BY SettledIs
        <5> QED  BY <5>1, <5>2
      <4>4. proj \in Projects
        BY DEF Settled, Given
      <4> QED  BY <3>1, <3>3, <3>4, <3>6, <4>1, <4>2, <4>3, <4>4 DEF OneBlock, Mods, c
    <3>7. \A b \in Blocks : b.on = <<>> => Range(b.on) = {}
      BY DEF Range
    <3>8. c.n = m
      BY <3>1 DEF c
    <3> HIDE DEF U
    <3> QED  BY <1>5, <3>2, <3>5, <3>6, <3>7, <3>8
  <2> QED  BY <2>1, <2>2
<1> QED  BY <1>1, <1>6

(***************************************************************************)
(* The search for a cycle, on any graph.                                   *)
(***************************************************************************)
Nodes(D) == DOMAIN D
Graph(D) == \A m \in Nodes(D) : D[m] \subseteq Nodes(D)
After(D, m) == {q \in Nodes(D) : \A T \in ClosedIn(D) : D[m] \subseteq T => q \in T}
Step(D) == [m : Nodes(D), i : Nat \ {0}]

\* What is done is closed, and none of it is on a cycle.
BlackOK(D, B) == B \subseteq Nodes(D) /\ \A m \in B : D[m] \subseteq B /\ m \notin After(D, m)
\* What is on the way is a path, each to the next; what it has passed is done.
Over(D, w, B, x, d) == d \in B \/ d \notin Nodes(D) \/ (x < Len(w) /\ d = w[x + 1].m)
PathOK(D, w, B) ==
  /\ w \in Seq(Step(D))
  /\ \A x \in 1 .. Len(w) : w[x].m \notin B
  /\ \A x, y \in 1 .. Len(w) : x < y => w[x].m # w[y].m /\ w[y].m \in After(D, w[x].m)
WalkOK(D, w, B) ==
  /\ PathOK(D, w, B)
  /\ \A x \in 1 .. Len(w) : \A j \in 1 .. Len(On(w[x].m)) : j < w[x].i => Over(D, w, B, x, On(w[x].m)[j])
\* The graph is that of the dependencies kept.
Kept(D) == \A m \in Nodes(D) : On(m) \in Seq(STRING) /\ D[m] = Range(On(m)) \cap Nodes(D)

\* The same when the last module goes on to d.
OnTo(D, w, B, d) ==
  \A x \in 1 .. Len(w) : \A j \in 1 .. Len(On(w[x].m)) :
    j < w[x].i => Over(D, w, B, x, On(w[x].m)[j]) \/ (x = Len(w) /\ On(w[x].m)[j] = d)

LEMMA AfterIs ==
    ASSUME NEW D, Graph(D), NEW m \in Nodes(D)
    PROVE  /\ D[m] \subseteq After(D, m) /\ After(D, m) \subseteq Nodes(D)
           /\ \A q \in After(D, m) : D[q] \subseteq After(D, m)
           /\ m \in After(D, m) <=> m \in OnItself(D)
<1>1. D[m] \subseteq After(D, m)
  BY DEF After, Graph, Nodes, ClosedIn
<1>2. ASSUME NEW q \in After(D, m) PROVE D[q] \subseteq After(D, m)
  <2>1. q \in Nodes(D) /\ D[q] \subseteq Nodes(D)
    BY <1>2 DEF After, Graph
  <2>2. ASSUME NEW T \in ClosedIn(D), D[m] \subseteq T PROVE D[q] \subseteq T
    BY <1>2, <2>2 DEF After, ClosedIn, Nodes
  <2> QED  BY <2>1, <2>2 DEF After
<1>3. m \in After(D, m) <=> m \in OnItself(D)
  BY DEF After, OnItself, Nodes
<1> QED  BY <1>1, <1>2, <1>3 DEF After

\* One that leads to itself through a closed set would be in it.
LEMMA OutOf ==
    ASSUME NEW D, Graph(D), NEW m \in Nodes(D), NEW B, BlackOK(D, B), D[m] \subseteq B, m \notin B
    PROVE  m \notin After(D, m)
<1>1. B \in ClosedIn(D)
  BY DEF BlackOK, ClosedIn, Nodes
<1> QED  BY <1>1 DEF After

LEMMA WalkFacts ==
    ASSUME NEW D, NEW w, NEW B, WalkOK(D, w, B), w # <<>>
    PROVE  /\ w \in Seq(Step(D)) /\ Len(w) \in Nat \ {0} /\ DOMAIN w = 1 .. Len(w) /\ Last(w) = w[Len(w)]
           /\ \A x \in 1 .. Len(w) : w[x] \in Step(D) /\ w[x].m \in Nodes(D) /\ w[x].i \in Nat \ {0}
<1>1. w \in Seq(Step(D))
  BY DEF WalkOK, PathOK
<1>2. \A x \in 1 .. Len(w) : w[x] \in Step(D)
  BY <1>1, ElementOfSeq
<1>3. \A x \in 1 .. Len(w) : w[x].m \in Nodes(D) /\ w[x].i \in Nat \ {0}
  BY <1>2 DEF Step
<1>4. Len(w) \in Nat \ {0} /\ DOMAIN w = 1 .. Len(w)
  BY <1>1, FrontFacts, LenProperties
<1> QED  BY <1>1, <1>2, <1>3, <1>4 DEF Last

LEMMA GreyAgain ==
    ASSUME NEW D, Graph(D), NEW w, NEW B, WalkOK(D, w, B), w # <<>>, NEW d \in D[Last(w).m], Grey(w, d)
    PROVE  OnItself(D) # {}
<1> DEFINE n == Len(w)
<1>1. n \in Nat \ {0} /\ DOMAIN w = 1 .. n /\ Last(w) = w[n] /\ \A x \in 1 .. n : w[x].m \in Nodes(D)
  BY WalkFacts
<1>2. PICK x \in 1 .. n : w[x].m = d
  BY <1>1 DEF Grey
<1>3. d \in Nodes(D) /\ w[n].m \in Nodes(D)
  BY <1>1, <1>2
<1>4. d \in After(D, d)
  <2>1. CASE x = n
    BY <1>1, <1>2, <1>3, <2>1, AfterIs
  <2>2. CASE x # n
    <3>1. x < n /\ n \in 1 .. n
      BY <1>1, <2>2
    <3>2. w[n].m \in After(D, d)
      BY <1>2, <3>1 DEF WalkOK, PathOK
    <3>3. D[w[n].m] \subseteq After(D, d)
      BY <1>3, <3>2, AfterIs
    <3> QED  BY <1>1, <3>3
  <2> QED  BY <2>1, <2>2
<1> QED  BY <1>3, <1>4, AfterIs

\* A module is come to.
LEMMA WalkPushed ==
    ASSUME NEW D, Graph(D), NEW w, NEW B, NEW d \in Nodes(D), d \notin B,
           PathOK(D, w, B), OnTo(D, w, B, d), ~Grey(w, d), w # <<>> => d \in D[Last(w).m]
    PROVE  WalkOK(D, Visited(w, d), B)
<1> DEFINE n == Len(w)
           fr == [m |-> d, i |-> 1]
           v == Append(w, fr)
<1>1. fr \in Step(D) /\ fr.m = d /\ fr.i = 1
  BY DEF Step
<1> HIDE DEF fr
<1>2. /\ v \in Seq(Step(D)) /\ Len(v) = n + 1 /\ v[n + 1] = fr /\ n \in Nat /\ DOMAIN w = 1 .. n
      /\ \A x \in 1 .. n : v[x] = w[x] /\ w[x] \in Step(D) /\ w[x].m \in Nodes(D)
  <2>1. n \in Nat /\ DOMAIN w = 1 .. n /\ \A x \in 1 .. n : w[x] \in Step(D)
    BY LenProperties, ElementOfSeq DEF PathOK
  <2>2. \A x \in 1 .. n : w[x].m \in Nodes(D)
    BY <2>1 DEF Step
  <2>3. v \in Seq(Step(D)) /\ Len(v) = n + 1 /\ v[n + 1] = fr /\ \A x \in 1 .. n : v[x] = w[x]
    BY <1>1, AppendFacts DEF PathOK
  <2> QED  BY <2>1, <2>2, <2>3
<1> HIDE DEF v
<1>3. \A x \in 1 .. Len(v) : x \in 1 .. n \/ x = n + 1
  BY <1>2
<1>4. \A x \in 1 .. Len(v) : v[x].m \notin B
  BY <1>1, <1>2, <1>3 DEF PathOK
<1>5. ASSUME NEW x \in 1 .. Len(v), NEW y \in 1 .. Len(v), x < y PROVE v[x].m # v[y].m /\ v[y].m \in After(D, v[x].m)
  <2>1. x \in 1 .. n /\ v[x] = w[x]
    BY <1>2, <1>5
  <2>2. CASE y \in 1 .. n
    BY <1>2, <1>5, <2>1, <2>2 DEF PathOK
  <2>3. CASE y = n + 1
    <3>1. v[y].m = d
      BY <1>1, <1>2, <2>3
    <3>2. w[x].m # d
      BY <1>2, <2>1 DEF Grey
    <3>3. w # <<>> /\ Last(w) = w[n] /\ n \in 1 .. n
      BY <1>2, <2>1 DEF Last
    <3>4. d \in D[w[n].m] /\ w[n].m \in Nodes(D) /\ w[x].m \in Nodes(D)
      BY <1>2, <2>1, <3>3
    <3>5. CASE x = n
      BY <2>1, <3>1, <3>2, <3>4, <3>5, AfterIs
    <3>6. CASE x # n
      <4>1. w[n].m \in After(D, w[x].m)
        <5>1. n \in 1 .. n /\ x \in 1 .. n /\ n \in Nat
          BY <1>2, <2>1, <3>3
        <5>2. x < n
          <6> HIDE DEF n
          <6> QED  BY <3>6, <5>1
        <5> QED  BY <5>1, <5>2 DEF PathOK
      <4>2. D[w[n].m] \subseteq After(D, w[x].m)
        BY <3>4, <4>1, AfterIs
      <4> QED  BY <2>1, <3>1, <3>2, <3>4, <4>2
    <3> QED  BY <3>5, <3>6
  <2> QED  BY <1>3, <2>2, <2>3
<1>6. ASSUME NEW x \in 1 .. Len(v), NEW j \in 1 .. Len(On(v[x].m)), j < v[x].i
      PROVE  Over(D, v, B, x, On(v[x].m)[j])
  <2>1. CASE x \in 1 .. n
    <3>1. v[x] = w[x]
      BY <1>2, <2>1
    <3>2. Over(D, w, B, x, On(w[x].m)[j]) \/ (x = n /\ On(w[x].m)[j] = d)
      BY <1>6, <2>1, <3>1 DEF OnTo
    <3>3. x < Len(v) /\ (x = n => v[x + 1].m = d) /\ (x < n => v[x + 1] = w[x + 1])
      <4>1. n \in Nat /\ Len(v) = n + 1 /\ v[n + 1].m = d /\ \A y \in 1 .. n : v[y] = w[y]
        BY <1>1, <1>2
      <4>2. x < n + 1 /\ (x < n => x + 1 \in 1 .. n)
        <5> HIDE DEF n
        <5> QED  BY <2>1, <4>1
      <4> QED  BY <4>1, <4>2
    <3> QED  BY <3>1, <3>2, <3>3 DEF Over
  <2>2. CASE x = n + 1
    BY <1>1, <1>2, <1>6, <2>2
  <2> QED  BY <1>3, <2>1, <2>2
<1>7. v = Visited(w, d)
  BY DEF Visited, v, fr
<1>8. PathOK(D, v, B)
  BY <1>2, <1>4, <1>5 DEF PathOK
<1>9. WalkOK(D, v, B)
  BY <1>6, <1>8 DEF WalkOK
<1> QED  BY <1>7, <1>9

\* The module on top goes on to its next dependency.
LEMMA WalkOn ==
    ASSUME NEW D, NEW w, NEW B, WalkOK(D, w, B), w # <<>>
    PROVE  LET v == [w EXCEPT ![Len(w)].i = @ + 1]
               d == On(Last(w).m)[Last(w).i]
           IN  /\ PathOK(D, v, B) /\ OnTo(D, v, B, d)
               /\ Last(v).m = Last(w).m /\ v # <<>> /\ \A q : Grey(v, q) <=> Grey(w, q)
<1> DEFINE n == Len(w)
           v == [w EXCEPT ![n].i = @ + 1]
           d == On(Last(w).m)[Last(w).i]
<1>1. /\ w \in Seq(Step(D)) /\ n \in Nat \ {0} /\ DOMAIN w = 1 .. n /\ Last(w) = w[n]
      /\ \A x \in 1 .. n : w[x] \in Step(D) /\ w[x].m \in Nodes(D) /\ w[x].i \in Nat \ {0}
  BY WalkFacts
<1>2. /\ DOMAIN v = 1 .. n
      /\ \A x \in 1 .. n : v[x] = IF x = n THEN [w[x] EXCEPT !.i = @ + 1] ELSE w[x]
  BY <1>1
<1>3. \A fr \in Step(D) : LET gr == [fr EXCEPT !.i = @ + 1] IN gr \in Step(D) /\ gr.m = fr.m /\ gr.i = fr.i + 1
  BY DEF Step
<1>4. /\ \A x \in 1 .. n : v[x] \in Step(D) /\ v[x].m = w[x].m
      /\ \A x \in 1 .. n : v[x].i = IF x = n THEN w[x].i + 1 ELSE w[x].i
  BY <1>1, <1>2, <1>3
<1>5. v \in Seq(Step(D)) /\ Len(v) = n
  <2>1. v = [x \in 1 .. n |-> v[x]]
    BY <1>1
  <2> HIDE DEF v
  <2> HIDE DEF Step
  <2>2. v \in [1 .. n -> Step(D)]
    BY <1>4, <2>1
  <2>3. n \in Nat
    BY <1>1
  <2> HIDE DEF n
  <2> QED  BY <1>2, <2>2, <2>3
<1> HIDE DEF v
<1>6. v # <<>> /\ Last(v) = v[n]
  BY <1>1, <1>5 DEF Last
<1>7. ASSUME NEW x \in 1 .. Len(v), NEW j \in 1 .. Len(On(v[x].m)), j < v[x].i
      PROVE  Over(D, v, B, x, On(v[x].m)[j]) \/ (x = Len(v) /\ On(v[x].m)[j] = d)
  <2>1. x \in 1 .. n /\ v[x].m = w[x].m
    BY <1>4, <1>5
  <2>2. CASE j < w[x].i
    <3>1. Over(D, w, B, x, On(w[x].m)[j])
      BY <1>7, <2>1, <2>2 DEF WalkOK
    <3>2. x < n => v[x + 1].m = w[x + 1].m
      <4>1. n \in Nat
        BY <1>1
      <4>2. x < n => x + 1 \in 1 .. n
        <5> HIDE DEF n
        <5> QED  BY <2>1, <4>1
      <4> QED  BY <1>4, <4>2
    <3> QED  BY <1>5, <2>1, <3>1, <3>2 DEF Over
  <2>3. CASE ~(j < w[x].i)
    <3>1. x = n /\ j = w[x].i
      <4>1. v[x].i = (IF x = n THEN w[x].i + 1 ELSE w[x].i) /\ j < v[x].i
        BY <1>4, <1>7, <2>1
      <4>2. w[x].i \in Nat
        BY <1>1, <2>1
      <4>3. j \in Int
        OBVIOUS
      <4> DEFINE a == w[x].i
                 b == v[x].i
      <4>4. b = (IF x = n THEN a + 1 ELSE a) /\ j < b /\ a \in Nat /\ ~(j < a)
        BY <2>3, <4>1, <4>2
      <4> HIDE DEF a, b, n
      <4>5. x = n /\ j = a
        BY <4>3, <4>4
      <4> QED  BY <4>5 DEF a
    <3> QED  BY <1>1, <1>5, <2>1, <3>1
  <2> QED  BY <2>2, <2>3
<1>8. Last(v).m = Last(w).m
  <2>1. n \in 1 .. n
    BY <1>1
  <2>2. v[n].m = w[n].m
    BY <1>4, <2>1
  <2> QED  BY <1>1, <1>6, <2>2
<1>9. \A q : Grey(v, q) <=> Grey(w, q)
  BY <1>1, <1>2, <1>4 DEF Grey
<1>10. PathOK(D, v, B)
  <2>1. PathOK(D, w, B)
    BY DEF WalkOK
  <2> QED  BY <1>4, <1>5, <2>1 DEF PathOK
<1>11. OnTo(D, v, B, d)
  BY <1>7 DEF OnTo
<1> QED  BY <1>6, <1>8, <1>9, <1>10, <1>11 DEF v, d

\* The module on top is done.
LEMMA WalkPopped ==
    ASSUME NEW D, Graph(D), Kept(D), NEW w, NEW B, WalkOK(D, w, B), BlackOK(D, B), w # <<>>,
           Last(w).i > Len(On(Last(w).m))
    PROVE  LET C == B \cup {Last(w).m} IN BlackOK(D, C) /\ WalkOK(D, Front(w), C)
<1> DEFINE n == Len(w)
           t == Last(w).m
           C == B \cup {t}
           f == Front(w)
<1>1. /\ w \in Seq(Step(D)) /\ n \in Nat \ {0} /\ DOMAIN w = 1 .. n /\ Last(w) = w[n]
      /\ \A x \in 1 .. n : w[x] \in Step(D) /\ w[x].m \in Nodes(D) /\ w[x].i \in Nat \ {0}
  BY WalkFacts
<1>2. t \in Nodes(D) /\ t \notin B /\ t = w[n].m /\ n \in 1 .. n
  BY <1>1 DEF WalkOK, PathOK
<1>3. D[t] \subseteq B
  <2> SUFFICES ASSUME NEW q \in D[t] PROVE q \in B
    OBVIOUS
  <2>1. q \in Nodes(D) /\ q \in Range(On(t)) /\ On(t) \in Seq(STRING)
    BY <1>2 DEF Kept
  <2>2. PICK j \in 1 .. Len(On(t)) : q = On(t)[j]
    BY <2>1, LenProperties DEF Range
  <2>3. j < w[n].i
    <3>1. Len(On(t)) \in Nat /\ w[n].i \in Nat /\ w[n].i > Len(On(t))
      BY <1>1, <1>2, <2>1, LenProperties
    <3> QED  BY <2>2, <3>1
  <2>4. Over(D, w, B, n, q)
    BY <1>2, <2>2, <2>3 DEF WalkOK
  <2> QED  BY <1>1, <2>1, <2>4 DEF Over
<1>4. BlackOK(D, C)
  <2>1. t \notin After(D, t)
    BY <1>2, <1>3, OutOf
  <2> HIDE DEF t
  <2> QED  BY <1>2, <1>3, <2>1 DEF BlackOK
<1>5. f \in Seq(Step(D)) /\ Len(f) = n - 1 /\ \A x \in 1 .. n - 1 : f[x] = w[x]
  <2>1. w \in Seq(Step(D)) /\ w # <<>>
    BY <1>1
  <2> QED  BY <2>1, FrontFacts
<1> HIDE DEF f, t
<1>6. \A x \in 1 .. Len(f) : x \in 1 .. n /\ x < n /\ f[x] = w[x]
  BY <1>1, <1>5
<1>7. \A x \in 1 .. Len(f) : f[x].m \notin C
  BY <1>2, <1>6 DEF WalkOK, PathOK
<1>8. \A x, y \in 1 .. Len(f) : x < y => f[x].m # f[y].m /\ f[y].m \in After(D, f[x].m)
  BY <1>6 DEF WalkOK, PathOK
<1>9. ASSUME NEW x \in 1 .. Len(f), NEW j \in 1 .. Len(On(f[x].m)), j < f[x].i
      PROVE  Over(D, f, C, x, On(f[x].m)[j])
  <2>1. Over(D, w, B, x, On(w[x].m)[j]) /\ f[x] = w[x] /\ x \in 1 .. n - 1
    BY <1>1, <1>5, <1>6, <1>9 DEF WalkOK
  <2>2. CASE x = n - 1
    <3>1. w[x + 1].m = t
      BY <1>1, <1>2, <2>2
    <3> QED  BY <2>1, <3>1 DEF Over
  <2>3. CASE x # n - 1
    <3>1. x < Len(f) /\ f[x + 1] = w[x + 1]
      <4>1. x < n - 1 /\ x + 1 \in 1 .. n - 1
        <5>1. n \in Nat /\ x \in 1 .. n - 1
          BY <1>1, <2>1
        <5> HIDE DEF n
        <5> QED  BY <2>3, <5>1
      <4> QED  BY <1>5, <4>1
    <3> QED  BY <2>1, <3>1 DEF Over
  <2> QED  BY <2>2, <2>3
<1>10. WalkOK(D, f, C)
  <2>1. PathOK(D, f, C)
    BY <1>5, <1>7, <1>8 DEF PathOK
  <2> QED  BY <1>9, <2>1 DEF WalkOK
<1> QED  BY <1>4, <1>10 DEF t, f

\* When every module that declares dependencies is done, none is on a cycle.
LEMMA AllDone ==
    ASSUME NEW D, Graph(D), NEW B, BlackOK(D, B), \A m \in Nodes(D) \ B : D[m] = {}
    PROVE  OnItself(D) = {}
<1> SUFFICES ASSUME NEW m \in OnItself(D) PROVE FALSE
  OBVIOUS
<1>1. m \in Nodes(D) /\ m \in After(D, m)
  BY DEF OnItself, After, Nodes
<1>2. m \notin B
  BY <1>1 DEF BlackOK
<1>3. {} \in ClosedIn(D) /\ D[m] = {}
  BY <1>1, <1>2 DEF ClosedIn, Nodes
<1> QED  BY <1>1, <1>3 DEF After

(***************************************************************************)
(* The search of the analysis.                                             *)
(***************************************************************************)
SearchOK ==
  /\ res \notin Judged => walk = <<>> /\ black = {}
  /\ res \in {"visit", "depcycle", "ok"} => ~Clash(aliases)
  /\ res = "visit" => WalkOK(Declared, walk, black) /\ BlackOK(Declared, black)
  /\ res = "ok" => OnItself(Declared) = {}
  /\ res = "depcycle" => OnItself(Declared) # {}
RInv == LInv /\ SearchOK

LEMMA SettledGraph ==
    ASSUME Settled, OneBlock
    PROVE  Nodes(Declared) = Known /\ Graph(Declared) /\ Kept(Declared)
<1>1. Nodes(Declared) = Known
  BY DEF Nodes, Declared
<1>2. \A m \in Known : Declared[m] = Range(On(m)) \cap Known
  BY DeclaredIs
<1>3. Graph(Declared)
  BY <1>1, <1>2 DEF Graph
<1>4. ASSUME NEW m PROVE On(m) \in Seq(STRING)
  <2> DEFINE I == {i \in DOMAIN deps : deps[i].n = m}
             x == CHOOSE y \in I : TRUE
  <2>1. deps \in Seq(Block)
    BY SettledIs DEF DepsOK, Once
  <2>2. \A i \in DOMAIN deps : deps[i] \in Block
    BY <2>1, LenProperties, ElementOfSeq
  <2>3. CASE I = {}
    <3>1. On(m) = <<>>
      BY <2>3 DEF On
    <3> QED  BY <3>1
  <2>4. CASE I # {}
    <3>1. On(m) = deps[x].on /\ x \in DOMAIN deps
      BY <2>4 DEF On
    <3> HIDE DEF x
    <3> QED  BY <2>2, <3>1 DEF Block
  <2> QED  BY <2>3, <2>4
<1>5. Kept(Declared)
  BY <1>1, <1>2, <1>4 DEF Kept
<1> QED  BY <1>1, <1>3, <1>5

\* The analysis is of a loaded program.
LEMMA JudgedSettled ==
    ASSUME ByFile, Reserved, LInv, res = "loaded" \/ res \in Judged
    PROVE  Settled
<1>1. Passed(res) = "loaded"
  BY DEF Passed
<1>2. "loaded" \notin Refusals
  BY DEF Refusals
<1> QED  BY <1>1, <1>2 DEF LInv, Settled, Given, Holds

\* The graph is the same in every step of it.
LEMMA SameGraph ==
    ASSUME UNCHANGED <<proj, modules, aliases, deps, decls>>
    PROVE  /\ Known' = Known /\ Declared' = Declared /\ \A m : On(m)' = On(m)
           /\ \A D, w, B : WalkOK(D, w, B)' = WalkOK(D, w, B) /\ BlackOK(D, B)' = BlackOK(D, B)
           /\ \A D : OnItself(D)' = OnItself(D)
<1>1. proj' = proj /\ modules' = modules /\ aliases' = aliases /\ deps' = deps /\ decls' = decls
  OBVIOUS
<1>2. \A p : Text(p)' = Text(p)
  BY <1>1, StaticFiles
<1>3. DeclModules' = DeclModules /\ Blocks' = Blocks
  BY <1>1, <1>2 DEF DeclModules, Blocks
<1>4. Known' = Known
  BY <1>1, <1>3 DEF Known
<1>5. Declared' = Declared
  BY <1>3, <1>4 DEF Declared
<1>6. \A m : On(m)' = On(m)
  BY <1>1 DEF On
<1>7. \A D, w, B, x, d : Over(D, w, B, x, d)' = Over(D, w, B, x, d)
  BY DEF Over
<1>8. \A D, m : After(D, m)' = After(D, m)
  BY DEF After
<1>9. \A D, w, B : PathOK(D, w, B)' = PathOK(D, w, B)
  BY DEF PathOK
<1>10. \A D, w, B : WalkOK(D, w, B)' = WalkOK(D, w, B)
  BY <1>6, <1>7, <1>9 DEF WalkOK
<1>11. \A D, B : BlackOK(D, B)' = BlackOK(D, B)
  BY DEF BlackOK
<1>12. \A D : OnItself(D)' = OnItself(D)
  BY DEF OnItself
<1> QED  BY <1>4, <1>5, <1>6, <1>10, <1>11, <1>12

\* What a step of the search has to show.
LEMMA SearchGoes ==
    ASSUME ByFile, Reserved, LInv, SearchOK, res = "loaded" \/ res = "visit", res' \in Judged, 
           UNCHANGED <<proj, stack, loaded, modules, fileModule, deps, aliases, decls>>,
           res' \in {"visit", "depcycle", "ok"} => ~Clash(aliases),
           res' = "visit" => WalkOK(Declared, walk', black') /\ BlackOK(Declared, black'),
           res' = "ok" => OnItself(Declared) = {},
           res' = "depcycle" => OnItself(Declared) # {}
    PROVE  RInv'
<1>1. LInv'
  <2>1. Passed(res) = "loaded" /\ Passed(res') = "loaded"
    BY DEF Passed, Judged
  <2> QED  BY <2>1, AnalysisHolds
<1>2. Declared' = Declared /\ aliases' = aliases
  BY SameGraph
<1>3. Clash(aliases)' = Clash(aliases)
  BY <1>2 DEF Clash
<1>4. res' = "visit" => WalkOK(Declared, walk, black)' /\ BlackOK(Declared, black)'
  BY <1>2, SameGraph
<1>5. OnItself(Declared)' = OnItself(Declared)
  BY <1>2, SameGraph
<1>6. Judged' = Judged
  BY DEF Judged
<1>7. SearchOK'
  BY <1>3, <1>4, <1>5, <1>6 DEF SearchOK
<1> QED  BY <1>1, <1>7 DEF RInv

LEMMA AnalyseHolds ==
    ASSUME ByFile, Reserved, OneBlock, RInv, Analyse,
           UNCHANGED <<proj, stack, loaded, modules, fileModule, deps, aliases, decls>>
    PROVE  RInv'
<1>1. LInv /\ SearchOK /\ res = "loaded" /\ walk' = walk /\ black' = black
  BY DEF RInv, Analyse, search
<1>2. /\ res' \in {"clash", "undeclared", "visit"} /\ (res' = "visit" => ~Clash(aliases))
  BY DEF Analyse
<1>3. walk = <<>> /\ black = {}
  BY <1>1 DEF SearchOK, Judged
<1>4. WalkOK(Declared, <<>>, {}) /\ BlackOK(Declared, {})
  <2>1. <<>> \in Seq(Step(Declared)) /\ Len(<<>>) = 0
    OBVIOUS
  <2>2. PathOK(Declared, <<>>, {})
    BY <2>1 DEF PathOK
  <2>3. 1 .. Len(<<>>) = {}
    BY <2>1
  <2>4. WalkOK(Declared, <<>>, {})
    BY <2>2, <2>3, Zenon DEF WalkOK
  <2> QED  BY <2>4 DEF BlackOK
<1>5. res' \in Judged /\ res' # "ok" /\ res' # "depcycle"
  BY <1>2 DEF Judged
<1>6. res' \in {"visit", "depcycle", "ok"} => ~Clash(aliases)
  BY <1>2, <1>5
<1> QED  BY <1>1, <1>3, <1>4, <1>5, <1>6, SearchGoes

LEMMA BeginHolds ==
    ASSUME ByFile, Reserved, OneBlock, RInv, Begin,
           UNCHANGED <<proj, stack, loaded, modules, fileModule, deps, aliases, decls>>
    PROVE  RInv'
<1> DEFINE d == deps[Min(Roots)].n
<1>1. /\ LInv /\ SearchOK /\ res = "visit" /\ res' = "visit" /\ black' = black /\ walk = <<>>
      /\ walk' = Visited(<<>>, d) /\ Roots # {}
  BY DEF RInv, Begin
<1>2. Settled
  BY <1>1, JudgedSettled DEF Judged
<1>3. Nodes(Declared) = Known /\ Graph(Declared)
  BY <1>2, SettledGraph
<1>4. WalkOK(Declared, <<>>, black) /\ BlackOK(Declared, black) /\ ~Clash(aliases)
  BY <1>1 DEF SearchOK
<1>5. d \in Known /\ d \notin black
  <2>1. DOMAIN deps = 1 .. Len(deps) /\ Len(deps) \in Nat
    <3>1. deps \in Seq(Block)
      BY <1>2, SettledIs DEF DepsOK, Once
    <3> QED  BY <3>1, LenProperties
  <2>2. Roots \subseteq Nat
    BY <2>1 DEF Roots
  <2>3. Min(Roots) \in Roots
    BY <1>1, <2>2, MinIs
  <2> QED  BY <2>3 DEF Roots
<1> HIDE DEF d
<1>6. PathOK(Declared, <<>>, black) /\ OnTo(Declared, <<>>, black, d) /\ ~Grey(<<>>, d)
  <2>1. PathOK(Declared, <<>>, black)
    BY <1>4 DEF WalkOK
  <2>2. 1 .. Len(<<>>) = {} /\ DOMAIN <<>> = {}
    OBVIOUS
  <2>3. OnTo(Declared, <<>>, black, d)
    BY <2>2, Zenon DEF OnTo
  <2>4. ~Grey(<<>>, d)
    BY <2>2, Zenon DEF Grey
  <2> QED  BY <2>1, <2>3, <2>4
<1>7. WalkOK(Declared, walk', black)
  BY <1>1, <1>3, <1>5, <1>6, WalkPushed
<1>8. res' \in Judged
  BY <1>1 DEF Judged
<1> QED  BY <1>1, <1>4, <1>7, <1>8, SearchGoes

LEMMA DependHolds ==
    ASSUME ByFile, Reserved, OneBlock, RInv, Depend,
           UNCHANGED <<proj, stack, loaded, modules, fileModule, deps, aliases, decls>>
    PROVE  RInv'
<1> DEFINE d == On(At.m)[At.i]
           w == [walk EXCEPT ![Len(walk)].i = @ + 1]
           D == Declared
<1>1. /\ LInv /\ SearchOK /\ res = "visit" /\ black' = black /\ walk # <<>> /\ At.i <= Len(On(At.m))
      /\ Grey(walk, d) => res' = "depcycle"
      /\ ~Grey(walk, d) => res' = "visit" /\ walk' = IF d \in Known \ black THEN Visited(w, d) ELSE w
  BY DEF RInv, Depend
<1>2. Settled
  BY <1>1, JudgedSettled DEF Judged
<1>3. Nodes(D) = Known /\ Graph(D) /\ Kept(D)
  BY <1>2, SettledGraph
<1>4. WalkOK(D, walk, black) /\ BlackOK(D, black) /\ ~Clash(aliases)
  BY <1>1 DEF SearchOK
<1> HIDE DEF D
<1>5. At.m \in Known /\ At = Last(walk) /\ At.i \in Nat \ {0}
  BY <1>1, <1>3, <1>4, WalkFacts DEF At
<1>6. d \in Known => d \in D[At.m]
  <2>1. On(At.m) \in Seq(STRING) /\ D[At.m] = Range(On(At.m)) \cap Known
    BY <1>3, <1>5 DEF Kept
  <2>2. At.i \in 1 .. Len(On(At.m))
    <3>1. Len(On(At.m)) \in Nat
      BY <2>1, LenProperties
    <3> QED  BY <1>1, <1>5, <3>1
  <2>3. d \in Range(On(At.m))
    BY <2>1, <2>2, LenProperties DEF Range
  <2> QED  BY <2>1, <2>3
<1>7. /\ PathOK(D, w, black) /\ OnTo(D, w, black, d) /\ Last(w).m = At.m /\ w # <<>>
      /\ \A q : Grey(w, q) <=> Grey(walk, q)
  BY <1>1, <1>4, <1>5, WalkOn
<1> HIDE DEF d, w
<1>8. CASE Grey(walk, d)
  <2>1. d \in Known
    BY <1>1, <1>3, <1>4, <1>8, WalkFacts DEF Grey
  <2>2. OnItself(D) # {}
    BY <1>1, <1>3, <1>4, <1>5, <1>6, <1>8, <2>1, GreyAgain
  <2>3. res' = "depcycle" /\ res' \in Judged
    BY <1>1, <1>8 DEF Judged
  <2> QED  BY <1>1, <1>4, <2>2, <2>3, SearchGoes DEF D
<1>9. CASE ~Grey(walk, d)
  <2>1. WalkOK(D, walk', black)
    <3>1. CASE d \in Known \ black
      <4>1. walk' = Visited(w, d)
        BY <1>1, <1>9, <3>1
      <4>2. d \in Nodes(D) /\ d \notin black /\ d \in D[Last(w).m] /\ ~Grey(w, d)
        BY <1>3, <1>6, <1>7, <1>9, <3>1
      <4> QED  BY <1>3, <1>7, <4>1, <4>2, WalkPushed
    <3>2. CASE ~(d \in Known \ black)
      <4>1. walk' = w
        BY <1>1, <1>9, <3>2
      <4>2. \A x : Over(D, w, black, x, d)
        BY <1>3, <3>2 DEF Over
      <4>3. WalkOK(D, w, black)
        BY <1>7, <4>2 DEF WalkOK, OnTo
      <4> QED  BY <4>1, <4>3
    <3> QED  BY <3>1, <3>2
  <2>2. res' = "visit" /\ res' \in Judged
    BY <1>1, <1>9 DEF Judged
  <2> QED  BY <1>1, <1>4, <2>1, <2>2, SearchGoes DEF D
<1> QED  BY <1>8, <1>9

LEMMA LeaveHolds ==
    ASSUME ByFile, Reserved, OneBlock, RInv, Leave,
           UNCHANGED <<proj, stack, loaded, modules, fileModule, deps, aliases, decls>>
    PROVE  RInv'
<1>1. /\ LInv /\ SearchOK /\ res = "visit" /\ res' = "visit" /\ walk # <<>>
      /\ Last(walk).i > Len(On(Last(walk).m)) /\ walk' = Front(walk) /\ black' = black \cup {Last(walk).m}
  BY DEF RInv, Leave, At
<1>2. Settled
  BY <1>1, JudgedSettled DEF Judged
<1>3. Graph(Declared) /\ Kept(Declared)
  BY <1>2, SettledGraph
<1>4. WalkOK(Declared, walk, black) /\ BlackOK(Declared, black) /\ ~Clash(aliases)
  BY <1>1 DEF SearchOK
<1>5. WalkOK(Declared, walk', black') /\ BlackOK(Declared, black')
  BY <1>1, <1>3, <1>4, WalkPopped
<1>6. res' \in Judged
  BY <1>1 DEF Judged
<1> QED  BY <1>1, <1>4, <1>5, <1>6, SearchGoes

LEMMA AcceptHolds ==
    ASSUME ByFile, Reserved, OneBlock, RInv, Accept,
           UNCHANGED <<proj, stack, loaded, modules, fileModule, deps, aliases, decls>>
    PROVE  RInv'
<1>1. LInv /\ SearchOK /\ res = "visit" /\ res' = "ok" /\ Roots = {}
  BY DEF RInv, Accept
<1>2. Settled
  BY <1>1, JudgedSettled DEF Judged
<1>3. Nodes(Declared) = Known /\ Graph(Declared) /\ Kept(Declared)
  BY <1>2, SettledGraph
<1>4. BlackOK(Declared, black) /\ ~Clash(aliases)
  BY <1>1 DEF SearchOK
<1>5. ASSUME NEW m \in Nodes(Declared) \ black PROVE Declared[m] = {}
  <2>1. {i \in DOMAIN deps : deps[i].n = m} = {}
    BY <1>1, <1>3 DEF Roots
  <2>2. On(m) = <<>>
    BY <2>1 DEF On
  <2>3. Range(<<>>) = {}
    BY DEF Range
  <2> QED  BY <1>3, <2>2, <2>3 DEF Kept
<1>6. OnItself(Declared) = {}
  BY <1>3, <1>4, <1>5, AllDone
<1>7. res' \in Judged
  BY <1>1 DEF Judged
<1> QED  BY <1>1, <1>4, <1>6, <1>7, SearchGoes

LEMMA LoadKeeps ==
    ASSUME ByFile, Reserved, RInv, LoadNext, UNCHANGED search
    PROVE  RInv'
<1>1. LInv' /\ res \notin Judged /\ res' \notin Judged
  BY LoadHolds DEF RInv
<1>2. walk' = <<>> /\ black' = {}
  BY <1>1 DEF RInv, SearchOK, search
<1>3. Judged' = Judged /\ res' \notin {"visit", "depcycle", "ok"}
  BY <1>1 DEF Judged
<1> QED  BY <1>1, <1>2, <1>3 DEF RInv, SearchOK

LEMMA StutterKeeps ==
    ASSUME RInv, UNCHANGED vars
    PROVE  RInv'
<1>1. /\ UNCHANGED <<proj, stack, loaded, modules, fileModule, deps, aliases, decls>>
      /\ res' = res /\ walk' = walk /\ black' = black
  BY DEF vars, search
<1>2. LInv'
  <2>1. Passed(res') = Passed(res)
    BY <1>1
  <2> QED  BY <1>1, <2>1, AnalysisHolds DEF RInv
<1>3. SearchOK'
  <2>1. Declared' = Declared /\ aliases' = aliases /\ OnItself(Declared)' = OnItself(Declared)
    BY <1>1, SameGraph
  <2>2. Clash(aliases)' = Clash(aliases) /\ Judged' = Judged
    BY <2>1 DEF Clash, Judged
  <2>3. WalkOK(Declared, walk, black)' = WalkOK(Declared, walk, black) /\ BlackOK(Declared, black)' = BlackOK(Declared, black)
    BY <1>1, <2>1, SameGraph
  <2> QED  BY <1>1, <2>1, <2>2, <2>3 DEF RInv, SearchOK
<1> QED  BY <1>2, <1>3 DEF RInv

LEMMA SearchIsExact ==
    ASSUME ByFile, Reserved, OneBlock, RInv
    PROVE  AliasMeans /\ DepsAcyclic
<1>1. DepsAcyclic
  BY DEF DepsAcyclic, RInv, SearchOK
<1>2. ASSUME res = "ok" PROVE AliasMeans
  <2>1. Settled /\ ~Clash(aliases)
    BY <1>2, JudgedSettled DEF RInv, SearchOK, Judged
  <2> QED  BY <2>1, NamesMean DEF AliasMeans
<1> QED  BY <1>1, <1>2 DEF AliasMeans

\* What the loader and the analysis of modules do (loadRec, resolveImport, the
\* constructor of Semantic): a project whose texts are the files' own, whose files
\* have no library module's name and whose modules' dependencies are declared in
\* one way is loaded exactly when it can be, its declarations dependencies first;
\* the names its files give mean one module each, and it is refused for a cycle of
\* modules exactly when its blocks declare one.
THEOREM ProjectsLoad == ASSUME ByFile, Reserved, OneBlock PROVE ImportsSpec => []LoadsExactly
<1>1. ImportsInit => RInv
  <2> SUFFICES ASSUME ImportsInit PROVE RInv
    OBVIOUS
  <2>1. LInv
    BY InitHolds
  <2>2. SearchOK
    BY DEF ImportsInit, SearchOK, Judged
  <2> QED  BY <2>1, <2>2 DEF RInv
<1>2. RInv /\ [ImportsNext]_vars => RInv'
  <2> SUFFICES ASSUME RInv, [ImportsNext]_vars PROVE RInv'
    OBVIOUS
  <2>1. CASE LoadNext /\ UNCHANGED search
    BY <2>1, LoadKeeps
  <2>2. CASE ModulesNext
    BY <2>2, AnalyseHolds, BeginHolds, DependHolds, LeaveHolds, AcceptHolds DEF ModulesNext
  <2>3. CASE UNCHANGED vars
    BY <2>3, StutterKeeps
  <2> QED  BY <2>1, <2>2, <2>3 DEF ImportsNext
<1>3. RInv => LoadsExactly
  BY HoldsIsExact, SearchIsExact DEF RInv, LoadsExactly
<1> QED  BY <1>1, <1>2, <1>3, PTL DEF ImportsSpec
=============================================================================
