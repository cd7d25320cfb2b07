--------------------------- MODULE PackagesProofs ---------------------------
(***************************************************************************)
(* What the package manager promises, for any number of packages, versions *)
(* and commands.                                                           *)
(***************************************************************************)
EXTENDS Packages, SeqLemmas, FiniteSetTheorems, FunctionTheorems

(***************************************************************************)
(* The order of versions.                                                  *)
(***************************************************************************)
Pairs == Int \X Int

LEMMA ToSetIs ==
    ASSUME NEW S, NEW q \in Seq(S)
    PROVE  /\ ToSet(q) = {q[i] : i \in 1 .. Len(q)} /\ DOMAIN q = 1 .. Len(q)
           /\ ToSet(q) \subseteq S
<1>1. DOMAIN q = 1 .. Len(q) /\ \A i \in 1 .. Len(q) : q[i] \in S
  BY LenProperties, ElementOfSeq
<1> QED  BY <1>1 DEF ToSet

LEMMA CmpIdIs ==
    ASSUME NEW a \in {0, 1} \X Nat, NEW b \in {0, 1} \X Nat
    PROVE  /\ CmpId(a, b) \in {-1, 0, 1}
           /\ CmpId(a, b) < 0 <=> Under(a, b)
           /\ CmpId(a, b) > 0 <=> Under(b, a)
           /\ CmpId(a, b) = 0 <=> a = b
<1>1. a[1] \in Nat /\ a[2] \in Nat /\ b[1] \in Nat /\ b[2] \in Nat
      /\ (a = b <=> a[1] = b[1] /\ a[2] = b[2])
  OBVIOUS
<1> QED  BY <1>1 DEF CmpId, Under, Sign

\* Pre-releases: the first difference decides, or else the length.
LEMMA CmpPreIs ==
    ASSUME NEW a \in Seq({0, 1} \X Nat), NEW b \in Seq({0, 1} \X Nat)
    PROVE  \/ /\ CmpPre(a, b) = Sign(Len(a), Len(b))
              /\ \A i \in 1 .. Len(a) : i <= Len(b) => a[i] = b[i]
           \/ \E i \in 1 .. Len(a) : /\ i <= Len(b) /\ a[i] # b[i]
                                     /\ CmpPre(a, b) = CmpId(a[i], b[i])
                                     /\ \A j \in 1 .. i - 1 : a[j] = b[j]
<1> DEFINE d == {i \in DOMAIN a \cap DOMAIN b : CmpId(a[i], b[i]) # 0}
           least(i) == i \in d /\ \A k \in d : i <= k
<1>1. /\ Len(a) \in Nat /\ Len(b) \in Nat /\ DOMAIN a = 1 .. Len(a) /\ DOMAIN b = 1 .. Len(b)
      /\ \A i \in 1 .. Len(a) : a[i] \in {0, 1} \X Nat
      /\ \A i \in 1 .. Len(b) : b[i] \in {0, 1} \X Nat
  BY LenProperties, ElementOfSeq
<1>2. \A i \in 1 .. Len(a) : i <= Len(b) => (i \in d <=> a[i] # b[i])
  BY <1>1, CmpIdIs
<1>3. d \subseteq Nat /\ \A i \in d : i \in 1 .. Len(a) /\ i <= Len(b)
  BY <1>1
<1>4. CASE d = {}
  <2>1. CmpPre(a, b) = Sign(Len(a), Len(b))
    BY <1>4 DEF CmpPre
  <2> HIDE DEF d
  <2> QED  BY <1>2, <1>4, <2>1
<1>5. CASE d # {}
  <2>1. \E i \in d : \A k \in d : i <= k
    <3> HIDE DEF d
    <3> QED  BY <1>3, <1>5, Least
  <2> DEFINE i == CHOOSE j \in d : \A k \in d : j <= k
  <2>2. CmpPre(a, b) = CmpId(a[i], b[i])
    BY <1>5 DEF CmpPre
  <2> HIDE DEF d
  <2>3. i \in d /\ \A k \in d : i <= k
    BY <2>1
  <2> HIDE DEF i
  <2>4. \A j \in 1 .. i - 1 : a[j] = b[j]
    <3> TAKE j \in 1 .. i - 1
    <3>1. j \in 1 .. Len(a) /\ j <= Len(b) /\ ~(i <= j)
      BY <1>1, <1>3, <2>3
    <3> QED  BY <1>2, <2>3, <3>1
  <2> QED  BY <1>2, <1>3, <2>2, <2>3, <2>4
<1> QED  BY <1>4, <1>5

LEMMA RankIs ==
    ASSUME NEW v \in Version
    PROVE  /\ v.major \in Nat /\ v.minor \in Nat /\ v.patch \in Nat /\ v.pre \in Seq({0, 1} \X Nat)
           /\ Rank(v) \in Seq(Pairs) /\ Len(v.pre) \in Nat /\ Len(Rank(v)) = Len(v.pre) + 4
           /\ DOMAIN Rank(v) = 1 .. Len(v.pre) + 4
           /\ Rank(v)[1] = <<0, v.major>> /\ Rank(v)[2] = <<0, v.minor>> /\ Rank(v)[3] = <<0, v.patch>>
           /\ Rank(v)[4] = <<IF v.pre = <<>> THEN 1 ELSE 0, 0>>
           /\ \A i \in 1 .. Len(v.pre) : Rank(v)[i + 4] = v.pre[i] /\ v.pre[i] \in {0, 1} \X Nat
<1> DEFINE h == <<<<0, v.major>>, <<0, v.minor>>, <<0, v.patch>>, <<IF v.pre = <<>> THEN 1 ELSE 0, 0>>>>
           p == v.pre
           r == Rank(v)
<1>1. v.major \in Nat /\ v.minor \in Nat /\ v.patch \in Nat /\ p \in Seq({0, 1} \X Nat)
  BY DEF Version
<1>2. p \in Seq(Pairs) /\ Len(p) \in Nat /\ \A i \in 1 .. Len(p) : p[i] \in {0, 1} \X Nat
  <2>1. \A i \in 1 .. Len(p) : p[i] \in {0, 1} \X Nat /\ p[i] \in Pairs
    BY <1>1, ElementOfSeq DEF Pairs
  <2>2. Len(p) \in Nat /\ DOMAIN p = 1 .. Len(p) /\ p \in [1 .. Len(p) -> {0, 1} \X Nat]
    BY <1>1, LenProperties
  <2>3. p \in [1 .. Len(p) -> Pairs]
    BY <2>1, <2>2
  <2> QED  BY <2>1, <2>2, <2>3, SeqDef
<1>3. /\ h \in Seq(Pairs) /\ Len(h) = 4
      /\ h[1] = <<0, v.major>> /\ h[2] = <<0, v.minor>> /\ h[3] = <<0, v.patch>>
      /\ h[4] = <<IF v.pre = <<>> THEN 1 ELSE 0, 0>>
  BY <1>1 DEF Pairs
<1>4. r = h \o p
  BY DEF Rank
<1> HIDE DEF h, p, r
<1>5. /\ r \in Seq(Pairs) /\ Len(r) = 4 + Len(p)
      /\ \A i \in 1 .. 4 + Len(p) : r[i] = IF i <= 4 THEN h[i] ELSE p[i - 4]
  <2>1. /\ h \o p \in Seq(Pairs) /\ Len(h \o p) = Len(h) + Len(p)
        /\ \A i \in 1 .. Len(h) + Len(p) : (h \o p)[i] = IF i <= Len(h) THEN h[i] ELSE p[i - Len(h)]
    BY <1>2, <1>3, ConcatProperties, Zenon
  <2> QED  BY <1>3, <1>4, <2>1
<1>6. DOMAIN r = 1 .. Len(p) + 4 /\ Len(r) = Len(p) + 4
  BY <1>2, <1>5, LenProperties
<1>7. r[1] = h[1] /\ r[2] = h[2] /\ r[3] = h[3] /\ r[4] = h[4]
  BY <1>2, <1>5
<1>8. ASSUME NEW i \in 1 .. Len(p) PROVE r[i + 4] = p[i]
  BY <1>2, <1>5
<1> QED  BY <1>1, <1>2, <1>3, <1>5, <1>6, <1>7, <1>8 DEF p, r

\* The order of a dictionary is one.
LEMMA UnderOrder ==
    ASSUME NEW x \in Pairs, NEW y \in Pairs, NEW z \in Pairs
    PROVE  /\ ~Under(x, x)
           /\ Under(x, y) => ~Under(y, x)
           /\ Under(x, y) /\ Under(y, z) => Under(x, z)
<1>1. x[1] \in Int /\ x[2] \in Int /\ y[1] \in Int /\ y[2] \in Int /\ z[1] \in Int /\ z[2] \in Int
  BY DEF Pairs
<1> QED  BY <1>1 DEF Under

Prefix(r, s) == Len(r) < Len(s) /\ \A i \in 1 .. Len(r) : r[i] = s[i]
Splits(r, s, i) == i \in 1 .. Len(r) /\ i <= Len(s) /\ Under(r[i], s[i]) /\ \A j \in 1 .. i - 1 : r[j] = s[j]

LEMMA BeforeIs ==
    ASSUME NEW a \in Version, NEW b \in Version
    PROVE  Before(a, b) <=> Prefix(Rank(a), Rank(b)) \/ \E i \in Nat : Splits(Rank(a), Rank(b), i)
<1> DEFINE r == Rank(a)
           s == Rank(b)
<1>1. Len(r) \in Nat /\ Len(s) \in Nat /\ DOMAIN r = 1 .. Len(r) /\ DOMAIN s = 1 .. Len(s)
  BY RankIs
<1>2. Before(a, b) <=> \/ Len(r) < Len(s) /\ \A i \in DOMAIN r : r[i] = s[i]
                       \/ \E i \in DOMAIN r \cap DOMAIN s : Under(r[i], s[i]) /\ \A j \in 1 .. i - 1 : r[j] = s[j]
  BY DEF Before
<1> HIDE DEF r, s
<1>3. (\E i \in DOMAIN r \cap DOMAIN s : Under(r[i], s[i]) /\ \A j \in 1 .. i - 1 : r[j] = s[j])
         <=> \E i \in Nat : Splits(r, s, i)
  BY <1>1 DEF Splits
<1> QED  BY <1>1, <1>2, <1>3 DEF Prefix, r, s

LEMMA BeforeTransitive ==
    ASSUME NEW a \in Version, NEW b \in Version, NEW c \in Version, Before(a, b), Before(b, c)
    PROVE  Before(a, c)
<1> DEFINE r == Rank(a)
           s == Rank(b)
           t == Rank(c)
<1>1. /\ Len(r) \in Nat /\ Len(s) \in Nat /\ Len(t) \in Nat
      /\ \A i \in 1 .. Len(r) : r[i] \in Pairs
      /\ \A i \in 1 .. Len(s) : s[i] \in Pairs
      /\ \A i \in 1 .. Len(t) : t[i] \in Pairs
  BY RankIs, ElementOfSeq, LenProperties
<1>2. /\ Prefix(r, s) \/ \E i \in Nat : Splits(r, s, i)
      /\ Prefix(s, t) \/ \E i \in Nat : Splits(s, t, i)
  BY BeforeIs
<1>3. Prefix(r, t) \/ (\E i \in Nat : Splits(r, t, i)) => Before(a, c)
  BY BeforeIs
<1> HIDE DEF r, s, t
<1>4. CASE Prefix(r, s) /\ Prefix(s, t)
  BY <1>1, <1>3, <1>4 DEF Prefix
<1>5. ASSUME Prefix(r, s), NEW j \in Nat, Splits(s, t, j) PROVE Before(a, c)
  <2>1. CASE j <= Len(r)
    <3>1. Splits(r, t, j)
      BY <1>1, <1>5, <2>1 DEF Prefix, Splits
    <3> QED  BY <1>3, <3>1
  <2>2. CASE j > Len(r)
    <3>1. Prefix(r, t)
      BY <1>1, <1>5, <2>2 DEF Prefix, Splits
    <3> QED  BY <1>3, <3>1
  <2> QED  BY <1>1, <2>1, <2>2
<1>6. ASSUME NEW i \in Nat, Splits(r, s, i), Prefix(s, t) PROVE Before(a, c)
  <2>1. Splits(r, t, i)
    BY <1>1, <1>6 DEF Prefix, Splits
  <2> QED  BY <1>3, <2>1
<1>7. ASSUME NEW i \in Nat, Splits(r, s, i), NEW j \in Nat, Splits(s, t, j) PROVE Before(a, c)
  <2>1. CASE i < j
    <3>1. Splits(r, t, i)
      BY <1>1, <1>7, <2>1 DEF Splits
    <3> QED  BY <1>3, <3>1
  <2>2. CASE j < i
    <3>1. Splits(r, t, j)
      BY <1>1, <1>7, <2>2 DEF Splits
    <3> QED  BY <1>3, <3>1
  <2>3. CASE i = j
    <3>1. r[i] \in Pairs /\ s[i] \in Pairs /\ t[i] \in Pairs /\ Under(r[i], s[i]) /\ Under(s[i], t[i])
      BY <1>1, <1>7, <2>3 DEF Splits
    <3>2. Under(r[i], t[i])
      BY <3>1, UnderOrder
    <3>3. Splits(r, t, i)
      BY <1>1, <1>7, <2>3, <3>2 DEF Splits
    <3> QED  BY <1>3, <3>3
  <2> QED  BY <2>1, <2>2, <2>3
<1> QED  BY <1>2, <1>4, <1>5, <1>6, <1>7

LEMMA BeforeAsymmetric ==
    ASSUME NEW a \in Version, NEW b \in Version, Before(a, b)
    PROVE  ~Before(b, a)
<1> SUFFICES ASSUME Before(b, a) PROVE FALSE
  OBVIOUS
<1> DEFINE r == Rank(a)
<1>1. Before(a, a)
  BY BeforeTransitive
<1>2. Len(r) \in Nat /\ \A i \in 1 .. Len(r) : r[i] \in Pairs
  BY RankIs, ElementOfSeq, LenProperties
<1>3. Prefix(r, r) \/ \E i \in Nat : Splits(r, r, i)
  BY <1>1, BeforeIs
<1> HIDE DEF r
<1>4. PICK i \in Nat : Splits(r, r, i)
  BY <1>2, <1>3 DEF Prefix
<1> QED  BY <1>2, <1>4, UnderOrder DEF Splits

\* compareSemVer is that order: negative when the first comes before the second,
\* zero only for equals.
LEMMA CmpPreOf ==
    ASSUME NEW a \in Version, NEW b \in Version
    PROVE  \/ /\ CmpPre(a.pre, b.pre) = Sign(Len(a.pre), Len(b.pre))
              /\ \A i \in 1 .. Len(a.pre) : i <= Len(b.pre) => a.pre[i] = b.pre[i]
           \/ \E i \in 1 .. Len(a.pre) : /\ i <= Len(b.pre) /\ a.pre[i] # b.pre[i]
                                          /\ CmpPre(a.pre, b.pre) = CmpId(a.pre[i], b.pre[i])
                                          /\ \A j \in 1 .. i - 1 : a.pre[j] = b.pre[j]
<1> DEFINE p == a.pre
           q == b.pre
<1>1. p \in Seq({0, 1} \X Nat) /\ q \in Seq({0, 1} \X Nat)
  BY RankIs
<1> HIDE DEF p, q
<1>2. \/ /\ CmpPre(p, q) = Sign(Len(p), Len(q))
         /\ \A i \in 1 .. Len(p) : i <= Len(q) => p[i] = q[i]
      \/ \E i \in 1 .. Len(p) : /\ i <= Len(q) /\ p[i] # q[i]
                                /\ CmpPre(p, q) = CmpId(p[i], q[i])
                                /\ \A j \in 1 .. i - 1 : p[j] = q[j]
  BY <1>1, CmpPreIs
<1> QED  BY <1>2 DEF p, q

LEMMA CompareOne ==
    ASSUME NEW a \in Version, NEW b \in Version
    PROVE  /\ CompareSemVer(a, b) \in {-1, 0, 1}
           /\ CompareSemVer(a, b) = -1 => Before(a, b)
           /\ CompareSemVer(a, b) = 1 => Before(b, a)
           /\ CompareSemVer(a, b) = 0 => a = b
<1> DEFINE r == Rank(a)
           s == Rank(b)
<1>0. /\ a.major \in Nat /\ a.minor \in Nat /\ a.patch \in Nat /\ a.pre \in Seq({0, 1} \X Nat)
      /\ b.major \in Nat /\ b.minor \in Nat /\ b.patch \in Nat /\ b.pre \in Seq({0, 1} \X Nat)
  BY RankIs
<1>1. Len(a.pre) \in Nat /\ Len(b.pre) \in Nat /\ Len(r) = Len(a.pre) + 4 /\ Len(s) = Len(b.pre) + 4
  BY RankIs
<1>h. /\ r[1] = <<0, a.major>> /\ r[2] = <<0, a.minor>> /\ r[3] = <<0, a.patch>>
      /\ r[4] = <<IF a.pre = <<>> THEN 1 ELSE 0, 0>>
      /\ s[1] = <<0, b.major>> /\ s[2] = <<0, b.minor>> /\ s[3] = <<0, b.patch>>
      /\ s[4] = <<IF b.pre = <<>> THEN 1 ELSE 0, 0>>
  BY RankIs
<1>2. /\ \A i \in 1 .. Len(a.pre) : r[i + 4] = a.pre[i] /\ a.pre[i] \in {0, 1} \X Nat
      /\ \A i \in 1 .. Len(b.pre) : s[i + 4] = b.pre[i] /\ b.pre[i] \in {0, 1} \X Nat
  BY RankIs
<1>3. /\ Prefix(r, s) \/ (\E i \in Nat : Splits(r, s, i)) => Before(a, b)
      /\ Prefix(s, r) \/ (\E i \in Nat : Splits(s, r, i)) => Before(b, a)
  BY BeforeIs
<1> HIDE DEF r, s
<1>4. ASSUME NEW i \in Nat, i >= 1, i <= Len(r), i <= Len(s), \A j \in 1 .. i - 1 : r[j] = s[j]
      PROVE  /\ Under(r[i], s[i]) => Before(a, b)
             /\ Under(s[i], r[i]) => Before(b, a)
  BY <1>1, <1>3, <1>4 DEF Splits
<1>e. /\ a.major = b.major => r[1] = s[1]
      /\ a.minor = b.minor => r[2] = s[2]
      /\ a.patch = b.patch => r[3] = s[3]
      /\ (a.pre = <<>>) = (b.pre = <<>>) => r[4] = s[4]
  BY <1>h
<1>u. /\ a.major < b.major => Under(r[1], s[1])
      /\ a.major > b.major => Under(s[1], r[1])
      /\ a.minor < b.minor => Under(r[2], s[2])
      /\ a.minor > b.minor => Under(s[2], r[2])
      /\ a.patch < b.patch => Under(r[3], s[3])
      /\ a.patch > b.patch => Under(s[3], r[3])
      /\ (a.pre = <<>>) # (b.pre = <<>>) => IF a.pre = <<>> THEN Under(s[4], r[4]) ELSE Under(r[4], s[4])
  BY <1>0, <1>h DEF Under
<1> DEFINE Decides(i) == /\ Under(r[i], s[i]) => Before(a, b)
                         /\ Under(s[i], r[i]) => Before(b, a)
<1>f. ASSUME NEW i \in 1 .. 4, \A j \in 1 .. i - 1 : r[j] = s[j]
      PROVE  Decides(i)
  <2>1. i \in Nat /\ i >= 1 /\ i <= Len(r) /\ i <= Len(s)
    BY <1>1
  <2> QED  BY <1>4, <1>f, <2>1
<1>d. /\ Decides(1)
      /\ r[1] = s[1] => Decides(2)
      /\ r[1] = s[1] /\ r[2] = s[2] => Decides(3)
      /\ r[1] = s[1] /\ r[2] = s[2] /\ r[3] = s[3] => Decides(4)
  <2> HIDE DEF Decides
  <2>1. \A j \in 1 .. 1 - 1 : r[j] = s[j]
    OBVIOUS
  <2>2. r[1] = s[1] => \A j \in 1 .. 2 - 1 : r[j] = s[j]
    OBVIOUS
  <2>3. r[1] = s[1] /\ r[2] = s[2] => \A j \in 1 .. 3 - 1 : r[j] = s[j]
    OBVIOUS
  <2>4. r[1] = s[1] /\ r[2] = s[2] /\ r[3] = s[3] => \A j \in 1 .. 4 - 1 : r[j] = s[j]
    OBVIOUS
  <2>5. 1 \in 1 .. 4 /\ 2 \in 1 .. 4 /\ 3 \in 1 .. 4 /\ 4 \in 1 .. 4
    OBVIOUS
  <2> QED  BY <1>f, <2>1, <2>2, <2>3, <2>4, <2>5, Zenon
<1>5. CASE a.major # b.major
  <2>1. CompareSemVer(a, b) = Sign(a.major, b.major)
    BY <1>5 DEF CompareSemVer
  <2> QED  BY <1>0, <1>e, <1>u, <1>d, <1>5, <2>1 DEF Sign
<1>6. CASE a.major = b.major /\ a.minor # b.minor
  <2>1. CompareSemVer(a, b) = Sign(a.minor, b.minor)
    BY <1>6 DEF CompareSemVer
  <2> QED  BY <1>0, <1>e, <1>u, <1>d, <1>6, <2>1 DEF Sign
<1>7. CASE a.major = b.major /\ a.minor = b.minor /\ a.patch # b.patch
  <2>1. CompareSemVer(a, b) = Sign(a.patch, b.patch)
    BY <1>7 DEF CompareSemVer
  <2> QED  BY <1>0, <1>e, <1>u, <1>d, <1>7, <2>1 DEF Sign
<1>8. CASE /\ a.major = b.major /\ a.minor = b.minor /\ a.patch = b.patch
           /\ (a.pre = <<>>) # (b.pre = <<>>)
  <2>1. CompareSemVer(a, b) = IF a.pre = <<>> THEN 1 ELSE -1
    BY <1>8 DEF CompareSemVer
  <2> QED  BY <1>e, <1>u, <1>d, <1>8, <2>1
<1>9. CASE /\ a.major = b.major /\ a.minor = b.minor /\ a.patch = b.patch
           /\ (a.pre = <<>>) = (b.pre = <<>>)
  <2>1. CompareSemVer(a, b) = CmpPre(a.pre, b.pre)
    BY <1>9 DEF CompareSemVer
  <2>2. \A j \in 1 .. 4 : r[j] = s[j]
    <3>1. r[1] = s[1] /\ r[2] = s[2] /\ r[3] = s[3] /\ r[4] = s[4]
      BY <1>e, <1>9
    <3> QED  BY <3>1
  <2>3. CASE /\ CmpPre(a.pre, b.pre) = Sign(Len(a.pre), Len(b.pre))
             /\ \A i \in 1 .. Len(a.pre) : i <= Len(b.pre) => a.pre[i] = b.pre[i]
    <3>1. \A j \in 1 .. Len(r) : j <= Len(s) => r[j] = s[j]
      <4> TAKE j \in 1 .. Len(r)
      <4> HAVE j <= Len(s)
      <4>1. CASE j <= 4
        BY <2>2, <4>1
      <4>2. CASE j > 4
        <5>1. j - 4 \in 1 .. Len(a.pre) /\ j - 4 \in 1 .. Len(b.pre) /\ (j - 4) + 4 = j
          BY <1>1, <4>2
        <5>2. r[j] = a.pre[j - 4] /\ s[j] = b.pre[j - 4]
          BY <1>2, <5>1
        <5> QED  BY <2>3, <5>1, <5>2
      <4> QED  BY <4>1, <4>2
    <3>2. CASE Len(a.pre) < Len(b.pre)
      <4>1. Prefix(r, s)
        BY <1>1, <3>1, <3>2 DEF Prefix
      <4> QED  BY <1>1, <1>3, <2>1, <2>3, <3>2, <4>1 DEF Sign
    <3>3. CASE Len(a.pre) > Len(b.pre)
      <4>1. Prefix(s, r)
        BY <1>1, <3>1, <3>3 DEF Prefix
      <4> QED  BY <1>1, <1>3, <2>1, <2>3, <3>3, <4>1 DEF Sign
    <3>4. CASE Len(a.pre) = Len(b.pre)
      <4>1. a.pre = b.pre
        <5>1. \A i \in 1 .. Len(a.pre) : a.pre[i] = b.pre[i]
          BY <1>1, <2>3, <3>4
        <5> QED  BY <1>0, <3>4, <5>1, SeqEqual
      <4>2. a = b
        BY <1>9, <4>1 DEF Version
      <4> QED  BY <1>1, <2>1, <2>3, <3>4, <4>2 DEF Sign
    <3> QED  BY <1>1, <3>2, <3>3, <3>4
  <2>4. ASSUME NEW i \in 1 .. Len(a.pre), i <= Len(b.pre), a.pre[i] # b.pre[i],
               CmpPre(a.pre, b.pre) = CmpId(a.pre[i], b.pre[i]),
               \A j \in 1 .. i - 1 : a.pre[j] = b.pre[j]
        PROVE  /\ CompareSemVer(a, b) \in {-1, 1}
               /\ CompareSemVer(a, b) = -1 => Before(a, b)
               /\ CompareSemVer(a, b) = 1 => Before(b, a)
    <3>0. i \in 1 .. Len(b.pre)
      BY <1>1, <2>4
    <3>1. r[i + 4] = a.pre[i] /\ s[i + 4] = b.pre[i]
          /\ a.pre[i] \in {0, 1} \X Nat /\ b.pre[i] \in {0, 1} \X Nat
      BY <1>2, <3>0
    <3>2. \A j \in 1 .. (i + 4) - 1 : r[j] = s[j]
      <4> TAKE j \in 1 .. (i + 4) - 1
      <4>1. CASE j <= 4
        BY <2>2, <4>1
      <4>2. CASE j > 4
        <5>1. j - 4 \in 1 .. i - 1 /\ j - 4 \in 1 .. Len(a.pre) /\ j - 4 \in 1 .. Len(b.pre) /\ (j - 4) + 4 = j
          BY <1>1, <2>4, <4>2
        <5>2. r[j] = a.pre[j - 4] /\ s[j] = b.pre[j - 4]
          BY <1>2, <5>1
        <5> QED  BY <2>4, <5>1, <5>2
      <4> QED  BY <4>1, <4>2
    <3>3. /\ Under(r[i + 4], s[i + 4]) => Before(a, b)
          /\ Under(s[i + 4], r[i + 4]) => Before(b, a)
      <4>1. i + 4 \in Nat /\ i + 4 >= 1 /\ i + 4 <= Len(r) /\ i + 4 <= Len(s)
        BY <1>1, <2>4
      <4> QED  BY <1>4, <3>2, <4>1
    <3>4. /\ CmpId(a.pre[i], b.pre[i]) \in {-1, 1}
          /\ CmpId(a.pre[i], b.pre[i]) = -1 => Under(a.pre[i], b.pre[i])
          /\ CmpId(a.pre[i], b.pre[i]) = 1 => Under(b.pre[i], a.pre[i])
      BY <2>4, <3>1, CmpIdIs
    <3>5. CompareSemVer(a, b) = CmpId(a.pre[i], b.pre[i])
      BY <2>1, <2>4
    <3>6. /\ Under(a.pre[i], b.pre[i]) => Before(a, b)
          /\ Under(b.pre[i], a.pre[i]) => Before(b, a)
      BY <3>1, <3>3
    <3> QED  BY <3>4, <3>5, <3>6
  <2>5. CASE \E i \in 1 .. Len(a.pre) : /\ i <= Len(b.pre) /\ a.pre[i] # b.pre[i]
                                        /\ CmpPre(a.pre, b.pre) = CmpId(a.pre[i], b.pre[i])
                                        /\ \A j \in 1 .. i - 1 : a.pre[j] = b.pre[j]
    BY <2>4, <2>5
  <2>6. \/ /\ CmpPre(a.pre, b.pre) = Sign(Len(a.pre), Len(b.pre))
           /\ \A i \in 1 .. Len(a.pre) : i <= Len(b.pre) => a.pre[i] = b.pre[i]
        \/ \E i \in 1 .. Len(a.pre) : /\ i <= Len(b.pre) /\ a.pre[i] # b.pre[i]
                                       /\ CmpPre(a.pre, b.pre) = CmpId(a.pre[i], b.pre[i])
                                       /\ \A j \in 1 .. i - 1 : a.pre[j] = b.pre[j]
    BY CmpPreOf
  <2> QED  BY <2>3, <2>5, <2>6
<1> QED  BY <1>5, <1>6, <1>7, <1>8, <1>9

LEMMA CompareBefore ==
    ASSUME NEW a \in Version, NEW b \in Version
    PROVE  /\ CompareSemVer(a, b) \in Int
           /\ CompareSemVer(a, b) < 0 <=> Before(a, b)
           /\ CompareSemVer(a, b) > 0 <=> Before(b, a)
           /\ CompareSemVer(a, b) = 0 <=> a = b
<1>1. ~(Before(a, b) /\ Before(b, a)) /\ (a = b => ~Before(a, b))
  BY BeforeAsymmetric
<1> QED  BY <1>1, CompareOne

(***************************************************************************)
(* The choice of a version (resolveVersion), candidate by candidate.       *)
(***************************************************************************)
BestStep(r, q, f, i) == IF i = 0 THEN NoVer ELSE IF Better(r, q[i], f[i - 1]) THEN q[i] ELSE f[i - 1]
Bests(r, q, f, n) == f = [i \in 0 .. n |-> BestStep(r, q, f, i)]

\* The candidates are a function.
LEMMA BestsExist == ASSUME NEW r, NEW q PROVE \A n \in Nat : \E f : Bests(r, q, f, n)
<1> DEFINE T == {n \in Nat : \E f : Bests(r, q, f, n)}
<1>1. 0 \in T
  <2> DEFINE f == [i \in 0 .. 0 |-> NoVer]
  <2>1. Bests(r, q, f, 0)
    BY DEF Bests, BestStep
  <2> QED  BY <2>1
<1>2. ASSUME NEW n \in T PROVE n + 1 \in T
  <2>1. n \in Nat
    OBVIOUS
  <2>2. PICK f : Bests(r, q, f, n)
    OBVIOUS
  <2> DEFINE g == [i \in 0 .. n + 1 |-> IF i = n + 1 THEN BestStep(r, q, f, i) ELSE f[i]]
  <2>3. ASSUME NEW i \in 0 .. n + 1 PROVE g[i] = BestStep(r, q, g, i)
    <3>1. i # 0 => i - 1 \in 0 .. n /\ g[i - 1] = f[i - 1]
      BY <2>1
    <3>2. BestStep(r, q, g, i) = BestStep(r, q, f, i)
      <4> HIDE DEF g
      <4> QED  BY <3>1 DEF BestStep
    <3>3. i # n + 1 => i \in 0 .. n /\ f[i] = BestStep(r, q, f, i)
      BY <2>1, <2>2 DEF Bests
    <3> QED  BY <3>2, <3>3
  <2>4. g = [i \in 0 .. n + 1 |-> BestStep(r, q, g, i)]
    <3>1. g = [i \in 0 .. n + 1 |-> g[i]]
      OBVIOUS
    <3> HIDE DEF g
    <3> QED  BY <2>3, <3>1
  <2>5. Bests(r, q, g, n + 1)
    BY <2>4 DEF Bests
  <2> QED  BY <2>1, <2>5
<1> HIDE DEF T
<1>3. T = Nat
  <2>1. T \subseteq Nat
    BY DEF T
  <2> QED  BY <1>1, <1>2, <2>1, SetInduction
<1> QED  BY <1>3 DEF T

\* The best of the first i: none in range, or the greatest of those in range.
BestOf(r, q, i, v) ==
    \/ v = NoVer /\ \A j \in 1 .. i : ~MatchesRange(q[j], r)
    \/ /\ \E j \in 1 .. i : v = q[j]
       /\ MatchesRange(v, r) /\ \A j \in 1 .. i : MatchesRange(q[j], r) => ~Before(v, q[j])

LEMMA BestsKeep ==
    ASSUME NEW n \in Nat, NEW q, \A j \in 1 .. n : q[j] \in Version, NEW r, NEW f, Bests(r, q, f, n)
    PROVE  BestOf(r, q, n, f[n])
<1> DEFINE T == {i \in Nat : i <= n => BestOf(r, q, i, f[i])}
<1>0. \A i \in 0 .. n : f[i] = BestStep(r, q, f, i)
  BY DEF Bests
<1>1. 0 \in T
  <2>1. f[0] = NoVer
    BY <1>0 DEF BestStep
  <2> QED  BY <2>1 DEF BestOf
<1>2. ASSUME NEW i \in T PROVE i + 1 \in T
  <2> SUFFICES ASSUME i + 1 <= n PROVE BestOf(r, q, i + 1, f[i + 1])
    OBVIOUS
  <2>0. i \in Nat /\ BestOf(r, q, i, f[i])
    OBVIOUS
  <2> DEFINE x == q[i + 1]
             v == f[i]
             w == f[i + 1]
  <2>1. w = IF Better(r, x, v) THEN x ELSE v
    <3>1. (i + 1) - 1 = i /\ i + 1 # 0 /\ i + 1 \in 0 .. n
      BY <2>0
    <3> QED  BY <1>0, <3>1 DEF BestStep
  <2>2. x \in Version /\ \A j \in 1 .. i : q[j] \in Version
    BY <2>0
  <2>3. \A j \in 1 .. i + 1 : j = i + 1 \/ j \in 1 .. i
    BY <2>0
  <2>4. i + 1 \in 1 .. i + 1 /\ \A j \in 1 .. i : j \in 1 .. i + 1
    BY <2>0
  <2>5. NoVer \notin Version
    BY DEF NoVer, Ver, Version
  <2>6. (Better(r, x, v) <=> MatchesRange(x, r) /\ (v = NoVer \/ CompareSemVer(x, v) > 0))
    BY DEF Better
  <2> DEFINE at(j) == q[j]
  <2>7. CASE v = NoVer
    <3>1. \A j \in 1 .. i : ~MatchesRange(q[j], r)
      BY <2>0, <2>2, <2>5, <2>7 DEF BestOf
    <3>2. CASE MatchesRange(x, r)
      <4>1. w = x
        BY <2>1, <2>6, <2>7, <3>2
      <4>2. ~Before(x, x)
        BY <2>2, BeforeAsymmetric
      <4> QED  BY <2>3, <2>4, <3>1, <3>2, <4>1, <4>2 DEF BestOf
    <3>3. CASE ~MatchesRange(x, r)
      <4>1. w = NoVer
        BY <2>1, <2>6, <2>7, <3>3
      <4> QED  BY <2>3, <3>1, <3>3, <4>1 DEF BestOf
    <3> QED  BY <3>2, <3>3
  <2>8. CASE v # NoVer
    <3>1. /\ v \in Version /\ MatchesRange(v, r) /\ \E j \in 1 .. i : v = q[j]
          /\ \A j \in 1 .. i : MatchesRange(q[j], r) => ~Before(v, q[j])
      BY <2>0, <2>2, <2>8 DEF BestOf
    <3>2. CompareSemVer(x, v) > 0 <=> Before(v, x)
      BY <2>2, <3>1, CompareBefore
    <3>3. CASE MatchesRange(x, r) /\ Before(v, x)
      <4>1. w = x
        BY <2>1, <2>6, <3>2, <3>3
      <4>2. ~Before(x, x)
        BY <2>2, BeforeAsymmetric
      <4>3. \A j \in 1 .. i : MatchesRange(q[j], r) => ~Before(x, q[j])
        BY <2>2, <3>1, <3>3, BeforeTransitive
      <4> QED  BY <2>3, <2>4, <3>3, <4>1, <4>2, <4>3 DEF BestOf
    <3>4. CASE ~(MatchesRange(x, r) /\ Before(v, x))
      <4>1. w = v
        BY <2>1, <2>6, <2>8, <3>2, <3>4
      <4> QED  BY <2>3, <2>4, <3>1, <3>4, <4>1 DEF BestOf
    <3> QED  BY <3>3, <3>4
  <2> QED  BY <2>7, <2>8
<1> HIDE DEF T
<1>3. T = Nat
  <2>1. T \subseteq Nat
    BY DEF T
  <2> QED  BY <1>1, <1>2, <2>1, SetInduction
<1>4. n \in T /\ n <= n
  BY <1>3
<1> QED  BY <1>4 DEF T

\* What is chosen is listed and in range, and nothing listed and in range is greater.
LEMMA ResolveIs ==
    ASSUME NEW q \in Seq(Versions), NEW r, ResolveVersion(r, q) # NoVer
    PROVE  LET v == ResolveVersion(r, q)
           IN  /\ v \in ToSet(q) /\ v \in Versions /\ MatchesRange(v, r)
               /\ \A w \in ToSet(q) : MatchesRange(w, r) => ~Before(v, w)
<1> DEFINE n == Len(q)
           f == CHOOSE g : Bests(r, q, g, n)
           v == ResolveVersion(r, q)
<1>1. n \in Nat /\ DOMAIN q = 1 .. n /\ \A j \in 1 .. n : q[j] \in Versions /\ q[j] \in Version
  BY LenProperties, ElementOfSeq, PackagesAssumption
<1>2. NoVer \notin Version
  BY DEF NoVer, Ver, Version
<1>3. v = f[n]
  BY DEF ResolveVersion, Bests, BestStep
<1>4. Bests(r, q, f, n)
  BY <1>1, BestsExist
<1>5. ToSet(q) = {q[j] : j \in 1 .. n}
  BY <1>1 DEF ToSet
<1> HIDE DEF f, n, v
<1>6. BestOf(r, q, n, v)
  BY <1>1, <1>3, <1>4, BestsKeep
<1>7. v # NoVer
  BY DEF v
<1>8. /\ \E j \in 1 .. n : v = q[j]
      /\ MatchesRange(v, r) /\ \A j \in 1 .. n : MatchesRange(q[j], r) => ~Before(v, q[j])
  BY <1>6, <1>7 DEF BestOf
<1> QED  BY <1>1, <1>5, <1>8 DEF v

(***************************************************************************)
(* The versions of an index, in order.                                     *)
(***************************************************************************)
LEMMA InOrderIs ==
    ASSUME NEW q \in Seq(Versions)
    PROVE  InOrder(q) <=> \A i, j \in 1 .. Len(q) : i < j => Before(q[i], q[j])
<1>1. DOMAIN q = 1 .. Len(q) /\ \A i \in 1 .. Len(q) : q[i] \in Version
  BY LenProperties, ElementOfSeq, PackagesAssumption
<1> QED  BY <1>1, CompareBefore DEF InOrder

\* A list in order has no version twice, and so as many as its length.
LEMMA InOrderCounts ==
    ASSUME NEW q \in Seq(Versions), InOrder(q)
    PROVE  Cardinality(ToSet(q)) = Len(q) /\ q \in [1 .. Cardinality(ToSet(q)) -> ToSet(q)]
<1> DEFINE n == Len(q)
           S == ToSet(q)
<1>1. n \in Nat /\ S = {q[i] : i \in 1 .. n} /\ \A i \in 1 .. n : q[i] \in Version
  BY ToSetIs, LenProperties, ElementOfSeq, PackagesAssumption
<1>2. \A i, j \in 1 .. n : i < j => Before(q[i], q[j])
  BY InOrderIs
<1>3. \A v \in Version : ~Before(v, v)
  BY BeforeAsymmetric
<1>4. q = [i \in 1 .. n |-> q[i]]
  BY LenProperties
<1> HIDE DEF n, S
<1>5. \A i, j \in 1 .. n : q[i] = q[j] => i = j
  <2> SUFFICES ASSUME NEW i \in 1 .. n, NEW j \in 1 .. n, q[i] = q[j], i # j PROVE FALSE
    OBVIOUS
  <2>1. i < j \/ j < i
    BY <1>1
  <2> QED  BY <1>1, <1>2, <1>3, <2>1
<1>6. q \in [1 .. n -> S] /\ \A t \in S : \E i \in 1 .. n : q[i] = t
  BY <1>1, <1>4
<1>7. q \in Bijection(1 .. n, S)
  BY <1>5, <1>6, Fun_IsBij
<1>8. Cardinality(S) = n
  BY <1>1, <1>7, FS_CountingElements DEF ExistsBijection
<1> QED  BY <1>6, <1>8 DEF n, S

LEMMA ListedIs ==
    ASSUME NEW i, i.versions \in Seq(Versions), InOrder(i.versions), NEW v \in Versions
    PROVE  /\ Listed(i, v) \in Seq(Versions) /\ InOrder(Listed(i, v))
           /\ ToSet(Listed(i, v)) = ToSet(i.versions) \cup {v}
<1> DEFINE q == i.versions
           n == Len(q)
           all == ToSet(q) \cup {v}
           good(s) == ToSet(s) = all /\ InOrder(s)
<1>1. n \in Nat /\ ToSet(q) = {q[j] : j \in 1 .. n} /\ v \in Version
      /\ \A j \in 1 .. n : q[j] \in Version /\ q[j] \in Versions
  BY ToSetIs, LenProperties, ElementOfSeq, PackagesAssumption
<1>2. \A j, k \in 1 .. n : j < k => Before(q[j], q[k])
  BY InOrderIs
<1>3. \E s \in [1 .. Cardinality(all) -> all] : good(s)
  <2>1. CASE v \in ToSet(q)
    <3>1. all = ToSet(q)
      BY <2>1
    <3>2. q \in [1 .. Cardinality(ToSet(q)) -> ToSet(q)]
      BY InOrderCounts
    <3> QED  BY <3>1, <3>2
  <2>2. CASE v \notin ToSet(q)
    <3> DEFINE P == {j \in 1 .. n + 1 : j = n + 1 \/ Before(v, q[j])}
    <3>1. n + 1 \in P /\ P \subseteq Nat
      BY <1>1
    <3>2. PICK p \in P : \A j \in P : p <= j
      <4> HIDE DEF P
      <4> QED  BY <3>1, Least
    <3>3. p \in 1 .. n + 1 /\ (p = n + 1 \/ Before(v, q[p]))
      OBVIOUS
    <3>4. \A j \in 1 .. n : j < p => Before(q[j], v)
      <4> TAKE j \in 1 .. n
      <4> HAVE j < p
      <4>1. ~Before(v, q[j])
        BY <1>1, <3>2, <3>3
      <4>2. v # q[j]
        BY <1>1, <2>2
      <4> HIDE DEF q, n, P
      <4> QED  BY <1>1, <4>1, <4>2, CompareBefore
    <3>5. \A j \in 1 .. n : j >= p => Before(v, q[j])
      <4> TAKE j \in 1 .. n
      <4> HAVE j >= p
      <4>1. p \in 1 .. n /\ Before(v, q[p])
        BY <1>1, <3>3
      <4>2. p = j \/ Before(q[p], q[j])
        BY <1>1, <1>2, <4>1
      <4> HIDE DEF q, n, P
      <4> QED  BY <1>1, <4>1, <4>2, BeforeTransitive
    <3> HIDE DEF P
    <3> DEFINE s == [j \in 1 .. n + 1 |-> IF j < p THEN q[j] ELSE IF j = p THEN v ELSE q[j - 1]]
    <3>6. /\ \A j \in 1 .. n : (j < p => s[j] = q[j]) /\ (j >= p => s[j + 1] = q[j])
          /\ s[p] = v
      BY <1>1, <3>3
    <3>7. \A j \in 1 .. n + 1 : \/ j < p /\ j \in 1 .. n /\ s[j] = q[j]
                                \/ j = p /\ s[j] = v
                                \/ j > p /\ j - 1 \in 1 .. n /\ s[j] = q[j - 1]
      BY <1>1, <3>3
    <3>8. s \in [1 .. n + 1 -> Versions] /\ n + 1 \in Nat /\ DOMAIN s = 1 .. n + 1
      <4>1. \A j \in 1 .. n + 1 : s[j] \in Versions
        BY <1>1, <3>7
      <4>2. s = [j \in 1 .. n + 1 |-> s[j]] /\ DOMAIN s = 1 .. n + 1
        OBVIOUS
      <4>3. n + 1 \in Nat
        BY <1>1
      <4> HIDE DEF s, n, q
      <4> QED  BY <4>1, <4>2, <4>3
    <3> HIDE DEF s, q, n
    <3>9. s \in Seq(Versions) /\ Len(s) = n + 1
      BY <3>8, SeqDef, LenProperties
    <3>10. ToSet(s) = all
      <4>1. ToSet(s) = {s[j] : j \in 1 .. n + 1}
        BY <3>8 DEF ToSet
      <4>2. \A j \in 1 .. n + 1 : s[j] \in all
        BY <1>1, <3>7
      <4>3. \A x \in all : \E j \in 1 .. n + 1 : s[j] = x
        <5>1. \A j \in 1 .. n : \E k \in 1 .. n + 1 : s[k] = q[j]
          <6> TAKE j \in 1 .. n
          <6>1. CASE j < p
            BY <1>1, <3>6, <6>1
          <6>2. CASE j >= p
            <7>1. j + 1 \in 1 .. n + 1
              BY <1>1
            <7> QED  BY <3>6, <6>2, <7>1
          <6> QED  BY <1>1, <3>3, <6>1, <6>2
        <5> QED  BY <1>1, <3>3, <3>6, <5>1
      <4> QED  BY <4>1, <4>2, <4>3
    <3>11. \A j, k \in 1 .. n + 1 : j < k => Before(s[j], s[k])
      <4> TAKE j, k \in 1 .. n + 1
      <4> HAVE j < k
      <4>0. p \in Nat /\ j \in Nat /\ k \in Nat
        BY <1>1, <3>3
      <4>1. CASE k < p
        BY <1>2, <3>7, <4>0, <4>1
      <4>2. CASE k = p
        BY <3>4, <3>7, <4>0, <4>2
      <4>3. CASE j < p /\ k > p
        <5>1. j \in 1 .. n /\ k - 1 \in 1 .. n /\ j < k - 1 /\ s[j] = q[j] /\ s[k] = q[k - 1]
          BY <3>7, <4>0, <4>3
        <5> QED  BY <1>2, <5>1
      <4>4. CASE j = p
        <5>1. k - 1 \in 1 .. n /\ k - 1 >= p /\ s[j] = v /\ s[k] = q[k - 1]
          BY <3>7, <4>0, <4>4
        <5> QED  BY <3>5, <5>1
      <4>5. CASE j > p
        <5>1. j - 1 \in 1 .. n /\ k - 1 \in 1 .. n /\ j - 1 < k - 1 /\ s[j] = q[j - 1] /\ s[k] = q[k - 1]
          BY <3>7, <4>0, <4>5
        <5> QED  BY <1>2, <5>1
      <4> QED  BY <4>0, <4>1, <4>2, <4>3, <4>4, <4>5
    <3>12. InOrder(s)
      BY <3>9, <3>11, InOrderIs
    <3>13. s \in [1 .. Cardinality(all) -> all]
      BY <3>9, <3>10, <3>12, InOrderCounts
    <3> QED  BY <3>10, <3>12, <3>13
  <2> QED  BY <2>1, <2>2
<1> DEFINE l == Listed(i, v)
<1>4. l = CHOOSE s \in [1 .. Cardinality(all) -> all] : ToSet(s) = all /\ InOrder(s)
  BY DEF Listed
<1> HIDE DEF l
<1>5. l \in [1 .. Cardinality(all) -> all] /\ good(l)
  BY <1>3, <1>4
<1>6. Cardinality(all) \in Nat /\ all \subseteq Versions
  <2>1. IsFiniteSet(all)
    <3>1. IsFiniteSet(ToSet(q))
      <4>1. q \in Bijection(1 .. n, ToSet(q))
        <5>1. Cardinality(ToSet(q)) = n /\ q \in [1 .. n -> ToSet(q)]
          BY InOrderCounts
        <5>2. \A v1 \in Version : ~Before(v1, v1)
          BY BeforeAsymmetric
        <5>3. \A j, k \in 1 .. n : q[j] = q[k] => j = k
          <6> SUFFICES ASSUME NEW j \in 1 .. n, NEW k \in 1 .. n, q[j] = q[k], j # k PROVE FALSE
            OBVIOUS
          <6>1. j < k \/ k < j
            BY <1>1
          <6> QED  BY <1>1, <1>2, <5>2, <6>1
        <5>4. \A t \in ToSet(q) : \E j \in 1 .. n : q[j] = t
          BY <1>1
        <5> HIDE DEF q, n
        <5> QED  BY <5>1, <5>3, <5>4, Fun_IsBij
      <4> QED  BY <1>1, <4>1, FS_NatBijection DEF ExistsBijection
    <3> HIDE DEF q
    <3> QED  BY <3>1, FS_AddElement
  <2>2. Cardinality(all) \in Nat
    <3> HIDE DEF all
    <3> QED  BY <2>1, FS_CardinalityType
  <2> QED  BY <1>1, <2>2
<1>7. l \in Seq(Versions)
  <2> DEFINE m == Cardinality(all)
  <2>1. l \in [1 .. m -> Versions] /\ m \in Nat
    <3> HIDE DEF all
    <3> QED  BY <1>5, <1>6
  <2> HIDE DEF m
  <2> QED  BY <2>1, SeqDef
<1> QED  BY <1>5, <1>7 DEF l

(***************************************************************************)
(* What every state is made of, whoever runs beside whom.                  *)
(***************************************************************************)
NameSet == ToSet(Names)
Files == Contents \cup {None, Bad}
Entries == [n : NameSet, v : Versions \cup {NoVer}, sha : Files \cup {"asked", "other"}]
AllParts == UNION {ToSet(Parts(c)) : c \in Contents}

Gits == [NameSet -> {"nothing", "asked", "other", "half"}]

GoodIndex(i) ==
    /\ i.versions \in Seq(Versions) /\ InOrder(i.versions)
    /\ DOMAIN i.dist = ToSet(i.versions) /\ \A v \in ToSet(i.versions) : i.dist[v] \in Files
GoodPub(r) ==
    \/ r.at = "idle"
    \/ r \in [at : {"tar", "index"}, k : Packs, c : Contents]
    \/ r.at = "write" /\ r.k \in Packs /\ GoodIndex(r.new)

Fetching == {"cached", "tar", "sig", "open", "save", "read", "extract"}
Ats == Fetching \cup {"next", "git", "index", "locking"}
Stopped == [at : {"idle"}, ok : BOOLEAN]
Busy == [at : Ats, todo : SUBSET NameSet, new : SUBSET Entries, frozen : BOOLEAN,
         v : Versions \cup {NoVer}, sha : Files, body : Files, rest : Seq(AllParts)]

Shapes ==
    /\ DOMAIN index = NameSet /\ \A n \in NameSet : GoodIndex(index[n])
    /\ tar \in [Packs -> Files] /\ tmp \in [Packs -> Files] /\ DOMAIN cache = Packs
    /\ DOMAIN pub = Publishers /\ \A p \in Publishers : GoodPub(pub[p])
    /\ manifest \in [Clients -> Manifests] /\ lock \in [Clients -> SUBSET Entries]
    /\ inst \in [Clients -> Stopped \cup Busy]
    /\ git \in Gits /\ met \subseteq NameSet
    /\ published \in 0 .. MaxPublish /\ installs \in 0 .. MaxInstall

\* An install between two of its steps.
Runs(c) == ~Going(c, "idle") =>
    /\ {e.n : e \in inst[c].new} \cup inst[c].todo = Wanted(c)
    /\ inst[c].todo = {} => inst[c].at \in {"next", "locking"}
    /\ Going(c, "locking") => inst[c].todo = {}
    /\ Going(c, "git") => manifest[c][Dep(c)] = GitDep
    /\ inst[c].at \in Fetching => inst[c].v \in Versions /\ MatchesRange(inst[c].v, manifest[c][Dep(c)])
    /\ inst[c].frozen => inst[c].at \in {"next", "locking"}

\* The entries written, and those still to be written.
EntriesOf(c) == lock[c] \cup IF Going(c, "idle") THEN {} ELSE inst[c].new
Locks(c) ==
    /\ Done(c) => {e.n : e \in lock[c]} = Wanted(c)
    /\ Without({"edit", "lockfile"}) => \A e \in EntriesOf(c) : Meets(c, e)

ShapeInv == Shapes /\ \A c \in Clients : Runs(c) /\ Locks(c)

(***************************************************************************)
(* What holds of a package while no two publishes of it have met.          *)
(***************************************************************************)
OnePublisher == \A p, q \in Publishers : p = q
OneClient == \A c, d \in Clients : c = d

Hashed(i) == \A v \in ToSet(i.versions) : i.dist[v] \in Contents
\* i is the index of what is there of n, the version x left aside.
Tells(i, n, x) == \A v \in Versions \ {x} :
    /\ tar[<<n, v>>] # None => v \in ToSet(i.versions)
    /\ v \in ToSet(i.versions) => i.dist[v] = tar[<<n, v>>]

Lone(n) == \A p, q \in Publishers : At(p, n) /\ At(q, n) => p = q
\* The publish of p.
PublishInv(p) ==
    /\ pub[p].at = "tar" => tar[pub[p].k] = Bad
    /\ pub[p].at = "index" => tar[pub[p].k] = pub[p].c
    /\ pub[p].at = "write" => Hashed(pub[p].new)
    /\ Without({"crash"}) =>
         /\ pub[p].at \in {"tar", "index"} => Tells(index[pub[p].k[1]], pub[p].k[1], pub[p].k[2])
         /\ pub[p].at = "write" => Tells(pub[p].new, pub[p].k[1], NoVer)
PackInv(n) ==
    /\ Lone(n) /\ Hashed(index[n])
    /\ \A p \in Publishers : At(p, n) => PublishInv(p)
    /\ Without({"crash"}) /\ ~Publishing(n) => Tells(index[n], n, NoVer)
RegistryInv == \A n \in NameSet \ met : PackInv(n)

(***************************************************************************)
(* With one client at a time.                                              *)
(***************************************************************************)
Signed(c) ==
    /\ inst[c].at \in {"open", "save", "read", "extract"} /\ needSig => sig[Key(c)] = inst[c].body
    /\ Going(c, "save") => tmp[Key(c)] # None
    /\ Going(c, "read") => tmp[Key(c)] = inst[c].body
SignedInv == \A c \in Clients : Signed(c)

(***************************************************************************)
(* With one of each.                                                       *)
(***************************************************************************)
HashOf(c) ==
    /\ inst[c].at \in Fetching => inst[c].sha \in Contents
    /\ inst[c].at \in Fetching \ {"cached", "tar"} => inst[c].body = inst[c].sha
HashInv == \A c \in Clients : HashOf(c)

All(f, t) == f = [x \in DOMAIN f |-> t]
Of(k, t) == All(cache[k], t)
\* A package of the cache is not there, or whole, or being unpacked.
Whole(k) == cache[k] = <<>> \/ \E t \in Contents : Complete(k, t)
Kept(k) == Whole(k) \/ \E c \in Clients : Going(c, "extract") /\ Key(c) = k
\* The files unpacked so far, and the rest, are of the content unpacked.
Unpacking(c) ==
    /\ inst[c].at \in Fetching \ {"cached", "extract"} => cache[Key(c)] = <<>>
    /\ Going(c, "extract") => /\ Of(Key(c), inst[c].body)
                              /\ DOMAIN cache[Key(c)] \cup ToSet(inst[c].rest) = ToSet(Parts(inst[c].body))
CacheInv == Without({"crash"}) =>
    /\ \A k \in Packs : Kept(k)
    /\ \A c \in Clients : Unpacking(c)
EntryFound(c, e) ==
    manifest[c][e.n] \in {PathDep, GitDep} \/ (<<e.n, e.v>> \in Packs /\ Installed(<<e.n, e.v>>))
FoundInv == Without({"crash", "lockfile", "edit"}) => \A c \in Clients : \A e \in EntriesOf(c) : EntryFound(c, e)

\* Nothing is published twice: what is listed, on its way or unpacked is what is there.
FirstTime(p) ==
    /\ pub[p].at \in {"tar", "index"} => pub[p].k[2] \notin VersionsOf(pub[p].k[1])
    /\ pub[p].at = "write" => VersionsOf(pub[p].k[1]) = {}
EntryTrue(e) ==
    <<e.n, e.v>> \in Packs => /\ e.sha \in Contents /\ Complete(<<e.n, e.v>>, e.sha)
                              /\ e.sha = tar[<<e.n, e.v>>]
ThereOf(k) == cache[k] # <<>> => tar[k] \in Contents /\ Of(k, tar[k])
TrueInv == Without({"republish", "crash"}) =>
    /\ \A p \in Publishers : FirstTime(p)
    /\ \A c \in Clients : inst[c].at \in Fetching => inst[c].sha = tar[Key(c)]
    /\ \A k \in Packs : ThereOf(k)
    /\ Without({"lockfile"}) => \A c \in Clients : \A e \in EntriesOf(c) : EntryTrue(e)

-----------------------------------------------------------------------------

LEMMA Assumed ==
    /\ Names \in Seq(NameSet) /\ Versions \subseteq Version /\ NoVer \notin Versions
    /\ \A c \in Contents : Parts(c) \in Seq(ToSet(Parts(c))) /\ Parts(c) \in Seq(AllParts)
                           /\ "manifest" \in ToSet(Parts(c))
    /\ None \notin Contents /\ Bad \notin Contents /\ None # Bad
    /\ MaxPublish \in Nat /\ MaxInstall \in Nat
<1>1. NoVer \notin Version
  BY DEF NoVer, Ver, Version
<1>2. ASSUME NEW c \in Contents PROVE Parts(c) \in Seq(AllParts)
  <2>1. Parts(c) \in Seq(ToSet(Parts(c))) /\ ToSet(Parts(c)) \subseteq AllParts
    BY PackagesAssumption DEF AllParts
  <2>2. /\ Len(Parts(c)) \in Nat
        /\ Parts(c) \in [1 .. Len(Parts(c)) -> ToSet(Parts(c))]
    BY <2>1, LenProperties
  <2>3. Parts(c) \in [1 .. Len(Parts(c)) -> AllParts]
    BY <2>1, <2>2
  <2> QED  BY <2>2, <2>3, SeqDef
<1> QED  BY <1>1, <1>2, PackagesAssumption DEF NameSet

\* The dependency at hand is one still to be taken.
LEMMA FirstOfIs ==
    ASSUME NEW S, S \subseteq NameSet, S # {}
    PROVE  FirstOf(S) \in S
<1> DEFINE D == {i \in DOMAIN Names : Names[i] \in S}
           i == CHOOSE k \in DOMAIN Names : Names[k] \in S /\ \A j \in 1 .. k - 1 : Names[j] \notin S
<1>1. /\ Len(Names) \in Nat /\ DOMAIN Names = 1 .. Len(Names)
      /\ NameSet = {Names[k] : k \in DOMAIN Names}
  BY Assumed, LenProperties DEF NameSet, ToSet
<1>2. D \subseteq Nat /\ D # {}
  BY <1>1
<1>3. PICK m \in D : \A k \in D : m <= k
  <2> HIDE DEF D
  <2> QED  BY <1>2, Least
<1>4. m \in DOMAIN Names /\ Names[m] \in S /\ \A j \in 1 .. m - 1 : Names[j] \notin S
  BY <1>1, <1>3
<1>5. Names[i] \in S
  BY <1>4
<1>6. FirstOf(S) = Names[i]
  BY DEF FirstOf
<1> QED  BY <1>5, <1>6

LEMMA MergedIs ==
    ASSUME NEW i, GoodIndex(i), NEW v \in Versions, NEW sha \in Files
    PROVE  /\ GoodIndex(Merged(i, v, sha))
           /\ ToSet(Merged(i, v, sha).versions) = ToSet(i.versions) \cup {v}
           /\ Merged(i, v, sha).dist[v] = sha
           /\ \A w \in ToSet(i.versions) : w # v => Merged(i, v, sha).dist[w] = i.dist[w]
<1> DEFINE m == Merged(i, v, sha)
<1>1. m.versions = Listed(i, v) /\ m.dist = With(i.dist, v, sha)
  BY DEF Merged
<1>2. /\ m.versions \in Seq(Versions) /\ InOrder(m.versions)
      /\ ToSet(m.versions) = ToSet(i.versions) \cup {v}
  BY <1>1, ListedIs DEF GoodIndex
<1>3. /\ DOMAIN m.dist = ToSet(i.versions) \cup {v} /\ m.dist[v] = sha
      /\ \A w \in ToSet(i.versions) : w # v => m.dist[w] = i.dist[w]
  BY <1>1 DEF With, GoodIndex
<1> HIDE DEF m
<1>4. GoodIndex(m)
  BY <1>2, <1>3 DEF GoodIndex
<1> QED  BY <1>2, <1>3, <1>4 DEF m

LEMMA MergedLists ==
    ASSUME NEW i, GoodIndex(i)
    PROVE  \A v \in Versions, sha \in Files :
             /\ ToSet(Merged(i, v, sha).versions) = ToSet(i.versions) \cup {v}
             /\ Merged(i, v, sha).dist[v] = sha
             /\ \A w \in ToSet(i.versions) : w # v => Merged(i, v, sha).dist[w] = i.dist[w]
BY MergedIs

LEMMA NoIndexIs == GoodIndex(NoIndex) /\ ToSet(NoIndex.versions) = {}
<1>1. NoIndex.versions = <<>> /\ NoIndex.dist = <<>>
  BY DEF NoIndex
<1>2. <<>> \in Seq(Versions) /\ DOMAIN <<>> = {} /\ ToSet(<<>>) = {}
  BY DEF ToSet
<1> QED  BY <1>1, <1>2 DEF GoodIndex, InOrder

(***************************************************************************)
(* What a step does to the install of its client.                          *)
(***************************************************************************)
Others(c) == inst' \in [Clients -> Stopped \cup Busy] /\ \A d \in Clients \ {c} : inst'[d] = inst[d]
SameJob(c) == inst'[c].todo = inst[c].todo /\ inst'[c].new = inst[c].new /\ inst'[c].frozen = inst[c].frozen
Halts(c, ok) == Others(c) /\ inst'[c] \in Stopped /\ inst'[c].ok = ok
Moves(c, a) == Others(c) /\ inst'[c] \in Busy /\ inst'[c].at = a /\ SameJob(c)
Takes(c, e) == /\ Others(c) /\ inst'[c] \in Busy /\ inst'[c].at = "next"
               /\ inst'[c].todo = inst[c].todo \ {e.n} /\ inst'[c].new = inst[c].new \cup {e}
               /\ inst'[c].frozen = inst[c].frozen
SameFetch(c) == inst'[c].v = inst[c].v /\ inst'[c].sha = inst[c].sha

LEMMA BusyIs ==
    ASSUME Shapes, NEW c \in Clients
    PROVE  /\ ~Going(c, "idle") => inst[c] \in Busy
           /\ Going(c, "idle") => inst[c] \in Stopped
           /\ inst[c] \in Busy => ~Going(c, "idle") /\ inst[c].at \in Ats
  BY DEF Shapes, Going, Busy, Stopped, Ats, Fetching

LEMMA StopDoes ==
    ASSUME Shapes, NEW c \in Clients, NEW ok \in BOOLEAN, Stop(c, ok)
    PROVE  Halts(c, ok)
<1> DEFINE r == [at |-> "idle", ok |-> ok]
<1>1. r \in Stopped /\ r.ok = ok
  BY DEF Stopped
<1>2. inst' = [inst EXCEPT ![c] = r]
  BY DEF Stop
<1> HIDE DEF r
<1>3. inst'[c] = r /\ Others(c)
  BY <1>1, <1>2 DEF Shapes, Others
<1> QED  BY <1>1, <1>3 DEF Halts

LEMMA GotoDoes ==
    ASSUME Shapes, NEW c \in Clients, inst[c] \in Busy, NEW a \in Ats, Goto(c, a)
    PROVE  Moves(c, a) /\ SameFetch(c) /\ inst'[c].body = inst[c].body /\ inst'[c].rest = inst[c].rest
<1> DEFINE r == [inst[c] EXCEPT !.at = a]
<1>1. inst' = [inst EXCEPT ![c] = r]
  BY DEF Goto
<1>2. /\ r \in Busy /\ r.at = a /\ r.todo = inst[c].todo /\ r.new = inst[c].new /\ r.frozen = inst[c].frozen
      /\ r.v = inst[c].v /\ r.sha = inst[c].sha /\ r.body = inst[c].body /\ r.rest = inst[c].rest
  BY DEF Busy
<1> HIDE DEF r
<1>3. inst'[c] = r /\ Others(c)
  BY <1>1, <1>2 DEF Shapes, Others
<1> QED  BY <1>2, <1>3 DEF Moves, SameJob, SameFetch

LEMMA TakenDoes ==
    ASSUME Shapes, NEW c \in Clients, inst[c] \in Busy, NEW e \in Entries, inst' = [inst EXCEPT ![c] = Taken(c, e)]
    PROVE  Takes(c, e)
<1> DEFINE r == Taken(c, e)
<1>1. /\ r \in Busy /\ r.at = "next" /\ r.todo = inst[c].todo \ {e.n} /\ r.new = inst[c].new \cup {e}
      /\ r.frozen = inst[c].frozen
  BY DEF Taken, Busy, Ats
<1> HIDE DEF r
<1>2. inst' = [inst EXCEPT ![c] = r]
  BY DEF r
<1>3. inst'[c] = r /\ Others(c)
  BY <1>1, <1>2 DEF Shapes, Others
<1> QED  BY <1>1, <1>3 DEF Takes

LEMMA StartDoes ==
    ASSUME Shapes, NEW c \in Clients, NEW frozen \in BOOLEAN, StartInstall(c, frozen)
    PROVE  /\ Going(c, "idle") /\ Others(c) /\ inst'[c] \in Busy /\ inst'[c].at = "next"
           /\ inst'[c].todo = Wanted(c) /\ inst'[c].new = {}
           /\ installs' \in 0 .. MaxInstall
           /\ UNCHANGED <<registry, manifest, lock, cache, git, tmp, needSig, struck>>
<1> DEFINE r == [at |-> "next", todo |-> Wanted(c), new |-> {},
                 frozen |-> frozen, v |-> NoVer, sha |-> None, body |-> None, rest |-> <<>>]
<1>1. inst' = [inst EXCEPT ![c] = r]
  BY DEF StartInstall
<1>2. r \in Busy /\ r.at = "next" /\ r.todo = Wanted(c) /\ r.new = {}
  <2>1. <<>> \in Seq(AllParts) /\ Wanted(c) \subseteq NameSet
    BY DEF Wanted, NameSet
  <2> QED  BY <2>1 DEF Busy, Ats, Files
<1> HIDE DEF r
<1>3. inst'[c] = r /\ Others(c)
  BY <1>1, <1>2 DEF Shapes, Others
<1>4. installs' \in 0 .. MaxInstall
  BY Assumed DEF StartInstall, Shapes
<1> QED  BY <1>2, <1>3, <1>4 DEF StartInstall

LEMMA DepIs ==
    ASSUME Shapes, NEW c \in Clients, inst[c] \in Busy, inst[c].todo # {}
    PROVE  Dep(c) \in inst[c].todo /\ Dep(c) \in NameSet
  BY FirstOfIs DEF Dep, Busy

LEMMA NextDoes ==
    ASSUME Shapes, NEW c \in Clients, NextDep(c)
    PROVE  /\ Going(c, "next") /\ inst[c] \in Busy /\ inst[c].todo # {} /\ Dep(c) \in inst[c].todo /\ Dep(c) \in NameSet
           /\ \/ \E e \in lock[c] : e.n = Dep(c) /\ Takes(c, e)
              \/ Halts(c, FALSE)
              \/ /\ manifest[c][Dep(c)] = PathDep /\ Takes(c, Entry(Dep(c), NoVer, None)) /\ ~inst[c].frozen
              \/ manifest[c][Dep(c)] = GitDep /\ Moves(c, "git") /\ ~inst[c].frozen
              \/ Moves(c, "index") /\ ~inst[c].frozen
           /\ UNCHANGED <<registry, manifest, needSig, installs, lock, cache, git, tmp, struck>>
<1> DEFINE n == Dep(c)
<1>1. Going(c, "next") /\ inst[c].todo # {} /\ inst[c] \in Busy
  BY BusyIs DEF NextDep, Going
<1>2. n \in inst[c].todo /\ n \in NameSet
  BY <1>1, DepIs
<1>3. UNCHANGED <<registry, manifest, needSig, installs, lock, cache, git, tmp, struck>>
  BY DEF NextDep, Still
<1>4. CASE LockedFor(c, n) # {}
  <2> DEFINE e == CHOOSE x \in LockedFor(c, n) : TRUE
  <2>1. e \in LockedFor(c, n)
    BY <1>4
  <2>2. inst' = [inst EXCEPT ![c] = Taken(c, e)]
    BY <1>4 DEF NextDep
  <2> HIDE DEF e
  <2>3. e \in lock[c] /\ e.n = n /\ e \in Entries
    BY <2>1 DEF LockedFor, Shapes
  <2>4. Takes(c, e)
    BY <1>1, <2>2, <2>3, TakenDoes
  <2> QED  BY <1>1, <1>2, <1>3, <2>3, <2>4
<1>5. CASE LockedFor(c, n) = {} /\ Frozen(c)
  <2>1. Stop(c, FALSE)
    BY <1>5 DEF NextDep
  <2> QED  BY <1>1, <1>2, <1>3, <2>1, StopDoes
<1>6. CASE LockedFor(c, n) = {} /\ ~Frozen(c)
  <2>1. CASE manifest[c][n] = PathDep
    <3>0. PathDep # GitDep
      BY DEF PathDep, GitDep, VRange
    <3>1. inst' = [inst EXCEPT ![c] = Taken(c, Entry(n, NoVer, None))]
      BY <1>6, <2>1, <3>0 DEF NextDep
    <3>2. Entry(n, NoVer, None) \in Entries
      BY <1>2 DEF Entry, Entries, Files
    <3> QED  BY <1>1, <1>2, <1>3, <1>6, <2>1, <3>1, <3>2, TakenDoes DEF Frozen
  <2>2. CASE manifest[c][n] = GitDep
    <3>1. PathDep # GitDep
      BY DEF PathDep, GitDep, VRange
    <3>2. Goto(c, "git")
      BY <1>6, <2>2, <3>1 DEF NextDep
    <3>3. "git" \in Ats
      BY DEF Ats
    <3> QED  BY <1>1, <1>2, <1>3, <1>6, <2>2, <3>2, <3>3, GotoDoes DEF Frozen
  <2>3. CASE manifest[c][n] \notin {PathDep, GitDep}
    <3>1. Goto(c, "index")
      BY <1>6, <2>3 DEF NextDep
    <3>2. "index" \in Ats
      BY DEF Ats
    <3> QED  BY <1>1, <1>2, <1>3, <1>6, <3>1, <3>2, GotoDoes DEF Frozen
  <2> QED  BY <2>1, <2>2, <2>3
<1> QED  BY <1>4, <1>5, <1>6

LEMMA GitDoes ==
    ASSUME Shapes, NEW c \in Clients, inst[c].todo # {}, GetGit(c)
    PROVE  /\ Going(c, "git") /\ inst[c] \in Busy
           /\ \/ \E x \in {"asked", "other"} :
                   Takes(c, Entry(Dep(c), NoVer, x)) /\ (x = "asked" \/ git[Dep(c)] = "other")
              \/ Halts(c, FALSE)
           /\ git' = git \/ git' = [git EXCEPT ![Dep(c)] = "asked"]
           /\ UNCHANGED <<registry, manifest, needSig, installs, lock, cache, tmp, struck>>
<1>1. Going(c, "git") /\ inst[c] \in Busy
  BY BusyIs DEF GetGit, Going
<1>2. Dep(c) \in NameSet
  BY <1>1, DepIs
<1>3. ASSUME NEW x \in {"asked", "other"} PROVE Entry(Dep(c), NoVer, x) \in Entries
  BY <1>2 DEF Entry, Entries
<1>4. UNCHANGED <<registry, manifest, needSig, installs, lock, cache, tmp, struck>>
  BY DEF GetGit, Still
<1>5. \/ /\ git[Dep(c)] \in {"asked", "other"} /\ git' = git
         /\ inst' = [inst EXCEPT ![c] = Taken(c, Entry(Dep(c), NoVer, git[Dep(c)]))]
      \/ git' = git /\ Stop(c, FALSE)
      \/ /\ git' = [git EXCEPT ![Dep(c)] = "asked"]
         /\ inst' = [inst EXCEPT ![c] = Taken(c, Entry(Dep(c), NoVer, "asked"))]
  BY DEF GetGit, Clone, Hit
<1> QED  BY <1>1, <1>3, <1>4, <1>5, TakenDoes, StopDoes

LEMMA IndexDoes ==
    ASSUME Shapes, NEW c \in Clients, inst[c].todo # {}, GetIndex(c)
    PROVE  /\ Going(c, "index") /\ inst[c] \in Busy
           /\ \/ Halts(c, FALSE)
              \/ LET n == Dep(c)  v == inst'[c].v
                 IN  /\ Moves(c, "cached") /\ v = ResolveVersion(manifest[c][n], index[n].versions)
                     /\ v \in Versions /\ v \in VersionsOf(n) /\ MatchesRange(v, manifest[c][n])
                     /\ \A w \in VersionsOf(n) : MatchesRange(w, manifest[c][n]) => ~Before(v, w)
                     /\ inst'[c].sha = index[n].dist[v]
           /\ UNCHANGED <<registry, manifest, needSig, installs, lock, cache, git, tmp, struck>>
<1> DEFINE n == Dep(c)
           v == ResolveVersion(manifest[c][n], index[n].versions)
<1>1. Going(c, "index") /\ inst[c] \in Busy
  BY BusyIs DEF GetIndex, Going
<1>2. n \in NameSet
  BY <1>1, DepIs
<1>3. UNCHANGED <<registry, manifest, needSig, installs, lock, cache, git, tmp, struck>>
  BY DEF GetIndex, Still
<1>4. CASE v = NoVer
  <2>1. Stop(c, FALSE)
    BY <1>4 DEF GetIndex, NoneFits
  <2> QED  BY <1>1, <1>3, <2>1, StopDoes
<1>5. CASE v # NoVer
  <2> DEFINE r == [inst[c] EXCEPT !.at = "cached", !.v = v, !.sha = Dist(index[n], v)]
  <2>1. inst' = [inst EXCEPT ![c] = r]
    BY <1>5 DEF GetIndex, NoneFits
  <2>2. GoodIndex(index[n])
    BY <1>2 DEF Shapes
  <2>3. /\ v \in ToSet(index[n].versions) /\ v \in Versions /\ MatchesRange(v, manifest[c][n])
        /\ \A w \in ToSet(index[n].versions) : MatchesRange(w, manifest[c][n]) => ~Before(v, w)
    BY <1>5, <2>2, ResolveIs DEF GoodIndex
  <2> HIDE DEF v
  <2>4. Dist(index[n], v) = index[n].dist[v] /\ Dist(index[n], v) \in Files
    BY <2>2, <2>3 DEF Dist, GoodIndex
  <2>5. /\ r \in Busy /\ r.at = "cached" /\ r.todo = inst[c].todo /\ r.new = inst[c].new
        /\ r.frozen = inst[c].frozen /\ r.v = v /\ r.sha = index[n].dist[v]
    BY <1>1, <2>3, <2>4 DEF Busy, Ats, Fetching
  <2> HIDE DEF r, n
  <2>6. inst'[c] = r /\ Others(c)
    BY <2>1, <2>5 DEF Shapes, Others
  <2>7. Moves(c, "cached")
    BY <2>5, <2>6 DEF Moves, SameJob
  <2> QED  BY <1>1, <1>3, <2>3, <2>5, <2>6, <2>7 DEF VersionsOf, n, v
<1> QED  BY <1>4, <1>5

LEMMA CachedDoes ==
    ASSUME Shapes, NEW c \in Clients, Key(c) \in Packs, CheckCache(c)
    PROVE  /\ Going(c, "cached") /\ inst[c] \in Busy
           /\ \/ Installed(Key(c)) /\ Takes(c, Entry(Dep(c), inst[c].v, inst[c].sha))
              \/ ~Installed(Key(c)) /\ Moves(c, "tar") /\ SameFetch(c)
           /\ UNCHANGED <<registry, manifest, needSig, installs, lock, cache, git, tmp, struck>>
<1>1. Going(c, "cached") /\ inst[c] \in Busy
  BY BusyIs DEF CheckCache, Going
<1>2. Dep(c) \in NameSet /\ Key(c)[1] = Dep(c) /\ Key(c)[2] = inst[c].v
  BY DEF Key, Packs, NameSet
<1>3. Entry(Dep(c), inst[c].v, inst[c].sha) \in Entries
  BY <1>1, <1>2 DEF Entry, Entries, Busy, Files
<1>4. UNCHANGED <<registry, manifest, needSig, installs, lock, cache, git, tmp, struck>>
  BY DEF CheckCache, Still
<1>5. CASE Installed(Key(c))
  <2>1. inst' = [inst EXCEPT ![c] = Taken(c, Entry(Dep(c), inst[c].v, inst[c].sha))]
    BY <1>2, <1>5 DEF CheckCache
  <2> QED  BY <1>1, <1>3, <1>4, <1>5, <2>1, TakenDoes
<1>6. CASE ~Installed(Key(c))
  <2>1. Goto(c, "tar") /\ "tar" \in Ats
    BY <1>6 DEF CheckCache, Ats, Fetching
  <2> QED  BY <1>1, <1>4, <1>6, <2>1, GotoDoes
<1> QED  BY <1>5, <1>6

LEMMA BodyDoes ==
    ASSUME Shapes, NEW c \in Clients, inst[c] \in Busy, NEW body \in Files, TakeBody(c, body)
    PROVE  \/ Halts(c, FALSE)
           \/ /\ Moves(c, "sig") /\ SameFetch(c) /\ inst'[c].body = body
              /\ inst[c].sha = None \/ inst[c].sha = body
<1>1. CASE ShaOk(c, body)
  <2> DEFINE r == [inst[c] EXCEPT !.at = "sig", !.body = body]
  <2>1. inst' = [inst EXCEPT ![c] = r]
    BY <1>1 DEF TakeBody
  <2>2. /\ r \in Busy /\ r.at = "sig" /\ r.todo = inst[c].todo /\ r.new = inst[c].new /\ r.frozen = inst[c].frozen
        /\ r.v = inst[c].v /\ r.sha = inst[c].sha /\ r.body = body
    BY DEF Busy, Ats, Fetching
  <2> HIDE DEF r
  <2>3. inst'[c] = r /\ Others(c)
    BY <2>1, <2>2 DEF Shapes, Others
  <2> QED  BY <1>1, <2>2, <2>3 DEF Moves, SameJob, SameFetch, ShaOk
<1>2. CASE ~ShaOk(c, body)
  BY <1>2, StopDoes DEF TakeBody
<1> QED  BY <1>1, <1>2

LEMMA TarDoes ==
    ASSUME Shapes, NEW c \in Clients, Key(c) \in Packs, GetTar(c) \/ SpoilTar(c)
    PROVE  /\ Going(c, "tar") /\ inst[c] \in Busy
           /\ \/ Halts(c, FALSE)
              \/ /\ Moves(c, "sig") /\ SameFetch(c)
                 /\ inst[c].sha = None \/ inst[c].sha = inst'[c].body
           /\ UNCHANGED <<registry, manifest, needSig, installs, lock, cache, git, tmp>>
           /\ struck \subseteq struck'
<1>1. Going(c, "tar") /\ inst[c] \in Busy
  BY BusyIs DEF GetTar, SpoilTar, Going
<1>2. tar[Key(c)] \in Files /\ Bad \in Files
  BY DEF Shapes, Files
<1>3. UNCHANGED <<registry, manifest, needSig, installs, lock, cache, git, tmp>> /\ struck \subseteq struck'
  BY DEF GetTar, SpoilTar, Still, Strike
<1>4. Stop(c, FALSE) \/ \E body \in Files : TakeBody(c, body)
  BY <1>2 DEF GetTar, SpoilTar
<1> QED  BY <1>1, <1>3, <1>4, BodyDoes, StopDoes

LEMMA SigDoes ==
    ASSUME Shapes, NEW c \in Clients, GetSig(c) \/ LoseSig(c)
    PROVE  /\ Going(c, "sig") /\ inst[c] \in Busy
           /\ \/ Halts(c, FALSE)
              \/ /\ (needSig => sig[Key(c)] = inst[c].body) /\ Moves(c, "open") /\ SameFetch(c)
                 /\ inst'[c].body = inst[c].body
           /\ UNCHANGED <<registry, manifest, needSig, installs, lock, cache, git, tmp>>
           /\ struck \subseteq struck'
<1>1. Going(c, "sig") /\ inst[c] \in Busy
  BY BusyIs DEF GetSig, LoseSig, Going
<1>2. UNCHANGED <<registry, manifest, needSig, installs, lock, cache, git, tmp>> /\ struck \subseteq struck'
  BY DEF GetSig, LoseSig, Still, Strike
<1>3. "open" \in Ats
  BY DEF Ats, Fetching
<1>4. Stop(c, FALSE) \/ ((needSig => sig[Key(c)] = inst[c].body) /\ Goto(c, "open"))
  BY Assumed DEF GetSig, LoseSig, SigOk
<1> QED  BY <1>1, <1>2, <1>3, <1>4, GotoDoes, StopDoes

LEMMA OpenDoes ==
    ASSUME Shapes, NEW c \in Clients, Key(c) \in Packs, OpenTmp(c)
    PROVE  /\ Going(c, "open") /\ inst[c] \in Busy
           /\ Moves(c, "save") /\ SameFetch(c) /\ inst'[c].body = inst[c].body
           /\ tmp' \in [Packs -> Files] /\ tmp'[Key(c)] = Bad
           /\ UNCHANGED <<registry, manifest, needSig, installs, lock, cache, git, struck>>
<1>1. Going(c, "open") /\ inst[c] \in Busy /\ "save" \in Ats
  BY BusyIs DEF OpenTmp, Going, Ats, Fetching
<1>2. UNCHANGED <<registry, manifest, needSig, installs, lock, cache, git, struck>>
  BY DEF OpenTmp, Still
<1>3. tmp' = [tmp EXCEPT ![Key(c)] = Bad] /\ Goto(c, "save")
  BY DEF OpenTmp
<1>4. tmp' \in [Packs -> Files] /\ tmp'[Key(c)] = Bad
  BY <1>3 DEF Shapes, Files
<1> QED  BY <1>1, <1>2, <1>3, <1>4, GotoDoes

LEMMA SaveDoes ==
    ASSUME Shapes, NEW c \in Clients, Key(c) \in Packs, WriteTmp(c)
    PROVE  /\ Going(c, "save") /\ inst[c] \in Busy
           /\ Moves(c, "read") /\ SameFetch(c) /\ inst'[c].body = inst[c].body
           /\ tmp' \in [Packs -> Files] /\ (tmp[Key(c)] # None => tmp'[Key(c)] = inst[c].body)
           /\ UNCHANGED <<registry, manifest, needSig, installs, lock, cache, git, struck>>
<1>1. Going(c, "save") /\ inst[c] \in Busy /\ "read" \in Ats
  BY BusyIs DEF WriteTmp, Going, Ats, Fetching
<1>2. UNCHANGED <<registry, manifest, needSig, installs, lock, cache, git, struck>>
  BY DEF WriteTmp, Still
<1>3. tmp' = [tmp EXCEPT ![Key(c)] = IF @ = None THEN None ELSE inst[c].body] /\ Goto(c, "read")
  BY DEF WriteTmp
<1>4. inst[c].body \in Files /\ None \in Files
  BY <1>1 DEF Busy, Files
<1>5. tmp' \in [Packs -> Files] /\ (tmp[Key(c)] # None => tmp'[Key(c)] = inst[c].body)
  BY <1>3, <1>4 DEF Shapes
<1> QED  BY <1>1, <1>2, <1>3, <1>5, GotoDoes

LEMMA ReadDoes ==
    ASSUME Shapes, NEW c \in Clients, Key(c) \in Packs, ReadTmp(c)
    PROVE  /\ Going(c, "read") /\ inst[c] \in Busy
           /\ \/ Halts(c, FALSE) /\ tmp[Key(c)] = None
              \/ /\ Moves(c, "extract") /\ SameFetch(c) /\ inst'[c].body = tmp[Key(c)]
                 /\ tmp[Key(c)] \in Contents => inst'[c].rest = Parts(tmp[Key(c)])
           /\ UNCHANGED <<registry, manifest, needSig, installs, lock, cache, git, tmp, struck>>
<1> DEFINE t == tmp[Key(c)]
           rest == IF t = Bad THEN <<>> ELSE Parts(t)
<1>1. Going(c, "read") /\ inst[c] \in Busy
  BY BusyIs DEF ReadTmp, Going
<1>2. UNCHANGED <<registry, manifest, needSig, installs, lock, cache, git, tmp, struck>>
  BY DEF ReadTmp, Still
<1>3. CASE t = None
  <2>1. Stop(c, FALSE)
    BY <1>3 DEF ReadTmp
  <2> QED  BY <1>1, <1>2, <1>3, <2>1, StopDoes
<1>4. CASE t # None
  <2> DEFINE r == [inst[c] EXCEPT !.at = "extract", !.body = t, !.rest = rest]
  <2>1. inst' = [inst EXCEPT ![c] = r]
    BY <1>4 DEF ReadTmp
  <2>2. t \in Files
    BY DEF Shapes
  <2>3. rest \in Seq(AllParts) /\ (t \in Contents => rest = Parts(t))
    <3>1. <<>> \in Seq(AllParts)
      OBVIOUS
    <3>2. t \in Contents \/ t = Bad
      BY <1>4, <2>2 DEF Files
    <3> QED  BY <3>1, <3>2, Assumed
  <2> HIDE DEF rest
  <2>4. /\ r \in Busy /\ r.at = "extract" /\ r.todo = inst[c].todo /\ r.new = inst[c].new /\ r.frozen = inst[c].frozen
        /\ r.v = inst[c].v /\ r.sha = inst[c].sha /\ r.body = t /\ r.rest = rest
    BY <1>1, <2>2, <2>3 DEF Busy, Ats, Fetching
  <2> HIDE DEF r
  <2>5. inst'[c] = r /\ Others(c)
    BY <2>1, <2>4 DEF Shapes, Others
  <2> QED  BY <1>1, <1>2, <2>3, <2>4, <2>5 DEF Moves, SameJob, SameFetch
<1> QED  BY <1>3, <1>4

LEMMA ExtractDoes ==
    ASSUME Shapes, NEW c \in Clients, Key(c) \in Packs, ExtractFile(c)
    PROVE  /\ Going(c, "extract") /\ inst[c] \in Busy /\ inst[c].rest # <<>>
           /\ Moves(c, "extract") /\ SameFetch(c) /\ inst'[c].body = inst[c].body
           /\ inst'[c].rest = Tail(inst[c].rest)
           /\ DOMAIN cache' = Packs /\ \A k \in Packs \ {Key(c)} : cache'[k] = cache[k]
           /\ cache'[Key(c)] = With(cache[Key(c)], Head(inst[c].rest), inst[c].body)
           /\ UNCHANGED <<registry, manifest, needSig, installs, lock, git, tmp, struck>>
<1> DEFINE rest == Tail(inst[c].rest)
           r == [inst[c] EXCEPT !.rest = rest]
<1>1. Going(c, "extract") /\ inst[c] \in Busy /\ inst[c].rest # <<>>
  BY BusyIs DEF ExtractFile, Going
<1>2. UNCHANGED <<registry, manifest, needSig, installs, lock, git, tmp, struck>>
  BY DEF ExtractFile, Still
<1>3. /\ cache' = [cache EXCEPT ![Key(c)] = With(cache[Key(c)], Head(inst[c].rest), inst[c].body)]
      /\ inst' = [inst EXCEPT ![c] = r]
  BY DEF ExtractFile
<1>4. rest \in Seq(AllParts)
  BY <1>1, TailFacts DEF Busy
<1> HIDE DEF rest
<1>5. /\ r \in Busy /\ r.at = "extract" /\ r.todo = inst[c].todo /\ r.new = inst[c].new /\ r.frozen = inst[c].frozen
      /\ r.v = inst[c].v /\ r.sha = inst[c].sha /\ r.body = inst[c].body /\ r.rest = rest
  BY <1>1, <1>4 DEF Busy, Going
<1> HIDE DEF r
<1>6. inst'[c] = r /\ Others(c)
  BY <1>3, <1>5 DEF Shapes, Others
<1>7. /\ DOMAIN cache' = Packs /\ \A k \in Packs \ {Key(c)} : cache'[k] = cache[k]
      /\ cache'[Key(c)] = With(cache[Key(c)], Head(inst[c].rest), inst[c].body)
  BY <1>3 DEF Shapes
<1> QED  BY <1>1, <1>2, <1>5, <1>6, <1>7 DEF Moves, SameJob, SameFetch, rest

LEMMA RemoveDoes ==
    ASSUME Shapes, NEW c \in Clients, Key(c) \in Packs, RemoveTmp(c)
    PROVE  /\ Going(c, "extract") /\ inst[c] \in Busy /\ inst[c].rest = <<>>
           /\ Takes(c, Entry(Dep(c), inst[c].v, inst[c].body))
           /\ tmp' \in [Packs -> Files]
           /\ UNCHANGED <<registry, manifest, needSig, installs, lock, cache, git, struck>>
<1>1. Going(c, "extract") /\ inst[c] \in Busy /\ inst[c].rest = <<>>
  BY BusyIs DEF RemoveTmp, Going, Extracted
<1>2. Dep(c) \in NameSet /\ Key(c)[1] = Dep(c) /\ Key(c)[2] = inst[c].v
  BY DEF Key, Packs, NameSet
<1>3. Entry(Dep(c), inst[c].v, inst[c].body) \in Entries
  BY <1>1, <1>2 DEF Entry, Entries, Busy, Files
<1>4. UNCHANGED <<registry, manifest, needSig, installs, lock, cache, git, struck>>
  BY DEF RemoveTmp, Still
<1>5. /\ tmp' = [tmp EXCEPT ![Key(c)] = None]
      /\ inst' = [inst EXCEPT ![c] = Taken(c, Entry(Dep(c), inst[c].v, inst[c].body))]
  BY <1>2 DEF RemoveTmp
<1>6. tmp' \in [Packs -> Files]
  BY <1>5 DEF Shapes, Files
<1> QED  BY <1>1, <1>3, <1>4, <1>5, <1>6, TakenDoes

LEMMA OpenLockDoes ==
    ASSUME Shapes, NEW c \in Clients, OpenLock(c)
    PROVE  /\ Going(c, "next") /\ inst[c] \in Busy /\ inst[c].todo = {}
           /\ Moves(c, "locking") /\ lock' = [lock EXCEPT ![c] = {}]
           /\ UNCHANGED <<registry, manifest, needSig, installs, cache, git, tmp, struck>>
<1>1. Going(c, "next") /\ inst[c] \in Busy /\ inst[c].todo = {} /\ "locking" \in Ats
  BY BusyIs DEF OpenLock, Going, AllTaken, Ats
<1>2. UNCHANGED <<registry, manifest, needSig, installs, cache, git, tmp, struck>>
  BY DEF OpenLock, Still
<1> QED  BY <1>1, <1>2, GotoDoes DEF OpenLock

LEMMA WriteLockDoes ==
    ASSUME Shapes, NEW c \in Clients, WriteLock(c)
    PROVE  /\ Going(c, "locking") /\ inst[c] \in Busy
           /\ Halts(c, TRUE) /\ lock' = [lock EXCEPT ![c] = inst[c].new]
           /\ UNCHANGED <<registry, manifest, needSig, installs, cache, git, tmp, struck>>
<1>1. Going(c, "locking") /\ inst[c] \in Busy
  BY BusyIs DEF WriteLock, Going
<1>2. UNCHANGED <<registry, manifest, needSig, installs, cache, git, tmp, struck>>
  BY DEF WriteLock, Still
<1> QED  BY <1>1, <1>2, StopDoes DEF WriteLock

\* A failed GET or a crash ends the install.
LEMMA FailDoes ==
    ASSUME Shapes, NEW c \in Clients, LoseGet(c) \/ FailCheckout(c) \/ CrashInstall(c)
    PROVE  /\ inst[c] \in Busy /\ Halts(c, FALSE)
           /\ UNCHANGED <<registry, manifest, needSig, installs, lock, cache, tmp>>
           /\ \/ git' = git
              \/ \E x \in {"asked", "half"} : git' = [git EXCEPT ![Dep(c)] = x]
              \/ /\ ~Without({"checkout"})'
                 /\ \E x \in {"other", "half"} : git' = [git EXCEPT ![Dep(c)] = x]
           /\ struck \subseteq struck' /\ (Going(c, "extract") => ~Without({"crash"})')
<1>1. ~Going(c, "idle") /\ Stop(c, FALSE)
  BY DEF LoseGet, FailCheckout, Cloning, CrashInstall, Going
<1>2. UNCHANGED <<registry, manifest, needSig, installs, lock, cache, tmp>> /\ struck \subseteq struck'
  BY DEF LoseGet, FailCheckout, CrashInstall, Still, Strike
<1>3. Going(c, "extract") => ~Without({"crash"})'
  BY DEF LoseGet, FailCheckout, Cloning, CrashInstall, Strike, Going, Without
<1>4. \/ git' = git
      \/ \E x \in {"asked", "half"} : git' = [git EXCEPT ![Dep(c)] = x]
      \/ ~Without({"checkout"})' /\ \E x \in {"other", "half"} : git' = [git EXCEPT ![Dep(c)] = x]
  BY DEF LoseGet, FailCheckout, CrashInstall, Strike, Without
<1> QED  BY <1>1, <1>2, <1>3, <1>4, BusyIs, StopDoes

LEMMA EditDoes ==
    ASSUME Shapes, NEW c \in Clients, NEW m \in Manifests, EditManifest(c, m)
    PROVE  /\ Going(c, "idle") /\ Halts(c, FALSE) /\ ~Without({"edit"})'
           /\ manifest' = [manifest EXCEPT ![c] = m]
           /\ UNCHANGED <<registry, lock, cache, git, tmp, needSig, installs>>
           /\ struck \subseteq struck'
<1>1. Going(c, "idle") /\ inst[c] \in Stopped
  BY BusyIs DEF EditManifest
<1>2. inst' = [inst EXCEPT ![c].ok = FALSE] /\ manifest' = [manifest EXCEPT ![c] = m]
  BY DEF EditManifest
<1>3. [inst[c] EXCEPT !.ok = FALSE] \in Stopped /\ [inst[c] EXCEPT !.ok = FALSE].ok = FALSE
  BY <1>1 DEF Stopped
<1>5. Halts(c, FALSE)
  BY <1>2, <1>3 DEF Shapes, Halts, Others
<1>6. UNCHANGED <<registry, lock, cache, git, tmp, needSig, installs>> /\ struck \subseteq struck' /\ ~Without({"edit"})'
  BY DEF EditManifest, Strike, Without
<1> QED  BY <1>1, <1>2, <1>5, <1>6

(***************************************************************************)
(* What a step does to the registry.                                       *)
(***************************************************************************)
OtherPubs(p) == DOMAIN pub' = Publishers /\ \A q \in Publishers \ {p} : pub'[q] = pub[q]

LEMMA StartPubDoes ==
    ASSUME Shapes, NEW p \in Publishers, NEW k \in Packs, NEW c \in Contents, StartPublish(p, k, c)
    PROVE  /\ pub[p].at = "idle" /\ OtherPubs(p) /\ pub'[p] = [at |-> "tar", k |-> k, c |-> c]
           /\ tar' \in [Packs -> Files] /\ tar'[k] = Bad /\ \A j \in Packs \ {k} : tar'[j] = tar[j]
           /\ published' \in 0 .. MaxPublish /\ met' = met \cup Meeting(p, k[1])
           /\ UNCHANGED <<index, sig, manifest, lock, cache, git, tmp, inst, needSig, installs>>
           /\ struck \subseteq struck' /\ (tar[k] \in Contents => ~Without({"republish"})')
<1>1. /\ tar' = [tar EXCEPT ![k] = Bad] /\ pub' = [pub EXCEPT ![p] = [at |-> "tar", k |-> k, c |-> c]]
      /\ pub[p].at = "idle" /\ published < MaxPublish /\ published' = published + 1
      /\ met' = met \cup Meeting(p, k[1])
      /\ UNCHANGED <<index, sig, manifest, lock, cache, git, tmp, inst, needSig, installs>>
  BY DEF StartPublish, others
<1>2. struck \subseteq struck' /\ (tar[k] \in Contents => ~Without({"republish"})')
  BY Assumed DEF StartPublish, Strike, Without
<1>3. tar' \in [Packs -> Files] /\ tar'[k] = Bad /\ \A j \in Packs \ {k} : tar'[j] = tar[j]
  BY <1>1 DEF Shapes, Files
<1>4. published' \in 0 .. MaxPublish
  BY <1>1, Assumed DEF Shapes
<1>5. OtherPubs(p) /\ pub'[p] = [at |-> "tar", k |-> k, c |-> c]
  BY <1>1 DEF Shapes, OtherPubs
<1> QED  BY <1>1, <1>2, <1>3, <1>4, <1>5

LEMMA PubIs ==
    ASSUME Shapes, NEW p \in Publishers
    PROVE  /\ pub[p].at \in {"idle", "tar", "index", "write"}
           /\ pub[p].at # "idle" => pub[p].k \in Packs /\ pub[p].k[1] \in NameSet /\ pub[p].k[2] \in Versions
                                    /\ pub[p].k = <<pub[p].k[1], pub[p].k[2]>>
           /\ pub[p].at \in {"tar", "index"} => pub[p] \in [at : {"tar", "index"}, k : Packs, c : Contents]
           /\ pub[p].at = "write" => GoodIndex(pub[p].new)
<1>1. GoodPub(pub[p])
  BY DEF Shapes
<1>2. \A k \in Packs : k[1] \in NameSet /\ k[2] \in Versions /\ k = <<k[1], k[2]>>
  BY DEF Packs, NameSet
<1> QED  BY <1>1, <1>2 DEF GoodPub

LEMMA WriteTarDoes ==
    ASSUME Shapes, NEW p \in Publishers, WriteTar(p)
    PROVE  /\ pub[p].at = "tar" /\ OtherPubs(p) /\ pub'[p] \in [at : {"tar", "index"}, k : Packs, c : Contents]
           /\ pub'[p].at = "index" /\ pub'[p].k = pub[p].k /\ pub'[p].c = pub[p].c
           /\ tar' \in [Packs -> Files] /\ tar'[pub[p].k] = pub[p].c
           /\ \A j \in Packs \ {pub[p].k} : tar'[j] = tar[j]
           /\ UNCHANGED <<index, sig, published, met, manifest, lock, cache, git, tmp, inst, needSig, installs, struck>>
<1>1. /\ tar' = [tar EXCEPT ![pub[p].k] = pub[p].c] /\ pub' = [pub EXCEPT ![p].at = "index"]
      /\ pub[p].at = "tar"
      /\ UNCHANGED <<index, sig, published, met, manifest, lock, cache, git, tmp, inst, needSig, installs, struck>>
  BY DEF WriteTar, others
<1>2. pub[p] \in [at : {"tar", "index"}, k : Packs, c : Contents]
  BY <1>1, PubIs
<1>3. /\ tar' \in [Packs -> Files] /\ tar'[pub[p].k] = pub[p].c
      /\ \A j \in Packs \ {pub[p].k} : tar'[j] = tar[j]
  BY <1>1, <1>2 DEF Shapes, Files
<1> DEFINE r == [pub[p] EXCEPT !.at = "index"]
<1>4. /\ r \in [at : {"tar", "index"}, k : Packs, c : Contents]
      /\ r.at = "index" /\ r.k = pub[p].k /\ r.c = pub[p].c
  BY <1>2
<1>5. pub' = [pub EXCEPT ![p] = r]
  BY <1>1
<1> HIDE DEF r
<1>6. OtherPubs(p) /\ pub'[p] = r
  BY <1>5 DEF Shapes, OtherPubs
<1> QED  BY <1>1, <1>3, <1>4, <1>6

LEMMA ReadIndexDoes ==
    ASSUME Shapes, NEW p \in Publishers, ReadIndex(p)
    PROVE  LET k == pub[p].k  new == Merged(index[k[1]], k[2], tar[k])
           IN  /\ pub[p].at = "index" /\ OtherPubs(p) /\ pub'[p] = [at |-> "write", k |-> k, new |-> new]
               /\ GoodIndex(new)
               /\ index' = [index EXCEPT ![k[1]] = NoIndex]
               /\ UNCHANGED <<tar, sig, published, met, manifest, lock, cache, git, tmp, inst, needSig, installs, struck>>
<1> DEFINE k == pub[p].k
           new == Merged(index[k[1]], k[2], tar[k])
<1>1. /\ pub' = [pub EXCEPT ![p] = [at |-> "write", k |-> k, new |-> new]]
      /\ index' = [index EXCEPT ![k[1]] = NoIndex] /\ pub[p].at = "index"
      /\ UNCHANGED <<tar, sig, published, met, manifest, lock, cache, git, tmp, inst, needSig, installs, struck>>
  BY DEF ReadIndex, others
<1>2. k \in Packs /\ k[1] \in NameSet /\ k[2] \in Versions
  BY <1>1, PubIs
<1>3. GoodIndex(index[k[1]]) /\ tar[k] \in Files
  BY <1>2 DEF Shapes
<1>4. GoodIndex(new)
  BY <1>2, <1>3, MergedIs
<1> HIDE DEF new, k
<1>5. OtherPubs(p) /\ pub'[p] = [at |-> "write", k |-> k, new |-> new]
  BY <1>1 DEF Shapes, OtherPubs
<1> QED  BY <1>1, <1>4, <1>5 DEF new, k

LEMMA WriteIndexDoes ==
    ASSUME Shapes, NEW p \in Publishers, WriteIndex(p)
    PROVE  /\ pub[p].at = "write" /\ OtherPubs(p) /\ pub'[p] = [at |-> "idle"]
           /\ index' = [index EXCEPT ![pub[p].k[1]] = pub[p].new]
           /\ UNCHANGED <<tar, sig, published, met, manifest, lock, cache, git, tmp, inst, needSig, installs, struck>>
  BY DEF WriteIndex, others, Shapes, OtherPubs

LEMMA CrashPubDoes ==
    ASSUME Shapes, NEW p \in Publishers, CrashPublish(p)
    PROVE  /\ pub[p].at # "idle" /\ OtherPubs(p) /\ pub'[p] = [at |-> "idle"]
           /\ UNCHANGED <<index, tar, sig, published, met, manifest, lock, cache, git, tmp, inst, needSig, installs>>
           /\ struck \subseteq struck' /\ ~Without({"crash"})'
<1>1. /\ pub[p].at # "idle" /\ OtherPubs(p) /\ pub'[p] = [at |-> "idle"]
      /\ UNCHANGED <<index, tar, sig, published, met, manifest, lock, cache, git, tmp, inst, needSig, installs>>
  BY DEF CrashPublish, others, Shapes, OtherPubs
<1>2. struck \subseteq struck' /\ ~Without({"crash"})'
  BY DEF CrashPublish, Strike, Without
<1> QED  BY <1>1, <1>2

(***************************************************************************)
(* Any number of clients and publishers.                                   *)
(***************************************************************************)

\* An invariant of the other clients, which the step leaves alone.
LEMMA OthersKeep ==
    ASSUME ShapeInv, NEW c \in Clients, Others(c), manifest' = manifest, struck \subseteq struck',
           \A d \in Clients \ {c} : lock'[d] = lock[d]
    PROVE  \A d \in Clients \ {c} : Runs(d)' /\ Locks(d)'
<1> TAKE d \in Clients \ {c}
<1>1. inst'[d] = inst[d] /\ lock'[d] = lock[d] /\ Runs(d) /\ Locks(d)
  BY DEF Others, ShapeInv
<1>2. Runs(d)'
  BY <1>1 DEF Runs, Going, Wanted, Dep
<1>3. Without({"edit", "lockfile"})' => Without({"edit", "lockfile"})
  BY DEF Without
<1>4. Locks(d)'
  BY <1>1, <1>3 DEF Locks, Done, Going, Wanted, EntriesOf, Meets
<1> QED  BY <1>2, <1>4

LEMMA ClientKeeps ==
    ASSUME ShapeInv, NEW c \in Clients, Others(c), UNCHANGED <<registry, manifest>>, struck \subseteq struck',
           lock' \in [Clients -> SUBSET Entries], \A d \in Clients \ {c} : lock'[d] = lock[d],
           DOMAIN cache' = Packs, tmp' \in [Packs -> Files], git' \in Gits,
           installs' \in 0 .. MaxInstall, Runs(c)', Locks(c)'
    PROVE  ShapeInv'
<1>1. UNCHANGED <<index, tar, sig, pub, published, met, manifest>>
  BY DEF registry
<1>2. \A d \in Clients : Runs(d)' /\ Locks(d)'
  BY <1>1, OthersKeep
<1>3. Shapes
  BY DEF ShapeInv
<1>4. Shapes'
  BY <1>1, <1>3 DEF Shapes, Others
<1> QED  BY <1>2, <1>4 DEF ShapeInv

LEMMA HaltKeeps ==
    ASSUME ShapeInv, NEW c \in Clients, Halts(c, FALSE), manifest' = manifest, lock' = lock, struck \subseteq struck'
    PROVE  Runs(c)' /\ Locks(c)'
<1>1. Going(c, "idle")' /\ ~Done(c)'
  BY DEF Halts, Going, Stopped, Done
<1>2. Without({"edit", "lockfile"})' => Without({"edit", "lockfile"})
  BY DEF Without
<1>3. EntriesOf(c)' \subseteq EntriesOf(c)
  BY <1>1 DEF EntriesOf
<1>4. Locks(c)
  BY DEF ShapeInv
<1>5. Locks(c)'
  BY <1>1, <1>2, <1>3, <1>4 DEF Locks, Meets
<1> QED  BY <1>1, <1>5 DEF Runs

LEMMA MoveKeeps ==
    ASSUME ShapeInv, NEW c \in Clients, inst[c] \in Busy, inst[c].todo # {}, ~inst[c].frozen,
           NEW a \in Ats \ {"locking"}, Moves(c, a), UNCHANGED <<manifest, lock>>, struck \subseteq struck',
           a = "git" => manifest[c][Dep(c)] = GitDep,
           a \in Fetching => inst'[c].v \in Versions /\ MatchesRange(inst'[c].v, manifest[c][Dep(c)])
    PROVE  Runs(c)' /\ Locks(c)' /\ Dep(c)' = Dep(c)
<1>1. inst'[c].at = a /\ inst'[c].todo = inst[c].todo /\ inst'[c].new = inst[c].new /\ inst'[c].frozen = inst[c].frozen
  BY DEF Moves, SameJob
<1>2. ~Going(c, "idle") /\ ~Going(c, "idle")'
  BY <1>1 DEF Going, Busy, Ats, Fetching
<1>3. Without({"edit", "lockfile"})' => Without({"edit", "lockfile"})
  BY DEF Without
<1>4. EntriesOf(c)' = EntriesOf(c)
  BY <1>1, <1>2 DEF EntriesOf
<1>5. Locks(c) /\ Runs(c)
  BY DEF ShapeInv
<1>6. Locks(c)'
  BY <1>2, <1>3, <1>4, <1>5 DEF Locks, Meets, Done
<1>7. Dep(c)' = Dep(c) /\ Wanted(c)' = Wanted(c)
  BY <1>1 DEF Dep, Wanted
<1>8. Runs(c)'
  BY <1>1, <1>2, <1>5, <1>7 DEF Runs, Going, Ats, Fetching
<1> QED  BY <1>6, <1>7, <1>8

LEMMA TakeKeeps ==
    ASSUME ShapeInv, NEW c \in Clients, inst[c] \in Busy, NEW e, e.n \in inst[c].todo, Takes(c, e),
           UNCHANGED <<manifest, lock>>, struck \subseteq struck', Without({"edit", "lockfile"}) => Meets(c, e)
    PROVE  Runs(c)' /\ Locks(c)'
<1>1. /\ inst'[c].at = "next" /\ inst'[c].todo = inst[c].todo \ {e.n}
      /\ inst'[c].new = inst[c].new \cup {e} /\ inst'[c].frozen = inst[c].frozen
  BY DEF Takes
<1>2. ~Going(c, "idle") /\ ~Going(c, "idle")'
  BY <1>1 DEF Going, Busy, Ats, Fetching
<1>3. Without({"edit", "lockfile"})' => Without({"edit", "lockfile"})
  BY DEF Without
<1>4. EntriesOf(c)' = EntriesOf(c) \cup {e}
  BY <1>1, <1>2 DEF EntriesOf
<1>5. Locks(c) /\ Runs(c)
  BY DEF ShapeInv
<1>6. Locks(c)'
  BY <1>2, <1>3, <1>4, <1>5 DEF Locks, Meets, Done
<1>7. Wanted(c)' = Wanted(c)
  BY DEF Wanted
<1>8. {x.n : x \in inst'[c].new} \cup inst'[c].todo = Wanted(c)
  <2>1. {x.n : x \in inst[c].new} \cup inst[c].todo = Wanted(c)
    BY <1>2, <1>5 DEF Runs
  <2>2. {x.n : x \in inst'[c].new} = {x.n : x \in inst[c].new} \cup {e.n}
    BY <1>1
  <2> QED  BY <1>1, <2>1, <2>2
<1>9. Runs(c)'
  BY <1>1, <1>2, <1>7, <1>8 DEF Runs, Going, Fetching
<1> QED  BY <1>6, <1>9

\* The key of what is fetched is a package.
LEMMA KeyIs ==
    ASSUME ShapeInv, NEW c \in Clients, inst[c].at \in Fetching
    PROVE  /\ inst[c] \in Busy /\ inst[c].todo # {} /\ ~inst[c].frozen /\ Dep(c) \in inst[c].todo
           /\ Key(c) \in Packs /\ Key(c) = <<Dep(c), inst[c].v>> /\ inst[c].v \in Versions
           /\ Dep(c) \in NameSet /\ MatchesRange(inst[c].v, manifest[c][Dep(c)])
<1>1. Shapes /\ Runs(c) /\ ~Going(c, "idle")
  BY DEF ShapeInv, Going, Fetching
<1>2. inst[c] \in Busy
  BY <1>1, BusyIs
<1>3. inst[c].todo # {} /\ ~inst[c].frozen /\ inst[c].v \in Versions /\ MatchesRange(inst[c].v, manifest[c][Dep(c)])
  BY <1>1, <1>2 DEF Runs, Fetching, Busy
<1>4. Dep(c) \in inst[c].todo /\ Dep(c) \in NameSet
  BY <1>1, <1>2, <1>3, DepIs
<1> QED  BY <1>2, <1>3, <1>4 DEF Key, Packs, NameSet

LEMMA ShapeInstall ==
    ASSUME ShapeInv, NEW c \in Clients, Install(c)
    PROVE  ShapeInv'
<1>0. Shapes /\ Runs(c) /\ Locks(c)
  BY DEF ShapeInv
<1>t. tmp \in [Packs -> Files] /\ DOMAIN cache = Packs /\ git \in Gits /\ installs \in 0 .. MaxInstall
      /\ lock \in [Clients -> SUBSET Entries]
  BY <1>0 DEF Shapes
<1>1. CASE NextDep(c)
  <2>1. /\ Going(c, "next") /\ inst[c] \in Busy /\ inst[c].todo # {} /\ Dep(c) \in inst[c].todo /\ Dep(c) \in NameSet
        /\ \/ \E e \in lock[c] : e.n = Dep(c) /\ Takes(c, e)
           \/ Halts(c, FALSE)
           \/ /\ manifest[c][Dep(c)] = PathDep /\ Takes(c, Entry(Dep(c), NoVer, None)) /\ ~inst[c].frozen
           \/ manifest[c][Dep(c)] = GitDep /\ Moves(c, "git") /\ ~inst[c].frozen
           \/ Moves(c, "index") /\ ~inst[c].frozen
        /\ UNCHANGED <<registry, manifest, needSig, installs, lock, cache, git, tmp, struck>>
    BY <1>0, <1>1, NextDoes
  <2>2. ASSUME Runs(c)' /\ Locks(c)', Others(c) PROVE ShapeInv'
    BY <1>t, <2>1, <2>2, ClientKeeps
  <2>3. ASSUME NEW e \in lock[c], e.n = Dep(c), Takes(c, e) PROVE ShapeInv'
    <3>1. Without({"edit", "lockfile"}) => Meets(c, e)
      BY <1>0 DEF Locks, EntriesOf
    <3>2. Runs(c)' /\ Locks(c)'
      BY <2>1, <2>3, <3>1, TakeKeeps
    <3> QED  BY <2>2, <2>3, <3>2 DEF Takes
  <2>4. CASE Halts(c, FALSE)
    BY <2>1, <2>2, <2>4, HaltKeeps DEF Halts
  <2>5. CASE manifest[c][Dep(c)] = PathDep /\ Takes(c, Entry(Dep(c), NoVer, None))
    <3> DEFINE e == Entry(Dep(c), NoVer, None)
    <3>1. e.n = Dep(c)
      BY DEF Entry
    <3> HIDE DEF e
    <3>2. Meets(c, e)
      BY <2>5, <3>1 DEF Meets
    <3>3. Takes(c, e)
      BY <2>5 DEF e
    <3>4. Runs(c)' /\ Locks(c)'
      BY <2>1, <3>1, <3>2, <3>3, TakeKeeps
    <3> QED  BY <2>2, <3>3, <3>4 DEF Takes
  <2>6. CASE manifest[c][Dep(c)] = GitDep /\ Moves(c, "git") /\ ~inst[c].frozen
    <3>1. "git" \in Ats \ {"locking"} /\ "git" \notin Fetching
      BY DEF Ats, Fetching
    <3>2. Runs(c)' /\ Locks(c)'
      BY <2>1, <2>6, <3>1, MoveKeeps
    <3> QED  BY <2>2, <2>6, <3>2 DEF Moves
  <2>7. CASE Moves(c, "index") /\ ~inst[c].frozen
    <3>1. "index" \in Ats \ {"locking"} /\ "index" \notin Fetching
      BY DEF Ats, Fetching
    <3>2. Runs(c)' /\ Locks(c)'
      BY <2>1, <2>7, <3>1, MoveKeeps
    <3> QED  BY <2>2, <2>7, <3>2 DEF Moves
  <2> QED  BY <2>1, <2>3, <2>4, <2>5, <2>6, <2>7
<1>2. CASE GetGit(c)
  <2>0. inst[c].todo # {}
    BY <1>0, <1>2 DEF GetGit, Runs, Going
  <2>1. /\ Going(c, "git") /\ inst[c] \in Busy
        /\ (\E x \in {"asked", "other"} : Takes(c, Entry(Dep(c), NoVer, x))) \/ Halts(c, FALSE)
        /\ git' = git \/ git' = [git EXCEPT ![Dep(c)] = "asked"]
        /\ UNCHANGED <<registry, manifest, needSig, installs, lock, cache, tmp, struck>>
    BY <1>0, <1>2, <2>0, GitDoes
  <2>2. Dep(c) \in inst[c].todo /\ Dep(c) \in NameSet
    BY <1>0, <2>0, <2>1, DepIs
  <2>g. git' \in Gits
    BY <1>t, <2>1 DEF Gits
  <2>3. ASSUME Runs(c)' /\ Locks(c)', Others(c) PROVE ShapeInv'
    BY <1>t, <2>1, <2>2, <2>3, <2>g, ClientKeeps
  <2>4. ASSUME NEW x \in {"asked", "other"}, Takes(c, Entry(Dep(c), NoVer, x)) PROVE ShapeInv'
    <3> DEFINE e == Entry(Dep(c), NoVer, x)
    <3>1. e.n = Dep(c)
      BY DEF Entry
    <3>2. Takes(c, e)
      BY <2>4
    <3> HIDE DEF e
    <3>3. manifest[c][Dep(c)] = GitDep
      BY <1>0, <2>1 DEF Runs, Going
    <3>4. Meets(c, e)
      BY <3>1, <3>3 DEF Meets
    <3>5. Runs(c)' /\ Locks(c)'
      BY <2>1, <2>2, <3>1, <3>2, <3>4, TakeKeeps
    <3> QED  BY <2>3, <3>2, <3>5 DEF Takes
  <2>5. CASE Halts(c, FALSE)
    BY <2>1, <2>3, <2>5, HaltKeeps DEF Halts
  <2> QED  BY <2>1, <2>4, <2>5
<1>3. CASE GetIndex(c)
  <2>0. inst[c].todo # {} /\ Going(c, "index")
    BY <1>0, <1>3 DEF GetIndex, Runs, Going
  <2>1. /\ Going(c, "index") /\ inst[c] \in Busy
        /\ \/ Halts(c, FALSE)
           \/ Moves(c, "cached") /\ inst'[c].v \in Versions /\ MatchesRange(inst'[c].v, manifest[c][Dep(c)])
        /\ UNCHANGED <<registry, manifest, needSig, installs, lock, cache, git, tmp, struck>>
    BY <1>0, <1>3, <2>0, IndexDoes
  <2>2. ASSUME Runs(c)' /\ Locks(c)', Others(c) PROVE ShapeInv'
    BY <1>t, <2>1, <2>2, ClientKeeps
  <2>3. CASE Halts(c, FALSE)
    BY <2>1, <2>2, <2>3, HaltKeeps DEF Halts
  <2>4. CASE Moves(c, "cached") /\ inst'[c].v \in Versions /\ MatchesRange(inst'[c].v, manifest[c][Dep(c)])
    <3>1. "cached" \in Ats \ {"locking"} /\ ~inst[c].frozen
      BY <1>0, <2>0 DEF Ats, Fetching, Runs, Going
    <3>2. Runs(c)' /\ Locks(c)'
      BY <2>0, <2>1, <2>4, <3>1, MoveKeeps
    <3> QED  BY <2>2, <2>4, <3>2 DEF Moves
  <2> QED  BY <2>1, <2>3, <2>4
<1>k. ASSUME inst[c].at \in Fetching
      PROVE  /\ inst[c] \in Busy /\ inst[c].todo # {} /\ ~inst[c].frozen /\ Dep(c) \in inst[c].todo
             /\ Key(c) \in Packs /\ inst[c].v \in Versions /\ MatchesRange(inst[c].v, manifest[c][Dep(c)])
  BY <1>k, KeyIs
\* A step of the fetch that keeps the version chosen.
<1>f. ASSUME inst[c].at \in Fetching, UNCHANGED <<registry, manifest, installs, lock, git>>, struck \subseteq struck',
             DOMAIN cache' = Packs, tmp' \in [Packs -> Files],
             NEW a \in Fetching, Moves(c, a), SameFetch(c)
      PROVE  ShapeInv'
  <2>1. a \in Ats \ {"locking"} /\ a # "git"
    BY DEF Ats, Fetching
  <2>2. inst'[c].v \in Versions /\ MatchesRange(inst'[c].v, manifest[c][Dep(c)])
    BY <1>f, <1>k DEF SameFetch
  <2>3. Runs(c)' /\ Locks(c)'
    BY <1>f, <1>k, <2>1, <2>2, MoveKeeps
  <2> QED  BY <1>t, <1>f, <2>3, ClientKeeps DEF Moves
<1>h. ASSUME UNCHANGED <<registry, manifest, installs, lock, git, cache, tmp>>, struck \subseteq struck', Halts(c, FALSE)
      PROVE  ShapeInv'
  <2>1. Runs(c)' /\ Locks(c)'
    BY <1>h, HaltKeeps
  <2> QED  BY <1>t, <1>h, <2>1, ClientKeeps DEF Halts
\* The entry of what was fetched, or found.
<1>e. ASSUME inst[c].at \in Fetching, UNCHANGED <<registry, manifest, installs, lock, git, cache, struck>>,
             tmp' \in [Packs -> Files], NEW sha, Takes(c, Entry(Dep(c), inst[c].v, sha))
      PROVE  ShapeInv'
  <2> DEFINE e == Entry(Dep(c), inst[c].v, sha)
  <2>1. e.n = Dep(c) /\ e.v = inst[c].v /\ Takes(c, e)
    BY <1>e DEF Entry
  <2> HIDE DEF e
  <2>2. Meets(c, e)
    BY <1>e, <1>k, <2>1 DEF Meets
  <2>3. Runs(c)' /\ Locks(c)'
    BY <1>e, <1>k, <2>1, <2>2, TakeKeeps
  <2> QED  BY <1>t, <1>e, <2>1, <2>3, ClientKeeps DEF Takes
<1> DEFINE Fetch == inst[c].at \in Fetching
<1>4. CASE CheckCache(c)
  <2>1. Fetch
    BY <1>4 DEF CheckCache, Going, Fetching
  <2>2. "tar" \in Fetching
    BY DEF Fetching
  <2>3. /\ \/ Takes(c, Entry(Dep(c), inst[c].v, inst[c].sha))
           \/ Moves(c, "tar") /\ SameFetch(c)
        /\ UNCHANGED <<registry, manifest, needSig, installs, lock, cache, git, tmp, struck>>
    BY <1>0, <1>4, <1>k, <2>1, CachedDoes
  <2> QED  BY <1>t, <1>f, <1>e, <2>1, <2>2, <2>3
<1>5. CASE GetTar(c)
  <2>1. Fetch
    BY <1>5 DEF GetTar, Going, Fetching
  <2>2. "sig" \in Fetching
    BY DEF Fetching
  <2>3. /\ Halts(c, FALSE) \/ (Moves(c, "sig") /\ SameFetch(c))
        /\ UNCHANGED <<registry, manifest, needSig, installs, lock, cache, git, tmp>> /\ struck \subseteq struck'
    BY <1>0, <1>5, <1>k, <2>1, TarDoes
  <2> QED  BY <1>t, <1>f, <1>h, <2>1, <2>2, <2>3
<1>6. CASE GetSig(c)
  <2>1. Fetch
    BY <1>6 DEF GetSig, Going, Fetching
  <2>2. "open" \in Fetching
    BY DEF Fetching
  <2>3. /\ Halts(c, FALSE) \/ (Moves(c, "open") /\ SameFetch(c))
        /\ UNCHANGED <<registry, manifest, needSig, installs, lock, cache, git, tmp>> /\ struck \subseteq struck'
    BY <1>0, <1>6, SigDoes
  <2> QED  BY <1>t, <1>f, <1>h, <2>1, <2>2, <2>3
<1>7. CASE OpenTmp(c)
  <2>1. Fetch
    BY <1>7 DEF OpenTmp, Going, Fetching
  <2>2. "save" \in Fetching
    BY DEF Fetching
  <2>3. /\ Moves(c, "save") /\ SameFetch(c) /\ tmp' \in [Packs -> Files]
        /\ UNCHANGED <<registry, manifest, needSig, installs, lock, cache, git, struck>>
    BY <1>0, <1>7, <1>k, <2>1, OpenDoes
  <2> QED  BY <1>t, <1>f, <2>1, <2>2, <2>3
<1>8. CASE WriteTmp(c)
  <2>1. Fetch
    BY <1>8 DEF WriteTmp, Going, Fetching
  <2>2. "read" \in Fetching
    BY DEF Fetching
  <2>3. /\ Moves(c, "read") /\ SameFetch(c) /\ tmp' \in [Packs -> Files]
        /\ UNCHANGED <<registry, manifest, needSig, installs, lock, cache, git, struck>>
    BY <1>0, <1>8, <1>k, <2>1, SaveDoes
  <2> QED  BY <1>t, <1>f, <2>1, <2>2, <2>3
<1>9. CASE ReadTmp(c)
  <2>1. Fetch
    BY <1>9 DEF ReadTmp, Going, Fetching
  <2>2. "extract" \in Fetching
    BY DEF Fetching
  <2>3. /\ Halts(c, FALSE) \/ (Moves(c, "extract") /\ SameFetch(c))
        /\ UNCHANGED <<registry, manifest, needSig, installs, lock, cache, git, tmp, struck>>
    BY <1>0, <1>9, <1>k, <2>1, ReadDoes
  <2> QED  BY <1>t, <1>f, <1>h, <2>1, <2>2, <2>3
<1>10. CASE ExtractFile(c)
  <2>1. Fetch
    BY <1>10 DEF ExtractFile, Going, Fetching
  <2>2. "extract" \in Fetching
    BY DEF Fetching
  <2>3. /\ Moves(c, "extract") /\ SameFetch(c) /\ DOMAIN cache' = Packs
        /\ UNCHANGED <<registry, manifest, needSig, installs, lock, git, tmp, struck>>
    BY <1>0, <1>10, <1>k, <2>1, ExtractDoes
  <2> QED  BY <1>t, <1>f, <2>1, <2>2, <2>3
<1>11. CASE RemoveTmp(c)
  <2>1. Fetch
    BY <1>11 DEF RemoveTmp, Going, Fetching
  <2>3. /\ Takes(c, Entry(Dep(c), inst[c].v, inst[c].body)) /\ tmp' \in [Packs -> Files]
        /\ UNCHANGED <<registry, manifest, needSig, installs, lock, cache, git, struck>>
    BY <1>0, <1>11, <1>k, <2>1, RemoveDoes
  <2> QED  BY <1>e, <2>1, <2>3
<1>12. CASE OpenLock(c)
  <2>1. /\ Going(c, "next") /\ inst[c] \in Busy /\ inst[c].todo = {}
        /\ Moves(c, "locking") /\ lock' = [lock EXCEPT ![c] = {}]
        /\ UNCHANGED <<registry, manifest, needSig, installs, cache, git, tmp, struck>>
    BY <1>0, <1>12, OpenLockDoes
  <2>2. lock' \in [Clients -> SUBSET Entries] /\ lock'[c] = {} /\ \A d \in Clients \ {c} : lock'[d] = lock[d]
    BY <1>t, <2>1
  <2>3. inst'[c].at = "locking" /\ inst'[c].todo = {} /\ inst'[c].new = inst[c].new
    BY <2>1 DEF Moves, SameJob
  <2>4. Runs(c)'
    <3>1. {e.n : e \in inst'[c].new} \cup inst'[c].todo = Wanted(c)'
      BY <1>0, <2>1, <2>3 DEF Runs, Going, Wanted
    <3> QED  BY <2>3, <3>1 DEF Runs, Going, Fetching
  <2>5. EntriesOf(c)' \subseteq EntriesOf(c)
    BY <2>1, <2>2, <2>3 DEF EntriesOf, Going
  <2>6. Locks(c)'
    BY <1>0, <2>1, <2>3, <2>5 DEF Locks, Meets, Done, Going, Without
  <2> QED  BY <1>t, <2>1, <2>2, <2>4, <2>6, ClientKeeps DEF Moves
<1>13. CASE WriteLock(c)
  <2>1. /\ Going(c, "locking") /\ inst[c] \in Busy /\ Halts(c, TRUE) /\ lock' = [lock EXCEPT ![c] = inst[c].new]
        /\ UNCHANGED <<registry, manifest, needSig, installs, cache, git, tmp, struck>>
    BY <1>0, <1>13, WriteLockDoes
  <2>2. inst[c].new \in SUBSET Entries
    BY <2>1 DEF Busy
  <2>3. /\ lock' \in [Clients -> SUBSET Entries] /\ lock'[c] = inst[c].new
        /\ \A d \in Clients \ {c} : lock'[d] = lock[d]
    BY <1>t, <2>1, <2>2
  <2>4. Going(c, "idle")'
    BY <2>1 DEF Halts, Stopped, Going
  <2>5. Runs(c)'
    BY <2>4 DEF Runs
  <2>6. {e.n : e \in lock'[c]} = Wanted(c)'
    <3>1. {e.n : e \in inst[c].new} \cup inst[c].todo = Wanted(c) /\ inst[c].todo = {}
      BY <1>0, <2>1 DEF Runs, Going
    <3> QED  BY <2>1, <2>3, <3>1 DEF Wanted
  <2>7. EntriesOf(c)' \subseteq EntriesOf(c)
    BY <2>1, <2>3, <2>4 DEF EntriesOf, Going
  <2>8. Locks(c)'
    BY <1>0, <2>1, <2>6, <2>7 DEF Locks, Meets, Without
  <2> QED  BY <1>t, <2>1, <2>3, <2>5, <2>8, ClientKeeps DEF Halts
<1> QED  BY <1>1, <1>2, <1>3, <1>4, <1>5, <1>6, <1>7, <1>8, <1>9, <1>10, <1>11, <1>12, <1>13 DEF Install

LEMMA ShapeFaults ==
    ASSUME ShapeInv, NEW c \in Clients,
           \/ \E frozen \in BOOLEAN : StartInstall(c, frozen)
           \/ LoseGet(c) \/ SpoilTar(c) \/ LoseSig(c) \/ FailCheckout(c) \/ CrashInstall(c)
           \/ \E m \in Manifests : EditManifest(c, m)
    PROVE  ShapeInv'
<1>0. Shapes /\ Runs(c) /\ Locks(c)
  BY DEF ShapeInv
<1>t. tmp \in [Packs -> Files] /\ DOMAIN cache = Packs /\ git \in Gits /\ installs \in 0 .. MaxInstall
      /\ lock \in [Clients -> SUBSET Entries] /\ manifest \in [Clients -> Manifests]
  BY <1>0 DEF Shapes
<1>1. ASSUME NEW frozen \in BOOLEAN, StartInstall(c, frozen) PROVE ShapeInv'
  <2>1. /\ Going(c, "idle") /\ Others(c) /\ inst'[c] \in Busy /\ inst'[c].at = "next"
        /\ inst'[c].todo = Wanted(c) /\ inst'[c].new = {} /\ installs' \in 0 .. MaxInstall
        /\ UNCHANGED <<registry, manifest, lock, cache, git, tmp, needSig, struck>>
    BY <1>0, <1>1, StartDoes
  <2>2. ~Going(c, "idle")'
    BY <2>1 DEF Going
  <2>3. Wanted(c)' = Wanted(c)
    BY <2>1 DEF Wanted
  <2>4. Runs(c)'
    <3>1. {e.n : e \in inst'[c].new} = {}
      BY <2>1
    <3> QED  BY <2>1, <2>3, <3>1 DEF Runs, Going, Fetching
  <2>5. EntriesOf(c)' = lock[c] /\ EntriesOf(c) = lock[c]
    BY <2>1, <2>2 DEF EntriesOf
  <2>6. Locks(c)'
    BY <1>0, <2>1, <2>2, <2>5 DEF Locks, Done, Meets, Without
  <2> QED  BY <1>t, <2>1, <2>4, <2>6, ClientKeeps
<1>2. CASE LoseGet(c) \/ FailCheckout(c) \/ CrashInstall(c)
  <2>1. /\ Halts(c, FALSE) /\ struck \subseteq struck'
        /\ UNCHANGED <<registry, manifest, needSig, installs, lock, cache, tmp>>
        /\ git' = git \/ \E x \in {"asked", "other", "half"} : git' = [git EXCEPT ![Dep(c)] = x]
    BY <1>0, <1>2, FailDoes
  <2>2. Runs(c)' /\ Locks(c)'
    BY <2>1, HaltKeeps
  <2>3. git' \in Gits
    BY <1>t, <2>1 DEF Gits
  <2> QED  BY <1>t, <2>1, <2>2, <2>3, ClientKeeps DEF Halts
<1>3. CASE SpoilTar(c)
  <2>0. inst[c].at \in Fetching
    BY <1>3 DEF SpoilTar, Going, Fetching
  <2>k. /\ inst[c] \in Busy /\ inst[c].todo # {} /\ ~inst[c].frozen /\ Key(c) \in Packs /\ inst[c].v \in Versions
        /\ MatchesRange(inst[c].v, manifest[c][Dep(c)])
    BY <2>0, KeyIs
  <2>1. /\ Halts(c, FALSE) \/ (Moves(c, "sig") /\ SameFetch(c))
        /\ UNCHANGED <<registry, manifest, needSig, installs, lock, cache, git, tmp>> /\ struck \subseteq struck'
    BY <1>0, <1>3, <2>k, TarDoes
  <2>2. CASE Halts(c, FALSE)
    <3>1. Runs(c)' /\ Locks(c)'
      BY <2>1, <2>2, HaltKeeps
    <3> QED  BY <1>t, <2>1, <2>2, <3>1, ClientKeeps DEF Halts
  <2>3. CASE Moves(c, "sig") /\ SameFetch(c)
    <3>1. "sig" \in Ats \ {"locking"} /\ "sig" # "git"
      BY DEF Ats, Fetching
    <3>2. inst'[c].v \in Versions /\ MatchesRange(inst'[c].v, manifest[c][Dep(c)])
      BY <2>3, <2>k DEF SameFetch
    <3>3. Runs(c)' /\ Locks(c)'
      BY <2>1, <2>3, <2>k, <3>1, <3>2, MoveKeeps
    <3> QED  BY <1>t, <2>1, <2>3, <3>3, ClientKeeps DEF Moves
  <2> QED  BY <2>1, <2>2, <2>3
<1>5. CASE LoseSig(c)
  <2>0. inst[c].at \in Fetching
    BY <1>5 DEF LoseSig, Going, Fetching
  <2>k. /\ inst[c] \in Busy /\ inst[c].todo # {} /\ ~inst[c].frozen /\ Key(c) \in Packs /\ inst[c].v \in Versions
        /\ MatchesRange(inst[c].v, manifest[c][Dep(c)])
    BY <2>0, KeyIs
  <2>1. /\ Halts(c, FALSE) \/ (Moves(c, "open") /\ SameFetch(c))
        /\ UNCHANGED <<registry, manifest, needSig, installs, lock, cache, git, tmp>> /\ struck \subseteq struck'
    BY <1>0, <1>5, SigDoes
  <2>2. CASE Halts(c, FALSE)
    <3>1. Runs(c)' /\ Locks(c)'
      BY <2>1, <2>2, HaltKeeps
    <3> QED  BY <1>t, <2>1, <2>2, <3>1, ClientKeeps DEF Halts
  <2>3. CASE Moves(c, "open") /\ SameFetch(c)
    <3>1. "open" \in Ats \ {"locking"} /\ "open" # "git"
      BY DEF Ats, Fetching
    <3>2. inst'[c].v \in Versions /\ MatchesRange(inst'[c].v, manifest[c][Dep(c)])
      BY <2>3, <2>k DEF SameFetch
    <3>3. Runs(c)' /\ Locks(c)'
      BY <2>1, <2>3, <2>k, <3>1, <3>2, MoveKeeps
    <3> QED  BY <1>t, <2>1, <2>3, <3>3, ClientKeeps DEF Moves
  <2> QED  BY <2>1, <2>2, <2>3
<1>4. ASSUME NEW m \in Manifests, EditManifest(c, m) PROVE ShapeInv'
  <2>1. /\ Going(c, "idle") /\ Halts(c, FALSE) /\ ~Without({"edit"})'
        /\ manifest' = [manifest EXCEPT ![c] = m]
        /\ UNCHANGED <<registry, lock, cache, git, tmp, needSig, installs>> /\ struck \subseteq struck'
    BY <1>0, <1>4, EditDoes
  <2>2. manifest' \in [Clients -> Manifests] /\ \A d \in Clients \ {c} : manifest'[d] = manifest[d]
    BY <1>t, <2>1
  <2>3. ~Without({"edit", "lockfile"})'
    BY <2>1 DEF Without
  <2>4. Going(c, "idle")' /\ ~Done(c)'
    BY <2>1 DEF Halts, Going, Stopped, Done
  <2>5. Runs(c)' /\ Locks(c)'
    BY <2>3, <2>4 DEF Runs, Locks
  <2>6. ASSUME NEW d \in Clients \ {c} PROVE Runs(d)' /\ Locks(d)'
    <3>1. inst'[d] = inst[d] /\ lock'[d] = lock[d] /\ manifest'[d] = manifest[d] /\ Runs(d) /\ Locks(d)
      BY <2>1, <2>2 DEF Halts, Others, ShapeInv
    <3>2. Runs(d)'
      BY <3>1 DEF Runs, Going, Wanted, Dep
    <3>3. Locks(d)'
      BY <2>3, <3>1 DEF Locks, Done, Going, Wanted
    <3> QED  BY <3>2, <3>3
  <2>7. Shapes'
    BY <1>0, <1>t, <2>1, <2>2 DEF Shapes, registry, Halts, Others
  <2> QED  BY <2>5, <2>6, <2>7 DEF ShapeInv
<1> QED  BY <1>1, <1>2, <1>3, <1>4, <1>5

LEMMA ShapePublish ==
    ASSUME ShapeInv, NEW p \in Publishers,
           Publish(p) \/ CrashPublish(p) \/ \E k \in Packs, c \in Contents : StartPublish(p, k, c)
    PROVE  ShapeInv'
<1>0. Shapes
  BY DEF ShapeInv
\* The clients are left alone.
<1>1. ASSUME UNCHANGED <<manifest, lock, cache, git, tmp, inst, installs>>, struck \subseteq struck',
             DOMAIN index' = NameSet, \A n \in NameSet : GoodIndex(index'[n]),
             tar' \in [Packs -> Files], OtherPubs(p), GoodPub(pub'[p]), published' \in 0 .. MaxPublish,
             met' \subseteq NameSet
      PROVE  ShapeInv'
  <2>1. Shapes'
    BY <1>0, <1>1 DEF Shapes, OtherPubs, GoodIndex, GoodPub
  <2>2. Without({"edit", "lockfile"})' => Without({"edit", "lockfile"})
    BY <1>1 DEF Without
  <2>3. ASSUME NEW d \in Clients PROVE Runs(d)' /\ Locks(d)'
    <3>1. Runs(d) /\ Locks(d)
      BY DEF ShapeInv
    <3>2. Runs(d)'
      BY <1>1, <3>1 DEF Runs, Going, Wanted, Dep
    <3>3. Locks(d)'
      BY <1>1, <2>2, <3>1 DEF Locks, Done, Going, Wanted, EntriesOf, Meets
    <3> QED  BY <3>2, <3>3
  <2> QED  BY <2>1, <2>3 DEF ShapeInv
<1>2. DOMAIN index = NameSet /\ (\A n \in NameSet : GoodIndex(index[n])) /\ tar \in [Packs -> Files]
      /\ published \in 0 .. MaxPublish /\ met \subseteq NameSet
  BY <1>0 DEF Shapes
<1>3. ASSUME NEW k \in Packs, NEW c \in Contents, StartPublish(p, k, c) PROVE ShapeInv'
  <2>1. /\ OtherPubs(p) /\ pub'[p] = [at |-> "tar", k |-> k, c |-> c] /\ tar' \in [Packs -> Files]
        /\ published' \in 0 .. MaxPublish /\ met' = met \cup Meeting(p, k[1])
        /\ UNCHANGED <<index, sig, manifest, lock, cache, git, tmp, inst, needSig, installs>> /\ struck \subseteq struck'
    BY <1>0, <1>3, StartPubDoes
  <2>2. GoodPub(pub'[p])
    BY <2>1 DEF GoodPub
  <2>3. met' \subseteq NameSet
    BY <1>2, <2>1 DEF Meeting, Packs, NameSet
  <2> QED  BY <1>1, <1>2, <2>1, <2>2, <2>3
<1>4. CASE WriteTar(p)
  <2>1. /\ OtherPubs(p) /\ pub'[p] \in [at : {"tar", "index"}, k : Packs, c : Contents]
        /\ tar' \in [Packs -> Files]
        /\ UNCHANGED <<index, sig, published, met, manifest, lock, cache, git, tmp, inst, needSig, installs, struck>>
    BY <1>0, <1>4, WriteTarDoes
  <2>2. GoodPub(pub'[p])
    BY <2>1 DEF GoodPub
  <2> QED  BY <1>1, <1>2, <2>1, <2>2
<1>5. CASE ReadIndex(p)
  <2> DEFINE k == pub[p].k
             new == Merged(index[k[1]], k[2], tar[k])
  <2>1. /\ pub[p].at = "index" /\ OtherPubs(p) /\ pub'[p] = [at |-> "write", k |-> k, new |-> new]
        /\ GoodIndex(new) /\ index' = [index EXCEPT ![k[1]] = NoIndex]
        /\ UNCHANGED <<tar, sig, published, met, manifest, lock, cache, git, tmp, inst, needSig, installs, struck>>
    BY <1>0, <1>5, ReadIndexDoes
  <2>2. k \in Packs /\ k[1] \in NameSet
    BY <1>0, <2>1, PubIs
  <2> HIDE DEF k, new
  <2>3. GoodPub(pub'[p])
    BY <2>1, <2>2 DEF GoodPub
  <2>4. DOMAIN index' = NameSet /\ \A n \in NameSet : GoodIndex(index'[n])
    BY <1>2, <2>1, <2>2, NoIndexIs
  <2> QED  BY <1>1, <1>2, <2>1, <2>3, <2>4
<1>6. CASE WriteIndex(p)
  <2>1. /\ pub[p].at = "write" /\ OtherPubs(p) /\ pub'[p] = [at |-> "idle"]
        /\ index' = [index EXCEPT ![pub[p].k[1]] = pub[p].new]
        /\ UNCHANGED <<tar, sig, published, met, manifest, lock, cache, git, tmp, inst, needSig, installs, struck>>
    BY <1>0, <1>6, WriteIndexDoes
  <2>2. pub[p].k[1] \in NameSet /\ GoodIndex(pub[p].new)
    BY <1>0, <2>1, PubIs
  <2>3. GoodPub(pub'[p])
    BY <2>1 DEF GoodPub
  <2>4. DOMAIN index' = NameSet /\ \A n \in NameSet : GoodIndex(index'[n])
    BY <1>2, <2>1, <2>2
  <2> QED  BY <1>1, <1>2, <2>1, <2>3, <2>4
<1>7. CASE CrashPublish(p)
  <2>1. /\ OtherPubs(p) /\ pub'[p] = [at |-> "idle"]
        /\ UNCHANGED <<index, tar, sig, published, met, manifest, lock, cache, git, tmp, inst, needSig, installs>>
        /\ struck \subseteq struck'
    BY <1>0, <1>7, CrashPubDoes
  <2>2. GoodPub(pub'[p])
    BY <2>1 DEF GoodPub
  <2> QED  BY <1>1, <1>2, <2>1, <2>2
<1> QED  BY <1>3, <1>4, <1>5, <1>6, <1>7 DEF Publish

LEMMA ShapeInit == Init => ShapeInv
<1> SUFFICES ASSUME Init PROVE ShapeInv
  OBVIOUS
<1>1. DOMAIN index = NameSet /\ \A n \in NameSet : GoodIndex(index[n])
  BY NoIndexIs DEF Init, NameSet
<1>2. tar \in [Packs -> Files] /\ tmp \in [Packs -> Files] /\ DOMAIN cache = Packs
  BY DEF Init, Files
<1>3. DOMAIN pub = Publishers /\ \A p \in Publishers : GoodPub(pub[p])
  BY DEF Init, GoodPub
<1>4. lock \in [Clients -> SUBSET Entries]
  <2> DEFINE L == {{}} \cup IF "lockfile" \in Faults
                     THEN {{Entry(k[1], k[2], c)} : k \in Packs, c \in Contents} ELSE {}
  <2>1. L \subseteq SUBSET Entries
    BY DEF Entry, Entries, Packs, NameSet, Files
  <2>2. lock \in [Clients -> L]
    BY DEF Init
  <2> HIDE DEF L
  <2> QED  BY <2>1, <2>2
<1>5. \A c \in Clients : inst[c] \in Stopped /\ Going(c, "idle") /\ ~Done(c)
  BY DEF Init, Idle, Stopped, Going, Done
<1>6. inst \in [Clients -> Stopped \cup Busy] /\ manifest \in [Clients -> Manifests]
  BY <1>5 DEF Init
<1>7. git \in Gits /\ met \subseteq NameSet /\ published \in 0 .. MaxPublish /\ installs \in 0 .. MaxInstall
  BY Assumed DEF Init, Gits, NameSet
<1>8. ASSUME NEW c \in Clients PROVE Runs(c) /\ Locks(c)
  <2>1. Without({"edit", "lockfile"}) => lock[c] = {}
    BY DEF Init, Without
  <2>2. EntriesOf(c) = lock[c]
    BY <1>5 DEF EntriesOf
  <2> QED  BY <1>5, <2>1, <2>2 DEF Runs, Locks
<1> QED  BY <1>1, <1>2, <1>3, <1>4, <1>6, <1>7, <1>8 DEF ShapeInv, Shapes

LEMMA ShapeStutter == ShapeInv /\ UNCHANGED vars => ShapeInv'
  BY DEF ShapeInv, Shapes, Runs, Locks, vars, GoodIndex, GoodPub, Going, Done, Wanted, Dep, EntriesOf, Meets, Without

LEMMA ShapeNext == ShapeInv /\ [Next]_vars => ShapeInv'
  BY ShapeInstall, ShapeFaults, ShapePublish, ShapeStutter DEF Next

LEMMA ShapeAlways == Spec => []ShapeInv
<1>1. Spec => []ShapeInv
  BY ShapeInit, ShapeNext, PTL DEF Spec
<1> QED  BY <1>1

\* publishPackage and resolveDependencies keep to their types: what is being
\* fetched is always a version that the index listed.
LEMMA ShapeTypes == ShapeInv => PackagesTypeOK
<1> SUFFICES ASSUME ShapeInv PROVE PackagesTypeOK
  OBVIOUS
<1>0. Shapes
  BY DEF ShapeInv
<1>1. \A k \in Packs : tar[k] \in Contents \cup {None, Bad} /\ tmp[k] \in Contents \cup {None, Bad}
  BY <1>0 DEF Shapes, Files
<1>2. \A c \in Clients : \A e \in lock[c] : e.n \in ToSet(Names)
  BY <1>0 DEF Shapes, Entries, NameSet
<1>3. ASSUME NEW c \in Clients, inst[c].at \notin {"idle", "next", "git", "index", "locking"}
      PROVE  Key(c) \in Packs
  <2>1. inst[c].at \in Ats
    BY <1>0, <1>3, BusyIs DEF Going
  <2>2. inst[c].at \in Fetching
    BY <1>3, <2>1 DEF Ats
  <2> QED  BY <2>2, KeyIs
<1> QED  BY <1>0, <1>1, <1>2, <1>3 DEF PackagesTypeOK, Shapes, Gits, NameSet

THEOREM PackagesTypes == Spec => []PackagesTypeOK
<1>1. ShapeInv => PackagesTypeOK
  BY ShapeTypes
<1> QED  BY <1>1, ShapeAlways, PTL

\* publishPackage: every index is in the order of compareSemVer, which is the
\* order of a dictionary on the parts of a version, whoever publishes beside whom.
THEOREM SortedIndex == Spec => []IndexSorted
<1>1. ShapeInv => IndexSorted
  <2> SUFFICES ASSUME ShapeInv, NEW n \in ToSet(Names),
                      NEW i \in DOMAIN index[n].versions, NEW j \in DOMAIN index[n].versions, i < j
               PROVE  Before(index[n].versions[i], index[n].versions[j])
    BY DEF IndexSorted
  <2>1. GoodIndex(index[n])
    BY DEF ShapeInv, Shapes, NameSet
  <2>2. index[n].versions \in Seq(Versions) /\ InOrder(index[n].versions)
    BY <2>1 DEF GoodIndex
  <2>3. DOMAIN index[n].versions = 1 .. Len(index[n].versions)
    BY <2>2, LenProperties
  <2> QED  BY <2>2, <2>3, InOrderIs
<1> QED  BY <1>1, ShapeAlways, PTL

\* writeLockfile: whatever other commands run, the lockfile of an install that
\* ended well has the manifest's dependencies and no others, each in range.
THEOREM LocksCover == Spec => [](LockCovers /\ LockHolds)
<1>1. ShapeInv => LockCovers /\ LockHolds
  <2> SUFFICES ASSUME ShapeInv PROVE LockCovers /\ LockHolds
    OBVIOUS
  <2>1. \A c \in Clients : Locks(c)
    BY DEF ShapeInv
  <2>2. \A c \in Clients : lock[c] \subseteq EntriesOf(c)
    BY DEF EntriesOf
  <2>3. LockCovers
    BY <2>1 DEF LockCovers, Locks
  <2>4. LockHolds
    BY <2>1, <2>2 DEF LockHolds, LockSatisfies, Locks
  <2> QED  BY <2>3, <2>4
<1> QED  BY <1>1, ShapeAlways, PTL

\* A step of an install: what a frozen one may do.
FrozenStep(c) == (~Going(c, "idle") /\ inst[c].frozen) =>
    /\ inst'[c].at \notin {"git", "index"}
    /\ inst'[c].at = "next" => inst'[c].new \subseteq inst[c].new \cup lock[c]
    /\ lock'[c] \in {lock[c], {}, inst[c].new}
\* and how it chooses a version.
BestStepOf(c) == (Going(c, "index") /\ inst'[c].at = "cached") =>
    LET n == Dep(c)
    IN  /\ MatchesRange(inst'[c].v, manifest[c][n])
        /\ \A v \in VersionsOf(n) : MatchesRange(v, manifest[c][n]) => ~Before(inst'[c].v, v)

LEMMA OwnStepTakes ==
    ASSUME ShapeInv, NEW c \in Clients, Install(c)
    PROVE  FrozenStep(c) /\ BestStepOf(c)
<1>0. Shapes /\ Runs(c)
  BY DEF ShapeInv
<1>1. CASE NextDep(c)
  <2>1. /\ Going(c, "next")
        /\ \/ \E e \in lock[c] : e.n = Dep(c) /\ Takes(c, e)
           \/ Halts(c, FALSE)
           \/ ~inst[c].frozen
        /\ lock' = lock
    BY <1>0, <1>1, NextDoes
  <2>2. FrozenStep(c)
    <3>1. lock'[c] = lock[c]
      BY <2>1
    <3>2. ASSUME NEW e \in lock[c], Takes(c, e) PROVE FrozenStep(c)
      <4>1. inst'[c].at = "next" /\ inst'[c].new = inst[c].new \cup {e}
        BY <3>2 DEF Takes
      <4> QED  BY <3>1, <4>1 DEF FrozenStep
    <3>3. CASE Halts(c, FALSE)
      BY <3>1, <3>3 DEF FrozenStep, Halts, Stopped
    <3> QED  BY <2>1, <3>2, <3>3 DEF FrozenStep
  <2> QED  BY <2>1, <2>2 DEF BestStepOf, Going
<1>2. CASE GetIndex(c)
  <2>0. inst[c].todo # {} /\ Going(c, "index") /\ ~inst[c].frozen
    BY <1>0, <1>2 DEF GetIndex, Runs, Going
  <2>1. \/ Halts(c, FALSE)
        \/ /\ MatchesRange(inst'[c].v, manifest[c][Dep(c)])
           /\ \A w \in VersionsOf(Dep(c)) : MatchesRange(w, manifest[c][Dep(c)]) => ~Before(inst'[c].v, w)
    BY <1>0, <1>2, <2>0, IndexDoes
  <2>2. BestStepOf(c)
    BY <2>1 DEF BestStepOf, Halts, Stopped
  <2> QED  BY <2>0, <2>2 DEF FrozenStep
<1>3. CASE OpenLock(c)
  <2>1. Going(c, "next") /\ Moves(c, "locking") /\ lock' = [lock EXCEPT ![c] = {}]
    BY <1>0, <1>3, OpenLockDoes
  <2>2. lock'[c] = {}
    BY <1>0, <2>1 DEF Shapes
  <2> QED  BY <2>1, <2>2 DEF FrozenStep, BestStepOf, Going, Moves
<1>4. CASE WriteLock(c)
  <2>1. Going(c, "locking") /\ Halts(c, TRUE) /\ lock' = [lock EXCEPT ![c] = inst[c].new]
    BY <1>0, <1>4, WriteLockDoes
  <2>2. lock'[c] = inst[c].new
    BY <1>0, <2>1 DEF Shapes
  <2> QED  BY <2>1, <2>2 DEF FrozenStep, BestStepOf, Going, Halts, Stopped
<1>5. CASE GetGit(c)
  <2>1. Going(c, "git")
    BY <1>5 DEF GetGit
  <2> QED  BY <1>0, <2>1 DEF FrozenStep, BestStepOf, Going, Runs
<1>6. CASE CheckCache(c) \/ GetTar(c) \/ GetSig(c) \/ OpenTmp(c) \/ WriteTmp(c) \/ ReadTmp(c) \/ ExtractFile(c) \/ RemoveTmp(c)
  <2>1. inst[c].at \in Fetching
    BY <1>6 DEF CheckCache, GetTar, GetSig, OpenTmp, WriteTmp, ReadTmp, ExtractFile, RemoveTmp, Going, Fetching
  <2>2. ~inst[c].frozen
    BY <2>1, KeyIs
  <2> QED  BY <2>1, <2>2 DEF FrozenStep, BestStepOf, Going, Fetching
<1> QED  BY <1>1, <1>2, <1>3, <1>4, <1>5, <1>6 DEF Install

LEMMA EveryStepTakes ==
    ASSUME ShapeInv, [Next]_vars, NEW c \in Clients
    PROVE  FrozenStep(c) /\ BestStepOf(c)
<1>0. Shapes
  BY DEF ShapeInv
\* A step that leaves this install alone, or ends it.
<1>1. ASSUME inst'[c] = inst[c], lock'[c] = lock[c] PROVE FrozenStep(c) /\ BestStepOf(c)
  <2>1. (~Going(c, "idle") /\ inst[c].frozen) => inst[c].at \notin {"git", "index"}
    BY DEF ShapeInv, Runs
  <2> QED  BY <1>1, <2>1 DEF FrozenStep, BestStepOf, Going
<1>2. ASSUME Halts(c, FALSE), lock'[c] = lock[c] PROVE FrozenStep(c) /\ BestStepOf(c)
  BY <1>2 DEF FrozenStep, BestStepOf, Halts, Stopped
<1>3. CASE \E p \in Publishers : \/ Publish(p) \/ CrashPublish(p)
                                 \/ \E k \in Packs, x \in Contents : StartPublish(p, k, x)
  <2>1. inst' = inst /\ lock' = lock
    BY <1>3 DEF Publish, CrashPublish, StartPublish, WriteTar, ReadIndex, WriteIndex, others
  <2> QED  BY <1>1, <2>1
<1>4. CASE UNCHANGED vars
  BY <1>1, <1>4 DEF vars
<1>5. ASSUME NEW d \in Clients, Install(d) PROVE FrozenStep(c) /\ BestStepOf(c)
  <2>1. CASE d = c
    BY <1>5, <2>1, OwnStepTakes
  <2>2. CASE d # c
    <3>1. inst'[c] = inst[c] /\ lock'[c] = lock[c]
      <4>1. Shapes
        BY <1>0
      <4>2. \E r : inst' = [inst EXCEPT ![d] = r]
        BY <1>5 DEF Install, NextDep, GetGit, GetIndex, CheckCache, GetTar, TakeBody, GetSig, OpenTmp, WriteTmp, ReadTmp,
                    ExtractFile, RemoveTmp, OpenLock, WriteLock, Goto, Stop, Clone
      <4>3. lock' = lock \/ \E r : lock' = [lock EXCEPT ![d] = r]
        BY <1>5 DEF Install, NextDep, GetGit, GetIndex, CheckCache, GetTar, GetSig, OpenTmp, WriteTmp, ReadTmp,
                    ExtractFile, RemoveTmp, OpenLock, WriteLock
      <4> QED  BY <2>2, <4>1, <4>2, <4>3 DEF Shapes
    <3> QED  BY <1>1, <3>1
  <2> QED  BY <2>1, <2>2
<1>6. ASSUME NEW d \in Clients,
             \/ \E f \in BOOLEAN : StartInstall(d, f)
             \/ LoseGet(d) \/ SpoilTar(d) \/ LoseSig(d) \/ FailCheckout(d) \/ CrashInstall(d)
             \/ \E m \in Manifests : EditManifest(d, m)
      PROVE  FrozenStep(c) /\ BestStepOf(c)
  <2>1. CASE \E f \in BOOLEAN : StartInstall(d, f)
    <3>1. Going(d, "idle") /\ Others(d) /\ lock' = lock /\ inst'[d].at = "next"
      BY <1>0, <2>1, StartDoes
    <3>2. CASE d = c
      BY <3>1, <3>2 DEF FrozenStep, BestStepOf, Going
    <3>3. CASE d # c
      BY <1>1, <3>1, <3>3 DEF Others
    <3> QED  BY <3>2, <3>3
  <2>2. CASE LoseGet(d) \/ FailCheckout(d) \/ CrashInstall(d)
    <3>1. Halts(d, FALSE) /\ lock' = lock
      BY <1>0, <2>2, FailDoes
    <3>2. CASE d = c
      BY <1>2, <3>1, <3>2
    <3>3. CASE d # c
      BY <1>1, <3>1, <3>3 DEF Halts, Others
    <3> QED  BY <3>2, <3>3
  <2>3. CASE SpoilTar(d)
    <3>0. inst[d].at \in Fetching
      BY <2>3 DEF SpoilTar, Going, Fetching
    <3>k. Key(d) \in Packs /\ ~inst[d].frozen
      BY <3>0, KeyIs
    <3>1. Going(d, "tar") /\ (Halts(d, FALSE) \/ Moves(d, "sig")) /\ lock' = lock
      BY <1>0, <2>3, <3>k, TarDoes
    <3>2. CASE d = c
      BY <3>1, <3>2, <3>k DEF FrozenStep, BestStepOf, Going
    <3>3. CASE d # c
      BY <1>1, <3>1, <3>3 DEF Halts, Moves, Others
    <3> QED  BY <3>2, <3>3
  <2>5. CASE LoseSig(d)
    <3>0. inst[d].at \in Fetching
      BY <2>5 DEF LoseSig, Going, Fetching
    <3>k. ~inst[d].frozen
      BY <3>0, KeyIs
    <3>1. Going(d, "sig") /\ (Halts(d, FALSE) \/ Moves(d, "open")) /\ lock' = lock
      BY <1>0, <2>5, SigDoes
    <3>2. CASE d = c
      BY <3>1, <3>2, <3>k DEF FrozenStep, BestStepOf, Going
    <3>3. CASE d # c
      BY <1>1, <3>1, <3>3 DEF Halts, Moves, Others
    <3> QED  BY <3>2, <3>3
  <2>4. CASE \E m \in Manifests : EditManifest(d, m)
    <3>1. Going(d, "idle") /\ Halts(d, FALSE) /\ lock' = lock
      BY <1>0, <2>4, EditDoes
    <3>2. CASE d = c
      BY <1>2, <3>1, <3>2
    <3>3. CASE d # c
      BY <1>1, <3>1, <3>3 DEF Halts, Others
    <3> QED  BY <3>2, <3>3
  <2> QED  BY <1>6, <2>1, <2>2, <2>3, <2>4, <2>5
<1> QED  BY <1>3, <1>4, <1>5, <1>6 DEF Next

\* resolveDependencies, however many run: an install takes the greatest version in
\* range that the index listed, and a frozen one nothing but what is locked.
THEOREM InstallsTake == Spec => InstallTakes
<1> DEFINE A == \A c \in Clients : FrozenStep(c)
           B == \A c \in Clients : BestStepOf(c)
<1>1. ShapeInv /\ [Next]_vars => A /\ B
  BY EveryStepTakes
<1> HIDE DEF A, B
<1>2. Spec => [][A]_vars /\ [][B]_vars
  BY <1>1, ShapeAlways, PTL DEF Spec
<1> QED  BY <1>2 DEF InstallTakes, FrozenKeeps, BestTaken, FrozenStep, BestStepOf, A, B

(***************************************************************************)
(* Publishes: a package that two of them never shared at a time.           *)
(***************************************************************************)

\* What a step leaves of a package that it does not touch.
SamePack(n) ==
    /\ index'[n] = index[n] /\ \A v \in Versions : tar'[<<n, v>>] = tar[<<n, v>>]
    /\ \A q \in Publishers : (At(q, n) \/ At(q, n)') => pub'[q] = pub[q]

LEMMA PackKept ==
    ASSUME Shapes, NEW n \in NameSet, PackInv(n), SamePack(n), struck \subseteq struck'
    PROVE  PackInv(n)'
<1>1. \A q \in Publishers : At(q, n)' <=> At(q, n)
  BY DEF SamePack, At
<1>2. Lone(n)' /\ (Publishing(n)' <=> Publishing(n))
  BY <1>1 DEF PackInv, Lone, Publishing
<1>3. Without({"crash"})' => Without({"crash"})
  BY DEF Without
<1>4. \A i, x : Tells(i, n, x)' <=> Tells(i, n, x)
  <2> SUFFICES ASSUME NEW i, NEW x PROVE Tells(i, n, x)' <=> Tells(i, n, x)
    OBVIOUS
  <2> QED  BY DEF SamePack, Tells
<1>5. ASSUME NEW p \in Publishers, At(p, n)' PROVE PublishInv(p)'
  <2>1. PublishInv(p) /\ pub'[p] = pub[p] /\ pub[p].k[1] = n /\ pub[p].at # "idle"
    BY <1>1, <1>5 DEF PackInv, SamePack, At
  <2>2. pub[p].k = <<n, pub[p].k[2]>> /\ pub[p].k[2] \in Versions
    <3>1. pub[p].k = <<pub[p].k[1], pub[p].k[2]>> /\ pub[p].k[2] \in Versions
      BY <2>1, PubIs
    <3> QED  BY <2>1, <3>1
  <2>3. tar'[pub[p].k] = tar[pub[p].k] /\ index'[n] = index[n]
    <3>1. PICK v \in Versions : pub[p].k = <<n, v>>
      BY <2>2
    <3>2. tar'[<<n, v>>] = tar[<<n, v>>] /\ index'[n] = index[n]
      BY DEF SamePack
    <3> QED  BY <3>1, <3>2
  <2>4. pub[p].at \in {"tar", "index"} => (Tells(index[n], n, pub[p].k[2])' <=> Tells(index[n], n, pub[p].k[2]))
    BY <2>1, <2>3 DEF SamePack, Tells
  <2>5. Tells(pub[p].new, n, NoVer)' <=> Tells(pub[p].new, n, NoVer)
    BY <2>1 DEF SamePack, Tells
  <2>6. Hashed(pub[p].new)' <=> Hashed(pub[p].new)
    BY <2>1 DEF Hashed
  <2>7. Without({"crash"})' =>
          /\ pub'[p].at \in {"tar", "index"} => Tells(index[pub[p].k[1]], pub[p].k[1], pub[p].k[2])'
          /\ pub'[p].at = "write" => Tells(pub[p].new, pub[p].k[1], NoVer)'
    <3>1. pub[p].k[1] = n /\ pub'[p].k[1] = n
      BY <2>1
    <3> QED  BY <1>3, <2>1, <2>4, <2>5, <3>1 DEF PublishInv
  <2> QED  BY <2>1, <2>3, <2>6, <2>7 DEF PublishInv
<1>6. Hashed(index[n])'
  BY DEF PackInv, SamePack, Hashed
<1>7. Without({"crash"})' /\ ~Publishing(n)' => Tells(index[n], n, NoVer)'
  <2>1. Tells(index[n], n, NoVer)' <=> Tells(index[n], n, NoVer)
    BY DEF SamePack, Tells
  <2> QED  BY <1>2, <1>3, <2>1 DEF PackInv
<1> QED  BY <1>2, <1>5, <1>6, <1>7 DEF PackInv

\* Steps that leave the registry alone.
LEMMA RegistryElse ==
    ASSUME Shapes, RegistryInv, UNCHANGED <<index, tar, pub, met>>, struck \subseteq struck'
    PROVE  RegistryInv'
<1>1. \A n \in NameSet : SamePack(n)
  BY DEF SamePack
<1> QED  BY <1>1, PackKept DEF RegistryInv

LEMMA RegistryPublish ==
    ASSUME ShapeInv, RegistryInv, NEW p \in Publishers,
           Publish(p) \/ CrashPublish(p) \/ \E k \in Packs, c \in Contents : StartPublish(p, k, c)
    PROVE  RegistryInv'
<1>0. Shapes
  BY DEF ShapeInv
<1>2. \A n \in NameSet, v \in Versions : <<n, v>> \in Packs /\ <<n, v>>[1] = n /\ <<n, v>>[2] = v
  BY DEF Packs, NameSet
<1>t. ASSUME NEW m \in NameSet, NEW v \in Versions, \A j \in Packs \ {<<m, v>>} : tar'[j] = tar[j]
      PROVE  \A n \in NameSet \ {m}, w \in Versions : tar'[<<n, w>>] = tar[<<n, w>>]
  <2> SUFFICES ASSUME NEW n \in NameSet \ {m}, NEW w \in Versions PROVE tar'[<<n, w>>] = tar[<<n, w>>]
    OBVIOUS
  <2>1. <<n, w>> \in Packs \ {<<m, v>>}
    BY <1>2
  <2> QED  BY <1>t, <2>1
<1>3. NoVer \notin Versions
  BY Assumed
<1>6. DOMAIN index = NameSet
  BY <1>0 DEF Shapes
\* It is enough to look at the package of this publish, and there at this publisher.
<1>9. ASSUME NEW m \in NameSet, OtherPubs(p), struck \subseteq struck', met \subseteq met',
             \A n \in NameSet \ {m} : index'[n] = index[n],
             \A n \in NameSet \ {m}, v \in Versions : tar'[<<n, v>>] = tar[<<n, v>>],
             \A n \in NameSet \ {m} : ~At(p, n) /\ ~At(p, n)',
             m \notin met' => \A q \in Publishers \ {p} : ~At(q, m),
             m \notin met' /\ PackInv(m) =>
               /\ Hashed(index[m])'
               /\ At(p, m)' => PublishInv(p)'
               /\ Without({"crash"})' /\ ~At(p, m)' => Tells(index[m], m, NoVer)'
      PROVE  RegistryInv'
  <2> SUFFICES ASSUME NEW n \in NameSet, n \notin met' PROVE PackInv(n)'
    BY DEF RegistryInv
  <2>1. PackInv(n)
    BY <1>9 DEF RegistryInv
  <2>2. CASE n # m
    <3>1. SamePack(n)
      BY <1>9, <2>2 DEF SamePack, OtherPubs
    <3> QED  BY <1>0, <1>9, <2>1, <3>1, PackKept
  <2>3. CASE n = m
    <3>1. \A q \in Publishers \ {p} : ~At(q, m)'
      BY <1>9, <2>3 DEF OtherPubs, At
    <3>2. Lone(m)' /\ (At(p, m)' => Publishing(m)')
      BY <3>1 DEF Lone, Publishing
    <3> QED  BY <1>9, <2>1, <2>3, <3>1, <3>2 DEF PackInv
  <2> QED  BY <2>2, <2>3
\* While p is at work on it, no other is.
<1>p. ASSUME NEW m \in NameSet, m \notin met, At(p, m)
      PROVE  PackInv(m) /\ PublishInv(p) /\ \A q \in Publishers \ {p} : ~At(q, m)
  BY <1>p DEF RegistryInv, PackInv, Lone
<1>10. ASSUME NEW k \in Packs, NEW c \in Contents, StartPublish(p, k, c) PROVE RegistryInv'
  <2>1. /\ pub[p].at = "idle" /\ pub'[p] = [at |-> "tar", k |-> k, c |-> c] /\ OtherPubs(p)
        /\ tar'[k] = Bad /\ \A j \in Packs \ {k} : tar'[j] = tar[j]
        /\ index' = index /\ struck \subseteq struck' /\ met' = met \cup Meeting(p, k[1])
    BY <1>0, <1>10, StartPubDoes
  <2>2. pub'[p].at = "tar" /\ pub'[p].k = k
    BY <2>1
  <2>3. k[1] \in NameSet /\ k[2] \in Versions /\ k = <<k[1], k[2]>>
    BY DEF Packs, NameSet
  <2>4. k[1] \notin met' => \A q \in Publishers \ {p} : ~At(q, k[1])
    BY <2>1 DEF Meeting
  <2>5. \A n \in NameSet \ {k[1]}, v \in Versions : tar'[<<n, v>>] = tar[<<n, v>>]
    <3>1. \A j \in Packs \ {<<k[1], k[2]>>} : tar'[j] = tar[j]
      BY <2>1, <2>3
    <3> QED  BY <1>t, <2>3, <3>1
  <2>6. \A n \in NameSet \ {k[1]} : ~At(p, n) /\ ~At(p, n)'
    BY <2>1, <2>2 DEF At
  <2>7. ASSUME k[1] \notin met', PackInv(k[1]), Without({"crash"})'
        PROVE  Tells(index[pub[p].k[1]], pub[p].k[1], pub[p].k[2])'
    <3>1. \A v \in Versions \ {k[2]} : tar'[<<k[1], v>>] = tar[<<k[1], v>>]
      BY <1>2, <2>1, <2>3
    <3>2. ~At(p, k[1])
      BY <2>1 DEF At
    <3>3. Without({"crash"}) /\ ~Publishing(k[1])
      BY <2>1, <2>4, <2>7, <3>2 DEF Without, Publishing
    <3>4. Tells(index[k[1]], k[1], NoVer)
      BY <2>7, <3>3 DEF PackInv
    <3> QED  BY <1>3, <2>1, <2>2, <3>1, <3>4 DEF Tells
  <2>8. k[1] \notin met' /\ PackInv(k[1]) => PublishInv(p)' /\ Hashed(index[k[1]])'
    BY <2>1, <2>2, <2>7 DEF PublishInv, PackInv, Hashed
  <2>9. At(p, k[1])' /\ index' = index /\ met \subseteq met'
    BY <2>1, <2>2 DEF At
  <2> QED  BY <1>9, <2>1, <2>3, <2>4, <2>5, <2>6, <2>8, <2>9
\* The package and the version of a publish under way.
<1>k. ASSUME pub[p].at # "idle"
      PROVE  \E m \in NameSet, v \in Versions : /\ pub[p].k = <<m, v>> /\ pub[p].k[1] = m /\ pub[p].k[2] = v
                                                /\ <<m, v>> \in Packs
  <2>1. pub[p].k[1] \in NameSet /\ pub[p].k[2] \in Versions /\ pub[p].k = <<pub[p].k[1], pub[p].k[2]>>
    BY <1>0, <1>k, PubIs
  <2> QED  BY <1>2, <2>1
<1>11. CASE WriteTar(p)
  <2>1. /\ pub[p].at = "tar" /\ pub'[p].at = "index" /\ pub'[p].k = pub[p].k /\ pub'[p].c = pub[p].c
        /\ tar'[pub[p].k] = pub[p].c /\ \A j \in Packs \ {pub[p].k} : tar'[j] = tar[j]
        /\ index' = index /\ struck' = struck /\ met' = met /\ OtherPubs(p)
    BY <1>0, <1>11, WriteTarDoes
  <2>2. PICK m \in NameSet, v \in Versions :
          pub[p].k = <<m, v>> /\ pub[p].k[1] = m /\ pub[p].k[2] = v /\ <<m, v>> \in Packs
    BY <1>k, <2>1
  <2>3. At(p, m) /\ At(p, m)'
    BY <2>1, <2>2 DEF At
  <2>n. \A n \in NameSet \ {m} : ~At(p, n) /\ ~At(p, n)'
    BY <2>1, <2>2 DEF At
  <2>4. \A n \in NameSet \ {m}, w \in Versions : tar'[<<n, w>>] = tar[<<n, w>>]
    <3>1. \A j \in Packs \ {<<m, v>>} : tar'[j] = tar[j]
      BY <2>1, <2>2
    <3> QED  BY <1>t, <3>1
  <2>5. ASSUME m \notin met, Without({"crash"})' PROVE Tells(index[m], m, v)'
    <3>1. \A w \in Versions \ {v} : tar'[<<m, w>>] = tar[<<m, w>>]
      BY <1>2, <2>1, <2>2
    <3>2. PublishInv(p) /\ Without({"crash"})
      BY <1>p, <2>1, <2>3, <2>5 DEF Without
    <3>3. Tells(index[m], m, v)
      BY <2>1, <2>2, <3>2 DEF PublishInv
    <3> QED  BY <2>1, <3>1, <3>3 DEF Tells
  <2>6. m \notin met => PublishInv(p)'
    <3>1. pub'[p].k[1] = m /\ pub'[p].k[2] = v /\ pub'[p].at = "index" /\ tar'[pub'[p].k] = pub'[p].c
      BY <2>1, <2>2
    <3> QED  BY <2>5, <3>1 DEF PublishInv
  <2>7. PackInv(m) => Hashed(index[m])'
    BY <2>1 DEF PackInv, Hashed
  <2>8. m \notin met' => \A q \in Publishers \ {p} : ~At(q, m)
    BY <1>p, <2>1, <2>3
  <2> QED  BY <1>9, <2>1, <2>3, <2>n, <2>4, <2>6, <2>7, <2>8
<1>12. CASE ReadIndex(p)
  <2>1. /\ pub[p].at = "index" /\ OtherPubs(p)
        /\ pub'[p] = [at |-> "write", k |-> pub[p].k, new |-> Merged(index[pub[p].k[1]], pub[p].k[2], tar[pub[p].k])]
        /\ index' = [index EXCEPT ![pub[p].k[1]] = NoIndex] /\ tar' = tar /\ struck' = struck /\ met' = met
    BY <1>0, <1>12, ReadIndexDoes
  <2>2. PICK m \in NameSet, v \in Versions :
          pub[p].k = <<m, v>> /\ pub[p].k[1] = m /\ pub[p].k[2] = v /\ <<m, v>> \in Packs
    BY <1>k, <2>1
  <2>3. At(p, m) /\ \A n \in NameSet \ {m} : ~At(p, n)
    BY <2>1, <2>2 DEF At
  <2>4. GoodIndex(index[m]) /\ tar[<<m, v>>] \in Files
    BY <1>0, <2>2 DEF Shapes
  <2>5. PICK new : new = Merged(index[m], v, tar[<<m, v>>])
    OBVIOUS
  <2>6. /\ ToSet(new.versions) = ToSet(index[m].versions) \cup {v} /\ new.dist[v] = tar[<<m, v>>]
        /\ \A w \in ToSet(index[m].versions) : w # v => new.dist[w] = index[m].dist[w]
    <3>1. \A i : GoodIndex(i) => \A x \in Versions, sha \in Files :
            /\ ToSet(Merged(i, x, sha).versions) = ToSet(i.versions) \cup {x}
            /\ Merged(i, x, sha).dist[x] = sha
            /\ \A w \in ToSet(i.versions) : w # x => Merged(i, x, sha).dist[w] = i.dist[w]
      BY MergedLists
    <3> QED  BY <2>4, <2>5, <3>1, Zenon
  <2>7. ASSUME m \notin met
        PROVE  /\ Hashed(index[m]) /\ tar[<<m, v>>] \in Contents
               /\ Without({"crash"})' => Tells(index[m], m, v)
    <3>1. PackInv(m) /\ PublishInv(p)
      BY <1>p, <2>3, <2>7
    <3>2. pub[p].c \in Contents
      BY <1>0, <2>1, PubIs
    <3>3. tar[<<m, v>>] = pub[p].c /\ (Without({"crash"}) => Tells(index[m], m, v))
      BY <2>1, <2>2, <3>1 DEF PublishInv
    <3>4. Without({"crash"})' => Without({"crash"})
      BY <2>1 DEF Without
    <3> QED  BY <3>1, <3>2, <3>3, <3>4 DEF PackInv
  <2>e. ToSet(NoIndex.versions) = {}
    BY NoIndexIs
  <2>8. m \notin met' => \A q \in Publishers \ {p} : ~At(q, m)
    BY <1>p, <2>1, <2>3
  <2>9. pub'[p].at = "write" /\ pub'[p].k = <<m, v>> /\ pub'[p].k[1] = m /\ pub'[p].new = new
    BY <2>1, <2>2, <2>5
  <2>10. At(p, m)' /\ \A n \in NameSet \ {m} : ~At(p, n)'
    BY <2>9 DEF At
  <2>11. index'[m] = NoIndex /\ \A n \in NameSet \ {m} : index'[n] = index[n]
    BY <1>6, <2>1, <2>2
  <2>12. Hashed(index[m])'
    BY <2>e, <2>11 DEF Hashed
  <2>13. ASSUME m \notin met PROVE PublishInv(p)'
    <3>1. Hashed(new)
      BY <2>6, <2>7, <2>13 DEF Hashed
    <3>2. Without({"crash"})' => Tells(new, m, NoVer)
      BY <2>6, <2>7, <2>13 DEF Tells
    <3>3. Without({"crash"})' => Tells(pub[p].new, pub[p].k[1], NoVer)'
      BY <2>1, <2>9, <3>2 DEF Tells
    <3>4. Hashed(pub[p].new)'
      BY <2>9, <3>1 DEF Hashed
    <3> QED  BY <2>9, <3>3, <3>4 DEF PublishInv
  <2>14. /\ struck \subseteq struck' /\ met \subseteq met' /\ OtherPubs(p)
         /\ \A n \in NameSet \ {m}, w \in Versions : tar'[<<n, w>>] = tar[<<n, w>>]
    BY <2>1
  <2> QED  BY <1>9, <2>1, <2>3, <2>8, <2>10, <2>11, <2>12, <2>13, <2>14
<1>13. CASE WriteIndex(p)
  <2>1. /\ pub[p].at = "write" /\ pub'[p] = [at |-> "idle"] /\ OtherPubs(p)
        /\ index' = [index EXCEPT ![pub[p].k[1]] = pub[p].new]
        /\ tar' = tar /\ struck' = struck /\ met' = met
    BY <1>0, <1>13, WriteIndexDoes
  <2>2. PICK m \in NameSet, v \in Versions :
          pub[p].k = <<m, v>> /\ pub[p].k[1] = m /\ pub[p].k[2] = v /\ <<m, v>> \in Packs
    BY <1>k, <2>1
  <2>3. At(p, m) /\ \A n \in NameSet \ {m} : ~At(p, n)
    BY <2>1, <2>2 DEF At
  <2>4. PICK new : new = pub[p].new
    OBVIOUS
  <2>5. m \notin met => Hashed(new) /\ (Without({"crash"})' => Tells(new, m, NoVer))
    <3>1. ASSUME m \notin met PROVE PublishInv(p)
      BY <1>p, <2>3, <3>1
    <3>2. Without({"crash"})' => Without({"crash"})
      BY <2>1 DEF Without
    <3> QED  BY <2>1, <2>2, <2>4, <3>1, <3>2 DEF PublishInv
  <2>6. m \notin met' => \A q \in Publishers \ {p} : ~At(q, m)
    BY <1>p, <2>1, <2>3
  <2>7. index'[m] = new /\ \A n \in NameSet \ {m} : index'[n] = index[n]
    BY <1>6, <2>1, <2>2, <2>4
  <2>8. pub'[p].at = "idle"
    BY <2>1
  <2>9. \A n : ~At(p, n)'
    BY <2>8 DEF At
  <2>10. m \notin met => Hashed(index[m])' /\ (Without({"crash"})' => Tells(index[m], m, NoVer)')
    BY <2>1, <2>5, <2>7 DEF Hashed, Tells
  <2>11. /\ struck \subseteq struck' /\ met \subseteq met' /\ met' = met /\ OtherPubs(p)
         /\ \A n \in NameSet \ {m}, w \in Versions : tar'[<<n, w>>] = tar[<<n, w>>]
    BY <2>1
  <2> QED  BY <1>9, <2>3, <2>6, <2>7, <2>9, <2>10, <2>11
<1>14. CASE CrashPublish(p)
  <2>1. /\ pub[p].at # "idle" /\ OtherPubs(p) /\ pub'[p].at = "idle" /\ index' = index /\ tar' = tar /\ met' = met
        /\ ~Without({"crash"})' /\ struck \subseteq struck'
    BY <1>0, <1>14, CrashPubDoes
  <2> DEFINE m == pub[p].k[1]
  <2>2. m \in NameSet /\ At(p, m) /\ (\A n \in NameSet \ {m} : ~At(p, n)) /\ \A n : ~At(p, n)'
    BY <1>0, <2>1, PubIs DEF At
  <2>3. m \notin met' => \A q \in Publishers \ {p} : ~At(q, m)
    BY <1>p, <2>1, <2>2
  <2> HIDE DEF m
  <2>4. \A x \in NameSet : PackInv(x) => Hashed(index[x])'
    BY <2>1 DEF PackInv, Hashed
  <2> QED  BY <1>9, <2>1, <2>2, <2>3, <2>4
<1> QED  BY <1>10, <1>11, <1>12, <1>13, <1>14 DEF Publish

LEMMA RegistryNext ==
    ASSUME ShapeInv, RegistryInv, [Next]_vars
    PROVE  RegistryInv'
<1>1. ASSUME NEW c \in Clients,
             \/ Install(c) \/ \E f \in BOOLEAN : StartInstall(c, f)
             \/ LoseGet(c) \/ SpoilTar(c) \/ LoseSig(c) \/ FailCheckout(c) \/ CrashInstall(c)
             \/ \E m \in Manifests : EditManifest(c, m)
      PROVE  UNCHANGED <<index, tar, pub, met>> /\ struck \subseteq struck'
  BY <1>1 DEF Install, NextDep, GetGit, GetIndex, CheckCache, GetTar, GetSig, OpenTmp, WriteTmp, ReadTmp, ExtractFile,
              RemoveTmp, OpenLock, WriteLock, StartInstall, LoseGet, SpoilTar, LoseSig, FailCheckout, CrashInstall,
              EditManifest, Still, registry, Strike
<1>2. UNCHANGED vars => UNCHANGED <<index, tar, pub, met>> /\ struck \subseteq struck'
  BY DEF vars
<1> QED  BY <1>1, <1>2, RegistryElse, RegistryPublish DEF Next, ShapeInv

LEMMA RegistryInit == Init => RegistryInv
<1> SUFFICES ASSUME Init PROVE RegistryInv
  OBVIOUS
<1>1. \A n \in NameSet : index[n] = NoIndex
  BY DEF Init, NameSet
<1>2. \A n \in NameSet, v \in Versions : tar[<<n, v>>] = None
  BY DEF Init, Packs, NameSet
<1>3. \A p \in Publishers : pub[p].at = "idle"
  BY DEF Init
<1>4. ToSet(NoIndex.versions) = {}
  BY NoIndexIs
<1>5. \A n \in NameSet : Hashed(index[n]) /\ Tells(index[n], n, NoVer)
  BY <1>1, <1>2, <1>4 DEF Hashed, Tells
<1> QED  BY <1>3, <1>5 DEF RegistryInv, PackInv, Lone, At

LEMMA RegistryAlways == Spec => []RegistryInv
<1>1. ShapeInv /\ RegistryInv /\ [Next]_vars => RegistryInv'
  BY RegistryNext
<1> QED  BY <1>1, RegistryInit, ShapeAlways, PTL DEF Spec

\* publishPackage, however many run: a version published of a package that no two
\* publishes shared at a time stays in its index, and the index names the tarball
\* that is there; an index is always in order.
THEOREM IndexIsExact == Spec => []IndexExact
<1>1. ShapeInv /\ RegistryInv => VersionsHold /\ IndexTrue
  <2> SUFFICES ASSUME ShapeInv, RegistryInv PROVE VersionsHold /\ IndexTrue
    OBVIOUS
  <2>1. NoVer \notin Versions
    BY Assumed
  <2>v. \A n \in NameSet : VersionsOf(n) \subseteq Versions
    BY ToSetIs DEF ShapeInv, Shapes, GoodIndex, VersionsOf
  <2>2. ASSUME Without({"crash"}), NEW n \in ToSet(Names) \ met, ~Publishing(n)
        PROVE  \A v \in Versions : /\ tar[<<n, v>>] # None => v \in VersionsOf(n)
                                   /\ v \in VersionsOf(n) => index[n].dist[v] = tar[<<n, v>>]
    BY <2>1, <2>2 DEF RegistryInv, PackInv, Tells, VersionsOf, NameSet
  <2>3. VersionsHold
    BY <2>2 DEF VersionsHold, VersionsStay
  <2>4. IndexTrue
    <3> SUFFICES ASSUME NEW n \in ToSet(Names) \ met, ~Publishing(n), Without({"crash"}), NEW v \in VersionsOf(n)
                 PROVE  index[n].dist[v] = tar[<<n, v>>]
      BY DEF IndexTrue
    <3>1. v \in Versions
      BY <2>v DEF NameSet
    <3> QED  BY <2>2, <3>1
  <2> QED  BY <2>3, <2>4
<1> QED  BY <1>1, RegistryAlways, ShapeAlways, SortedIndex, PTL DEF IndexExact

(***************************************************************************)
(* With one publisher no publishes meet.                                   *)
(***************************************************************************)
LoneInv ==
    /\ \A n \in NameSet : Hashed(index[n])
    /\ \A p \in Publishers : PublishInv(p)
    /\ Without({"crash"}) => \A n \in NameSet : ~Publishing(n) => Tells(index[n], n, NoVer)

NoneMet == met = {}
LEMMA NeverMet ==
    ASSUME OnePublisher
    PROVE  Spec => []NoneMet
<1>1. Init => NoneMet
  BY DEF Init, NoneMet
<1>2. NoneMet /\ [Next]_vars => NoneMet'
  <2> SUFFICES ASSUME met = {}, [Next]_vars PROVE met' = {}
    BY DEF NoneMet
  <2>1. ASSUME NEW p \in Publishers, NEW k \in Packs, NEW c \in Contents, StartPublish(p, k, c) PROVE met' = {}
    BY <2>1 DEF StartPublish, Meeting, OnePublisher
  <2>2. ASSUME NEW p \in Publishers, Publish(p) \/ CrashPublish(p) PROVE met' = met
    BY <2>2 DEF Publish, WriteTar, ReadIndex, WriteIndex, CrashPublish
  <2>3. ASSUME NEW c \in Clients,
               \/ Install(c) \/ \E f \in BOOLEAN : StartInstall(c, f)
               \/ LoseGet(c) \/ SpoilTar(c) \/ LoseSig(c) \/ FailCheckout(c) \/ CrashInstall(c)
               \/ \E m \in Manifests : EditManifest(c, m)
        PROVE  met' = met
    BY <2>3 DEF Install, NextDep, GetGit, GetIndex, CheckCache, GetTar, GetSig, OpenTmp, WriteTmp, ReadTmp, ExtractFile,
                RemoveTmp, OpenLock, WriteLock, StartInstall, LoseGet, SpoilTar, LoseSig, FailCheckout, CrashInstall,
                EditManifest, Still, registry
  <2>4. CASE UNCHANGED vars
    BY <2>4 DEF vars
  <2>5. CASE Next
    <3>1. CASE \E p \in Publishers : \E k \in Packs, c \in Contents : StartPublish(p, k, c)
      BY <2>1, <3>1
    <3>2. CASE \E p \in Publishers : Publish(p) \/ CrashPublish(p)
      BY <2>2, <3>2
    <3> QED  BY <2>3, <2>5, <3>1, <3>2 DEF Next
  <2> QED  BY <2>4, <2>5
<1> QED  BY <1>1, <1>2, PTL DEF Spec

LEMMA LoneAlways ==
    ASSUME OnePublisher
    PROVE  Spec => []LoneInv
<1>1. ShapeInv /\ RegistryInv /\ NoneMet => LoneInv
  <2> SUFFICES ASSUME ShapeInv, RegistryInv, met = {} PROVE LoneInv
    BY DEF NoneMet
  <2>1. \A n \in NameSet : PackInv(n)
    BY DEF RegistryInv
  <2>2. ASSUME NEW p \in Publishers PROVE PublishInv(p)
    <3>1. CASE pub[p].at = "idle"
      BY <3>1 DEF PublishInv
    <3>2. CASE pub[p].at # "idle"
      <4>1. pub[p].k[1] \in NameSet /\ At(p, pub[p].k[1])
        BY <3>2, PubIs DEF At, ShapeInv
      <4> QED  BY <2>1, <4>1 DEF PackInv
    <3> QED  BY <3>1, <3>2
  <2> QED  BY <2>1, <2>2 DEF PackInv, LoneInv
<1> QED  BY <1>1, NeverMet, RegistryAlways, ShapeAlways, PTL

(***************************************************************************)
(* What the step of a client comes to.                                     *)
(***************************************************************************)
ClientStep(c) == \/ Install(c) \/ \E f \in BOOLEAN : StartInstall(c, f)
                 \/ LoseGet(c) \/ SpoilTar(c) \/ LoseSig(c) \/ FailCheckout(c) \/ CrashInstall(c)
                 \/ \E m \in Manifests : EditManifest(c, m)
Elsewhere == UNCHANGED <<manifest, lock, cache, tmp, inst, sig, needSig>> /\ struck \subseteq struck'

\* The fetch is over, given up or not begun.
Leaves(c) == /\ inst'[c].at \notin Fetching /\ cache' = cache
             /\ Going(c, "extract") => inst[c].rest = <<>> \/ ~Without({"crash"})'
\* A version of the index is chosen.
Chooses(c) == LET v == inst'[c].v
              IN  /\ Going(c, "index") /\ inst'[c].at = "cached" /\ Dep(c)' = Dep(c) /\ Dep(c) \in NameSet
                  /\ v \in Versions /\ v \in VersionsOf(Dep(c)) /\ inst'[c].sha = index[Dep(c)].dist[v]
                  /\ cache' = cache
\* The fetch of a version goes on.
Goes(c, a, b) == /\ Going(c, a) /\ inst'[c].at = b /\ Key(c) \in Packs /\ Key(c)' = Key(c)
                 /\ inst'[c].sha = inst[c].sha
SameBody(c) == inst'[c].body = inst[c].body
Unpacks(c) == /\ Goes(c, "extract", "extract") /\ SameBody(c) /\ inst[c].rest \in Seq(AllParts) /\ inst[c].rest # <<>>
              /\ inst'[c].rest = Tail(inst[c].rest)
              /\ \A k \in Packs \ {Key(c)} : cache'[k] = cache[k]
              /\ cache'[Key(c)] = With(cache[Key(c)], Head(inst[c].rest), inst[c].body)
Fetches(c) ==
    \/ Goes(c, "cached", "tar") /\ ~Installed(Key(c)) /\ cache' = cache
    \/ Goes(c, "tar", "sig") /\ inst[c].sha \in {None, inst'[c].body} /\ cache' = cache
    \/ Goes(c, "sig", "open") /\ (needSig => sig[Key(c)] = inst[c].body) /\ SameBody(c) /\ cache' = cache
    \/ Goes(c, "open", "save") /\ tmp'[Key(c)] = Bad /\ SameBody(c) /\ cache' = cache
    \/ Goes(c, "save", "read") /\ (tmp[Key(c)] # None => tmp'[Key(c)] = inst[c].body) /\ SameBody(c) /\ cache' = cache
    \/ Goes(c, "read", "extract") /\ inst'[c].body = tmp[Key(c)] /\ cache' = cache
       /\ (tmp[Key(c)] \in Contents => inst'[c].rest = Parts(tmp[Key(c)]))
    \/ Unpacks(c)
\* The entries that it makes.
Enters(c) ==
    \/ EntriesOf(c)' \subseteq EntriesOf(c)
    \/ \E e : /\ EntriesOf(c)' \subseteq EntriesOf(c) \cup {e}
              /\ \/ /\ manifest[c][e.n] \in {PathDep, GitDep} /\ e.v = NoVer
                    /\ manifest[c][e.n] = GitDep => e.sha = "asked" \/ git[e.n] = "other"
                 \/ Going(c, "cached") /\ Installed(Key(c)) /\ Key(c) \in Packs
                    /\ <<e.n, e.v>> = Key(c) /\ e.sha = inst[c].sha
                 \/ Going(c, "extract") /\ inst[c].rest = <<>> /\ Key(c) \in Packs
                    /\ <<e.n, e.v>> = Key(c) /\ e.sha = inst[c].body
Steps(c) == /\ Others(c) /\ UNCHANGED <<registry, needSig>> /\ struck \subseteq struck'
            /\ manifest' = manifest \/ ~Without({"edit"})'
            /\ Leaves(c) \/ Chooses(c) \/ Fetches(c)
            /\ Enters(c) /\ \A d \in Clients \ {c} : lock'[d] = lock[d]
LEMMA StepEntries ==
    ASSUME ShapeInv, NEW c \in Clients, lock' = lock
    PROVE  /\ \A ok : Halts(c, ok) => EntriesOf(c)' \subseteq EntriesOf(c) /\ inst'[c].at = "idle" /\ Others(c)
           /\ \A a : Moves(c, a) => EntriesOf(c)' \subseteq EntriesOf(c) \cup inst[c].new /\ inst'[c].at = a /\ Others(c)
           /\ \A e : Takes(c, e) => /\ EntriesOf(c)' \subseteq lock[c] \cup inst[c].new \cup {e}
                                    /\ inst'[c].at = "next" /\ Others(c)
<1>1. ASSUME NEW ok, Halts(c, ok) PROVE EntriesOf(c)' \subseteq EntriesOf(c) /\ inst'[c].at = "idle" /\ Others(c)
  BY <1>1 DEF Halts, Stopped, EntriesOf, Going
<1>2. ASSUME NEW a, Moves(c, a)
      PROVE  EntriesOf(c)' \subseteq EntriesOf(c) \cup inst[c].new /\ inst'[c].at = a /\ Others(c)
  BY <1>2 DEF Moves, SameJob, EntriesOf
<1>3. ASSUME NEW e, Takes(c, e)
      PROVE  EntriesOf(c)' \subseteq lock[c] \cup inst[c].new \cup {e} /\ inst'[c].at = "next" /\ Others(c)
  BY <1>3 DEF Takes, EntriesOf
<1> QED  BY <1>1, <1>2, <1>3

LEMMA SameKey ==
    ASSUME NEW c, SameJob(c)
    PROVE  Dep(c)' = Dep(c) /\ (inst'[c].v = inst[c].v => Key(c)' = Key(c))
BY DEF SameJob, Dep, Key

LEMMA StepGoes ==
    ASSUME ShapeInv, NEW c \in Clients, NEW a \in Fetching, Going(c, a), NEW b, Moves(c, b), SameFetch(c)
    PROVE  Goes(c, a, b)
<1>1. Key(c) \in Packs
  BY KeyIs DEF Going
<1>2. Key(c)' = Key(c)
  BY SameKey DEF Moves, SameFetch
<1> QED  BY <1>1, <1>2 DEF Goes, Moves, SameFetch

LEMMA StepTakes ==
    ASSUME ShapeInv, NEW c \in Clients, lock' = lock, inst[c] \in Busy, NEW e, Takes(c, e)
    PROVE  EntriesOf(c)' \subseteq EntriesOf(c) \cup {e}
<1>1. ~Going(c, "idle")
  BY BusyIs DEF ShapeInv
<1> QED  BY <1>1 DEF Takes, EntriesOf, Going

LEMMA StepMoves ==
    ASSUME ShapeInv, NEW c \in Clients, lock' = lock, inst[c] \in Busy, NEW a, Moves(c, a)
    PROVE  EntriesOf(c)' \subseteq EntriesOf(c)
<1>1. ~Going(c, "idle")
  BY BusyIs DEF ShapeInv
<1> QED  BY <1>1 DEF Moves, SameJob, EntriesOf, Going

LEMMA InstallSteps ==
    ASSUME ShapeInv, NEW c \in Clients, Install(c)
    PROVE  Steps(c)
<1>0. Shapes /\ Runs(c)
  BY DEF ShapeInv
<1>f. "idle" \notin Fetching /\ "next" \notin Fetching /\ "git" \notin Fetching /\ "index" \notin Fetching
      /\ "locking" \notin Fetching
  BY DEF Fetching
<1>r. ASSUME Others(c), UNCHANGED <<registry, manifest, needSig, lock, struck>>,
             Leaves(c) \/ Chooses(c) \/ Fetches(c), Enters(c)
      PROVE  Steps(c)
  BY <1>r DEF Steps
\* An install that ends, anywhere but while it unpacks.
<1>h. ASSUME NEW ok, Halts(c, ok), ~Going(c, "extract"), cache' = cache,
             UNCHANGED <<registry, manifest, needSig, lock, struck>>
      PROVE  Steps(c)
  <2>1. EntriesOf(c)' \subseteq EntriesOf(c) /\ inst'[c].at = "idle" /\ Others(c)
    BY <1>h, StepEntries
  <2> QED  BY <1>f, <1>h, <1>r, <2>1 DEF Leaves, Enters
<1>m. ASSUME NEW a, Moves(c, a), inst[c] \in Busy, UNCHANGED <<registry, manifest, needSig, lock, struck>>,
             Leaves(c) \/ Chooses(c) \/ Fetches(c)
      PROVE  Steps(c)
  BY <1>m, <1>r, StepMoves DEF Enters, Moves
<1>1. CASE NextDep(c)
  <2>1. /\ Going(c, "next") /\ inst[c] \in Busy /\ Dep(c) \in NameSet
        /\ \/ \E e \in lock[c] : e.n = Dep(c) /\ Takes(c, e)
           \/ Halts(c, FALSE)
           \/ manifest[c][Dep(c)] = PathDep /\ Takes(c, Entry(Dep(c), NoVer, None))
           \/ Moves(c, "git")
           \/ Moves(c, "index")
        /\ UNCHANGED <<registry, manifest, needSig, lock, cache, struck>>
    BY <1>0, <1>1, NextDoes
  <2>2. ~Going(c, "extract")
    BY <2>1 DEF Going
  <2>3. ASSUME NEW e \in lock[c], Takes(c, e) PROVE Steps(c)
    <3>1. EntriesOf(c)' \subseteq EntriesOf(c)
      BY <2>1, <2>3, StepTakes DEF EntriesOf
    <3> QED  BY <1>f, <1>r, <2>1, <2>2, <2>3, <3>1 DEF Leaves, Enters, Takes
  <2>4. CASE Halts(c, FALSE)
    BY <1>h, <2>1, <2>2, <2>4
  <2>5. CASE manifest[c][Dep(c)] = PathDep /\ Takes(c, Entry(Dep(c), NoVer, None))
    <3> DEFINE e == Entry(Dep(c), NoVer, None)
    <3>1. e.n = Dep(c) /\ e.v = NoVer /\ Takes(c, e)
      BY <2>5 DEF Entry
    <3> HIDE DEF e
    <3>2. EntriesOf(c)' \subseteq EntriesOf(c) \cup {e}
      BY <2>1, <3>1, StepTakes
    <3>3. Enters(c)
      <4>1. PathDep # GitDep
        BY DEF PathDep, GitDep, VRange
      <4> QED  BY <2>5, <3>1, <3>2, <4>1 DEF Enters
    <3> QED  BY <1>f, <1>r, <2>1, <2>2, <3>1, <3>3 DEF Leaves, Takes
  <2>6. CASE Moves(c, "git") \/ Moves(c, "index")
    BY <1>f, <1>m, <2>1, <2>2, <2>6 DEF Leaves, Moves
  <2> QED  BY <2>1, <2>3, <2>4, <2>5, <2>6
<1>2. CASE GetGit(c)
  <2>0. inst[c].todo # {}
    BY <1>0, <1>2 DEF GetGit, Runs, Going
  <2>1. /\ Going(c, "git") /\ inst[c] \in Busy
        /\ \/ \E x \in {"asked", "other"} :
                Takes(c, Entry(Dep(c), NoVer, x)) /\ (x = "asked" \/ git[Dep(c)] = "other")
           \/ Halts(c, FALSE)
        /\ UNCHANGED <<registry, manifest, needSig, lock, cache, struck>>
    BY <1>0, <1>2, <2>0, GitDoes
  <2>2. ~Going(c, "extract") /\ manifest[c][Dep(c)] = GitDep
    BY <1>0, <2>1 DEF Going, Runs
  <2>3. ASSUME NEW x \in {"asked", "other"}, Takes(c, Entry(Dep(c), NoVer, x)), x = "asked" \/ git[Dep(c)] = "other"
        PROVE  Steps(c)
    <3> DEFINE e == Entry(Dep(c), NoVer, x)
    <3>1. e.n = Dep(c) /\ e.v = NoVer /\ e.sha = x /\ Takes(c, e)
      BY <2>3 DEF Entry
    <3> HIDE DEF e
    <3>2. EntriesOf(c)' \subseteq EntriesOf(c) \cup {e}
      BY <2>1, <3>1, StepTakes
    <3>3. Enters(c)
      BY <2>2, <2>3, <3>1, <3>2 DEF Enters
    <3> QED  BY <1>f, <1>r, <2>1, <2>2, <3>1, <3>3 DEF Leaves, Takes
  <2> QED  BY <1>h, <2>1, <2>2, <2>3
<1>3. CASE GetIndex(c)
  <2>0. inst[c].todo # {}
    BY <1>0, <1>3 DEF GetIndex, Runs, Going
  <2>1. /\ Going(c, "index") /\ inst[c] \in Busy
        /\ \/ Halts(c, FALSE)
           \/ /\ Moves(c, "cached") /\ inst'[c].v \in Versions /\ inst'[c].v \in VersionsOf(Dep(c))
              /\ inst'[c].sha = index[Dep(c)].dist[inst'[c].v]
        /\ UNCHANGED <<registry, manifest, needSig, lock, cache, struck>>
    BY <1>0, <1>3, <2>0, IndexDoes
  <2>2. ~Going(c, "extract") /\ Dep(c) \in NameSet
    BY <1>0, <2>0, <2>1, DepIs DEF Going
  <2>3. CASE /\ Moves(c, "cached") /\ inst'[c].v \in Versions /\ inst'[c].v \in VersionsOf(Dep(c))
             /\ inst'[c].sha = index[Dep(c)].dist[inst'[c].v]
    <3>1. Dep(c)' = Dep(c)
      BY <2>3, SameKey DEF Moves
    <3>2. Chooses(c)
      BY <2>1, <2>2, <2>3, <3>1 DEF Chooses, Moves
    <3> QED  BY <1>m, <2>1, <2>3, <3>2
  <2> QED  BY <1>h, <2>1, <2>2, <2>3
<1>4. CASE CheckCache(c)
  <2>0. Going(c, "cached") /\ "cached" \in Fetching
    BY <1>4 DEF CheckCache, Fetching
  <2>k. Key(c) \in Packs /\ Key(c) = <<Dep(c), inst[c].v>>
    BY <2>0, KeyIs DEF Going
  <2>1. /\ inst[c] \in Busy
        /\ \/ Installed(Key(c)) /\ Takes(c, Entry(Dep(c), inst[c].v, inst[c].sha))
           \/ ~Installed(Key(c)) /\ Moves(c, "tar") /\ SameFetch(c)
        /\ UNCHANGED <<registry, manifest, needSig, lock, cache, struck>>
    BY <1>0, <1>4, <2>k, CachedDoes
  <2>2. ~Going(c, "extract")
    BY <2>0 DEF Going
  <2>3. CASE Installed(Key(c)) /\ Takes(c, Entry(Dep(c), inst[c].v, inst[c].sha))
    <3> DEFINE e == Entry(Dep(c), inst[c].v, inst[c].sha)
    <3>1. <<e.n, e.v>> = Key(c) /\ e.sha = inst[c].sha /\ Takes(c, e)
      BY <2>3, <2>k DEF Entry
    <3> HIDE DEF e
    <3>2. EntriesOf(c)' \subseteq EntriesOf(c) \cup {e}
      BY <2>1, <3>1, StepTakes
    <3>3. Enters(c)
      BY <2>0, <2>k, <2>3, <3>1, <3>2 DEF Enters
    <3> QED  BY <1>f, <1>r, <2>1, <2>2, <3>1, <3>3 DEF Leaves, Takes
  <2>4. CASE ~Installed(Key(c)) /\ Moves(c, "tar") /\ SameFetch(c)
    <3>1. Goes(c, "cached", "tar")
      BY <2>0, <2>4, StepGoes
    <3> QED  BY <1>m, <2>1, <2>4, <3>1 DEF Fetches
  <2> QED  BY <2>1, <2>3, <2>4
<1>5. CASE GetTar(c)
  <2>0. Going(c, "tar") /\ "tar" \in Fetching
    BY <1>5 DEF GetTar, Fetching
  <2>k. Key(c) \in Packs
    BY <2>0, KeyIs DEF Going
  <2>1. /\ inst[c] \in Busy
        /\ \/ Halts(c, FALSE)
           \/ Moves(c, "sig") /\ SameFetch(c) /\ inst[c].sha \in {None, inst'[c].body}
        /\ UNCHANGED <<registry, manifest, needSig, lock, cache>>
    BY <1>0, <1>5, <2>k, TarDoes
  <2>s. struck' = struck
    BY <1>5 DEF GetTar
  <2>2. ~Going(c, "extract")
    BY <2>0 DEF Going
  <2>3. CASE Moves(c, "sig") /\ SameFetch(c) /\ inst[c].sha \in {None, inst'[c].body}
    <3>1. Goes(c, "tar", "sig")
      BY <2>0, <2>3, StepGoes
    <3> QED  BY <1>m, <2>1, <2>s, <2>3, <3>1 DEF Fetches
  <2> QED  BY <1>h, <2>1, <2>s, <2>2, <2>3
<1>6. CASE GetSig(c)
  <2>0. Going(c, "sig") /\ "sig" \in Fetching
    BY <1>6 DEF GetSig, Fetching
  <2>1. /\ inst[c] \in Busy
        /\ \/ Halts(c, FALSE)
           \/ (needSig => sig[Key(c)] = inst[c].body) /\ Moves(c, "open") /\ SameFetch(c) /\ SameBody(c)
        /\ UNCHANGED <<registry, manifest, needSig, lock, cache>>
    BY <1>0, <1>6, SigDoes DEF SameBody
  <2>s. struck' = struck
    BY <1>6 DEF GetSig
  <2>2. ~Going(c, "extract")
    BY <2>0 DEF Going
  <2>3. CASE (needSig => sig[Key(c)] = inst[c].body) /\ Moves(c, "open") /\ SameFetch(c) /\ SameBody(c)
    <3>1. Goes(c, "sig", "open")
      BY <2>0, <2>3, StepGoes
    <3> QED  BY <1>m, <2>1, <2>s, <2>3, <3>1 DEF Fetches
  <2> QED  BY <1>h, <2>1, <2>s, <2>2, <2>3
<1>7. CASE OpenTmp(c)
  <2>0. Going(c, "open") /\ "open" \in Fetching
    BY <1>7 DEF OpenTmp, Fetching
  <2>k. Key(c) \in Packs
    BY <2>0, KeyIs DEF Going
  <2>1. /\ inst[c] \in Busy /\ Moves(c, "save") /\ SameFetch(c) /\ SameBody(c) /\ tmp'[Key(c)] = Bad
        /\ UNCHANGED <<registry, manifest, needSig, lock, cache, struck>>
    BY <1>0, <1>7, <2>k, OpenDoes DEF SameBody
  <2>2. Goes(c, "open", "save")
    BY <2>0, <2>1, StepGoes
  <2> QED  BY <1>m, <2>1, <2>2 DEF Fetches
<1>8. CASE WriteTmp(c)
  <2>0. Going(c, "save") /\ "save" \in Fetching
    BY <1>8 DEF WriteTmp, Fetching
  <2>k. Key(c) \in Packs
    BY <2>0, KeyIs DEF Going
  <2>1. /\ inst[c] \in Busy /\ Moves(c, "read") /\ SameFetch(c) /\ SameBody(c)
        /\ (tmp[Key(c)] # None => tmp'[Key(c)] = inst[c].body)
        /\ UNCHANGED <<registry, manifest, needSig, lock, cache, struck>>
    BY <1>0, <1>8, <2>k, SaveDoes DEF SameBody
  <2>2. Goes(c, "save", "read")
    BY <2>0, <2>1, StepGoes
  <2> QED  BY <1>m, <2>1, <2>2 DEF Fetches
<1>9. CASE ReadTmp(c)
  <2>0. Going(c, "read") /\ "read" \in Fetching
    BY <1>9 DEF ReadTmp, Fetching
  <2>k. Key(c) \in Packs
    BY <2>0, KeyIs DEF Going
  <2>1. /\ inst[c] \in Busy
        /\ \/ Halts(c, FALSE)
           \/ /\ Moves(c, "extract") /\ SameFetch(c) /\ inst'[c].body = tmp[Key(c)]
              /\ tmp[Key(c)] \in Contents => inst'[c].rest = Parts(tmp[Key(c)])
        /\ UNCHANGED <<registry, manifest, needSig, lock, cache, struck>>
    BY <1>0, <1>9, <2>k, ReadDoes
  <2>2. ~Going(c, "extract")
    BY <2>0 DEF Going
  <2>3. CASE /\ Moves(c, "extract") /\ SameFetch(c) /\ inst'[c].body = tmp[Key(c)]
             /\ tmp[Key(c)] \in Contents => inst'[c].rest = Parts(tmp[Key(c)])
    <3>1. Goes(c, "read", "extract")
      BY <2>0, <2>3, StepGoes
    <3> QED  BY <1>m, <2>1, <2>3, <3>1 DEF Fetches
  <2> QED  BY <1>h, <2>1, <2>2, <2>3
<1>10. CASE ExtractFile(c)
  <2>0. Going(c, "extract") /\ "extract" \in Fetching
    BY <1>10 DEF ExtractFile, Fetching
  <2>k. Key(c) \in Packs
    BY <2>0, KeyIs DEF Going
  <2>1. /\ inst[c] \in Busy /\ inst[c].rest # <<>> /\ Moves(c, "extract") /\ SameFetch(c) /\ SameBody(c)
        /\ inst'[c].rest = Tail(inst[c].rest)
        /\ \A k \in Packs \ {Key(c)} : cache'[k] = cache[k]
        /\ cache'[Key(c)] = With(cache[Key(c)], Head(inst[c].rest), inst[c].body)
        /\ UNCHANGED <<registry, manifest, needSig, lock, struck>>
    BY <1>0, <1>10, <2>k, ExtractDoes DEF SameBody
  <2>2. Goes(c, "extract", "extract")
    BY <2>0, <2>1, StepGoes
  <2>3. inst[c].rest \in Seq(AllParts)
    BY <2>1 DEF Busy
  <2>4. Fetches(c)
    BY <2>1, <2>2, <2>3 DEF Fetches, Unpacks
  <2> QED  BY <1>m, <2>1, <2>4
<1>11. CASE RemoveTmp(c)
  <2>0. Going(c, "extract") /\ "extract" \in Fetching
    BY <1>11 DEF RemoveTmp, Fetching
  <2>k. Key(c) \in Packs /\ Key(c) = <<Dep(c), inst[c].v>>
    BY <2>0, KeyIs DEF Going
  <2>1. /\ inst[c] \in Busy /\ inst[c].rest = <<>> /\ Takes(c, Entry(Dep(c), inst[c].v, inst[c].body))
        /\ UNCHANGED <<registry, manifest, needSig, lock, cache, struck>>
    BY <1>0, <1>11, <2>k, RemoveDoes
  <2> DEFINE e == Entry(Dep(c), inst[c].v, inst[c].body)
  <2>2. <<e.n, e.v>> = Key(c) /\ e.sha = inst[c].body /\ Takes(c, e)
    BY <2>1, <2>k DEF Entry
  <2> HIDE DEF e
  <2>3. EntriesOf(c)' \subseteq EntriesOf(c) \cup {e}
    BY <2>1, <2>2, StepTakes
  <2>4. Enters(c)
    BY <2>0, <2>k, <2>1, <2>2, <2>3 DEF Enters
  <2> QED  BY <1>f, <1>r, <2>1, <2>2, <2>4 DEF Leaves, Takes
<1>12. CASE OpenLock(c)
  <2>1. /\ Going(c, "next") /\ inst[c] \in Busy /\ Moves(c, "locking") /\ lock' = [lock EXCEPT ![c] = {}]
        /\ UNCHANGED <<registry, manifest, needSig, cache, struck>>
    BY <1>0, <1>12, OpenLockDoes
  <2>2. lock'[c] = {} /\ \A d \in Clients \ {c} : lock'[d] = lock[d]
    BY <1>0, <2>1 DEF Shapes
  <2>3. EntriesOf(c)' \subseteq EntriesOf(c)
    BY <2>1, <2>2 DEF EntriesOf, Moves, SameJob, Going
  <2> QED  BY <1>f, <2>1, <2>2, <2>3 DEF Steps, Leaves, Enters, Moves, Going
<1>13. CASE WriteLock(c)
  <2>1. /\ Going(c, "locking") /\ inst[c] \in Busy /\ Halts(c, TRUE) /\ lock' = [lock EXCEPT ![c] = inst[c].new]
        /\ UNCHANGED <<registry, manifest, needSig, cache, struck>>
    BY <1>0, <1>13, WriteLockDoes
  <2>2. lock'[c] = inst[c].new /\ \A d \in Clients \ {c} : lock'[d] = lock[d]
    BY <1>0, <2>1 DEF Shapes
  <2>3. inst'[c].at = "idle" /\ Others(c)
    BY <2>1 DEF Halts, Stopped
  <2>4. EntriesOf(c)' \subseteq EntriesOf(c)
    BY <2>1, <2>2, <2>3 DEF EntriesOf, Going
  <2> QED  BY <1>f, <2>1, <2>2, <2>3, <2>4 DEF Steps, Leaves, Enters, Going
<1> QED  BY <1>1, <1>2, <1>3, <1>4, <1>5, <1>6, <1>7, <1>8, <1>9, <1>10, <1>11, <1>12, <1>13 DEF Install

LEMMA ClientSteps ==
    ASSUME ShapeInv, NEW c \in Clients, ClientStep(c)
    PROVE  Steps(c)
<1>0. Shapes
  BY DEF ShapeInv
<1>f. "idle" \notin Fetching /\ "next" \notin Fetching
  BY DEF Fetching
<1>h. ASSUME Halts(c, FALSE), Going(c, "extract") => ~Without({"crash"})', struck \subseteq struck',
             UNCHANGED <<registry, needSig, lock, cache>>, manifest' = manifest \/ ~Without({"edit"})'
      PROVE  Steps(c)
  <2>1. EntriesOf(c)' \subseteq EntriesOf(c) /\ inst'[c].at = "idle" /\ Others(c)
    BY <1>h, StepEntries
  <2> QED  BY <1>f, <1>h, <2>1 DEF Leaves, Enters, Steps
<1>1. CASE \E f \in BOOLEAN : StartInstall(c, f)
  <2>1. /\ Going(c, "idle") /\ Others(c) /\ inst'[c].at = "next" /\ inst'[c].new = {}
        /\ UNCHANGED <<registry, manifest, lock, cache, needSig, struck>>
    BY <1>0, <1>1, StartDoes
  <2>2. EntriesOf(c)' \subseteq EntriesOf(c)
    BY <2>1 DEF EntriesOf
  <2> QED  BY <1>f, <2>1, <2>2 DEF Leaves, Enters, Steps, Going
<1>2. CASE LoseGet(c) \/ FailCheckout(c) \/ CrashInstall(c)
  BY <1>0, <1>2, <1>h, FailDoes
<1>5. CASE LoseSig(c)
  <2>0. Going(c, "sig") /\ "sig" \in Fetching
    BY <1>5 DEF LoseSig, Fetching
  <2>1. /\ inst[c] \in Busy
        /\ \/ Halts(c, FALSE)
           \/ Moves(c, "open") /\ SameFetch(c) /\ SameBody(c) /\ (needSig => sig[Key(c)] = inst[c].body)
        /\ UNCHANGED <<registry, manifest, needSig, lock, cache>> /\ struck \subseteq struck'
    BY <1>0, <1>5, SigDoes DEF SameBody
  <2>2. ~Going(c, "extract")
    BY <2>0 DEF Going
  <2>3. CASE Moves(c, "open") /\ SameFetch(c) /\ SameBody(c) /\ (needSig => sig[Key(c)] = inst[c].body)
    <3>1. Goes(c, "sig", "open")
      BY <2>0, <2>3, StepGoes
    <3>2. EntriesOf(c)' \subseteq EntriesOf(c)
      BY <2>1, <2>3, StepMoves
    <3> QED  BY <2>1, <2>3, <3>1, <3>2 DEF Fetches, Enters, Steps, Moves
  <2> QED  BY <1>h, <2>1, <2>2, <2>3
<1>3. CASE SpoilTar(c)
  <2>0. Going(c, "tar") /\ "tar" \in Fetching
    BY <1>3 DEF SpoilTar, Fetching
  <2>k. Key(c) \in Packs
    BY <2>0, KeyIs DEF Going
  <2>1. /\ inst[c] \in Busy
        /\ \/ Halts(c, FALSE)
           \/ Moves(c, "sig") /\ SameFetch(c) /\ inst[c].sha \in {None, inst'[c].body}
        /\ UNCHANGED <<registry, manifest, needSig, lock, cache>> /\ struck \subseteq struck'
    BY <1>0, <1>3, <2>k, TarDoes
  <2>2. ~Going(c, "extract")
    BY <2>0 DEF Going
  <2>3. CASE Moves(c, "sig") /\ SameFetch(c) /\ inst[c].sha \in {None, inst'[c].body}
    <3>1. Goes(c, "tar", "sig")
      BY <2>0, <2>3, StepGoes
    <3>2. EntriesOf(c)' \subseteq EntriesOf(c)
      BY <2>1, <2>3, StepMoves
    <3> QED  BY <2>1, <2>3, <3>1, <3>2 DEF Fetches, Enters, Steps, Moves
  <2> QED  BY <1>h, <2>1, <2>2, <2>3
<1>4. CASE \E m \in Manifests : EditManifest(c, m)
  <2>1. /\ Going(c, "idle") /\ Halts(c, FALSE) /\ ~Without({"edit"})' /\ struck \subseteq struck'
        /\ UNCHANGED <<registry, lock, cache, needSig>>
    BY <1>0, <1>4, EditDoes
  <2> QED  BY <1>h, <2>1 DEF Going
<1> QED  BY <1>1, <1>2, <1>3, <1>4, <1>5, InstallSteps DEF ClientStep

(***************************************************************************)
(* One client at a time.                                                   *)
(***************************************************************************)
LEMMA NextIs ==
    ASSUME ShapeInv, [Next]_vars
    PROVE  \/ Elsewhere /\ UNCHANGED registry
           \/ Elsewhere /\ \E p \in Publishers : \/ Publish(p) \/ CrashPublish(p)
                                                 \/ \E k \in Packs, c \in Contents : StartPublish(p, k, c)
           \/ \E c \in Clients : Steps(c)
<1>1. CASE UNCHANGED vars
  BY <1>1 DEF vars, Elsewhere, registry
<1>2. ASSUME NEW p \in Publishers,
             \/ Publish(p) \/ CrashPublish(p) \/ \E k \in Packs, c \in Contents : StartPublish(p, k, c)
      PROVE  Elsewhere
  BY <1>2 DEF Publish, CrashPublish, StartPublish, WriteTar, ReadIndex, WriteIndex, others, Elsewhere, Strike
<1>3. ASSUME NEW c \in Clients, ClientStep(c) PROVE Steps(c)
  BY <1>3, ClientSteps
<1> QED  BY <1>1, <1>2, <1>3 DEF Next, ClientStep

LEMMA SignedSteps ==
    ASSUME NEW c \in Clients, Signed(c), Steps(c), None # Bad
    PROVE  Signed(c)'
<1>1. UNCHANGED <<sig, needSig>>
  BY DEF Steps, registry
<1>2. CASE Leaves(c) \/ Chooses(c)
  BY <1>2 DEF Leaves, Chooses, Signed, Going, Fetching
<1>3. CASE Fetches(c)
  <2>1. Key(c)' = Key(c)
    BY <1>3 DEF Fetches, Goes, Unpacks
  <2>2. (needSig' => sig'[Key(c)'] = inst'[c].body) <=> (needSig => sig[Key(c)] = inst'[c].body)
    BY <1>1, <2>1
  <2> QED  BY <1>3, <2>1, <2>2 DEF Fetches, Goes, Unpacks, SameBody, Signed, Going
<1> QED  BY <1>2, <1>3 DEF Steps

LEMMA SignedNext ==
    ASSUME OneClient, ShapeInv, SignedInv, [Next]_vars
    PROVE  SignedInv'
<1>1. CASE Elsewhere
  BY <1>1 DEF Elsewhere, SignedInv, Signed, Going, Key, Dep
<1>2. ASSUME NEW c \in Clients, Steps(c) PROVE SignedInv'
  <2>1. Signed(c)'
    BY <1>2, SignedSteps, Assumed DEF SignedInv
  <2> QED  BY <2>1 DEF OneClient, SignedInv
<1> QED  BY <1>1, <1>2, NextIs

LEMMA SignedAlways ==
    ASSUME OneClient
    PROVE  Spec => []SignedInv
<1>1. Init => SignedInv
  BY DEF Init, SignedInv, Signed, Idle, Going
<1>2. ShapeInv /\ SignedInv /\ [Next]_vars => SignedInv'
  BY SignedNext
<1> QED  BY <1>1, <1>2, ShapeAlways, PTL DEF Spec

\* fetchPackage, when its temporary file is nobody else's: where signatures are
\* required, what is unpacked is what was signed.
THEOREM SignedOnly ==
    ASSUME OneClient
    PROVE  Spec => []OnlySigned
<1>1. SignedInv => OnlySigned
  BY DEF SignedInv, Signed, OnlySigned, Going
<1> QED  BY <1>1, SignedAlways, PTL
(***************************************************************************)
(* One client and one publisher at a time.                                 *)
(***************************************************************************)
LEMMA HashSteps ==
    ASSUME ShapeInv, LoneInv, NEW c \in Clients, Signed(c), HashOf(c), Steps(c)
    PROVE  HashOf(c)'
<1>1. CASE Leaves(c)
  BY <1>1 DEF Leaves, HashOf
<1>2. CASE Chooses(c)
  <2>1. index[Dep(c)].dist[inst'[c].v] \in Contents
    BY <1>2 DEF Chooses, LoneInv, Hashed, VersionsOf
  <2> QED  BY <1>2, <2>1 DEF Chooses, HashOf, Fetching
<1>3. CASE Fetches(c)
  <2>1. None \notin Contents
    BY Assumed
  <2> QED  BY <1>3, <2>1 DEF Fetches, Goes, Unpacks, SameBody, Signed, HashOf, Going, Fetching
<1> QED  BY <1>1, <1>2, <1>3 DEF Steps

LEMMA HashNext ==
    ASSUME OneClient, ShapeInv, LoneInv, SignedInv, HashInv, [Next]_vars
    PROVE  HashInv'
<1>1. CASE Elsewhere
  BY <1>1 DEF Elsewhere, HashInv, HashOf
<1>2. ASSUME NEW c \in Clients, Steps(c) PROVE HashInv'
  <2>1. HashOf(c)'
    BY <1>2, HashSteps DEF SignedInv, HashInv
  <2> QED  BY <2>1 DEF OneClient, HashInv
<1> QED  BY <1>1, <1>2, NextIs

LEMMA EmptyOf ==
    ASSUME NEW t
    PROVE  All(<<>>, t) /\ DOMAIN <<>> = {}
BY DEF All

LEMMA WithOf ==
    ASSUME NEW f, NEW x, NEW t, All(f, t)
    PROVE  /\ All(With(f, x, t), t)
           /\ DOMAIN With(f, x, t) = {x} \cup DOMAIN f
           /\ x \in DOMAIN f => With(f, x, t) = f
           /\ With(f, x, t) # <<>>
<1>0. f = [y \in DOMAIN f |-> t]
  BY DEF All
<1>1. With(f, x, t) = [z \in {x} \cup DOMAIN f |-> IF z = x THEN t ELSE f[z]]
  BY DEF With
<1>2. With(f, x, t) = [z \in {x} \cup DOMAIN f |-> t]
  <2>1. \A z \in {x} \cup DOMAIN f : (IF z = x THEN t ELSE f[z]) = t
    BY <1>0
  <2> QED  BY <1>1, <2>1
<1>3. x \in DOMAIN f => With(f, x, t) = f
  <2> SUFFICES ASSUME x \in DOMAIN f PROVE With(f, x, t) = f
    OBVIOUS
  <2>1. {x} \cup DOMAIN f = DOMAIN f
    OBVIOUS
  <2> QED  BY <1>0, <1>2, <2>1
<1>4. With(f, x, t) # <<>>
  BY <1>2, EmptyOf
<1> QED  BY <1>2, <1>3, <1>4 DEF All

LEMMA CompleteIs ==
    ASSUME NEW k \in Packs, NEW t \in Contents, Complete(k, t)
    PROVE  Of(k, t) /\ cache[k] # <<>> /\ Installed(k) /\ DOMAIN cache[k] = ToSet(Parts(t))
<1>1. DOMAIN cache[k] = ToSet(Parts(t)) /\ "manifest" \in ToSet(Parts(t))
  BY Assumed DEF Complete
<1>2. cache[k] # <<>>
  BY <1>1, EmptyOf
<1> QED  BY <1>1, <1>2 DEF Complete, Of, All, Installed

LEMMA OfIsComplete ==
    ASSUME NEW k \in Packs, NEW t \in Contents, Of(k, t), DOMAIN cache[k] = ToSet(Parts(t))
    PROVE  Complete(k, t)
BY DEF Of, All, Complete

LEMMA RestIs ==
    ASSUME NEW s \in Seq(AllParts)
    PROVE  /\ s = <<>> => ToSet(s) = {}
           /\ s # <<>> => ToSet(s) = {Head(s)} \cup ToSet(Tail(s))
<1>1. s = <<>> => ToSet(s) = {}
  BY DEF ToSet
<1>2. ASSUME s # <<>> PROVE ToSet(s) = {Head(s)} \cup ToSet(Tail(s))
  <2>1. /\ Len(s) \in Nat /\ Len(s) >= 1 /\ Tail(s) \in Seq(AllParts) /\ Len(Tail(s)) = Len(s) - 1
        /\ Head(s) = s[1] /\ \A i \in 1 .. Len(Tail(s)) : Tail(s)[i] = s[i + 1]
    BY <1>2, TailFacts, LenProperties, EmptySeq
  <2>2. ToSet(s) = {s[i] : i \in 1 .. Len(s)} /\ ToSet(Tail(s)) = {Tail(s)[i] : i \in 1 .. Len(Tail(s))}
    BY <2>1, ToSetIs
  <2>3. ASSUME NEW i \in 1 .. Len(s), i # 1 PROVE i - 1 \in 1 .. Len(Tail(s)) /\ s[i] = Tail(s)[i - 1]
    <3>1. i - 1 \in 1 .. Len(Tail(s)) /\ (i - 1) + 1 = i
      BY <2>1, <2>3
    <3> QED  BY <2>1, <3>1
  <2>4. \A i \in 1 .. Len(Tail(s)) : i + 1 \in 1 .. Len(s) /\ Tail(s)[i] = s[i + 1]
    BY <2>1
  <2>5. ToSet(s) \subseteq {Head(s)} \cup ToSet(Tail(s))
    <3>1. \A i \in 1 .. Len(s) : i # 1 => s[i] \in ToSet(Tail(s))
      BY <2>2, <2>3
    <3>2. \A i \in 1 .. Len(s) : i = 1 => s[i] = Head(s)
      BY <2>1
    <3> QED  BY <2>2, <3>1, <3>2
  <2>6. {Head(s)} \cup ToSet(Tail(s)) \subseteq ToSet(s)
    <3>1. 1 \in 1 .. Len(s) /\ Head(s) = s[1]
      BY <2>1
    <3> QED  BY <2>2, <2>4, <3>1
  <2> QED  BY <2>5, <2>6
<1> QED  BY <1>1, <1>2

LEMMA CacheSteps ==
    ASSUME OneClient, ShapeInv, NEW c \in Clients, Signed(c), HashOf(c), CacheInv, Steps(c)
    PROVE  CacheInv'
<1> SUFFICES ASSUME Without({"crash"})' PROVE (\A k \in Packs : Kept(k)') /\ (\A d \in Clients : Unpacking(d)')
  BY DEF CacheInv
<1>0. Without({"crash"})
  BY DEF Steps, Without
<1>1. (\A k \in Packs : Kept(k)) /\ Unpacking(c)
  BY <1>0 DEF CacheInv
<1>2. \A d \in Clients : d = c
  BY DEF OneClient
<1>s. ASSUME cache' = cache, Unpacking(c)',
             Going(c, "extract") => Whole(Key(c)) \/ (inst'[c].at = "extract" /\ Key(c)' = Key(c))
      PROVE  (\A k \in Packs : Kept(k)') /\ (\A d \in Clients : Unpacking(d)')
  <2>1. \A k \in Packs : Whole(k) => Whole(k)'
    BY <1>s DEF Whole, Complete
  <2>2. ASSUME NEW k \in Packs PROVE Kept(k)'
    <3>1. CASE Whole(k)
      BY <2>1, <3>1 DEF Kept
    <3>2. CASE Going(c, "extract") /\ Key(c) = k
      BY <1>s, <2>1, <3>2 DEF Kept, Going
    <3> QED  BY <1>1, <1>2, <3>1, <3>2 DEF Kept
  <2> QED  BY <1>2, <1>s, <2>2
<1>3. CASE Leaves(c)
  <2>1. Unpacking(c)'
    BY <1>3 DEF Leaves, Unpacking, Going, Fetching
  <2>2. ASSUME Going(c, "extract") PROVE Whole(Key(c))
    <3>1. inst[c].rest = <<>> /\ inst[c] \in Busy /\ Key(c) \in Packs
      BY <1>3, <2>2, KeyIs DEF Leaves, Fetching, Going
    <3>2. ToSet(inst[c].rest) = {}
      BY <3>1, RestIs DEF Busy
    <3>3. inst[c].body \in Contents
      BY <2>2 DEF HashOf, Going, Fetching
    <3>4. Complete(Key(c), inst[c].body)
      BY <1>1, <2>2, <3>1, <3>2, <3>3, OfIsComplete DEF Unpacking
    <3> QED  BY <3>3, <3>4 DEF Whole
  <2> QED  BY <1>3, <1>s, <2>1, <2>2 DEF Leaves
<1>4. CASE Chooses(c)
  BY <1>4, <1>s DEF Chooses, Unpacking, Going, Fetching
<1>5. CASE Unpacks(c)
  <2> DEFINE k == Key(c)
             t == inst[c].body
             x == Head(inst[c].rest)
  <2>1. /\ Going(c, "extract") /\ inst'[c].at = "extract" /\ k \in Packs /\ Key(c)' = k /\ inst'[c].body = t
        /\ cache'[k] = With(cache[k], x, t) /\ \A j \in Packs \ {k} : cache'[j] = cache[j]
        /\ ToSet(inst[c].rest) = {x} \cup ToSet(inst'[c].rest)
    BY <1>5, RestIs DEF Unpacks, Goes, SameBody
  <2>2. Of(k, t) /\ DOMAIN cache[k] \cup ToSet(inst[c].rest) = ToSet(Parts(t))
    BY <1>1, <2>1 DEF Unpacking
  <2> HIDE DEF k, t, x
  <2>3. All(cache'[k], t) /\ DOMAIN cache'[k] = {x} \cup DOMAIN cache[k]
    <3>1. All(cache[k], t)
      BY <2>2 DEF Of
    <3>2. All(With(cache[k], x, t), t) /\ DOMAIN With(cache[k], x, t) = {x} \cup DOMAIN cache[k]
      BY <3>1, WithOf, Zenon
    <3> QED  BY <2>1, <3>2, Zenon
  <2>4. Unpacking(c)'
    <3>1. Of(Key(c), inst[c].body)'
      BY <2>1, <2>3 DEF Of
    <3>2. DOMAIN cache'[Key(c)'] \cup ToSet(inst'[c].rest) = ToSet(Parts(inst'[c].body))
      BY <2>1, <2>2, <2>3
    <3> QED  BY <2>1, <3>1, <3>2 DEF Unpacking
  <2>5. ASSUME NEW j \in Packs PROVE Kept(j)'
    <3>1. CASE j = k
      BY <2>1, <3>1 DEF Kept, Going
    <3>2. CASE j # k
      <4>1. Whole(j) /\ cache'[j] = cache[j]
        BY <1>1, <1>2, <2>1, <3>2 DEF Kept, k
      <4> QED  BY <4>1 DEF Kept, Whole, Complete
    <3> QED  BY <3>1, <3>2
  <2> QED  BY <1>2, <2>4, <2>5
<1>6. CASE Fetches(c) /\ ~Unpacks(c)
  <2>1. cache' = cache /\ Key(c)' = Key(c) /\ Key(c) \in Packs /\ inst[c].at \in Fetching \ {"extract"}
    BY <1>6 DEF Fetches, Goes, Going, Fetching
  <2>2. cache[Key(c)] = <<>>
    <3>1. CASE inst[c].at = "cached"
      <4>1. ~Installed(Key(c))
        BY <1>6, <3>1 DEF Fetches, Goes, Going
      <4>2. Whole(Key(c))
        BY <1>1, <1>2, <2>1 DEF Kept, Going
      <4> QED  BY <2>1, <4>1, <4>2, CompleteIs DEF Whole
    <3>2. CASE inst[c].at # "cached"
      BY <1>1, <2>1, <3>2 DEF Unpacking
    <3> QED  BY <3>1, <3>2
  <2>3. CASE inst'[c].at # "extract"
    <3>1. Unpacking(c)'
      BY <2>1, <2>2, <2>3 DEF Unpacking, Going
    <3> QED  BY <1>s, <2>1, <3>1 DEF Going
  <2>4. CASE inst'[c].at = "extract"
    <3>1. Going(c, "read") /\ inst'[c].body = tmp[Key(c)] /\ (tmp[Key(c)] \in Contents => inst'[c].rest = Parts(tmp[Key(c)]))
      BY <1>6, <2>4 DEF Fetches, Goes, Going
    <3>2. tmp[Key(c)] \in Contents
      BY <3>1 DEF Signed, HashOf, Going, Fetching
    <3>3. Of(Key(c), inst[c].body)' /\ DOMAIN cache'[Key(c)] = {}
      BY <2>1, <2>2, EmptyOf DEF Of
    <3>4. Unpacking(c)'
      BY <2>1, <2>4, <3>1, <3>2, <3>3 DEF Unpacking
    <3> QED  BY <1>s, <2>1, <3>4 DEF Going
  <2> QED  BY <2>3, <2>4
<1> QED  BY <1>3, <1>4, <1>5, <1>6 DEF Steps

LEMMA CacheNext ==
    ASSUME OneClient, ShapeInv, SignedInv, HashInv, CacheInv, [Next]_vars
    PROVE  CacheInv'
<1>1. CASE Elsewhere
  <2>1. Without({"crash"})' => Without({"crash"})
    BY <1>1 DEF Elsewhere, Without
  <2>2. \A k \in Packs : Kept(k) => Kept(k)'
    BY <1>1 DEF Elsewhere, Kept, Whole, Complete, Going, Key, Dep
  <2>3. \A c \in Clients : Unpacking(c) => Unpacking(c)'
    BY <1>1 DEF Elsewhere, Unpacking, Of, Going, Key, Dep
  <2> QED  BY <2>1, <2>2, <2>3 DEF CacheInv
<1>2. ASSUME NEW c \in Clients, Steps(c) PROVE CacheInv'
  BY <1>2, CacheSteps DEF SignedInv, HashInv
<1> QED  BY <1>1, <1>2, NextIs

\* What is installed stays so.
LEMMA InstalledStays ==
    ASSUME NEW c \in Clients, Steps(c), NEW k \in Packs, Installed(k)
    PROVE  Installed(k)'
<1>1. CASE cache' = cache
  BY <1>1 DEF Installed
<1>2. CASE Unpacks(c)
  <2>1. k # Key(c) => cache'[k] = cache[k]
    BY <1>2 DEF Unpacks
  <2>2. k = Key(c) => DOMAIN cache[k] \subseteq DOMAIN cache'[k]
    BY <1>2 DEF Unpacks, With
  <2> QED  BY <2>1, <2>2 DEF Installed
<1> QED  BY <1>1, <1>2 DEF Steps, Leaves, Chooses, Fetches

LEMMA FoundSteps ==
    ASSUME OneClient, ShapeInv, NEW c \in Clients, HashOf(c), CacheInv, FoundInv, Steps(c)
    PROVE  FoundInv'
<1> SUFFICES ASSUME Without({"crash", "lockfile", "edit"})', NEW e \in EntriesOf(c)' PROVE EntryFound(c, e)'
  BY DEF OneClient, FoundInv
<1>1. Without({"crash", "lockfile", "edit"}) /\ Without({"crash"}) /\ manifest' = manifest
  BY DEF Steps, Without
<1>2. \A x \in EntriesOf(c) : EntryFound(c, x)
  BY <1>1 DEF FoundInv
<1>3. EntryFound(c, e) => EntryFound(c, e)'
  BY <1>1, InstalledStays DEF EntryFound
<1>4. ASSUME Going(c, "extract"), inst[c].rest = <<>> PROVE Installed(Key(c)) /\ Key(c) \in Packs
  <2>1. Key(c) \in Packs /\ inst[c] \in Busy
    BY <1>4, KeyIs DEF Going, Fetching
  <2>2. ToSet(inst[c].rest) = {} /\ inst[c].body \in Contents
    BY <1>4, <2>1, RestIs DEF HashOf, Going, Fetching, Busy
  <2>3. Complete(Key(c), inst[c].body)
    BY <1>1, <1>4, <2>1, <2>2, OfIsComplete DEF CacheInv, Unpacking
  <2> QED  BY <2>1, <2>2, <2>3, CompleteIs
<1>5. e \notin EntriesOf(c) => EntryFound(c, e)
  BY <1>4 DEF Steps, Enters, EntryFound
<1> QED  BY <1>2, <1>3, <1>5

LEMMA FoundNext ==
    ASSUME OneClient, ShapeInv, HashInv, CacheInv, FoundInv, [Next]_vars
    PROVE  FoundInv'
<1>1. CASE Elsewhere
  <2>1. Without({"crash", "lockfile", "edit"})' => Without({"crash", "lockfile", "edit"})
    BY <1>1 DEF Elsewhere, Without
  <2> QED  BY <1>1, <2>1 DEF Elsewhere, FoundInv, EntriesOf, EntryFound, Installed, Going
<1>2. ASSUME NEW c \in Clients, Steps(c) PROVE FoundInv'
  BY <1>2, FoundSteps DEF HashInv
<1> QED  BY <1>1, <1>2, NextIs

LEMMA ThereIs ==
    ASSUME ShapeInv, LoneInv, TrueInv, Without({"republish", "crash"}),
           NEW n \in NameSet, NEW v \in Versions, v \in VersionsOf(n)
    PROVE  index[n].dist[v] = tar[<<n, v>>] /\ tar[<<n, v>>] \in Contents
<1>0. Without({"crash"}) /\ NoVer \notin Versions
  BY Assumed DEF Without
<1>1. index[n].dist[v] \in Contents
  BY DEF LoneInv, Hashed, VersionsOf
<1>2. CASE ~Publishing(n)
  BY <1>0, <1>1, <1>2 DEF LoneInv, Tells, VersionsOf
<1>3. ASSUME NEW p \in Publishers, pub[p].at \in {"tar", "index"}, pub[p].k[1] = n
      PROVE  index[n].dist[v] = tar[<<n, v>>]
  <2>1. v # pub[p].k[2]
    BY <1>3 DEF TrueInv, FirstTime
  <2>2. Tells(index[n], n, pub[p].k[2])
    BY <1>0, <1>3 DEF LoneInv, PublishInv
  <2> QED  BY <2>1, <2>2 DEF Tells, VersionsOf
<1>4. ASSUME NEW p \in Publishers, pub[p].at = "write", pub[p].k[1] = n
      PROVE  FALSE
  BY <1>4 DEF TrueInv, FirstTime
<1>5. \A p \in Publishers : pub[p].at \in {"idle", "tar", "index", "write"}
  BY PubIs DEF ShapeInv
<1> QED  BY <1>1, <1>2, <1>3, <1>4, <1>5 DEF Publishing, At

LEMMA TruePublish ==
    ASSUME OnePublisher, ShapeInv, LoneInv, HashInv, TrueInv, NEW p \in Publishers, Elsewhere,
           Publish(p) \/ CrashPublish(p) \/ \E k \in Packs, c \in Contents : StartPublish(p, k, c)
    PROVE  TrueInv'
<1> SUFFICES ASSUME Without({"republish", "crash"})' PROVE TrueInv'
  BY DEF TrueInv
<1>0. Shapes /\ Without({"republish", "crash"})
  BY DEF ShapeInv, Elsewhere, Without
<1>1. /\ FirstTime(p) /\ \A k \in Packs : ThereOf(k)
      /\ \A c \in Clients : inst[c].at \in Fetching => inst[c].sha = tar[Key(c)]
      /\ Without({"lockfile"}) => \A c \in Clients : \A e \in EntriesOf(c) : EntryTrue(e)
  BY <1>0 DEF TrueInv
<1>2. None \notin Contents /\ Bad \notin Contents
  BY Assumed
\* It is enough that no content is touched.
<1>3. ASSUME \A k \in Packs : tar[k] \in Contents => tar'[k] = tar[k], FirstTime(p)' PROVE TrueInv'
  <2>1. \A q \in Publishers : FirstTime(q)'
    BY <1>3 DEF OnePublisher
  <2>2. ASSUME NEW c \in Clients, inst'[c].at \in Fetching PROVE inst'[c].sha = (tar[Key(c)])'
    <3>1. inst' = inst /\ Key(c)' = Key(c)
      BY DEF Elsewhere, Key, Dep
    <3>2. Key(c) \in Packs /\ inst[c].sha \in Contents /\ inst[c].sha = tar[Key(c)]
      BY <1>1, <2>2, <3>1, KeyIs DEF HashInv, HashOf
    <3> QED  BY <1>3, <3>1, <3>2
  <2>3. \A k \in Packs : ThereOf(k)'
    BY <1>1, <1>3 DEF Elsewhere, ThereOf, Of
  <2>4. \A e : EntryTrue(e) => EntryTrue(e)'
    BY <1>3 DEF Elsewhere, EntryTrue, Complete
  <2>5. Without({"lockfile"})' => Without({"lockfile"})
    BY DEF Elsewhere, Without
  <2>6. \A c \in Clients : EntriesOf(c)' = EntriesOf(c)
    BY DEF Elsewhere, EntriesOf, Going
  <2>7. Without({"lockfile"})' => \A c \in Clients : \A e \in EntriesOf(c)' : EntryTrue(e)'
    BY <1>1, <2>4, <2>5, <2>6
  <2> QED  BY <2>1, <2>2, <2>3, <2>7 DEF TrueInv
<1>4. ASSUME NEW k \in Packs, NEW c \in Contents, StartPublish(p, k, c) PROVE TrueInv'
  <2>1. /\ pub'[p] = [at |-> "tar", k |-> k, c |-> c] /\ \A j \in Packs \ {k} : tar'[j] = tar[j]
        /\ index' = index /\ (tar[k] \in Contents => ~Without({"republish"})')
    BY <1>0, <1>4, StartPubDoes
  <2>2. tar[k] \notin Contents
    BY <2>1 DEF Without
  <2>3. k[1] \in NameSet /\ k[2] \in Versions /\ k = <<k[1], k[2]>>
    BY DEF Packs, NameSet
  <2>4. k[2] \notin VersionsOf(k[1])
    BY <1>0, <2>2, <2>3, ThereIs
  <2>5. pub'[p].at = "tar" /\ pub'[p].k = k
    BY <2>1
  <2>6. FirstTime(p)'
    BY <2>1, <2>4, <2>5 DEF FirstTime, VersionsOf
  <2> QED  BY <1>3, <2>1, <2>2, <2>6
<1>5. CASE WriteTar(p)
  <2>1. /\ pub[p].at = "tar" /\ pub'[p].at = "index" /\ pub'[p].k = pub[p].k
        /\ index' = index /\ \A j \in Packs \ {pub[p].k} : tar'[j] = tar[j]
    BY <1>0, <1>5, WriteTarDoes
  <2>2. tar[pub[p].k] \notin Contents
    BY <1>2, <2>1 DEF LoneInv, PublishInv
  <2>3. FirstTime(p)'
    BY <1>1, <2>1 DEF FirstTime, VersionsOf
  <2> QED  BY <1>3, <2>1, <2>2, <2>3
<1>6. CASE ReadIndex(p)
  <2>1. /\ pub[p].at = "index" /\ pub'[p].at = "write" /\ pub'[p].k = pub[p].k /\ tar' = tar
        /\ index' = [index EXCEPT ![pub[p].k[1]] = NoIndex]
    <3> DEFINE k == pub[p].k
               new == Merged(index[k[1]], k[2], tar[k])
    <3>1. /\ pub[p].at = "index" /\ pub'[p] = [at |-> "write", k |-> k, new |-> new] /\ tar' = tar
          /\ index' = [index EXCEPT ![k[1]] = NoIndex]
      BY <1>0, <1>6, ReadIndexDoes
    <3> HIDE DEF new
    <3> QED  BY <3>1
  <2>2. pub[p].k[1] \in DOMAIN index
    BY <1>0, <2>1, PubIs DEF Shapes
  <2>3. VersionsOf(pub[p].k[1])' = {}
    BY <2>1, <2>2, NoIndexIs DEF VersionsOf
  <2>4. FirstTime(p)'
    BY <2>1, <2>3 DEF FirstTime
  <2> QED  BY <1>3, <2>1, <2>4
<1>7. CASE WriteIndex(p)
  <2>1. pub'[p].at = "idle" /\ tar' = tar
    BY <1>0, <1>7, WriteIndexDoes
  <2> QED  BY <1>3, <2>1 DEF FirstTime
<1>8. CASE CrashPublish(p)
  BY <1>0, <1>8, CrashPubDoes DEF Without
<1> QED  BY <1>4, <1>5, <1>6, <1>7, <1>8 DEF Publish

LEMMA TrueSteps ==
    ASSUME OneClient, ShapeInv, LoneInv, NEW c \in Clients, Signed(c), HashOf(c), CacheInv, TrueInv, Steps(c)
    PROVE  TrueInv'
<1> SUFFICES ASSUME Without({"republish", "crash"})' PROVE TrueInv'
  BY DEF TrueInv
<1>0. /\ Shapes /\ Without({"republish", "crash"}) /\ Without({"crash"})
      /\ Without({"lockfile"})' => Without({"lockfile"})
  BY DEF ShapeInv, Steps, Without
<1>1. /\ \A p \in Publishers : FirstTime(p)
      /\ \A k \in Packs : ThereOf(k)
      /\ inst[c].at \in Fetching => inst[c].sha = tar[Key(c)]
      /\ Without({"lockfile"}) => \A e \in EntriesOf(c) : EntryTrue(e)
      /\ Kept(Key(c)) \/ Key(c) \notin Packs
      /\ Unpacking(c)
  BY <1>0 DEF TrueInv, CacheInv
<1>2. \A d \in Clients : d = c
  BY DEF OneClient
<1>3. UNCHANGED <<index, tar, pub>>
  BY DEF Steps, registry
<1>4. \A p \in Publishers : FirstTime(p)'
  BY <1>1, <1>3 DEF FirstTime, VersionsOf
<1>5. ASSUME inst'[c].at \in Fetching PROVE inst'[c].sha = (tar[Key(c)])'
  <2>1. CASE Leaves(c)
    BY <1>5, <2>1 DEF Leaves
  <2>2. CASE Chooses(c)
    <3>1. Key(c)' = <<Dep(c), inst'[c].v>>
      BY <2>2 DEF Chooses, Key
    <3> QED  BY <1>0, <1>3, <2>2, <3>1, ThereIs DEF Chooses
  <2>3. CASE Fetches(c)
    <3>1. inst[c].at \in Fetching /\ Key(c)' = Key(c) /\ inst'[c].sha = inst[c].sha
      BY <2>3 DEF Fetches, Unpacks, Goes, Going, Fetching
    <3> QED  BY <1>1, <1>3, <3>1
  <2> QED  BY <2>1, <2>2, <2>3 DEF Steps
\* What is being unpacked is what is there.
<1>6. ASSUME Going(c, "extract")
      PROVE  /\ inst[c].body = tar[Key(c)] /\ tar[Key(c)] \in Contents /\ Key(c) \in Packs
             /\ All(cache[Key(c)], inst[c].body)
             /\ DOMAIN cache[Key(c)] \cup ToSet(inst[c].rest) = ToSet(Parts(inst[c].body))
  BY <1>1, <1>6, KeyIs DEF HashOf, Unpacking, Of, Going, Fetching
<1>7. ASSUME Unpacks(c)
      PROVE  /\ All(cache'[Key(c)], tar[Key(c)])
             /\ Complete(Key(c), tar[Key(c)]) => cache' = cache \/ cache'[Key(c)] = cache[Key(c)]
  <2> DEFINE k == Key(c)
             t == inst[c].body
             x == Head(inst[c].rest)
  <2>1. /\ Going(c, "extract") /\ cache'[k] = With(cache[k], x, t)
        /\ ToSet(inst[c].rest) = {x} \cup ToSet(Tail(inst[c].rest))
    BY <1>7, RestIs DEF Unpacks, Goes
  <2>2. /\ t = tar[k] /\ t \in Contents /\ k \in Packs /\ All(cache[k], t)
        /\ DOMAIN cache[k] \cup ToSet(inst[c].rest) = ToSet(Parts(t))
    BY <1>6, <2>1
  <2> HIDE DEF k, t, x
  <2>3. All(With(cache[k], x, t), t) /\ (x \in DOMAIN cache[k] => With(cache[k], x, t) = cache[k])
    BY <2>2, WithOf, Zenon
  <2>4. All(cache'[k], t)
    BY <2>1, <2>3, Zenon
  <2>5. ASSUME Complete(k, t) PROVE cache'[k] = cache[k]
    <3>1. x \in DOMAIN cache[k]
      BY <2>1, <2>2, <2>5, CompleteIs
    <3> QED  BY <2>1, <2>3, <3>1, Zenon
  <2> QED  BY <2>2, <2>4, <2>5 DEF k
<1>8. ASSUME NEW k \in Packs PROVE ThereOf(k)'
  <2>1. CASE cache' = cache
    BY <1>1, <1>3, <2>1 DEF ThereOf, Of
  <2>2. CASE Unpacks(c)
    <3>1. CASE k = Key(c)
      <4>1. tar[k] \in Contents
        BY <1>6, <2>2, <3>1 DEF Unpacks, Goes
      <4> QED  BY <1>3, <1>7, <2>2, <3>1, <4>1 DEF ThereOf, Of
    <3>2. CASE k # Key(c)
      <4>1. cache'[k] = cache[k]
        BY <2>2, <3>2 DEF Unpacks
      <4> QED  BY <1>1, <1>3, <4>1 DEF ThereOf, Of
    <3> QED  BY <3>1, <3>2
  <2> QED  BY <2>1, <2>2 DEF Steps, Leaves, Chooses, Fetches
<1>9. ASSUME NEW e, EntryTrue(e) PROVE EntryTrue(e)'
  <2> SUFFICES ASSUME <<e.n, e.v>> \in Packs
               PROVE  e.sha \in Contents /\ Complete(<<e.n, e.v>>, e.sha)' /\ e.sha = tar'[<<e.n, e.v>>]
    BY DEF EntryTrue
  <2> DEFINE k == <<e.n, e.v>>
  <2>1. e.sha \in Contents /\ Complete(k, e.sha) /\ e.sha = tar[k] /\ k \in Packs
    BY <1>9 DEF EntryTrue
  <2> HIDE DEF k
  <2>2. cache'[k] = cache[k]
    <3>1. CASE cache' = cache
      BY <3>1
    <3>2. CASE Unpacks(c)
      BY <1>7, <2>1, <3>2 DEF Unpacks
    <3> QED  BY <3>1, <3>2 DEF Steps, Leaves, Chooses, Fetches
  <2>3. Complete(k, e.sha)'
    BY <2>1, <2>2 DEF Complete
  <2> QED  BY <1>3, <2>1, <2>3 DEF k
<1>10. ASSUME Going(c, "cached"), Installed(Key(c)), Key(c) \in Packs
       PROVE  inst[c].sha \in Contents /\ Complete(Key(c), inst[c].sha) /\ inst[c].sha = tar[Key(c)]
  <2>1. inst[c].sha \in Contents /\ inst[c].sha = tar[Key(c)]
    BY <1>1, <1>10 DEF HashOf, Going, Fetching
  <2>2. PICK t \in Contents : Complete(Key(c), t)
    <3>1. Whole(Key(c))
      BY <1>1, <1>2, <1>10 DEF Kept, Going
    <3> QED  BY <1>10, <3>1, EmptyOf DEF Whole, Installed
  <2>3. Of(Key(c), t) /\ cache[Key(c)] # <<>>
    BY <1>10, <2>2, CompleteIs
  <2>4. Of(Key(c), tar[Key(c)])
    BY <1>1, <1>10, <2>3 DEF ThereOf
  <2>5. cache[Key(c)]["manifest"] = t /\ cache[Key(c)]["manifest"] = tar[Key(c)]
    BY <1>10, <2>3, <2>4 DEF Of, All, Installed
  <2> QED  BY <2>1, <2>2, <2>5
<1>11. ASSUME Going(c, "extract"), inst[c].rest = <<>>
       PROVE  inst[c].body \in Contents /\ Complete(Key(c), inst[c].body) /\ inst[c].body = tar[Key(c)]
  <2>1. inst[c] \in Busy
    BY <1>11, KeyIs DEF Going, Fetching
  <2>2. ToSet(inst[c].rest) = {}
    BY <1>11, <2>1, RestIs DEF Busy
  <2> QED  BY <1>6, <1>11, <2>2, OfIsComplete DEF Of
<1>12. ASSUME Without({"lockfile"})', NEW e \in EntriesOf(c)' PROVE EntryTrue(e)
  <2>1. CASE e \in EntriesOf(c)
    BY <1>0, <1>1, <1>12, <2>1
  <2>2. CASE e.v = NoVer
    <3>1. <<e.n, e.v>> \notin Packs
      BY <2>2, Assumed DEF Packs
    <3> QED  BY <3>1 DEF EntryTrue
  <2>3. CASE Going(c, "cached") /\ Installed(Key(c)) /\ Key(c) \in Packs /\ <<e.n, e.v>> = Key(c) /\ e.sha = inst[c].sha
    BY <1>10, <2>3 DEF EntryTrue
  <2>4. CASE Going(c, "extract") /\ inst[c].rest = <<>> /\ <<e.n, e.v>> = Key(c) /\ e.sha = inst[c].body
    BY <1>11, <2>4 DEF EntryTrue
  <2> QED  BY <2>1, <2>2, <2>3, <2>4 DEF Steps, Enters
<1> QED  BY <1>2, <1>4, <1>5, <1>8, <1>9, <1>12 DEF TrueInv

LEMMA TrueNext ==
    ASSUME OneClient, OnePublisher, ShapeInv, LoneInv, SignedInv, HashInv, CacheInv, TrueInv, [Next]_vars
    PROVE  TrueInv'
<1>1. CASE Elsewhere /\ UNCHANGED registry
  <2>1. /\ Without({"republish", "crash"})' => Without({"republish", "crash"})
        /\ Without({"lockfile"})' => Without({"lockfile"})
    BY <1>1 DEF Elsewhere, Without
  <2>2. \A p \in Publishers : FirstTime(p) => FirstTime(p)'
    BY <1>1 DEF registry, FirstTime, VersionsOf
  <2>3. \A k \in Packs : ThereOf(k) => ThereOf(k)'
    BY <1>1 DEF Elsewhere, registry, ThereOf, Of
  <2>4. \A e : EntryTrue(e) => EntryTrue(e)'
    BY <1>1 DEF Elsewhere, registry, EntryTrue, Complete
  <2>5. \A c \in Clients : inst'[c] = inst[c] /\ Key(c)' = Key(c) /\ EntriesOf(c)' = EntriesOf(c)
    BY <1>1 DEF Elsewhere, Key, Dep, EntriesOf, Going
  <2>6. tar' = tar
    BY <1>1 DEF registry
  <2> QED  BY <2>1, <2>2, <2>3, <2>4, <2>5, <2>6 DEF TrueInv
<1>2. ASSUME NEW p \in Publishers, Elsewhere,
             Publish(p) \/ CrashPublish(p) \/ \E k \in Packs, c \in Contents : StartPublish(p, k, c)
      PROVE  TrueInv'
  BY <1>2, TruePublish
<1>3. ASSUME NEW c \in Clients, Steps(c) PROVE TrueInv'
  BY <1>3, TrueSteps DEF SignedInv, HashInv
<1> QED  BY <1>1, <1>2, <1>3, NextIs

LEMMA WholeInit == Init => HashInv /\ CacheInv /\ FoundInv /\ TrueInv
<1> SUFFICES ASSUME Init PROVE HashInv /\ CacheInv /\ FoundInv /\ TrueInv
  OBVIOUS
<1>1. \A c \in Clients : inst[c] = Idle /\ inst[c].at = "idle"
  BY DEF Init, Idle
<1>2. \A k \in Packs : cache[k] = <<>>
  BY DEF Init
<1>3. \A p \in Publishers : pub[p].at = "idle"
  BY DEF Init
<1>4. Without({"lockfile"}) => \A c \in Clients : EntriesOf(c) = {}
  BY <1>1 DEF Init, EntriesOf, Going, Without
<1>5. Without({"crash", "lockfile", "edit"}) => Without({"lockfile"})
  BY DEF Without
<1>6. HashInv
  BY <1>1 DEF HashInv, HashOf, Fetching
<1>7. CacheInv
  BY <1>1, <1>2 DEF CacheInv, Kept, Whole, Unpacking, Going, Fetching
<1>8. FoundInv
  BY <1>4, <1>5 DEF FoundInv
<1>9. TrueInv
  BY <1>1, <1>2, <1>3, <1>4 DEF TrueInv, FirstTime, ThereOf, Fetching
<1> QED  BY <1>6, <1>7, <1>8, <1>9

LEMMA WholeAlways ==
    ASSUME OneClient, OnePublisher
    PROVE  Spec => [](HashInv /\ CacheInv /\ FoundInv /\ TrueInv)
<1> DEFINE W == HashInv /\ CacheInv /\ FoundInv /\ TrueInv
<1>1. ShapeInv /\ LoneInv /\ SignedInv /\ W /\ [Next]_vars => W'
  BY HashNext, CacheNext, FoundNext, TrueNext
<1>2. Init => W
  BY WholeInit
<1> HIDE DEF W
<1>3. Spec => []W
  BY <1>1, <1>2, ShapeAlways, LoneAlways, SignedAlways, PTL DEF Spec
<1> QED  BY <1>3 DEF W

\* resolveDependencies, one install and one publish at a time: after an install
\* that ended well a build finds every dependency, with all the files of one
\* tarball, and nothing spoilt on its way is unpacked.
THEOREM BuildsAreWhole ==
    ASSUME OneClient, OnePublisher
    PROVE  Spec => []BuildsWhole
<1> DEFINE W == HashInv /\ CacheInv /\ FoundInv /\ TrueInv
<1>1. ASSUME ShapeInv, HashInv PROVE NothingSpoilt
  BY <1>1, Assumed DEF HashInv, HashOf, NothingSpoilt, Going, Fetching
<1>2. ASSUME ShapeInv, LockCovers, CacheInv, FoundInv PROVE InstallBuilds
  <2> SUFFICES ASSUME Without({"crash", "lockfile", "edit"}), NEW c \in Clients, Done(c), NEW n \in ToSet(Names)
               PROVE  /\ Found(c, n) \/ manifest[c][n] = GitDep
                      /\ \A k \in Dirs(c, n) : Installed(k) => \E t \in Contents : Complete(k, t)
    BY DEF InstallBuilds, InstallThenBuild
  <2>1. Without({"crash"})
    BY DEF Without
  <2>2. \A k \in Packs : Installed(k) => \E t \in Contents : Complete(k, t)
    <3>1. \A d \in Clients : ~Going(d, "extract")
      BY DEF OneClient, Done, Going
    <3>2. \A k \in Packs : Whole(k)
      BY <1>2, <2>1, <3>1 DEF CacheInv, Kept
    <3> QED  BY <3>2, EmptyOf DEF Whole, Installed
  <2>3. Dirs(c, n) \subseteq Packs
    BY DEF Dirs
  <2>4. CASE manifest[c][n] = NoDep
    BY <2>2, <2>3, <2>4 DEF Found
  <2>5. CASE manifest[c][n] # NoDep
    <3>1. PICK e \in lock[c] : e.n = n
      BY <1>2, <2>5 DEF LockCovers, Wanted
    <3>2. EntryFound(c, e)
      BY <1>2, <3>1 DEF FoundInv, EntriesOf
    <3>3. <<n, e.v>> \in Packs => <<n, e.v>> \in Dirs(c, n)
      BY <3>1 DEF Dirs, LockedFor
    <3>4. Found(c, n) \/ manifest[c][n] = GitDep
      BY <3>1, <3>2, <3>3 DEF EntryFound, Found
    <3> QED  BY <2>2, <2>3, <3>4
  <2> QED  BY <2>4, <2>5
<1>3. ShapeInv /\ PackagesTypeOK /\ LockCovers /\ W => BuildsWhole
  BY <1>1, <1>2 DEF BuildsWhole
<1> HIDE DEF W
<1>4. Spec => []W
  BY WholeAlways DEF W
<1> QED  BY <1>3, <1>4, ShapeAlways, PackagesTypes, LocksCover, PTL

(***************************************************************************)
(* Clones: without a failed checkout none holds another commit.            *)
(***************************************************************************)
CloneInv == Without({"checkout"}) => \A n \in NameSet : git[n] # "other"
EntryCommit(c, e) == manifest[c][e.n] = GitDep => e.sha = "asked"
CommitInv == Without({"edit", "checkout", "lockfile"}) => \A c \in Clients : \A e \in EntriesOf(c) : EntryCommit(c, e)

LEMMA CloneNext ==
    ASSUME ShapeInv, CloneInv, [Next]_vars
    PROVE  CloneInv'
<1>0. Shapes
  BY DEF ShapeInv
<1> SUFFICES ASSUME Without({"checkout"})', NEW n \in NameSet PROVE git'[n] # "other"
  BY DEF CloneInv
<1>k. ASSUME struck \subseteq struck', git' = git \/ \E c \in Clients, x \in {"asked", "half"} : git' = [git EXCEPT ![Dep(c)] = x]
      PROVE  git'[n] # "other"
  <2>1. git[n] # "other"
    BY <1>k DEF CloneInv, Without
  <2>2. git \in Gits
    BY <1>0 DEF Shapes
  <2> QED  BY <1>k, <2>1, <2>2 DEF Gits
<1>1. CASE UNCHANGED vars
  BY <1>1, <1>k DEF vars
<1>2. ASSUME NEW p \in Publishers,
             Publish(p) \/ CrashPublish(p) \/ \E k \in Packs, c \in Contents : StartPublish(p, k, c)
      PROVE  git'[n] # "other"
  BY <1>2, <1>k DEF Publish, CrashPublish, StartPublish, WriteTar, ReadIndex, WriteIndex, others, Strike
<1>3. ASSUME NEW c \in Clients, GetGit(c) PROVE git'[n] # "other"
  BY <1>3, <1>k DEF GetGit, Clone
<1>4. ASSUME NEW c \in Clients, LoseGet(c) \/ FailCheckout(c) \/ CrashInstall(c) PROVE git'[n] # "other"
  BY <1>0, <1>4, <1>k, FailDoes
<1>5. ASSUME NEW c \in Clients,
             \/ NextDep(c) \/ GetIndex(c) \/ CheckCache(c) \/ GetTar(c) \/ GetSig(c) \/ OpenTmp(c) \/ WriteTmp(c)
             \/ ReadTmp(c) \/ ExtractFile(c) \/ RemoveTmp(c) \/ OpenLock(c) \/ WriteLock(c)
             \/ \E f \in BOOLEAN : StartInstall(c, f)
             \/ SpoilTar(c) \/ LoseSig(c) \/ \E m \in Manifests : EditManifest(c, m)
      PROVE  git'[n] # "other"
  <2>1. git' = git /\ struck \subseteq struck'
    BY <1>5 DEF NextDep, GetIndex, CheckCache, GetTar, GetSig, OpenTmp, WriteTmp, ReadTmp, ExtractFile, RemoveTmp,
                OpenLock, WriteLock, StartInstall, SpoilTar, LoseSig, EditManifest, Strike
  <2> QED  BY <1>k, <2>1
<1> QED  BY <1>1, <1>2, <1>3, <1>4, <1>5 DEF Next, Install

LEMMA CommitNext ==
    ASSUME ShapeInv, CloneInv, CommitInv, [Next]_vars
    PROVE  CommitInv'
<1> SUFFICES ASSUME Without({"edit", "checkout", "lockfile"})', NEW d \in Clients, NEW e \in EntriesOf(d)'
             PROVE  EntryCommit(d, e)'
  BY DEF CommitInv
<1>1. ASSUME struck \subseteq struck', manifest' = manifest
      PROVE  /\ \A x \in EntriesOf(d) : EntryCommit(d, x)
             /\ EntryCommit(d, e) => EntryCommit(d, e)'
             /\ \A n \in NameSet : git[n] # "other"
  BY <1>1 DEF CommitInv, CloneInv, EntryCommit, Without
<1>2. CASE Elsewhere
  <2>1. EntriesOf(d)' = EntriesOf(d)
    BY <1>2 DEF Elsewhere, EntriesOf, Going
  <2> QED  BY <1>1, <1>2, <2>1 DEF Elsewhere
<1>3. ASSUME NEW c \in Clients, Steps(c) PROVE EntryCommit(d, e)'
  <2>1. struck \subseteq struck' /\ manifest' = manifest
    BY <1>3 DEF Steps, Without
  <2>2. CASE e \in EntriesOf(d)
    BY <1>1, <2>1, <2>2
  <2>3. CASE d # c
    <3>1. EntriesOf(d)' = EntriesOf(d)
      BY <1>3, <2>3 DEF Steps, Others, EntriesOf, Going
    <3> QED  BY <1>1, <2>1, <3>1
  <2>4. CASE d = c /\ e \notin EntriesOf(d)
    <3>1. e \in Entries
      <4>1. Shapes'
        BY ShapeNext DEF ShapeInv
      <4>2. CASE e \in lock'[d]
        BY <4>1, <4>2 DEF Shapes
      <4>3. CASE inst'[d].at # "idle" /\ e \in inst'[d].new
        <5>1. inst'[d] \in Busy
          BY <4>1, <4>3 DEF Shapes, Stopped
        <5> QED  BY <4>3, <5>1 DEF Busy
      <4> QED  BY <4>2, <4>3 DEF EntriesOf, Going
    <3>2. e.n \in NameSet
      BY <3>1 DEF Entries
    <3>3. ASSUME inst[c].at \in Fetching, <<e.n, e.v>> = Key(c) PROVE EntryCommit(c, e)
      <4>1. MatchesRange(inst[c].v, manifest[c][e.n])
        BY <3>3, KeyIs DEF Key
      <4>2. ~MatchesRange(inst[c].v, GitDep)
        BY DEF MatchesRange, GitDep, VRange
      <4> QED  BY <4>1, <4>2 DEF EntryCommit
    <3>4. EntryCommit(c, e)
      <4>1. \/ manifest[c][e.n] = GitDep => e.sha = "asked" \/ git[e.n] = "other"
            \/ inst[c].at \in Fetching /\ <<e.n, e.v>> = Key(c)
        BY <1>3, <2>4 DEF Steps, Enters, Going, Fetching
      <4> QED  BY <1>1, <2>1, <3>2, <3>3, <4>1 DEF EntryCommit
    <3> QED  BY <1>1, <2>1, <2>4, <3>4
  <2> QED  BY <2>2, <2>3, <2>4
<1> QED  BY <1>2, <1>3, NextIs

\* fetchGitPackage: however many commands run, the lockfile of an install that
\* ended well names the commits asked for, unless a checkout once failed.
LEMMA LocksCommit == Spec => []CommitHolds
<1> DEFINE I == CloneInv /\ CommitInv
<1>1. Init => I
  <2> SUFFICES ASSUME Init PROVE I
    OBVIOUS
  <2>1. CloneInv
    BY DEF Init, CloneInv, NameSet
  <2>2. Without({"edit", "checkout", "lockfile"}) => \A c \in Clients : EntriesOf(c) = {}
    BY DEF Init, Without, EntriesOf, Going, Idle
  <2> QED  BY <2>1, <2>2 DEF CommitInv
<1>2. ShapeInv /\ I /\ [Next]_vars => I'
  BY CloneNext, CommitNext
<1>3. I => CommitHolds
  BY DEF CommitInv, EntryCommit, CommitHolds, CommitTrue, EntriesOf
<1> HIDE DEF I
<1> QED  BY <1>1, <1>2, <1>3, ShapeAlways, PTL DEF Spec

\* writeLockfile, one install and one publish at a time: the lockfile is of the
\* manifest, in range, and the hash of a version is of what is in the cache, that
\* of a clone the commit asked for.
THEOREM LockIsExact ==
    ASSUME OneClient, OnePublisher
    PROVE  Spec => []LockExact
<1>1. TrueInv => ShaHolds
  <2> SUFFICES ASSUME TrueInv, Without({"republish", "crash", "lockfile"}), NEW c \in Clients, Done(c),
                      NEW e \in lock[c], <<e.n, e.v>> \in Packs
               PROVE  Complete(<<e.n, e.v>>, e.sha)
    BY DEF ShaHolds, LockShaTrue
  <2>1. Without({"republish", "crash"}) /\ Without({"lockfile"})
    BY DEF Without
  <2>2. EntryTrue(e)
    BY <2>1 DEF TrueInv, EntriesOf
  <2> QED  BY <2>2 DEF EntryTrue
<1>2. LockCovers /\ LockHolds /\ ShaHolds /\ CommitHolds => LockExact
  BY DEF LockExact
<1> QED  BY <1>1, <1>2, WholeAlways, LocksCover, LocksCommit, PTL

=============================================================================
