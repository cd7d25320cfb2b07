------------------------------ MODULE Packages ------------------------------
(***************************************************************************)
(* The package manager (loader/pkgfetch.cpp and its commands in main.cpp): *)
(* publish into a registry, install with a lockfile into a cache that all  *)
(* projects of a user share, and the search for dependencies of a build.   *)
(* Registry and cache are directories: every file is written in two steps, *)
(* and a command may meet what another one, or a crash, left behind.  A    *)
(* content stands for a tarball and for its hash.  Of the program git only *)
(* what a clone leaves in the cache is modelled, in one step.              *)
(***************************************************************************)
EXTENDS Integers, SequencesExt, FiniteSets, TLC

(***************************************************************************)
(* Versions and ranges.  A version is a record; its pre-release is a       *)
(* sequence of identifiers, a pair each: <<0, n>> for digits only, <<1, k>>*)
(* for the k-th word in the order of the characters.  Build metadata is    *)
(* never compared: left out.                                               *)
(***************************************************************************)
Ver(a, b, c, pre) == [major |-> a, minor |-> b, patch |-> c, pre |-> pre]
NoVer == [major |-> -1, minor |-> 0, patch |-> 0, pre |-> <<>>]      \* parseSemVer: not valid

Sign(a, b) == IF a < b THEN -1 ELSE IF a > b THEN 1 ELSE 0
CmpIdLoose(a, b) == Sign(a[2], b[2])                         \* mutant: the kinds mixed
CmpId(a, b) == IF a[1] # b[1] THEN Sign(a[1], b[1]) ELSE Sign(a[2], b[2])
CmpPre(a, b) ==
  LET d == {i \in DOMAIN a \cap DOMAIN b : CmpId(a[i], b[i]) # 0}
  IN  IF d = {} THEN Sign(Len(a), Len(b))                    \* the shorter one is less
      ELSE LET i == CHOOSE j \in d : \A k \in d : j <= k IN CmpId(a[i], b[i])

CompareSemVer(a, b) ==
  IF a.major # b.major THEN Sign(a.major, b.major)
  ELSE IF a.minor # b.minor THEN Sign(a.minor, b.minor)
  ELSE IF a.patch # b.patch THEN Sign(a.patch, b.patch)
  ELSE IF (a.pre = <<>>) # (b.pre = <<>>) THEN (IF a.pre = <<>> THEN 1 ELSE -1)
  ELSE CmpPre(a.pre, b.pre)

VRange(op, v) == [op |-> op, v |-> v]
AnyVersion == VRange("*", NoVer)
MatchesRange(v, r) ==
  LET c == CompareSemVer(v, r.v)
  IN  CASE r.op = "=" -> c = 0
        [] r.op = ">=" -> c >= 0
        [] r.op = ">" -> c > 0
        [] r.op = "<=" -> c <= 0
        [] r.op = "<" -> c < 0
        [] r.op = "^" -> v.major = r.v.major /\ c >= 0
        [] r.op = "~" -> v.major = r.v.major /\ v.minor = r.v.minor /\ c >= 0
        [] OTHER -> r.op = "*"

(* The greatest of the versions listed that is in the range, the first of  *)
(* equals; NoVer when there is none, or when the range names no version.   *)
Better(r, v, best) == MatchesRange(v, r) /\ (best = NoVer \/ CompareSemVer(v, best) > 0)
ResolveVersionFirst(r, available) ==                         \* mutant: the first that matches
  FoldLeft(LAMBDA best, v : IF MatchesRange(v, r) /\ best = NoVer THEN v ELSE best, NoVer, available)
ResolveVersionNewest(r, available) ==                        \* mutant: whatever the range
  FoldLeft(LAMBDA best, v : IF best = NoVer \/ CompareSemVer(v, best) > 0 THEN v ELSE best, NoVer, available)
ResolveVersion(r, available) ==
  LET best[i \in 0 .. Len(available)] ==
        IF i = 0 THEN NoVer
        ELSE IF Better(r, available[i], best[i - 1]) THEN available[i] ELSE best[i - 1]
  IN  IF r.op # "*" /\ r.v = NoVer THEN NoVer ELSE best[Len(available)]

-----------------------------------------------------------------------------

CONSTANTS Clients, Publishers,
          Names,         \* the packages, in the order of a manifest's map: a sequence
          Versions,      \* the versions that may be published
          Contents,      \* what the tarball of a version may hold
          Parts(_),      \* the files of a content, in the order of the tarball
          Manifests,     \* what a project may ask for: name -> range, PathDep, GitDep, NoDep
          Signatures,    \* what may have been signed: functions of the versions
          Faults,        \* "network", "crash", "republish", "edit", "checkout", "lockfile"
          MaxPublish, MaxInstall, MaxFault,   \* MaxFault: the kinds of fault of one behaviour
          None, Bad      \* no file; a file cut short

Version == [major : Nat, minor : Nat, patch : Nat, pre : Seq({0, 1} \X Nat)]

ASSUME PackagesAssumption ==
  /\ Names \in Seq(ToSet(Names)) /\ Versions \subseteq Version
  /\ \A c \in Contents : Parts(c) \in Seq(ToSet(Parts(c))) /\ "manifest" \in ToSet(Parts(c))
  /\ \A m \in Manifests : DOMAIN m = ToSet(Names)
  /\ \A s \in Signatures : s \in [ToSet(Names) \X Versions -> Contents \cup {None}]
  /\ None \notin Contents \cup {Bad} /\ Bad \notin Contents
  /\ MaxPublish \in Nat /\ MaxInstall \in Nat /\ MaxFault \in Nat

PathDep == VRange("path", NoVer)
GitDep == VRange("git", NoVer)
NoDep == VRange("absent", NoVer)
Packs == ToSet(Names) \X Versions
VARIABLES
  index,      \* what each package's index.json lists, nothing if it cannot be read
  tar,        \* the tarball of each version: None, Bad or a content
  sig,        \* the content that the signature of each version signs, or None
  pub,        \* what each publisher is doing
  manifest,   \* per project: what it asks for, by name
  lock,       \* per project: the entries of package.lock, none if it cannot be read
  cache,      \* the installed files of each version: name -> content
  git,        \* what is in the directory of each package's clone
  tmp,        \* the temporary file of each version: None, Bad or a content
  inst,       \* what each client's install is doing
  needSig,    \* HPHL_REQUIRE_SIG
  published, installs,                              \* counters, bounded
  met,        \* the packages of which two publishes ran at a time
  struck      \* the kinds of fault so far
vars == <<index, tar, sig, pub, manifest, lock, cache, git, tmp, inst, needSig, published, installs, met, struck>>
registry == <<index, tar, sig, pub, published, met>>
others == <<manifest, lock, cache, git, tmp, inst, needSig, installs>>

Idle == [at |-> "idle", ok |-> FALSE]
Entry(n, v, sha) == [n |-> n, v |-> v, sha |-> sha]
NoIndex == [versions |-> <<>>, dist |-> <<>>]
With(f, x, y) == [z \in {x} \cup DOMAIN f |-> IF z = x THEN y ELSE f[z]]
Installed(k) == "manifest" \in DOMAIN cache[k]
Complete(k, c) == cache[k] = [f \in ToSet(Parts(c)) |-> c]
Dist(i, v) == IF v \in DOMAIN i.dist THEN i.dist[v] ELSE None

\* A project may come with a lockfile, of versions that this cache does not hold.
Init ==
  /\ index = [n \in ToSet(Names) |-> NoIndex] /\ tar = [k \in Packs |-> None]
  /\ sig \in Signatures
  /\ pub = [p \in Publishers |-> [at |-> "idle"]]
  /\ manifest \in [Clients -> Manifests]
  /\ lock \in [Clients -> {{}} \cup IF "lockfile" \in Faults
                 THEN {{Entry(k[1], k[2], c)} : k \in Packs, c \in Contents} ELSE {}]
  /\ cache = [k \in Packs |-> <<>>] /\ tmp = [k \in Packs |-> None]
  /\ git = [n \in ToSet(Names) |-> "nothing"]
  /\ inst = [c \in Clients |-> Idle]
  /\ needSig \in BOOLEAN
  /\ published = 0 /\ installs = 0 /\ met = {}
  /\ struck = IF \E c \in Clients : lock[c] # {} THEN {"lockfile"} ELSE {}

Strike(f) ==
  /\ f \in Faults /\ struck' = struck \cup {f}
  /\ Cardinality(struck') <= MaxFault

(***************************************************************************)
(* publishPackage: the tarball, its hash (read back), the index read,      *)
(* merged and written.                                                     *)
(***************************************************************************)
At(p, n) == pub[p].at # "idle" /\ pub[p].k[1] = n
Meeting(p, n) == IF \E q \in Publishers \ {p} : At(q, n) THEN {n} ELSE {}
StartPublish(p, k, c) ==
  /\ pub[p].at = "idle" /\ published < MaxPublish
  /\ IF tar[k] \in {None, Bad} THEN UNCHANGED struck ELSE Strike("republish")
  /\ tar' = [tar EXCEPT ![k] = Bad]                   \* gzopen cuts the old one
  /\ pub' = [pub EXCEPT ![p] = [at |-> "tar", k |-> k, c |-> c]]
  /\ published' = published + 1 /\ met' = met \cup Meeting(p, k[1])
  /\ UNCHANGED <<index, sig, others>>
WriteTar(p) ==
  /\ pub[p].at = "tar"
  /\ tar' = [tar EXCEPT ![pub[p].k] = pub[p].c]
  /\ pub' = [pub EXCEPT ![p].at = "index"]
  /\ UNCHANGED <<index, sig, published, met, others, struck>>
ListedLast(i, v) ==                                                  \* mutant: not sorted
  IF v \in ToSet(i.versions) THEN i.versions ELSE Append(i.versions, v)
InOrder(s) == \A i, j \in DOMAIN s : i < j => CompareSemVer(s[i], s[j]) < 0
Listed(i, v) ==                                        \* v with the others, sorted
  LET all == ToSet(i.versions) \cup {v}
  IN  CHOOSE s \in [1 .. Cardinality(all) -> all] : ToSet(s) = all /\ InOrder(s)
MergedFresh(i, v, sha) == [versions |-> <<v>>, dist |-> (v :> sha)]  \* mutant: the old index lost
MergedOld(i, v, sha) ==                                \* mutant: the old hash stays
  [versions |-> Listed(i, v), dist |-> i.dist @@ (v :> sha)]
Merged(i, v, sha) == [versions |-> Listed(i, v), dist |-> With(i.dist, v, sha)]
ReadIndex(p) ==
  LET k == pub[p].k
  IN  /\ pub[p].at = "index"
      /\ pub' = [pub EXCEPT ![p] = [at |-> "write", k |-> k, new |-> Merged(index[k[1]], k[2], tar[k])]]
      /\ index' = [index EXCEPT ![k[1]] = NoIndex]     \* ofstream cuts the old one
      /\ UNCHANGED <<tar, sig, published, met, others, struck>>
WriteIndex(p) ==
  /\ pub[p].at = "write"
  /\ index' = [index EXCEPT ![pub[p].k[1]] = pub[p].new]
  /\ pub' = [pub EXCEPT ![p] = [at |-> "idle"]]
  /\ UNCHANGED <<tar, sig, published, met, others, struck>>

(***************************************************************************)
(* resolveDependencies: one dependency after another, then the lockfile.   *)
(* What the lockfile names is taken from it; a failure leaves it alone.    *)
(***************************************************************************)
Going(c, at) == inst[c].at = at
Goto(c, at) == inst' = [inst EXCEPT ![c].at = at]
Stop(c, ok) == inst' = [inst EXCEPT ![c] = [at |-> "idle", ok |-> ok]]
FirstOf(S) ==                                          \* in the order of the manifest
  Names[CHOOSE i \in DOMAIN Names : Names[i] \in S /\ \A j \in 1 .. i - 1 : Names[j] \notin S]
Dep(c) == FirstOf(inst[c].todo)                        \* the dependency at hand
TakenAgain(c, e) == [inst[c] EXCEPT !.at = "next", !.new = @ \cup {e}]   \* mutant: the same one again
Taken(c, e) ==                                         \* the entry of a dependency is known
  [inst[c] EXCEPT !.at = "next", !.todo = @ \ {e.n}, !.new = @ \cup {e}]
Still == UNCHANGED <<registry, manifest, needSig, installs>>
LockedFor(c, n) == {e \in lock[c] : e.n = n}

Wanted(c) == {n \in ToSet(Names) : manifest[c][n] # NoDep}
StartInstall(c, frozen) ==
  /\ Going(c, "idle") /\ installs < MaxInstall
  /\ installs' = installs + 1
  /\ inst' = [inst EXCEPT ![c] =
       [at |-> "next", todo |-> Wanted(c), new |-> {},
        frozen |-> frozen, v |-> NoVer, sha |-> None, body |-> None, rest |-> <<>>]]
  /\ UNCHANGED <<registry, manifest, lock, cache, git, tmp, needSig, struck>>

Thawed(c) == FALSE                                                   \* mutant
Frozen(c) == inst[c].frozen
NextDep(c) ==
  LET n == Dep(c)  want == manifest[c][n]
  IN  /\ Going(c, "next") /\ inst[c].todo # {}
      /\ CASE LockedFor(c, n) # {} ->
                 inst' = [inst EXCEPT ![c] = Taken(c, CHOOSE e \in LockedFor(c, n) : TRUE)]
            [] LockedFor(c, n) = {} /\ Frozen(c) -> Stop(c, FALSE)
            [] OTHER -> CASE want = PathDep -> inst' = [inst EXCEPT ![c] = Taken(c, Entry(n, NoVer, None))]
                          [] want = GitDep -> Goto(c, "git")
                          [] OTHER -> Goto(c, "index")
      /\ Still /\ UNCHANGED <<lock, cache, git, tmp, struck>>

(* fetchGitPackage, of a commit asked for by its name.  A directory that   *)
(* has a manifest and a HEAD is taken as it is; git clones into no other   *)
(* directory that holds something.  A checkout that fails, after the full  *)
(* clone, leaves the commit the clone came with.                           *)
HitFull(d) == d # "nothing"                                          \* mutant
Hit(d) == d \in {"asked", "other"}
Clone(c) ==
  \/ /\ git' = [git EXCEPT ![Dep(c)] = "asked"]
     /\ inst' = [inst EXCEPT ![c] = Taken(c, Entry(Dep(c), NoVer, "asked"))]
  \/ Stop(c, FALSE) /\ UNCHANGED git
GetGit(c) ==
  LET n == Dep(c)
  IN  /\ Going(c, "git")
      /\ CASE Hit(git[n]) -> inst' = [inst EXCEPT ![c] = Taken(c, Entry(n, NoVer, git[n]))] /\ UNCHANGED git
           [] git[n] = "half" -> Stop(c, FALSE) /\ UNCHANGED git
           [] OTHER -> Clone(c)
      /\ Still /\ UNCHANGED <<lock, cache, tmp, struck>>

(***************************************************************************)
(* fetchPackage.  GET index.json and choice of a version.                  *)
(***************************************************************************)
Key(c) == <<Dep(c), inst[c].v>>
NoneFitsNever(v) == FALSE                                           \* mutant
NoneFits(v) == v = NoVer
GetIndex(c) ==
  LET n == Dep(c)
      v == ResolveVersion(manifest[c][n], index[n].versions)
  IN  /\ Going(c, "index")
      /\ IF NoneFits(v) THEN Stop(c, FALSE)
         ELSE inst' = [inst EXCEPT ![c].at = "cached", ![c].v = v, ![c].sha = Dist(index[n], v)]
      /\ Still /\ UNCHANGED <<lock, cache, git, tmp, struck>>
CheckCache(c) ==
  /\ Going(c, "cached")
  /\ IF Installed(Key(c))
       THEN inst' = [inst EXCEPT ![c] = Taken(c, Entry(Key(c)[1], Key(c)[2], inst[c].sha))]
       ELSE Goto(c, "tar")
  /\ Still /\ UNCHANGED <<lock, cache, git, tmp, struck>>

(* GET of the tarball, its hash against the index's, its signature. *)
ShaOkAny(c, body) == TRUE                                            \* mutant
ShaOk(c, body) == inst[c].sha = None \/ inst[c].sha = body
TakeBody(c, body) ==
  IF ShaOk(c, body) THEN inst' = [inst EXCEPT ![c].at = "sig", ![c].body = body] ELSE Stop(c, FALSE)
GetTar(c) ==
  /\ Going(c, "tar")
  /\ IF tar[Key(c)] = None THEN Stop(c, FALSE) ELSE TakeBody(c, tar[Key(c)])
  /\ Still /\ UNCHANGED <<lock, cache, git, tmp, struck>>
SigOkSoft(s, body) == s = None \/ s = body                           \* mutant
SigOk(s, body) == IF s = None THEN ~needSig ELSE s = body
GetSig(c) ==
  /\ Going(c, "sig")
  /\ IF SigOk(sig[Key(c)], inst[c].body) THEN Goto(c, "open") ELSE Stop(c, FALSE)
  /\ Still /\ UNCHANGED <<lock, cache, git, tmp, struck>>

(* The temporary file, read back by gunzipToTar; the tarball unpacked file *)
(* by file.  An empty file is a tarball of no files, unpacked with success.*)
OpenTmp(c) ==
  /\ Going(c, "open")
  /\ tmp' = [tmp EXCEPT ![Key(c)] = Bad]
  /\ Goto(c, "save")
  /\ Still /\ UNCHANGED <<lock, cache, git, struck>>
WriteTmp(c) ==
  /\ Going(c, "save")
  /\ tmp' = [tmp EXCEPT ![Key(c)] = IF @ = None THEN None ELSE inst[c].body]
  /\ Goto(c, "read")
  /\ Still /\ UNCHANGED <<lock, cache, git, struck>>
ReadTmp(c) ==
  LET t == tmp[Key(c)]
  IN  /\ Going(c, "read")
      /\ IF t = None THEN Stop(c, FALSE)
         ELSE inst' = [inst EXCEPT ![c].at = "extract", ![c].body = t,
                                   ![c].rest = IF t = Bad THEN <<>> ELSE Parts(t)]
      /\ Still /\ UNCHANGED <<lock, cache, git, tmp, struck>>
ExtractFile(c) ==
  /\ Going(c, "extract") /\ inst[c].rest # <<>>
  /\ cache' = [cache EXCEPT ![Key(c)] = With(@, Head(inst[c].rest), inst[c].body)]
  /\ inst' = [inst EXCEPT ![c].rest = Tail(@)]
  /\ Still /\ UNCHANGED <<lock, git, tmp, struck>>
ExtractedEarly(c) == Len(inst[c].rest) <= 1                          \* mutant
Extracted(c) == inst[c].rest = <<>>
RemoveTmp(c) ==
  /\ Going(c, "extract") /\ Extracted(c)
  /\ tmp' = [tmp EXCEPT ![Key(c)] = None]
  /\ inst' = [inst EXCEPT ![c] = Taken(c, Entry(Key(c)[1], Key(c)[2], inst[c].body))]
  /\ Still /\ UNCHANGED <<lock, cache, git, struck>>

(* writeLockfile, once every dependency has its entry. *)
AnyTaken(c) == inst[c].new # {} \/ inst[c].todo = {}               \* mutant
AllTaken(c) == inst[c].todo = {}
OpenLock(c) ==
  /\ Going(c, "next") /\ AllTaken(c)
  /\ lock' = [lock EXCEPT ![c] = {}]                   \* ofstream cuts the old one
  /\ Goto(c, "locking")
  /\ Still /\ UNCHANGED <<cache, git, tmp, struck>>
WriteLock(c) ==
  /\ Going(c, "locking")
  /\ lock' = [lock EXCEPT ![c] = inst[c].new]
  /\ Stop(c, TRUE)
  /\ Still /\ UNCHANGED <<cache, git, tmp, struck>>

(***************************************************************************)
(* What goes wrong around them.                                            *)
(***************************************************************************)
LoseGet(c) ==                                          \* a GET that fails
  /\ Strike("network") /\ inst[c].at \in {"index", "tar"}
  /\ Stop(c, FALSE)
  /\ Still /\ UNCHANGED <<lock, cache, git, tmp>>
SpoilTar(c) ==                                         \* a tarball cut short on its way
  /\ Strike("network") /\ Going(c, "tar") /\ tar[Key(c)] # None
  /\ TakeBody(c, Bad)
  /\ Still /\ UNCHANGED <<lock, cache, git, tmp>>
LoseSig(c) ==                                          \* .sig or .pub: as if unsigned
  /\ Strike("network") /\ Going(c, "sig")
  /\ IF SigOk(None, inst[c].body) THEN Goto(c, "open") ELSE Stop(c, FALSE)
  /\ Still /\ UNCHANGED <<lock, cache, git, tmp>>
Cloning(c) == Going(c, "git") /\ git[Dep(c)] = "nothing"
FailCheckout(c) ==                                     \* with the manifest in it, or without
  /\ Strike("checkout") /\ Cloning(c)
  /\ \E d \in {"other", "half"} : git' = [git EXCEPT ![Dep(c)] = d]
  /\ Stop(c, FALSE)
  /\ Still /\ UNCHANGED <<lock, cache, tmp>>
CrashInstall(c) ==
  /\ Strike("crash") /\ ~Going(c, "idle")
  /\ \/ UNCHANGED git
     \/ Cloning(c) /\ \E d \in {"asked", "half"} : git' = [git EXCEPT ![Dep(c)] = d]
  /\ Stop(c, FALSE)
  /\ Still /\ UNCHANGED <<lock, cache, tmp>>
CrashPublish(p) ==
  /\ Strike("crash") /\ pub[p].at # "idle"
  /\ pub' = [pub EXCEPT ![p] = [at |-> "idle"]]
  /\ UNCHANGED <<index, tar, sig, published, met, others>>
EditManifest(c, m) ==
  /\ Strike("edit") /\ Going(c, "idle") /\ manifest[c] # m
  /\ manifest' = [manifest EXCEPT ![c] = m]
  /\ inst' = [inst EXCEPT ![c].ok = FALSE]
  /\ UNCHANGED <<registry, lock, cache, git, tmp, needSig, installs>>

Publish(p) == WriteTar(p) \/ ReadIndex(p) \/ WriteIndex(p)
Install(c) ==
  \/ NextDep(c) \/ GetGit(c) \/ GetIndex(c) \/ CheckCache(c) \/ GetTar(c) \/ GetSig(c) \/ OpenTmp(c)
  \/ WriteTmp(c) \/ ReadTmp(c) \/ ExtractFile(c) \/ RemoveTmp(c) \/ OpenLock(c) \/ WriteLock(c)
Next ==
  \/ \E p \in Publishers : \/ Publish(p) \/ CrashPublish(p)
                           \/ \E k \in Packs, c \in Contents : StartPublish(p, k, c)
  \/ \E c \in Clients : \/ Install(c) \/ \E f \in BOOLEAN : StartInstall(c, f)
                        \/ LoseGet(c) \/ SpoilTar(c) \/ LoseSig(c)
                        \/ FailCheckout(c) \/ CrashInstall(c)
                        \/ \E m \in Manifests : EditManifest(c, m)
Spec == Init /\ [][Next]_vars

(***************************************************************************)
(* What a build (--package) finds of a dependency: the version locked, or  *)
(* an exact version asked for, in the cache under its name and version.    *)
(***************************************************************************)
Exact(r) == IF r.op = "=" THEN {r.v} ELSE {}
Dirs(c, n) == {<<n, v>> : v \in {e.v : e \in LockedFor(c, n)} \cup Exact(manifest[c][n])} \cap Packs
Found(c, n) == manifest[c][n] \in {PathDep, NoDep} \/ \E k \in Dirs(c, n) : Installed(k)

(***************************************************************************)
(* Properties.                                                             *)
(***************************************************************************)
PackagesTypeOK ==
  /\ \A k \in Packs : tar[k] \in Contents \cup {None, Bad} /\ tmp[k] \in Contents \cup {None, Bad}
  /\ \A c \in Clients : \A e \in lock[c] : e.n \in ToSet(Names)
  /\ \A c \in Clients : inst[c].at \notin {"idle", "next", "git", "index", "locking"} => Key(c) \in Packs
  /\ git \in [ToSet(Names) -> {"nothing", "asked", "other", "half"}]
  /\ met \subseteq ToSet(Names) /\ published \in 0..MaxPublish /\ installs \in 0..MaxInstall

(* A fault excuses what it breaks: runs with that fault alone check the    *)
(* property itself.                                                        *)
Without(f) == struck \cap f = {}
Done(c) == Going(c, "idle") /\ inst[c].ok

(* After an install that ended well a build finds every dependency, with   *)
(* all the files of one tarball (resolveDependencies downloads what is     *)
(* missing, pkgfetch.h).  A clone of git is put where no build looks.      *)
InstallThenBuild == \A c \in Clients : Done(c) =>
  \A n \in ToSet(Names) :
    /\ Found(c, n) \/ manifest[c][n] = GitDep
    /\ \A k \in Dirs(c, n) : Installed(k) => \E t \in Contents : Complete(k, t)
InstallBuilds == Without({"crash", "lockfile", "edit"}) => InstallThenBuild

(* Nothing spoilt on its way is unpacked into the cache.                   *)
NothingSpoilt == \A c \in Clients : Going(c, "extract") => inst[c].body # Bad

(* Where signatures are required, what is unpacked was signed.             *)
OnlySigned == needSig => \A c \in Clients : Going(c, "extract") => sig[Key(c)] = inst[c].body

(* The lockfile written covers every dependency of the manifest and names, *)
(* but for the project itself (left out here), no other.                   *)
LockCovers == \A c \in Clients : Done(c) => {e.n : e \in lock[c]} = Wanted(c)

(* The version locked is one the manifest asks for, and the hash locked is *)
(* that of what is installed; of a clone, the commit asked for.            *)
Meets(c, e) == manifest[c][e.n] \in {PathDep, GitDep} \/ MatchesRange(e.v, manifest[c][e.n])
LockSatisfies == \A c \in Clients : Done(c) => \A e \in lock[c] : Meets(c, e)
LockHolds == Without({"edit", "lockfile"}) => LockSatisfies
LockShaTrue == \A c \in Clients : Done(c) =>
  \A e \in lock[c] : <<e.n, e.v>> \in Packs => Complete(<<e.n, e.v>>, e.sha)
ShaHolds == Without({"republish", "crash", "lockfile"}) => LockShaTrue
CommitTrue == \A c \in Clients : Done(c) =>
  \A e \in lock[c] : manifest[c][e.n] = GitDep => e.sha = "asked"
CommitHolds == Without({"edit", "checkout", "lockfile"}) => CommitTrue

(* A version once in the index stays in it, and the index names, while     *)
(* nobody publishes, the tarball that is there: of every package of which  *)
(* no two publishes ran at a time, whatever ran beside them of the others. *)
(* The index is in order, also after publishes that met.                   *)
VersionsOf(n) == ToSet(index[n].versions)
Publishing(n) == \E p \in Publishers : At(p, n)
VersionsStay(S) == \A n \in S, v \in Versions :
  (tar[<<n, v>>] # None /\ ~Publishing(n)) => v \in VersionsOf(n)
VersionsHold == Without({"crash"}) => VersionsStay(ToSet(Names) \ met)
Rank(v) ==                   \* a pre-release comes before its version
  <<<<0, v.major>>, <<0, v.minor>>, <<0, v.patch>>, <<IF v.pre = <<>> THEN 1 ELSE 0, 0>>>> \o v.pre
Under(x, y) == x[1] < y[1] \/ (x[1] = y[1] /\ x[2] < y[2])
Before(a, b) ==              \* the order of a dictionary
  LET r == Rank(a)  s == Rank(b)
  IN  \/ Len(r) < Len(s) /\ \A i \in DOMAIN r : r[i] = s[i]
      \/ \E i \in DOMAIN r \cap DOMAIN s : Under(r[i], s[i]) /\ \A j \in 1 .. i - 1 : r[j] = s[j]
IndexSorted == \A n \in ToSet(Names) : \A i, j \in DOMAIN index[n].versions :
  i < j => Before(index[n].versions[i], index[n].versions[j])
IndexTrue == \A n \in ToSet(Names) \ met : ~Publishing(n) /\ Without({"crash"}) =>
  \A v \in VersionsOf(n) : index[n].dist[v] = tar[<<n, v>>]

(* With --frozen-lockfile nothing is fetched: every entry taken is one of  *)
(* the lockfile, and nothing else is written to it.                        *)
FrozenKeeps == [][\A c \in Clients : (~Going(c, "idle") /\ inst[c].frozen) =>
  /\ inst'[c].at \notin {"git", "index"}
  /\ inst'[c].at = "next" => inst'[c].new \subseteq inst[c].new \cup lock[c]
  /\ lock'[c] \in {lock[c], {}, inst[c].new}]_vars

(* The greatest version in range is taken: none of those the index listed  *)
(* when it was read is better.                                             *)
BestTaken == [][\A c \in Clients : (Going(c, "index") /\ inst'[c].at = "cached") =>
  LET n == Dep(c)
  IN  /\ MatchesRange(inst'[c].v, manifest[c][n])
      /\ \A v \in VersionsOf(n) : MatchesRange(v, manifest[c][n]) => ~Before(inst'[c].v, v)]_vars

(* An install leaves what a build needs, and nothing spoilt.               *)
BuildsWhole == PackagesTypeOK /\ InstallBuilds /\ NothingSpoilt
(* The lockfile is of the manifest, the versions and the contents.         *)
LockExact == LockCovers /\ LockHolds /\ ShaHolds /\ CommitHolds
(* The index is of the registry.                                           *)
IndexExact == VersionsHold /\ IndexSorted /\ IndexTrue
(* An install takes the best version, or what the lockfile says.           *)
InstallTakes == FrozenKeeps /\ BestTaken
=============================================================================
