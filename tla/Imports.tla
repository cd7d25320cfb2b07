------------------------------- MODULE Imports -------------------------------
(***************************************************************************)
(* The import loader (loader/loader.cpp): the main file and all that it    *)
(* imports, directly or not, become one program, dependencies first.  The  *)
(* recursion of loadRec is a stack of frames.  A path is a directory (its  *)
(* segments, ".." as it is written) and a base name; a file's own          *)
(* declarations are one.  Then what the analysis makes of the modules,     *)
(* aliases and dependencies of the program (the constructor of Semantic).  *)
(***************************************************************************)
EXTENDS SequencesExt, Naturals

CONSTANTS Projects,    \* records [main, files, over, pkgs, dirs], below
          Std,         \* the names of the library's modules (isStdModule)
          NoFile

ByName(n, as) == [by |-> "name", n |-> n, as |-> as]          \* import n as as;
ByPath(d, n, as) == [by |-> "path", d |-> d, n |-> n, as |-> as]
Renamed(imp) == imp.as # ""
(* A file: the blocks "module X depends on ..." in the order of the file,  *)
(* and its imports.  Without a block the file is of module main.           *)
File(mods, imports) == [mods |-> mods, imports |-> imports, empty |-> FALSE]
Mod(n, on) == [n |-> n, on |-> on]

VARIABLES proj, stack, loaded, modules, fileModule, deps, aliases, decls, res,
          walk, black                    \* of the search for a cycle of dependencies
search == <<walk, black>>
vars == <<proj, stack, loaded, modules, fileModule, deps, aliases, decls, res, search>>

Into(d, x) == IF x = ".." /\ d # <<>> /\ Last(d) # ".." THEN Front(d) ELSE Append(d, x)
Normal(d) ==                             \* lexically_normal, segment by segment
  LET n[i \in 0 .. Len(d)] == IF i = 0 THEN <<>> ELSE Into(n[i - 1], d[i]) IN n[Len(d)]
Canonical(p) == <<Normal(p[1]), p[2]>>
OnDisk(p) == Canonical(p) \in DOMAIN proj.files
IsStd(p) == p[1] = <<"std">>
Edited(p) == p \in DOMAIN proj.over                   \* the editor's text, by the path as written
Text(p) == IF Edited(p) THEN proj.over[p] ELSE proj.files[Canonical(p)]
NoText(p) == ~Edited(p) /\ (~OnDisk(p) \/ proj.files[Canonical(p)].empty)

Path == Seq(STRING) \X STRING
Texts(pr) == {pr.files[k] : k \in DOMAIN pr.files} \cup {pr.over[p] : p \in DOMAIN pr.over}
ImportDecls == [by : {"name"}, n : STRING, as : STRING] \cup [by : {"path"}, d : Seq(STRING), n : STRING, as : STRING]
ASSUME ImportsAssumption ==
  /\ NoFile \notin Path /\ Std \subseteq STRING /\ "main" \notin Std
  /\ {"main", "std", "lib"} \subseteq STRING       \* of a literal the provers do not know it
  /\ \A pr \in Projects :
       /\ pr.main \in Path /\ Normal(pr.main[1]) # <<"std">> /\ pr.dirs \in Seq(Seq(STRING))
       /\ \A k \in DOMAIN pr.files : k \in Path /\ Canonical(k) = k /\ ~IsStd(k)
       /\ \A f \in Texts(pr) : f.mods \in Seq([n : STRING, on : Seq(STRING)]) /\ f.imports \in Seq(ImportDecls)
       /\ \A d \in DOMAIN pr.pkgs : pr.pkgs[d].entry \in STRING

(***************************************************************************)
(* resolveImport: NoFile when nothing is found.  The code searches a       *)
(* directory once; what is found does not depend on that.                  *)
(***************************************************************************)
SearchDirs(from) == <<from[1], proj.main[1]>> \o proj.dirs
FirstFound(ps) == LET I == {i \in DOMAIN ps : OnDisk(ps[i])}
                  IN  IF I = {} THEN NoFile ELSE ps[Min(I)]
Bases(d, n) ==                           \* of the files of directory d, a package or not
  IF d \notin DOMAIN proj.pkgs \/ proj.pkgs[d].n # n THEN <<n>>
  ELSE IF proj.pkgs[d].entry = "" THEN <<n, "lib">> ELSE <<n, proj.pkgs[d].entry, "lib">>
FoundIn(d, n) == LET bs == Bases(Normal(d), n) IN FirstFound([i \in DOMAIN bs |-> <<d, bs[i]>>])
Resolve(imp, from) ==
  LET ds == SearchDirs(from)
      I == {i \in DOMAIN ds : FoundIn(ds[i], imp.n) # NoFile}
  IN  IF imp.by = "path" THEN FirstFound(<<<<from[1] \o imp.d, imp.n>>>>)
      ELSE IF imp.n \in Std THEN <<<<"std">>, imp.n>>
      ELSE IF I = {} THEN NoFile
      ELSE FoundIn(ds[Min(I)], imp.n)

(***************************************************************************)
(* loadRec.                                                                *)
(***************************************************************************)
ChainLoaded == [i \in DOMAIN stack |-> Canonical(stack[i].path)] \o loaded
Chain == [i \in DOMAIN stack |-> Canonical(stack[i].path)]
OwnModule(f) == IF f.mods = <<>> THEN "main" ELSE f.mods[1].n
NamedLast(ms, n) == ms # <<>> /\ Last(ms) = n
Named(ms, n) == \E i \in DOMAIN ms : ms[i] = n
FirstOf(ds, ms) ==                       \* with the first that each module says of its dependencies
  LET f[i \in 0 .. Len(ms)] ==
        IF i = 0 THEN ds
        ELSE IF ms[i].on = <<>> \/ \E j \in DOMAIN f[i - 1] : f[i - 1][j].n = ms[i].n THEN f[i - 1]
        ELSE Append(f[i - 1], ms[i])
  IN  f[Len(ms)]
Noted(fm, k, m) == [l \in DOMAIN fm \cup {k} |-> IF l = k THEN m ELSE fm[l]]     \* fileModule_[k] = m
PlacedFirst(ds, p) == <<p>> \o ds
Placed(ds, p) == Append(ds, p)

ImportsInit ==
  /\ proj \in Projects /\ stack = <<>>
  /\ loaded = <<>> /\ modules = <<>> /\ fileModule = <<>> /\ deps = <<>> /\ aliases = <<>> /\ decls = <<>>
  /\ res = "start" /\ walk = <<>> /\ black = {}

Fail(why) == res' = why /\ stack' = <<>> /\ UNCHANGED <<loaded, modules, fileModule, deps, aliases, decls>>
Enter(p) ==
  LET key == Canonical(p)
      f == Text(p)
      own == OwnModule(f)
  IN  IF Contains(Chain, key) THEN Fail("cycle")
      ELSE IF Contains(loaded, key)
      THEN /\ res' = "back" /\ UNCHANGED <<stack, loaded, modules, fileModule, deps, aliases, decls>>
      ELSE IF IsStd(p)
      THEN /\ modules' = IF Named(modules, p[2]) THEN modules ELSE Append(modules, p[2])
           /\ fileModule' = Noted(fileModule, key, p[2])
           /\ loaded' = Append(loaded, key)
           /\ res' = "back" /\ UNCHANGED <<stack, deps, aliases, decls>>
      ELSE IF NoText(p) THEN Fail("unreadable")
      ELSE IF own = "main" /\ key # Canonical(proj.main) THEN Fail("nameless")
      ELSE IF own # "main" /\ Named(modules, own) THEN Fail("twice")
      ELSE /\ modules' = IF own = "main" THEN modules ELSE Append(modules, own)
           /\ fileModule' = Noted(fileModule, key, own)
           /\ deps' = FirstOf(deps, f.mods)
           /\ stack' = Append(stack, [path |-> p, i |-> 1, to |-> NoFile])
           /\ res' = "next" /\ UNCHANGED <<loaded, aliases, decls>>

Top == stack[Len(stack)]
Import == Text(Top.path).imports[Top.i]
Start == res = "start" /\ Enter(proj.main) /\ UNCHANGED proj
Follow ==                       \* the next import of the file on top
  /\ res = "next" /\ Top.i <= Len(Text(Top.path).imports)
  /\ LET to == Resolve(Import, Top.path)
     IN  IF to = NoFile THEN Fail("missing")
         ELSE /\ stack' = [stack EXCEPT ![Len(stack)].to = to] /\ res' = "enter"
              /\ UNCHANGED <<loaded, modules, fileModule, deps, aliases, decls>>
  /\ UNCHANGED proj
Descend == res = "enter" /\ Enter(Top.to) /\ UNCHANGED proj
ComeBack ==                     \* an import is done
  /\ res = "back"
  /\ aliases' = IF ~Renamed(Import) THEN aliases
                ELSE Append(aliases, [n |-> Import.as, m |-> fileModule[Canonical(Top.to)]])
  /\ stack' = [stack EXCEPT ![Len(stack)].i = @ + 1]
  /\ res' = "next" /\ UNCHANGED <<proj, loaded, modules, fileModule, deps, decls>>
Finish ==                       \* all imports done: the file's own declarations
  /\ res = "next" /\ Top.i > Len(Text(Top.path).imports)
  /\ decls' = Placed(decls, Canonical(Top.path))
  /\ loaded' = Append(loaded, Canonical(Top.path))
  /\ stack' = Front(stack)
  /\ res' = IF Len(stack) = 1 THEN "loaded" ELSE "back"
  /\ UNCHANGED <<proj, modules, fileModule, deps, aliases>>

LoadNext == Start \/ Follow \/ Descend \/ ComeBack \/ Finish

(***************************************************************************)
(* The analysis: aliases that clash, dependencies on what is no module,    *)
(* and validateDeps' search for a cycle, depth first: walk holds the       *)
(* modules on the way (grey), each with its next dependency, black those   *)
(* that are done.                                                          *)
(***************************************************************************)
ClashNear(as) == \E i \in 2..Len(as) : as[i].n = as[i - 1].n /\ as[i].m # as[i - 1].m
Clash(as) == \E i, j \in DOMAIN as : as[i].n = as[j].n /\ as[i].m # as[j].m
DeclModules == {OwnModule(Text(decls[i])) : i \in DOMAIN decls}
Known == ToSet(modules) \cup {aliases[i].n : i \in DOMAIN aliases} \cup DeclModules
Undeclared(ds) == \E i \in DOMAIN ds : ds[i].n \in Known /\ \E j \in DOMAIN ds[i].on : ds[i].on[j] \notin Known
ModuleKey(n) == LET I == {i \in DOMAIN aliases : aliases[i].n = n}
                IN  IF I # {} THEN aliases[CHOOSE i \in I : TRUE].m ELSE IF n \in Known THEN n ELSE ""
On(m) == LET I == {i \in DOMAIN deps : deps[i].n = m}        \* one at most, FirstOf
         IN  IF I = {} THEN <<>> ELSE deps[CHOOSE i \in I : TRUE].on
Grey(w, m) == \E i \in DOMAIN w : w[i].m = m
VisitedPast(w, m) == Append(w, [m |-> m, i |-> 2])
Visited(w, m) == Append(w, [m |-> m, i |-> 1])
Roots == {i \in DOMAIN deps : deps[i].n \in Known \ black}
At == Last(walk)

Analyse ==
  /\ res = "loaded"
  /\ res' = IF Clash(aliases) THEN "clash" ELSE IF Undeclared(deps) THEN "undeclared" ELSE "visit"
  /\ UNCHANGED search
Begin ==
  /\ res = "visit" /\ walk = <<>> /\ Roots # {}
  /\ walk' = Visited(<<>>, deps[Min(Roots)].n)
  /\ UNCHANGED <<black, res>>
Depend ==
  /\ res = "visit" /\ walk # <<>> /\ At.i <= Len(On(At.m))
  /\ LET d == On(At.m)[At.i]
         w == [walk EXCEPT ![Len(walk)].i = @ + 1]
     IN  IF Grey(walk, d) THEN res' = "depcycle" /\ UNCHANGED walk
         ELSE walk' = (IF d \in Known \ black THEN Visited(w, d) ELSE w) /\ UNCHANGED res
  /\ UNCHANGED black
Leave ==
  /\ res = "visit" /\ walk # <<>> /\ At.i > Len(On(At.m))
  /\ walk' = Front(walk) /\ black' = black \cup {At.m}
  /\ UNCHANGED res
Accept == res = "visit" /\ walk = <<>> /\ Roots = {} /\ res' = "ok" /\ UNCHANGED search
ModulesNext == /\ Analyse \/ Begin \/ Depend \/ Leave \/ Accept
               /\ UNCHANGED <<proj, stack, loaded, modules, fileModule, deps, aliases, decls>>

ImportsNext == (LoadNext /\ UNCHANGED search) \/ ModulesNext
ImportsSpec == ImportsInit /\ [][ImportsNext]_vars

(***************************************************************************)
(* Properties.                                                             *)
(***************************************************************************)
Outcomes == {"start", "next", "enter", "back", "loaded", "cycle", "unreadable", "nameless", "twice", "missing",
             "clash", "undeclared", "visit", "depcycle", "ok"}
ImportsTypeOK == /\ res \in Outcomes
                 /\ ToSet(decls) \subseteq ToSet(loaded) /\ ToSet(loaded) \subseteq DOMAIN fileModule
                 /\ IsInjective(loaded) /\ IsInjective(modules) /\ IsInjective(Chain)

(* What the imports of a file lead to, as a graph of files; what can be    *)
(* reached from some of them: they are in every closed set that has these. *)
Places == DOMAIN proj.files \cup {<<<<"std">>, n>> : n \in Std} \cup {Canonical(proj.main)}
Leaf(k) == IsStd(k) \/ NoText(k)
Targets(k) == IF Leaf(k) THEN {} ELSE {Resolve(Text(k).imports[i], k) : i \in DOMAIN Text(k).imports}
Follows(k) == {Canonical(p) : p \in Targets(k) \ {NoFile}}
Edges == UNION {{k} \X Follows(k) : k \in Places}
Closed == LET R == Edges IN {S \in SUBSET Places : \A e \in R : e[1] \in S => e[2] \in S}
Beyond(C, S) == {k \in Places : \A T \in C : S \subseteq T => k \in T}
Program == Beyond(Closed, {Canonical(proj.main)})

(* A program can be loaded when nothing that main leads to is missing,     *)
(* empty or nameless, no file leads back to itself and no module name is   *)
(* had by two files (loader.h; loader_cyclic_import and the other          *)
(* messages).                                                              *)
ModuleOf(k) == IF IsStd(k) THEN k[2] ELSE OwnModule(Text(k))
Whole(k) == ~NoText(k) /\ NoFile \notin Targets(k)
Nameless(k) == OwnModule(Text(k)) = "main" /\ k # Canonical(proj.main)
Loadable == LET C == Closed IN
  \A k \in Beyond(C, {Canonical(proj.main)}) :
    /\ ~IsStd(k) => Whole(k) /\ ~Nameless(k) /\ k \notin Beyond(C, Follows(k))
    /\ \A l \in Beyond(C, {Canonical(proj.main)}) : ModuleOf(k) = ModuleOf(l) => k = l

(* A program loads exactly when it can be, in whatever order the imports   *)
(* are written.                                                            *)
LoadedIsLoadable == res = "loaded" => Loadable
RefusedIsNot == res \in {"cycle", "unreadable", "nameless", "twice", "missing"} => ~Loadable

(* The declarations of a program are those of the files that main leads    *)
(* to, once each, and after those of every file that their own leads to    *)
(* (loader.h: "dependências primeiro").                                    *)
DepsFirst == res = "loaded" => LET C == Closed IN
  /\ ToSet(decls) = {k \in Beyond(C, {Canonical(proj.main)}) : ~IsStd(k)} /\ IsInjective(decls)
  /\ \A i \in DOMAIN decls : \A k \in Beyond(C, Follows(decls[i])) : IsStd(k) \/ \E j \in 1 .. i - 1 : decls[j] = k

(* In an accepted program a name that a file gives to a module it imports  *)
(* means that module.                                                      *)
AliasMeans == res = "ok" => \A k \in Program : ~IsStd(k) => \A i \in DOMAIN Text(k).imports :
  LET imp == Text(k).imports[i]
  IN  Renamed(imp) => ModuleKey(imp.as) = fileModule[Canonical(Resolve(imp, k))]

(* What the files declare of the modules' dependencies, as a graph of      *)
(* modules; a program is refused for a cycle exactly when a module depends *)
(* on itself there, directly or not ("ciclo de dependência").              *)
Blocks == UNION {ToSet(Text(decls[i]).mods) : i \in DOMAIN decls}
Declared == [m \in Known |-> (UNION {ToSet(b.on) : b \in {c \in Blocks : c.n = m}}) \cap Known]
ClosedIn(D) == {S \in SUBSET DOMAIN D : \A m \in S : D[m] \subseteq S}
OnItself(D) == LET C == ClosedIn(D) IN {m \in DOMAIN D : \A S \in C : D[m] \subseteq S => m \in S}
DepsAcyclic == /\ res = "ok" => OnItself(Declared) = {}
               /\ res = "depcycle" => OnItself(Declared) # {}

LoadsExactly == LoadedIsLoadable /\ RefusedIsNot /\ DepsFirst /\ AliasMeans /\ DepsAcyclic

(* A module's name keeps meaning that module in the files that give it no  *)
(* other (false: an alias holds in the whole program).                     *)
NameKept == res = "ok" => \A m \in ToSet(modules) : ModuleKey(m) = m
(* The same through aliases (false: an alias is followed by no edge).      *)
DepsAcyclicByAlias == res = "ok" => LET D == Declared IN OnItself([m \in DOMAIN D |-> {ModuleKey(q) : q \in D[m]}]) = {}
=============================================================================
