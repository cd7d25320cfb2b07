------------------------------ MODULE MCImports ------------------------------
(* Main in app, modules A, B and C in app or lib, a package lib.           *)
EXTENDS Imports, TLC
App == <<"app">>
Lib == <<"lib">>
P(d, n) == <<d, n>>
NoPkgs == [d \in {} |-> 0]
NoOver == [p \in {} |-> 0]
Project(fs, over, pkgs) == [main |-> P(App, "m"), files |-> fs, over |-> over, pkgs |-> pkgs, dirs |-> <<Lib>>]

(* Every graph of main and three modules, two imports a file at most.      *)
Nm(n) == ByName(n, "")
Up2(S) == {<<>>} \cup {<<a>> : a \in S} \cup {<<a, b>> : a, b \in S}
Pairs == {<<Nm("A"), Nm("C")>>, <<Nm("C"), Nm("A")>>, <<Nm("std.io"), Nm("A")>>, <<ByPath(<<"..", "lib">>, "C", ""), Nm("C")>>}
Small(S) == {<<>>} \cup {<<a>> : a \in S}
Graphs == {Project(P(App, "m") :> File(<<>>, im) @@ P(App, "A") :> File(<<Mod("A", <<>>)>>, ia)
                   @@ P(App, "B") :> File(<<Mod("B", <<>>)>>, ib) @@ P(Lib, "C") :> File(<<Mod("C", <<>>)>>, ic), NoOver, NoPkgs) :
             im \in Up2({Nm("A"), Nm("B"), Nm("C")}), ia \in Up2({Nm("B"), Nm("C"), Nm("A")}),
             ib \in Small({Nm("A"), Nm("C")}), ic \in Small({Nm("A"), ByPath(<<"..", "app">>, "B", ""), ByPath(<<"..", "app">>, "m", "")})}
(* Aliases and declared dependencies.                                      *)
Deps == {<<>>, <<"A">>, <<"B">>, <<"C">>, <<"C", "B">>}
Declares == {Project(P(App, "m") :> File(<<>>, <<ByName("A", x), ByName("B", w), ByName("C", y)>>)
                     @@ P(App, "A") :> File(<<Mod("A", da)>>, <<ByName("B", z)>>)
                     @@ P(App, "B") :> File(<<Mod("B", db)>>, <<>>) @@ P(Lib, "C") :> File(<<Mod("C", dc)>>, <<Nm("B")>>), NoOver, NoPkgs) :
               da \in Deps, db \in Deps, dc \in Deps, w \in {"", "Y"}, x \in {"", "X"}, y \in {"", "X"}, z \in {"", "X", "Y"}}
(* What is not found, nameless, empty, twice there, from a package or in   *)
(* the editor; a library module.                                           *)
Empty == [File(<<>>, <<>>) EXCEPT !.empty = TRUE]
Bodies == {File(<<Mod("A", <<>>)>>, <<>>), File(<<>>, <<>>), Empty, File(<<Mod("C", <<>>)>>, <<Nm("std.io")>>)}
Odd == {Project(P(App, "m") :> File(ms, im) @@ P(App, "A") :> a @@ P(Lib, c[1]) :> c[2], over, pkgs) :
          ms \in {<<>>, <<Mod("M", <<>>)>>}, a \in Bodies,
          im \in Pairs \cup Small({Nm("A"), Nm("C"), Nm("std.io"), ByPath(<<"..", "lib">>, "C", ""), ByPath(<<>>, "A", "Z"), Nm("D")}),
          c \in {"C", "lib", "D"} \X {File(<<Mod("C", <<>>)>>, <<>>), File(<<Mod("C", <<>>)>>, <<Nm("A")>>)},
          over \in {NoOver, P(App, "A") :> File(<<Mod("E", <<>>)>>, <<>>), P(App, "A") :> Empty},
          pkgs \in {NoPkgs, Lib :> [n |-> "C", entry |-> ""], Lib :> [n |-> "C", entry |-> "D"]}}
Library == {"std.io"}
AllProjects == Graphs \cup Declares \cup Odd

(* An alias that is a module's name.                                       *)
Captures == {Project(P(App, "m") :> File(<<>>, <<ByName("A", "B"), Nm("B")>>) @@ P(App, "A") :> File(<<Mod("A", <<>>)>>, <<>>)
                     @@ P(App, "B") :> File(<<Mod("B", <<>>)>>, <<>>), NoOver, NoPkgs)}
ByAliases == {Project(P(App, "m") :> File(<<>>, <<ByName("A", ""), ByName("B", "X")>>) @@ P(App, "A") :> File(<<Mod("A", <<"X">>)>>, <<>>)
                      @@ P(App, "B") :> File(<<Mod("B", <<"A">>)>>, <<>>), NoOver, NoPkgs)}
(* A user's module with the name of a library module.                      *)
StdNamed == {Project(P(App, "m") :> File(<<>>, im) @@ P(App, "A") :> File(<<Mod("std.io", <<>>)>>, <<>>), NoOver, NoPkgs) :
               im \in Up2({ByPath(<<>>, "A", ""), Nm("std.io")})}
(* Two blocks of one module.                                               *)
TwoBlocks == {Project(P(App, "m") :> File(<<>>, <<Nm("A"), Nm("B")>>)
                      @@ P(App, "A") :> File(<<Mod("A", <<"B">>), Mod("A", <<"C">>)>>, <<>>)
                      @@ P(App, "B") :> File(<<Mod("B", <<>>)>>, <<Nm("C")>>) @@ P(Lib, "C") :> File(<<Mod("C", <<"A">>)>>, <<>>), NoOver, NoPkgs)}
=============================================================================
