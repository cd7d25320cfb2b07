----------------------------- MODULE MCPackages -----------------------------
(***************************************************************************)
(* Versions, ranges and tarballs for the run of Packages, and the two      *)
(* parts of it: a project with one publisher, and a registry with all of   *)
(* them and no install.                                                    *)
(***************************************************************************)
EXTENDS Packages

alpha == <<1, 1>>
v100 == Ver(1, 0, 0, <<>>)
v110a == Ver(1, 1, 0, <<alpha>>)
v110a2 == Ver(1, 1, 0, <<<<0, 2>>>>)

TwoPres == {v110a, v110a2}
OneName == <<"p">>
TwoNames == <<"p", "q">>
PartsOf(c) == CASE c = "A" -> <<"manifest", "lib">> [] c = "B" -> <<"lib", "manifest">>
Asks(a, b) == [n \in {"p", "q"} |-> IF n = "p" THEN a ELSE b]
SomeManifests == {Asks(GitDep, AnyVersion), Asks(VRange("^", v100), PathDep), Asks(VRange("~", v110a), VRange("=", v110a))}
OneManifest == {"p" :> AnyVersion}
OneSigner == {[k \in Packs |-> s] : s \in {None, "A"}}

-----------------------------------------------------------------------------

VARIABLE part
First == CHOOSE p \in Publishers : TRUE

\* The registry alone: nothing is asked of the rest, which is as it may be at first.
Unasked ==
  /\ lock = [c \in Clients |-> {}] /\ ~needSig
  /\ manifest = [c \in Clients |-> CHOOSE m \in Manifests : TRUE]
  /\ sig = CHOOSE s \in Signatures : TRUE
PartsInit == Init /\ (part = "project" \/ (part = "registry" /\ Unasked))
PartsNext ==
  /\ Next /\ UNCHANGED part
  /\ CASE part = "registry" -> UNCHANGED others
       [] part = "project" ->
            /\ \A p \in Publishers \ {First} : pub'[p].at = "idle"
            /\ published' < MaxPublish /\ (struck' # struck => struck = {})
PartsSpec == PartsInit /\ [][PartsNext]_<<part, vars>>
=============================================================================
