-------------------------------- MODULE MCFront --------------------------------
(***************************************************************************)
(* Four parts of the front end that share no state, in one run: part says  *)
(* which of them a behaviour is about.                                     *)
(***************************************************************************)
EXTENDS Integers, Imports

CONSTANTS Fns, SugarEnvs, SugarHeap, W, N, Junk, SugarFuel, FlowFns
VARIABLES part, fn, lowered, file, meant, s, parsed, prog, verdict
sugar == <<fn, lowered>>
parse == <<file, meant, s, parsed>>
flow == <<prog, verdict>>
frontVars == <<part, sugar, vars, parse, flow>>

L == INSTANCE Sugar WITH Quirks <- {}
Literals == {"0", "1", "2", "'c'"}
P == INSTANCE MCParse WITH decls <- parsed, Odd <- {}, Ints <- {"0", "1", "2"}, Strings <- {"s"}, Chars <- {"'c'"},
       ValueOf <- [w \in Literals |-> CASE w = "0" -> 0 [] w = "1" -> 1 [] w = "2" -> 2 [] OTHER -> 99],
       Names <- {"a", "b", "F", "C", "A", "B", "T", "E", "N", "suppress_deprecation"}
F == INSTANCE MCFlow WITH FlowOdd <- {}, Fns <- FlowFns

(* What they are given to work on, from the modules that list it.          *)
SugarCases == INSTANCE MCSugar WITH Quirks <- {}, Fns <- {}, SugarEnvs <- {}, SugarHeap <- <<>>
ImportCases == INSTANCE MCImports WITH Projects <- {}
FlowCases == INSTANCE MCFlow WITH FlowOdd <- {}, Fns <- {}
FrontFns == SugarCases!AllFns
FrontEnvs == SugarCases!Envs
FrontHeap == SugarCases!Heap
FrontProjects == ImportCases!AllProjects
FrontFlows == FlowCases!AllFns

NoSugar == fn = 0 /\ lowered = 0
NoImports == /\ proj = 0 /\ stack = 0 /\ loaded = 0 /\ modules = 0 /\ fileModule = 0
             /\ deps = 0 /\ aliases = 0 /\ decls = 0 /\ res = "none" /\ walk = 0 /\ black = 0
NoParse == file = 0 /\ meant = 0 /\ s = 0 /\ parsed = 0
NoFlow == prog = 0 /\ verdict = 0
FrontInit == \/ part = "sugar" /\ L!SugarInit /\ NoImports /\ NoParse /\ NoFlow
             \/ part = "imports" /\ ImportsInit /\ NoSugar /\ NoParse /\ NoFlow
             \/ part = "parse" /\ P!MCInit /\ NoSugar /\ NoImports /\ NoFlow
             \/ part = "flow" /\ F!FlowInit /\ NoSugar /\ NoImports /\ NoParse
FrontNext == /\ UNCHANGED part
             /\ \/ part = "sugar" /\ L!SugarNext /\ UNCHANGED <<vars, parse, flow>>
                \/ part = "imports" /\ ImportsNext /\ UNCHANGED <<sugar, parse, flow>>
                \/ part = "parse" /\ P!ParseDecl /\ UNCHANGED <<sugar, vars, flow>>
                \/ part = "flow" /\ F!FlowNext /\ UNCHANGED <<sugar, vars, parse>>
FrontSpec == FrontInit /\ [][FrontNext]_frontVars

(* The properties of the four modules, where they are stated; all but      *)
(* those of Imports are of the steps that their part takes.                *)
(* Sugar: the lowered function has no sugar left, does what the written    *)
(* one does, and gives out no value that breaks a postcondition.           *)
SugarKept == [][part = "sugar" => L!NoSugarLeft /\ L!SugarKept /\ L!EnsuresChecked]_frontVars
(* Imports: LoadsExactly, as it stands there.                              *)
(* Parse: the parser reads back what the grammar wrote; no token that      *)
(* matters is lost, nothing of a declaration waits for the next.           *)
ParsesBack == [][part = "parse" => P!ParsesBack /\ P!LostNothing /\ P!NothingPending]_frontVars
(* Flow: what the checker complains of happens on some path.               *)
AlarmsAreReal == [][part = "flow" => F!AlarmsAreReal]_frontVars
(* Flow: what goes wrong on every path is refused; an accepted function    *)
(* reads no out parameter nobody wrote, keeps no lock, lets no object of   *)
(* its arena out.                                                          *)
FaultsRefused == [][part = "flow" =>
  F!CertainFaultRefused /\ F!OutsAssigned /\ F!LocksLeft /\ F!ArenaStays]_frontVars
=============================================================================
