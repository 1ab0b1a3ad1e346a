--------------------------- MODULE RcontribSession --------------------------
(***************************************************************************)
(* The engine of Rcontrib between calls: the Python class that writes the  *)
(* argument list, rcontrib_init that reads it option by option, the table  *)
(* of modifiers and the width of a result, scenes, reset(), and the        *)
(* expressions a call evaluates while its rays are traced.  How rays are   *)
(* shared among children is RcontribCall; here one ray is traced at a time *)
(* and its spawned rays end before it does.                                *)
(***************************************************************************)
EXTENDS CalcompContext, Integers, Sequences

CONSTANTS
  Modifiers,      \* names for option -m
  Widths,         \* numbers of bins: skyres^2 + ground
  Procs,          \* process counts a program asks for
  Strings,        \* values of -e and -f a program gives
  SwitchIn,       \* what -Z.? matches in the values it matches in: a switch
  UserArgs,       \* lists of rendering options a program gives
  Lists,          \* whole argument lists given to cRcontrib itself
  MaxRays, MaxDepth             \* bounds: rays traced, rays in progress

Flags == {"V", "I", "ld", "Z"}        \* contrib, imm_irrad, lim_dist, outbright
Bins == {"0", "1", "bin"}             \* bin values: constants, an expression
NoBin == "no bin value"               \* binv = NULL
NoList == <<>>

NoVal == "no value"
Quoted == "no value, in quotes"       \* or before a tab: the shell's splitting
Opt(k, v) == [opt |-> k, val |-> v, n |-> 0]
OptN(k, n) == [opt |-> k, val |-> NoVal, n |-> n]
UserKinds == Flags \cup {"p", "e", "render", "unknown", "word"}
Kinds == UserKinds \cup {"n", "w", "f", "b", "bn", "m"}

Names == Modifiers \cup {"skyglow"}
Values == {NoVal, Quoted, "+", "-", "side", "scbins"} \cup Bins \cup Names
            \cup ParamLists \cup Strings
Options == [opt : Kinds, val : Values, n : Int]

ASSUME SessionAssumption ==
  /\ Widths \subseteq Nat /\ Procs \subseteq Int
  /\ \A u \in UserArgs \cup Lists : u \in Seq(Options)
  /\ \A u \in UserArgs \cup Lists : \A k \in DOMAIN u :
       u[k].opt = "p" => u[k].val \in ParamLists
  /\ \A u \in UserArgs : \A k \in DOMAIN u : u[k].opt \in UserKinds
  /\ NoVal \notin Refused
  /\ SwitchIn \in [DOMAIN SwitchIn -> {NoVal, "+", "-"}]
  /\ {NoVal, Quoted, "+", "-"} \cap DOMAIN SwitchIn = {}
  /\ MaxRays \in Nat /\ MaxDepth \in Nat

VARIABLES
  cls,            \* class attributes: srcn, modname, features, args
  pc,             \* "idle", "options" (in rcontrib_init) or "exit"
  list, i,        \* argv and the option read next
  prms, bin, bincnt,            \* locals of rcontrib_init
  flags,          \* the switches
  mods,           \* modname, modconttab
  count,          \* return_value_count
  shape,          \* rvc and srcn of the C++ class
  status,         \* what the last initialize() returned
  scene,          \* a scene is loaded
  calc,           \* statics of func.c
  rays, raynum,   \* rays in progress, innermost last; raynum of the library
  asked           \* what setfunc or worldfunc was asked for last

python == <<cls, scene>>
parsing == <<list, i, prms, bin, bincnt>>
options == <<flags, mods, count>>
tracing == <<rays, raynum, asked>>
vars == <<python, pc, parsing, options, shape, status, calc, tracing>>

Nothing == [ctx |-> Global, obj |-> World, ray |-> NoRay, params |-> NoParams]

Init ==
  /\ cls = [srcn |-> 226, modname |-> "skyglow", features |-> 1, args |-> FALSE]
  /\ pc = "idle" /\ list = NoList /\ i = 1
  /\ prms = NoParams /\ bin = NoBin /\ bincnt = 0
  /\ flags = [f \in Flags |-> f = "Z"] /\ mods = <<>> /\ count = 0
  /\ shape = [rvc |-> 1, srcn |-> 0] /\ status = "none" /\ scene = FALSE
  /\ calc = NoCalc /\ rays = <<>> /\ raynum = 0 /\ asked = Nothing

-----------------------------------------------------------------------------
(* The class writes the list: rcontrib.py, renderer.py. *)

(* What a switch does: given without a value it toggles. *)
Switch(val, old) == IF val \in {NoVal, Quoted} THEN ~old ELSE val = "+"

(***************************************************************************)
(* set_args looks for -Z.? in the text it has made, from left to right:    *)
(* also in the values of other options, and in a -Z the shell would take   *)
(* out of its quotes (what follows is then neither a blank nor a "+").     *)
(***************************************************************************)
BrightAfter(option, bright) ==
  IF option.val \in DOMAIN SwitchIn THEN Switch(SwitchIn[option.val], bright)
  ELSE IF option.opt = "Z" THEN option.val # Quoted /\ Switch(option.val, bright)
  ELSE bright

Bright(args) ==
  LET bright[k \in 0..Len(args)] ==
        IF k = 0 THEN TRUE ELSE BrightAfter(args[k], bright[k - 1])
  IN  bright[Len(args)]

(* A mutation of Written: the program's options come after the modifier. *)
WrittenBefore(n, user, srcn, modname) ==
  <<OptN("n", n), Opt("V", "+")>>
    \o <<Opt("w", "-"), Opt("e", "side"), Opt("f", "scbins"), Opt("b", "bin"),
         OptN("bn", srcn), Opt("m", modname)>> \o user

Written(n, user, srcn, modname) ==
  <<OptN("n", n), Opt("V", "+")>> \o user
    \o <<Opt("w", "-"), Opt("e", "side"), Opt("f", "scbins"), Opt("b", "bin"),
         OptN("bn", srcn), Opt("m", modname)>>

Setup(srcn, modname) ==
  /\ pc = "idle" /\ rays = <<>>
  /\ cls' = [cls EXCEPT !.srcn = srcn, !.modname = modname]
  /\ UNCHANGED <<pc, parsing, options, shape, status, scene, calc, tracing>>

InitCalc(c) == [InitFunc(c) EXCEPT !.ctx = RC]

(* A mutation of StartFlags: switches keep what they were set to last. *)
StartFlagsKept == flags

StartFlags == [f \in Flags |-> f = "Z"]

(***************************************************************************)
(* rcontrib_init up to its loop, or to a rayinit.cal that is not found.    *)
(* The modifiers of an earlier initialization are still in the table: the  *)
(* documentation asks for reset() first, which is needed once there are    *)
(* any.                                                                    *)
(***************************************************************************)
BeginInit(argv, c) ==
  /\ pc' = IF InitFuncFails THEN "exit" ELSE "options"
  /\ list' = argv /\ i' = 1
  /\ prms' = NoParams /\ bin' = NoBin /\ bincnt' = 0
  /\ flags' = StartFlags /\ count' = 0
  /\ calc' = InitCalc(c) /\ asked' = Nothing
  /\ UNCHANGED <<mods, shape, status, scene, rays, raynum>>

AfterReset == status = "none" \/ mods = <<>>

(* set_args; the strings of the list before are freed. *)
SetArgs(n, user) ==
  LET args == Written(n, user, cls.srcn, cls.modname)
  IN  /\ pc = "idle" /\ rays = <<>> /\ AfterReset
      /\ cls' = [cls EXCEPT !.args = TRUE, !.features = IF Bright(args) THEN 1 ELSE 3]
      /\ BeginInit(args, [calc EXCEPT !.alive = FALSE])

(* cRcontrib.initialize with a list the program keeps. *)
Initialize(argv) ==
  /\ pc = "idle" /\ rays = <<>> /\ AfterReset
  /\ BeginInit(argv, calc) /\ UNCHANGED cls

-----------------------------------------------------------------------------
(* The options: rcinit.c, rcontribparts.c. *)

Reading(kind) ==
  pc = "options" /\ i <= Len(list) /\ list[i].opt = kind

Arg == list[i]

(* A mutation of Advance: -m takes the word after its name as well. *)
AdvancePastModifier ==
  i' = i + (IF Arg.opt = "m" THEN 2 ELSE 1) /\ UNCHANGED <<pc, list>>

Advance == i' = i + 1 /\ UNCHANGED <<pc, list>>

Same == UNCHANGED <<python, shape, status, tracing>>

(* error() of a USER or SYSTEM error ends the process. *)
Die ==
  /\ pc' = "exit"
  /\ UNCHANGED <<python, parsing, shape, status, calc, tracing>>

Processes ==
  \/ Reading("n") /\ Arg.n > 0 /\ Advance
     /\ Same /\ UNCHANGED <<prms, bin, bincnt, options, calc>>
  \/ Reading("n") /\ Arg.n <= 0 /\ Die /\ UNCHANGED options

(* getrenderopt, -w, -c and -t change nothing the module knows. *)
Skip ==
  /\ Reading("render") \/ Reading("w")
  /\ Advance /\ Same /\ UNCHANGED <<prms, bin, bincnt, options, calc>>

SetFlag ==
  \E f \in Flags :
    /\ Reading(f) /\ flags' = [flags EXCEPT ![f] = Switch(Arg.val, @)]
    /\ Advance /\ Same /\ UNCHANGED <<prms, bin, bincnt, mods, count, calc>>

Expression ==
  /\ Reading("e") \/ Reading("f")
  /\ Arg.val \notin Refused
  /\ calc' = Define(calc)
  /\ Advance /\ Same /\ UNCHANGED <<prms, bin, bincnt, options>>

(* scompile and eval find a syntax error, or loadfunc no file. *)
BadExpression ==
  /\ Reading("e") \/ Reading("f") \/ Reading("bn")
  /\ Arg.val \in Refused
  /\ Die /\ UNCHANGED options

Parameters ==
  \E same \in BOOLEAN :
    /\ Reading("p") /\ ~SetEparamsFails(calc, Arg.val, same)
    /\ prms' = Arg.val
    /\ calc' = SetEparams(calc, Arg.val, same)
    /\ Advance /\ Same /\ UNCHANGED <<bin, bincnt, options>>

BadParameters ==
  /\ Reading("p") /\ \E same \in BOOLEAN : SetEparamsFails(calc, Arg.val, same)
  /\ Die /\ UNCHANGED options

BinValue ==
  /\ Reading("b") /\ bin' = Arg.val
  /\ Advance /\ Same /\ UNCHANGED <<prms, bincnt, options, calc>>

BinCount ==
  /\ Reading("bn") /\ Arg.val \notin Refused /\ bincnt' = Arg.n
  /\ Advance /\ Same /\ UNCHANGED <<prms, bin, options, calc>>

(***************************************************************************)
(* addmodifier.  The width grows by the bin count given, before the checks *)
(* and before a constant bin value makes the count 1.                      *)
(***************************************************************************)
Constant == bin \in {NoBin, "0", "1"}

BadModifier ==
  \/ \E k \in DOMAIN mods : mods[k].name = Arg.val       \* duplicate
  \/ Arg.val = "void"                                    \* VOIDID
  \/ bin \in Refused                   \* syntax error in eparse
  \/ bin = "1"                         \* non-zero constant
  \/ ~Constant /\ bincnt <= 0

Columns == IF flags["Z"] THEN bincnt ELSE 3 * bincnt

Modifier ==
  [name |-> Arg.val, nbins |-> IF Constant THEN 1 ELSE bincnt, params |-> prms]

AddModifier ==
  /\ Reading("m") /\ count' = count + Columns
  /\ \/ BadModifier /\ Die /\ UNCHANGED <<flags, mods>>
     \/ /\ ~BadModifier /\ mods' = Append(mods, Modifier)
        /\ Advance /\ Same /\ UNCHANGED <<prms, bin, bincnt, flags, calc>>

(* py_initialize takes the width whether or not rcontrib_init succeeded. *)
Rvc == IF flags["Z"] THEN 1 ELSE 3

Return(st) ==
  /\ pc' = "idle" /\ status' = st
  /\ shape' = [rvc |-> Rvc, srcn |-> count \div Rvc]
  /\ UNCHANGED <<python, parsing, options, calc, tracing>>

(* An unknown option; or the loop ends at a word, which may not be there. *)
BadOption == Reading("unknown") /\ Return("failed")

StrayWord == Reading("word") /\ Return("failed")

Finish ==
  /\ pc = "options" /\ i > Len(list)
  /\ Return(IF mods = <<>> THEN "failed" ELSE "ok")

ReadOption ==
  \/ Processes \/ Skip \/ SetFlag
  \/ Expression \/ BadExpression \/ Parameters \/ BadParameters
  \/ BinValue \/ BinCount \/ AddModifier \/ BadOption \/ StrayWord \/ Finish

-----------------------------------------------------------------------------
(* Scenes and calls: rcontrib.cpp, rcinit.c, rcontribparts.c, func.c. *)

LoadScene ==
  /\ pc = "idle" /\ rays = <<>> /\ (cls.args \/ status = "ok") /\ ~scene
  /\ scene' = TRUE
  /\ UNCHANGED <<cls, pc, parsing, options, shape, status, calc, tracing>>

(* A ray starts: one of a row, or spawned by the ray in progress. *)
StartRay ==
  /\ pc = "idle" /\ status = "ok" /\ scene
  /\ Len(rays) < MaxDepth /\ raynum < MaxRays
  /\ raynum' = raynum + 1 /\ rays' = Append(rays, raynum + 1)
  /\ UNCHANGED <<python, pc, parsing, options, shape, status, calc, asked>>

Ray == rays[Len(rays)]

(* A material or pattern of the surface hit is evaluated. *)
Shade(m) ==
  /\ pc = "idle" /\ rays # <<>> /\ ~GetFuncFails(calc, m)
  /\ calc' = SetFunc(GetFunc(calc, m), m, Ray)
  /\ asked' = [ctx |-> FileOf[m], obj |-> m, ray |-> Ray, params |-> NoParams]
  /\ UNCHANGED <<python, pc, parsing, options, shape, status, rays, raynum>>

ShadeFails(m) ==
  /\ pc = "idle" /\ rays # <<>> /\ GetFuncFails(calc, m)
  /\ Die /\ UNCHANGED options

(* The ray ends on a surface without a modifier of the table. *)
EndUntracked ==
  /\ pc = "idle" /\ rays # <<>> /\ rays' = SubSeq(rays, 1, Len(rays) - 1)
  /\ UNCHANGED <<python, pc, parsing, options, shape, status, calc, raynum, asked>>

(* trace_contrib: the bin of the k-th modifier is evaluated for the ray. *)
EndTracked(k) ==
  /\ pc = "idle" /\ rays # <<>> /\ rays' = SubSeq(rays, 1, Len(rays) - 1)
  /\ \E same \in BOOLEAN :
       /\ ~SetEparamsFails(WorldFunc(calc, Ray), mods[k].params, same)
       /\ calc' = SetEparams(WorldFunc(calc, Ray), mods[k].params, same)
  /\ asked' = [ctx |-> RC, obj |-> World, ray |-> Ray, params |-> mods[k].params]
  /\ UNCHANGED <<python, pc, parsing, options, shape, status, raynum>>

(* Parameters that were taken for those of a list given up, and not read.  *)
EndFails(k) ==
  /\ pc = "idle" /\ rays # <<>>
  /\ \E same \in BOOLEAN :
       SetEparamsFails(WorldFunc(calc, Ray), mods[k].params, same)
  /\ Die /\ UNCHANGED options

(* A mutation of Cleared: the table of modifiers is kept. *)
ClearedNot(table) == table

Cleared(table) == <<>>                            \* rcontrib_clear

(***************************************************************************)
(* reset: objects, then modifiers, then definitions of the context.  The   *)
(* class gives up its list of arguments; a program may keep its own.       *)
(***************************************************************************)
Reset ==
  /\ pc = "idle" /\ rays = <<>>
  /\ \E file \in LastFreed(calc) :
       calc' = [Cleanup(FreeAll(calc, file)) EXCEPT !.alive = calc.alive /\ ~cls.args]
  /\ mods' = Cleared(mods) /\ scene' = FALSE /\ status' = "none"
  /\ cls' = [cls EXCEPT !.args = FALSE] /\ asked' = Nothing
  /\ UNCHANGED <<pc, parsing, flags, count, shape, rays, raynum>>

Next ==
  \/ \E srcn \in Widths, modname \in Modifiers : Setup(srcn, modname)
  \/ \E n \in Procs, user \in UserArgs : SetArgs(n, user)
  \/ \E argv \in Lists : Initialize(argv)
  \/ ReadOption
  \/ LoadScene \/ StartRay \/ EndUntracked \/ Reset
  \/ \E m \in Objects : Shade(m) \/ ShadeFails(m)
  \/ \E k \in DOMAIN mods : EndTracked(k) \/ EndFails(k)

Spec == Init /\ [][Next]_vars

-----------------------------------------------------------------------------
(* Every variable keeps its type; the option read next is within the list. *)
TypeOK ==
  /\ cls \in [srcn : Nat, modname : Names, features : {1, 3}, args : BOOLEAN]
  /\ pc \in {"idle", "options", "exit"} /\ status \in {"none", "ok", "failed"}
  /\ list \in Seq(Options) /\ i \in 1..Len(list) + 1
  /\ prms \in ParamLists \cup {NoParams} /\ bincnt \in Int /\ count \in Int
  /\ flags \in [Flags -> BOOLEAN]
  /\ mods \in Seq([name : Values, nbins : Int,
                   params : ParamLists \cup {NoParams}])
  /\ shape \in [rvc : {1, 3}, srcn : Int] /\ scene \in BOOLEAN
  /\ calc \in Calcs /\ raynum \in Nat /\ rays \in Seq(1..raynum)
  /\ asked \in [ctx : Contexts, obj : Objects \cup {World}, ray : Nat,
                params : ParamLists \cup {NoParams}]

(***************************************************************************)
(* Expressions are evaluated for the modifier and ray setfunc or worldfunc *)
(* was asked for, although both return early and share fobj, each with a   *)
(* ray number of its own, and getfunc forgets the object in between.       *)
(***************************************************************************)
EvaluatesAsked ==
  asked.ray # NoRay =>
    /\ calc.ctx = asked.ctx /\ calc.fobj = asked.obj /\ calc.fray = asked.ray
    /\ calc.funcxf = IF asked.obj = World THEN <<World, NoRay>>
                      ELSE <<asked.obj, asked.ray>>

(***************************************************************************)
(* The references a function file counts are the compiled modifiers that   *)
(* use it: freefunc neither removes definitions in use nor keeps those of  *)
(* a scene that is gone, over any number of scenes.                        *)
(***************************************************************************)
RefsAreUsers == \A f \in Files : calc.refs[f] = Cardinality(Users(calc, f))

(* The definitions of rayinit.cal and of -e and -f exist whenever rays are *)
(* traced: dcleanup at reset() may have removed either, or both.           *)
DefinitionsPresent == rays # <<>> => calc.globals /\ calc.bindef

(* A result has a column, or three, for every bin of its modifier: what    *)
(* mod_output writes, in the width the C++ class took from the count.      *)
WidthIsWritten ==
  status = "ok" /\ Len(mods) = 1 => shape.srcn = mods[1].nbins

(***************************************************************************)
(* The Python class knows the number of components of a result from its    *)
(* own reading of the options; the engine from reading them in C.  They    *)
(* agree when the text of no option shows a -Z that is not one (and no -Z  *)
(* is in quotes): the pattern also finds the one in -e 'c=1-Zsun'.         *)
(***************************************************************************)
Plain(option) ==
  option.val \notin DOMAIN SwitchIn /\ (option.opt = "Z" => option.val # Quoted)

FeaturesDescribeResult ==
  status = "ok" /\ cls.args /\ (\A k \in DOMAIN list : Plain(list[k])) =>
    cls.features = shape.rvc

(***************************************************************************)
(* A program that resets before it sets other arguments is ended by        *)
(* nothing that earlier lists and scenes left behind: when rcontrib_init   *)
(* ends the process, it is at an option that is itself at fault; a call    *)
(* does at a modifier it cannot compile, or with parameters that are.      *)
(***************************************************************************)
AtFault(option) ==
  \/ option.opt = "n" /\ option.n <= 0
  \/ option.opt \in {"e", "f", "p", "bn"} /\ option.val \in Refused
  \/ option.opt = "m" /\ (cls.srcn <= 0 \/ bin \in Refused)

DocumentedUseSurvives ==
  pc = "exit" =>
    IF rays = <<>> THEN InitFuncFails \/ AtFault(list[i])
    ELSE \/ \E m \in Objects : GetFuncFails(calc, m)
         \/ \E k \in DOMAIN mods : mods[k].params \in Refused

(* A bin expression is evaluated with the parameters given to its modifier. *)
ParamsInForce ==
  asked.ray # NoRay /\ asked.params # NoParams => calc.params = asked.params
=============================================================================
