--------------------------- MODULE CalcompContext --------------------------
(***************************************************************************)
(* The statics func.c keeps between calls of the expression evaluator: the *)
(* object and ray its channels refer to, the transformation, the context   *)
(* names are looked up in, the parameters set last, and the references of  *)
(* objects to function files.  Everything is one record, `calc', and each  *)
(* function of func.c an operator on it.                                   *)
(*                                                                         *)
(* The evaluator itself (calcomp) is external: a context holds definitions *)
(* or does not, and dcleanup(2) removes those of the current context, or   *)
(* all of them in the global one.                                          *)
(***************************************************************************)
EXTENDS Naturals, FiniteSets

CONSTANTS
  Objects,        \* modifiers that evaluate expressions
  Files,          \* function files; each is a context of its own
  FileOf,         \* the file of an object, or Global for "." (no file)
  ParamLists,     \* parameter strings of option -p
  Refused         \* strings and modifiers that cannot be read: parameters,
                  \* expressions, files that are not found, arguments

Global == "global"                     \* the context ""
RC == "RC."                            \* RCCONTEXT
InitFile == "rayinit.cal"              \* INITFILE
World == "no object"                   \* fobj = NULL
NoRay == 0                             \* fray = NULL; no ray number yet
NoParams == "no parameters"            \* prms = NULL; variables undefined

ASSUME CalcompAssumption ==
  /\ FileOf \in [Objects -> Files \cup {Global}]
  /\ {Global, RC} \cap Files = {}
  /\ World \notin Objects
  /\ NoParams \notin ParamLists \cup Refused
  /\ IsFiniteSet(Objects)

Contexts == Files \cup {Global, RC}

Calcs ==
  [ctx : Contexts,                                \* the current context
   globals : BOOLEAN, bindef : BOOLEAN,           \* definitions in "", in RC.
   params : ParamLists \cup {NoParams},           \* variables of -p, in RC.
   last : ParamLists \cup {NoParams},             \* last_params
   alive : BOOLEAN,                               \* its string is allocated
   fobj : Objects \cup {World}, fray : Nat,
   funcxf : (Objects \cup {World}) \X Nat,        \* what funcxf is made from
   lastS : Nat, lastW : Nat,                      \* lastrno of each function
   os : [Objects -> BOOLEAN],                     \* compiled: m->os
   refs : [Files -> Nat]]                         \* REFVNAME; 0 is undefined

NoCalc ==
  [ctx |-> Global, globals |-> FALSE, bindef |-> FALSE,
   params |-> NoParams, last |-> NoParams, alive |-> FALSE,
   fobj |-> World, fray |-> NoRay, funcxf |-> <<World, NoRay>>,
   lastS |-> NoRay, lastW |-> NoRay,
   os |-> [m \in Objects |-> FALSE], refs |-> [f \in Files |-> 0]]

Users(c, f) == {m \in Objects : c.os[m] /\ FileOf[m] = f}

-----------------------------------------------------------------------------
(* A mutation of InitFunc: initialized once, as in the original library. *)
InitFuncOnce(c) ==
  IF c.last # NoParams \/ c.lastW # NoRay THEN c
  ELSE [c EXCEPT !.ctx = Global, !.globals = TRUE]

InitFunc(c) == [c EXCEPT !.ctx = Global, !.globals = TRUE]

(* -e and -f define names in the current context. *)
Define(c) == IF c.ctx = RC THEN [c EXCEPT !.bindef = TRUE] ELSE c

(***************************************************************************)
(* What cannot be read is a fatal error: a function file that is not found *)
(* (loadfunc), an expression (scompile), a modifier getfunc cannot compile *)
(* (objerror, or its file).                                                *)
(***************************************************************************)
InitFuncFails == InitFile \in Refused

GetFuncFails(c, m) == ~c.os[m] /\ {m, FileOf[m]} \cap Refused # {}

(***************************************************************************)
(* set_eparams: nothing to do when the string is the one set last.  It is  *)
(* kept by its address, so the comparison may say anything when the string *)
(* has been freed: `same' is what it says then.                            *)
(***************************************************************************)
AlreadySet(c, prms, same) ==
  /\ c.last # NoParams
  /\ IF c.alive THEN c.last = prms ELSE same

SetEparams(c, prms, same) ==
  IF prms = NoParams \/ AlreadySet(c, prms, same) THEN c
  ELSE [c EXCEPT !.last = prms, !.alive = TRUE,
                 !.params = IF c.ctx = RC THEN prms ELSE @]

(* A list that is set is read up to the first part that is malformed,      *)
(* which is fatal (bad_params).                                            *)
SetEparamsFails(c, prms, same) ==
  prms \in Refused /\ ~AlreadySet(c, prms, same)

Cleanup(c) ==                                     \* dcleanup(2)
  CASE c.ctx = Global -> [c EXCEPT !.globals = FALSE, !.bindef = FALSE,
                                   !.params = NoParams,
                                   !.refs = [f \in Files |-> 0]]
    [] c.ctx = RC -> [c EXCEPT !.bindef = FALSE, !.params = NoParams]
    [] OTHER -> [c EXCEPT !.refs[c.ctx] = 0]

(* A mutation of GetFunc: a file that is loaded is not counted again. *)
GetFuncUncounted(c, m) ==
  IF c.os[m] THEN c
  ELSE [c EXCEPT !.os[m] = TRUE, !.fobj = World, !.fray = NoRay,
                 !.ctx = FileOf[m],
                 !.refs = [f \in Files |-> IF f = FileOf[m] THEN 1 ELSE @[f]]]

(***************************************************************************)
(* getfunc compiles a modifier once: it forgets the object and ray, makes  *)
(* the file the context, and loads it or counts one more reference.        *)
(***************************************************************************)
GetFunc(c, m) ==
  IF c.os[m] THEN c
  ELSE [c EXCEPT !.os[m] = TRUE, !.fobj = World, !.fray = NoRay,
                 !.ctx = FileOf[m],
                 !.refs = [f \in Files |->
                             IF f = FileOf[m] THEN c.refs[f] + 1 ELSE c.refs[f]]]

(* A mutation of SetFunc: the ray number is not compared. *)
SetFuncByObject(c, m, r) ==
  IF m = c.fobj THEN [c EXCEPT !.ctx = FileOf[m]]
  ELSE [c EXCEPT !.ctx = FileOf[m], !.fobj = m, !.fray = r,
                 !.funcxf = <<m, r>>, !.lastS = r]

(* setfunc: the channels refer to modifier m and ray r. *)
SetFunc(c, m, r) ==
  IF m = c.fobj /\ r = c.lastS THEN [c EXCEPT !.ctx = FileOf[m]]
  ELSE [c EXCEPT !.ctx = FileOf[m], !.fobj = m, !.fray = r,
                 !.funcxf = <<m, r>>, !.lastS = r]

(* worldfunc: the channels refer to ray r and no modifier. *)
WorldFunc(c, r) ==
  IF c.fobj = World /\ r = c.lastW THEN [c EXCEPT !.ctx = RC]
  ELSE [c EXCEPT !.ctx = RC, !.fobj = World, !.fray = r,
                 !.funcxf = <<World, NoRay>>, !.lastW = r]

(***************************************************************************)
(* freefunc of every object: a reference less each, the definitions of a   *)
(* file are removed with the last.  The context is then the file freed     *)
(* last, in an order that is the caller's: `file' is any of them.          *)
(***************************************************************************)
FreedFiles(c) == {FileOf[m] : m \in {x \in Objects : c.os[x]}} \ {Global}

FreeAll(c, file) ==
  [c EXCEPT !.ctx = file,
            !.os = [m \in Objects |-> FALSE],
            !.refs = [f \in Files |->
                        IF c.refs[f] > Cardinality(Users(c, f))
                        THEN c.refs[f] - Cardinality(Users(c, f)) ELSE 0]]

LastFreed(c) == IF FreedFiles(c) = {} THEN {c.ctx} ELSE FreedFiles(c)
=============================================================================
