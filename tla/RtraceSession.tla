---------------------------- MODULE RtraceSession ---------------------------
(***************************************************************************)
(* A Python process that uses renderer.Rtrace: the class attributes of the *)
(* wrapper (rtrace.py, renderer.py), the C++ singleton (rtrace.cpp), and   *)
(* the statics of the C code (rtinit.c, rtraceparts.c).  Each layer keeps  *)
(* its own copy of what is set; the module is about these copies.          *)
(*                                                                         *)
(* Everything runs in one thread.  A Python exception leaves what was      *)
(* assigned before it.                                                     *)
(***************************************************************************)
EXTENDS RtraceOutput

CONSTANTS
  ArgLists,       \* argument strings a program may set
  Specs,          \* specifications it may give to update_ospec
  Scenes,         \* octrees
  Sources,        \* source descriptions for load_source
  Loads,          \* number of objects in each of these files
  AmbFiles,       \* ambient files
  NoArgs,         \* the arguments of a process that has set none
  MaxObjects      \* bound: objects loaded at a time

NoSpec == <<"no -o option">>
NoFile == "no ambient file"

(***************************************************************************)
(* An argument string: -o, -I, an option that is not known (after the      *)
(* others), whether -ab is positive, the kind of number after -aa          *)
(* ("fraction" is 0.x), and -af.                                           *)
(***************************************************************************)
Arguments ==
  [o : Seq(Characters) \cup {NoSpec}, I : BOOLEAN, unknown : BOOLEAN, ab : BOOLEAN,
   aa : {"unset", "zero", "fraction", "whole"}, af : AmbFiles \cup {NoFile}]

Fits(vs) == Len(WritersOf(KnownPart(vs))) < Slots

ASSUME SessionAssumption ==
  /\ \A vs \in Specs : vs \in Seq(Characters) /\ Fits(vs)
  /\ \A a \in ArgLists : a \in Arguments /\ (a.o # NoSpec => Fits(a.o))
  /\ NoArgs \notin Arguments
  /\ Loads \in [Scenes \cup Sources -> Nat \ {0}]
  /\ Scenes \cap Sources = {}
  /\ NoFile \notin AmbFiles
  /\ MaxObjects \in Nat

VARIABLES
  opt,            \* C: options in force
  out,            \* C: ray_out, castonly, return_value_count
  objects,        \* C: the loaded objects, each by the file it is from
  marked,         \* C: sources marked: "none", the "distant" ones, or "all"
  rvc, srcobj,    \* C++: columns of a result; objects from load_source
  args,           \* Python: arguments set last, or NoArgs
  ospec, features,\* Python: output specification and its columns
  ambient,        \* ambient files: the objects each holds values of
  named           \* the ambient file the program named last

engine == <<opt, out, rvc>>
python == <<args, ospec, features>>
vars == <<engine, objects, marked, srcobj, python, ambient, named>>

Loaded(file) == [k \in 1..Loads[file] |-> file]

-----------------------------------------------------------------------------
(* rtinit: the options of an argument string replace those in force. *)
ApplyOptions(a) == [imm_irrad |-> a.I, ambfile |-> a.af]

OutVals(a) == IF a.o = NoSpec THEN <<"Z">> ELSE a.o

(* rtinit's output: setoutput2 is not reached after an unknown option. *)
ApplyOutput(a) ==
  IF a.unknown THEN out ELSE SetOutput(out, OutVals(a), a.I)

(* A mutation of UpdateOspecTo: features are set before the check. *)
UpdateUnchecked(before, vs, irradiance) ==
  LET after == SetOutput(before, vs, irradiance)
  IN  /\ out' = after
      /\ rvc' = IF after.count < 1 THEN -1 ELSE after.count
      /\ ospec' = vs /\ features' = rvc'

(***************************************************************************)
(* Rtrace.update_ospec: C++ takes what setoutput2 returns for the number   *)
(* of columns; Python raises ValueError when it is negative.               *)
(***************************************************************************)
UpdateOspecTo(before, vs, irradiance) ==
  LET after == SetOutput(before, vs, irradiance)
  IN  /\ out' = after
      /\ \/ /\ after.count < 1
            /\ rvc' = -1
            /\ UNCHANGED <<ospec, features>>
         \/ /\ after.count >= 1
            /\ rvc' = after.count
            /\ ospec' = vs /\ features' = after.count

(***************************************************************************)
(* Rtrace.set_args: initialize the singleton (rtinit after ray_restore),   *)
(* raise ValueError when it fails, else update the output specification to *)
(* that of the arguments or the one set last.                              *)
(***************************************************************************)
Caching(a) == a.ab /\ a.aa \in {"unset", "whole"}      \* check_amb
Stripped(a) == IF Caching(a) THEN a ELSE [a EXCEPT !.af = NoFile]

SetArgsTo(arguments) ==
  LET a == Stripped(arguments)
      initialized == ApplyOutput(a)
  IN  /\ args' = a
      /\ opt' = ApplyOptions(a)
      /\ \/ /\ a.unknown \/ initialized.count < 1
            /\ out' = initialized /\ rvc' = initialized.count
            /\ UNCHANGED <<ospec, features>>
         \/ /\ ~a.unknown /\ initialized.count >= 1
            /\ UpdateOspecTo(initialized, IF a.o = NoSpec THEN ospec ELSE a.o, a.I)

(* A program names an ambient file only for the objects it is about. *)
Names(af, objs) == af \in AmbFiles => ambient[af] \subseteq {objs}

-----------------------------------------------------------------------------
Init ==
  /\ opt = [imm_irrad |-> FALSE, ambfile |-> NoFile]
  /\ out = NoOutput
  /\ objects = <<>> /\ marked = "none"
  /\ rvc = 1 /\ srcobj = 0
  /\ args = NoArgs /\ ospec = <<"v">> /\ features = 1
  /\ ambient = [f \in AmbFiles |-> {}] /\ named = NoFile

SetArgs(a) ==
  /\ Names(a.af, objects)
  /\ SetArgsTo(a)
  /\ named' = a.af
  /\ UNCHANGED <<objects, marked, srcobj, ambient>>

UpdateOspec(vs) ==
  /\ UpdateOspecTo(out, vs, opt.imm_irrad)
  /\ UNCHANGED <<opt, objects, marked, srcobj, args, ambient, named>>

(* marksources, or only distantsources when rays are not traced on. *)
Mark(castonly) == marked' = IF castonly THEN "distant" ELSE "all"

(***************************************************************************)
(* load_scene: the old scene is freed and rtinit run on the arguments once *)
(* more, without a look at its result and without update_ospec.  reset()   *)
(* "must be called before loading an new scene" (rtrace.cpp:124).          *)
(***************************************************************************)
LoadScene(scene) ==
  /\ args # NoArgs
  /\ objects = <<>>
  /\ opt' = ApplyOptions(args)
  /\ out' = ApplyOutput(args) /\ rvc' = out'.count
  /\ objects' = Loaded(scene)
  /\ Mark(out'.castonly)
  /\ UNCHANGED <<srcobj, python, ambient, named>>

(* A mutation of SourceCount: the objects kept are forgotten. *)
LastLoaded(loaded, freed) == loaded

SourceCount(loaded, freed) == srcobj + loaded - freed

(* A mutation of SourceArgs: the old ambient file is kept. *)
SameAmbFile(af) == [args EXCEPT !.af = IF af = NoFile THEN @ ELSE af]

(* The arguments load_source sets when ambient values are cached. *)
SourceArgs(af) == [args EXCEPT !.af = af]

(***************************************************************************)
(* load_source: free objects from the end of the list (by default those    *)
(* counted in srcobj), load a source, mark all sources, and set the        *)
(* arguments again, without the old ambient file, when values are cached.  *)
(***************************************************************************)
LoadSource(file, freesrc, af) ==
  LET freed == IF freesrc < 0 THEN srcobj ELSE freesrc
      kept == SubSeq(objects, 1, Len(objects) - freed)
  IN  /\ args # NoArgs /\ objects # <<>>
      /\ freed <= Len(objects)
      /\ Len(kept) + Loads[file] <= MaxObjects
      /\ objects' = kept \o Loaded(file)
      /\ srcobj' = SourceCount(Loads[file], freed)
      /\ Mark(out.castonly)
      /\ \/ /\ Caching(args) /\ Names(af, objects')
            /\ SetArgsTo(SourceArgs(af))
            /\ named' = IF af = NoFile THEN named ELSE af
         \/ /\ ~Caching(args) /\ af = NoFile
            /\ UNCHANGED <<engine, python, named>>
      /\ UNCHANGED ambient

(***************************************************************************)
(* A call that traces rays adds to the ambient file.  After a refused      *)
(* specification the result has no room for what is written: the program   *)
(* is taken to set another one first.                                      *)
(***************************************************************************)
Call ==
  /\ objects # <<>> /\ rvc > 0
  /\ ambient' = IF out.castonly \/ opt.ambfile = NoFile THEN ambient
                ELSE [ambient EXCEPT ![opt.ambfile] = @ \cup {objects}]
  /\ UNCHANGED <<engine, objects, marked, srcobj, python, named>>

Reset ==
  /\ objects' = <<>> /\ marked' = "none"
  /\ srcobj' = 0
  /\ args' = NoArgs
  /\ opt' = [opt EXCEPT !.ambfile = NoFile] /\ named' = NoFile
  /\ UNCHANGED <<out, rvc, ospec, features, ambient>>

Next ==
  \/ \E a \in ArgLists : SetArgs(a)
  \/ \E vs \in Specs : UpdateOspec(vs)
  \/ \E scene \in Scenes : LoadScene(scene)
  \/ \E file \in Sources, freesrc \in -1..srcobj, af \in AmbFiles \cup {NoFile} :
       LoadSource(file, freesrc, af)
  \/ Call
  \/ Reset

Spec == Init /\ [][Next]_vars

-----------------------------------------------------------------------------
(* Types of what the layers keep. *)
TypeOK ==
  /\ opt \in [imm_irrad : BOOLEAN, ambfile : AmbFiles \cup {NoFile}]
  /\ out \in Outputs
  /\ objects \in Seq(Scenes \cup Sources)
  /\ marked \in {"none", "distant", "all"}
  /\ rvc \in Nat \cup {-1} /\ srcobj \in Nat
  /\ args \in Arguments \cup {NoArgs}
  /\ ospec \in Seq(Characters) /\ features \in Nat
  /\ ambient \in [AmbFiles -> SUBSET Seq(Scenes \cup Sources)]
  /\ named \in AmbFiles \cup {NoFile}

(***************************************************************************)
(* A result has as many columns as rtrace_call allocates and the writers   *)
(* fill, also after specifications that were refused half way; or no       *)
(* specification was ever accepted and nothing is written.                 *)
(***************************************************************************)
ResultIsOutput ==
  rvc > 0 =>
    /\ rvc = out.count
    /\ rvc = Written(out.table) \/ out.table[1] = NoWriter

(***************************************************************************)
(* srcobj counts the objects from load_source, which are at the end of the *)
(* list: "If negative removes all sources loaded by this function"         *)
(* (rtrace.cpp:164).                                                       *)
(***************************************************************************)
SourcesCounted ==
  /\ srcobj <= Len(objects)
  /\ \A k \in DOMAIN objects :
       objects[k] \in Sources <=> k > Len(objects) - srcobj

(***************************************************************************)
(* The ambient file in use has values of the loaded scene and sources only *)
(* (rtrace.py, load_source: the ambient file is replaced or stripped).     *)
(***************************************************************************)
AmbientFresh ==
  objects # <<>> /\ opt.ambfile # NoFile =>
    ambient[opt.ambfile] \subseteq {objects}

(***************************************************************************)
(* When values are cached, an ambient file that was named and has no       *)
(* values of other objects is in use: "if you are using ambient caching,   *)
(* you must give an ambient file, because without a file ambient values    *)
(* are not shared across processes or successive calls" (rtrace.py:52).    *)
(***************************************************************************)
NamedFileUsed ==
  (/\ objects # <<>> /\ args.ab /\ args.aa # "zero"
   /\ named # NoFile /\ ambient[named] \subseteq {objects})
    => opt.ambfile = named

(***************************************************************************)
(* When rays are traced the light sources have been marked ("any actual    *)
(* ray traversal to do?", rtinit.c:289): a change of the output must not   *)
(* leave a scene without its local sources.                                *)
(***************************************************************************)
SourcesMarked ==
  objects # <<>> /\ out.count > 0 /\ ~out.castonly => marked = "all"
=============================================================================
