------------------------- MODULE RtraceSessionProofs ------------------------
(***************************************************************************)
(* Proofs about RtraceSession, for all argument strings, specifications,   *)
(* scenes and sources: the count of source objects, the ambient file in    *)
(* use, and the columns of a result.                                       *)
(***************************************************************************)
EXTENDS RtraceSession, FiniteInduction

Files == Scenes \cup Sources

CountInv ==
  /\ objects \in Seq(Files) /\ srcobj \in Nat
  /\ SourcesCounted

LEMMA LoadedObjects ==
  ASSUME SessionAssumption, NEW file \in Files
  PROVE  /\ Loads[file] \in Nat \ {0}
         /\ Loaded(file) \in Seq(Files)
         /\ Len(Loaded(file)) = Loads[file]
         /\ \A k \in 1..Loads[file] : Loaded(file)[k] = file
<1>1. Loads[file] \in Nat \ {0}
  BY DEF SessionAssumption, Files
<1>. QED BY <1>1 DEF Loaded

(* Steps that leave objects and count alone. *)
LEMMA CountUntouched ==
  ASSUME CountInv, UNCHANGED <<objects, srcobj>>
  PROVE  CountInv'
BY DEF CountInv, SourcesCounted

(* A scene is loaded into an empty list, when nothing is counted. *)
LEMMA LoadSceneCounts ==
  ASSUME SessionAssumption, CountInv, NEW scene \in Scenes, LoadScene(scene)
  PROVE  CountInv'
<1>1. srcobj' = 0
  BY DEF CountInv, SourcesCounted, LoadScene
<1>2. objects' = Loaded(scene) /\ scene \in Files /\ scene \notin Sources
  BY DEF LoadScene, SessionAssumption, Files
<1>3. /\ Loads[scene] \in Nat /\ objects' \in Seq(Files)
      /\ Len(objects') = Loads[scene]
      /\ \A k \in 1..Loads[scene] : objects'[k] = scene
  BY <1>2, LoadedObjects
<1>4. DOMAIN objects' = 1..Loads[scene]
  BY <1>3
<1>5. \A k \in DOMAIN objects' : objects'[k] \notin Sources /\ k <= Len(objects') - 0
  BY <1>2, <1>3, <1>4
<1>. QED BY <1>1, <1>3, <1>5 DEF CountInv, SourcesCounted

(* Freed are the last objects, all of them counted. *)
LEMMA LoadSourceCounts ==
  ASSUME SessionAssumption, CountInv,
         NEW file \in Sources, NEW freesrc \in -1..srcobj,
         NEW af, LoadSource(file, freesrc, af)
  PROVE  CountInv'
<1>. DEFINE freed == IF freesrc < 0 THEN srcobj ELSE freesrc
            left == Len(objects) - freed
            kept == SubSeq(objects, 1, left)
            loaded == Loaded(file)
<1>1. /\ objects \in Seq(Files) /\ srcobj \in Nat /\ srcobj <= Len(objects)
      /\ \A k \in DOMAIN objects :
           objects[k] \in Sources <=> k > Len(objects) - srcobj
  BY DEF CountInv, SourcesCounted
<1>2. freed \in 0..srcobj /\ left \in 0..Len(objects)
  BY <1>1
<1>3. objects' = kept \o loaded /\ srcobj' = srcobj + Loads[file] - freed
  BY DEF LoadSource, SourceCount
<1>4. file \in Files
  BY DEF Files
<1>5. /\ Loads[file] \in Nat \ {0} /\ loaded \in Seq(Files)
      /\ Len(loaded) = Loads[file]
      /\ \A k \in 1..Loads[file] : loaded[k] = file
  BY <1>4, LoadedObjects
<1>6. /\ kept \in Seq(Files) /\ Len(kept) = left
      /\ \A k \in 1..left : kept[k] = objects[k]
  <2>. HIDE DEF left
  <2>. QED BY <1>1, <1>2
<1>. HIDE DEF kept, left, loaded
<1>7. /\ objects' \in Seq(Files) /\ Len(objects') = left + Loads[file]
      /\ \A k \in 1..left : objects'[k] = objects[k]
      /\ \A k \in (left + 1)..(left + Loads[file]) : objects'[k] = file
  <2>1. left \in Nat
    BY <1>2, <1>1
  <2>2. /\ objects' \in Seq(Files) /\ Len(objects') = left + Loads[file]
        /\ \A k \in 1..(left + Loads[file]) :
             objects'[k] = IF k <= left THEN kept[k] ELSE loaded[k - left]
    <3>1. kept \in Seq(Files) /\ loaded \in Seq(Files) /\ objects' = kept \o loaded
      BY <1>3, <1>5, <1>6
    <3>2. /\ objects' \in Seq(Files) /\ Len(objects') = Len(kept) + Len(loaded)
          /\ \A k \in 1..(Len(kept) + Len(loaded)) :
               objects'[k] = IF k <= Len(kept) THEN kept[k]
                             ELSE loaded[k - Len(kept)]
      BY <3>1, ConcatProperties, ZenonT(30)
    <3>. QED BY <3>2, <1>5, <1>6
  <2>3. ASSUME NEW k \in (left + 1)..(left + Loads[file])
        PROVE  objects'[k] = file
    <3>1. k \in 1..(left + Loads[file]) /\ ~(k <= left) /\ k - left \in 1..Loads[file]
      BY <2>1, <1>5
    <3>. QED BY <3>1, <2>2, <1>5
  <2>4. ASSUME NEW k \in 1..left
        PROVE  objects'[k] = objects[k]
    <3>1. k \in 1..(left + Loads[file]) /\ k <= left
      BY <2>1, <1>5
    <3>. QED BY <3>1, <2>2, <1>6
  <2>. QED BY <2>2, <2>3, <2>4
<1>8. Len(objects') - srcobj' = Len(objects) - srcobj /\ srcobj' \in Nat
  <2>1. left = Len(objects) - freed /\ Len(objects) \in Nat
    BY <1>1 DEF left
  <2>. DEFINE size == Len(objects)
              new == Loads[file]
  <2>2. size \in Nat /\ new \in Nat /\ srcobj \in Nat /\ freed \in 0..srcobj
    BY <2>1, <1>1, <1>2, <1>5
  <2>3. Len(objects') = size - freed + new /\ srcobj' = srcobj + new - freed
    BY <2>1, <1>3, <1>7
  <2>. HIDE DEF freed, size, new
  <2>4. Len(objects') - srcobj' = size - srcobj /\ srcobj' \in Nat
    BY <2>2, <2>3
  <2>. QED BY <2>4 DEF size
<1>9. left >= Len(objects) - srcobj /\ left <= Len(objects)
  BY <1>1, <1>2 DEF left
<1>10. ASSUME NEW k \in 1..(left + Loads[file])
       PROVE  objects'[k] \in Sources <=> k > Len(objects) - srcobj
  <2>1. CASE k <= left
    <3>1. k \in 1..left /\ k \in DOMAIN objects
      BY <2>1, <1>1, <1>2, <1>9
    <3>. QED BY <3>1, <1>1, <1>7
  <2>2. CASE k > left
    <3>1. k \in (left + 1)..(left + Loads[file]) /\ Len(objects) \in Nat
      BY <2>2, <1>1, <1>2, <1>5
    <3>2. objects'[k] \in Sources
      BY <3>1, <1>7
    <3>3. k > Len(objects) - srcobj
      BY <2>2, <3>1, <1>1, <1>2, <1>9
    <3>. QED BY <3>2, <3>3
  <2>. QED BY <2>1, <2>2, <1>2, <1>5
<1>11. srcobj' <= Len(objects')
  BY <1>1, <1>7, <1>8, <1>2, <1>5
<1>12. DOMAIN objects' = 1..(left + Loads[file])
  BY <1>7
<1>. QED BY <1>7, <1>8, <1>10, <1>11, <1>12 DEF CountInv, SourcesCounted

LEMMA CountStep ==
  ASSUME SessionAssumption, CountInv, [Next]_vars
  PROVE  CountInv'
<1>1. CASE \E a \in ArgLists : SetArgs(a)
  BY <1>1, CountUntouched DEF SetArgs
<1>2. CASE \E vs \in Specs : UpdateOspec(vs)
  BY <1>2, CountUntouched DEF UpdateOspec
<1>3. CASE \E scene \in Scenes : LoadScene(scene)
  BY <1>3, LoadSceneCounts
<1>4. CASE \E file \in Sources, freesrc \in -1..srcobj,
              af \in AmbFiles \cup {NoFile} : LoadSource(file, freesrc, af)
  BY <1>4, LoadSourceCounts
<1>5. CASE Call
  BY <1>5, CountUntouched DEF Call
<1>6. CASE Reset
  BY <1>6, EmptySeq DEF Reset, CountInv, SourcesCounted
<1>7. CASE UNCHANGED vars
  BY <1>7, CountUntouched DEF vars
<1>. QED BY <1>1, <1>2, <1>3, <1>4, <1>5, <1>6, <1>7 DEF Next

(***************************************************************************)
(* The objects counted in srcobj are those load_source has loaded, and     *)
(* they are at the end of the list, whatever is loaded and freed.          *)
(***************************************************************************)
THEOREM SourcesCountedAlways ==
  ASSUME SessionAssumption
  PROVE  Spec => []SourcesCounted
<1>1. Init => CountInv
  BY EmptySeq DEF Init, CountInv, SourcesCounted
<1>2. CountInv /\ [Next]_vars => CountInv'
  BY CountStep
<1>3. CountInv => SourcesCounted
  BY DEF CountInv
<1>. QED BY <1>1, <1>2, <1>3, PTL DEF Spec

-----------------------------------------------------------------------------
(***************************************************************************)
(* The ambient file in force is that of the arguments; the arguments name  *)
(* one only when values are cached, and one with values of the loaded      *)
(* objects only.  Before a scene is loaded that is a file without values.  *)
(***************************************************************************)
Options == [imm_irrad : BOOLEAN, ambfile : AmbFiles \cup {NoFile}]

FileInForce ==
  opt.ambfile # NoFile => args # NoArgs /\ opt.ambfile = args.af

ArgsStripped == args # NoArgs /\ ~Caching(args) => args.af = NoFile

ArgsFresh == args # NoArgs => Names(args.af, objects)

NothingWithoutObjects == \A f \in AmbFiles : <<>> \notin ambient[f]

AmbientInv ==
  /\ opt \in Options
  /\ args \in Arguments \cup {NoArgs}
  /\ ambient \in [AmbFiles -> SUBSET Seq(Files)]
  /\ FileInForce /\ ArgsStripped /\ ArgsFresh /\ NothingWithoutObjects

LEMMA FreshInForce ==
  ASSUME AmbientInv
  PROVE  AmbientFresh
BY DEF AmbientInv, AmbientFresh, Options, FileInForce, ArgsFresh, Names

LEMMA AppliedOptions ==
  ASSUME AmbientInv, NEW a \in Arguments
  PROVE  ApplyOptions(a) \in Options /\ ApplyOptions(a).ambfile = a.af
BY DEF Arguments, ApplyOptions, Options

LEMMA StrippedArguments ==
  ASSUME NEW a \in Arguments
  PROVE  /\ Stripped(a) \in Arguments
         /\ Stripped(a).af \in {a.af, NoFile}
         /\ ~Caching(Stripped(a)) => Stripped(a).af = NoFile
BY DEF Stripped, Arguments, Caching

(* set_args with a file fit for the objects there are afterwards. *)
LEMMA SetArgsFresh ==
  ASSUME SessionAssumption, AmbientInv,
         NEW a \in Arguments, Names(a.af, objects'), SetArgsTo(a),
         UNCHANGED ambient
  PROVE  AmbientInv'
<1>. DEFINE b == Stripped(a)
<1>1. args' = b /\ opt' = ApplyOptions(b)
  BY DEF SetArgsTo
<1>2. /\ b \in Arguments /\ b.af \in {a.af, NoFile}
      /\ ~Caching(b) => b.af = NoFile
  BY StrippedArguments
<1>3. opt' \in Options /\ opt'.ambfile = b.af
  BY <1>1, <1>2, AppliedOptions
<1>4. b # NoArgs
  BY <1>2 DEF SessionAssumption
<1>. HIDE DEF b
<1>5. FileInForce' /\ ArgsStripped'
  BY <1>1, <1>2, <1>3, <1>4 DEF FileInForce, ArgsStripped, Caching
<1>6. ArgsFresh'
  BY <1>1, <1>2 DEF ArgsFresh, Names
<1>. QED BY <1>1, <1>2, <1>3, <1>5, <1>6
         DEF AmbientInv, NothingWithoutObjects

(* Nothing changes that an ambient file depends on. *)
LEMMA AmbientUntouched ==
  ASSUME AmbientInv, UNCHANGED <<opt, args, objects, ambient>>
  PROVE  AmbientInv'
BY DEF AmbientInv, FileInForce, ArgsStripped, ArgsFresh, Names,
       NothingWithoutObjects, Caching

(* Without objects the file of the arguments has no values. *)
LEMMA LoadSceneFresh ==
  ASSUME SessionAssumption, AmbientInv, NEW scene, LoadScene(scene)
  PROVE  AmbientInv'
<1>1. /\ args \in Arguments /\ objects = <<>>
      /\ opt' = ApplyOptions(args) /\ UNCHANGED <<args, ambient>>
  BY DEF AmbientInv, LoadScene, python
<1>2. opt' \in Options /\ opt'.ambfile = args.af
  BY <1>1, AppliedOptions
<1>3. args # NoArgs
  BY DEF LoadScene
<1>4. args.af \in AmbFiles => ambient[args.af] = {}
  BY <1>1, <1>3 DEF AmbientInv, ArgsFresh, Names, NothingWithoutObjects
<1>5. FileInForce' /\ ArgsStripped' /\ ArgsFresh'
  BY <1>1, <1>2, <1>3, <1>4
  DEF AmbientInv, FileInForce, ArgsStripped, ArgsFresh, Names, Caching
<1>. QED BY <1>1, <1>2, <1>5 DEF AmbientInv, NothingWithoutObjects

(* load_source: a fresh file when values are cached, else none at all. *)
LEMMA LoadSourceFresh ==
  ASSUME SessionAssumption, AmbientInv,
         NEW file, NEW freesrc, NEW af \in AmbFiles \cup {NoFile},
         LoadSource(file, freesrc, af)
  PROVE  AmbientInv'
<1>1. args # NoArgs /\ args \in Arguments /\ UNCHANGED ambient
  BY DEF LoadSource, AmbientInv
<1>2. CASE Names(af, objects') /\ SetArgsTo(SourceArgs(af))
  <2>1. SourceArgs(af) \in Arguments /\ SourceArgs(af).af = af
    BY <1>1 DEF SourceArgs, Arguments
  <2>. QED BY <1>1, <1>2, <2>1, SetArgsFresh
<1>3. CASE ~Caching(args) /\ UNCHANGED <<opt, args>>
  <2>1. args.af = NoFile
    BY <1>1, <1>3 DEF AmbientInv, ArgsStripped
  <2>. QED BY <1>1, <1>3, <2>1
           DEF AmbientInv, FileInForce, ArgsStripped, ArgsFresh, Names,
               NothingWithoutObjects, Caching
<1>. QED BY <1>2, <1>3 DEF LoadSource, engine, python

(* A call writes values of the loaded objects to the file in force. *)
LEMMA CallFresh ==
  ASSUME CountInv, AmbientInv, Call
  PROVE  AmbientInv'
<1>1. UNCHANGED <<opt, objects, args>> /\ objects # <<>> /\ objects \in Seq(Files)
  BY DEF Call, engine, python, CountInv
<1>2. CASE UNCHANGED ambient
  BY <1>1, <1>2, AmbientUntouched
<1>3. CASE /\ opt.ambfile # NoFile
           /\ ambient' = [ambient EXCEPT ![opt.ambfile] = @ \cup {objects}]
  <2>1. opt.ambfile \in AmbFiles /\ opt.ambfile = args.af /\ args # NoArgs
    BY <1>3 DEF AmbientInv, Options, FileInForce
  <2>2. ambient[opt.ambfile] \subseteq {objects}
    BY <2>1 DEF AmbientInv, ArgsFresh, Names
  <2>3. ambient' \in [AmbFiles -> SUBSET Seq(Files)]
    BY <1>1, <1>3, <2>1 DEF AmbientInv
  <2>4. ArgsFresh' /\ NothingWithoutObjects'
    BY <1>1, <1>3, <2>1, <2>2
    DEF AmbientInv, ArgsFresh, Names, NothingWithoutObjects
  <2>. QED BY <1>1, <2>3, <2>4
           DEF AmbientInv, FileInForce, ArgsStripped, Caching
<1>. QED BY <1>2, <1>3 DEF Call

LEMMA ResetFresh ==
  ASSUME AmbientInv, Reset
  PROVE  AmbientInv'
<1>1. args' = NoArgs /\ opt' = [opt EXCEPT !.ambfile = NoFile] /\ UNCHANGED ambient
  BY DEF Reset
<1>2. opt' \in Options /\ opt'.ambfile = NoFile
  BY <1>1 DEF AmbientInv, Options
<1>. QED BY <1>1, <1>2
         DEF AmbientInv, FileInForce, ArgsStripped, ArgsFresh,
             NothingWithoutObjects

LEMMA AmbientStep ==
  ASSUME SessionAssumption,
         CountInv, AmbientInv, [Next]_vars
  PROVE  AmbientInv'
<1>1. ASSUME NEW a \in ArgLists, SetArgs(a) PROVE AmbientInv'
  <2>1. a \in Arguments
    BY DEF SessionAssumption
  <2>2. /\ Names(a.af, objects') /\ SetArgsTo(a) /\ UNCHANGED ambient
    BY <1>1 DEF SetArgs
  <2>. QED BY <2>1, <2>2, SetArgsFresh
<1>2. CASE \E vs \in Specs : UpdateOspec(vs)
  BY <1>2, AmbientUntouched DEF UpdateOspec
<1>3. CASE \E scene \in Scenes : LoadScene(scene)
  BY <1>3, LoadSceneFresh
<1>4. CASE \E file \in Sources, freesrc \in -1..srcobj,
              af \in AmbFiles \cup {NoFile} : LoadSource(file, freesrc, af)
  BY <1>4, LoadSourceFresh
<1>5. CASE Call
  BY <1>5, CallFresh
<1>6. CASE Reset
  BY <1>6, ResetFresh
<1>7. CASE UNCHANGED vars
  BY <1>7, AmbientUntouched DEF vars, engine, python
<1>. QED BY <1>1, <1>2, <1>3, <1>4, <1>5, <1>6, <1>7 DEF Next

LEMMA SessionInit ==
  ASSUME Init
  PROVE  CountInv /\ AmbientInv
<1>1. CountInv
  BY EmptySeq DEF Init, CountInv, SourcesCounted
<1>2. opt \in Options /\ opt.ambfile = NoFile
  BY DEF Init, Options
<1>3. ambient \in [AmbFiles -> SUBSET Seq(Files)] /\ NothingWithoutObjects
  BY DEF Init, NothingWithoutObjects
<1>. QED BY <1>1, <1>2, <1>3
         DEF Init, AmbientInv, FileInForce, ArgsStripped, ArgsFresh

(***************************************************************************)
(* A program that names an ambient file only for objects it is about never *)
(* has a call read or write values of other objects: load_source does not  *)
(* leave the file of the sources before in force.                          *)
(***************************************************************************)
THEOREM AmbientFreshAlways ==
  ASSUME SessionAssumption
  PROVE  Spec => []AmbientFresh
<1>1. Init => CountInv /\ AmbientInv
  BY SessionInit
<1>2. CountInv /\ AmbientInv /\ [Next]_vars => (CountInv /\ AmbientInv)'
  BY CountStep, AmbientStep
<1>3. CountInv /\ AmbientInv => AmbientFresh
  BY FreshInForce
<1>. QED BY <1>1, <1>2, <1>3, PTL DEF Spec

-----------------------------------------------------------------------------
(***************************************************************************)
(* The table of writers.  setoutput2 leaves an accepted specification      *)
(* terminated in it, so that what is written is what was counted.          *)
(***************************************************************************)
LEMMA Widths ==
  /\ \A l \in Letters : Width[l] \in Nat /\ l # NoWriter
  /\ {"V", "l", "v", "Z"} \subseteq Letters
BY DEF Letters, Width, NoWriter

LEMMA KnownPartIsKnown ==
  ASSUME NEW vs \in Seq(Characters)
  PROVE  KnownPart(vs) \in Seq(Letters)
<1>. DEFINE known == {k \in DOMAIN vs : \A j \in 1..k : vs[j] \in Letters}
            n == Cardinality(known)
<1>1. Len(vs) \in Nat /\ DOMAIN vs = 1..Len(vs)
  OBVIOUS
<1>2. n \in 0..Len(vs) /\ known = 1..n
  <2>1. known \in SUBSET (1..Len(vs))
    BY <1>1
  <2>2. \A k \in known : \A j \in 1..k : j \in known
    BY <1>1
  <2>. HIDE DEF known
  <2>. QED BY <1>1, <2>1, <2>2, InitialSegment
<1>3. \A k \in 1..n : vs[k] \in Letters
  <2>1. \A k \in known : k \in 1..k
    BY <1>1
  <2>2. \A k \in known : vs[k] \in Letters
    BY <2>1
  <2>. HIDE DEF n, known
  <2>. QED BY <1>2, <2>2
<1>4. KnownPart(vs) = SubSeq(vs, 1, n)
  BY DEF KnownPart
<1>. HIDE DEF n
<1>5. SubSeq(vs, 1, n) = [k \in 1..n |-> vs[k]]
  BY <1>1, <1>2
<1>. QED BY <1>2, <1>3, <1>4, <1>5

LEMMA WritersAreLetters ==
  ASSUME NEW vs \in Seq(Letters)
  PROVE  WritersOf(vs) \in Seq(Letters)
<1>. DEFINE parts == [k \in DOMAIN vs |->
                        IF vs[k] = "V" THEN <<"V", "l">> ELSE <<vs[k]>>]
<1>1. \A k \in 1..Len(vs) : parts[k] \in Seq(Letters)
  BY Widths
<1>2. parts \in Seq(Seq(Letters))
  <2>1. Len(vs) \in Nat /\ DOMAIN parts = 1..Len(vs)
    OBVIOUS
  <2>2. parts \in [1..Len(vs) -> Seq(Letters)]
    BY <1>1, <2>1
  <2>. HIDE DEF parts
  <2>. QED BY <2>1, <2>2
<1>. HIDE DEF parts
<1>3. FlattenSeq(parts) \in Seq(Letters)
  BY <1>2, FlattenSeqType
<1>. QED BY <1>3 DEF WritersOf, parts

LEMMA ComponentsCount ==
  ASSUME NEW ws \in Seq(Letters)
  PROVE  Components(ws) \in Nat
<1>. DEFINE f == [k \in DOMAIN ws |-> Width[ws[k]]]
<1>1. IsFiniteSet(DOMAIN ws)
  BY FS_Interval
<1>2. \A k \in DOMAIN ws : f[k] \in Nat
  BY Widths
<1>3. DOMAIN f = DOMAIN ws
  OBVIOUS
<1>. HIDE DEF f
<1>4. SumFunctionOnSet(f, DOMAIN ws) \in Nat
  BY <1>1, <1>2, SumNat
<1>. QED BY <1>3, <1>4 DEF Components, SumFunction, f

(* An accepted specification is in the table up to the terminator. *)
LEMMA TerminatedTable ==
  ASSUME SlotsAssumption, NEW table \in [1..Slots -> Writers],
         NEW ws \in Seq(Letters), Len(ws) < Slots,
         NEW after, after = Overwrite(table, ws \o <<NoWriter>>)
  PROVE  Written(after) = Components(ws)
<1>. DEFINE n == Len(ws)
            new == ws \o <<NoWriter>>
<1>1. n \in Nat /\ DOMAIN ws = 1..n /\ n + 1 \in 1..Slots
  BY DEF SlotsAssumption
<1>2. /\ DOMAIN new = 1..(n + 1) /\ new[n + 1] = NoWriter
      /\ \A k \in 1..n : new[k] = ws[k]
  <2>1. new = Append(ws, NoWriter)
    BY AppendIsConcat
  <2>. QED BY <2>1
<1>. HIDE DEF new
<1>3. /\ DOMAIN after = 1..Slots /\ after[n + 1] = NoWriter
      /\ \A k \in 1..n : after[k] = ws[k]
  BY <1>1, <1>2 DEF Overwrite, new
<1>4. \A k \in 1..n : after[k] # NoWriter
  BY <1>1, <1>3, Widths
<1>. HIDE DEF n
<1>5. Active(after) = 1..n
  <2>1. ASSUME NEW k \in Active(after) PROVE k \in 1..n
    <3>1. k \in 1..Slots /\ \A j \in 1..k : after[j] # NoWriter
      BY <1>3 DEF Active
    <3>2. ~(n + 1 \in 1..k)
      BY <1>3, <3>1
    <3>. QED BY <1>1, <3>1, <3>2
  <2>2. ASSUME NEW k \in 1..n PROVE k \in Active(after)
    <3>1. k \in 1..Slots /\ \A j \in 1..k : j \in 1..n
      BY <1>1 DEF SlotsAssumption
    <3>. QED BY <1>3, <1>4, <3>1 DEF Active
  <2>. QED BY <2>1, <2>2
<1>6. [k \in Active(after) |-> Width[after[k]]] = [k \in DOMAIN ws |-> Width[ws[k]]]
  BY <1>1, <1>3, <1>5
<1>. QED BY <1>6 DEF Written, Components

(***************************************************************************)
(* setoutput2 keeps the type of the table; a count it returns is that of   *)
(* the columns the table writes.                                           *)
(***************************************************************************)
CountIsWritten(o) == o.count # 0 => o.count = Written(o.table)

LEMMA OverwriteType ==
  ASSUME SlotsAssumption, NEW table \in [1..Slots -> Writers],
         NEW ws \in Seq(Letters)
  PROVE  /\ Overwrite(table, ws \o <<>>) \in [1..Slots -> Writers]
         /\ Overwrite(table, ws \o <<NoWriter>>) \in [1..Slots -> Writers]
<1>1. ASSUME NEW new \in Seq(Writers)
      PROVE  Overwrite(table, new) \in [1..Slots -> Writers]
  BY <1>1 DEF Overwrite
<1>2. /\ ws \in Seq(Writers) /\ <<>> \in Seq(Writers)
      /\ <<NoWriter>> \in Seq(Writers)
  BY EmptySeq DEF Writers
<1>3. ws \o <<>> \in Seq(Writers) /\ ws \o <<NoWriter>> \in Seq(Writers)
  BY <1>2, ConcatProperties
<1>. QED BY <1>1, <1>3

LEMMA OutputSet ==
  ASSUME SlotsAssumption, NEW o \in Outputs,
         NEW vs \in Seq(Characters), Fits(vs), NEW irradiance \in BOOLEAN
  PROVE  /\ SetOutput(o, vs, irradiance) \in Outputs
         /\ CountIsWritten(SetOutput(o, vs, irradiance))
<1>. DEFINE known == KnownPart(vs)
            ws == WritersOf(known)
            end == IF known = vs THEN <<NoWriter>> ELSE <<>>
            cast == \A k \in DOMAIN ws : ws[k] \notin Traced
            fails == known # vs \/ Refused(ws, cast, irradiance)
            table == Overwrite(o.table, ws \o end)
            count == IF fails THEN 0 ELSE Components(ws)
<1>1. CASE vs = <<>>
  BY <1>1 DEF SetOutput, Outputs, CountIsWritten
<1>2. CASE vs # <<>>
  <2>1. SetOutput(o, vs, irradiance)
          = [table |-> table, castonly |-> cast, count |-> count]
    BY <1>2 DEF SetOutput
  <2>2. ws \in Seq(Letters) /\ Len(ws) < Slots /\ cast \in BOOLEAN
    BY KnownPartIsKnown, WritersAreLetters DEF Fits
  <2>3. o.table \in [1..Slots -> Writers]
    BY DEF Outputs
  <2>. HIDE DEF ws, cast
  <2>4. table \in [1..Slots -> Writers]
    BY <2>2, <2>3, OverwriteType
  <2>5. count \in Nat
    BY <2>2, ComponentsCount
  <2>6. ASSUME count # 0 PROVE count = Written(table)
    <3>1. known = vs /\ count = Components(ws)
      BY <2>6
    <3>2. table = Overwrite(o.table, ws \o <<NoWriter>>)
      BY <3>1
    <3>. QED BY <2>2, <2>3, <3>1, <3>2, TerminatedTable
  <2>. HIDE DEF table, count
  <2>. QED BY <2>1, <2>2, <2>4, <2>5, <2>6 DEF Outputs, CountIsWritten
<1>. QED BY <1>1, <1>2

-----------------------------------------------------------------------------
(***************************************************************************)
(* The layers agree on the columns: what C++ keeps is the count of the     *)
(* table, and what Python may set next has room in it.                     *)
(***************************************************************************)
OutputInv ==
  /\ out \in Outputs /\ (CountIsWritten(out) \/ out.table[1] = NoWriter)
  /\ rvc \in Nat \cup {-1} /\ (rvc > 0 => rvc = out.count)
  /\ ospec \in Seq(Characters) /\ Fits(ospec) /\ features \in Nat
  /\ args # NoArgs /\ args.o # NoSpec => Fits(args.o)

LEMMA ColumnsAgree ==
  ASSUME OutputInv
  PROVE  ResultIsOutput
<1>. SUFFICES ASSUME rvc > 0 PROVE rvc = out.count /\ (rvc = Written(out.table) \/ out.table[1] = NoWriter)
  BY DEF ResultIsOutput
<1>1. rvc = out.count /\ out.count # 0
  BY DEF OutputInv
<1>. QED BY <1>1 DEF OutputInv, CountIsWritten

(* A letter alone is a specification that fits. *)
LEMMA LetterFits ==
  ASSUME SlotsAssumption, NEW l \in Letters, l # "V"
  PROVE  <<l>> \in Seq(Characters) /\ Fits(<<l>>)
<1>1. <<l>> \in Seq(Letters) /\ <<l>> \in Seq(Characters)
  BY DEF Characters
<1>2. KnownPart(<<l>>) = <<l>>
  <2>. DEFINE known == {k \in DOMAIN <<l>> : \A j \in 1..k : <<l>>[j] \in Letters}
  <2>1. known = 1..1
    OBVIOUS
  <2>2. Cardinality(known) = 1
    <3>1. Cardinality(1..1) = 1
      BY SegmentSize
    <3>. QED BY <2>1, <3>1
  <2>3. KnownPart(<<l>>) = SubSeq(<<l>>, 1, 1)
    BY <2>2 DEF KnownPart
  <2>. QED BY <2>3
<1>3. WritersOf(<<l>>) = <<l>>
  <2>. DEFINE parts == [k \in DOMAIN <<l>> |->
                          IF <<l>>[k] = "V" THEN <<"V", "l">> ELSE <<(<<l>>[k])>>]
  <2>1. parts = << <<l>> >>
    <3>1. <<l>>[1] = l /\ DOMAIN <<l>> = 1..1
      OBVIOUS
    <3>2. \A k \in 1..1 : k = 1
      OBVIOUS
    <3>3. parts = [k \in 1..1 |-> <<l>>]
      BY <3>1, <3>2
    <3>. QED BY <3>3
  <2>2. WritersOf(<<l>>) = FlattenSeq(parts)
    BY DEF WritersOf
  <2>. QED BY <1>1, <2>1, <2>2, FlattenSingle
<1>. QED BY <1>1, <1>2, <1>3 DEF Fits, SlotsAssumption

LEMMA AppliedOutput ==
  ASSUME SlotsAssumption, OutputInv,
         NEW a \in Arguments, a.o # NoSpec => Fits(a.o)
  PROVE  /\ ApplyOutput(a) \in Outputs
         /\ CountIsWritten(ApplyOutput(a)) \/ ApplyOutput(a).table[1] = NoWriter
<1>1. CASE a.unknown
  BY <1>1 DEF ApplyOutput, OutputInv
<1>2. CASE ~a.unknown
  <2>1. OutVals(a) \in Seq(Characters) /\ Fits(OutVals(a))
    <3>1. CASE a.o = NoSpec
      <4>1. "Z" \in Letters
        BY Widths
      <4>2. <<"Z">> \in Seq(Characters) /\ Fits(<<"Z">>)
        BY <4>1, LetterFits
      <4>. QED BY <3>1, <4>2 DEF OutVals
    <3>2. CASE a.o # NoSpec
      BY <3>2 DEF Arguments, OutVals
    <3>. QED BY <3>1, <3>2
  <2>2. a.I \in BOOLEAN /\ out \in Outputs
    BY DEF Arguments, OutputInv
  <2>3. ApplyOutput(a) = SetOutput(out, OutVals(a), a.I)
    BY <1>2 DEF ApplyOutput
  <2>. QED BY <2>1, <2>2, <2>3, OutputSet
<1>. QED BY <1>1, <1>2

LEMMA UpdatedOspec ==
  ASSUME SlotsAssumption, OutputInv, NEW before \in Outputs,
         NEW vs \in Seq(Characters), Fits(vs), NEW irradiance \in BOOLEAN,
         UpdateOspecTo(before, vs, irradiance),
         args' # NoArgs /\ args'.o # NoSpec => Fits(args'.o)
  PROVE  OutputInv'
<1>. DEFINE after == SetOutput(before, vs, irradiance)
<1>1. after \in Outputs /\ CountIsWritten(after) /\ out' = after
  BY OutputSet DEF UpdateOspecTo
<1>2. after.count \in Nat
  BY <1>1 DEF Outputs
<1>3. \/ rvc' = -1 /\ UNCHANGED <<ospec, features>>
      \/ rvc' = after.count /\ ospec' = vs /\ features' = after.count
  BY DEF UpdateOspecTo
<1>. HIDE DEF after
<1>4. ospec' \in Seq(Characters) /\ Fits(ospec') /\ features' \in Nat
  BY <1>2, <1>3 DEF OutputInv
<1>5. rvc' \in Nat \cup {-1} /\ (rvc' > 0 => rvc' = out'.count)
  BY <1>1, <1>2, <1>3
<1>. QED BY <1>1, <1>4, <1>5 DEF OutputInv

LEMMA SetArgsOutput ==
  ASSUME SlotsAssumption, OutputInv,
         NEW a \in Arguments, a.o # NoSpec => Fits(a.o), SetArgsTo(a)
  PROVE  OutputInv'
<1>. DEFINE b == Stripped(a)
            initialized == ApplyOutput(b)
<1>1. b \in Arguments /\ b.o = a.o /\ args' = b
  BY StrippedArguments DEF SetArgsTo, Stripped, Arguments
<1>2. /\ initialized \in Outputs
      /\ CountIsWritten(initialized) \/ initialized.table[1] = NoWriter
  <2>. HIDE DEF b
  <2>. QED BY <1>1, AppliedOutput
<1>3. CASE /\ out' = initialized /\ rvc' = initialized.count
           /\ UNCHANGED <<ospec, features>>
  <2>1. initialized.count \in Nat
    BY <1>2 DEF Outputs
  <2>. HIDE DEF b, initialized
  <2>. QED BY <1>1, <1>2, <1>3, <2>1 DEF OutputInv
<1>4. CASE UpdateOspecTo(initialized, IF b.o = NoSpec THEN ospec ELSE b.o, b.I)
  <2>. DEFINE vs == IF b.o = NoSpec THEN ospec ELSE b.o
  <2>1. vs \in Seq(Characters) /\ Fits(vs) /\ b.I \in BOOLEAN
    BY <1>1 DEF Arguments, OutputInv
  <2>2. UpdateOspecTo(initialized, vs, b.I)
    BY <1>4
  <2>3. args' # NoArgs /\ args'.o # NoSpec => Fits(args'.o)
    BY <1>1
  <2>. HIDE DEF b, initialized, vs
  <2>. QED BY <1>2, <2>1, <2>2, <2>3, UpdatedOspec
<1>5. \/ /\ out' = initialized /\ rvc' = initialized.count
         /\ UNCHANGED <<ospec, features>>
      \/ UpdateOspecTo(initialized, IF b.o = NoSpec THEN ospec ELSE b.o, b.I)
  BY DEF SetArgsTo
<1>. QED BY <1>3, <1>4, <1>5

LEMMA OutputUntouched ==
  ASSUME OutputInv, UNCHANGED <<out, rvc, args, ospec, features>>
  PROVE  OutputInv'
BY DEF OutputInv

LEMMA LoadSourceOutput ==
  ASSUME SlotsAssumption, AmbientInv, OutputInv,
         NEW file, NEW freesrc, NEW af \in AmbFiles \cup {NoFile},
         LoadSource(file, freesrc, af)
  PROVE  OutputInv'
<1>1. args # NoArgs /\ args \in Arguments
  BY DEF LoadSource, AmbientInv
<1>2. CASE SetArgsTo(SourceArgs(af))
  <2>1. SourceArgs(af) \in Arguments /\ SourceArgs(af).o = args.o
    BY <1>1 DEF SourceArgs, Arguments
  <2>2. SourceArgs(af).o # NoSpec => Fits(SourceArgs(af).o)
    BY <1>1, <2>1 DEF OutputInv
  <2>. QED BY <1>2, <2>1, <2>2, SetArgsOutput
<1>3. CASE UNCHANGED <<engine, python>>
  BY <1>3, OutputUntouched DEF engine, python
<1>. QED BY <1>2, <1>3 DEF LoadSource

LEMMA OutputStep ==
  ASSUME SessionAssumption, SlotsAssumption,
         AmbientInv, OutputInv, [Next]_vars
  PROVE  OutputInv'
<1>1. ASSUME NEW a \in ArgLists, SetArgs(a) PROVE OutputInv'
  <2>1. a \in Arguments /\ (a.o # NoSpec => Fits(a.o)) /\ SetArgsTo(a)
    BY <1>1 DEF SessionAssumption, SetArgs
  <2>. QED BY <2>1, SetArgsOutput
<1>2. ASSUME NEW vs \in Specs, UpdateOspec(vs) PROVE OutputInv'
  <2>1. vs \in Seq(Characters) /\ Fits(vs)
    BY DEF SessionAssumption
  <2>2. out \in Outputs /\ opt.imm_irrad \in BOOLEAN
    BY DEF OutputInv, AmbientInv, Options
  <2>3. UpdateOspecTo(out, vs, opt.imm_irrad) /\ UNCHANGED args
    BY <1>2 DEF UpdateOspec
  <2>4. args' # NoArgs /\ args'.o # NoSpec => Fits(args'.o)
    BY <2>3 DEF OutputInv
  <2>. QED BY <2>1, <2>2, <2>3, <2>4, UpdatedOspec
<1>3. ASSUME NEW scene \in Scenes, LoadScene(scene) PROVE OutputInv'
  <2>1. args \in Arguments /\ (args.o # NoSpec => Fits(args.o))
    BY <1>3 DEF LoadScene, AmbientInv, OutputInv
  <2>2. /\ ApplyOutput(args) \in Outputs
        /\ CountIsWritten(ApplyOutput(args)) \/ ApplyOutput(args).table[1] = NoWriter
    BY <2>1, AppliedOutput
  <2>3. out' = ApplyOutput(args) /\ rvc' = out'.count /\ UNCHANGED python
    BY <1>3 DEF LoadScene
  <2>4. out'.count \in Nat
    BY <2>2, <2>3 DEF Outputs
  <2>. QED BY <2>2, <2>3, <2>4 DEF OutputInv, python
<1>4. CASE \E file \in Sources, freesrc \in -1..srcobj,
              af \in AmbFiles \cup {NoFile} : LoadSource(file, freesrc, af)
  BY <1>4, LoadSourceOutput
<1>5. CASE Call
  BY <1>5, OutputUntouched DEF Call, engine, python
<1>6. CASE Reset
  BY <1>6 DEF Reset, OutputInv
<1>7. CASE UNCHANGED vars
  BY <1>7, OutputUntouched DEF vars, engine, python
<1>. QED BY <1>1, <1>2, <1>3, <1>4, <1>5, <1>6, <1>7 DEF Next

LEMMA OutputInit ==
  ASSUME SlotsAssumption, Init
  PROVE  OutputInv
<1>1. NoOutput \in Outputs /\ NoOutput.table[1] = NoWriter
  BY DEF NoOutput, Outputs, Writers, SlotsAssumption
<1>2. <<"v">> \in Seq(Characters) /\ Fits(<<"v">>)
  <2>1. "v" \in Letters
    BY Widths
  <2>. QED BY <2>1, LetterFits
<1>3. NoOutput.count = 1
  BY DEF NoOutput
<1>4. /\ out = NoOutput /\ rvc = 1 /\ features = 1
      /\ args = NoArgs /\ ospec = <<"v">>
  BY DEF Init
<1>. QED BY <1>1, <1>2, <1>3, <1>4 DEF OutputInv

(***************************************************************************)
(* A result has the columns its writers fill: whatever specifications are  *)
(* accepted, refused half way or left from before, for any room in the     *)
(* table they fit in (rtrace_call allocates rvc columns, printvals runs    *)
(* ray_out).                                                               *)
(***************************************************************************)
THEOREM ResultIsOutputAlways ==
  ASSUME SessionAssumption, SlotsAssumption
  PROVE  Spec => []ResultIsOutput
<1>. DEFINE IInv == CountInv /\ AmbientInv /\ OutputInv
<1>1. Init => IInv
  BY SessionInit, OutputInit
<1>2. IInv /\ [Next]_vars => IInv'
  BY CountStep, AmbientStep, OutputStep
<1>3. IInv => ResultIsOutput
  BY ColumnsAgree
<1>. QED BY <1>1, <1>2, <1>3, PTL DEF Spec

MarkInv ==
  marked \in {"none", "distant", "all"} /\ named \in AmbFiles \cup {NoFile}

LEMMA MarkStep ==
  ASSUME SessionAssumption, MarkInv, [Next]_vars
  PROVE  MarkInv'
<1>1. ASSUME NEW a \in ArgLists, SetArgs(a) PROVE MarkInv'
  <2>1. a.af \in AmbFiles \cup {NoFile}
    BY DEF SessionAssumption, Arguments
  <2>. QED BY <1>1, <2>1 DEF SetArgs, MarkInv
<1>2. CASE \E vs \in Specs : UpdateOspec(vs)
  BY <1>2 DEF UpdateOspec, MarkInv
<1>3. CASE \E scene \in Scenes : LoadScene(scene)
  BY <1>3 DEF LoadScene, Mark, MarkInv
<1>4. CASE \E file \in Sources, freesrc \in -1..srcobj,
              af \in AmbFiles \cup {NoFile} : LoadSource(file, freesrc, af)
  BY <1>4 DEF LoadSource, Mark, MarkInv
<1>5. CASE Call
  BY <1>5 DEF Call, MarkInv
<1>6. CASE Reset
  BY <1>6 DEF Reset, MarkInv
<1>7. CASE UNCHANGED vars
  BY <1>7 DEF vars, MarkInv
<1>. QED BY <1>1, <1>2, <1>3, <1>4, <1>5, <1>6, <1>7 DEF Next

(***************************************************************************)
(* The types of what the three layers keep.                                *)
(***************************************************************************)
THEOREM TypesAlways ==
  ASSUME SessionAssumption, SlotsAssumption
  PROVE  Spec => []TypeOK
<1>. DEFINE IInv == CountInv /\ AmbientInv /\ OutputInv /\ MarkInv
<1>1. Init => IInv
  <2>1. Init => MarkInv
    BY DEF Init, MarkInv
  <2>. QED BY <2>1, SessionInit, OutputInit
<1>2. IInv /\ [Next]_vars => IInv'
  BY CountStep, AmbientStep, OutputStep, MarkStep
<1>3. IInv => TypeOK
  BY DEF CountInv, AmbientInv, OutputInv, MarkInv, TypeOK, Files, Options
<1>. QED BY <1>1, <1>2, <1>3, PTL DEF Spec
=============================================================================
