------------------------ MODULE RcontribSessionProofs -----------------------
(***************************************************************************)
(* Proofs about RcontribSession, for all modifiers, files, parameters,     *)
(* options and process counts: what expressions are evaluated for, the     *)
(* references of function files, and the width of a result.  The last      *)
(* concerns the lists the class writes, so it assumes Lists = {}.          *)
(***************************************************************************)
EXTENDS RcontribSession, FiniteInduction

(* The early returns of setfunc and worldfunc are right: the ray number    *)
(* each remembers is the one of fray as long as fobj is its own.           *)
Cached(c) ==
  /\ c.fobj = World => c.fray = c.lastW /\ c.funcxf = <<World, NoRay>>
  /\ c.fobj # World => c.fray = c.lastS /\ c.funcxf = <<c.fobj, c.lastS>>

Counted(c) == \A f \in Files : c.refs[f] = Cardinality(Users(c, f))

CalcInv(c) == c \in Calcs /\ Cached(c) /\ Counted(c)

(* Operators that touch neither references, compiled modifiers, nor caches. *)
LEMMA SameCaches ==
  ASSUME NEW c \in Calcs, NEW d \in Calcs, CalcInv(c),
         d.fobj = c.fobj, d.fray = c.fray, d.funcxf = c.funcxf,
         d.lastS = c.lastS, d.lastW = c.lastW, d.os = c.os, d.refs = c.refs
  PROVE  CalcInv(d)
BY DEF CalcInv, Cached, Counted, Users

LEMMA NoCalcInv ==
  ASSUME CalcompAssumption
  PROVE  CalcInv(NoCalc)
<1>1. NoCalc \in Calcs
  BY DEF NoCalc, Calcs, Contexts, NoRay, CalcompAssumption
<1>2. \A f \in Files : Users(NoCalc, f) = {}
  BY DEF Users, NoCalc
<1>3. Counted(NoCalc)
  BY <1>2, FS_EmptySet DEF Counted, NoCalc
<1>. QED BY <1>1, <1>3 DEF CalcInv, Cached, NoCalc

LEMMA InitCalcInv ==
  ASSUME NEW c, CalcInv(c), NEW live \in BOOLEAN
  PROVE  /\ CalcInv(InitCalc([c EXCEPT !.alive = live]))
         /\ InitCalc([c EXCEPT !.alive = live]).ctx = RC
         /\ InitCalc([c EXCEPT !.alive = live]).globals
<1>. DEFINE d == InitCalc([c EXCEPT !.alive = live])
<1>1. c \in Calcs
  BY DEF CalcInv
<1>2. d = [c EXCEPT !.alive = live, !.ctx = RC, !.globals = TRUE]
  BY <1>1 DEF InitCalc, InitFunc, Calcs
<1>3. d \in Calcs /\ d.ctx = RC /\ d.globals
  BY <1>1, <1>2 DEF Calcs, Contexts
<1>4. /\ d.fobj = c.fobj /\ d.fray = c.fray /\ d.funcxf = c.funcxf
      /\ d.lastS = c.lastS /\ d.lastW = c.lastW /\ d.os = c.os /\ d.refs = c.refs
  BY <1>1, <1>2 DEF Calcs
<1>5. CalcInv(d)
  BY ONLY <1>1, <1>3, <1>4, SameCaches, CalcInv(c)
<1>. QED BY <1>3, <1>5

LEMMA DefineInv ==
  ASSUME NEW c, CalcInv(c), c.ctx = RC
  PROVE  /\ CalcInv(Define(c)) /\ Define(c).ctx = RC /\ Define(c).bindef
         /\ Define(c).globals = c.globals
<1>. DEFINE d == Define(c)
<1>1. c \in Calcs
  BY DEF CalcInv
<1>2. d = [c EXCEPT !.bindef = TRUE]
  BY <1>1 DEF Define
<1>3. d \in Calcs /\ d.ctx = RC /\ d.bindef /\ d.globals = c.globals
  BY <1>1, <1>2 DEF Calcs
<1>4. /\ d.fobj = c.fobj /\ d.fray = c.fray /\ d.funcxf = c.funcxf
      /\ d.lastS = c.lastS /\ d.lastW = c.lastW /\ d.os = c.os /\ d.refs = c.refs
  BY <1>1, <1>2 DEF Calcs
<1>5. CalcInv(d)
  BY ONLY <1>1, <1>3, <1>4, SameCaches, CalcInv(c)
<1>. QED BY <1>3, <1>5

LEMMA SetEparamsInv ==
  ASSUME NEW c, CalcInv(c), NEW p \in ParamLists \cup {NoParams}, NEW same \in BOOLEAN
  PROVE  /\ CalcInv(SetEparams(c, p, same))
         /\ SetEparams(c, p, same).ctx = c.ctx
         /\ SetEparams(c, p, same).globals = c.globals
         /\ SetEparams(c, p, same).bindef = c.bindef
         /\ SetEparams(c, p, same).fobj = c.fobj
         /\ SetEparams(c, p, same).fray = c.fray
         /\ SetEparams(c, p, same).funcxf = c.funcxf
<1>. DEFINE d == SetEparams(c, p, same)
<1>1. c \in Calcs
  BY DEF CalcInv
<1>2. \/ d = c
      \/ d = [c EXCEPT !.last = p, !.alive = TRUE,
                       !.params = IF c.ctx = RC THEN p ELSE @]
  BY <1>1 DEF SetEparams
<1>3. /\ d \in Calcs /\ d.ctx = c.ctx /\ d.globals = c.globals
      /\ d.bindef = c.bindef
  BY <1>1, <1>2 DEF Calcs
<1>4. /\ d.fobj = c.fobj /\ d.fray = c.fray /\ d.funcxf = c.funcxf
      /\ d.lastS = c.lastS /\ d.lastW = c.lastW /\ d.os = c.os /\ d.refs = c.refs
  BY <1>1, <1>2 DEF Calcs
<1>5. CalcInv(d)
  BY ONLY <1>1, <1>3, <1>4, SameCaches, CalcInv(c)
<1>. QED BY <1>3, <1>4, <1>5

(* worldfunc: whether it returns early or not, the channels are right. *)
LEMMA WorldFuncInv ==
  ASSUME NEW c, CalcInv(c), NEW r \in Nat
  PROVE  /\ CalcInv(WorldFunc(c, r))
         /\ WorldFunc(c, r).ctx = RC
         /\ WorldFunc(c, r).globals = c.globals
         /\ WorldFunc(c, r).bindef = c.bindef
         /\ WorldFunc(c, r).fobj = World
         /\ WorldFunc(c, r).fray = r
         /\ WorldFunc(c, r).funcxf = <<World, NoRay>>
<1>. DEFINE d == WorldFunc(c, r)
<1>1. c \in Calcs
  BY DEF CalcInv
<1>2. d \in Calcs
  BY <1>1 DEF WorldFunc, Calcs, Contexts, NoRay
<1>3. /\ d.ctx = RC /\ d.globals = c.globals /\ d.bindef = c.bindef
      /\ d.fobj = World /\ d.fray = r /\ d.funcxf = <<World, NoRay>>
      /\ d.lastW = r
  BY <1>1 DEF WorldFunc, Calcs, CalcInv, Cached
<1>4. Cached(d)
  BY <1>3 DEF Cached
<1>5. d.os = c.os /\ d.refs = c.refs
  BY <1>1 DEF WorldFunc, Calcs
<1>6. Counted(d)
  BY <1>5 DEF CalcInv, Counted, Users
<1>. QED BY <1>2, <1>3, <1>4, <1>6 DEF CalcInv

(* getfunc compiles a modifier once and counts it for its file. *)
LEMMA GetFuncCounts ==
  ASSUME CalcompAssumption, NEW c, CalcInv(c), NEW m \in Objects
  PROVE  /\ GetFunc(c, m) \in Calcs /\ Counted(GetFunc(c, m))
         /\ GetFunc(c, m).globals = c.globals
         /\ GetFunc(c, m).bindef = c.bindef
         /\ \/ GetFunc(c, m) = c
            \/ GetFunc(c, m).fobj = World
<1>. DEFINE d == GetFunc(c, m)
<1>1. c \in Calcs
  BY DEF CalcInv
<1>2. CASE c.os[m]
  <2>1. d = c
    BY <1>2 DEF GetFunc
  <2>. QED BY <1>1, <2>1 DEF CalcInv
<1>3. CASE ~c.os[m]
  <2>. DEFINE os == [c.os EXCEPT ![m] = TRUE]
              refs == [f \in Files |->
                         IF f = FileOf[m] THEN c.refs[f] + 1 ELSE c.refs[f]]
  <2>1. d = [c EXCEPT !.os = os, !.fobj = World, !.fray = NoRay,
                      !.ctx = FileOf[m], !.refs = refs]
    BY <1>1, <1>3 DEF GetFunc, Calcs
  <2>2. FileOf[m] \in Contexts
    BY DEF CalcompAssumption, Contexts
  <2>3. c.refs \in [Files -> Nat] /\ c.os \in [Objects -> BOOLEAN]
    BY <1>1 DEF Calcs
  <2>8. /\ os \in [Objects -> BOOLEAN]
        /\ \A x \in Objects : os[x] = (x = m \/ c.os[x])
    BY <2>3
  <2>9. refs \in [Files -> Nat]
    BY <2>3
  <2>7. \A f \in Files : refs[f] =
          IF f = FileOf[m] THEN c.refs[f] + 1 ELSE c.refs[f]
    OBVIOUS
  <2>. HIDE DEF os, refs
  <2>4. d \in Calcs
    <3>1. FileOf[m] \in Contexts /\ World \in Objects \cup {World} /\ NoRay \in Nat
      BY <2>2 DEF NoRay
    <3>. HIDE DEF d
    <3>. QED BY <1>1, <2>1, <2>8, <2>9, <3>1 DEF Calcs
  <2>5. /\ d.os = os /\ d.refs = refs
        /\ d.fobj = World /\ d.globals = c.globals /\ d.bindef = c.bindef
    BY <1>1, <2>1 DEF Calcs
  <2>6. ASSUME NEW f \in Files PROVE d.refs[f] = Cardinality(Users(d, f))
    <3>1. IsFiniteSet(Users(c, f))
      BY FS_Subset DEF Users, CalcompAssumption
    <3>2. c.refs[f] = Cardinality(Users(c, f))
      BY DEF CalcInv, Counted
    <3>3. CASE f = FileOf[m]
      <4>1. Users(d, f) = Users(c, f) \cup {m} /\ m \notin Users(c, f)
        <5>1. \A x \in Objects : d.os[x] <=> (x = m \/ c.os[x])
          BY <2>5, <2>8
        <5>2. m \notin Users(c, f)
          BY <1>3 DEF Users
        <5>. HIDE DEF d
        <5>. QED BY <5>1, <5>2, <3>3, Zenon DEF Users
      <4>2. Cardinality(Users(c, f) \cup {m}) = Cardinality(Users(c, f)) + 1
        BY <3>1, <4>1, FS_AddElement
      <4>3. d.refs[f] = c.refs[f] + 1
        BY <2>5, <2>7, <3>3
      <4>. QED BY <3>2, <4>1, <4>2, <4>3
    <3>4. CASE f # FileOf[m]
      <4>1. Users(d, f) = Users(c, f)
        BY <2>5, <2>8, <3>4 DEF Users
      <4>. QED BY <2>5, <2>7, <3>2, <3>4, <4>1
    <3>. QED BY <3>3, <3>4
  <2>. QED BY <2>4, <2>5, <2>6 DEF Counted
<1>. QED BY <1>2, <1>3

(* setfunc after getfunc, as every modifier calls them. *)
LEMMA ShadeInv ==
  ASSUME CalcompAssumption, NEW c, CalcInv(c), NEW m \in Objects, NEW r \in Nat
  PROVE  /\ CalcInv(SetFunc(GetFunc(c, m), m, r))
         /\ SetFunc(GetFunc(c, m), m, r).ctx = FileOf[m]
         /\ SetFunc(GetFunc(c, m), m, r).globals = c.globals
         /\ SetFunc(GetFunc(c, m), m, r).bindef = c.bindef
         /\ SetFunc(GetFunc(c, m), m, r).fobj = m
         /\ SetFunc(GetFunc(c, m), m, r).fray = r
         /\ SetFunc(GetFunc(c, m), m, r).funcxf = <<m, r>>
<1>. DEFINE g == GetFunc(c, m)
            d == SetFunc(g, m, r)
<1>1. /\ g \in Calcs /\ Counted(g)
      /\ g.globals = c.globals /\ g.bindef = c.bindef
      /\ g = c \/ g.fobj = World
  BY GetFuncCounts
<1>2. m # World /\ FileOf[m] \in Contexts
  BY DEF CalcompAssumption, Contexts
<1>. HIDE DEF g
<1>3. d \in Calcs
  BY <1>1, <1>2 DEF SetFunc, Calcs
<1>4. /\ d.ctx = FileOf[m] /\ d.globals = g.globals /\ d.bindef = g.bindef
      /\ d.os = g.os /\ d.refs = g.refs
  BY <1>1 DEF SetFunc, Calcs
<1>5. d.fobj = m /\ d.fray = r /\ d.funcxf = <<m, r>> /\ d.lastS = r
  <2>1. CASE m = g.fobj /\ r = g.lastS
    <3>1. g = c
      BY <1>1, <1>2, <2>1
    <3>2. g.fray = r /\ g.funcxf = <<m, r>>
      BY <1>2, <2>1, <3>1 DEF CalcInv, Cached
    <3>. QED BY <1>1, <2>1, <3>2 DEF SetFunc, Calcs
  <2>2. CASE ~(m = g.fobj /\ r = g.lastS)
    BY <1>1, <2>2 DEF SetFunc, Calcs
  <2>. QED BY <2>1, <2>2
<1>6. Cached(d)
  BY <1>2, <1>5 DEF Cached
<1>7. Counted(d)
  BY <1>1, <1>4 DEF Counted, Users
<1>. HIDE DEF d
<1>8. CalcInv(d)
  BY <1>3, <1>6, <1>7 DEF CalcInv
<1>. QED BY <1>1, <1>4, <1>5, <1>8 DEF d, g

(* freefunc of all objects leaves no reference and no user. *)
LEMMA FreeAllInv ==
  ASSUME CalcompAssumption, NEW c, CalcInv(c), NEW file \in LastFreed(c)
  PROVE  /\ FreeAll(c, file) \in Calcs /\ Cached(FreeAll(c, file))
         /\ FreeAll(c, file).os = [m \in Objects |-> FALSE]
         /\ FreeAll(c, file).refs = [f \in Files |-> 0]
<1>. DEFINE os == [m \in Objects |-> FALSE]
            refs == [f \in Files |->
                       IF c.refs[f] > Cardinality(Users(c, f))
                       THEN c.refs[f] - Cardinality(Users(c, f)) ELSE 0]
            d == FreeAll(c, file)
<1>1. c \in Calcs /\ Cached(c)
  BY DEF CalcInv
<1>2. file \in Contexts
  <2>1. c.ctx \in Contexts
    BY <1>1 DEF Calcs
  <2>2. FreedFiles(c) \subseteq Contexts
    BY DEF FreedFiles, CalcompAssumption, Contexts
  <2>. QED BY <2>1, <2>2 DEF LastFreed
<1>3. ASSUME NEW f \in Files
      PROVE  ~(c.refs[f] > Cardinality(Users(c, f)))
  <2>1. c.refs[f] = Cardinality(Users(c, f)) /\ c.refs[f] \in Nat
    BY DEF CalcInv, Counted, Calcs
  <2>. QED BY <2>1
<1>4. refs = [f \in Files |-> 0]
  BY <1>3
<1>5. d = [c EXCEPT !.ctx = file, !.os = os, !.refs = refs]
  BY DEF FreeAll
<1>6. os \in [Objects -> BOOLEAN] /\ refs \in [Files -> Nat]
  BY <1>4
<1>. HIDE DEF os, refs
<1>7. d \in Calcs
  BY <1>1, <1>2, <1>5, <1>6 DEF Calcs
<1>8. /\ d.os = os /\ d.refs = refs /\ d.fobj = c.fobj /\ d.fray = c.fray
      /\ d.funcxf = c.funcxf /\ d.lastS = c.lastS /\ d.lastW = c.lastW
  BY <1>1, <1>5 DEF Calcs
<1>9. Cached(d)
  BY <1>1, <1>8 DEF Cached
<1>. QED BY <1>4, <1>7, <1>8, <1>9 DEF os

LEMMA ResetInv ==
  ASSUME CalcompAssumption, NEW c, CalcInv(c), NEW file \in LastFreed(c),
         NEW live \in BOOLEAN
  PROVE  CalcInv([Cleanup(FreeAll(c, file)) EXCEPT !.alive = live])
<1>. DEFINE e == FreeAll(c, file)
            d == [Cleanup(e) EXCEPT !.alive = live]
            zero == [f \in Files |-> 0]
<1>1. /\ e \in Calcs /\ Cached(e) /\ e.os = [m \in Objects |-> FALSE]
      /\ e.refs = zero /\ zero \in [Files -> Nat]
  BY FreeAllInv
<1>. HIDE DEF e, zero
<1>2. /\ Cleanup(e) \in Calcs /\ Cleanup(e).os = e.os /\ Cleanup(e).refs = zero
      /\ Cleanup(e).fobj = e.fobj /\ Cleanup(e).fray = e.fray
      /\ Cleanup(e).funcxf = e.funcxf /\ Cleanup(e).lastS = e.lastS
      /\ Cleanup(e).lastW = e.lastW
  <2>1. CASE e.ctx = Global
    <3>1. Cleanup(e) = [e EXCEPT !.globals = FALSE, !.bindef = FALSE,
                                 !.params = NoParams, !.refs = zero]
      BY <2>1 DEF Cleanup, zero, Global, RC
    <3>. QED BY <1>1, <3>1 DEF Calcs
  <2>2. CASE e.ctx = RC /\ RC # Global
    <3>1. Cleanup(e) = [e EXCEPT !.bindef = FALSE, !.params = NoParams]
      BY <2>2 DEF Cleanup
    <3>. QED BY <1>1, <3>1 DEF Calcs
  <2>3. CASE e.ctx \notin {Global, RC}
    <3>1. Cleanup(e) = [e EXCEPT !.refs[e.ctx] = 0]
      BY <2>3 DEF Cleanup
    <3>2. [zero EXCEPT ![e.ctx] = 0] = zero
      BY DEF zero
    <3>3. Cleanup(e) = [e EXCEPT !.refs = zero]
      BY <1>1, <3>1, <3>2
    <3>. QED BY <1>1, <3>3 DEF Calcs
  <2>. QED BY <2>1, <2>2, <2>3 DEF Global, RC
<1>3. /\ d \in Calcs /\ d.os = e.os /\ d.refs = zero /\ d.fobj = e.fobj
      /\ d.fray = e.fray /\ d.funcxf = e.funcxf /\ d.lastS = e.lastS
      /\ d.lastW = e.lastW
  BY <1>2 DEF Calcs
<1>4. Cached(d)
  BY <1>1, <1>3 DEF Cached
<1>5. \A f \in Files : Users(d, f) = {} /\ d.refs[f] = 0
  <2>1. \A m \in Objects : ~d.os[m]
    BY <1>1, <1>3
  <2>2. \A f \in Files : zero[f] = 0
    BY DEF zero
  <2>3. \A f \in Files : d.refs[f] = 0
    BY <1>3, <2>2
  <2>. HIDE DEF d
  <2>4. \A f \in Files : Users(d, f) = {}
    BY <2>1 DEF Users
  <2>. QED BY <2>3, <2>4
<1>6. Counted(d)
  <2>1. Cardinality({}) = 0
    BY FS_EmptySet
  <2>2. ASSUME NEW f \in Files PROVE d.refs[f] = Cardinality(Users(d, f))
    <3>1. Users(d, f) = {} /\ d.refs[f] = 0
      BY <1>5
    <3>. QED BY <2>1, <3>1
  <2>. QED BY <2>2 DEF Counted
<1>. QED BY <1>3, <1>4, <1>6 DEF CalcInv, e

-----------------------------------------------------------------------------
(* Parameters of -p in a list are known; the list of the class ends with   *)
(* the file of its expressions, the bin expression, the bin count and the  *)
(* one modifier, none of which is given before.                            *)
ParamsKnown(l) == \A k \in DOMAIN l : l[k].opt = "p" => l[k].val \in ParamLists

ListShape(l, srcn) ==
  /\ Len(l) >= 8 /\ l[1].opt = "n"
  /\ l[Len(l)].opt = "m" /\ l[Len(l)].val # "void"
  /\ l[Len(l) - 1].opt = "bn" /\ l[Len(l) - 1].n = srcn
  /\ l[Len(l) - 2].opt = "b" /\ l[Len(l) - 2].val = "bin"
  /\ l[Len(l) - 3].opt = "f"
  /\ \A k \in 1..Len(l) - 3 : l[k].opt \notin {"m", "bn", "b"}
  /\ \A k \in 2..Len(l) : l[k].opt # "n"

LEMMA WrittenOK ==
  ASSUME SessionAssumption, NEW n \in Procs, NEW user \in UserArgs,
         NEW srcn \in Nat, NEW modname \in Names
  PROVE  /\ Written(n, user, srcn, modname) \in Seq(Options)
         /\ ParamsKnown(Written(n, user, srcn, modname))
         /\ modname # "void" => ListShape(Written(n, user, srcn, modname), srcn)
<1>. DEFINE a == <<OptN("n", n), Opt("V", "+")>>
            z == <<Opt("w", "-"), Opt("e", "side"), Opt("f", "scbins"),
                   Opt("b", "bin"), OptN("bn", srcn), Opt("m", modname)>>
            l == Written(n, user, srcn, modname)
            N == Len(user)
<1>1. /\ user \in Seq(Options) /\ N \in Nat
      /\ \A k \in 1..N : user[k] \in Options /\ user[k].opt \in UserKinds
      /\ \A k \in 1..N : user[k].opt = "p" => user[k].val \in ParamLists
  BY DEF SessionAssumption
<1>2. n \in Int /\ srcn \in Int
  BY DEF SessionAssumption
<1>3. a \in Seq(Options) /\ z \in Seq(Options)
  <2>1. \A k \in Kinds, v \in Values : Opt(k, v) \in Options
    BY DEF Options, Opt
  <2>2. \A k \in Kinds, m \in Int : OptN(k, m) \in Options
    BY DEF Options, OptN, Values
  <2>3. {"n", "V", "w", "e", "f", "b", "bn", "m"} \subseteq Kinds
    BY DEF Kinds, UserKinds, Flags
  <2>4. /\ OptN("n", n) \in Options /\ Opt("V", "+") \in Options
        /\ Opt("w", "-") \in Options /\ Opt("e", "side") \in Options
        /\ Opt("f", "scbins") \in Options /\ Opt("b", "bin") \in Options
        /\ OptN("bn", srcn) \in Options /\ Opt("m", modname) \in Options
    BY <1>2, <2>1, <2>2, <2>3 DEF Values, Bins
  <2>. QED BY <2>4
<1>4. l = (a \o user) \o z
  BY DEF Written
<1>5. l \in Seq(Options) /\ Len(l) = N + 8
  BY <1>1, <1>3, <1>4
<1>. HIDE DEF l
<1>6. /\ l[1] = OptN("n", n) /\ l[2] = Opt("V", "+")
      /\ l[N + 3] = Opt("w", "-") /\ l[N + 4] = Opt("e", "side")
      /\ l[N + 5] = Opt("f", "scbins") /\ l[N + 6] = Opt("b", "bin")
      /\ l[N + 7] = OptN("bn", srcn) /\ l[N + 8] = Opt("m", modname)
  BY <1>1, <1>3, <1>4, <1>5
<1>13. /\ l[1].opt = "n" /\ l[2].opt = "V" /\ l[N + 3].opt = "w"
       /\ l[N + 4].opt = "e" /\ l[N + 5].opt = "f" /\ l[N + 6].opt = "b"
       /\ l[N + 7].opt = "bn" /\ l[N + 8].opt = "m"
       /\ l[N + 6].val = "bin" /\ l[N + 7].n = srcn /\ l[N + 8].val = modname
  BY <1>6 DEF Opt, OptN
<1>7. \A k \in 3..N + 2 : l[k] = user[k - 2]
  BY <1>1, <1>3, <1>4, <1>5
<1>8. ASSUME NEW k \in 1..N + 8
      PROVE  \/ k \in 3..N + 2 /\ k - 2 \in 1..N /\ l[k] = user[k - 2]
             \/ k \in {1, 2, N + 3, N + 4, N + 5, N + 6, N + 7, N + 8}
  <2>1. CASE k \in 3..N + 2
    BY <1>1, <1>7, <2>1
  <2>2. CASE k \notin 3..N + 2
    BY <1>1, <2>2
  <2>. QED BY <2>1, <2>2
<1>9. ParamsKnown(l)
  <2>. SUFFICES ASSUME NEW k \in 1..N + 8, l[k].opt = "p"
                PROVE  l[k].val \in ParamLists
    BY <1>5 DEF ParamsKnown
  <2>1. CASE k \in 3..N + 2 /\ k - 2 \in 1..N /\ l[k] = user[k - 2]
    BY <1>1, <2>1
  <2>. QED BY <1>8, <1>13, <2>1
<1>10. \A k \in 1..N + 5 : l[k].opt \notin {"m", "bn", "b"}
  <2>. SUFFICES ASSUME NEW k \in 1..N + 5
                PROVE  l[k].opt \notin {"m", "bn", "b"}
    OBVIOUS
  <2>1. \/ k \in 3..N + 2 /\ k - 2 \in 1..N /\ l[k] = user[k - 2]
        \/ k \in {1, 2, N + 3, N + 4, N + 5}
    BY <1>1, <1>8, SMTT(30)
  <2>2. CASE k \in 3..N + 2 /\ k - 2 \in 1..N /\ l[k] = user[k - 2]
    BY <1>1, <2>2 DEF UserKinds, Flags
  <2>. QED BY <1>13, <2>1, <2>2
<1>11. \A k \in 2..N + 8 : l[k].opt # "n"
  <2>. SUFFICES ASSUME NEW k \in 2..N + 8 PROVE l[k].opt # "n"
    OBVIOUS
  <2>1. \/ k \in 3..N + 2 /\ k - 2 \in 1..N /\ l[k] = user[k - 2]
        \/ k \in {2, N + 3, N + 4, N + 5, N + 6, N + 7, N + 8}
    BY <1>1, <1>8
  <2>2. CASE k \in 3..N + 2 /\ k - 2 \in 1..N /\ l[k] = user[k - 2]
    BY <1>1, <2>2 DEF UserKinds, Flags
  <2>. QED BY <1>13, <2>1, <2>2
<1>12. modname # "void" => ListShape(l, srcn)
  <2>1. /\ Len(l) - 1 = N + 7 /\ Len(l) - 2 = N + 6 /\ Len(l) - 3 = N + 5
        /\ Len(l) >= 8
    BY <1>1, <1>5
  <2>. QED BY <1>5, <1>13, <1>10, <1>11, <2>1 DEF ListShape
<1>. QED BY <1>5, <1>9, <1>12 DEF l

-----------------------------------------------------------------------------
(* The invariant for any list of arguments. *)
IInv == TypeOK /\ ParamsKnown(list) /\ CalcInv(calc) /\ EvaluatesAsked

LEMMA InitEstablishes ==
  ASSUME CalcompAssumption, SessionAssumption, Init
  PROVE  IInv
<1>1. CalcInv(calc) /\ calc \in Calcs
  BY NoCalcInv DEF Init, CalcInv
<1>2. EvaluatesAsked /\ ParamsKnown(list)
  BY DEF Init, EvaluatesAsked, Nothing, ParamsKnown, NoList
<1>3. /\ cls \in [srcn : Nat, modname : Names, features : {1, 3}, args : BOOLEAN]
      /\ flags \in [Flags -> BOOLEAN] /\ shape \in [rvc : {1, 3}, srcn : Int]
      /\ asked \in [ctx : Contexts, obj : Objects \cup {World}, ray : Nat,
                    params : ParamLists \cup {NoParams}]
  BY DEF Init, Names, Nothing, Contexts, NoRay
<1>4. /\ pc \in {"idle", "options", "exit"} /\ status \in {"none", "ok", "failed"}
      /\ list \in Seq(Options) /\ i \in 1..Len(list) + 1
      /\ prms \in ParamLists \cup {NoParams} /\ bincnt \in Int /\ count \in Int
      /\ scene \in BOOLEAN /\ raynum \in Nat /\ rays \in Seq(1..raynum)
  <2>1. list = <<>> /\ rays = <<>> /\ raynum = 0 /\ i = 1
    BY DEF Init, NoList
  <2>2. list \in Seq(Options) /\ Len(list) = 0 /\ rays \in Seq(1..raynum)
    BY <2>1
  <2>3. i \in 1..Len(list) + 1
    BY <2>1, <2>2
  <2>4. /\ pc \in {"idle", "options", "exit"} /\ status \in {"none", "ok", "failed"}
        /\ prms \in ParamLists \cup {NoParams} /\ bincnt \in Int /\ count \in Int
    BY DEF Init
  <2>5. scene \in BOOLEAN
    BY Zenon DEF Init
  <2>. QED BY <2>1, <2>2, <2>3, <2>4, <2>5
<1>5. mods \in Seq([name : Values, nbins : Int, params : ParamLists \cup {NoParams}])
  BY DEF Init
<1>. QED BY <1>1, <1>2, <1>3, <1>4, <1>5 DEF IInv, TypeOK

(* Both ways to start rcontrib_init. *)
LEMMA BeginInitKeeps ==
  ASSUME CalcompAssumption, SessionAssumption, IInv, NEW live \in BOOLEAN,
         NEW argv \in Seq(Options), ParamsKnown(argv),
         cls' \in [srcn : Nat, modname : Names, features : {1, 3}, args : BOOLEAN],
         BeginInit(argv, [calc EXCEPT !.alive = live])
  PROVE  IInv'
<1>1. CalcInv(calc') /\ calc' \in Calcs
  <2>1. CalcInv(InitCalc([calc EXCEPT !.alive = live]))
    BY InitCalcInv DEF IInv
  <2>. QED BY <2>1 DEF BeginInit, CalcInv
<1>2. asked' = Nothing /\ EvaluatesAsked'
  BY DEF BeginInit, EvaluatesAsked, Nothing
<1>3. asked' \in [ctx : Contexts, obj : Objects \cup {World}, ray : Nat,
                 params : ParamLists \cup {NoParams}]
  BY <1>2 DEF Nothing, Contexts, NoRay
<1>4. list' = argv /\ i' \in 1..Len(list') + 1
  BY DEF BeginInit
<1>. QED BY <1>1, <1>2, <1>3, <1>4 DEF IInv, TypeOK, BeginInit, StartFlags

LEMMA SetArgsKeeps ==
  ASSUME CalcompAssumption, SessionAssumption, IInv,
         NEW n \in Procs, NEW user \in UserArgs, SetArgs(n, user)
  PROVE  IInv'
<1>1. /\ Written(n, user, cls.srcn, cls.modname) \in Seq(Options)
      /\ ParamsKnown(Written(n, user, cls.srcn, cls.modname))
  BY WrittenOK DEF IInv, TypeOK
<1>2. cls' \in [srcn : Nat, modname : Names, features : {1, 3}, args : BOOLEAN]
  BY DEF SetArgs, IInv, TypeOK
<1>. QED BY <1>1, <1>2, BeginInitKeeps DEF SetArgs

LEMMA InitializeKeeps ==
  ASSUME CalcompAssumption, SessionAssumption, IInv,
         NEW argv \in Lists, Initialize(argv)
  PROVE  IInv'
<1>1. argv \in Seq(Options) /\ ParamsKnown(argv)
  BY DEF SessionAssumption, ParamsKnown
<1>2. cls' \in [srcn : Nat, modname : Names, features : {1, 3}, args : BOOLEAN]
  BY DEF Initialize, IInv, TypeOK
<1>3. calc = [calc EXCEPT !.alive = calc.alive] /\ calc.alive \in BOOLEAN
  BY DEF IInv, TypeOK, Calcs
<1>. QED BY <1>1, <1>2, <1>3, BeginInitKeeps DEF Initialize

(* Steps of the option loop that leave the statics of func.c alone. *)
LEMMA OptionsKeep ==
  ASSUME IInv, Processes \/ Skip \/ SetFlag \/ BinValue \/ BinCount
  PROVE  IInv'
<1>1. /\ list' = list /\ i' \in 1..Len(list') + 1
      /\ pc' \in {"idle", "options", "exit"}
  BY SMTT(30) DEF IInv, TypeOK, Processes, Skip, SetFlag, BinValue, BinCount, Reading,
         Advance, Die, parsing
<1>2. UNCHANGED <<python, shape, status, tracing, mods, count, calc, prms>>
  BY DEF Processes, Skip, SetFlag, BinValue, BinCount, Same, Die, python,
         tracing, parsing, options
<1>3. bincnt' \in Int
  <2>1. ASSUME i <= Len(list) PROVE list[i].n \in Int
    <3>1. list[i] \in Options
      BY <2>1 DEF IInv, TypeOK
    <3>. QED BY <3>1 DEF Options
  <2>. QED BY <2>1 DEF IInv, TypeOK, Processes, Skip, SetFlag, BinValue,
              BinCount, Reading, Arg, Die, parsing
<1>4. flags' \in [Flags -> BOOLEAN]
  BY DEF IInv, TypeOK, Processes, Skip, SetFlag, BinValue, BinCount, Switch,
         options
<1>. QED BY <1>1, <1>2, <1>3, <1>4
     DEF IInv, TypeOK, EvaluatesAsked, python, tracing

LEMMA ExpressionKeeps ==
  ASSUME IInv, Expression
  PROVE  IInv'
<1>1. list' = list /\ i' \in 1..Len(list') + 1 /\ pc' = pc
  BY DEF IInv, TypeOK, Expression, Reading, Advance
<1>2. UNCHANGED <<python, shape, status, tracing, mods, count, flags, prms, bincnt>>
  BY DEF Expression, Same, python, tracing, options
<1>3. CalcInv(calc') /\ calc' \in Calcs
  <2>1. CASE calc.ctx = RC
    BY <2>1, DefineInv DEF IInv, Expression, CalcInv
  <2>2. CASE calc.ctx # RC
    BY <2>2 DEF IInv, Expression, Define, CalcInv
  <2>. QED BY <2>1, <2>2
<1>4. /\ calc'.ctx = calc.ctx /\ calc'.fobj = calc.fobj /\ calc'.fray = calc.fray
      /\ calc'.funcxf = calc.funcxf
  BY DEF Expression, Define, IInv, TypeOK, Calcs
<1>. QED BY <1>1, <1>2, <1>3, <1>4
     DEF IInv, TypeOK, EvaluatesAsked, python, tracing

LEMMA ParametersKeep ==
  ASSUME IInv, Parameters
  PROVE  IInv'
<1>1. PICK same \in BOOLEAN :
        /\ Reading("p") /\ prms' = Arg.val
        /\ calc' = SetEparams(calc, Arg.val, same)
  BY DEF Parameters
<1>2. list' = list /\ i' \in 1..Len(list') + 1 /\ pc' = pc
  BY DEF IInv, TypeOK, Parameters, Reading, Advance
<1>3. UNCHANGED <<python, shape, status, tracing, mods, count, flags, bincnt>>
  BY DEF Parameters, Same, python, tracing, options
<1>4. Arg.val \in ParamLists
  BY <1>1 DEF IInv, TypeOK, ParamsKnown, Reading, Arg
<1>5. /\ CalcInv(calc') /\ calc'.ctx = calc.ctx /\ calc'.fobj = calc.fobj
      /\ calc'.fray = calc.fray /\ calc'.funcxf = calc.funcxf
  BY <1>1, <1>4, SetEparamsInv DEF IInv
<1>6. calc' \in Calcs
  BY <1>5 DEF CalcInv
<1>. QED BY <1>1, <1>2, <1>3, <1>4, <1>5, <1>6
     DEF IInv, TypeOK, EvaluatesAsked, python, tracing

LEMMA AddModifierKeeps ==
  ASSUME IInv, AddModifier
  PROVE  IInv'
<1>1. /\ list' = list /\ i' \in 1..Len(list') + 1
      /\ pc' \in {"idle", "options", "exit"}
  BY SMTT(30) DEF IInv, TypeOK, AddModifier, Reading, Advance, Die, parsing
<1>2. UNCHANGED <<python, shape, status, tracing, calc, prms, bincnt, flags>>
  BY DEF AddModifier, Same, Die, python, tracing, parsing
<1>3. Arg \in Options
  BY DEF IInv, TypeOK, AddModifier, Reading, Arg
<1>4. count' \in Int
  BY DEF IInv, TypeOK, AddModifier, Columns
<1>5. Modifier \in [name : Values, nbins : Int, params : ParamLists \cup {NoParams}]
  BY <1>3 DEF Modifier, IInv, TypeOK, Options
<1>6. mods' \in Seq([name : Values, nbins : Int, params : ParamLists \cup {NoParams}])
  <2>1. mods' = mods \/ mods' = Append(mods, Modifier)
    BY DEF AddModifier
  <2>2. mods \in Seq([name : Values, nbins : Int, params : ParamLists \cup {NoParams}])
    BY DEF IInv, TypeOK
  <2>. DEFINE T == [name : Values, nbins : Int, params : ParamLists \cup {NoParams}]
  <2>3. mods \in Seq(T) /\ Modifier \in T
    BY <1>5, <2>2
  <2>. HIDE DEF Modifier, T
  <2>4. mods' \in Seq(T)
    BY <2>1, <2>3
  <2>. QED BY <2>4 DEF T
<1>. QED BY <1>1, <1>2, <1>4, <1>6
     DEF IInv, TypeOK, EvaluatesAsked, python, tracing

LEMMA ReturnKeeps ==
  ASSUME IInv, NEW st \in {"ok", "failed"}, Return(st)
  PROVE  IInv'
<1>1. shape' \in [rvc : {1, 3}, srcn : Int]
  <2>1. Rvc \in {1, 3} /\ count \div 1 \in Int /\ count \div 3 \in Int
    BY DEF Rvc, IInv, TypeOK
  <2>2. count \div Rvc \in Int
    BY <2>1
  <2>. QED BY <2>1, <2>2 DEF Return
<1>. QED BY <1>1 DEF Return, IInv, TypeOK, EvaluatesAsked, python, parsing,
                     options, tracing

(* A fatal error leaves everything but pc alone. *)
Fatal == Die /\ UNCHANGED options

LEMMA FatalKeeps ==
  ASSUME IInv, Fatal
  PROVE  IInv'
BY DEF Fatal, Die, IInv, TypeOK, EvaluatesAsked, python, parsing, options, tracing

LEMMA ReadOptionKeeps ==
  ASSUME IInv, ReadOption
  PROVE  IInv'
<1>1. CASE BadOption \/ StrayWord \/ Finish
  <2>1. PICK st \in {"ok", "failed"} : Return(st)
    BY <1>1 DEF BadOption, StrayWord, Finish
  <2>. QED BY <2>1, ReturnKeeps
<1>2. CASE BadExpression \/ BadParameters
  BY <1>2, FatalKeeps DEF BadExpression, BadParameters, Fatal
<1>. QED BY <1>1, <1>2, OptionsKeep, ExpressionKeeps, ParametersKeep, AddModifierKeeps
     DEF ReadOption

LEMMA RayEnds ==
  ASSUME NEW S, NEW s \in Seq(S), s # <<>>
  PROVE  SubSeq(s, 1, Len(s) - 1) \in Seq(S)
<1>1. Len(s) - 1 \in Nat
  OBVIOUS
<1>2. \A k \in 1..Len(s) - 1 : s[k] \in S
  OBVIOUS
<1>. QED BY <1>1, <1>2

LEMMA QuietKeep ==
  ASSUME CalcompAssumption, SessionAssumption, IInv,
         \/ LoadScene \/ StartRay \/ EndUntracked
         \/ \E srcn \in Widths, modname \in Modifiers : Setup(srcn, modname)
  PROVE  IInv'
<1>1. UNCHANGED <<pc, parsing, options, shape, status, calc, asked>>
  BY DEF LoadScene, StartRay, EndUntracked, Setup, tracing
<1>2. /\ cls' \in [srcn : Nat, modname : Names, features : {1, 3}, args : BOOLEAN]
      /\ scene' \in BOOLEAN
  BY DEF LoadScene, StartRay, EndUntracked, Setup, IInv, TypeOK, python, Names,
         SessionAssumption
<1>3. raynum' \in Nat /\ rays' \in Seq(1..raynum')
  <2>1. CASE StartRay
    <3>1. raynum' = raynum + 1 /\ rays' = Append(rays, raynum + 1)
      BY <2>1 DEF StartRay
    <3>2. raynum \in Nat /\ rays \in Seq(1..raynum)
      BY DEF IInv, TypeOK
    <3>3. rays \in Seq(1..raynum + 1) /\ raynum + 1 \in 1..raynum + 1
      BY <3>2
    <3>. QED BY <3>1, <3>2, <3>3
  <2>2. CASE EndUntracked
    BY <2>2, RayEnds DEF EndUntracked, IInv, TypeOK
  <2>3. CASE UNCHANGED <<rays, raynum>>
    BY <2>3 DEF IInv, TypeOK
  <2>. QED BY <2>1, <2>2, <2>3 DEF LoadScene, Setup, tracing
<1>. QED BY <1>1, <1>2, <1>3
     DEF IInv, TypeOK, EvaluatesAsked, parsing, options

LEMMA RayOK ==
  ASSUME IInv, rays # <<>>
  PROVE  Ray \in Nat \ {0}
BY DEF IInv, TypeOK, Ray

LEMMA ShadeKeeps ==
  ASSUME CalcompAssumption, IInv, NEW m \in Objects, Shade(m)
  PROVE  IInv'
<1>1. Ray \in Nat /\ Ray # NoRay
  BY RayOK DEF Shade, NoRay
<1>2. CalcInv(calc)
  BY DEF IInv
<1>3. calc' = SetFunc(GetFunc(calc, m), m, Ray)
  BY DEF Shade
<1>. HIDE DEF Ray
<1>4. /\ CalcInv(calc') /\ calc'.ctx = FileOf[m] /\ calc'.fobj = m
      /\ calc'.fray = Ray /\ calc'.funcxf = <<m, Ray>>
  BY <1>1, <1>2, <1>3, ShadeInv
<1>5. asked' = [ctx |-> FileOf[m], obj |-> m, ray |-> Ray, params |-> NoParams]
  BY DEF Shade
<1>6. asked' \in [ctx : Contexts, obj : Objects \cup {World}, ray : Nat,
                 params : ParamLists \cup {NoParams}]
  BY <1>1, <1>5 DEF CalcompAssumption, Contexts
<1>7. EvaluatesAsked'
  BY <1>4, <1>5 DEF EvaluatesAsked, CalcompAssumption
<1>. QED BY <1>4, <1>6, <1>7
     DEF IInv, TypeOK, CalcInv, Shade, python, parsing, options

LEMMA EndTrackedKeeps ==
  ASSUME IInv, NEW k \in DOMAIN mods, EndTracked(k)
  PROVE  IInv'
<1>. DEFINE p == mods[k].params
<1>1. Ray \in Nat /\ Ray # NoRay
  BY RayOK DEF EndTracked, NoRay
<1>2. CalcInv(calc) /\ p \in ParamLists \cup {NoParams}
  <2>. DEFINE T == [name : Values, nbins : Int, params : ParamLists \cup {NoParams}]
  <2>1. mods \in Seq(T)
    BY DEF IInv, TypeOK
  <2>2. ASSUME NEW t \in T PROVE t.params \in ParamLists \cup {NoParams}
    OBVIOUS
  <2>. HIDE DEF T
  <2>3. mods[k] \in T
    BY <2>1
  <2>. QED BY <2>2, <2>3 DEF IInv
<1>3. PICK same \in BOOLEAN : calc' = SetEparams(WorldFunc(calc, Ray), p, same)
  BY DEF EndTracked
<1>. HIDE DEF Ray
<1>4. /\ CalcInv(WorldFunc(calc, Ray)) /\ WorldFunc(calc, Ray).ctx = RC
      /\ WorldFunc(calc, Ray).fobj = World /\ WorldFunc(calc, Ray).fray = Ray
      /\ WorldFunc(calc, Ray).funcxf = <<World, NoRay>>
  BY <1>1, <1>2, WorldFuncInv
<1>5. /\ CalcInv(calc') /\ calc'.ctx = RC /\ calc'.fobj = World
      /\ calc'.fray = Ray /\ calc'.funcxf = <<World, NoRay>>
  BY <1>2, <1>3, <1>4, SetEparamsInv
<1>6. asked' = [ctx |-> RC, obj |-> World, ray |-> Ray, params |-> p]
  BY DEF EndTracked
<1>7. asked' \in [ctx : Contexts, obj : Objects \cup {World}, ray : Nat,
                 params : ParamLists \cup {NoParams}]
  BY <1>1, <1>2, <1>6 DEF Contexts
<1>8. EvaluatesAsked'
  BY <1>5, <1>6 DEF EvaluatesAsked
<1>9. rays' \in Seq(1..raynum') /\ raynum' = raynum
  <2>1. /\ rays' = SubSeq(rays, 1, Len(rays) - 1) /\ raynum' = raynum
        /\ rays \in Seq(1..raynum) /\ rays # <<>>
    BY DEF EndTracked, IInv, TypeOK
  <2>2. SubSeq(rays, 1, Len(rays) - 1) \in Seq(1..raynum)
    BY <2>1, RayEnds
  <2>. QED BY <2>1, <2>2
<1>. QED BY <1>5, <1>7, <1>8, <1>9
     DEF IInv, TypeOK, CalcInv, EndTracked, python, parsing, options

LEMMA ResetKeeps ==
  ASSUME CalcompAssumption, IInv, Reset
  PROVE  IInv'
<1>1. calc.alive \in BOOLEAN /\ cls.args \in BOOLEAN /\ CalcInv(calc)
  BY DEF IInv, TypeOK, Calcs
<1>2. PICK file \in LastFreed(calc) :
        calc' = [Cleanup(FreeAll(calc, file)) EXCEPT !.alive = calc.alive /\ ~cls.args]
  BY DEF Reset
<1>3. CalcInv(calc') /\ calc' \in Calcs
  <2>. DEFINE live == calc.alive /\ ~cls.args
  <2>1. live \in BOOLEAN
    BY <1>1
  <2>. HIDE DEF live
  <2>2. CalcInv([Cleanup(FreeAll(calc, file)) EXCEPT !.alive = live])
    BY <1>1, <2>1, ResetInv
  <2>. QED BY <1>2, <2>2 DEF live, CalcInv
<1>4. EvaluatesAsked'
  BY DEF Reset, EvaluatesAsked, Nothing
<1>5. asked' \in [ctx : Contexts, obj : Objects \cup {World}, ray : Nat,
                 params : ParamLists \cup {NoParams}]
  BY DEF Reset, Nothing, Contexts, NoRay
<1>6. cls' \in [srcn : Nat, modname : Names, features : {1, 3}, args : BOOLEAN]
  BY DEF Reset, IInv, TypeOK
<1>7. mods' = <<>> /\ scene' \in BOOLEAN /\ status' = "none"
  BY DEF Reset, Cleared
<1>8. mods' \in Seq([name : Values, nbins : Int, params : ParamLists \cup {NoParams}])
  BY <1>7
<1>. QED BY <1>3, <1>4, <1>5, <1>6, <1>7, <1>8 DEF Reset, IInv, TypeOK, parsing

LEMMA NextKeeps ==
  ASSUME CalcompAssumption, SessionAssumption, IInv, [Next]_vars
  PROVE  IInv'
<1>1. CASE UNCHANGED vars
  BY <1>1 DEF vars, python, parsing, options, tracing, IInv, TypeOK,
              EvaluatesAsked
<1>2. CASE \/ \E m \in Objects : ShadeFails(m)
           \/ \E k \in DOMAIN mods : EndFails(k)
  BY <1>2, FatalKeeps DEF ShadeFails, EndFails, Fatal
<1>3. CASE Next
  BY <1>2, <1>3, SetArgsKeeps, InitializeKeeps, ReadOptionKeeps, QuietKeep, ResetKeeps,
     ShadeKeeps, EndTrackedKeeps DEF Next
<1>. QED BY <1>1, <1>3

THEOREM IInvAlways ==
  ASSUME CalcompAssumption, SessionAssumption
  PROVE  Spec => []IInv
<1>1. Init => IInv
  BY InitEstablishes
<1>2. IInv /\ [Next]_vars => IInv'
  BY NextKeeps
<1>. QED BY <1>1, <1>2, PTL DEF Spec

(* Every variable keeps its type, for any constants. *)
THEOREM TypesAlways ==
  ASSUME CalcompAssumption, SessionAssumption
  PROVE  Spec => []TypeOK
BY IInvAlways, PTL DEF IInv

(***************************************************************************)
(* Channels always refer to the modifier and ray setfunc or worldfunc was  *)
(* asked for last, for any objects, files, scenes and order of rays.       *)
(***************************************************************************)
THEOREM EvaluatesAskedAlways ==
  ASSUME CalcompAssumption, SessionAssumption
  PROVE  Spec => []EvaluatesAsked
BY IInvAlways, PTL DEF IInv

(***************************************************************************)
(* A function file is referred to as often as compiled modifiers use it,   *)
(* whatever scenes are loaded and freed.                                   *)
(***************************************************************************)
THEOREM RefsAreUsersAlways ==
  ASSUME CalcompAssumption, SessionAssumption
  PROVE  Spec => []RefsAreUsers
<1>1. IInv => RefsAreUsers
  BY DEF IInv, CalcInv, Counted, RefsAreUsers
<1>. QED BY <1>1, IInvAlways, PTL

-----------------------------------------------------------------------------
(***************************************************************************)
(* The lists of the class.  What is known while rcontrib_init reads one    *)
(* depends on how far it is: the last four options are the file, the bin   *)
(* expression, the bin count and the modifier.                             *)
(***************************************************************************)
ClassOnly == Lists = {} /\ "void" \notin Names

OneModifier ==
  /\ Len(mods) = 1
  /\ count = IF flags["Z"] THEN mods[1].nbins ELSE 3 * mods[1].nbins

ReadingInv ==
  /\ ListShape(list, cls.srcn) /\ calc.ctx = RC /\ calc.globals
  /\ i > Len(list) - 3 => calc.bindef
  /\ i > Len(list) - 2 => bin = "bin"
  /\ i > Len(list) - 1 => bincnt = cls.srcn
  /\ i <= Len(list) => mods = <<>> /\ count = 0
  /\ i > Len(list) => OneModifier

Ready ==
  /\ pc # "options" /\ Len(mods) = 1 /\ shape.srcn = mods[1].nbins
  /\ calc.globals /\ calc.bindef

LInv ==
  /\ pc = "options" => ReadingInv
  /\ DocumentedUseSurvives
  /\ status = "ok" => Ready
  /\ rays # <<>> => status = "ok"
  /\ pc = "idle" /\ status = "none" => mods = <<>>

(***************************************************************************)
(* When the process ends, something given to it was at fault.              *)
(***************************************************************************)
LEMMA FatalReady ==
  ASSUME LInv, Fatal,
         IF rays = <<>> THEN AtFault(list[i])
         ELSE \/ \E m \in Objects : GetFuncFails(calc, m)
              \/ \E k \in DOMAIN mods : mods[k].params \in Refused
  PROVE  LInv'
<1>1. pc' = "exit" /\ UNCHANGED <<rays, list, i, calc, mods, bin, cls, status, shape>>
  BY DEF Fatal, Die, parsing, options, tracing, python
<1>2. DocumentedUseSurvives'
  BY <1>1 DEF DocumentedUseSurvives, AtFault
<1>. QED BY <1>1, <1>2 DEF LInv, Ready

LEMMA SetArgsReady ==
  ASSUME CalcompAssumption, SessionAssumption, ClassOnly, IInv, LInv,
         NEW n \in Procs, NEW user \in UserArgs, SetArgs(n, user)
  PROVE  LInv'
<1>1. cls.srcn \in Nat /\ cls.modname \in Names /\ cls.modname # "void"
  BY DEF IInv, TypeOK, ClassOnly
<1>2. /\ cls'.srcn = cls.srcn /\ i' = 1 /\ rays' = <<>>
      /\ pc' = IF InitFuncFails THEN "exit" ELSE "options"
      /\ list' = Written(n, user, cls.srcn, cls.modname) /\ mods' = <<>>
      /\ count' = 0 /\ status' = status
  BY DEF SetArgs, AfterReset, LInv, BeginInit, IInv, TypeOK
<1>3. ListShape(list', cls'.srcn)
  BY <1>1, <1>2, WrittenOK
<1>4. status # "ok"
  BY DEF SetArgs, AfterReset, LInv, Ready
<1>5. calc'.ctx = RC /\ calc'.globals
  <2>1. calc' = InitCalc([calc EXCEPT !.alive = FALSE]) /\ CalcInv(calc)
    BY DEF SetArgs, BeginInit, IInv
  <2>. QED BY <2>1, InitCalcInv
<1>6. Len(list') >= 8
  BY <1>3 DEF ListShape
<1>7. Len(list') \in Nat
  BY <1>1, <1>2, WrittenOK
<1>. QED BY <1>2, <1>3, <1>4, <1>5, <1>6, <1>7
     DEF LInv, ReadingInv, DocumentedUseSurvives

(* An option that is none of the last four changes nothing it ends with. *)
LEMMA OptionReady ==
  ASSUME CalcompAssumption, IInv, LInv,
         \/ Skip \/ SetFlag \/ Parameters \/ Expression \/ BinValue \/ BinCount
         \/ Processes
  PROVE  LInv'
<1>. DEFINE L == Len(list)
<1>1. /\ pc = "options" /\ ReadingInv /\ i \in 1..L /\ L \in Nat
      /\ list[i].opt \in Kinds \ {"m"}
  BY SMTT(30) DEF LInv, IInv, TypeOK, Skip, SetFlag, Parameters, Expression, BinValue,
         BinCount, Processes, Reading, Kinds, UserKinds, Flags
<1>2. mods = <<>> /\ count = 0 /\ ListShape(list, cls.srcn) /\ i < L
  BY <1>1 DEF ReadingInv, ListShape
<1>3. UNCHANGED <<cls, list, mods, count, rays, status, shape>>
  BY DEF Skip, SetFlag, Parameters, Expression, BinValue, BinCount, Processes,
         Advance, Same, Die, parsing, options, tracing, python
<1>4. status # "ok" /\ rays = <<>>
  BY <1>1 DEF LInv, Ready
<1>5. CASE Processes
  <2>2. CASE Reading("n") /\ Arg.n <= 0 /\ Die /\ UNCHANGED options
    BY <1>4, <2>2, FatalReady DEF Fatal, AtFault, Arg, Reading
  <2>3. CASE Reading("n") /\ Advance /\ UNCHANGED <<prms, bin, bincnt, options, calc>>
    <3>1. i' = i + 1 /\ pc' = pc /\ i + 1 <= L - 3
      BY <1>1, <1>2, <2>3 DEF Advance, Reading, ListShape
    <3>. QED BY <1>1, <1>2, <1>3, <1>4, <2>3, <3>1
         DEF LInv, ReadingInv, DocumentedUseSurvives, options
  <2>. QED BY <1>5, <2>2, <2>3 DEF Processes
<1>6. CASE ~Processes
  <2>1. i' = i + 1 /\ pc' = pc
    BY <1>6 DEF Skip, SetFlag, Parameters, Expression, BinValue, BinCount, Advance
  <2>2. calc'.ctx = RC /\ calc'.globals /\ (calc.bindef => calc'.bindef)
    <3>1. CalcInv(calc) /\ calc.ctx = RC /\ calc.globals
      BY <1>1 DEF IInv, ReadingInv
    <3>2. CASE UNCHANGED calc
      BY <3>1, <3>2
    <3>3. CASE Expression
      BY <3>1, <3>3, DefineInv DEF Expression
    <3>4. CASE Parameters
      <4>1. PICK same \in BOOLEAN : calc' = SetEparams(calc, Arg.val, same)
        BY <3>4 DEF Parameters
      <4>2. Arg.val \in ParamLists
        BY <1>1, <3>4 DEF IInv, ParamsKnown, Arg, Parameters, Reading
      <4>. QED BY <3>1, <4>1, <4>2, SetEparamsInv
    <3>. QED BY <1>6, <3>2, <3>3, <3>4 DEF Skip, SetFlag, BinValue, BinCount
  <2>3. i + 1 > L - 3 => calc'.bindef
    <3>1. CASE i > L - 3
      BY <1>1, <2>2, <3>1 DEF ReadingInv
    <3>2. CASE i = L - 3
      <4>1. Expression
        BY <1>2, <1>6, <3>2 DEF Skip, SetFlag, Parameters, Expression, BinValue,
           BinCount, Reading, ListShape, Flags
      <4>. QED BY <1>1, <4>1, DefineInv DEF Expression, IInv, ReadingInv
    <3>. QED BY <1>1, <3>1, <3>2
  <2>4. i + 1 > L - 2 => bin' = "bin"
    <3>1. CASE i = L - 2
      <4>1. BinValue
        BY <1>2, <1>6, <3>1 DEF Skip, SetFlag, Parameters, Expression, BinValue,
           BinCount, Reading, ListShape, Flags
      <4>. QED BY <1>2, <3>1, <4>1 DEF BinValue, Arg, ListShape
    <3>2. CASE i = L - 1
      <4>1. BinCount
        BY <1>2, <1>6, <3>2 DEF Skip, SetFlag, Parameters, Expression, BinValue,
           BinCount, Reading, ListShape, Flags
      <4>. QED BY <1>1, <3>2, <4>1 DEF BinCount, ReadingInv
    <3>. QED BY <1>1, <1>2, <3>1, <3>2
  <2>5. i + 1 > L - 1 => bincnt' = cls.srcn
    <3>1. CASE i = L - 1
      <4>1. BinCount
        BY <1>2, <1>6, <3>1 DEF Skip, SetFlag, Parameters, Expression, BinValue,
           BinCount, Reading, ListShape, Flags
      <4>. QED BY <1>2, <3>1, <4>1 DEF BinCount, Arg, ListShape
    <3>. QED BY <1>1, <1>2, <3>1
  <2>6. ReadingInv'
    BY <1>1, <1>2, <1>3, <2>1, <2>2, <2>3, <2>4, <2>5 DEF ReadingInv
  <2>. QED BY <1>1, <1>3, <1>4, <2>1, <2>6 DEF LInv, DocumentedUseSurvives
<1>. QED BY <1>5, <1>6

(* The modifier is the last option, and is refused for its bins only. *)
LEMMA AddModifierReady ==
  ASSUME CalcompAssumption, ClassOnly, IInv, LInv, AddModifier
  PROVE  LInv'
<1>. DEFINE L == Len(list)
<1>1. /\ pc = "options" /\ ReadingInv /\ i \in 1..L /\ L \in Nat
      /\ list[i].opt = "m"
  BY DEF LInv, IInv, TypeOK, AddModifier, Reading
<1>2. mods = <<>> /\ count = 0 /\ ListShape(list, cls.srcn)
  BY <1>1 DEF ReadingInv
<1>3. i = L
  BY <1>1, <1>2, SMTT(30) DEF ListShape
<1>4. bin = "bin" /\ bincnt = cls.srcn /\ calc.bindef /\ cls.srcn \in Nat
  BY <1>1, <1>3 DEF ReadingInv, IInv, TypeOK
<1>5. status # "ok" /\ rays = <<>>
  BY <1>1 DEF LInv, Ready
<1>6. UNCHANGED <<cls, list, rays, status, shape, calc>>
  BY DEF AddModifier, Advance, Same, Die, parsing, tracing, python
<1>7. CASE BadModifier /\ Die /\ UNCHANGED <<flags, mods>>
  <2>1. cls.srcn <= 0 \/ bin \in Refused
    BY <1>2, <1>3, <1>4, <1>7 DEF BadModifier, Constant, NoBin, Arg, ListShape
  <2>2. DocumentedUseSurvives'
    BY <1>1, <1>5, <1>6, <1>7, <2>1 DEF Die, parsing, DocumentedUseSurvives, AtFault
  <2>. QED BY <1>5, <1>6, <1>7, <2>2 DEF Die, LInv
<1>8. CASE mods' = Append(mods, Modifier) /\ Advance /\ UNCHANGED <<flags, bin, bincnt>>
  <2>1. Modifier.nbins = cls.srcn
    BY <1>4 DEF Modifier, Constant, NoBin
  <2>2. count' = IF flags["Z"] THEN cls.srcn ELSE 3 * cls.srcn
    BY <1>2, <1>4 DEF AddModifier, Columns
  <2>3. Len(mods') = 1 /\ mods'[1] = Modifier
    BY <1>2, <1>8
  <2>4. OneModifier'
    BY <1>8, <2>1, <2>2, <2>3 DEF OneModifier
  <2>5. i' = L + 1 /\ pc' = "options"
    BY <1>1, <1>3, <1>8 DEF Advance
  <2>6. ReadingInv'
    BY <1>1, <1>2, <1>3, <1>4, <1>6, <1>8, <2>4, <2>5 DEF ReadingInv
  <2>. QED BY <1>5, <1>6, <2>5, <2>6 DEF LInv, DocumentedUseSurvives
<1>. QED BY <1>7, <1>8 DEF AddModifier

LEMMA ReturnReady ==
  ASSUME IInv, LInv, BadOption \/ StrayWord \/ Finish
  PROVE  LInv'
<1>1. /\ pc = "options" /\ ReadingInv /\ pc' = "idle" /\ rays = <<>> /\ status # "ok"
      /\ UNCHANGED <<rays, mods, calc, list, cls>>
  BY DEF LInv, Ready, BadOption, StrayWord, Finish, Return, Reading, tracing,
         options, parsing, python
<1>2. CASE status' # "ok"
  <2>1. status' # "none"
    BY DEF BadOption, StrayWord, Finish, Return
  <2>. QED BY <1>1, <1>2, <2>1 DEF LInv, DocumentedUseSurvives
<1>3. CASE status' = "ok"
  <2>1. Finish /\ i > Len(list) /\ Len(list) \in Nat /\ i \in Nat
    BY <1>3 DEF BadOption, StrayWord, Finish, Return, IInv, TypeOK
  <2>2. OneModifier /\ calc.globals /\ calc.bindef
    BY <1>1, <2>1 DEF ReadingInv
  <2>3. mods[1].nbins \in Int
    <3>. DEFINE T == [name : Values, nbins : Int, params : ParamLists \cup {NoParams}]
    <3>1. mods \in Seq(T) /\ \A t \in T : t.nbins \in Int
      BY DEF IInv, TypeOK
    <3>. HIDE DEF T
    <3>2. mods[1] \in T
      BY <2>2, <3>1, SMTT(30) DEF OneModifier
    <3>. QED BY <3>1, <3>2
  <2>4. count \div Rvc = mods[1].nbins
    BY <2>2, <2>3 DEF OneModifier, Rvc
  <2>5. shape' = [rvc |-> Rvc, srcn |-> count \div Rvc]
    BY <2>1 DEF Finish, Return
  <2>. QED BY <1>1, <1>3, <2>2, <2>4, <2>5 DEF LInv, Ready, DocumentedUseSurvives, OneModifier
<1>. QED BY <1>2, <1>3

LEMMA TracingReady ==
  ASSUME CalcompAssumption, IInv, LInv,
         \/ \E m \in Objects : Shade(m)
         \/ \E k \in DOMAIN mods : EndTracked(k)
  PROVE  LInv'
<1>1. rays # <<>> /\ Ray \in Nat /\ status = "ok" /\ Ready /\ pc = "idle"
  BY RayOK DEF Shade, EndTracked, LInv
<1>2. UNCHANGED <<pc, mods, shape, status, cls, list>>
  BY DEF Shade, EndTracked, python, options, parsing
<1>3. calc'.globals = calc.globals /\ calc'.bindef = calc.bindef
  <2>1. CalcInv(calc)
    BY DEF IInv
  <2>2. CASE \E m \in Objects : Shade(m)
    <3>1. PICK m \in Objects : calc' = SetFunc(GetFunc(calc, m), m, Ray)
      BY <2>2 DEF Shade
    <3>. HIDE DEF Ray
    <3>. QED BY <1>1, <2>1, <3>1, ShadeInv
  <2>3. CASE \E k \in DOMAIN mods : EndTracked(k)
    <3>1. PICK k \in DOMAIN mods : EndTracked(k)
      BY <2>3
    <3>. DEFINE p == mods[k].params
                T == [name : Values, nbins : Int, params : ParamLists \cup {NoParams}]
    <3>2. mods \in Seq(T) /\ \A t \in T : t.params \in ParamLists \cup {NoParams}
      BY DEF IInv, TypeOK
    <3>. HIDE DEF T
    <3>3. p \in ParamLists \cup {NoParams}
      BY <3>2
    <3>4. PICK same \in BOOLEAN : calc' = SetEparams(WorldFunc(calc, Ray), p, same)
      BY <3>1 DEF EndTracked
    <3>. HIDE DEF Ray, p
    <3>5. /\ CalcInv(WorldFunc(calc, Ray))
          /\ WorldFunc(calc, Ray).globals = calc.globals
          /\ WorldFunc(calc, Ray).bindef = calc.bindef
      BY <1>1, <2>1, WorldFuncInv
    <3>. QED BY <3>3, <3>4, <3>5, SetEparamsInv
  <2>. QED BY <2>2, <2>3
<1>. QED BY <1>1, <1>2, <1>3 DEF LInv, Ready, DocumentedUseSurvives

LEMMA RestReady ==
  ASSUME LInv,
         \/ LoadScene \/ StartRay \/ EndUntracked \/ Reset
         \/ \E srcn \in Widths, modname \in Modifiers : Setup(srcn, modname)
  PROVE  LInv'
<1>1. CASE Reset
  BY <1>1 DEF Reset, Cleared, LInv, DocumentedUseSurvives
<1>2. CASE \E srcn \in Widths, modname \in Modifiers : Setup(srcn, modname)
  BY <1>2 DEF Setup, LInv, Ready, DocumentedUseSurvives, options, tracing
<1>3. CASE LoadScene \/ StartRay \/ EndUntracked
  <2>1. UNCHANGED <<pc, list, cls, mods, shape, calc, status, i, bin, bincnt, count, flags>>
    BY <1>3 DEF LoadScene, StartRay, EndUntracked, options, python, parsing
  <2>2. rays' # <<>> => status = "ok"
    BY <1>3 DEF LoadScene, StartRay, EndUntracked, LInv, tracing
  <2>3. pc' # "exit"
    BY <1>3 DEF LoadScene, StartRay, EndUntracked
  <2>. QED BY <2>1, <2>2, <2>3 DEF LInv, Ready, DocumentedUseSurvives, ReadingInv,
           OneModifier
<1>. QED BY <1>1, <1>2, <1>3

LEMMA NextReady ==
  ASSUME CalcompAssumption, SessionAssumption, ClassOnly, IInv, LInv, [Next]_vars
  PROVE  LInv'
<1>1. CASE UNCHANGED vars
  BY <1>1 DEF vars, python, parsing, options, tracing, LInv, Ready,
              DocumentedUseSurvives, AtFault, ReadingInv, OneModifier
<1>2. CASE BadExpression \/ BadParameters
  <2>1. Fatal /\ AtFault(list[i]) /\ pc = "options"
    BY <1>2 DEF BadExpression, BadParameters, Fatal, Reading, Arg, AtFault, SetEparamsFails
  <2>2. rays = <<>>
    BY <2>1 DEF LInv, Ready
  <2>. QED BY <2>1, <2>2, FatalReady
<1>3. CASE \/ \E m \in Objects : ShadeFails(m)
           \/ \E k \in DOMAIN mods : EndFails(k)
  BY <1>3, FatalReady DEF ShadeFails, EndFails, Fatal, SetEparamsFails
<1>4. CASE ReadOption
  BY <1>2, <1>4, OptionReady, AddModifierReady, ReturnReady DEF ReadOption
<1>5. CASE Next /\ ~ReadOption
  BY <1>3, <1>5, SetArgsReady, TracingReady, RestReady DEF Next, ClassOnly
<1>. QED BY <1>1, <1>4, <1>5

THEOREM LInvAlways ==
  ASSUME CalcompAssumption, SessionAssumption, ClassOnly
  PROVE  Spec => []LInv
<1>1. Init => LInv
  BY DEF Init, LInv, DocumentedUseSurvives
<1>2. IInv /\ LInv /\ [Next]_vars => LInv'
  BY NextReady
<1>. QED BY <1>1, <1>2, IInvAlways, PTL DEF Spec

(***************************************************************************)
(* Results of engines the class initialized have the width of the bins of  *)
(* the one modifier, for any rendering options and any resolution.         *)
(***************************************************************************)
THEOREM WidthIsWrittenAlways ==
  ASSUME CalcompAssumption, SessionAssumption, ClassOnly
  PROVE  Spec => []WidthIsWritten
<1>1. LInv => WidthIsWritten
  BY DEF LInv, Ready, WidthIsWritten
<1>. QED BY <1>1, LInvAlways, PTL

(* The definitions expressions use exist while rays are traced, whatever   *)
(* context reset() removed definitions from.                               *)
THEOREM DefinitionsPresentAlways ==
  ASSUME CalcompAssumption, SessionAssumption, ClassOnly
  PROVE  Spec => []DefinitionsPresent
<1>1. LInv => DefinitionsPresent
  BY DEF LInv, Ready, DefinitionsPresent
<1>. QED BY <1>1, LInvAlways, PTL

(***************************************************************************)
(* A program that resets first is ended by an option, modifier or list of  *)
(* parameters that is at fault itself, never by what was left behind.      *)
(***************************************************************************)
THEOREM DocumentedUseSurvivesAlways ==
  ASSUME CalcompAssumption, SessionAssumption, ClassOnly
  PROVE  Spec => []DocumentedUseSurvives
<1>1. LInv => DocumentedUseSurvives
  BY DEF LInv
<1>. QED BY <1>1, LInvAlways, PTL

-----------------------------------------------------------------------------
(***************************************************************************)
(* Brightness or color: the class and the engine read the same list from   *)
(* left to right; the engine has come as far as the option read next.      *)
(***************************************************************************)
ReadsBright(l, g) ==
  /\ g \in [0..Len(l) -> BOOLEAN] /\ g[0] = TRUE
  /\ \A k \in 1..Len(l) : g[k] = BrightAfter(l[k], g[k - 1])

LEMMA BrightIs ==
  ASSUME NEW l \in Seq(Options)
  PROVE  \E g : ReadsBright(l, g) /\ Bright(l) = g[Len(l)]
<1>. DEFINE n == Len(l)
            step == [k \in 1..n |-> [b \in BOOLEAN |-> BrightAfter(l[k], b)]]
            Reads(g) == g = [k \in 0..n |-> IF k = 0 THEN TRUE ELSE BrightAfter(l[k], g[k - 1])]
<1>1. n \in Nat
  OBVIOUS
<1>2. \A k \in 1..n : \A b \in BOOLEAN : BrightAfter(l[k], b) \in BOOLEAN
  BY DEF BrightAfter, Switch
<1>3. StepsIn(step, n, BOOLEAN)
  BY <1>2 DEF StepsIn
<1>4. \A k \in 1..n : \A b \in BOOLEAN : step[k][b] = BrightAfter(l[k], b)
  OBVIOUS
<1>. HIDE DEF step
<1>5. PICK g \in [0..n -> BOOLEAN] :
        g[0] = TRUE /\ \A k \in 1..n : g[k] = step[k][g[k - 1]]
  <2>. DEFINE V == BOOLEAN  v == TRUE
  <2>1. v \in V /\ StepsIn(step, n, V) /\ n \in Nat
    BY <1>1, <1>3
  <2>. HIDE DEF V, v, n
  <2>2. \E g \in [0..n -> V] :
          g[0] = v /\ \A k \in 1..n : g[k] = step[k][g[k - 1]]
    BY <2>1, StepByStep, SMTT(60)
  <2>. QED BY <2>2, Zenon DEF V, v, n
<1>6. ReadsBright(l, g)
  <2>1. \A k \in 1..n : g[k - 1] \in BOOLEAN
    BY <1>1, <1>5
  <2>. QED BY <1>4, <1>5, <2>1 DEF ReadsBright
<1>7. Reads(g)
  <2>1. \A k \in 0..n : g[k] = IF k = 0 THEN TRUE ELSE BrightAfter(l[k], g[k - 1])
    BY <1>1, <1>6 DEF ReadsBright
  <2>2. g = [k \in 0..n |-> g[k]]
    BY <1>5
  <2>. QED BY <2>1, <2>2
<1>8. Reads(CHOOSE h : Reads(h)) /\ Bright(l) = (CHOOSE h : Reads(h))[n]
  <2>1. Bright(l) = (CHOOSE h : Reads(h))[n]
    BY DEF Bright
  <2>. QED BY <1>7, <2>1
<1>. DEFINE h == CHOOSE h : Reads(h)
<1>9. Reads(h) /\ Bright(l) = h[n]
  BY <1>8
<1>. HIDE DEF h
<1>10. /\ h = [k \in 0..n |-> h[k]]
       /\ \A k \in 0..n : h[k] = IF k = 0 THEN TRUE ELSE BrightAfter(l[k], h[k - 1])
  BY <1>9
<1>. DEFINE T == {k \in 0..n : h[k] = g[k]}
<1>11. 0 \in T
  BY <1>1, <1>5, <1>10
<1>12. ASSUME NEW k \in 0..(n - 1), k \in T
       PROVE  k + 1 \in T
  <2>1. k + 1 \in 1..n /\ k + 1 # 0 /\ (k + 1) - 1 = k /\ k + 1 \in 0..n
    BY <1>1
  <2>2. h[k + 1] = BrightAfter(l[k + 1], h[k])
    BY <1>10, <2>1
  <2>3. g[k + 1] = BrightAfter(l[k + 1], g[k])
    BY <1>6, <2>1 DEF ReadsBright
  <2>. QED BY <1>12, <2>1, <2>2, <2>3
<1>13. n \in T
  <2>. HIDE DEF T
  <2>1. 0..n \subseteq T
    BY <1>1, <1>11, <1>12, IntervalInduction
  <2>. QED BY <1>1, <2>1
<1>. QED BY <1>6, <1>9, <1>13

AllPlain == \A k \in DOMAIN list : Plain(list[k])

BrightSoFar ==
  \E g : /\ ReadsBright(list, g)
         /\ cls.features = IF g[Len(list)] THEN 1 ELSE 3
         /\ AllPlain => flags["Z"] = g[i - 1]

BInv == (pc = "options" => BrightSoFar) /\ FeaturesDescribeResult

LEMMA BrightStarts ==
  ASSUME SessionAssumption, ClassOnly, IInv, NEW n \in Procs, NEW user \in UserArgs,
         SetArgs(n, user)
  PROVE  BrightSoFar'
<1>. DEFINE l == Written(n, user, cls.srcn, cls.modname)
<1>1. cls.srcn \in Nat /\ cls.modname \in Names
  BY DEF IInv, TypeOK
<1>2. l \in Seq(Options)
  BY <1>1, WrittenOK
<1>3. list' = l /\ i' = 1 /\ flags'["Z"] = TRUE
  BY DEF SetArgs, BeginInit, StartFlags, Flags
<1>. HIDE DEF l
<1>4. cls' = [cls EXCEPT !.args = TRUE, !.features = IF Bright(l) THEN 1 ELSE 3]
  BY DEF SetArgs, l
<1>5. cls'.features = IF Bright(l) THEN 1 ELSE 3
  BY <1>4 DEF IInv, TypeOK
<1>6. PICK g : ReadsBright(l, g) /\ Bright(l) = g[Len(l)]
  BY <1>2, BrightIs
<1>7. g[1 - 1] = TRUE
  BY <1>6 DEF ReadsBright
<1>. QED BY <1>3, <1>5, <1>6, <1>7 DEF BrightSoFar

(* What is read sets the switch as the class has read it. *)
LEMMA BrightReads ==
  ASSUME SessionAssumption, IInv, pc = "options", BrightSoFar, ReadOption, pc' = "options"
  PROVE  BrightSoFar'
<1>1. PICK g : /\ ReadsBright(list, g)
               /\ cls.features = IF g[Len(list)] THEN 1 ELSE 3
               /\ AllPlain => flags["Z"] = g[i - 1]
  BY DEF BrightSoFar
<1>2. UNCHANGED <<list, cls>> /\ i' = i + 1 /\ i \in 1..Len(list)
  BY DEF ReadOption, Processes, Skip, SetFlag, Expression, BadExpression,
         Parameters, BadParameters, BinValue, BinCount,
         AddModifier, BadOption, StrayWord, Finish, Return, Die, Advance, Same, Reading,
         IInv, TypeOK, python, parsing
<1>3. AllPlain => flags'["Z"] = BrightAfter(list[i], flags["Z"])
  <2>. SUFFICES ASSUME AllPlain PROVE flags'["Z"] = BrightAfter(list[i], flags["Z"])
    OBVIOUS
  <2>0. Plain(list[i])
    BY <1>2 DEF AllPlain
  <2>1. CASE SetFlag
    <3>1. PICK f \in Flags : /\ list[i].opt = f
                             /\ flags' = [flags EXCEPT ![f] = Switch(list[i].val, @)]
      BY <2>1 DEF SetFlag, Reading, Arg
    <3>2. /\ flags \in [Flags -> BOOLEAN] /\ "Z" \in Flags
          /\ list[i].val \notin DOMAIN SwitchIn
          /\ list[i].opt = "Z" => list[i].val # Quoted
      BY <2>0 DEF Plain, IInv, TypeOK, Flags
    <3>3. CASE f = "Z"
      <4>1. flags'["Z"] = Switch(list[i].val, flags["Z"])
        BY <3>1, <3>2, <3>3
      <4>2. Switch(list[i].val, flags["Z"]) \in BOOLEAN
        BY DEF Switch
      <4>. QED BY <3>1, <3>2, <3>3, <4>1, <4>2 DEF BrightAfter
    <3>4. CASE f # "Z"
      BY <3>1, <3>2, <3>4 DEF BrightAfter
    <3>. QED BY <3>3, <3>4
  <2>2. CASE ~SetFlag
    <3>1. flags' = flags
      BY <2>2 DEF ReadOption, Processes, Skip, Expression, BadExpression,
         Parameters, BadParameters, BinValue, BinCount,
             AddModifier, BadOption, StrayWord, Finish, Return, options
    <3>2. list[i].opt # "Z"
      BY <2>2 DEF ReadOption, Processes, Skip, Expression, BadExpression,
         Parameters, BadParameters, BinValue, BinCount,
             AddModifier, BadOption, StrayWord, Finish, Return, Reading
    <3>. QED BY <2>0, <3>1, <3>2 DEF BrightAfter, Plain
  <2>. QED BY <2>1, <2>2
<1>4. g[(i + 1) - 1] = BrightAfter(list[i], g[i - 1])
  BY <1>1, <1>2 DEF ReadsBright
<1>5. AllPlain' = AllPlain
  BY <1>2 DEF AllPlain
<1>. QED BY <1>1, <1>2, <1>3, <1>4, <1>5 DEF BrightSoFar

(* The engine returns when it has read the whole list, or has failed. *)
LEMMA BrightReturns ==
  ASSUME SessionAssumption, IInv, pc = "options", BrightSoFar, ReadOption, status' = "ok",
         status # "ok"
  PROVE  FeaturesDescribeResult'
<1>1. Finish /\ shape'.rvc = Rvc
  BY DEF ReadOption, Processes, Skip, SetFlag, Expression, BadExpression,
         Parameters, BadParameters, BinValue, BinCount,
         AddModifier, BadOption, StrayWord, Finish, Return, Die, Advance, Same, Reading
<1>2. PICK g : /\ ReadsBright(list, g)
               /\ cls.features = IF g[Len(list)] THEN 1 ELSE 3
               /\ AllPlain => flags["Z"] = g[i - 1]
  BY DEF BrightSoFar
<1>3. i - 1 = Len(list)
  BY <1>1 DEF Finish, IInv, TypeOK
<1>4. UNCHANGED <<cls, list>>
  BY <1>1 DEF Finish, Return, python, parsing
<1>. QED BY <1>1, <1>2, <1>3, <1>4 DEF FeaturesDescribeResult, Rvc, AllPlain

LEMMA BrightNext ==
  ASSUME SessionAssumption, ClassOnly, IInv, LInv, BInv, [Next]_vars
  PROVE  BInv'
<1>1. pc = "options" => status # "ok"
  BY DEF LInv, Ready
<1>2. CASE ReadOption
  <2>1. pc = "options" /\ BrightSoFar
    BY <1>2 DEF ReadOption, Processes, Skip, SetFlag, Expression, BadExpression,
         Parameters, BadParameters, BinValue,
           BinCount, AddModifier, BadOption, StrayWord, Finish, Reading, BInv
  <2>2. FeaturesDescribeResult'
    BY <1>1, <1>2, <2>1, BrightReturns DEF FeaturesDescribeResult
  <2>. QED BY <1>2, <2>1, <2>2, BrightReads DEF BInv
<1>3. CASE \E n \in Procs, user \in UserArgs : SetArgs(n, user)
  <2>1. PICK n \in Procs, user \in UserArgs : SetArgs(n, user)
    BY <1>3
  <2>2. status' # "ok"
    BY <2>1 DEF SetArgs, BeginInit, AfterReset, LInv, Ready
  <2>. QED BY <2>1, <2>2, BrightStarts DEF BInv, FeaturesDescribeResult
<1>4. CASE \E srcn \in Widths, modname \in Modifiers : Setup(srcn, modname)
  <2>1. /\ pc' = "idle" /\ cls'.features = cls.features /\ cls'.args = cls.args
        /\ UNCHANGED <<status, shape>>
    BY <1>4 DEF Setup, IInv, TypeOK
  <2>2. UNCHANGED list
    BY <1>4 DEF Setup, parsing
  <2>. QED BY <2>1, <2>2 DEF BInv, FeaturesDescribeResult
<1>5. CASE Reset
  <2>1. pc' = "idle" /\ status' = "none"
    BY <1>5 DEF Reset
  <2>. QED BY <2>1 DEF BInv, FeaturesDescribeResult
<1>6. CASE \/ LoadScene \/ StartRay \/ EndUntracked \/ UNCHANGED vars
           \/ \E m \in Objects : Shade(m)
           \/ \E k \in DOMAIN mods : EndTracked(k)
  <2>1. UNCHANGED <<pc, cls, list, i, flags, status, shape>>
    BY <1>6 DEF LoadScene, StartRay, EndUntracked, Shade, EndTracked, vars, options,
                python, parsing
  <2>. QED BY <2>1 DEF BInv, BrightSoFar, AllPlain, FeaturesDescribeResult
<1>7. CASE \/ \E m \in Objects : ShadeFails(m)
           \/ \E k \in DOMAIN mods : EndFails(k)
  <2>1. pc' = "exit" /\ UNCHANGED <<cls, list, status, shape>>
    BY <1>7 DEF ShadeFails, EndFails, Die, python, parsing
  <2>. QED BY <2>1 DEF BInv, FeaturesDescribeResult
<1>. QED BY <1>2, <1>3, <1>4, <1>5, <1>6, <1>7 DEF Next, ClassOnly

(***************************************************************************)
(* The class and the engine agree on how many components a result has,     *)
(* however often -Z is given and in whatever form, unless the pattern the  *)
(* class looks for is also in the text of something else.                  *)
(***************************************************************************)
THEOREM FeaturesDescribeResultAlways ==
  ASSUME CalcompAssumption, SessionAssumption, ClassOnly
  PROVE  Spec => []FeaturesDescribeResult
<1>1. Init => BInv
  BY DEF Init, BInv, FeaturesDescribeResult
<1>2. IInv /\ LInv /\ BInv /\ [Next]_vars => BInv'
  BY BrightNext
<1>3. BInv => FeaturesDescribeResult
  BY DEF BInv
<1>. QED BY <1>1, <1>2, <1>3, IInvAlways, LInvAlways, PTL DEF Spec
=============================================================================
