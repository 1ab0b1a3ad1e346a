------------------------- MODULE MCRcontribSession -------------------------
(* Small instances of RcontribSession for TLC. *)
EXTENDS RcontribSession

MCObjects == {"wood", "sky", "glass", "torn"}

MCFileOf == [m \in MCObjects |-> IF m \in {"wood", "torn"} THEN Global ELSE "mist"]

(* A parameter list, an expression and a modifier that are malformed. *)
MCRefused == {"A=", "a=(", "torn"}

MCSwitchIn == [v \in {"c=1-Zsun"} |-> "-"]

Some == {<<>>, <<Opt("Z", "-"), Opt("p", "A=1")>>, <<Opt("Z", NoVal), Opt("I", "+")>>,
         <<Opt("render", NoVal), Opt("unknown", NoVal)>>, <<Opt("word", NoVal)>>,
         <<Opt("e", "a=(")>>, <<Opt("Z", Quoted), Opt("p", "A=")>>,
         <<Opt("e", "c=1-Zsun")>>}

(* A list the program keeps, and gives again after reset(). *)
WithParams == {<<OptN("n", 1), Opt("p", "A=1"), Opt("e", "side"), Opt("b", "bin"),
                 OptN("bn", 2), Opt("m", "skyglow")>>}

None == {}
=============================================================================
