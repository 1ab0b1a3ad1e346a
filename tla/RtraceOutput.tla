---------------------------- MODULE RtraceOutput ----------------------------
(***************************************************************************)
(* The output specification of rtrace (rtraceparts.c): a string of letters *)
(* is turned by setoutput2 into ray_out, a NULL-terminated table of        *)
(* writers, and a number of components a row.  printvals runs the table.   *)
(*                                                                         *)
(* A letter stands for its writer.                                         *)
(***************************************************************************)
EXTENDS Integers, Sequences, FiniteSets, SequencesExt

CONSTANT Slots          \* entries of ray_out (32)

(* Room for a letter and the terminator. *)
ASSUME SlotsAssumption == Slots \in Nat /\ Slots >= 2

(* The components each writer puts into the output array. *)
Width == [o |-> 3, d |-> 3, r |-> 3, R |-> 1, x |-> 3, X |-> 1, v |-> 3,
          V |-> 3, l |-> 1, c |-> 2, L |-> 1, p |-> 3, n |-> 3, N |-> 3,
          M |-> 1, F |-> 1, w |-> 1, W |-> 3, Z |-> 1]

Letters == DOMAIN Width

(* What a specification is written with: "?" is any other character. *)
Characters == Letters \cup {"?"}

(* Letters that need more than the first intersection. *)
Traced == {"r", "R", "x", "X", "v", "V", "l", "n", "W", "Z"}

TraceModeOnly == {"V", "W"}
NotIrradiance == {"r", "R", "x", "X"}

NoWriter == "NULL"
Writers == Letters \cup {NoWriter}

(* The table up to its terminator, and what it writes for a row. *)
Active(table) ==
  {k \in DOMAIN table : \A j \in 1..k : table[j] # NoWriter}
Written(table) == SumFunction([k \in Active(table) |-> Width[table[k]]])

(* The letters before the first that is not known. *)
KnownPart(vs) ==
  LET known == {k \in DOMAIN vs : \A j \in 1..k : vs[j] \in Letters}
  IN  SubSeq(vs, 1, Cardinality(known))

(* V falls through to l. *)
WritersOf(vs) ==
  FlattenSeq([k \in DOMAIN vs |->
                IF vs[k] = "V" THEN <<"V", "l">> ELSE <<vs[k]>>])

(* A mutation of Overwrite: the table is not terminated. *)
OverwriteUnterminated(table, ws) ==
  [k \in DOMAIN table |->
     IF k \in DOMAIN ws /\ ws[k] # NoWriter THEN ws[k] ELSE table[k]]

(* The loop writes the table from its start; later entries stay. *)
Overwrite(table, ws) ==
  [k \in DOMAIN table |-> IF k \in DOMAIN ws THEN ws[k] ELSE table[k]]

Components(ws) == SumFunction([k \in DOMAIN ws |-> Width[ws[k]]])

(* Specifications that are complete and refused all the same. *)
Refused(ws, castonly, irradiance) ==
  \/ irradiance /\ castonly
  \/ \E k \in DOMAIN ws : \/ ws[k] \in TraceModeOnly
                          \/ irradiance /\ ws[k] \in NotIrradiance

(***************************************************************************)
(* setoutput2: the table, castonly and return_value_count after it.  It    *)
(* fails, with a count of 0, for no letters; for an unknown letter, when   *)
(* the table is left half overwritten; and for a refused combination.      *)
(***************************************************************************)
SetOutput(out, vs, irradiance) ==
  LET known == KnownPart(vs)
      ws == WritersOf(known)
      end == IF known = vs THEN <<NoWriter>> ELSE <<>>
      cast == \A k \in DOMAIN ws : ws[k] \notin Traced
      fails == known # vs \/ Refused(ws, cast, irradiance)
  IN  IF vs = <<>> THEN [out EXCEPT !.count = 0]
      ELSE [table |-> Overwrite(out.table, ws \o end),
            castonly |-> cast,
            count |-> IF fails THEN 0 ELSE Components(ws)]

Outputs == [table : [1..Slots -> Writers], castonly : BOOLEAN, count : Nat]

(* Static storage: an empty table, and a count of 1. *)
NoOutput == [table |-> [k \in 1..Slots |-> NoWriter], castonly |-> FALSE,
             count |-> 1]
=============================================================================
