--------------------------- MODULE MCRtraceSession ---------------------------
(* Instances of RtraceSession for TLC. *)
EXTENDS RtraceSession

Plain == [o |-> NoSpec, I |-> FALSE, unknown |-> FALSE,
          ab |-> FALSE, aa |-> "unset", af |-> NoFile]

With(o) == [Plain EXCEPT !.o = o]
CachedIn(af) == [Plain EXCEPT !.ab = TRUE, !.af = af]

(* Two scenes, one with a light source of its own; two source files. *)
MCLoads == [room |-> 1, court |-> 1, sun |-> 1, sky |-> 2]
MCScenes == {"room", "court"}
MCSources == {"sun", "sky"}

DocumentedArgs ==
  {Plain, CachedIn("amb1"),
   [With(<<"v", "d">>) EXCEPT !.I = TRUE],
   [With(<<"L">>) EXCEPT !.unknown = TRUE]}
DocumentedSpecs ==
  {<<"L", "?">>, <<"Z", "r", "d">>, <<"W">>}

ExplicitArgs ==
  {With(<<"Z">>), With(<<"v", "L", "N", "M">>),
   [CachedIn("amb1") EXCEPT !.o = <<"v", "L">>],
   [CachedIn("amb2") EXCEPT !.o = <<"L">>]}

CastArgs == {With(<<"L">>)}
NoSpecs == {}
LuminanceSpecs == {<<"Z">>}
=============================================================================
