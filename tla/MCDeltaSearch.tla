--------------------------- MODULE MCDeltaSearch ---------------------------
(***************************************************************************)
(* An instance of DeltaSearch for TLC.                                     *)
(***************************************************************************)
EXTENDS DeltaSearch, TLC

CONSTANT long

\* Short and long lines, a run in other letters, a run that crosses two lines,
\* the text of an operator, and a line after a long one.
SomeTexts ==
    <<"a">>      :> << <<"a", "a", "a">>, <<"A">> >> @@
    <<"A">>      :> << <<"a", "A", "a", "a">> >> @@
    <<"a", "A">> :> << <<"a", "a">>, <<"a", " ", "a", "?", "a">> >> @@
    <<"A", "A">> :> << <<long>>, <<"A", "a", "a">> >>

SomeStrokes ==
    { <<"a">>, <<"a", "a", "a">>, <<"A">>, <<"?">>, <<"|">>, <<"\\">>, <<" ">>,
      <<"\"">>, <<"file:">>, <<"-file:">>, <<"sym:">>, <<"case:", "yes">> }
=============================================================================
