------------------------------- MODULE MCRedact -------------------------------
(* Redact on texts made of fragments, for TLC. *)
EXTENDS Redact

Fragments ==
  {<<"name", "=">>, <<"letter">>, <<"digit", "digit">>, <<"quote">>, <<"newline">>, <<"blank">>,
   <<"token", "letter", "letter">>, <<"url">>, <<"@">>, <<"BEGIN">>, <<"END">>, <<",">>}

\* Of assignments, quotes and blocks.
Pieces == {<<"name", "=">>, <<"letter">>, <<"quote">>, <<"newline">>, <<"blank", ",">>, <<"BEGIN">>, <<"END">>}

\* Longer than a window's overlap, with and without a line break.
Fillers ==
  {<<"letter", "letter", "letter", "letter", "letter", "letter">>,
   <<"newline", "letter", "letter", "letter", "newline">>,
   <<"digit", "digit", "digit", "letter", "letter", "letter", "digit">>, <<",", "blank", "/">>}

TextsOf(parts) == {t \in {FlattenSeq(p) : p \in parts} : Separated(t)}

AllTexts ==
  TextsOf([1..4 -> Fragments]) \cup TextsOf([1..4 -> Pieces])
    \cup TextsOf(Fragments \X Fillers \X Fragments \X Fillers \X Pieces)
=============================================================================
