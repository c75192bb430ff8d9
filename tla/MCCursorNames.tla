---------------------------- MODULE MCCursorNames ----------------------------
(***************************************************************************)
(* CursorNames for TLC.  Identifiers of one to three words, with the       *)
(* markers of the scheme at either end or, which is refused, in between.   *)
(***************************************************************************)
EXTENDS CursorNames

MCIdentifiers ==
  {<<"a">>, <<"b">>, <<"J", "a">>, <<"a", "P">>, <<"P", "b">>, <<"b", "J", "a">>}

=============================================================================
