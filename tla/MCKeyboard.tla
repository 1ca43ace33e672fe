----------------------------- MODULE MCKeyboard -----------------------------
(***************************************************************************)
(* Keyboard with a few digit keys: one that signs in, one that signs out   *)
(* and one that does neither.                                              *)
(***************************************************************************)
EXTENDS Keyboard

MCDigits == {0, 1, 3}
=============================================================================
