----------------------------- MODULE MCHoneyBadger -----------------------------
(* One round of HoneyBadger as it is called, for TLC. *)
EXTENDS HoneyBadger

CONSTANTS a, b   \* the correct nodes

MCApart == (a :> <<1, 2, 3, 4>>) @@ (b :> <<5, 6, 7, 8>>)
=============================================================================
