---------------------------- MODULE MC_Instructions ----------------------------
(***************************************************************************)
(* Model-checking instance of Instructions.  Addresses are 32 copies of    *)
(* one byte: 1 or 2.  An unwritten byte may hold 0, 1 or 2, so it can look *)
(* like a flag or like either address.                                     *)
(***************************************************************************)
EXTENDS Instructions

a == <<97>>
b == <<98>>

(* One string for every Create field: the run about payloads that can be   *)
(* told apart.                                                             *)
MCStrsOne == {a}

(* Strings whose concatenations coincide: "ab" ++ "" and "a" ++ "b".       *)
MCStrsSplit == {<<>>, a, b, a \o b}

=============================================================================
