------------------------------- MODULE MCIntake -------------------------------
(***************************************************************************)
(* Small instances of Intake: visitors that come from one address.         *)
(***************************************************************************)
EXTENDS Intake

CONSTANT home

OneAddress == {home}
SharedAddress == [v \in Visitor |-> home]
=============================================================================
