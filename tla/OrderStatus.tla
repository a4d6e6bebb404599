----------------------------- MODULE OrderStatus -----------------------------
(***************************************************************************)
(* Where an order is in its life, and the moves the domain allows: the     *)
(* enum OrderStatus of crates/hemsidor24-core/src/status.rs.  Every other  *)
(* module takes its statuses from here.                                    *)
(***************************************************************************)

Statuses == {"Ny", "UtkastSkickat", "Godkand", "Publicerad", "Avbruten"}

INITIAL == "Ny"

\* Mutant: an order can be approved without having been proposed.
NextAllowed_SkipsProposal(s) ==
  CASE s = "Ny"            -> {"UtkastSkickat", "Godkand", "Avbruten"}
    [] s = "UtkastSkickat" -> {"Godkand", "Avbruten"}
    [] s = "Godkand"       -> {"Publicerad", "Avbruten"}
    [] OTHER               -> {}

\* The match arms of next_allowed: the terminal states allow nothing.
NextAllowed(s) ==
  CASE s = "Ny"            -> {"UtkastSkickat", "Avbruten"}
    [] s = "UtkastSkickat" -> {"Godkand", "Avbruten"}
    [] s = "Godkand"       -> {"Publicerad", "Avbruten"}
    [] OTHER               -> {}

CanTransition(from, to) == to \in NextAllowed(from)

IsTerminal(s) == NextAllowed(s) = {}
=============================================================================
