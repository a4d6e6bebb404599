------------------------------ MODULE ClaimChain ------------------------------
(***************************************************************************)
(* What the studio's record promises its reader (signing.rs:91-98 and      *)
(* studio.rs:62-138 of the handover crate): one signing identity, brought  *)
(* into existence once, and under it a chain of claims that only grows, in *)
(* which every discharge closes a release the chain already holds.         *)
(* Handover is the code, the script and the operator who have to keep it.  *)
(***************************************************************************)
EXTENDS Naturals, Sequences

CONSTANTS Customer, Nobody, Item, ClaimId, None

VARIABLES key, log

Init == key = None /\ log = <<>>

\* A new identity, with an empty chain; never in the place of another.
Begin ==
  /\ key = None /\ key' # None
  /\ log = <<>> /\ log' = <<>>

Fresh(id) == \A k \in DOMAIN log : log[k].id # id

Extend(id, event, item, counterparty, acknowledges) ==
  /\ key # None /\ key' = key
  /\ Fresh(id)
  /\ log' = Append(log, [id |-> id, event |-> event, item |-> item,
                         counterparty |-> counterparty, acknowledges |-> acknowledges])

Release(id, item, customer) == Extend(id, "Released", item, customer, None)

Discharge(id, k) ==
  /\ log[k].event = "Released"
  /\ Extend(id, "Discharged", log[k].item, Nobody, log[k].id)

Next ==
  \/ Begin
  \/ \E id \in ClaimId :
       \/ \E item \in Item, customer \in Customer : Release(id, item, customer)
       \/ \E k \in DOMAIN log : Discharge(id, k)

Spec == Init /\ [][Next]_<<key, log>>
=============================================================================
