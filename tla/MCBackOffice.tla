---------------------------- MODULE MCBackOffice ----------------------------
(***************************************************************************)
(* Small instances of BackOffice for TLC.  A run starts from an empty back *)
(* office (Spec) or, to reach all of two operators' encounters within a    *)
(* small bound, from a state Spec reaches: an order that was accepted and  *)
(* its site filled in, with a reason to refund it (AcceptedSpec), or that  *)
(* was proposed and approved as well (ApprovedSpec).                       *)
(***************************************************************************)
EXTENDS BackOffice, TLC

\* A site's references as an operator may enter them.
Plain == [NoRefs EXCEPT !["domain"] = "fits", !["source"] = "fits"]
Long  == [NoRefs EXCEPT !["domain"] = "too_long", !["hosting"] = "fits"]

NoFillings == {}
PlainFillings == {Plain}
LongFillings == {Long}

Symmetry == Permutations(Operator) \cup Permutations(OrderId)

\* The one order of an instance after its accept: with a customer, a site that has
\* been filled in and a delivery, and so far in its life.
Underway(status, held, stamps, reason, now) ==
  \E o \in OrderId :
    /\ OrderId = {o}
    /\ orders = [id \in OrderId |-> [status |-> status, customer |-> 1]]
    /\ customers = [c \in RowId |-> IF c = 1 THEN o ELSE NoOrder]
    /\ sites = [s \in RowId |-> IF s = 1
                  THEN [order |-> o, customer |-> 1, live |-> TRUE, refs |-> Plain,
                        published |-> NULL]
                  ELSE NoSite]
    /\ deliveries = [d \in RowId |-> IF d = 1
                       THEN [NoDelivery EXCEPT !.site = 1, !.customer = 1,
                               !.at = stamps @@ NoDelivery.at, !.reason = reason]
                       ELSE NoDelivery]
    /\ released = [c \in RowId |-> [a \in Assets |-> 0]]
    /\ cellHolder = {}
    /\ mails = [id \in OrderId |-> [a \in ActionNames |-> 0]]
    /\ everHeld = [id \in OrderId |-> held]
    /\ clock = now
    /\ faults = 0
    /\ crashes = 0
    /\ run = [op \in Operator |-> Idle]

AcceptedInit == Underway(INITIAL, {INITIAL}, <<>>, TRUE, 0)

AcceptedSpec == AcceptedInit /\ [][Next]_vars

ApprovedInit == Underway("Godkand", {"Ny", "UtkastSkickat", "Godkand"},
                         [offered |-> 1, accepted |-> 2], FALSE, 2)

ApprovedSpec == ApprovedInit /\ [][Next]_vars

ApprovedFairSpec == ApprovedSpec /\ \A op \in Operator : WF_vars(Serve(op))
=============================================================================
