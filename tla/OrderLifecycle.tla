---------------------------- MODULE OrderLifecycle ----------------------------
(***************************************************************************)
(* What the back office promises about the status column: whatever the     *)
(* studio's operators do, an order only ever takes a step the domain       *)
(* allows.  This is OrderStatus::transition_to applied to a table of       *)
(* orders; BackOffice is the code that has to implement it.                *)
(***************************************************************************)
EXTENDS OrderStatus

CONSTANT OrderId

VARIABLE status

TypeOK == status \in [OrderId -> Statuses]

Init == status = [o \in OrderId |-> INITIAL]

Transition(o, to) ==
  /\ CanTransition(status[o], to)
  /\ status' = [status EXCEPT ![o] = to]

Next == \E o \in OrderId, to \in Statuses : Transition(o, to)

Spec == Init /\ [][Next]_status
=============================================================================
