--------------------------- MODULE BackOfficeProofs ---------------------------
(***************************************************************************)
(* Theorems about BackOffice for every number of operators, orders and     *)
(* rows, every set of offered actions and any number of failures.          *)
(***************************************************************************)
EXTENDS BackOffice, TLAPS

\* The points of a request at which it works on one order.
Working == Points \ {"idle", "next"}

\* A request that works on an order has read that order.
OrderTaken ==
  \A op \in Operator : run[op].pc \in Working => run[op].order \in OrderId

TypeInv == TypeOK /\ OrderTaken

-----------------------------------------------------------------------------
(* Type correctness *)

LEMMA RunType ==
  TypeInv => /\ run \in [Operator -> Request]
             /\ \A op \in Operator : run[op] \in Request
  BY DEF TypeInv, TypeOK

LEMMA IdleType == Idle \in Request /\ Idle.pc = "idle" /\ NoRefs \in References
  <1>1. NoRefs \in References
    BY DEF NoRefs, References
  <1> QED
    BY <1>1 DEF Idle, Request, Points, ActionNames

\* What a per-order function leaves behind is a request between two orders.
LEMMA SettleType ==
  ASSUME TypeInv, NEW op \in Operator, NEW o,
         NEW succeeded \in SUBSET OrderId, NEW failed \in SUBSET OrderId,
         Settle(op, o, succeeded, failed)
  PROVE  /\ run' \in [Operator -> Request]
         /\ run'[op].pc = "next"
         /\ run'[op].action = run[op].action
         /\ run'[op].succeeded = succeeded
         /\ \A q \in Operator : q # op => run'[q] = run[q]
  <1> DEFINE left == [Idle EXCEPT !.pc = "next", !.action = run[op].action,
                                  !.todo = run[op].todo \ {o},
                                  !.succeeded = succeeded, !.failed = failed]
  <1>1. run \in [Operator -> Request] /\ run[op] \in Request
    BY RunType
  <1>2. run[op].action \in ActionNames /\ run[op].todo \ {o} \in SUBSET OrderId
    BY <1>1 DEF Request
  <1>3. Idle \in Request /\ "next" \in Points
    BY IdleType DEF Points
  <1>4. /\ left \in Request
        /\ left.pc = "next" /\ left.action = run[op].action
        /\ left.succeeded = succeeded
    BY <1>2, <1>3 DEF Request
  <1>5. run' = [run EXCEPT ![op] = left]
    BY DEF Settle
  <1> HIDE DEF left
  <1> QED
    BY <1>1, <1>4, <1>5

LEMMA GotoType ==
  ASSUME TypeInv, NEW op \in Operator, NEW pc \in Points, Goto(op, pc)
  PROVE  /\ run' \in [Operator -> Request]
         /\ run'[op] = [run[op] EXCEPT !.pc = pc]
         /\ run'[op].pc = pc /\ run'[op].order = run[op].order
         /\ \A q \in Operator : q # op => run'[q] = run[q]
  BY RunType DEF Goto, Request

LEMMA TakeType ==
  ASSUME TypeInv, NEW op \in Operator, NEW o \in OrderId, NEW pc \in Points,
         Take(op, o, pc)
  PROVE  /\ run' \in [Operator -> Request]
         /\ run'[op] = [run[op] EXCEPT !.pc = pc, !.order = o,
                                       !.customer = orders[o].customer]
         /\ run'[op].pc = pc /\ run'[op].order = o
         /\ \A q \in Operator : q # op => run'[q] = run[q]
  <1> DEFINE r == [run[op] EXCEPT !.pc = pc, !.order = o,
                                  !.customer = orders[o].customer]
  <1>1. orders[o].customer \in RowId \cup {None}
    BY DEF TypeInv, TypeOK
  <1>2. run \in [Operator -> Request] /\ run[op] \in Request
    BY RunType
  <1>3. r \in Request
    BY <1>1, <1>2 DEF Request
  <1>4. run' = [run EXCEPT ![op] = r]
    BY DEF Take
  <1>5. r.pc = pc /\ r.order = o
    BY <1>2 DEF Request
  <1> QED
    BY <1>2, <1>3, <1>4, <1>5

LEMMA InitType == Init => TypeInv
  <1> SUFFICES ASSUME Init PROVE TypeInv
    OBVIOUS
  <1> USE DEF Init
  <1>1. NoRefs \in References
    BY IdleType
  <1>2. Idle \in Request /\ Idle.pc = "idle"
    BY IdleType
  <1>3. NoSite \in SiteRow
    BY <1>1 DEF NoSite, SiteRow, NULL
  <1>4. NoDelivery \in DeliveryRow
    BY DEF NoDelivery, DeliveryRow, NULL
  <1>5. INITIAL \in Statuses
    BY DEF INITIAL, Statuses
  <1>6. TypeOK
    BY <1>2, <1>3, <1>4, <1>5 DEF TypeOK, None
  <1>7. OrderTaken
    BY <1>2 DEF OrderTaken, Working
  <1> QED
    BY <1>6, <1>7 DEF TypeInv
-----------------------------------------------------------------------------
(* Every action keeps the types: one lemma per group of the source.        *)

\* Assigning a request to one operator.
LEMMA Assign ==
  ASSUME TypeInv, NEW op \in Operator, NEW r \in Request,
         run' = [run EXCEPT ![op] = r]
  PROVE  /\ run' \in [Operator -> Request]
         /\ run'[op] = r
         /\ \A q \in Operator : q # op => run'[q] = run[q]
  BY RunType

\* It is enough to look at the operator that moved.
LEMMA OrderTakenStep ==
  ASSUME TypeInv, NEW op \in Operator,
         \A q \in Operator : q # op => run'[q] = run[q],
         run'[op].pc \in Working => run'[op].order \in OrderId
  PROVE  OrderTaken'
  BY DEF TypeInv, OrderTaken

LEMMA RunOnlyType ==
  ASSUME TypeInv, NEW op \in Operator,
         run' \in [Operator -> Request],
         \A q \in Operator : q # op => run'[q] = run[q],
         run'[op].pc \in Working => run'[op].order \in OrderId,
         UNCHANGED <<orders, customers, sites, deliveries, released, mails,
                     everHeld, clock, crashes>>,
         cellHolder' \in SUBSET Operator, faults' \in Nat
  PROVE  TypeInv'
  BY OrderTakenStep DEF TypeInv, TypeOK

LEMMA FaultType == TypeInv /\ Fault => faults' \in Nat
  BY DEF TypeInv, TypeOK, Fault

LEMMA RequestType ==
  ASSUME TypeInv, NEW op \in Operator, NEW action \in ActionNames,
         NEW chosen \in SUBSET OrderId, StartRun(op, action, chosen) \/ Finish(op)
  PROVE  TypeInv'
  <1> DEFINE begun == [Idle EXCEPT !.pc = "next", !.action = action,
                                   !.todo = chosen]
  <1>1. /\ begun \in Request /\ begun.pc = "next"
        /\ Idle \in Request /\ Idle.pc = "idle"
    BY IdleType DEF Request, Points
  <1>2. /\ run' = [run EXCEPT ![op] = begun] \/ run' = [run EXCEPT ![op] = Idle]
        /\ UNCHANGED <<orders, customers, sites, deliveries, released,
                       cellHolder, mails, everHeld, clock, faults, crashes>>
    BY DEF StartRun, Finish
  <1> HIDE DEF begun
  <1>3. /\ run' \in [Operator -> Request]
        /\ \A q \in Operator : q # op => run'[q] = run[q]
        /\ run'[op].pc \in {"next", "idle"}
    BY <1>1, <1>2, Assign
  <1>4. run'[op].pc \notin Working
    BY <1>3 DEF Working
  <1>5. cellHolder' \in SUBSET Operator /\ faults' \in Nat
    BY <1>2 DEF TypeInv, TypeOK
  <1> QED
    BY <1>2, <1>3, <1>4, <1>5, RunOnlyType

\* A read either refuses the order or takes it; neither touches the tables.
LEMMA ReadType ==
  ASSUME TypeInv, NEW op \in Operator, NEW o \in OrderId,
         NEW pc \in Points, NEW actions, Reading(op, o, actions),
         Fail(op, o) \/ Take(op, o, pc)
  PROVE  TypeInv'
  <1>1. /\ run[op] \in Request /\ run[op].failed \cup {o} \in SUBSET OrderId
        /\ run[op].succeeded \in SUBSET OrderId
    BY RunType DEF Request
  <1>2. /\ run' \in [Operator -> Request]
        /\ \A q \in Operator : q # op => run'[q] = run[q]
        /\ run'[op].pc \in Working => run'[op].order \in OrderId
    <2>1. CASE Fail(op, o)
      BY <2>1, <1>1, SettleType DEF Fail, Working
    <2>2. CASE Take(op, o, pc)
      BY <2>2, TakeType
    <2> QED
      BY <2>1, <2>2
  <1>3. cellHolder' \in SUBSET Operator /\ faults' \in Nat
    BY DEF Reading, TypeInv, TypeOK
  <1> QED
    BY <1>2, <1>3, RunOnlyType DEF Reading

LEMMA ReadsType ==
  ASSUME TypeInv, NEW op \in Operator, NEW o \in OrderId,
         \/ ReadForAccept(op, o) \/ ReadForStep(op, o)
         \/ ReadForPublish(op, o) \/ ReadForRefund(op, o)
  PROVE  TypeInv'
  <1>1. /\ "customer" \in Points /\ "status" \in Points
        /\ "site" \in Points /\ "find" \in Points
    BY DEF Points
  <1>2. CASE ReadForAccept(op, o)
    BY <1>1, <1>2, ReadType DEF ReadForAccept
  <1>3. CASE ReadForStep(op, o)
    BY <1>1, <1>3, ReadType DEF ReadForStep
  <1>4. CASE ReadForPublish(op, o)
    BY <1>1, <1>4, ReadType DEF ReadForPublish
  <1>5. CASE ReadForRefund(op, o)
    BY <1>1, <1>5, ReadType DEF ReadForRefund
  <1> QED
    BY <1>2, <1>3, <1>4, <1>5

\* A request in the middle of an order returns, or goes on to its next await.
LEMMA Moves ==
  ASSUME TypeInv, NEW op \in Operator, run[op].pc \in Working,
         \/ Fail(op, run[op].order)
         \/ Succeed(op, run[op].order)
         \/ \E pc \in Points : Goto(op, pc)
         \/ \E r \in Request : /\ r.order = run[op].order
                               /\ run' = [run EXCEPT ![op] = r]
  PROVE  run' \in [Operator -> Request] /\ OrderTaken'
  <1>1. /\ run[op] \in Request /\ run[op].order \in OrderId
        /\ run[op].failed \cup {run[op].order} \in SUBSET OrderId
        /\ run[op].succeeded \cup {run[op].order} \in SUBSET OrderId
        /\ run[op].failed \in SUBSET OrderId
        /\ run[op].succeeded \in SUBSET OrderId
    BY RunType DEF Request, TypeInv, OrderTaken
  <1>2. CASE Fail(op, run[op].order)
    BY <1>1, <1>2, SettleType, OrderTakenStep DEF Fail, Working
  <1>3. CASE Succeed(op, run[op].order)
    BY <1>1, <1>3, SettleType, OrderTakenStep DEF Succeed, Working
  <1>4. CASE \E pc \in Points : Goto(op, pc)
    BY <1>1, <1>4, GotoType, OrderTakenStep
  <1>5. CASE \E r \in Request : /\ r.order = run[op].order
                                /\ run' = [run EXCEPT ![op] = r]
    BY <1>1, <1>5, Assign, OrderTakenStep
  <1> QED
    BY <1>2, <1>3, <1>4, <1>5

LEMMA ReadFailsType ==
  ASSUME TypeInv, NEW op \in Operator, ReadFails(op)
  PROVE  TypeInv'
  <1>1. /\ run[op] \in Request
        /\ run[op].failed \in SUBSET OrderId /\ run[op].succeeded \in SUBSET OrderId
    BY RunType DEF Request
  <1>2. /\ run' \in [Operator -> Request]
        /\ \A q \in Operator : q # op => run'[q] = run[q]
        /\ run'[op].pc = "next"
    <2>1. CASE \E o \in run[op].todo : At(op, "next") /\ Fail(op, o)
      <3> PICK o \in run[op].todo : Fail(op, o)
        BY <2>1
      <3>1. run[op].failed \cup {o} \in SUBSET OrderId
        BY <1>1 DEF Request
      <3> QED
        BY <1>1, <3>1, SettleType DEF Fail
    <2>2. CASE run[op].pc \in {"site", "find"} /\ Fail(op, run[op].order)
      <3>1. run[op].failed \cup {run[op].order} \in SUBSET OrderId
        BY <1>1, <2>2 DEF TypeInv, OrderTaken, Working, Points
      <3> QED
        BY <1>1, <2>2, <3>1, SettleType DEF Fail
    <2> QED
      BY <2>1, <2>2 DEF ReadFails
  <1>3. run'[op].pc \notin Working
    BY <1>2 DEF Working
  <1>4. cellHolder' \in SUBSET Operator /\ faults' \in Nat
    BY FaultType DEF ReadFails, TypeInv, TypeOK
  <1> QED
    BY <1>2, <1>3, <1>4, RunOnlyType DEF ReadFails

LEMMA CreateCustomerType ==
  ASSUME TypeInv, NEW op \in Operator, CreateCustomer(op)
  PROVE  TypeInv'
  <1>1. run[op].pc \in Working /\ run[op] \in Request /\ run[op].order \in OrderId
    BY RunType DEF CreateCustomer, At, Working, Points, TypeInv, OrderTaken
  <1>2. PICK c \in RowId :
          \/ run' = [run EXCEPT ![op] = [@ EXCEPT !.pc = "insert_site",
                                                  !.customer = c]]
          \/ Fail(op, run[op].order)
    BY DEF CreateCustomer
  <1>3. run' \in [Operator -> Request] /\ OrderTaken'
    <2> DEFINE r == [run[op] EXCEPT !.pc = "insert_site", !.customer = c]
    <2>1. r \in Request /\ r.order = run[op].order
      BY <1>1 DEF Request, Points
    <2> HIDE DEF r
    <2>2. run' = [run EXCEPT ![op] = r] \/ Fail(op, run[op].order)
      BY <1>2 DEF r
    <2> QED
      BY <1>1, <2>1, <2>2, Moves
  <1>4. customers' \in [RowId -> OrderId \cup {NoOrder}]
    BY <1>1 DEF CreateCustomer, TypeInv, TypeOK
  <1>5. faults' \in Nat
    BY FaultType DEF CreateCustomer, TypeInv, TypeOK
  <1> QED
    BY <1>3, <1>4, <1>5 DEF CreateCustomer, TypeInv, TypeOK

LEMMA CreateSiteType ==
  ASSUME TypeInv, NEW op \in Operator, CreateSite(op)
  PROVE  TypeInv'
  <1> DEFINE row == [NoSite EXCEPT !.order = run[op].order,
                                   !.customer = run[op].customer]
  <1>1. run[op].pc \in Working /\ run[op] \in Request /\ run[op].order \in OrderId
    BY RunType DEF CreateSite, At, Working, Points, TypeInv, OrderTaken
  <1>2. PICK s \in RowId :
          \/ run' = [run EXCEPT ![op] = [@ EXCEPT !.pc = "insert_delivery",
                                                  !.site = s]]
          \/ Fail(op, run[op].order)
    BY DEF CreateSite
  <1>3. run' \in [Operator -> Request] /\ OrderTaken'
    <2> DEFINE r == [run[op] EXCEPT !.pc = "insert_delivery", !.site = s]
    <2>1. r \in Request /\ r.order = run[op].order
      BY <1>1 DEF Request, Points
    <2> HIDE DEF r
    <2>2. run' = [run EXCEPT ![op] = r] \/ Fail(op, run[op].order)
      BY <1>2 DEF r
    <2> QED
      BY <1>1, <2>1, <2>2, Moves
  <1>4. row \in SiteRow
    BY <1>1, IdleType DEF NoSite, SiteRow, Request, NULL
  <1>5. sites' \in [RowId -> SiteRow]
    <2> HIDE DEF row
    <2>1. \/ \E q \in RowId : sites' = [sites EXCEPT ![q] = row]
          \/ UNCHANGED sites
      BY DEF CreateSite, row
    <2> QED
      BY <1>4, <2>1 DEF TypeInv, TypeOK
  <1>6. faults' \in Nat
    BY FaultType DEF CreateSite, TypeInv, TypeOK
  <1> QED
    BY <1>3, <1>5, <1>6 DEF CreateSite, TypeInv, TypeOK

LEMMA CreateDeliveryType ==
  ASSUME TypeInv, NEW op \in Operator, CreateDelivery(op)
  PROVE  TypeInv'
  <1> DEFINE row == [NoDelivery EXCEPT !.site = run[op].site,
                                       !.customer = run[op].customer]
  <1>1. run[op].pc \in Working /\ run[op] \in Request /\ run[op].order \in OrderId
    BY RunType DEF CreateDelivery, At, Working, Points, TypeInv, OrderTaken
  <1>2. Goto(op, "link") \/ Fail(op, run[op].order)
    BY DEF CreateDelivery
  <1>3. run' \in [Operator -> Request] /\ OrderTaken'
    BY <1>1, <1>2, Moves DEF Points
  <1>4. row \in DeliveryRow
    BY <1>1 DEF NoDelivery, DeliveryRow, Request, NULL
  <1>5. deliveries' \in [RowId -> DeliveryRow]
    <2> HIDE DEF row
    <2>1. \/ \E d \in RowId : deliveries' = [deliveries EXCEPT ![d] = row]
          \/ UNCHANGED deliveries
      BY DEF CreateDelivery, row
    <2> QED
      BY <1>4, <2>1 DEF TypeInv, TypeOK
  <1>6. faults' \in Nat
    BY FaultType DEF CreateDelivery, TypeInv, TypeOK
  <1> QED
    BY <1>3, <1>5, <1>6 DEF CreateDelivery, TypeInv, TypeOK

LEMMA LinkOrderType ==
  ASSUME TypeInv, NEW op \in Operator, LinkOrder(op)
  PROVE  TypeInv'
  <1>1. run[op].pc \in Working /\ run[op] \in Request /\ run[op].order \in OrderId
    BY RunType DEF LinkOrder, At, Working, Points, TypeInv, OrderTaken
  <1>2. run' \in [Operator -> Request] /\ OrderTaken'
    BY <1>1, Moves DEF LinkOrder
  <1>3. orders' \in [OrderId -> [status : Statuses, customer : RowId \cup {None}]]
    BY <1>1 DEF LinkOrder, TypeInv, TypeOK, Request
  <1>4. faults' \in Nat
    BY FaultType DEF LinkOrder, TypeInv, TypeOK
  <1> QED
    BY <1>2, <1>3, <1>4 DEF LinkOrder, TypeInv, TypeOK

LEMMA AdvanceStatusType ==
  ASSUME TypeInv, NEW op \in Operator, AdvanceStatus(op) \/ PublishStatus(op)
  PROVE  TypeInv'
  <1>1. PICK to \in Statuses, pc \in Points : WriteStatus(op, to, pc)
    BY DEF AdvanceStatus, PublishStatus, Step, ProposalStep, AcceptanceStep,
           CancelStep, Statuses, Points
  <1>2. run[op].pc \in Working /\ run[op].order \in OrderId
    BY DEF AdvanceStatus, PublishStatus, At, Working, Points, TypeInv, OrderTaken
  <1>3. run' \in [Operator -> Request] /\ OrderTaken'
    BY <1>1, <1>2, Moves DEF WriteStatus
  <1>4. /\ orders' \in [OrderId -> [status : Statuses, customer : RowId \cup {None}]]
        /\ everHeld' \in [OrderId -> SUBSET Statuses]
    <2>1. CASE UNCHANGED <<orders, everHeld>>
      BY <2>1 DEF TypeInv, TypeOK
    <2>2. CASE /\ orders' = [orders EXCEPT ![run[op].order].status = to]
               /\ everHeld' = [everHeld EXCEPT ![run[op].order] = @ \cup {to}]
      BY <1>2, <2>2 DEF TypeInv, TypeOK
    <2> QED
      BY <1>1, <2>1, <2>2 DEF WriteStatus
  <1>5. faults' \in Nat
    BY <1>1, FaultType DEF WriteStatus, TypeInv, TypeOK
  <1> QED
    BY <1>1, <1>3, <1>4, <1>5 DEF WriteStatus, TypeInv, TypeOK

\* A row whose stamps, flags or publication are touched is still a row.
LEMMA TouchedRows ==
  /\ \A d \in DeliveryRow, t \in Nat : \A k :
       [d EXCEPT !.at[k] = t] \in DeliveryRow
  /\ \A d \in DeliveryRow, signed \in SUBSET Assets :
       [d EXCEPT !.flags = @ \cup signed] \in DeliveryRow
  /\ \A s \in SiteRow, t \in Nat : [s EXCEPT !.published = t] \in SiteRow
  <1>1. ASSUME NEW d \in DeliveryRow, NEW k, NEW t \in Nat
        PROVE  [d EXCEPT !.at[k] = t] \in DeliveryRow
    <2> DEFINE at == [d.at EXCEPT ![k] = t]
    <2>1. at \in [Moments -> Nat]
      BY DEF DeliveryRow
    <2>2. [d EXCEPT !.at[k] = t] = [d EXCEPT !.at = at]
      OBVIOUS
    <2> HIDE DEF at
    <2>3. [d EXCEPT !.at = at] \in DeliveryRow
      BY <2>1 DEF DeliveryRow
    <2> QED
      BY <2>2, <2>3
  <1>2. ASSUME NEW d \in DeliveryRow, NEW signed \in SUBSET Assets
        PROVE  [d EXCEPT !.flags = @ \cup signed] \in DeliveryRow
    BY DEF DeliveryRow
  <1>3. ASSUME NEW s \in SiteRow, NEW t \in Nat
        PROVE  [s EXCEPT !.published = t] \in SiteRow
    BY DEF SiteRow
  <1> QED
    BY <1>1, <1>2, <1>3

LEMMA StampedType ==
  ASSUME TypeInv, NEW d \in RowId, NEW k
  PROVE  Stamped(d, k) \in DeliveryRow
  <1> DEFINE r == deliveries[d]
             t == clock + 1
  <1>1. r \in DeliveryRow /\ t \in Nat
    BY DEF TypeInv, TypeOK
  <1> HIDE DEF r, t
  <1>2. [r EXCEPT !.at[k] = t] \in DeliveryRow
    BY <1>1, TouchedRows
  <1> QED
    BY <1>2 DEF Stamped, r, t

LEMMA StampDeliveryType ==
  ASSUME TypeInv, NEW op \in Operator, StampDelivery(op)
  PROVE  TypeInv'
  <1>1. run[op].pc \in Working
    BY DEF StampDelivery, At, Working, Points
  <1>2. run' \in [Operator -> Request] /\ OrderTaken'
    BY <1>1, Moves DEF StampDelivery, Points
  <1>4. deliveries' \in [RowId -> DeliveryRow]
    <2> DEFINE m == Step(run[op].action).stamp
               hits == {d \in DeliveriesOf(run[op].order) : deliveries[d].at[m] = NULL}
    <2>1. \A d \in RowId : Stamped(d, m) \in DeliveryRow /\ deliveries[d] \in DeliveryRow
      BY StampedType DEF TypeInv, TypeOK
    <2>2. \/ deliveries' = [d \in RowId |-> IF d \in hits THEN Stamped(d, m)
                                                          ELSE deliveries[d]]
          \/ deliveries' = deliveries
      BY DEF StampDelivery
    <2> HIDE DEF m, hits
    <2> QED
      BY <2>1, <2>2 DEF TypeInv, TypeOK
  <1>5. clock' \in Nat /\ faults' \in Nat
    BY FaultType DEF StampDelivery, TypeInv, TypeOK
  <1> QED
    BY <1>2, <1>4, <1>5 DEF StampDelivery, TypeInv, TypeOK

LEMMA NotifyType ==
  ASSUME TypeInv, NEW op \in Operator, Notify(op)
  PROVE  TypeInv'
  <1>1. run[op].pc \in Working
    BY DEF Notify, At, Working, Points
  <1>2. run' \in [Operator -> Request] /\ OrderTaken'
    BY <1>1, Moves DEF Notify
  <1>3. mails' \in [OrderId -> [ActionNames -> Nat]]
    <2> DEFINE o == run[op].order
               a == run[op].action
               row == [mails[o] EXCEPT ![a] = @ + 1]
    <2>1. /\ o \in OrderId /\ a \in ActionNames
          /\ mails \in [OrderId -> [ActionNames -> Nat]]
      BY <1>1, RunType DEF TypeInv, TypeOK, OrderTaken, Request
    <2>2. row \in [ActionNames -> Nat]
      <3> HIDE DEF o, a
      <3>1. mails[o] \in [ActionNames -> Nat] /\ mails[o][a] + 1 \in Nat
        BY <2>1
      <3> QED
        BY <3>1
    <2>3. mails' = [mails EXCEPT ![o] = row] \/ mails' = mails
      <3>1. [mails EXCEPT ![o][a] = @ + 1] = [mails EXCEPT ![o] = row]
        OBVIOUS
      <3> QED
        BY <3>1 DEF Notify
    <2> HIDE DEF o, a, row
    <2> QED
      BY <2>1, <2>2, <2>3
  <1> QED
    BY <1>2, <1>3 DEF Notify, TypeInv, TypeOK

LEMMA ReadSiteType ==
  ASSUME TypeInv, NEW op \in Operator, ReadSite(op)
  PROVE  TypeInv'
  <1>1. run[op].pc \in Working /\ run[op] \in Request
    BY RunType DEF ReadSite, At, Working, Points
  <1>2. \/ Fail(op, run[op].order)
        \/ \E s \in RowId, refs \in References :
             run' = [run EXCEPT ![op] =
                       [@ EXCEPT !.pc = "status", !.site = s, !.refs = refs]]
    <2>1. \A s \in RowId : /\ sites[s].refs \in References
                           /\ [sites[s].refs EXCEPT !["domain"] = "empty"] \in References
      BY DEF TypeInv, TypeOK, SiteRow, References
    <2> QED
      BY <2>1 DEF ReadSite, SitesOf
  <1>3. run' \in [Operator -> Request] /\ OrderTaken'
    <2>1. CASE Fail(op, run[op].order)
      BY <1>1, <2>1, Moves
    <2>2. ASSUME NEW s \in RowId, NEW refs \in References,
                 run' = [run EXCEPT ![op] =
                           [@ EXCEPT !.pc = "status", !.site = s, !.refs = refs]]
          PROVE  run' \in [Operator -> Request] /\ OrderTaken'
      <3> DEFINE r == [run[op] EXCEPT !.pc = "status", !.site = s, !.refs = refs]
      <3>1. r \in Request /\ r.order = run[op].order
        BY <1>1 DEF Request, Points
      <3>2. run' = [run EXCEPT ![op] = r]
        BY <2>2
      <3> HIDE DEF r
      <3> QED
        BY <1>1, <3>1, <3>2, Moves
    <2> QED
      BY <1>2, <2>1, <2>2
  <1>4. faults' \in Nat
    BY FaultType DEF ReadSite, TypeInv, TypeOK
  <1> QED
    BY <1>3, <1>4 DEF ReadSite, TypeInv, TypeOK

LEMMA StampPublishedType ==
  ASSUME TypeInv, NEW op \in Operator, StampPublished(op)
  PROVE  TypeInv'
  <1>1. run[op].pc \in Working
    BY DEF StampPublished, At, Working, Points
  <1>2. run' \in [Operator -> Request] /\ OrderTaken'
    BY <1>1, Moves DEF StampPublished, Points
  <1>3. sites' \in [RowId -> SiteRow]
    <2> DEFINE s == run[op].site
               row == [sites[s] EXCEPT !.published = clock + 1]
    <2>1. sites \in [RowId -> SiteRow] /\ clock + 1 \in Nat
      BY DEF TypeInv, TypeOK
    <2>2. s \in RowId => row \in SiteRow
      BY <2>1, TouchedRows
    <2>3. sites' = [sites EXCEPT ![s] = row] \/ sites' = sites
      BY DEF StampPublished
    <2> HIDE DEF s, row
    <2> QED
      BY <2>1, <2>2, <2>3
  <1>4. clock' \in Nat /\ faults' \in Nat
    BY FaultType DEF StampPublished, TypeInv, TypeOK
  <1> QED
    BY <1>2, <1>3, <1>4 DEF StampPublished, TypeInv, TypeOK

LEMMA OpenCellType ==
  ASSUME TypeInv, NEW op \in Operator, OpenCell(op)
  PROVE  TypeInv'
  <1>1. run[op].pc \in Working
    BY DEF OpenCell, At, Working, Points
  <1>2. run' \in [Operator -> Request] /\ OrderTaken'
    BY <1>1, Moves DEF OpenCell, Points
  <1>3. cellHolder' \in SUBSET Operator /\ faults' \in Nat
    BY FaultType DEF OpenCell, TypeInv, TypeOK
  <1> QED
    BY <1>2, <1>3 DEF OpenCell, TypeInv, TypeOK

LEMMA IssueClaimType ==
  ASSUME TypeInv, NEW op \in Operator, IssueClaim(op)
  PROVE  TypeInv'
  <1>1. run[op].pc \in Working /\ run[op] \in Request
    BY RunType DEF IssueClaim, At, Working, Points
  <1>2. PICK a \in Assets :
          \/ run' = [run EXCEPT ![op].issued = @ \cup {a}]
          \/ run' = [run EXCEPT ![op] = [@ EXCEPT !.pc = "flags", !.issued = {}]]
    BY DEF IssueClaim, ToSign
  <1>3. run' \in [Operator -> Request] /\ OrderTaken'
    <2> DEFINE r == [run[op] EXCEPT !.issued = run[op].issued \cup {a}]
               z == [run[op] EXCEPT !.pc = "flags", !.issued = {}]
    <2>1. r \in Request /\ r.order = run[op].order
      BY <1>1 DEF Request
    <2>2. z \in Request /\ z.order = run[op].order
      BY <1>1 DEF Request, Points
    <2>3. run' = [run EXCEPT ![op] = r] \/ run' = [run EXCEPT ![op] = z]
      BY <1>2
    <2> HIDE DEF r, z
    <2> QED
      BY <1>1, <2>1, <2>2, <2>3, Moves
  <1>4. released' \in [RowId -> [Assets -> Nat]]
    <2> DEFINE c == run[op].customer
               row(b) == [released[c] EXCEPT ![b] = @ + 1]
    <2>1. released \in [RowId -> [Assets -> Nat]]
      BY DEF TypeInv, TypeOK
    <2>2. c \in RowId => \A b \in Assets : row(b) \in [Assets -> Nat]
      BY <2>1
    <2>3. \/ \E b \in Assets : released' = [released EXCEPT ![c] = row(b)]
          \/ released' = released
      BY DEF IssueClaim, ToSign
    <2> HIDE DEF c, row
    <2> QED
      BY <2>1, <2>2, <2>3
  <1>5. cellHolder' \in SUBSET Operator /\ faults' \in Nat
    BY FaultType DEF IssueClaim, TypeInv, TypeOK
  <1> QED
    BY <1>3, <1>4, <1>5 DEF IssueClaim, TypeInv, TypeOK

LEMMA CloseCellType ==
  ASSUME TypeInv, NEW op \in Operator, CloseCell(op)
  PROVE  TypeInv'
  <1>1. run[op].pc \in Working
    BY DEF CloseCell, At, Working, Points
  <1>2. run' \in [Operator -> Request] /\ OrderTaken'
    BY <1>1, Moves DEF CloseCell, Points
  <1> QED
    BY <1>2 DEF CloseCell, TypeInv, TypeOK

LEMMA RecordFlagsType ==
  ASSUME TypeInv, NEW op \in Operator, RecordFlags(op)
  PROVE  TypeInv'
  <1>1. run[op].pc \in Working /\ run[op].issued \in SUBSET Assets
    BY RunType DEF RecordFlags, At, Working, Points, Request
  <1>2. run' \in [Operator -> Request] /\ OrderTaken'
    BY <1>1, Moves DEF RecordFlags, Points
  <1>3. ASSUME NEW d \in RowId
        PROVE  [deliveries[d] EXCEPT !.flags = @ \cup run[op].issued] \in DeliveryRow
    BY <1>1, TouchedRows DEF TypeInv, TypeOK
  <1>5. deliveries' \in [RowId -> DeliveryRow]
    BY <1>3 DEF RecordFlags, TypeInv, TypeOK
  <1>4. faults' \in Nat
    BY FaultType DEF RecordFlags, TypeInv, TypeOK
  <1> QED
    BY <1>2, <1>4, <1>5 DEF RecordFlags, TypeInv, TypeOK

LEMMA FindDeliveryType ==
  ASSUME TypeInv, NEW op \in Operator, FindDelivery(op)
  PROVE  TypeInv'
  <1>1. run[op].pc \in Working /\ run[op] \in Request
    BY RunType DEF FindDelivery, At, Working, Points
  <1>2. \/ Fail(op, run[op].order)
        \/ \E d \in RowId :
             run' = [run EXCEPT ![op] = [@ EXCEPT !.pc = "refund", !.delivery = d]]
    BY DEF FindDelivery
  <1>3. run' \in [Operator -> Request] /\ OrderTaken'
    <2>1. CASE Fail(op, run[op].order)
      BY <1>1, <2>1, Moves
    <2>2. ASSUME NEW d \in RowId,
                 run' = [run EXCEPT ![op] = [@ EXCEPT !.pc = "refund", !.delivery = d]]
          PROVE  run' \in [Operator -> Request] /\ OrderTaken'
      <3> DEFINE r == [run[op] EXCEPT !.pc = "refund", !.delivery = d]
      <3>1. r \in Request /\ r.order = run[op].order
        BY <1>1 DEF Request, Points
      <3>2. run' = [run EXCEPT ![op] = r]
        BY <2>2
      <3> HIDE DEF r
      <3> QED
        BY <1>1, <3>1, <3>2, Moves
    <2> QED
      BY <1>2, <2>1, <2>2
  <1> QED
    BY <1>3 DEF FindDelivery, TypeInv, TypeOK

LEMMA WriteRefundType ==
  ASSUME TypeInv, NEW op \in Operator, WriteRefund(op)
  PROVE  TypeInv'
  <1>1. run[op].pc \in Working
    BY DEF WriteRefund, At, Working, Points
  <1>2. run' \in [Operator -> Request] /\ OrderTaken'
    BY <1>1, Moves DEF WriteRefund, Points
  <1>3. deliveries' \in [RowId -> DeliveryRow] /\ clock' \in Nat
    <2> DEFINE d == run[op].delivery
               row == Stamped(d, "refunded")
    <2>1. deliveries \in [RowId -> DeliveryRow] /\ clock \in Nat
      BY DEF TypeInv, TypeOK
    <2>2. d \in RowId => row \in DeliveryRow
      BY <2>1, StampedType
    <2>3. \/ deliveries' = [deliveries EXCEPT ![d] = row] /\ clock' = clock + 1
          \/ deliveries' = deliveries /\ clock' = clock
      BY DEF WriteRefund
    <2> HIDE DEF d, row
    <2> QED
      BY <2>1, <2>2, <2>3
  <1>5. faults' \in Nat
    BY FaultType DEF WriteRefund, TypeInv, TypeOK
  <1> QED
    BY <1>2, <1>3, <1>5 DEF WriteRefund, TypeInv, TypeOK

LEMMA PanelFillSiteType ==
  ASSUME TypeInv, NEW s \in RowId, NEW refs \in SiteFillings, PanelFillSite(s, refs)
  PROVE  TypeInv'
  BY ZenonT(40), BackOfficeAssumption DEF PanelFillSite, TypeInv, TypeOK, OrderTaken, SiteRow

LEMMA PanelFillReasonType ==
  ASSUME TypeInv, NEW d \in RowId, PanelFillReason(d)
  PROVE  TypeInv'
  BY ZenonT(40) DEF PanelFillReason, TypeInv, TypeOK, OrderTaken, DeliveryRow

LEMMA PanelSetStatusType ==
  ASSUME TypeInv, NEW o \in OrderId, NEW to \in PanelStatuses, PanelSetStatus(o, to)
  PROVE  TypeInv'
  BY BackOfficeAssumption DEF PanelSetStatus, TypeInv, TypeOK, OrderTaken

LEMMA CrashType == TypeInv /\ Crash => TypeInv'
  <1> SUFFICES ASSUME TypeInv, Crash PROVE TypeInv'
    OBVIOUS
  <1>1. run' \in [Operator -> Request] /\ OrderTaken'
    BY IdleType DEF Crash, OrderTaken, Working
  <1> QED
    BY <1>1 DEF Crash, TypeInv, TypeOK

LEMMA DisconnectType ==
  ASSUME TypeInv, NEW op \in Operator, Disconnect(op)
  PROVE  TypeInv'
  <1>1. /\ run' \in [Operator -> Request]
        /\ \A q \in Operator : q # op => run'[q] = run[q]
        /\ run'[op].pc = "idle"
    BY IdleType, Assign DEF Disconnect
  <1>2. OrderTaken'
    BY <1>1, OrderTakenStep DEF Working
  <1> QED
    BY <1>1, <1>2 DEF Disconnect, TypeInv, TypeOK

LEMMA ServeType ==
  ASSUME TypeInv, NEW op \in Operator, Serve(op)
  PROVE  TypeInv'
  <1>1. CASE \E o \in OrderId : \/ ReadForAccept(op, o) \/ ReadForStep(op, o)
                                \/ ReadForPublish(op, o) \/ ReadForRefund(op, o)
    BY <1>1, ReadsType
  <1>2. CASE Finish(op)
    <2>1. {} \in SUBSET OrderId /\ "accept_order" \in ActionNames
      BY DEF ActionNames
    <2> QED
      BY <1>2, <2>1, RequestType
  <1>3. CASE ReadFails(op)
    BY <1>3, ReadFailsType
  <1>4. CASE CreateCustomer(op) \/ CreateSite(op) \/ CreateDelivery(op) \/ LinkOrder(op)
    BY <1>4, CreateCustomerType, CreateSiteType, CreateDeliveryType, LinkOrderType
  <1>5. CASE AdvanceStatus(op) \/ StampDelivery(op) \/ Notify(op)
    BY <1>5, AdvanceStatusType, StampDeliveryType, NotifyType
  <1>6. CASE ReadSite(op) \/ PublishStatus(op) \/ StampPublished(op)
    BY <1>6, ReadSiteType, AdvanceStatusType, StampPublishedType
  <1>7. CASE OpenCell(op) \/ IssueClaim(op) \/ CloseCell(op) \/ RecordFlags(op)
    BY <1>7, OpenCellType, IssueClaimType, CloseCellType, RecordFlagsType
  <1>8. CASE FindDelivery(op) \/ WriteRefund(op)
    BY <1>8, FindDeliveryType, WriteRefundType
  <1> QED
    BY <1>1, <1>2, <1>3, <1>4, <1>5, <1>6, <1>7, <1>8 DEF Serve

LEMMA EnvironmentType ==
  ASSUME TypeInv, Environment
  PROVE  TypeInv'
  <1>1. CASE \E op \in Operator, action \in Offered, chosen \in SUBSET OrderId :
               StartRun(op, action, chosen)
    BY <1>1, RequestType, BackOfficeAssumption
  <1>2. CASE \E s \in RowId, refs \in SiteFillings : PanelFillSite(s, refs)
    BY <1>2, PanelFillSiteType
  <1>3. CASE \E d \in RowId : PanelFillReason(d)
    BY <1>3, PanelFillReasonType
  <1>4. CASE \E o \in OrderId, to \in PanelStatuses : PanelSetStatus(o, to)
    BY <1>4, PanelSetStatusType
  <1>5. CASE Crash
    BY <1>5, CrashType
  <1>6. CASE \E op \in Operator : Disconnect(op)
    BY <1>6, DisconnectType
  <1> QED
    BY <1>1, <1>2, <1>3, <1>4, <1>5, <1>6 DEF Environment

LEMMA StepType == TypeInv /\ [Next]_vars => TypeInv'
  <1>1. ASSUME TypeInv, Next PROVE TypeInv'
    BY <1>1, EnvironmentType, ServeType DEF Next
  <1>2. ASSUME TypeInv, UNCHANGED vars PROVE TypeInv'
    BY <1>2 DEF vars, TypeInv, TypeOK, OrderTaken
  <1> QED
    BY <1>1, <1>2

LEMMA TypeInvariant == Spec => []TypeInv
  BY InitType, StepType, PTL DEF Spec

\* Whatever the operators do, whatever fails and however often the process is
\* killed, the tables hold what their columns allow, a claim names one of the
\* three artefacts, and a request holds rows it has read.
THEOREM TypeCorrect == Spec => []TypeOK
  <1>1. TypeInv => TypeOK
    BY DEF TypeInv
  <1> QED
    BY <1>1, TypeInvariant, PTL
=============================================================================
