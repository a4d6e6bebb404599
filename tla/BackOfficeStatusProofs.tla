------------------------ MODULE BackOfficeStatusProofs ------------------------
(***************************************************************************)
(* Why no order skips a step, for every number of operators: an action     *)
(* decides on a status it read some awaits ago, and that status may be     *)
(* gone when it writes.  What it read is still part of the order's         *)
(* history, and the history only grows.                                    *)
(* With one operator nothing is gone, and the back office implements the   *)
(* domain's lifecycle.                                                     *)
(***************************************************************************)
EXTENDS BackOfficeProofs

\* The points at which a request holds a decision about a status it has read.
Deciding == {"site", "status"}

\* The decision of a request was right for some status its order has had.
DecisionIsFounded(op) ==
  LET held == everHeld[run[op].order] IN
  /\ run[op].pc = "site" => run[op].action = "publish_site"
  /\ run[op].pc \in Deciding /\ run[op].action = "publish_site" =>
       "Godkand" \in held
  /\ run[op].pc = "status" /\ run[op].action \in Steps =>
       \E s \in held : CanTransition(s, Step(run[op].action).to)

StatusInv ==
  /\ \A o \in OrderId : orders[o].status \in everHeld[o]
  /\ \A op \in Operator : DecisionIsFounded(op)
  /\ NoSkippedSteps

-----------------------------------------------------------------------------
LEMMA StatusInit == Init => StatusInv
  BY IdleType DEF Init, StatusInv, NoSkippedSteps, DecisionIsFounded, Deciding,
                  INITIAL

\* Where a request is after its per-order function returned, or moved on.
LEMMA Leaves ==
  ASSUME TypeInv, NEW op \in Operator, NEW o, Fail(op, o) \/ Succeed(op, o)
  PROVE  /\ run'[op].pc = "next"
         /\ \A q \in Operator : q # op => run'[q] = run[q]
  <1>1. PICK x, y : Settle(op, o, x, y)
    BY DEF Fail, Succeed
  <1> DEFINE left == [Idle EXCEPT !.pc = "next", !.action = run[op].action,
                                  !.todo = run[op].todo \ {o},
                                  !.succeeded = x, !.failed = y]
  <1>2. run' = [run EXCEPT ![op] = left]
    BY <1>1 DEF Settle
  <1>3. left.pc = "next"
    BY DEF Idle
  <1> HIDE DEF left
  <1> QED
    BY <1>2, <1>3, RunType

LEMMA Goes ==
  ASSUME TypeInv, NEW op \in Operator, NEW pc, Goto(op, pc)
  PROVE  /\ run'[op].pc = pc
         /\ \A q \in Operator : q # op => run'[q] = run[q]
  BY RunType DEF Goto, Request

\* Every other step of a request ends where no decision is held.
LEMMA Elsewhere ==
  ASSUME TypeInv, NEW op \in Operator, Serve(op),
         ~ \E o \in OrderId : ReadForStep(op, o) \/ ReadForPublish(op, o),
         ~ ReadSite(op)
  PROVE  /\ run'[op].pc \notin Deciding
         /\ \A q \in Operator : q # op => run'[q] = run[q]
  <1> DEFINE Stays == \A q \in Operator : q # op => run'[q] = run[q]
             Goal == run'[op].pc \notin Deciding /\ Stays
  <1>0. run \in [Operator -> Request] /\ run[op] \in Request
    BY RunType
  <1>1. ASSUME NEW o, Fail(op, o) \/ Succeed(op, o) PROVE Goal
    BY <1>1, Leaves DEF Deciding
  <1>2. ASSUME NEW pc, Goto(op, pc), pc \notin Deciding PROVE Goal
    BY <1>2, Goes
  <1>3. ASSUME NEW r, run' = [run EXCEPT ![op] = r], r.pc \notin Deciding
        PROVE  Goal
    BY <1>0, <1>3
  <1>4. ASSUME NEW o \in OrderId, ReadForAccept(op, o) \/ ReadForRefund(op, o)
        PROVE  Goal
    <2>1. Fail(op, o) \/ Take(op, o, "customer") \/ Take(op, o, "find")
      BY <1>4 DEF ReadForAccept, ReadForRefund
    <2>2. ASSUME NEW pc, Take(op, o, pc), pc \notin Deciding PROVE Goal
      <3> DEFINE r == [run[op] EXCEPT !.pc = pc, !.order = o,
                                      !.customer = orders[o].customer]
      <3>1. run' = [run EXCEPT ![op] = r] /\ r.pc = pc
        BY <1>0, <2>2 DEF Take, Request
      <3> HIDE DEF r
      <3> QED
        BY <1>3, <2>2, <3>1
    <2> QED
      BY <1>1, <2>1, <2>2 DEF Deciding
  <1>5. CASE ReadFails(op)
    BY <1>1, <1>5 DEF ReadFails
  <1>6. CASE Finish(op)
    BY <1>3, <1>6, IdleType DEF Finish, Deciding
  <1>7. CASE CreateCustomer(op)
    <2>1. CASE Fail(op, run[op].order)
      BY <1>1, <2>1
    <2>2. CASE \E c \in RowId : run' = [run EXCEPT ![op] =
                 [@ EXCEPT !.pc = "insert_site", !.customer = c]]
      <3> PICK c \in RowId : run' = [run EXCEPT ![op] =
                               [@ EXCEPT !.pc = "insert_site", !.customer = c]]
        BY <2>2
      <3> QED
        BY <1>0 DEF Request, Deciding
    <2> QED
      BY <1>7, <2>1, <2>2 DEF CreateCustomer
  <1>8. CASE CreateSite(op)
    <2>1. CASE Fail(op, run[op].order)
      BY <1>1, <2>1
    <2>2. CASE \E s \in RowId : run' = [run EXCEPT ![op] =
                 [@ EXCEPT !.pc = "insert_delivery", !.site = s]]
      <3> PICK s \in RowId : run' = [run EXCEPT ![op] =
                               [@ EXCEPT !.pc = "insert_delivery", !.site = s]]
        BY <2>2
      <3> QED
        BY <1>0 DEF Request, Deciding
    <2> QED
      BY <1>8, <2>1, <2>2 DEF CreateSite
  <1>9. CASE CreateDelivery(op) \/ LinkOrder(op)
    BY <1>1, <1>2, <1>9 DEF CreateDelivery, LinkOrder, Deciding
  <1>10. CASE AdvanceStatus(op) \/ PublishStatus(op)
    <2>1. \/ Fail(op, run[op].order) \/ Goto(op, "mail") \/ Goto(op, "stamp")
          \/ Goto(op, "published")
      BY <1>10 DEF AdvanceStatus, PublishStatus, WriteStatus
    <2> QED
      BY <1>1, <1>2, <2>1 DEF Deciding
  <1>11. CASE StampDelivery(op) \/ Notify(op) \/ StampPublished(op)
    BY <1>1, <1>2, <1>11 DEF StampDelivery, Notify, StampPublished, Deciding
  <1>12. CASE OpenCell(op) \/ CloseCell(op) \/ RecordFlags(op)
    BY <1>2, <1>12 DEF OpenCell, CloseCell, RecordFlags, Deciding
  <1>13. CASE IssueClaim(op)
    <2>1. PICK a \in Assets :
            \/ run' = [run EXCEPT ![op].issued = @ \cup {a}]
            \/ run' = [run EXCEPT ![op] = [@ EXCEPT !.pc = "flags", !.issued = {}]]
      BY <1>13 DEF IssueClaim, ToSign
    <2>2. run[op].pc = "issue"
      BY <1>13 DEF IssueClaim, At
    <2> QED
      BY <1>0, <2>1, <2>2 DEF Request, Deciding
  <1>14. CASE FindDelivery(op)
    <2>1. CASE Fail(op, run[op].order)
      BY <1>1, <2>1
    <2>2. CASE \E d \in RowId : run' = [run EXCEPT ![op] =
                 [@ EXCEPT !.pc = "refund", !.delivery = d]]
      <3> PICK d \in RowId : run' = [run EXCEPT ![op] =
                               [@ EXCEPT !.pc = "refund", !.delivery = d]]
        BY <2>2
      <3> QED
        BY <1>0 DEF Request, Deciding
    <2> QED
      BY <1>14, <2>1, <2>2 DEF FindDelivery
  <1>15. CASE WriteRefund(op)
    BY <1>1, <1>2, <1>15 DEF WriteRefund, Deciding
  <1> QED
    BY <1>4, <1>5, <1>6, <1>7, <1>8, <1>9, <1>10, <1>11, <1>12, <1>13, <1>14,
       <1>15 DEF Serve

-----------------------------------------------------------------------------
(* StatusInv is inductive.                                                 *)

\* It is enough to look at the request that moved: what the others decided on
\* stays part of the history.
LEMMA StatusFrame ==
  ASSUME TypeInv, StatusInv, NEW op \in Operator,
         \A q \in Operator : q # op => run'[q] = run[q],
         \A o \in OrderId : /\ everHeld[o] \subseteq everHeld'[o]
                            /\ orders'[o].status \in everHeld'[o],
         DecisionIsFounded(op)', NoSkippedSteps'
  PROVE  StatusInv'
  <1>1. ASSUME NEW q \in Operator, q # op PROVE DecisionIsFounded(q)'
    <2>1. run'[q] = run[q] /\ DecisionIsFounded(q)
      BY <1>1 DEF StatusInv
    <2>2. run[q].pc \in Deciding => run[q].order \in OrderId
      BY DEF TypeInv, OrderTaken, Deciding, Working, Points
    <2> QED
      BY <2>1, <2>2 DEF DecisionIsFounded, Deciding
  <1> QED
    BY <1>1 DEF StatusInv

\* A step that writes no status and takes no decision keeps the invariant.
LEMMA StatusUntouched ==
  ASSUME TypeInv, StatusInv, NEW op \in Operator,
         \A q \in Operator : q # op => run'[q] = run[q],
         run'[op].pc \notin Deciding, UNCHANGED everHeld,
         \A o \in OrderId : orders'[o].status = orders[o].status
  PROVE  StatusInv'
  <1>1. DecisionIsFounded(op)' /\ NoSkippedSteps'
    BY DEF DecisionIsFounded, Deciding, StatusInv, NoSkippedSteps
  <1>2. \A o \in OrderId : /\ everHeld[o] \subseteq everHeld'[o]
                           /\ orders'[o].status \in everHeld'[o]
    BY DEF StatusInv
  <1> QED
    BY <1>1, <1>2, StatusFrame

LEMMA DecideStatus ==
  ASSUME TypeInv, StatusInv, NEW op \in Operator, NEW o \in OrderId,
         ReadForStep(op, o) \/ ReadForPublish(op, o)
  PROVE  StatusInv'
  <1>1. UNCHANGED <<orders, everHeld>>
    BY DEF ReadForStep, ReadForPublish, Reading
  <1>2. CASE Fail(op, o)
    BY <1>1, <1>2, Leaves, StatusUntouched DEF Deciding
  <1>3. CASE ReadForStep(op, o) /\ Take(op, o, "status")
    <2>1. /\ run[op].action \in Steps /\ run[op] \in Request
          /\ CanTransition(orders[o].status, Step(run[op].action).to) \/ Fail(op, o)
      BY <1>3, RunType DEF ReadForStep, Reading
    <2>2. /\ run'[op].pc = "status" /\ run'[op].order = o
          /\ run'[op].action = run[op].action
          /\ \A q \in Operator : q # op => run'[q] = run[q]
      <3>1. /\ run'[op] = [run[op] EXCEPT !.pc = "status", !.order = o,
                                          !.customer = orders[o].customer]
            /\ \A q \in Operator : q # op => run'[q] = run[q]
        BY <1>3, RunType DEF Take
      <3> QED
        BY <2>1, <3>1 DEF Request
    <2>3. CASE Fail(op, o)
      BY <1>2, <2>3
    <2>4. CASE CanTransition(orders[o].status, Step(run[op].action).to)
      <3>1. DecisionIsFounded(op)'
        BY <1>1, <2>1, <2>2, <2>4 DEF DecisionIsFounded, StatusInv, Steps
      <3> QED
        BY <1>1, <2>2, <3>1, StatusFrame DEF StatusInv, NoSkippedSteps
    <2> QED
      BY <2>1, <2>3, <2>4
  <1>4. CASE ReadForPublish(op, o) /\ Take(op, o, "site")
    <2>1. /\ run[op].action = "publish_site" /\ run[op] \in Request
          /\ CanTransition(orders[o].status, "Publicerad") \/ Fail(op, o)
      BY <1>4, RunType DEF ReadForPublish, Reading
    <2>2. /\ run'[op].pc = "site" /\ run'[op].order = o
          /\ run'[op].action = run[op].action
          /\ \A q \in Operator : q # op => run'[q] = run[q]
      <3>1. /\ run'[op] = [run[op] EXCEPT !.pc = "site", !.order = o,
                                          !.customer = orders[o].customer]
            /\ \A q \in Operator : q # op => run'[q] = run[q]
        BY <1>4, RunType DEF Take
      <3> QED
        BY <2>1, <3>1 DEF Request
    <2>3. CASE Fail(op, o)
      BY <1>2, <2>3
    <2>4. CASE CanTransition(orders[o].status, "Publicerad")
      <3>1. orders[o].status = "Godkand"
        BY <2>4 DEF CanTransition, NextAllowed, TypeInv, TypeOK, Statuses
      <3>2. DecisionIsFounded(op)'
        BY <1>1, <2>1, <2>2, <3>1 DEF DecisionIsFounded, StatusInv
      <3> QED
        BY <1>1, <2>2, <3>2, StatusFrame DEF StatusInv, NoSkippedSteps
    <2> QED
      BY <2>1, <2>3, <2>4
  <1> QED
    BY <1>2, <1>3, <1>4 DEF ReadForStep, ReadForPublish

\* The row that site_for found keeps the decision to publish.
LEMMA ReadSiteStatus ==
  ASSUME TypeInv, StatusInv, NEW op \in Operator, ReadSite(op)
  PROVE  StatusInv'
  <1>1. UNCHANGED <<orders, everHeld>> /\ run[op] \in Request
    BY RunType DEF ReadSite
  <1>2. CASE Fail(op, run[op].order)
    BY <1>1, <1>2, Leaves, StatusUntouched DEF Deciding
  <1>3. CASE \E s, refs : run' = [run EXCEPT ![op] =
               [@ EXCEPT !.pc = "status", !.site = s, !.refs = refs]]
    <2> PICK s, refs : run' = [run EXCEPT ![op] =
               [@ EXCEPT !.pc = "status", !.site = s, !.refs = refs]]
      BY <1>3
    <2>1. /\ run'[op].pc = "status" /\ run'[op].order = run[op].order
          /\ run'[op].action = run[op].action
          /\ \A q \in Operator : q # op => run'[q] = run[q]
      BY <1>1, RunType DEF Request
    <2>2. run[op].action = "publish_site" /\ "Godkand" \in everHeld[run[op].order]
      <3>1. run[op].pc = "site"
        BY DEF ReadSite, At
      <3>2. DecisionIsFounded(op)
        BY DEF StatusInv
      <3> QED
        BY <3>1, <3>2 DEF DecisionIsFounded, Deciding
    <2>3. DecisionIsFounded(op)'
      BY <1>1, <2>1, <2>2 DEF DecisionIsFounded, Steps
    <2> QED
      BY <1>1, <2>1, <2>3, StatusFrame DEF StatusInv, NoSkippedSteps
  <1> QED
    BY <1>2, <1>3 DEF ReadSite

\* The UPDATE adds to the history a status the order was due.
LEMMA WriteStatusStatus ==
  ASSUME TypeInv, StatusInv, NEW op \in Operator,
         AdvanceStatus(op) \/ PublishStatus(op)
  PROVE  StatusInv'
  <1> DEFINE o == run[op].order
  <1>1. PICK to \in Statuses, pc \in {"mail", "stamp", "published"} :
          /\ WriteStatus(op, to, pc)
          /\ \E s \in everHeld[o] : CanTransition(s, to)
    <2>1. CASE AdvanceStatus(op)
      <3>1. /\ run[op].pc = "status" /\ run[op].action \in Steps
            /\ DecisionIsFounded(op)
        BY <2>1 DEF AdvanceStatus, At, StatusInv
      <3>2. \E s \in everHeld[o] : CanTransition(s, Step(run[op].action).to)
        BY <3>1 DEF DecisionIsFounded
      <3>3. Step(run[op].action).to \in Statuses
        BY DEF Step, Statuses, ProposalStep, AcceptanceStep, CancelStep
      <3> QED
        BY <2>1, <3>2, <3>3 DEF AdvanceStatus
    <2>2. CASE PublishStatus(op)
      <3>1. "Godkand" \in everHeld[o] /\ CanTransition("Godkand", "Publicerad")
        BY <2>2 DEF PublishStatus, At, StatusInv, DecisionIsFounded, Deciding,
                    CanTransition, NextAllowed
      <3> QED
        BY <2>2, <3>1 DEF PublishStatus, Statuses
    <2> QED
      BY <2>1, <2>2
  <1>2. o \in OrderId
    BY DEF AdvanceStatus, PublishStatus, At, TypeInv, OrderTaken, Working, Points
  <1>3. /\ run'[op].pc \notin Deciding
        /\ \A q \in Operator : q # op => run'[q] = run[q]
    <2>1. CASE Goto(op, pc)
      BY <2>1, Goes DEF Deciding
    <2>2. CASE Fail(op, o)
      BY <2>2, Leaves DEF Deciding
    <2> QED
      BY <1>1, <2>1, <2>2 DEF WriteStatus
  <1>4. CASE UNCHANGED <<orders, everHeld>>
    BY <1>3, <1>4, StatusUntouched
  <1>5. CASE /\ orders' = [orders EXCEPT ![o].status = to]
             /\ everHeld' = [everHeld EXCEPT ![o] = @ \cup {to}]
    <2>1. /\ orders \in [OrderId -> [status : Statuses, customer : RowId \cup {None}]]
          /\ everHeld \in [OrderId -> SUBSET Statuses]
      BY DEF TypeInv, TypeOK
    <2> HIDE DEF o
    <2>2. /\ everHeld'[o] = everHeld[o] \cup {to} /\ orders'[o].status = to
          /\ \A p \in OrderId : p # o => /\ everHeld'[p] = everHeld[p]
                                         /\ orders'[p].status = orders[p].status
      BY <1>2, <1>5, <2>1
    <2>3. \A p \in OrderId : /\ everHeld[p] \subseteq everHeld'[p]
                             /\ orders'[p].status \in everHeld'[p]
      BY <2>2 DEF StatusInv
    <2>4. /\ to = "Publicerad" => "Godkand" \in everHeld[o]
          /\ to = "Godkand" => "UtkastSkickat" \in everHeld[o]
      BY <1>1, <1>2, <2>1 DEF CanTransition, NextAllowed, Statuses
    <2>5. NoSkippedSteps'
      BY <1>2, <2>2, <2>4 DEF StatusInv, NoSkippedSteps
    <2>6. DecisionIsFounded(op)'
      BY <1>3 DEF DecisionIsFounded, Deciding
    <2> QED
      BY <1>3, <2>3, <2>5, <2>6, StatusFrame
  <1> QED
    BY <1>1, <1>4, <1>5 DEF WriteStatus

LEMMA ServeStatus ==
  ASSUME TypeInv, StatusInv, NEW op \in Operator, Serve(op)
  PROVE  StatusInv'
  <1>1. CASE \E o \in OrderId : ReadForStep(op, o) \/ ReadForPublish(op, o)
    BY <1>1, DecideStatus
  <1>2. CASE ReadSite(op)
    BY <1>2, ReadSiteStatus
  <1>3. CASE AdvanceStatus(op) \/ PublishStatus(op)
    BY <1>3, WriteStatusStatus
  <1>4. CASE /\ ~ \E o \in OrderId : ReadForStep(op, o) \/ ReadForPublish(op, o)
             /\ ~ ReadSite(op) /\ ~ (AdvanceStatus(op) \/ PublishStatus(op))
    <2>1. /\ run'[op].pc \notin Deciding
          /\ \A q \in Operator : q # op => run'[q] = run[q]
      BY <1>4, Elsewhere
    <2>2. everHeld' = everHeld
      BY <1>4 DEF Serve, ReadForAccept, ReadForRefund, Reading, ReadFails, Finish,
           CreateCustomer, CreateSite, CreateDelivery, LinkOrder, StampDelivery,
           Notify, StampPublished, OpenCell, IssueClaim, CloseCell, RecordFlags,
           FindDelivery, WriteRefund
    <2>3. \A p \in OrderId : orders'[p].status = orders[p].status
      <3>1. CASE LinkOrder(op)
        BY <3>1 DEF LinkOrder, TypeInv, TypeOK
      <3>2. CASE ~ LinkOrder(op)
        BY <1>4, <3>2 DEF Serve, ReadForAccept, ReadForRefund, Reading, ReadFails,
             Finish, CreateCustomer, CreateSite, CreateDelivery, StampDelivery,
             Notify, StampPublished, OpenCell, IssueClaim, CloseCell, RecordFlags,
             FindDelivery, WriteRefund
      <3> QED
        BY <3>1, <3>2
    <2> QED
      BY <2>1, <2>2, <2>3, StatusUntouched
  <1> QED
    BY <1>1, <1>2, <1>3, <1>4

LEMMA EnvironmentStatus ==
  ASSUME PanelStatuses = {}, TypeInv, StatusInv, Environment
  PROVE  StatusInv'
  <1>1. UNCHANGED <<orders, everHeld>>
    BY DEF Environment, StartRun, PanelFillSite, PanelFillReason, Crash,
           Disconnect
  <1>2. CASE \E op \in Operator, action \in Offered, chosen \in SUBSET OrderId :
               StartRun(op, action, chosen)
    <2> PICK op \in Operator, action \in Offered, chosen \in SUBSET OrderId :
               StartRun(op, action, chosen)
      BY <1>2
    <2>1. /\ run'[op].pc \notin Deciding
          /\ \A q \in Operator : q # op => run'[q] = run[q]
      <3> DEFINE begun == [Idle EXCEPT !.pc = "next", !.action = action,
                                       !.todo = chosen]
      <3>1. run' = [run EXCEPT ![op] = begun] /\ begun.pc = "next"
        BY DEF StartRun, Idle
      <3> HIDE DEF begun
      <3> QED
        BY <3>1, RunType DEF Deciding
    <2> QED
      BY <1>1, <2>1, StatusUntouched
  <1>3. CASE UNCHANGED run
    BY <1>1, <1>3 DEF StatusInv, DecisionIsFounded, NoSkippedSteps
  <1>4. CASE Crash
    BY <1>1, <1>4, IdleType DEF Crash, StatusInv, DecisionIsFounded, Deciding,
                                NoSkippedSteps
  <1>5. CASE \E op \in Operator : Disconnect(op)
    <2> PICK op \in Operator : Disconnect(op)
      BY <1>5
    <2>1. /\ run'[op].pc \notin Deciding
          /\ \A q \in Operator : q # op => run'[q] = run[q]
      BY IdleType, RunType DEF Disconnect, Deciding
    <2> QED
      BY <1>1, <2>1, StatusUntouched
  <1> QED
    BY <1>2, <1>3, <1>4, <1>5 DEF Environment, PanelFillSite, PanelFillReason

\* Where nobody sets a status by hand, no order is published that was not once
\* approved, nor approved that was not once proposed: for any number of
\* operators, failures and kills, however old the status an action decided on.
THEOREM NothingIsSkipped ==
  ASSUME PanelStatuses = {}
  PROVE  Spec => []NoSkippedSteps
  <1>1. Init => StatusInv
    BY StatusInit
  <1>2. TypeInv /\ StatusInv /\ [Next]_vars => StatusInv'
    <2>1. ASSUME TypeInv, StatusInv, Next PROVE StatusInv'
      BY <2>1, EnvironmentStatus, ServeStatus DEF Next
    <2>2. ASSUME StatusInv, UNCHANGED vars PROVE StatusInv'
      BY <2>2 DEF vars, StatusInv, DecisionIsFounded, NoSkippedSteps
    <2> QED
      BY <2>1, <2>2
  <1>3. StatusInv => NoSkippedSteps
    BY DEF StatusInv
  <1> QED
    BY <1>1, <1>2, <1>3, TypeInvariant, PTL DEF Spec

-----------------------------------------------------------------------------
(* One operator: the status a decision was taken on is still there when it *)
(* is written, so that the back office implements OrderLifecycle.          *)

OneOperator == \A p, q \in Operator : p = q

\* A decision is right for the status the order has now.
DecisionStands(op) ==
  LET now == orders[run[op].order].status IN
  /\ run[op].pc = "site" => run[op].action = "publish_site"
  /\ run[op].pc \in Deciding /\ run[op].action = "publish_site" =>
       CanTransition(now, "Publicerad")
  /\ run[op].pc = "status" /\ run[op].action \in Steps =>
       CanTransition(now, Step(run[op].action).to)

DecisionsStand == \A op \in Operator : DecisionStands(op)

\* The lifecycle's variable.
Status == [o \in OrderId |-> orders[o].status]

\* A step of the lifecycle, or none.
StatusStep == Lifecycle!Next \/ Status' = Status

LEMMA Transitions ==
  ASSUME NEW o \in OrderId, NEW to \in Statuses, TypeInv,
         CanTransition(orders[o].status, to),
         orders' = [orders EXCEPT ![o].status = to]
  PROVE  StatusStep
  <1>1. orders \in [OrderId -> [status : Statuses, customer : RowId \cup {None}]]
    BY DEF TypeInv, TypeOK
  <1>2. Status' = [Status EXCEPT ![o] = to]
    BY <1>1 DEF Status
  <1>3. Status[o] = orders[o].status
    BY DEF Status
  <1>4. Lifecycle!CanTransition(Status[o], to)
    BY <1>3 DEF CanTransition, NextAllowed, Lifecycle!CanTransition,
                Lifecycle!NextAllowed
  <1>5. Lifecycle!Transition(o, to)
    BY <1>2, <1>4 DEF Status, Lifecycle!Transition
  <1>6. to \in Lifecycle!Statuses
    BY DEF Statuses, Lifecycle!Statuses
  <1> QED
    BY <1>5, <1>6 DEF StatusStep, Lifecycle!Next

\* The request that moved is the only one there is.
LEMMA SoleFrame ==
  ASSUME OneOperator, NEW op \in Operator, DecisionStands(op)'
  PROVE  DecisionsStand'
  <1> SUFFICES ASSUME NEW q \in Operator PROVE DecisionStands(q)'
    BY DEF DecisionsStand
  <1>1. q = op
    BY DEF OneOperator
  <1> QED
    BY <1>1

LEMMA SoleDecides ==
  ASSUME OneOperator, TypeInv, DecisionsStand,
         NEW op \in Operator, NEW o \in OrderId,
         ReadForStep(op, o) \/ ReadForPublish(op, o)
  PROVE  DecisionsStand' /\ StatusStep
  <1>1. UNCHANGED orders /\ run[op] \in Request
    BY RunType DEF ReadForStep, ReadForPublish, Reading
  <1>2. StatusStep
    BY <1>1 DEF StatusStep, Status
  <1>3. CASE Fail(op, o)
    <2>1. DecisionStands(op)'
      BY <1>3, Leaves DEF DecisionStands, Deciding
    <2> QED
      BY <1>2, <2>1, SoleFrame
  <1>4. CASE ~Fail(op, o)
    <2>1. PICK pc \in Points :
            /\ Take(op, o, pc)
            /\ \/ /\ pc = "status" /\ run[op].action \in Steps
                  /\ CanTransition(orders[o].status, Step(run[op].action).to)
               \/ /\ pc = "site" /\ run[op].action = "publish_site"
                  /\ CanTransition(orders[o].status, "Publicerad")
      <3>1. CASE ReadForStep(op, o)
        <4>1. /\ Take(op, o, "status") /\ run[op].action \in Steps
              /\ CanTransition(orders[o].status, Step(run[op].action).to)
          BY <1>4, <3>1 DEF ReadForStep, Reading
        <4> QED
          BY <4>1 DEF Points
      <3>2. CASE ReadForPublish(op, o)
        <4>1. /\ Take(op, o, "site") /\ run[op].action = "publish_site"
              /\ CanTransition(orders[o].status, "Publicerad")
          BY <1>4, <3>2 DEF ReadForPublish, Reading
        <4> QED
          BY <4>1 DEF Points
      <3> QED
        BY <3>1, <3>2
    <2>2. /\ run'[op].pc = pc /\ run'[op].order = o
          /\ run'[op].action = run[op].action
      <3>1. Take(op, o, pc)
        BY <2>1
      <3>2. run'[op] = [run[op] EXCEPT !.pc = pc, !.order = o,
                                       !.customer = orders[o].customer]
        BY <3>1, RunType DEF Take
      <3> QED
        BY <1>1, <3>2 DEF Request
    <2>3. DecisionStands(op)'
      BY <1>1, <2>1, <2>2 DEF DecisionStands, Deciding, Steps
    <2> QED
      BY <1>2, <2>3, SoleFrame
  <1> QED
    BY <1>3, <1>4

LEMMA SoleReadsSite ==
  ASSUME OneOperator, TypeInv, DecisionsStand,
         NEW op \in Operator, ReadSite(op)
  PROVE  DecisionsStand' /\ StatusStep
  <1>1. UNCHANGED orders /\ run[op] \in Request
    BY RunType DEF ReadSite
  <1>2. StatusStep
    BY <1>1 DEF StatusStep, Status
  <1>3. CASE Fail(op, run[op].order)
    <2>1. DecisionStands(op)'
      BY <1>3, Leaves DEF DecisionStands, Deciding
    <2> QED
      BY <1>2, <2>1, SoleFrame
  <1>4. CASE \E s, refs : run' = [run EXCEPT ![op] =
               [@ EXCEPT !.pc = "status", !.site = s, !.refs = refs]]
    <2> PICK s, refs : run' = [run EXCEPT ![op] =
               [@ EXCEPT !.pc = "status", !.site = s, !.refs = refs]]
      BY <1>4
    <2>1. /\ run'[op].pc = "status" /\ run'[op].order = run[op].order
          /\ run'[op].action = run[op].action
      BY <1>1, RunType DEF Request
    <2>2. /\ run[op].action = "publish_site"
          /\ CanTransition(orders[run[op].order].status, "Publicerad")
      BY DEF ReadSite, At, DecisionsStand, DecisionStands, Deciding
    <2>3. DecisionStands(op)'
      BY <1>1, <2>1, <2>2 DEF DecisionStands, Steps
    <2> QED
      BY <1>2, <2>3, SoleFrame
  <1> QED
    BY <1>3, <1>4 DEF ReadSite

\* The UPDATE takes the step that was decided on, or none.
LEMMA SoleWrites ==
  ASSUME OneOperator, TypeInv, DecisionsStand,
         NEW op \in Operator, AdvanceStatus(op) \/ PublishStatus(op)
  PROVE  DecisionsStand' /\ StatusStep
  <1>1. PICK to \in Statuses, pc \in {"mail", "stamp", "published"} :
          /\ WriteStatus(op, to, pc)
          /\ CanTransition(orders[run[op].order].status, to)
    <2>1. CASE AdvanceStatus(op)
      <3>1. /\ run[op].pc = "status" /\ run[op].action \in Steps
            /\ DecisionStands(op)
        BY <2>1 DEF AdvanceStatus, At, DecisionsStand
      <3>2. CanTransition(orders[run[op].order].status, Step(run[op].action).to)
        BY <3>1 DEF DecisionStands
      <3>3. Step(run[op].action).to \in Statuses
        BY DEF Step, Statuses, ProposalStep, AcceptanceStep, CancelStep
      <3> QED
        BY <2>1, <3>2, <3>3 DEF AdvanceStatus
    <2>2. CASE PublishStatus(op)
      <3>1. CanTransition(orders[run[op].order].status, "Publicerad")
        BY <2>2 DEF PublishStatus, At, DecisionsStand, DecisionStands, Deciding
      <3> QED
        BY <2>2, <3>1 DEF PublishStatus, Statuses
    <2> QED
      BY <2>1, <2>2
  <1>2. run[op].order \in OrderId
    BY DEF AdvanceStatus, PublishStatus, At, TypeInv, OrderTaken, Working, Points
  <1>3. DecisionStands(op)'
    <2>1. Goto(op, pc) \/ Fail(op, run[op].order)
      BY <1>1 DEF WriteStatus
    <2>2. run'[op].pc \notin Deciding
      BY <2>1, Goes, Leaves DEF Deciding
    <2> QED
      BY <2>2 DEF DecisionStands, Deciding
  <1>4. StatusStep
    <2>1. CASE orders' = [orders EXCEPT ![run[op].order].status = to]
      BY <1>1, <1>2, <2>1, Transitions
    <2>2. CASE UNCHANGED orders
      BY <2>2 DEF StatusStep, Status
    <2> QED
      BY <1>1, <2>1, <2>2 DEF WriteStatus
  <1> QED
    BY <1>3, <1>4, SoleFrame

LEMMA SoleServes ==
  ASSUME OneOperator, TypeInv, DecisionsStand,
         NEW op \in Operator, Serve(op)
  PROVE  DecisionsStand' /\ StatusStep
  <1>1. CASE \E o \in OrderId : ReadForStep(op, o) \/ ReadForPublish(op, o)
    BY <1>1, SoleDecides
  <1>2. CASE ReadSite(op)
    BY <1>2, SoleReadsSite
  <1>3. CASE AdvanceStatus(op) \/ PublishStatus(op)
    BY <1>3, SoleWrites
  <1>4. CASE /\ ~ \E o \in OrderId : ReadForStep(op, o) \/ ReadForPublish(op, o)
             /\ ~ ReadSite(op) /\ ~ (AdvanceStatus(op) \/ PublishStatus(op))
    <2>1. run'[op].pc \notin Deciding
      BY <1>4, Elsewhere
    <2>2. DecisionStands(op)'
      BY <2>1 DEF DecisionStands, Deciding
    <2>3. \A p \in OrderId : orders'[p].status = orders[p].status
      <3>1. CASE LinkOrder(op)
        <4>1. /\ orders \in [OrderId -> [status : Statuses,
                                        customer : RowId \cup {None}]]
              /\ \/ orders' = orders
                 \/ orders' = [orders EXCEPT ![run[op].order].customer =
                                 run[op].customer]
          BY <3>1 DEF LinkOrder, TypeInv, TypeOK
        <4> QED
          BY <4>1
      <3>2. CASE ~ LinkOrder(op)
        BY <1>4, <3>2 DEF Serve, ReadForAccept, ReadForRefund, Reading, ReadFails,
             Finish, CreateCustomer, CreateSite, CreateDelivery, StampDelivery,
             Notify, StampPublished, OpenCell, IssueClaim, CloseCell, RecordFlags,
             FindDelivery, WriteRefund
      <3> QED
        BY <3>1, <3>2
    <2>4. StatusStep
      BY <2>3 DEF StatusStep, Status
    <2> QED
      BY <2>2, <2>4, SoleFrame
  <1> QED
    BY <1>1, <1>2, <1>3, <1>4

LEMMA SoleEnvironment ==
  ASSUME OneOperator, PanelStatuses = {}, TypeInv,
         DecisionsStand, Environment
  PROVE  DecisionsStand' /\ StatusStep
  <1>1. UNCHANGED orders
    BY DEF Environment, StartRun, PanelFillSite, PanelFillReason, Crash,
           Disconnect
  <1>2. StatusStep
    BY <1>1 DEF StatusStep, Status
  <1>3. CASE UNCHANGED run
    BY <1>1, <1>2, <1>3 DEF DecisionsStand, DecisionStands
  <1>4. CASE \E op \in Operator : run'[op].pc \notin Deciding
    <2> PICK op \in Operator : run'[op].pc \notin Deciding
      BY <1>4
    <2>1. DecisionStands(op)'
      BY DEF DecisionStands, Deciding
    <2> QED
      BY <1>2, <2>1, SoleFrame
  <1>5. CASE \E op \in Operator, action \in Offered, chosen \in SUBSET OrderId :
               StartRun(op, action, chosen)
    <2> PICK op \in Operator, action \in Offered, chosen \in SUBSET OrderId :
               StartRun(op, action, chosen)
      BY <1>5
    <2> DEFINE begun == [Idle EXCEPT !.pc = "next", !.action = action,
                                     !.todo = chosen]
    <2>1. run' = [run EXCEPT ![op] = begun] /\ begun.pc = "next"
      BY DEF StartRun, Idle
    <2> HIDE DEF begun
    <2>2. run'[op].pc \notin Deciding
      BY <2>1, RunType DEF Deciding
    <2> QED
      BY <1>4, <2>2
  <1>6. CASE Crash
    BY <1>2, <1>6, IdleType DEF Crash, DecisionsStand, DecisionStands, Deciding
  <1>7. CASE \E op \in Operator : Disconnect(op)
    <2> PICK op \in Operator : Disconnect(op)
      BY <1>7
    <2>1. run'[op].pc \notin Deciding
      BY IdleType, RunType DEF Disconnect, Deciding
    <2> QED
      BY <1>4, <2>1
  <1> QED
    BY <1>3, <1>5, <1>6, <1>7 DEF Environment, PanelFillSite, PanelFillReason

\* One operator, and no status set by hand: the back office implements the
\* lifecycle the domain promises.  Every step of it, with whatever fails and
\* however often it is killed, gives one order a status that was its due, or
\* leaves all statuses alone.
THEOREM ImplementsLifecycle ==
  ASSUME OneOperator, PanelStatuses = {}
  PROVE  Spec => StatusFollowsLifecycle
  <1>1. Init => Lifecycle!Init /\ DecisionsStand
    <2> SUFFICES ASSUME Init PROVE Lifecycle!Init /\ DecisionsStand
      OBVIOUS
    <2>1. Lifecycle!Init
      BY DEF Init, Lifecycle!Init, Lifecycle!INITIAL, INITIAL
    <2>2. DecisionsStand
      BY IdleType DEF Init, DecisionsStand, DecisionStands, Deciding
    <2> QED
      BY <2>1, <2>2
  <1>2. TypeInv /\ DecisionsStand /\ [Next]_vars =>
          DecisionsStand' /\ [Lifecycle!Next]_Status
    <2>1. ASSUME TypeInv, DecisionsStand, Next PROVE DecisionsStand' /\ StatusStep
      BY <2>1, SoleEnvironment, SoleServes DEF Next
    <2>2. ASSUME DecisionsStand, UNCHANGED vars PROVE DecisionsStand' /\ StatusStep
      BY <2>2 DEF vars, DecisionsStand, DecisionStands, StatusStep, Status
    <2> QED
      BY <2>1, <2>2 DEF StatusStep
  <1> QED
    BY <1>1, <1>2, TypeInvariant, PTL
    DEF Spec, StatusFollowsLifecycle, Lifecycle!Spec, Status
=============================================================================
