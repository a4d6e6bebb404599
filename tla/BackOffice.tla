------------------------------ MODULE BackOffice ------------------------------
(***************************************************************************)
(* The studio's back office: operators run bulk actions over orders        *)
(* (crates/hemsidor24-admin/src).  Each action handles one order at a      *)
(* time as a sequence of awaits: every Postgres statement is one step and  *)
(* none of them share a transaction, so two operators interleave between   *)
(* any two statements.  A statement may fail, or take effect and still     *)
(* report failure (a lost connection); mail may be lost; the process may   *)
(* be killed.                                                              *)
(***************************************************************************)
EXTENDS OrderStatus, Naturals, FiniteSets

CONSTANTS
  Operator,        \* requests the panel serves at the same time
  OrderId,         \* rows of the orders table
  NoOrder,         \* SQL NULL in a column that refers to an order
  MaxRows,         \* bound on rows of customers, sites and deliveries
  Offered,         \* the actions the operators of this instance use
  SiteFillings,    \* what an operator may enter as a site's references
  ReasonsGiven,    \* whether operators here fill in refund reasons
  PanelStatuses,   \* statuses an operator may pick in the panel's dropdown
  SigningEnabled,  \* built with the handover feature
  MaxFaults,       \* bound on failing statements
  MaxCrashes       \* bound on process kills and dropped requests

ActionNames == {"accept_order", "send_proposal", "record_acceptance",
                "publish_site", "cancel_order", "record_refund"}

Assets == {"domain", "hosting", "source"}

\* A reference column is empty, or short enough for a claim, or too long for one.
References == [Assets -> {"empty", "fits", "too_long"}]

ASSUME BackOfficeAssumption ==
  /\ NoOrder \notin OrderId
  /\ MaxRows \in Nat /\ MaxFaults \in Nat /\ MaxCrashes \in Nat
  /\ Offered \subseteq ActionNames
  /\ SiteFillings \subseteq References
  /\ PanelStatuses \subseteq Statuses
  /\ ReasonsGiven \in BOOLEAN /\ SigningEnabled \in BOOLEAN

\* SQL NULL in a foreign key, and in a timestamp (timestamps count up from 1).
None == 0
NULL == 0

RowId == 1 .. MaxRows

VARIABLES
  orders,      \* [status, customer] of every order
  customers,   \* the order whose details a customer row copies, or NoOrder
  sites,       \* [order, customer, live, refs, published]
  deliveries,  \* [site, customer, offered, accepted, flags, reason, refunded]
  released,    \* the Released claims in the cell's log, counted per party and asset
  cellHolder,  \* the operators whose request holds the cell's exclusive lock
  mails,       \* history: messages delivered, per order and action
  everHeld,    \* history: every status an order was ever given
  clock,       \* Postgres now(), advanced by each stamp
  faults, crashes,
  run          \* what each operator's request is doing

vars == <<orders, customers, sites, deliveries, released, cellHolder,
          mails, everHeld, clock, faults, crashes, run>>

\* The moments a delivery records: offered_at, accepted_at, refunded_at.
Moments == {"offered", "accepted", "refunded"}

\* Rows that do not exist: the tables are total over their ids.
NoRefs == [a \in Assets |-> "empty"]
NoSite == [order |-> NoOrder, customer |-> None, live |-> FALSE,
           refs |-> NoRefs, published |-> NULL]
NoDelivery == [site |-> None, customer |-> None,
               at |-> [m \in Moments |-> NULL], flags |-> {}, reason |-> FALSE]

Idle == [pc |-> "idle", action |-> "accept_order", todo |-> {},
         order |-> NoOrder, customer |-> None, site |-> None,
         delivery |-> None, refs |-> NoRefs, issued |-> {},
         succeeded |-> {}, failed |-> {}]

-----------------------------------------------------------------------------
Init ==
  /\ orders = [o \in OrderId |-> [status |-> INITIAL, customer |-> None]]
  /\ customers = [c \in RowId |-> NoOrder]
  /\ sites = [s \in RowId |-> NoSite]
  /\ deliveries = [d \in RowId |-> NoDelivery]
  /\ released = [c \in RowId |-> [a \in Assets |-> 0]]
  /\ cellHolder = {}
  /\ mails = [o \in OrderId |-> [a \in ActionNames |-> 0]]
  /\ everHeld = [o \in OrderId |-> {INITIAL}]
  /\ clock = 0
  /\ faults = 0
  /\ crashes = 0
  /\ run = [op \in Operator |-> Idle]

\* BIGSERIAL: the id an INSERT is given.
IsNext(id, table, empty) ==
  /\ table[id] = empty
  /\ \A other \in RowId : table[other] = empty => id <= other

SitesOf(o) == {s \in RowId : sites[s].order = o}
DeliveriesOf(o) == {d \in RowId : deliveries[d].site \in SitesOf(o)}

At(op, pc) == run[op].pc = pc

Goto(op, pc) == run' = [run EXCEPT ![op].pc = pc]

\* The per-order function has returned for o: on to the next id.
Settle(op, o, succeeded, failed) ==
  run' = [run EXCEPT ![op] = [Idle EXCEPT !.pc = "next",
                                          !.action = run[op].action,
                                          !.todo = run[op].todo \ {o},
                                          !.succeeded = succeeded,
                                          !.failed = failed]]

\* Mutant: a refused id stays in the list.
Fail_KeepsTheId(op, o) ==
  run' = [run EXCEPT ![op].pc = "next", ![op].failed = run[op].failed \cup {o}]

\* Err(reason) of the per-order function: reported as failed.
Fail(op, o) == Settle(op, o, run[op].succeeded, run[op].failed \cup {o})

\* Ok(()) of the per-order function.
Succeed(op, o) == Settle(op, o, run[op].succeeded \cup {o}, run[op].failed)

\* A statement that reports an error.
Fault == faults < MaxFaults /\ faults' = faults + 1

-----------------------------------------------------------------------------
(* A request: execute_bulk_action hands the chosen ids to the action's loop. *)

\* MaxRows: acceptances are only asked for while a row is left for each.
RoomFor(chosen) ==
  LET free    == {c \in RowId : customers[c] = NoOrder}
      waiting == {p \in Operator \X OrderId :
                    /\ run[p[1]].action = "accept_order"
                    /\ p[2] \in run[p[1]].todo
                    /\ run[p[1]].order = p[2] => run[p[1]].customer = None}
  IN  Cardinality(waiting) + Cardinality(chosen) <= Cardinality(free)

StartRun(op, action, chosen) ==
  /\ At(op, "idle")
  /\ chosen # {}
  /\ action = "accept_order" => RoomFor(chosen)
  /\ run' = [run EXCEPT ![op] = [Idle EXCEPT !.pc = "next", !.action = action,
                                             !.todo = chosen]]
  /\ UNCHANGED <<orders, customers, sites, deliveries, released, cellHolder,
                 mails, everHeld, clock, faults, crashes>>

Finish(op) ==
  /\ At(op, "next")
  /\ run[op].todo = {}
  /\ run' = [run EXCEPT ![op] = Idle]
  /\ UNCHANGED <<orders, customers, sites, deliveries, released, cellHolder,
                 mails, everHeld, clock, faults, crashes>>

\* The row orm::find returned is used until the per-order function returns.
Take(op, o, pc) ==
  run' = [run EXCEPT ![op] = [@ EXCEPT !.pc = pc, !.order = o,
                                       !.customer = orders[o].customer]]

Reading(op, o, actions) ==
  /\ At(op, "next")
  /\ o \in run[op].todo
  /\ run[op].action \in actions
  /\ UNCHANGED <<orders, customers, sites, deliveries, released, cellHolder,
                 mails, everHeld, clock, faults, crashes>>

\* orm::find or orm::all reported an error.
ReadFails(op) ==
  /\ Fault
  /\ \/ \E o \in run[op].todo : At(op, "next") /\ Fail(op, o)
     \/ run[op].pc \in {"site", "find"} /\ Fail(op, run[op].order)
  /\ UNCHANGED <<orders, customers, sites, deliveries, released, cellHolder,
                 mails, everHeld, clock, crashes>>

-----------------------------------------------------------------------------
(* accept_one: customer, site, delivery, then the link back.               *)

ReadForAccept(op, o) ==
  /\ Reading(op, o, {"accept_order"})
  /\ IF orders[o].customer # None \/ orders[o].status = "Avbruten"
     THEN Fail(op, o)
     ELSE Take(op, o, "customer")

CreateCustomer(op) ==
  /\ At(op, "customer")
  /\ \E c \in RowId :
       LET insert == customers' = [customers EXCEPT ![c] = run[op].order]
       IN  /\ IsNext(c, customers, NoOrder)
           /\ \/ /\ insert
                 /\ run' = [run EXCEPT ![op] = [@ EXCEPT !.pc = "insert_site",
                                                         !.customer = c]]
                 /\ UNCHANGED faults
              \/ /\ insert \/ UNCHANGED customers
                 /\ Fault
                 /\ Fail(op, run[op].order)
  /\ UNCHANGED <<orders, sites, deliveries, released, cellHolder, mails,
                 everHeld, clock, crashes>>

CreateSite(op) ==
  /\ At(op, "insert_site")
  /\ \E s \in RowId :
       LET row    == [NoSite EXCEPT !.order = run[op].order,
                                    !.customer = run[op].customer]
           insert == sites' = [sites EXCEPT ![s] = row]
       IN  /\ IsNext(s, sites, NoSite)
           /\ \/ /\ insert
                 /\ run' = [run EXCEPT ![op] = [@ EXCEPT !.pc = "insert_delivery",
                                                         !.site = s]]
                 /\ UNCHANGED faults
              \/ /\ insert \/ UNCHANGED sites
                 /\ Fault
                 /\ Fail(op, run[op].order)
  /\ UNCHANGED <<orders, customers, deliveries, released, cellHolder, mails,
                 everHeld, clock, crashes>>

\* Mutant: a delivery that cannot be created is logged, as a stamp would be.
CreateDelivery_LogsTheError(op) ==
  /\ At(op, "insert_delivery")
  /\ \E d \in RowId :
       LET row == [NoDelivery EXCEPT !.site = run[op].site,
                                     !.customer = run[op].customer]
       IN  /\ IsNext(d, deliveries, NoDelivery)
           /\ \/ deliveries' = [deliveries EXCEPT ![d] = row] /\ UNCHANGED faults
              \/ Fault /\ UNCHANGED deliveries
  /\ Goto(op, "link")
  /\ UNCHANGED <<orders, customers, sites, released, cellHolder, mails,
                 everHeld, clock, crashes>>

CreateDelivery(op) ==
  /\ At(op, "insert_delivery")
  /\ \E d \in RowId :
       LET row    == [NoDelivery EXCEPT !.site = run[op].site,
                                        !.customer = run[op].customer]
           insert == deliveries' = [deliveries EXCEPT ![d] = row]
       IN  /\ IsNext(d, deliveries, NoDelivery)
           /\ \/ insert /\ Goto(op, "link") /\ UNCHANGED faults
              \/ /\ insert \/ UNCHANGED deliveries
                 /\ Fault
                 /\ Fail(op, run[op].order)
  /\ UNCHANGED <<orders, customers, sites, released, cellHolder, mails,
                 everHeld, clock, crashes>>

\* Mutant: the two bound parameters of the UPDATE the wrong way round.
LinkOrder_BindsTheOrder(op) ==
  LET o == run[op].order
  IN  /\ At(op, "link")
      /\ orders' = [orders EXCEPT ![o].customer = o]
      /\ Succeed(op, o)
      /\ UNCHANGED <<customers, sites, deliveries, released, cellHolder, mails,
                     everHeld, clock, faults, crashes>>

LinkOrder(op) ==
  LET o    == run[op].order
      link == orders' = [orders EXCEPT ![o].customer = run[op].customer]
  IN  /\ At(op, "link")
      /\ \/ link /\ Succeed(op, o) /\ UNCHANGED faults
         \/ (link \/ UNCHANGED orders) /\ Fault /\ Fail(op, o)
      /\ UNCHANGED <<customers, sites, deliveries, released, cellHolder, mails,
                     everHeld, clock, crashes>>

-----------------------------------------------------------------------------
(* advance: the step shared by proposing, accepting and cancelling.        *)

ProposalStep   == [to |-> "UtkastSkickat", stamp |-> "offered"]
AcceptanceStep == [to |-> "Godkand", stamp |-> "accepted"]
CancelStep     == [to |-> "Avbruten", stamp |-> "none"]

Step(action) ==
  CASE action = "send_proposal"     -> ProposalStep
    [] action = "record_acceptance" -> AcceptanceStep
    [] OTHER                        -> CancelStep

Steps == {"send_proposal", "record_acceptance", "cancel_order"}

\* Mutant: the move is taken without asking core.
ReadForStep_Unasked(op, o) ==
  /\ Reading(op, o, Steps)
  /\ Take(op, o, "status")

ReadForStep(op, o) ==
  /\ Reading(op, o, Steps)
  /\ IF CanTransition(orders[o].status, Step(run[op].action).to)
     THEN Take(op, o, "status")
     ELSE Fail(op, o)

\* UPDATE orders SET status = to WHERE id = o: nothing about the old status.
WriteStatus(op, to, pc) ==
  LET o     == run[op].order
      write == /\ orders' = [orders EXCEPT ![o].status = to]
               /\ everHeld' = [everHeld EXCEPT ![o] = @ \cup {to}]
  IN  /\ \/ write /\ Goto(op, pc) /\ UNCHANGED faults
         \/ /\ write \/ UNCHANGED <<orders, everHeld>>
            /\ Fault
            /\ Fail(op, o)
      /\ UNCHANGED <<customers, sites, deliveries, released, cellHolder, mails,
                     clock, crashes>>

\* Mutant: a status that could not be saved is logged, and the mail goes out.
AdvanceStatus_LogsTheError(op) ==
  /\ At(op, "status")
  /\ run[op].action \in Steps
  /\ LET to == Step(run[op].action).to
         o  == run[op].order
     IN  \/ /\ orders' = [orders EXCEPT ![o].status = to]
            /\ everHeld' = [everHeld EXCEPT ![o] = @ \cup {to}]
            /\ UNCHANGED faults
         \/ Fault /\ UNCHANGED <<orders, everHeld>>
  /\ Goto(op, "mail")
  /\ UNCHANGED <<customers, sites, deliveries, released, cellHolder, mails,
                 clock, crashes>>

AdvanceStatus(op) ==
  LET step == Step(run[op].action)
  IN  /\ At(op, "status")
      /\ run[op].action \in Steps
      /\ WriteStatus(op, step.to, IF step.stamp = "none" THEN "mail" ELSE "stamp")

\* A stamp: SET <column> = NOW() on one delivery.
Stamped(d, m) == [deliveries[d] EXCEPT !.at[m] = clock + 1]

\* Every delivery of the order whose column is still empty; an error is logged
\* and the step goes on.
StampDelivery(op) ==
  LET m    == Step(run[op].action).stamp
      hits == {d \in DeliveriesOf(run[op].order) : deliveries[d].at[m] = NULL}
  IN  /\ At(op, "stamp")
      /\ \/ /\ deliveries' = [d \in RowId |->
                                IF d \in hits THEN Stamped(d, m) ELSE deliveries[d]]
            /\ clock' = IF hits = {} THEN clock ELSE clock + 1
            /\ UNCHANGED faults
         \/ Fault /\ UNCHANGED <<deliveries, clock>>
      /\ Goto(op, "mail")
      /\ UNCHANGED <<orders, customers, sites, released, cellHolder, mails,
                     everHeld, crashes>>

\* Mail::send never returns an error: a lost message is a line in the log.
Notify(op) ==
  LET r == run[op]
  IN  /\ At(op, "mail")
      /\ \/ mails' = [mails EXCEPT ![r.order][r.action] = @ + 1]
         \/ UNCHANGED mails
      /\ Succeed(op, r.order)
      /\ UNCHANGED <<orders, customers, sites, deliveries, released, cellHolder,
                     everHeld, clock, faults, crashes>>

-----------------------------------------------------------------------------
(* publish_one: status, published_at, claims, transfer flags, mail.        *)

ReadForPublish(op, o) ==
  /\ Reading(op, o, {"publish_site"})
  /\ IF CanTransition(orders[o].status, "Publicerad")
     THEN Take(op, o, "site")
     ELSE Fail(op, o)

\* site_for takes the first site of the order in a listing of unstated order;
\* a failing lookup of the domain's name counts as having none.
ReadSite(op) ==
  LET o == run[op].order
      choose(s, refs) == run' = [run EXCEPT ![op] =
                           [@ EXCEPT !.pc = "status", !.site = s, !.refs = refs]]
  IN  /\ At(op, "site")
      /\ \/ /\ SitesOf(o) = {} \/ run[op].customer = None
            /\ Fail(op, o)
            /\ UNCHANGED faults
         \/ \E s \in SitesOf(o) :
              /\ run[op].customer # None
              /\ \/ ~sites[s].live /\ Fail(op, o) /\ UNCHANGED faults
                 \/ sites[s].live /\ choose(s, sites[s].refs) /\ UNCHANGED faults
                 \/ /\ sites[s].live
                    /\ Fault
                    /\ choose(s, [sites[s].refs EXCEPT !["domain"] = "empty"])
      /\ UNCHANGED <<orders, customers, sites, deliveries, released, cellHolder,
                     mails, everHeld, clock, crashes>>

\* Mutant: the claims are signed before the status is written.
PublishStatus_SignsFirst(op) ==
  /\ At(op, "status")
  /\ run[op].action = "publish_site"
  /\ Goto(op, "sign")
  /\ UNCHANGED <<orders, customers, sites, deliveries, released, cellHolder,
                 mails, everHeld, clock, faults, crashes>>

PublishStatus(op) ==
  /\ At(op, "status")
  /\ run[op].action = "publish_site"
  /\ WriteStatus(op, "Publicerad", "published")

StampPublished(op) ==
  LET s == run[op].site
  IN  /\ At(op, "published")
      /\ \/ /\ sites[s].published = NULL
            /\ sites' = [sites EXCEPT ![s].published = clock + 1]
            /\ clock' = clock + 1
            /\ UNCHANGED faults
         \/ sites[s].published # NULL /\ UNCHANGED <<sites, clock, faults>>
         \/ Fault /\ UNCHANGED <<sites, clock>>
      /\ Goto(op, "sign")
      /\ UNCHANGED <<orders, customers, deliveries, released, cellHolder, mails,
                     everHeld, crashes>>

\* signing::sign up to Studio::open.  One holder per cell directory: while
\* another request signs, opening fails, and nothing is signed.
OpenCell(op) ==
  /\ At(op, "sign")
  /\ \/ /\ SigningEnabled
        /\ cellHolder = {}
        /\ cellHolder' = {op}
        /\ Goto(op, "issue")
        /\ UNCHANGED faults
     \/ /\ ~SigningEnabled \/ cellHolder # {}
        /\ Goto(op, "flags")
        /\ UNCHANGED <<cellHolder, faults>>
     \/ Fault /\ Goto(op, "flags") /\ UNCHANGED cellHolder
  /\ UNCHANGED <<orders, customers, sites, deliveries, released, mails,
                 everHeld, clock, crashes>>

\* The artefacts named in the row whose reference fits in a claim.
ToSign(op) == {a \in Assets : run[op].refs[a] = "fits"}

\* release_custody signs in the order sign planned: domain, hosting, source.
Rank(a) == CASE a = "domain" -> 1 [] a = "hosting" -> 2 [] OTHER -> 3

\* One cell.issue of release_custody; the first error ends it: that claim is not
\* in the log, those before it stay there, and sign answers that nothing was
\* signed.
IssueClaim(op) ==
  /\ At(op, "issue")
  /\ \E a \in ToSign(op) \ run[op].issued :
       LET c     == run[op].customer
           claim == released' = [released EXCEPT ![c][a] = @ + 1]
       IN  /\ \A b \in ToSign(op) \ run[op].issued : Rank(a) <= Rank(b)
           /\ \/ /\ claim
                 /\ run' = [run EXCEPT ![op].issued = @ \cup {a}]
                 /\ UNCHANGED <<cellHolder, faults>>
              \/ /\ Fault
                 /\ run' = [run EXCEPT ![op] = [@ EXCEPT !.pc = "flags", !.issued = {}]]
                 /\ cellHolder' = cellHolder \ {op}
                 /\ UNCHANGED released
  /\ UNCHANGED <<orders, customers, sites, deliveries, mails, everHeld, clock,
                 crashes>>

\* sign returns what it signed, and dropping the studio releases the cell.
CloseCell(op) ==
  /\ At(op, "issue")
  /\ run[op].issued = ToSign(op)
  /\ cellHolder' = cellHolder \ {op}
  /\ Goto(op, "flags")
  /\ UNCHANGED <<orders, customers, sites, deliveries, released, mails,
                 everHeld, clock, faults, crashes>>

\* Mutant: the flags follow the intent.
RecordFlags_FollowsIntent(op) ==
  LET handed == DeliveriesOf(run[op].order)
  IN  /\ At(op, "flags")
      /\ deliveries' = [d \in RowId |-> IF d \in handed
             THEN [deliveries[d] EXCEPT !.flags = @ \cup ToSign(op)]
             ELSE deliveries[d]]
      /\ Goto(op, "mail")
      /\ UNCHANGED <<orders, customers, sites, released, cellHolder, mails,
                     everHeld, clock, faults, crashes>>

RecordFlags(op) ==
  LET handed == DeliveriesOf(run[op].order)
  IN  /\ At(op, "flags")
      /\ \/ /\ deliveries' = [d \in RowId |-> IF d \in handed
                 THEN [deliveries[d] EXCEPT !.flags = @ \cup run[op].issued]
                 ELSE deliveries[d]]
            /\ UNCHANGED faults
         \/ Fault /\ UNCHANGED deliveries
      /\ Goto(op, "mail")
      /\ UNCHANGED <<orders, customers, sites, released, cellHolder, mails,
                     everHeld, clock, crashes>>

-----------------------------------------------------------------------------
(* refund_one: one column of one delivery, then mail.                      *)

\* Mutant: a refund on a live order.
ReadForRefund_AnyStatus(op, o) ==
  /\ Reading(op, o, {"record_refund"})
  /\ Take(op, o, "find")

ReadForRefund(op, o) ==
  /\ Reading(op, o, {"record_refund"})
  /\ IF orders[o].status = "Avbruten" THEN Take(op, o, "find") ELSE Fail(op, o)

\* The delivery gives a reason for the refund and shows none yet.
Owing(d) == deliveries[d].reason /\ deliveries[d].at["refunded"] = NULL

\* Mutant: a delivery already refunded is not refused.
FindDelivery_AgainAndAgain(op) ==
  LET o == run[op].order
  IN  /\ At(op, "find")
      /\ \/ /\ \A d \in DeliveriesOf(o) : ~deliveries[d].reason
            /\ Fail(op, o)
         \/ \E d \in DeliveriesOf(o) :
              /\ deliveries[d].reason
              /\ run' = [run EXCEPT ![op] = [@ EXCEPT !.pc = "refund", !.delivery = d]]
      /\ UNCHANGED <<orders, customers, sites, deliveries, released, cellHolder,
                     mails, everHeld, clock, faults, crashes>>

\* delivery_for: a site of the order, then a delivery of that site, each the
\* first of a listing of unstated order; then the checks on the delivery.
FindDelivery(op) ==
  LET o     == run[op].order
      Of(s) == {d \in RowId : deliveries[d].site = s}
  IN  /\ At(op, "find")
      /\ \/ /\ \/ SitesOf(o) = {}
               \/ \E s \in SitesOf(o) : Of(s) = {}
               \/ \E s \in SitesOf(o) : \E d \in Of(s) : ~Owing(d)
            /\ Fail(op, o)
         \/ \E s \in SitesOf(o) : \E d \in Of(s) :
              /\ Owing(d)
              /\ run' = [run EXCEPT ![op] = [@ EXCEPT !.pc = "refund", !.delivery = d]]
      /\ UNCHANGED <<orders, customers, sites, deliveries, released, cellHolder,
                     mails, everHeld, clock, faults, crashes>>

\* Mutant: WHERE id = $1 alone.
WriteRefund_NotOnlyNull(op) ==
  /\ At(op, "refund")
  /\ LET d == run[op].delivery
     IN  deliveries' = [deliveries EXCEPT ![d] = Stamped(d, "refunded")]
  /\ clock' = clock + 1
  /\ Goto(op, "mail")
  /\ UNCHANGED <<orders, customers, sites, released, cellHolder, mails,
                 everHeld, faults, crashes>>

\* Mutant: a refund that could not be saved is logged, and reported as done.
WriteRefund_LogsTheError(op) ==
  LET d == run[op].delivery
  IN  /\ At(op, "refund")
      /\ \/ /\ deliveries' = [deliveries EXCEPT ![d] = Stamped(d, "refunded")]
            /\ clock' = clock + 1
            /\ UNCHANGED faults
         \/ Fault /\ UNCHANGED <<deliveries, clock>>
      /\ Goto(op, "mail")
      /\ UNCHANGED <<orders, customers, sites, released, cellHolder, mails,
                     everHeld, crashes>>

\* UPDATE ... WHERE refunded_at IS NULL; how many rows it changed is not read.
WriteRefund(op) ==
  LET d     == run[op].delivery
      write == IF deliveries[d].at["refunded"] = NULL
               THEN /\ deliveries' = [deliveries EXCEPT ![d] = Stamped(d, "refunded")]
                    /\ clock' = clock + 1
               ELSE UNCHANGED <<deliveries, clock>>
  IN  /\ At(op, "refund")
      /\ \/ write /\ Goto(op, "mail") /\ UNCHANGED faults
         \/ /\ write \/ UNCHANGED <<deliveries, clock>>
            /\ Fault
            /\ Fail(op, run[op].order)
      /\ UNCHANGED <<orders, customers, sites, released, cellHolder, mails,
                     everHeld, crashes>>

-----------------------------------------------------------------------------
(* The panel's own forms (rustio-admin), and the process being killed.     *)

\* The operator fills in live_url and the references before publishing.
PanelFillSite(s, refs) ==
  /\ sites[s].order # NoOrder
  /\ sites' = [sites EXCEPT ![s].live = TRUE, ![s].refs = refs]
  /\ UNCHANGED <<orders, customers, deliveries, released, cellHolder, mails,
                 everHeld, clock, faults, crashes, run>>

\* The operator fills in refund_reason before refunding.
PanelFillReason(d) ==
  /\ ReasonsGiven
  /\ deliveries[d].site # None
  /\ deliveries' = [deliveries EXCEPT ![d].reason = TRUE]
  /\ UNCHANGED <<orders, customers, sites, released, cellHolder, mails,
                 everHeld, clock, faults, crashes, run>>

\* The status dropdown of the order's form: any of the column's choices.
PanelSetStatus(o, to) ==
  /\ orders' = [orders EXCEPT ![o].status = to]
  /\ everHeld' = [everHeld EXCEPT ![o] = @ \cup {to}]
  /\ UNCHANGED <<customers, sites, deliveries, released, cellHolder, mails,
                 clock, faults, crashes, run>>

\* Every request dies where it is, and the cell's lock dies with the process.
Crash ==
  /\ crashes < MaxCrashes
  /\ crashes' = crashes + 1
  /\ run' = [op \in Operator |-> Idle]
  /\ cellHolder' = {}
  /\ UNCHANGED <<orders, customers, sites, deliveries, released, mails,
                 everHeld, clock, faults>>

\* An operator whose browser gives up takes the request with it: the handler is
\* dropped at the await it is at.  sign has no await in it.
Disconnect(op) ==
  /\ run[op].pc \notin {"idle", "issue"}
  /\ crashes < MaxCrashes
  /\ crashes' = crashes + 1
  /\ run' = [run EXCEPT ![op] = Idle]
  /\ UNCHANGED <<orders, customers, sites, deliveries, released, cellHolder,
                 mails, everHeld, clock, faults>>

-----------------------------------------------------------------------------
\* What the code does next for a request it is serving.
Serve(op) ==
  \/ \E o \in OrderId : \/ ReadForAccept(op, o) \/ ReadForStep(op, o)
                        \/ ReadForPublish(op, o) \/ ReadForRefund(op, o)
  \/ ReadFails(op) \/ Finish(op)
  \/ CreateCustomer(op) \/ CreateSite(op) \/ CreateDelivery(op) \/ LinkOrder(op)
  \/ AdvanceStatus(op) \/ StampDelivery(op) \/ Notify(op)
  \/ ReadSite(op) \/ PublishStatus(op) \/ StampPublished(op)
  \/ OpenCell(op) \/ IssueClaim(op) \/ CloseCell(op) \/ RecordFlags(op)
  \/ FindDelivery(op) \/ WriteRefund(op)

\* What people do, and what may befall the process.
Environment ==
  \/ \E op \in Operator, action \in Offered, chosen \in SUBSET OrderId :
       StartRun(op, action, chosen)
  \/ \E s \in RowId, refs \in SiteFillings : PanelFillSite(s, refs)
  \/ \E d \in RowId : PanelFillReason(d)
  \/ \E o \in OrderId, to \in PanelStatuses : PanelSetStatus(o, to)
  \/ Crash
  \/ \E op \in Operator : Disconnect(op)

Next == Environment \/ \E op \in Operator : Serve(op)

Spec == Init /\ [][Next]_vars

\* The runtime keeps polling a request it has taken; nobody has to start one.
FairSpec == Spec /\ \A op \in Operator : WF_vars(Serve(op))

-----------------------------------------------------------------------------
(* Properties *)

SiteRow == [order : OrderId \cup {NoOrder}, customer : RowId \cup {None},
            live : BOOLEAN, refs : References, published : Nat]
DeliveryRow == [site : RowId \cup {None}, customer : RowId \cup {None},
                at : [Moments -> Nat], flags : SUBSET Assets, reason : BOOLEAN]
Points == {"idle", "next", "customer", "insert_site", "insert_delivery", "link",
           "status", "stamp", "mail", "site", "published", "sign", "issue",
           "flags", "find", "refund"}
Request == [pc : Points, action : ActionNames, todo : SUBSET OrderId,
            order : OrderId \cup {NoOrder}, customer : RowId \cup {None},
            site : RowId \cup {None}, delivery : RowId \cup {None},
            refs : References, issued : SUBSET Assets,
            succeeded : SUBSET OrderId, failed : SUBSET OrderId]

\* Type correctness of the tables, the cell, the history and the requests.
TypeOK ==
  /\ orders \in [OrderId -> [status : Statuses, customer : RowId \cup {None}]]
  /\ customers \in [RowId -> OrderId \cup {NoOrder}]
  /\ sites \in [RowId -> SiteRow]
  /\ deliveries \in [RowId -> DeliveryRow]
  /\ released \in [RowId -> [Assets -> Nat]]
  /\ cellHolder \in SUBSET Operator
  /\ mails \in [OrderId -> [ActionNames -> Nat]]
  /\ everHeld \in [OrderId -> SUBSET Statuses]
  /\ clock \in Nat /\ faults \in Nat /\ crashes \in Nat
  /\ run \in [Operator -> Request]

\* accept_one's write order "degrades safely": an order that shows a customer
\* has that customer's own row, site and delivery, whatever failed on the way.
LinkMeansCompleteJob ==
  \A o \in OrderId : LET c == orders[o].customer IN c # None =>
    /\ customers[c] = o
    /\ \E s \in SitesOf(o) : /\ sites[s].customer = c
                             /\ \E d \in RowId : /\ deliveries[d].site = s
                                                 /\ deliveries[d].customer = c

\* "Write first, notify second": a customer who was mailed about a step has an
\* order that was durably given that status; about a refund, a stamped delivery.
MailFollowsWrite ==
  \A o \in OrderId :
    /\ \A a \in Steps : mails[o][a] > 0 => Step(a).to \in everHeld[o]
    /\ mails[o]["publish_site"] > 0 => "Publicerad" \in everHeld[o]
    /\ mails[o]["record_refund"] > 0 =>
         \E d \in DeliveriesOf(o) : deliveries[d].at["refunded"] # NULL

\* What an operator is told succeeded is in the database: no later failure,
\* refusal or other operator in the meantime makes the report untrue.
ReportsAreTrue ==
  \A op \in Operator : \A o \in run[op].succeeded :
    CASE run[op].action = "accept_order"  -> orders[o].customer # None
      [] run[op].action \in Steps         -> Step(run[op].action).to \in everHeld[o]
      [] run[op].action = "publish_site"  -> "Publicerad" \in everHeld[o]
      [] OTHER -> \E d \in DeliveriesOf(o) : deliveries[d].at["refunded"] # NULL

\* workflow.rs:68 writes by id alone: however many operators have moved the order
\* since an action read its status, it is never published without ever having been
\* approved, nor approved without ever having been proposed.
NoSkippedSteps ==
  \A o \in OrderId :
    /\ "Publicerad" \in everHeld[o] => "Godkand" \in everHeld[o]
    /\ "Godkand" \in everHeld[o] => "UtkastSkickat" \in everHeld[o]

\* No money goes back for an order that was never called off.
RefundFollowsCancel ==
  \A o \in OrderId : \A d \in DeliveriesOf(o) :
    deliveries[d].at["refunded"] # NULL => "Avbruten" \in everHeld[o]

\* "The flags follow the claims rather than the intent": a transfer flag is
\* backed by a Released claim naming a customer made from the same order.
FlagsFollowClaims ==
  \A o \in OrderId : \A d \in DeliveriesOf(o) : \A a \in deliveries[d].flags :
    \E c \in RowId : customers[c] = o /\ released[c][a] > 0

\* A claim is a signature on something that happened: nothing is released to a
\* customer whose order was not durably published first.
ClaimsFollowPublication ==
  \A c \in RowId : \A a \in Assets : released[c][a] > 0 =>
    customers[c] \in OrderId /\ "Publicerad" \in everHeld[customers[c]]

\* IS NULL in every stamp: the first time something happened is never rewritten.
StampsWriteOnce ==
  [][/\ \A s \in RowId : sites[s].published # NULL =>
          sites'[s].published = sites[s].published
     /\ \A d \in RowId, m \in Moments : deliveries[d].at[m] # NULL =>
          deliveries'[d].at[m] = deliveries[d].at[m]]_vars

\* A bulk request is answered: no chosen order leaves it waiting for ever, not
\* behind another request's hold on the cell either.
EveryRunEnds ==
  \A op \in Operator : ~At(op, "idle") ~> At(op, "idle")

\* With one operator and no status set by hand, the status column of every
\* order takes only the domain's steps: the back office implements it.
Lifecycle == INSTANCE OrderLifecycle
             WITH status <- [o \in OrderId |-> orders[o].status]
StatusFollowsLifecycle == Lifecycle!Spec

\* A customer hears that money is on its way at most once per refund recorded.
RefundMailsMatchRefunds ==
  \A o \in OrderId : mails[o]["record_refund"] <=
    Cardinality({d \in DeliveriesOf(o) : deliveries[d].at["refunded"] # NULL})

-----------------------------------------------------------------------------
(* What the README says of the code and the code does not keep.            *)

\* README.md:116 "sets each transfer flag to match what was actually signed":
\* once nobody is at work, a claim in the log shows as a flag on the delivery.
FlagsMatchClaims ==
  (\A op \in Operator : At(op, "idle")) =>
    \A c \in RowId : \A a \in Assets : released[c][a] > 0 =>
      \E d \in DeliveriesOf(customers[c]) : a \in deliveries[d].flags
=============================================================================
