------------------------ MODULE BackOfficeRecordsProofs ------------------------
(***************************************************************************)
(* What the tables, the cell and the histories say about each other, for   *)
(* every number of operators and whatever they read, fails or is killed.   *)
(* A request relies on rows it wrote or read some awaits ago: what it      *)
(* relies on only ever grows.                                              *)
(***************************************************************************)
EXTENDS BackOfficeStatusProofs, FiniteSetTheorems

-----------------------------------------------------------------------------
(* The inductive invariant *)

\* What the report of an action says of an order, and what its mail says.
Written(o, action) ==
  CASE action = "accept_order"  -> orders[o].customer # None
    [] action \in Steps         -> Step(action).to \in everHeld[o]
    [] action = "publish_site"  -> "Publicerad" \in everHeld[o]
    [] OTHER -> \E d \in DeliveriesOf(o) : deliveries[d].at["refunded"] # NULL

Building   == {"insert_site", "insert_delivery", "link"}
Handing    == {"published", "sign", "issue", "flags"}
Publishing == {"site", "status"} \cup Handing

\* Where a request is tells what it is doing.
InPlace(r) ==
  /\ r.pc \in {"customer"} \cup Building => r.action = "accept_order"
  /\ r.pc = "status" => r.action \in Steps \cup {"publish_site"}
  /\ r.pc = "stamp" => r.action \in Steps
  /\ r.pc \in {"site"} \cup Handing => r.action = "publish_site"
  /\ r.pc \in {"find", "refund"} => r.action = "record_refund"
  /\ r.pc = "mail" => r.action # "accept_order"

\* accept_one holds the ids of rows of its own order.
Built(r) ==
  /\ r.pc \in Building => r.customer \in RowId /\ customers[r.customer] = r.order
  /\ r.pc \in {"insert_delivery", "link"} =>
       /\ r.site \in RowId
       /\ sites[r.site].order = r.order /\ sites[r.site].customer = r.customer
  /\ r.pc = "link" =>
       \E d \in RowId : deliveries[d].site = r.site /\ deliveries[d].customer = r.customer

\* publish_one signs for the customer made from its order, and remembers only
\* claims that are in the log.
Signed(r) ==
  /\ r.pc \in Publishing /\ r.action = "publish_site" /\ r.customer # None =>
       customers[r.customer] = r.order
  /\ r.pc \in Publishing \ {"site"} /\ r.action = "publish_site" => r.customer # None
  /\ r.pc \notin {"issue", "flags", "mail"} => r.issued = {}
  /\ r.pc \in {"issue", "flags"} => \A a \in r.issued : released[r.customer][a] > 0

\* refund_one works on a delivery of an order that was called off.
Refunding(r) ==
  /\ r.pc \in {"find", "refund"} => "Avbruten" \in everHeld[r.order]
  /\ r.pc = "refund" => r.delivery \in DeliveriesOf(r.order)

\* What a request is about to announce, or has reported, is written.
Announcing(r) ==
  /\ r.pc \in {"stamp", "mail"} \cup Handing => Written(r.order, r.action)
  /\ \A o \in r.succeeded : Written(o, r.action)

Founded(r) == InPlace(r) /\ Built(r) /\ Signed(r) /\ Refunding(r) /\ Announcing(r)

\* A delivery is of a site there is, which is of an order there is.
DeliveriesHaveSites ==
  \A d \in RowId : deliveries[d].site # None => sites[deliveries[d].site].order # NoOrder

StatusesRemembered == \A o \in OrderId : orders[o].status \in everHeld[o]

Books ==
  /\ DeliveriesHaveSites /\ StatusesRemembered
  /\ LinkMeansCompleteJob /\ RefundFollowsCancel
  /\ FlagsFollowClaims /\ ClaimsFollowPublication

MailsWritten ==
  \A o \in OrderId, action \in ActionNames : mails[o][action] > 0 => Written(o, action)

RecordsInv == Books /\ MailsWritten /\ \A op \in Operator : Founded(run[op])

-----------------------------------------------------------------------------
(* What no step takes back *)

Grows ==
  /\ \A c \in RowId : customers[c] # NoOrder => customers'[c] = customers[c]
  /\ \A s \in RowId : sites[s].order # NoOrder =>
       sites'[s].order = sites[s].order /\ sites'[s].customer = sites[s].customer
  /\ \A s \in RowId : sites[s].published # NULL => sites'[s].published = sites[s].published
  /\ \A d \in RowId : deliveries[d].site # None =>
       /\ deliveries'[d].site = deliveries[d].site
       /\ deliveries'[d].customer = deliveries[d].customer
  /\ \A d \in RowId, m \in Moments : deliveries[d].at[m] # NULL =>
       deliveries'[d].at[m] = deliveries[d].at[m]
  /\ \A c \in RowId, a \in Assets : released[c][a] > 0 => released'[c][a] > 0
  /\ \A o \in OrderId : /\ everHeld[o] \subseteq everHeld'[o]
                        /\ orders[o].customer # None => orders'[o].customer # None

LEMMA Columns ==
  ASSUME TypeInv
  PROVE  /\ None \notin RowId /\ NoOrder \notin OrderId
         /\ \A s \in RowId : sites[s].order \in OrderId \cup {NoOrder}
         /\ \A d \in RowId : /\ deliveries[d].site \in RowId \cup {None}
                             /\ deliveries[d].flags \subseteq Assets
                             /\ deliveries[d].at \in [Moments -> Nat]
         /\ \A o \in OrderId : orders[o].customer \in RowId \cup {None}
<1>1. None \notin RowId /\ NoOrder \notin OrderId
  BY BackOfficeAssumption DEF None, RowId
<1>2. \A s \in RowId : sites[s].order \in OrderId \cup {NoOrder}
  BY DEF TypeInv, TypeOK, SiteRow
<1>3. \A d \in RowId : /\ deliveries[d].site \in RowId \cup {None}
                       /\ deliveries[d].flags \subseteq Assets
                       /\ deliveries[d].at \in [Moments -> Nat]
  BY DEF TypeInv, TypeOK, DeliveryRow
<1>4. \A o \in OrderId : orders[o].customer \in RowId \cup {None}
  BY DEF TypeInv, TypeOK
<1> QED BY <1>1, <1>2, <1>3, <1>4

LEMMA DeliveriesGrow ==
  ASSUME TypeInv, Grows, NEW o \in OrderId, NEW d \in DeliveriesOf(o)
  PROVE  d \in DeliveriesOf(o)'
<1>1. /\ d \in RowId /\ deliveries[d].site \in RowId
      /\ sites[deliveries[d].site].order = o
  BY DEF DeliveriesOf, SitesOf
<1>2. /\ deliveries'[d].site = deliveries[d].site
      /\ sites'[deliveries[d].site].order = o
  BY <1>1, Columns DEF Grows
<1> QED BY <1>1, <1>2 DEF DeliveriesOf, SitesOf

\* A delivery does not change hands.
LEMMA DeliveriesStay ==
  ASSUME TypeInv, Grows, DeliveriesHaveSites,
         NEW o \in OrderId, NEW d \in DeliveriesOf(o)', deliveries[d].site # None
  PROVE  d \in DeliveriesOf(o)
<1>1. /\ d \in RowId /\ deliveries'[d].site \in RowId
      /\ sites'[deliveries'[d].site].order = o
  BY DEF DeliveriesOf, SitesOf
<1>2. /\ deliveries'[d].site = deliveries[d].site
      /\ sites[deliveries[d].site].order # NoOrder
  BY <1>1 DEF Grows, DeliveriesHaveSites
<1>3. sites[deliveries[d].site].order = o
  BY <1>1, <1>2, Columns DEF Grows
<1> QED BY <1>1, <1>2, <1>3 DEF DeliveriesOf, SitesOf

LEMMA WrittenStays ==
  ASSUME TypeInv, Grows, NEW o \in OrderId, NEW action, Written(o, action)
  PROVE  Written(o, action)'
<1>1. CASE action = "accept_order"
  BY <1>1 DEF Written, Grows
<1>2. CASE action \in Steps
  BY <1>2 DEF Written, Grows, Steps
<1>3. CASE action = "publish_site"
  BY <1>3 DEF Written, Grows, Steps
<1>4. CASE action \notin {"accept_order", "publish_site"} \cup Steps
  <2>1. PICK d \in DeliveriesOf(o) : deliveries[d].at["refunded"] # NULL
    BY <1>4 DEF Written
  <2>2. d \in RowId /\ "refunded" \in Moments
    BY DEF DeliveriesOf, Moments
  <2>3. deliveries'[d].at["refunded"] # NULL
    BY <2>1, <2>2 DEF Grows
  <2> QED BY <1>4, <2>1, <2>3, DeliveriesGrow DEF Written
<1> QED BY <1>1, <1>2, <1>3, <1>4

\* What a request relies on stays as it is.
LEMMA FoundedStays ==
  ASSUME TypeInv, Grows, NEW r \in Request, Founded(r),
         r.pc \in Working => r.order \in OrderId
  PROVE  Founded(r)'
<1>1. r.pc \in Building \cup Publishing \cup {"stamp", "mail", "find", "refund"} =>
        r.order \in OrderId /\ r.order # NoOrder
  BY Columns DEF Building, Publishing, Handing, Working, Points
<1>2. /\ r.customer \in RowId \cup {None} /\ r.site \in RowId \cup {None}
      /\ r.succeeded \subseteq OrderId /\ r.issued \subseteq Assets
  BY DEF Request
<1>3. InPlace(r)'
  BY DEF Founded, InPlace
<1>4. Built(r)'
  <2>1. r.pc \in Building => customers'[r.customer] = r.order
    BY <1>1 DEF Grows, Founded, Built
  <2>2. r.pc \in {"insert_delivery", "link"} =>
          sites'[r.site].order = r.order /\ sites'[r.site].customer = r.customer
    BY <1>1 DEF Grows, Founded, Built, Building
  <2>3. ASSUME r.pc = "link"
        PROVE  \E d \in RowId : deliveries'[d].site = r.site /\ deliveries'[d].customer = r.customer
    BY <2>3, Columns DEF Grows, Founded, Built, Building
  <2> QED BY <2>1, <2>2, <2>3 DEF Founded, Built
<1>5. Signed(r)'
  <2>1. r.pc \in Publishing /\ r.action = "publish_site" /\ r.customer # None =>
          customers'[r.customer] = r.order
    BY <1>1, <1>2 DEF Grows, Founded, Signed
  <2>2. r.pc \in {"issue", "flags"} => \A a \in r.issued : released'[r.customer][a] > 0
    <3> SUFFICES ASSUME r.pc \in {"issue", "flags"}, NEW a \in r.issued
                 PROVE  released'[r.customer][a] > 0
      OBVIOUS
    <3>1. r.action = "publish_site" /\ r.customer # None
      BY DEF Founded, InPlace, Handing, Signed, Publishing
    <3> QED BY <1>2, <3>1 DEF Grows, Founded, Signed
  <2> QED BY <2>1, <2>2 DEF Founded, Signed
<1>6. Refunding(r)'
  <2>1. r.pc \in {"find", "refund"} => "Avbruten" \in everHeld'[r.order]
    BY <1>1 DEF Grows, Founded, Refunding
  <2>2. r.pc = "refund" => r.delivery \in DeliveriesOf(r.order)'
    BY <1>1, DeliveriesGrow DEF Founded, Refunding
  <2> QED BY <2>1, <2>2 DEF Refunding
<1>7. Announcing(r)'
  <2>1. r.pc \in {"stamp", "mail"} \cup Handing => Written(r.order, r.action)'
    BY <1>1, WrittenStays DEF Founded, Announcing, Publishing
  <2>2. \A o \in r.succeeded : Written(o, r.action)'
    BY <1>2, WrittenStays DEF Founded, Announcing
  <2> QED BY <2>1, <2>2 DEF Announcing
<1> QED BY <1>3, <1>4, <1>5, <1>6, <1>7 DEF Founded

\* The link of one order, as LinkMeansCompleteJob asks for it.
Linked(o) ==
  LET c == orders[o].customer IN
  /\ customers[c] = o
  /\ \E s \in SitesOf(o) : /\ sites[s].customer = c
                           /\ \E d \in RowId : /\ deliveries[d].site = s
                                               /\ deliveries[d].customer = c

LEMMA LinkedStays ==
  ASSUME TypeInv, Grows, NEW o \in OrderId, orders[o].customer # None, Linked(o),
         orders'[o].customer = orders[o].customer
  PROVE  Linked(o)'
<1>1. orders[o].customer \in RowId /\ customers'[orders[o].customer] = o
  BY Columns DEF Linked, Grows
<1>2. PICK s \in SitesOf(o) : /\ sites[s].customer = orders[o].customer
                              /\ \E d \in RowId : /\ deliveries[d].site = s
                                                  /\ deliveries[d].customer = orders[o].customer
  BY DEF Linked
<1>3. PICK d \in RowId : deliveries[d].site = s /\ deliveries[d].customer = orders[o].customer
  BY <1>2
<1>4. s \in RowId /\ s # None /\ sites[s].order = o /\ o # NoOrder
  BY Columns DEF SitesOf
<1>5. /\ sites'[s].order = o /\ sites'[s].customer = orders[o].customer
      /\ deliveries'[d].site = s /\ deliveries'[d].customer = orders[o].customer
  BY <1>2, <1>3, <1>4 DEF Grows
<1>6. s \in SitesOf(o)'
  BY <1>4, <1>5 DEF SitesOf
<1> QED BY <1>1, <1>5, <1>6 DEF Linked

\* What a step has to show of the tables, beside that they grow.
LEMMA BooksGrow ==
  ASSUME TypeInv, TypeInv', Books, Grows, StatusesRemembered',
         \A d \in RowId : deliveries[d].site = None /\ deliveries'[d].site # None =>
           /\ sites'[deliveries'[d].site].order # NoOrder
           /\ deliveries'[d].flags = {} /\ deliveries'[d].at["refunded"] = NULL,
         \A o \in OrderId : orders'[o].customer # None =>
           orders'[o].customer = orders[o].customer \/ Linked(o)',
         \A o \in OrderId : \A d \in DeliveriesOf(o) :
           deliveries'[d].at["refunded"] # NULL =>
             deliveries[d].at["refunded"] # NULL \/ "Avbruten" \in everHeld'[o],
         \A o \in OrderId : \A d \in DeliveriesOf(o) : \A a \in deliveries'[d].flags :
           \/ a \in deliveries[d].flags
           \/ \E c \in RowId : customers'[c] = o /\ released'[c][a] > 0,
         \A c \in RowId, a \in Assets : released'[c][a] > 0 =>
           \/ released[c][a] > 0
           \/ customers'[c] \in OrderId /\ "Publicerad" \in everHeld'[customers'[c]]
  PROVE  Books'
<1>1. DeliveriesHaveSites'
  <2> SUFFICES ASSUME NEW d \in RowId, deliveries'[d].site # None
               PROVE  sites'[deliveries'[d].site].order # NoOrder
    BY DEF DeliveriesHaveSites
  <2>1. CASE deliveries[d].site # None
    <3>1. /\ deliveries'[d].site = deliveries[d].site /\ deliveries[d].site \in RowId
          /\ sites[deliveries[d].site].order # NoOrder
      BY <2>1, Columns DEF Books, DeliveriesHaveSites, Grows
    <3> QED BY <3>1 DEF Grows
  <2>2. CASE deliveries[d].site = None
    BY <2>2
  <2> QED BY <2>1, <2>2
<1>2. LinkMeansCompleteJob'
  <2>1. \A o \in OrderId : orders[o].customer # None => Linked(o)
    BY DEF Books, LinkMeansCompleteJob, Linked
  <2>2. \A o \in OrderId : orders'[o].customer # None => Linked(o)'
    BY <2>1, LinkedStays
  <2> QED BY <2>2 DEF LinkMeansCompleteJob, Linked
<1>3. ASSUME NEW o \in OrderId, NEW d \in DeliveriesOf(o)'
      PROVE  /\ deliveries'[d].at["refunded"] # NULL => "Avbruten" \in everHeld'[o]
             /\ \A a \in deliveries'[d].flags :
                  \E c \in RowId : customers'[c] = o /\ released'[c][a] > 0
  <2>1. d \in RowId /\ deliveries'[d].site \in RowId /\ deliveries'[d].site # None
    BY Columns DEF DeliveriesOf, SitesOf
  <2>2. CASE deliveries[d].site = None
    BY <2>1, <2>2
  <2>3. CASE deliveries[d].site # None
    <3>1. d \in DeliveriesOf(o)
      BY <2>3, DeliveriesStay DEF Books
    <3>2. deliveries'[d].at["refunded"] # NULL => "Avbruten" \in everHeld'[o]
      BY <3>1 DEF Books, RefundFollowsCancel, Grows
    <3>3. ASSUME NEW a \in deliveries[d].flags
          PROVE  \E c \in RowId : customers'[c] = o /\ released'[c][a] > 0
      <4>1. PICK c \in RowId : customers[c] = o /\ released[c][a] > 0
        BY <3>1 DEF Books, FlagsFollowClaims
      <4>2. a \in Assets /\ o # NoOrder
        BY <2>1, Columns
      <4> QED BY <4>1, <4>2 DEF Grows
    <3> QED BY <3>1, <3>2, <3>3
  <2> QED BY <2>2, <2>3
<1>4. RefundFollowsCancel'
  BY <1>3 DEF RefundFollowsCancel
<1>5. FlagsFollowClaims'
  BY <1>3 DEF FlagsFollowClaims
<1>6. ClaimsFollowPublication'
  <2> SUFFICES ASSUME NEW c \in RowId, NEW a \in Assets, released'[c][a] > 0
               PROVE  customers'[c] \in OrderId /\ "Publicerad" \in everHeld'[customers'[c]]
    BY DEF ClaimsFollowPublication
  <2>1. CASE released[c][a] > 0
    <3>1. customers[c] \in OrderId /\ "Publicerad" \in everHeld[customers[c]]
      BY <2>1 DEF Books, ClaimsFollowPublication
    <3> QED BY <3>1, Columns DEF Grows
  <2> QED BY <2>1
<1> QED BY <1>1, <1>2, <1>4, <1>5, <1>6 DEF Books

LEMMA Bystander ==
  ASSUME TypeInv, RecordsInv, Grows, NEW q \in Operator, run'[q] = run[q]
  PROVE  Founded(run[q])'
<1>1. PICK r \in Request : r = run[q]
  BY RunType
<1>2. Founded(r) /\ (r.pc \in Working => r.order \in OrderId)
  BY <1>1 DEF RecordsInv, TypeInv, OrderTaken
<1>3. Founded(r)'
  BY <1>2, FoundedStays
<1>4. run'[q] = r
  BY <1>1
<1> QED BY <1>3, <1>4 DEF Founded, InPlace, Built, Signed, Refunding, Announcing, Written

\* It is enough to look at the request that moved.
LEMMA Mover ==
  ASSUME TypeInv, TypeInv', RecordsInv, Grows, Books', NEW op \in Operator,
         \A q \in Operator : q # op => run'[q] = run[q],
         Founded(run[op])',
         \A o \in OrderId, action \in ActionNames :
           mails'[o][action] > 0 => mails[o][action] > 0 \/ Written(o, action)'
  PROVE  RecordsInv'
<1>1. MailsWritten'
  BY WrittenStays DEF RecordsInv, MailsWritten
<1>2. ASSUME NEW q \in Operator, q # op PROVE Founded(run[q])'
  BY <1>2, Bystander
<1> QED BY <1>1, <1>2 DEF RecordsInv

\* The panel's forms move no request.
LEMMA NobodyMoves ==
  ASSUME TypeInv, RecordsInv, Grows, Books', UNCHANGED <<mails, run>>
  PROVE  RecordsInv'
<1>1. MailsWritten'
  BY WrittenStays DEF RecordsInv, MailsWritten
<1>2. \A q \in Operator : Founded(run[q])'
  BY Bystander
<1> QED BY <1>1, <1>2 DEF RecordsInv

Tables == <<orders, customers, sites, deliveries, released, everHeld>>

LEMMA TablesStay ==
  ASSUME Books, UNCHANGED Tables
  PROVE  Grows /\ Books'
<1>1. Grows
  BY DEF Grows, Tables
<1>2. Books'
  BY DEF Tables, Books, DeliveriesHaveSites, StatusesRemembered,
         LinkMeansCompleteJob, RefundFollowsCancel, FlagsFollowClaims,
         ClaimsFollowPublication, DeliveriesOf, SitesOf
<1> QED BY <1>1, <1>2

-----------------------------------------------------------------------------
(* Where a request is after its step *)

\* What a request relied on it may go on relying on.
LEMMA Before ==
  ASSUME TypeInv, RecordsInv, Grows, NEW op \in Operator
  PROVE  \E r \in Request : /\ r = run[op] /\ Founded(r) /\ Founded(r)'
                            /\ r.pc \in Working => r.order \in OrderId
<1>1. PICK r \in Request : r = run[op]
  BY RunType
<1>2. Founded(r) /\ (r.pc \in Working => r.order \in OrderId)
  BY <1>1 DEF RecordsInv, TypeInv, OrderTaken
<1> QED BY <1>1, <1>2, FoundedStays

LEMMA Landed ==
  ASSUME NEW op \in Operator, NEW r \in Request, run'[op] = r, Founded(r)'
  PROVE  Founded(run[op])'
BY DEF Founded, InPlace, Built, Signed, Refunding, Announcing, Written

\* Between two orders a request relies on its reports alone.
LEMMA Resting ==
  ASSUME NEW r \in Request, r.pc \in {"idle", "next"}, r.issued = {},
         \A o \in r.succeeded : Written(o, r.action)'
  PROVE  Founded(r)'
BY DEF Founded, InPlace, Built, Signed, Refunding, Announcing, Building,
       Publishing, Handing

LEMMA LeavesFounded ==
  ASSUME TypeInv, TypeInv', RecordsInv, Grows, NEW op \in Operator, NEW o,
         NEW p \in Request, p = run[op],
         Fail(op, o) \/ (Succeed(op, o) /\ Written(o, p.action)')
  PROVE  /\ Founded(run[op])'
         /\ \A q \in Operator : q # op => run'[q] = run[q]
<1>1. Founded(p)'
  BY Before
<1>2. PICK x, y : /\ Settle(op, o, x, y)
                  /\ \/ x = p.succeeded
                     \/ x = p.succeeded \cup {o} /\ Written(o, p.action)'
  <2>1. CASE Fail(op, o)
    BY <2>1 DEF Fail
  <2>2. CASE Succeed(op, o) /\ Written(o, p.action)'
    <3>1. Settle(op, o, p.succeeded \cup {o}, p.failed)
      BY <2>2 DEF Succeed
    <3> QED BY <2>2, <3>1
  <2> QED BY <2>1, <2>2
<1>3. PICK r \in Request : run'[op] = r
  BY DEF TypeInv, TypeOK
<1>4. /\ r.pc = "next" /\ r.issued = {} /\ r.action = p.action /\ r.succeeded = x
      /\ \A q \in Operator : q # op => run'[q] = run[q]
  <2> DEFINE left == [Idle EXCEPT !.pc = "next", !.action = p.action,
                                  !.todo = p.todo \ {o},
                                  !.succeeded = x, !.failed = y]
  <2>1. run' = [run EXCEPT ![op] = left]
    BY <1>1, <1>2 DEF Settle
  <2>2. left.pc = "next" /\ left.issued = {} /\ left.action = p.action /\ left.succeeded = x
    BY DEF Idle
  <2> HIDE DEF left
  <2> QED BY <1>3, <2>1, <2>2, RunType
<1>5. \A z \in r.succeeded : Written(z, r.action)'
  BY <1>1, <1>2, <1>4 DEF Founded, Announcing
<1>6. Founded(r)'
  BY <1>4, <1>5, Resting
<1> QED BY <1>3, <1>4, <1>6, Landed

LEMMA GoesFields ==
  ASSUME TypeInv, TypeInv', NEW op \in Operator, NEW pc, Goto(op, pc),
         NEW p \in Request, p = run[op]
  PROVE  /\ \A q \in Operator : q # op => run'[q] = run[q]
         /\ \E r \in Request :
              /\ run'[op] = r /\ r.pc = pc
              /\ r.action = p.action /\ r.order = p.order /\ r.customer = p.customer
              /\ r.site = p.site /\ r.delivery = p.delivery /\ r.refs = p.refs
              /\ r.issued = p.issued /\ r.succeeded = p.succeeded
<1>1. PICK r \in Request : run'[op] = r
  BY DEF TypeInv, TypeOK
<1>2. r = [p EXCEPT !.pc = pc]
  BY <1>1, RunType DEF Goto
<1> QED BY <1>1, <1>2, RunType DEF Goto, Request

LEMMA TakesFields ==
  ASSUME TypeInv, TypeInv', NEW op \in Operator, NEW o, NEW pc, Take(op, o, pc),
         NEW p \in Request, p = run[op]
  PROVE  /\ \A q \in Operator : q # op => run'[q] = run[q]
         /\ \E r \in Request :
              /\ run'[op] = r /\ r.pc = pc /\ r.order = o
              /\ r.customer = orders[o].customer
              /\ r.action = p.action /\ r.issued = p.issued
              /\ r.succeeded = p.succeeded
<1> DEFINE taken == [p EXCEPT !.pc = pc, !.order = o, !.customer = orders[o].customer]
<1>1. PICK r \in Request : run'[op] = r
  BY DEF TypeInv, TypeOK
<1>2. run' = [run EXCEPT ![op] = taken]
  BY DEF Take
<1>3. /\ taken.pc = pc /\ taken.order = o /\ taken.customer = orders[o].customer
      /\ taken.action = p.action /\ taken.issued = p.issued
      /\ taken.succeeded = p.succeeded
  BY DEF Request
<1> HIDE DEF taken
<1> QED BY <1>1, <1>2, <1>3, RunType

-----------------------------------------------------------------------------
(* The steps that write no table *)

LEMMA Quiet ==
  ASSUME TypeInv, TypeInv', RecordsInv, NEW op \in Operator,
         UNCHANGED <<Tables, mails>>, \A q \in Operator : q # op => run'[q] = run[q],
         Grows => Founded(run[op])'
  PROVE  Grows /\ RecordsInv'
<1>1. Grows /\ Books'
  BY TablesStay DEF RecordsInv
<1> QED BY <1>1, Mover

\* A request that begins or is dropped has reported nothing yet.
LEMMA FreshRecords ==
  ASSUME TypeInv, TypeInv', RecordsInv, NEW op \in Operator,
         \/ \E action \in ActionNames, chosen \in SUBSET OrderId : StartRun(op, action, chosen)
         \/ Finish(op) \/ Disconnect(op)
  PROVE  Grows /\ RecordsInv'
<1>1. PICK fresh : /\ run' = [run EXCEPT ![op] = fresh]
                   /\ fresh.pc \in {"idle", "next"}
                   /\ fresh.issued = {} /\ fresh.succeeded = {}
  <2>1. CASE Finish(op) \/ Disconnect(op)
    <3>1. run' = [run EXCEPT ![op] = Idle]
      BY <2>1 DEF Finish, Disconnect
    <3>2. Idle.pc = "idle" /\ Idle.issued = {} /\ Idle.succeeded = {}
      BY DEF Idle
    <3> QED BY <3>1, <3>2
  <2>2. CASE \E action \in ActionNames, chosen \in SUBSET OrderId :
               StartRun(op, action, chosen)
    <3> PICK action, chosen : StartRun(op, action, chosen)
      BY <2>2
    <3> DEFINE begun == [Idle EXCEPT !.pc = "next", !.action = action, !.todo = chosen]
    <3>1. run' = [run EXCEPT ![op] = begun]
      BY DEF StartRun
    <3>2. begun.pc = "next" /\ begun.issued = {} /\ begun.succeeded = {}
      BY DEF Idle
    <3> HIDE DEF begun
    <3> QED BY <3>1, <3>2
  <2> QED BY <2>1, <2>2
<1>2. PICK r \in Request : run'[op] = r
  BY DEF TypeInv, TypeOK
<1>4. UNCHANGED <<Tables, mails>>
  BY DEF StartRun, Finish, Disconnect, Tables
<1>5. /\ r.pc \in {"idle", "next"} /\ r.issued = {} /\ r.succeeded = {}
      /\ \A q \in Operator : q # op => run'[q] = run[q]
  BY <1>1, <1>2, RunType
<1>6. Founded(run[op])'
  BY <1>2, <1>5, Resting, Landed
<1> QED BY <1>4, <1>5, <1>6, Quiet

LEMMA FailRecords ==
  ASSUME TypeInv, TypeInv', RecordsInv, NEW op \in Operator, NEW o, Fail(op, o),
         UNCHANGED <<Tables, mails>>
  PROVE  Grows /\ RecordsInv'
<1>1. PICK p \in Request : p = run[op]
  BY RunType
<1>2. Grows
  BY TablesStay DEF RecordsInv
<1> QED BY <1>1, <1>2, LeavesFounded, Quiet

\* A read takes the order's row as the other actions left it.
LEMMA ReadsRecords ==
  ASSUME TypeInv, TypeInv', RecordsInv, NEW op \in Operator, NEW o \in OrderId,
         \/ ReadForAccept(op, o) \/ ReadForStep(op, o)
         \/ ReadForPublish(op, o) \/ ReadForRefund(op, o)
  PROVE  Grows /\ RecordsInv'
<1>1. UNCHANGED <<Tables, mails>>
  BY DEF ReadForAccept, ReadForStep, ReadForPublish, ReadForRefund, Reading, Tables
<1>2. Grows
  BY <1>1, TablesStay DEF RecordsInv
<1>3. CASE Fail(op, o)
  BY <1>1, <1>3, FailRecords
<1>4. CASE ~Fail(op, o)
  <2>1. PICK p \in Request : p = run[op] /\ Founded(p)'
    BY <1>2, Before
  <2>2. PICK pc : /\ Take(op, o, pc) /\ p.pc = "next"
                  /\ pc = "customer" => p.action = "accept_order"
                  /\ pc = "status" => p.action \in Steps
                  /\ pc = "site" => p.action = "publish_site"
                  /\ pc = "find" => p.action = "record_refund" /\ orders[o].status = "Avbruten"
                  /\ pc \in {"customer", "status", "site", "find"}
    <3>1. CASE ReadForAccept(op, o)
      <4>1. Take(op, o, "customer")
        BY <1>4, <3>1 DEF ReadForAccept
      <4> QED BY <2>1, <3>1, <4>1 DEF ReadForAccept, Reading, At
    <3>2. CASE ReadForStep(op, o)
      <4>1. Take(op, o, "status")
        BY <1>4, <3>2 DEF ReadForStep
      <4> QED BY <2>1, <3>2, <4>1 DEF ReadForStep, Reading, At
    <3>3. CASE ReadForPublish(op, o)
      <4>1. Take(op, o, "site")
        BY <1>4, <3>3 DEF ReadForPublish
      <4> QED BY <2>1, <3>3, <4>1 DEF ReadForPublish, Reading, At
    <3>4. CASE ReadForRefund(op, o)
      <4>1. Take(op, o, "find") /\ orders[o].status = "Avbruten"
        BY <1>4, <3>4 DEF ReadForRefund
      <4> QED BY <2>1, <3>4, <4>1 DEF ReadForRefund, Reading, At
    <3> QED BY <3>1, <3>2, <3>3, <3>4
  <2>3. PICK r \in Request :
          /\ run'[op] = r /\ r.pc = pc /\ r.order = o /\ r.customer = orders[o].customer
          /\ r.action = p.action /\ r.issued = p.issued /\ r.succeeded = p.succeeded
    BY <2>1, <2>2, TakesFields
  <2>4. \A q \in Operator : q # op => run'[q] = run[q]
    BY <2>1, <2>2, TakesFields
  <2>5. InPlace(r)'
    BY <2>2, <2>3 DEF InPlace, Building, Handing, Steps
  <2>6. Built(r)'
    BY <2>2, <2>3 DEF Built, Building
  <2>7. Signed(r)'
    <3>1. r.issued = {}
      BY <2>1, <2>2, <2>3 DEF Founded, Signed
    <3>2. r.customer # None => customers'[r.customer] = o
      BY <1>1, <2>3 DEF RecordsInv, Books, LinkMeansCompleteJob, Tables
    <3> QED BY <2>2, <2>3, <3>1, <3>2 DEF Signed, Publishing, Handing, Steps
  <2>8. Refunding(r)'
    BY <1>1, <2>2, <2>3 DEF Refunding, RecordsInv, Books, StatusesRemembered, Tables
  <2>9. Announcing(r)'
    BY <2>1, <2>2, <2>3 DEF Founded, Announcing, Handing
  <2> QED BY <1>1, <2>3, <2>4, <2>5, <2>6, <2>7, <2>8, <2>9, Landed, Quiet DEF Founded
<1> QED BY <1>3, <1>4

LEMMA ReadFailsRecords ==
  ASSUME TypeInv, TypeInv', RecordsInv, NEW op \in Operator, ReadFails(op)
  PROVE  Grows /\ RecordsInv'
<1>1. PICK o : Fail(op, o)
  BY DEF ReadFails
<1>2. UNCHANGED <<Tables, mails>>
  BY DEF ReadFails, Tables
<1> QED BY <1>1, <1>2, FailRecords

\* The mail goes out, or is lost, once the step is written; so is the report.
LEMMA NotifyRecords ==
  ASSUME TypeInv, TypeInv', RecordsInv, NEW op \in Operator, Notify(op)
  PROVE  Grows /\ RecordsInv'
<1>1. UNCHANGED Tables
  BY DEF Notify, Tables
<1>2. Grows /\ Books'
  BY <1>1, TablesStay DEF RecordsInv
<1>3. PICK p \in Request : /\ p = run[op] /\ Founded(p)'
                           /\ p.pc \in Working => p.order \in OrderId
  BY <1>2, Before
<1>4. p.pc = "mail" /\ Succeed(op, p.order) /\ p.order \in OrderId
  BY <1>3 DEF Notify, At, Working, Points
<1>5. Written(p.order, p.action)'
  BY <1>3, <1>4 DEF Founded, Announcing
<1>6. ASSUME NEW o \in OrderId, NEW action \in ActionNames, mails'[o][action] > 0
      PROVE  mails[o][action] > 0 \/ Written(o, action)'
  <2>1. mails \in [OrderId -> [ActionNames -> Nat]]
    BY DEF TypeInv, TypeOK
  <2>2. \/ mails' = mails
        \/ mails' = [mails EXCEPT ![p.order][p.action] = @ + 1]
    BY <1>3 DEF Notify
  <2>3. CASE o = p.order /\ action = p.action
    BY <1>5, <2>3
  <2>4. CASE ~(o = p.order /\ action = p.action)
    BY <1>6, <2>1, <2>2, <2>4
  <2> QED BY <2>3, <2>4
<1>7. /\ Founded(run[op])'
      /\ \A q \in Operator : q # op => run'[q] = run[q]
  BY <1>2, <1>3, <1>4, <1>5, LeavesFounded
<1> QED BY <1>2, <1>6, <1>7, Mover

\* site_for keeps a row of the customer's order, and only for an accepted one.
LEMMA ReadSiteRecords ==
  ASSUME TypeInv, TypeInv', RecordsInv, NEW op \in Operator, ReadSite(op)
  PROVE  Grows /\ RecordsInv'
<1>1. UNCHANGED <<Tables, mails>>
  BY DEF ReadSite, Tables
<1>2. CASE Fail(op, run[op].order)
  BY <1>1, <1>2, FailRecords
<1>3. CASE \E s, refs : /\ run[op].customer # None
                        /\ run' = [run EXCEPT ![op] =
                             [@ EXCEPT !.pc = "status", !.site = s, !.refs = refs]]
  <2>1. Grows
    BY <1>1, TablesStay DEF RecordsInv
  <2>2. PICK p \in Request : /\ p = run[op] /\ Founded(p)'
                             /\ p.pc \in Working => p.order \in OrderId
    BY <2>1, Before
  <2>3. p.pc = "site" /\ p.action = "publish_site" /\ p.issued = {} /\ p.customer # None
    BY <1>3, <2>2 DEF ReadSite, At, Founded, InPlace, Signed
  <2>4. PICK s, refs : run' = [run EXCEPT ![op] =
                         [@ EXCEPT !.pc = "status", !.site = s, !.refs = refs]]
    BY <1>3
  <2>5. PICK r \in Request : run'[op] = r
    BY DEF TypeInv, TypeOK
  <2>6. /\ r.pc = "status" /\ r.order = p.order /\ r.customer = p.customer
        /\ r.action = p.action /\ r.issued = p.issued /\ r.succeeded = p.succeeded
        /\ \A q \in Operator : q # op => run'[q] = run[q]
    BY <2>2, <2>4, <2>5, RunType DEF Request
  <2>7. InPlace(r)' /\ Built(r)' /\ Refunding(r)'
    BY <2>3, <2>6 DEF InPlace, Built, Refunding, Building, Handing
  <2>8. Signed(r)'
    BY <2>2, <2>3, <2>6 DEF Founded, Signed, Publishing, Handing
  <2>9. Announcing(r)'
    BY <2>2, <2>6 DEF Founded, Announcing, Handing
  <2> QED BY <1>1, <2>5, <2>6, <2>7, <2>8, <2>9, Landed, Quiet DEF Founded
<1> QED BY <1>2, <1>3 DEF ReadSite

\* Opening and closing the cell keeps what publish_one holds.
LEMMA CellRecords ==
  ASSUME TypeInv, TypeInv', RecordsInv, NEW op \in Operator, OpenCell(op) \/ CloseCell(op)
  PROVE  Grows /\ RecordsInv'
<1>1. UNCHANGED <<Tables, mails>>
  BY DEF OpenCell, CloseCell, Tables
<1>2. Grows
  BY <1>1, TablesStay DEF RecordsInv
<1>3. PICK p \in Request : /\ p = run[op] /\ Founded(p)'
                           /\ p.pc \in Working => p.order \in OrderId
  BY <1>2, Before
<1>4. PICK pc \in {"issue", "flags"} : Goto(op, pc) /\ p.pc \in {"sign", "issue"}
  BY <1>3 DEF OpenCell, CloseCell, At
<1>5. PICK r \in Request :
        /\ run'[op] = r /\ r.pc = pc
        /\ r.action = p.action /\ r.order = p.order /\ r.customer = p.customer
        /\ r.issued = p.issued /\ r.succeeded = p.succeeded
  BY <1>3, <1>4, GoesFields
<1>6. InPlace(r)' /\ Built(r)' /\ Refunding(r)'
  BY <1>3, <1>4, <1>5 DEF Founded, InPlace, Built, Refunding, Building, Handing
<1>7. Signed(r)'
  BY <1>3, <1>4, <1>5 DEF Founded, InPlace, Signed, Publishing, Handing
<1>8. Announcing(r)'
  BY <1>3, <1>4, <1>5 DEF Founded, Announcing, Handing
<1>9. \A q \in Operator : q # op => run'[q] = run[q]
  BY <1>3, <1>4, GoesFields
<1> QED BY <1>1, <1>5, <1>6, <1>7, <1>8, <1>9, Landed, Quiet DEF Founded

LEMMA FindDeliveryRecords ==
  ASSUME TypeInv, TypeInv', RecordsInv, NEW op \in Operator, FindDelivery(op)
  PROVE  Grows /\ RecordsInv'
<1>1. UNCHANGED <<Tables, mails>>
  BY DEF FindDelivery, Tables
<1>2. CASE Fail(op, run[op].order)
  BY <1>1, <1>2, FailRecords
<1>3. CASE \E d \in DeliveriesOf(run[op].order) :
        run' = [run EXCEPT ![op] = [@ EXCEPT !.pc = "refund", !.delivery = d]]
  <2>1. Grows
    BY <1>1, TablesStay DEF RecordsInv
  <2>2. PICK p \in Request : /\ p = run[op] /\ Founded(p)'
                             /\ p.pc \in Working => p.order \in OrderId
    BY <2>1, Before
  <2>3. p.pc = "find" /\ p.action = "record_refund" /\ p.issued = {}
    BY <2>2 DEF FindDelivery, At, Founded, InPlace, Signed
  <2>4. PICK d \in DeliveriesOf(p.order) :
          run' = [run EXCEPT ![op] = [@ EXCEPT !.pc = "refund", !.delivery = d]]
    BY <1>3, <2>2
  <2>5. PICK r \in Request : run'[op] = r
    BY DEF TypeInv, TypeOK
  <2>6. /\ r.pc = "refund" /\ r.order = p.order /\ r.delivery = d
        /\ r.action = p.action /\ r.issued = p.issued /\ r.succeeded = p.succeeded
        /\ \A q \in Operator : q # op => run'[q] = run[q]
    BY <2>2, <2>4, <2>5, RunType DEF Request
  <2>7. InPlace(r)' /\ Built(r)' /\ Signed(r)'
    BY <2>3, <2>6 DEF InPlace, Built, Signed, Building, Handing, Publishing
  <2>8. Refunding(r)'
    <3>1. "Avbruten" \in everHeld'[p.order]
      BY <2>2, <2>3 DEF Founded, Refunding
    <3>2. p.order \in OrderId
      BY <2>2, <2>3 DEF Working, Points
    <3>3. d \in DeliveriesOf(p.order)'
      BY <2>1, <3>2, DeliveriesGrow
    <3> QED BY <2>6, <3>1, <3>3 DEF Refunding
  <2>9. Announcing(r)'
    BY <2>2, <2>6 DEF Founded, Announcing, Handing
  <2> QED BY <1>1, <2>5, <2>6, <2>7, <2>8, <2>9, Landed, Quiet DEF Founded
<1>4. \/ Fail(op, run[op].order)
      \/ \E d \in DeliveriesOf(run[op].order) :
           run' = [run EXCEPT ![op] = [@ EXCEPT !.pc = "refund", !.delivery = d]]
  BY DEF FindDelivery, DeliveriesOf, SitesOf
<1> QED BY <1>2, <1>3, <1>4

LEMMA CrashRecords ==
  ASSUME TypeInv, RecordsInv, Crash
  PROVE  Grows /\ RecordsInv'
<1>1. UNCHANGED <<Tables, mails>>
  BY DEF Crash, Tables
<1>2. Grows /\ Books'
  BY <1>1, TablesStay DEF RecordsInv
<1>3. MailsWritten'
  BY <1>1, <1>2, WrittenStays DEF RecordsInv, MailsWritten
<1>4. ASSUME NEW op \in Operator PROVE Founded(run[op])'
  <2>1. run'[op] = Idle /\ Idle \in Request
    BY IdleType DEF Crash
  <2>2. Idle.pc = "idle" /\ Idle.issued = {} /\ Idle.succeeded = {}
    BY DEF Idle
  <2>3. Founded(Idle)'
    BY <2>1, <2>2, Resting
  <2> QED BY <2>1, <2>3, Landed
<1> QED BY <1>2, <1>3, <1>4 DEF RecordsInv

-----------------------------------------------------------------------------
(* accept_one's inserts: a row is written before anything points at it.    *)

LEMMA CreateCustomerRecords ==
  ASSUME TypeInv, TypeInv', RecordsInv, NEW op \in Operator, CreateCustomer(op)
  PROVE  Grows /\ RecordsInv'
<1>1. PICK p \in Request : p = run[op]
  BY RunType
<1>2. p.pc = "customer" /\ p.order \in OrderId /\ p.order # NoOrder
  BY <1>1, Columns DEF CreateCustomer, At, TypeInv, OrderTaken, Working, Points
<1>3. PICK c \in RowId :
        /\ customers[c] = NoOrder
        /\ \/ /\ customers' = [customers EXCEPT ![c] = p.order]
              /\ run' = [run EXCEPT ![op] = [@ EXCEPT !.pc = "insert_site", !.customer = c]]
           \/ /\ \/ customers' = [customers EXCEPT ![c] = p.order]
                 \/ customers' = customers
              /\ Fail(op, p.order)
  BY <1>1 DEF CreateCustomer, IsNext
<1>4. UNCHANGED <<orders, sites, deliveries, released, everHeld, mails>>
  BY DEF CreateCustomer
<1>5. customers \in [RowId -> OrderId \cup {NoOrder}]
  BY DEF TypeInv, TypeOK
<1>6. \A x \in RowId : customers[x] # NoOrder => customers'[x] = customers[x]
  BY <1>3, <1>5
<1>7. Grows
  BY <1>4, <1>6 DEF Grows
<1>8. Books'
  <2>1. StatusesRemembered'
    BY <1>4 DEF RecordsInv, Books, StatusesRemembered
  <2> QED BY <1>4, <1>7, <2>1, BooksGrow DEF RecordsInv
<1>9. /\ Founded(run[op])'
      /\ \A q \in Operator : q # op => run'[q] = run[q]
  <2>1. CASE Fail(op, p.order)
    BY <1>1, <1>7, <2>1, LeavesFounded
  <2>2. CASE /\ customers' = [customers EXCEPT ![c] = p.order]
             /\ run' = [run EXCEPT ![op] = [@ EXCEPT !.pc = "insert_site", !.customer = c]]
    <3>1. PICK r \in Request : run'[op] = r
      BY DEF TypeInv, TypeOK
    <3>2. /\ r.pc = "insert_site" /\ r.order = p.order /\ r.customer = c
          /\ r.action = p.action /\ r.issued = p.issued /\ r.succeeded = p.succeeded
          /\ \A q \in Operator : q # op => run'[q] = run[q]
      BY <1>1, <2>2, <3>1, RunType DEF Request
    <3>3. Founded(p)'
      BY <1>1, <1>7, Before
    <3>4. customers'[c] = p.order
      BY <1>5, <2>2
    <3>5. Founded(r)'
      BY <1>2, <3>2, <3>3, <3>4 DEF Founded, InPlace, Built, Signed, Refunding,
         Announcing, Building, Publishing, Handing
    <3> QED BY <3>1, <3>2, <3>5, Landed
  <2> QED BY <1>3, <2>1, <2>2
<1> QED BY <1>4, <1>7, <1>8, <1>9, Mover

LEMMA CreateSiteRecords ==
  ASSUME TypeInv, TypeInv', RecordsInv, NEW op \in Operator, CreateSite(op)
  PROVE  Grows /\ RecordsInv'
<1> DEFINE row == [NoSite EXCEPT !.order = run[op].order, !.customer = run[op].customer]
<1>1. PICK p \in Request : p = run[op]
  BY RunType
<1>2. p.pc = "insert_site" /\ p.order \in OrderId /\ p.order # NoOrder
  BY <1>1, Columns DEF CreateSite, At, TypeInv, OrderTaken, Working, Points
<1>3. PICK s \in RowId :
        /\ sites[s] = NoSite
        /\ \/ /\ sites' = [sites EXCEPT ![s] = row]
              /\ run' = [run EXCEPT ![op] = [@ EXCEPT !.pc = "insert_delivery", !.site = s]]
           \/ /\ \/ sites' = [sites EXCEPT ![s] = row]
                 \/ sites' = sites
              /\ Fail(op, p.order)
  BY <1>1 DEF CreateSite, IsNext
<1>4. UNCHANGED <<orders, customers, deliveries, released, everHeld, mails>>
  BY DEF CreateSite
<1>5. /\ row.order = p.order /\ row.customer = p.customer
      /\ NoSite.order = NoOrder /\ NoSite.published = NULL
  BY <1>1 DEF NoSite
<1> HIDE DEF row
<1>6. sites \in [RowId -> SiteRow]
  BY DEF TypeInv, TypeOK
<1>7. \A x \in RowId : sites'[x] = sites[x] \/ (x = s /\ sites[x] = NoSite)
  BY <1>3, <1>6
<1>8. Grows
  BY <1>4, <1>5, <1>7 DEF Grows
<1>9. Books'
  <2>1. StatusesRemembered'
    BY <1>4 DEF RecordsInv, Books, StatusesRemembered
  <2> QED BY <1>4, <1>8, <2>1, BooksGrow DEF RecordsInv
<1>10. /\ Founded(run[op])'
       /\ \A q \in Operator : q # op => run'[q] = run[q]
  <2>1. CASE Fail(op, p.order)
    BY <1>1, <1>8, <2>1, LeavesFounded
  <2>2. CASE /\ sites' = [sites EXCEPT ![s] = row]
             /\ run' = [run EXCEPT ![op] = [@ EXCEPT !.pc = "insert_delivery", !.site = s]]
    <3>1. PICK r \in Request : run'[op] = r
      BY DEF TypeInv, TypeOK
    <3>2. /\ r.pc = "insert_delivery" /\ r.order = p.order /\ r.customer = p.customer
          /\ r.site = s /\ r.action = p.action /\ r.issued = p.issued
          /\ r.succeeded = p.succeeded
          /\ \A q \in Operator : q # op => run'[q] = run[q]
      BY <1>1, <2>2, <3>1, RunType DEF Request
    <3>3. Founded(p)'
      BY <1>1, <1>8, Before
    <3>4. sites'[s].order = p.order /\ sites'[s].customer = p.customer
      BY <1>5, <1>6, <2>2
    <3>5. Founded(r)'
      BY <1>2, <3>2, <3>3, <3>4 DEF Founded, InPlace, Built, Signed, Refunding,
         Announcing, Building, Publishing, Handing
    <3> QED BY <3>1, <3>2, <3>5, Landed
  <2> QED BY <1>3, <2>1, <2>2
<1> QED BY <1>4, <1>8, <1>9, <1>10, Mover

LEMMA CreateDeliveryRecords ==
  ASSUME TypeInv, TypeInv', RecordsInv, NEW op \in Operator, CreateDelivery(op)
  PROVE  Grows /\ RecordsInv'
<1> DEFINE row == [NoDelivery EXCEPT !.site = run[op].site, !.customer = run[op].customer]
<1>1. PICK p \in Request : p = run[op] /\ Founded(p)
  BY RunType DEF RecordsInv
<1>2. /\ p.pc = "insert_delivery" /\ p.order \in OrderId /\ p.order # NoOrder
      /\ p.site \in RowId /\ sites[p.site].order = p.order
  BY <1>1, Columns DEF CreateDelivery, At, TypeInv, OrderTaken, Working, Points,
                       Founded, Built
<1>3. PICK d \in RowId :
        /\ deliveries[d] = NoDelivery
        /\ \/ deliveries' = [deliveries EXCEPT ![d] = row] /\ Goto(op, "link")
           \/ /\ \/ deliveries' = [deliveries EXCEPT ![d] = row]
                 \/ deliveries' = deliveries
              /\ Fail(op, p.order)
  BY <1>1 DEF CreateDelivery, IsNext
<1>4. UNCHANGED <<orders, customers, sites, released, everHeld, mails>>
  BY DEF CreateDelivery
<1>5. /\ row.site = p.site /\ row.customer = p.customer /\ row.flags = {}
      /\ row.at["refunded"] = NULL
      /\ NoDelivery.site = None /\ \A m \in Moments : NoDelivery.at[m] = NULL
  BY <1>1 DEF NoDelivery, Moments
<1> HIDE DEF row
<1>6. deliveries \in [RowId -> DeliveryRow]
  BY DEF TypeInv, TypeOK
<1>7. \A x \in RowId : deliveries'[x] = deliveries[x]
                       \/ (deliveries[x] = NoDelivery /\ deliveries'[x] = row)
  BY <1>3, <1>6
<1>8. Grows
  BY <1>4, <1>5, <1>7 DEF Grows
<1>9. Books'
  <2>1. StatusesRemembered'
    BY <1>4 DEF RecordsInv, Books, StatusesRemembered
  <2>2. ASSUME NEW x \in RowId, deliveries[x].site = None, deliveries'[x].site # None
        PROVE  /\ sites'[deliveries'[x].site].order # NoOrder
               /\ deliveries'[x].flags = {} /\ deliveries'[x].at["refunded"] = NULL
    BY <1>2, <1>4, <1>5, <1>7, <2>2
  <2>3. ASSUME NEW o \in OrderId, NEW x \in DeliveriesOf(o)
        PROVE  deliveries'[x] = deliveries[x]
    BY <1>5, <1>7, Columns DEF DeliveriesOf, SitesOf
  <2> QED BY <1>4, <1>8, <2>1, <2>2, <2>3, BooksGrow DEF RecordsInv
<1>10. /\ Founded(run[op])'
       /\ \A q \in Operator : q # op => run'[q] = run[q]
  <2>1. CASE Fail(op, p.order)
    BY <1>1, <1>8, <2>1, LeavesFounded
  <2>2. CASE deliveries' = [deliveries EXCEPT ![d] = row] /\ Goto(op, "link")
    <3>1. PICK r \in Request :
            /\ run'[op] = r /\ r.pc = "link"
            /\ r.action = p.action /\ r.order = p.order /\ r.customer = p.customer
            /\ r.site = p.site /\ r.issued = p.issued /\ r.succeeded = p.succeeded
      BY <1>1, <2>2, GoesFields
    <3>2. \A q \in Operator : q # op => run'[q] = run[q]
      BY <1>1, <2>2, GoesFields
    <3>3. Founded(p)'
      BY <1>1, <1>8, Before
    <3>4. deliveries'[d].site = r.site /\ deliveries'[d].customer = r.customer
      BY <1>5, <1>6, <2>2, <3>1
    <3>5. Founded(r)'
      BY <1>2, <3>1, <3>3, <3>4 DEF Founded, InPlace, Built, Signed, Refunding,
         Announcing, Building, Publishing, Handing
    <3> QED BY <3>1, <3>2, <3>5, Landed
  <2> QED BY <1>3, <2>1, <2>2
<1> QED BY <1>4, <1>8, <1>9, <1>10, Mover

\* The link comes last: the order shows a customer only once the job is whole.
LEMMA LinkOrderRecords ==
  ASSUME TypeInv, TypeInv', RecordsInv, NEW op \in Operator, LinkOrder(op)
  PROVE  Grows /\ RecordsInv'
<1>1. PICK p \in Request : p = run[op] /\ Founded(p)
  BY RunType DEF RecordsInv
<1>2. /\ p.pc = "link" /\ p.order \in OrderId /\ p.action = "accept_order"
      /\ p.customer \in RowId /\ p.customer # None
  BY <1>1, Columns DEF LinkOrder, At, TypeInv, OrderTaken, Working, Points,
                       Founded, Built, InPlace, Building
<1>3. \/ orders' = [orders EXCEPT ![p.order].customer = p.customer] /\ Succeed(op, p.order)
      \/ /\ \/ orders' = [orders EXCEPT ![p.order].customer = p.customer]
            \/ orders' = orders
         /\ Fail(op, p.order)
  BY <1>1 DEF LinkOrder
<1>4. UNCHANGED <<customers, sites, deliveries, released, everHeld, mails>>
  BY DEF LinkOrder
<1>5. orders \in [OrderId -> [status : Statuses, customer : RowId \cup {None}]]
  BY DEF TypeInv, TypeOK
<1>6. \A o \in OrderId :
        /\ orders'[o].status = orders[o].status
        /\ \/ orders'[o].customer = orders[o].customer
           \/ o = p.order /\ orders'[o].customer = p.customer
  BY <1>3, <1>5
<1>7. Grows
  BY <1>2, <1>4, <1>6 DEF Grows
<1>8. ASSUME NEW o \in OrderId, o = p.order, orders'[o].customer = p.customer
      PROVE  Linked(o)'
  <2>1. /\ customers'[p.customer] = o /\ p.site \in SitesOf(o)'
        /\ sites'[p.site].customer = p.customer
        /\ \E d \in RowId : deliveries'[d].site = p.site /\ deliveries'[d].customer = p.customer
    BY <1>1, <1>2, <1>4, <1>8 DEF Founded, Built, Building, SitesOf
  <2> QED BY <1>8, <2>1 DEF Linked
<1>9. Books'
  <2>1. StatusesRemembered'
    BY <1>4, <1>6 DEF RecordsInv, Books, StatusesRemembered
  <2> QED BY <1>4, <1>6, <1>7, <1>8, <2>1, BooksGrow DEF RecordsInv
<1>10. /\ Founded(run[op])'
       /\ \A q \in Operator : q # op => run'[q] = run[q]
  <2>1. CASE Fail(op, p.order)
    BY <1>1, <1>7, <2>1, LeavesFounded
  <2>2. CASE orders' = [orders EXCEPT ![p.order].customer = p.customer] /\ Succeed(op, p.order)
    <3>1. orders'[p.order].customer # None
      BY <1>2, <1>5, <2>2
    <3>2. Written(p.order, p.action)'
      BY <1>2, <3>1 DEF Written, Steps
    <3> QED BY <1>1, <1>7, <2>2, <3>2, LeavesFounded
  <2> QED BY <1>3, <2>1, <2>2
<1> QED BY <1>4, <1>7, <1>9, <1>10, Mover

-----------------------------------------------------------------------------
(* The UPDATEs of a step                                                   *)

\* A status is written over whatever is there, and stays in the history.
LEMMA StatusWrite ==
  ASSUME TypeInv, TypeInv', RecordsInv, NEW o \in OrderId, NEW to,
         \/ /\ orders' = [orders EXCEPT ![o].status = to]
            /\ everHeld' = [everHeld EXCEPT ![o] = @ \cup {to}]
         \/ UNCHANGED <<orders, everHeld>>,
         UNCHANGED <<customers, sites, deliveries, released>>
  PROVE  Grows /\ Books'
<1>1. /\ orders \in [OrderId -> [status : Statuses, customer : RowId \cup {None}]]
      /\ everHeld \in [OrderId -> SUBSET Statuses]
  BY DEF TypeInv, TypeOK
<1>2. \A x \in OrderId : /\ everHeld[x] \subseteq everHeld'[x]
                         /\ orders'[x].customer = orders[x].customer
  BY <1>1
<1>3. StatusesRemembered'
  <2> SUFFICES ASSUME NEW x \in OrderId PROVE orders'[x].status \in everHeld'[x]
    BY DEF StatusesRemembered
  <2>1. orders[x].status \in everHeld[x]
    BY DEF RecordsInv, Books, StatusesRemembered
  <2> QED BY <1>1, <2>1
<1>4. Grows
  BY <1>2 DEF Grows
<1> QED BY <1>2, <1>3, <1>4, BooksGrow DEF RecordsInv

LEMMA WriteStatusRecords ==
  ASSUME TypeInv, TypeInv', RecordsInv, NEW op \in Operator,
         AdvanceStatus(op) \/ PublishStatus(op)
  PROVE  Grows /\ RecordsInv'
<1>1. PICK p \in Request : p = run[op] /\ Founded(p)
  BY RunType DEF RecordsInv
<1>2. p.pc = "status" /\ p.order \in OrderId /\ p.issued = {}
  BY <1>1 DEF AdvanceStatus, PublishStatus, At, TypeInv, OrderTaken, Working, Points,
              Founded, Signed
<1>3. PICK to \in Statuses, pc \in {"mail", "stamp", "published"} :
        /\ WriteStatus(op, to, pc)
        /\ \/ p.action \in Steps /\ to = Step(p.action).to /\ pc # "published"
           \/ p.action = "publish_site" /\ to = "Publicerad" /\ pc = "published"
  <2>1. CASE AdvanceStatus(op)
    <3>1. /\ p.action \in Steps
          /\ \/ WriteStatus(op, Step(p.action).to, "mail")
             \/ WriteStatus(op, Step(p.action).to, "stamp")
      BY <1>1, <2>1 DEF AdvanceStatus
    <3>2. Step(p.action).to \in Statuses
      BY DEF Step, Statuses, ProposalStep, AcceptanceStep, CancelStep
    <3> QED BY <3>1, <3>2
  <2>2. CASE PublishStatus(op)
    <3>1. p.action = "publish_site" /\ WriteStatus(op, "Publicerad", "published")
      BY <1>1, <2>2 DEF PublishStatus
    <3> QED BY <3>1 DEF Statuses
  <2> QED BY <2>1, <2>2
<1>4. \/ /\ orders' = [orders EXCEPT ![p.order].status = to]
         /\ everHeld' = [everHeld EXCEPT ![p.order] = @ \cup {to}]
      \/ UNCHANGED <<orders, everHeld>> /\ Fail(op, p.order)
  BY <1>1, <1>3 DEF WriteStatus
<1>5. UNCHANGED <<customers, sites, deliveries, released, mails>>
  BY <1>3 DEF WriteStatus
<1>6. Grows /\ Books'
  BY <1>2, <1>4, <1>5, StatusWrite
<1>7. /\ Founded(run[op])'
      /\ \A q \in Operator : q # op => run'[q] = run[q]
  <2>1. CASE Fail(op, p.order)
    BY <1>1, <1>6, <2>1, LeavesFounded
  <2>2. CASE /\ Goto(op, pc)
             /\ everHeld' = [everHeld EXCEPT ![p.order] = @ \cup {to}]
    <3>1. PICK r \in Request :
            /\ run'[op] = r /\ r.pc = pc
            /\ r.action = p.action /\ r.order = p.order /\ r.customer = p.customer
            /\ r.issued = p.issued /\ r.succeeded = p.succeeded
      BY <1>1, <2>2, GoesFields
    <3>2. \A q \in Operator : q # op => run'[q] = run[q]
      BY <1>1, <2>2, GoesFields
    <3>3. Founded(p)'
      BY <1>1, <1>6, Before
    <3>4. to \in everHeld'[p.order]
      BY <1>2, <2>2 DEF TypeInv, TypeOK
    <3>5. Written(p.order, p.action)'
      BY <1>3, <3>4 DEF Written, Steps
    <3>6. InPlace(r)' /\ Built(r)' /\ Refunding(r)'
      BY <1>3, <3>1 DEF InPlace, Built, Refunding, Building, Handing, Steps
    <3>7. Signed(r)'
      BY <1>2, <1>3, <3>1, <3>3 DEF Founded, Signed, Publishing, Handing, Steps
    <3>8. Announcing(r)'
      BY <3>1, <3>3, <3>5 DEF Founded, Announcing
    <3> QED BY <3>1, <3>2, <3>6, <3>7, <3>8, Landed DEF Founded
  <2> QED BY <1>1, <1>3, <2>1, <2>2 DEF WriteStatus
<1> QED BY <1>5, <1>6, <1>7, Mover

\* A stamp writes one empty column of rows that are there.
LEMMA StampDeliveryRecords ==
  ASSUME TypeInv, TypeInv', RecordsInv, NEW op \in Operator, StampDelivery(op)
  PROVE  Grows /\ RecordsInv'
<1>1. PICK p \in Request : p = run[op] /\ Founded(p)
  BY RunType DEF RecordsInv
<1>2. p.pc = "stamp" /\ p.action \in Steps /\ Goto(op, "mail")
  BY <1>1 DEF StampDelivery, At, Founded, InPlace
<1>3. PICK m : m = Step(p.action).stamp
  OBVIOUS
<1>4. m # "refunded"
  BY <1>3 DEF Step, ProposalStep, AcceptanceStep, CancelStep
<1>5. UNCHANGED <<orders, customers, sites, released, everHeld, mails>>
  BY DEF StampDelivery
<1>6. ASSUME NEW d \in RowId
      PROVE  /\ deliveries'[d].site = deliveries[d].site
             /\ deliveries'[d].customer = deliveries[d].customer
             /\ deliveries'[d].flags = deliveries[d].flags
             /\ \A n \in Moments : deliveries[d].at[n] # NULL \/ n = "refunded" =>
                  deliveries'[d].at[n] = deliveries[d].at[n]
  <2>1. \/ deliveries'[d] = deliveries[d]
        \/ deliveries'[d] = Stamped(d, m) /\ deliveries[d].at[m] = NULL
    BY <1>1, <1>3 DEF StampDelivery
  <2>2. deliveries[d] \in DeliveryRow
    BY DEF TypeInv, TypeOK
  <2>3. /\ Stamped(d, m).site = deliveries[d].site
        /\ Stamped(d, m).customer = deliveries[d].customer
        /\ Stamped(d, m).flags = deliveries[d].flags
        /\ \A n \in Moments : n # m => Stamped(d, m).at[n] = deliveries[d].at[n]
    BY <2>2 DEF Stamped, DeliveryRow
  <2> QED BY <1>4, <2>1, <2>3
<1>7. Grows
  BY <1>5, <1>6 DEF Grows
<1>8. Books'
  <2>1. StatusesRemembered'
    BY <1>5 DEF RecordsInv, Books, StatusesRemembered
  <2>2. ASSUME NEW o \in OrderId, NEW d \in DeliveriesOf(o)
        PROVE  /\ deliveries'[d].at["refunded"] = deliveries[d].at["refunded"]
               /\ deliveries'[d].flags = deliveries[d].flags
    BY <1>6 DEF DeliveriesOf, Moments
  <2> QED BY <1>5, <1>6, <1>7, <2>1, <2>2, BooksGrow DEF RecordsInv
<1>9. PICK r \in Request :
        /\ run'[op] = r /\ r.pc = "mail" /\ r.action = p.action /\ r.order = p.order
        /\ r.issued = p.issued /\ r.succeeded = p.succeeded
  BY <1>1, <1>2, GoesFields
<1>10. \A q \in Operator : q # op => run'[q] = run[q]
  BY <1>1, <1>2, GoesFields
<1>11. Founded(r)'
  <2>1. Founded(p)'
    BY <1>1, <1>7, Before
  <2> QED BY <1>2, <1>9, <2>1 DEF Founded, InPlace, Built, Signed, Refunding,
       Announcing, Building, Publishing, Handing, Steps
<1> QED BY <1>5, <1>7, <1>8, <1>9, <1>10, <1>11, Landed, Mover

LEMMA StampPublishedRecords ==
  ASSUME TypeInv, TypeInv', RecordsInv, NEW op \in Operator, StampPublished(op)
  PROVE  Grows /\ RecordsInv'
<1>1. PICK p \in Request : p = run[op] /\ Founded(p)
  BY RunType DEF RecordsInv
<1>2. p.pc = "published" /\ Goto(op, "sign")
  BY <1>1 DEF StampPublished, At
<1>3. UNCHANGED <<orders, customers, deliveries, released, everHeld, mails>>
  BY DEF StampPublished
<1>4. ASSUME NEW s \in RowId
      PROVE  /\ sites'[s].order = sites[s].order /\ sites'[s].customer = sites[s].customer
             /\ sites[s].published # NULL => sites'[s].published = sites[s].published
  <2>1. sites \in [RowId -> SiteRow]
    BY DEF TypeInv, TypeOK
  <2>2. \/ sites' = sites
        \/ /\ sites[p.site].published = NULL
           /\ sites' = [sites EXCEPT ![p.site].published = clock + 1]
    BY <1>1 DEF StampPublished
  <2> QED BY <2>1, <2>2 DEF SiteRow
<1>5. Grows
  BY <1>3, <1>4 DEF Grows
<1>6. Books'
  <2>1. StatusesRemembered'
    BY <1>3 DEF RecordsInv, Books, StatusesRemembered
  <2> QED BY <1>3, <1>4, <1>5, <2>1, BooksGrow DEF RecordsInv
<1>7. PICK r \in Request :
        /\ run'[op] = r /\ r.pc = "sign" /\ r.action = p.action /\ r.order = p.order
        /\ r.customer = p.customer /\ r.issued = p.issued /\ r.succeeded = p.succeeded
  BY <1>1, <1>2, GoesFields
<1>8. \A q \in Operator : q # op => run'[q] = run[q]
  BY <1>1, <1>2, GoesFields
<1>9. Founded(r)'
  <2>1. Founded(p)'
    BY <1>1, <1>5, Before
  <2> QED BY <1>2, <1>7, <2>1 DEF Founded, InPlace, Built, Signed, Refunding,
       Announcing, Building, Publishing, Handing
<1> QED BY <1>3, <1>5, <1>6, <1>7, <1>8, <1>9, Landed, Mover

\* A claim names the customer of an order that was written Publicerad first.
LEMMA IssueClaimRecords ==
  ASSUME TypeInv, TypeInv', RecordsInv, NEW op \in Operator, IssueClaim(op)
  PROVE  Grows /\ RecordsInv'
<1>1. PICK p \in Request : p = run[op] /\ Founded(p)
  BY RunType DEF RecordsInv
<1>2. /\ p.pc = "issue" /\ p.action = "publish_site" /\ p.order \in OrderId
      /\ p.customer \in RowId /\ customers[p.customer] = p.order
      /\ "Publicerad" \in everHeld[p.order]
  <2>1. p.pc = "issue" /\ p.action = "publish_site"
    BY <1>1 DEF IssueClaim, At, Founded, InPlace, Handing
  <2>2. p.order \in OrderId
    BY <1>1, <2>1 DEF TypeInv, OrderTaken, Working, Points
  <2>3. p.customer # None /\ p.customer \in RowId \cup {None}
    BY <1>1, <2>1 DEF Founded, Signed, Publishing, Handing, Request
  <2>4. customers[p.customer] = p.order
    BY <1>1, <2>1, <2>3 DEF Founded, Signed, Publishing, Handing
  <2>5. Written(p.order, p.action)
    BY <1>1, <2>1 DEF Founded, Announcing, Handing
  <2>6. "Publicerad" \in everHeld[p.order]
    BY <2>1, <2>5 DEF Written, Steps
  <2> QED BY <2>1, <2>2, <2>3, <2>4, <2>6
<1>3. PICK a \in Assets :
        \/ /\ released' = [released EXCEPT ![p.customer][a] = @ + 1]
           /\ run' = [run EXCEPT ![op].issued = @ \cup {a}]
        \/ /\ \/ released' = [released EXCEPT ![p.customer][a] = @ + 1]
              \/ released' = released
           /\ run' = [run EXCEPT ![op] = [@ EXCEPT !.pc = "flags", !.issued = {}]]
  BY <1>1 DEF IssueClaim, ToSign
<1>4. UNCHANGED <<orders, customers, sites, deliveries, everHeld, mails>>
  BY DEF IssueClaim
<1>5. released \in [RowId -> [Assets -> Nat]]
  BY DEF TypeInv, TypeOK
<1>6. ASSUME NEW c \in RowId, NEW b \in Assets
      PROVE  /\ released[c][b] > 0 => released'[c][b] > 0
             /\ released'[c][b] > 0 => released[c][b] > 0 \/ c = p.customer
  <2>1. \/ released'[c][b] = released[c][b]
        \/ c = p.customer /\ released'[c][b] = released[c][b] + 1
    BY <1>3, <1>5
  <2>2. released[c][b] \in Nat
    BY <1>5
  <2> QED BY <2>1, <2>2
<1>7. Grows
  BY <1>4, <1>6 DEF Grows
<1>8. Books'
  <2>1. StatusesRemembered'
    BY <1>4 DEF RecordsInv, Books, StatusesRemembered
  <2>2. ASSUME NEW c \in RowId, NEW b \in Assets, released'[c][b] > 0
        PROVE  \/ released[c][b] > 0
               \/ customers'[c] \in OrderId /\ "Publicerad" \in everHeld'[customers'[c]]
    BY <1>2, <1>4, <1>6, <2>2
  <2> QED BY <1>4, <1>7, <2>1, <2>2, BooksGrow DEF RecordsInv
<1>9. PICK r \in Request : run'[op] = r
  BY DEF TypeInv, TypeOK
<1>10. /\ \/ r.pc = "issue" /\ r.issued = p.issued \cup {a} /\ released'[p.customer][a] > 0
          \/ r.pc = "flags" /\ r.issued = {}
       /\ r.order = p.order /\ r.customer = p.customer /\ r.action = p.action
       /\ r.succeeded = p.succeeded
       /\ \A q \in Operator : q # op => run'[q] = run[q]
  <2>1. CASE /\ released' = [released EXCEPT ![p.customer][a] = @ + 1]
             /\ run' = [run EXCEPT ![op].issued = @ \cup {a}]
    <3>1. released'[p.customer][a] = released[p.customer][a] + 1
      BY <1>2, <1>5, <2>1
    <3>2. released'[p.customer][a] > 0
      BY <1>2, <1>5, <3>1
    <3>3. r = [p EXCEPT !.issued = @ \cup {a}]
      BY <1>1, <1>9, <2>1, RunType
    <3> QED BY <1>2, <2>1, <3>2, <3>3, RunType DEF Request
  <2>2. CASE run' = [run EXCEPT ![op] = [@ EXCEPT !.pc = "flags", !.issued = {}]]
    <3>1. r = [p EXCEPT !.pc = "flags", !.issued = {}]
      BY <1>1, <1>9, <2>2, RunType
    <3> QED BY <2>2, <3>1, RunType DEF Request
  <2> QED BY <1>3, <2>1, <2>2
<1>11. Founded(r)'
  <2>1. Founded(p)'
    BY <1>1, <1>7, Before
  <2>2. InPlace(r)' /\ Built(r)' /\ Refunding(r)'
    BY <1>2, <1>10 DEF InPlace, Built, Refunding, Building, Handing
  <2>3. Signed(r)'
    <3>1. customers'[r.customer] = r.order /\ r.customer # None
      BY <1>2, <1>4, <1>10, Columns
    <3>2. \A b \in r.issued : released'[r.customer][b] > 0
      BY <1>2, <1>10, <2>1 DEF Founded, Signed
    <3> QED BY <1>10, <3>1, <3>2 DEF Signed, Publishing, Handing
  <2>4. Announcing(r)'
    BY <1>2, <1>10, <2>1 DEF Founded, Announcing, Handing
  <2> QED BY <2>2, <2>3, <2>4 DEF Founded
<1> QED BY <1>4, <1>7, <1>8, <1>9, <1>10, <1>11, Landed, Mover

\* The flags follow the claims the request has in hand.
LEMMA RecordFlagsRecords ==
  ASSUME TypeInv, TypeInv', RecordsInv, NEW op \in Operator, RecordFlags(op)
  PROVE  Grows /\ RecordsInv'
<1>1. PICK p \in Request : p = run[op] /\ Founded(p)
  BY RunType DEF RecordsInv
<1>2. /\ p.pc = "flags" /\ Goto(op, "mail") /\ p.action = "publish_site"
      /\ p.order \in OrderId
  BY <1>1 DEF RecordFlags, At, Founded, InPlace, Handing, TypeInv, OrderTaken,
              Working, Points
<1>3. UNCHANGED <<orders, customers, sites, released, everHeld, mails>>
  BY DEF RecordFlags
<1>4. ASSUME NEW d \in RowId
      PROVE  /\ deliveries'[d].site = deliveries[d].site
             /\ deliveries'[d].customer = deliveries[d].customer
             /\ deliveries'[d].at = deliveries[d].at
             /\ \A a \in deliveries'[d].flags :
                  a \in deliveries[d].flags \/ (a \in p.issued /\ d \in DeliveriesOf(p.order))
  <2>1. \/ deliveries'[d] = deliveries[d]
        \/ /\ d \in DeliveriesOf(p.order)
           /\ deliveries'[d] = [deliveries[d] EXCEPT !.flags = @ \cup p.issued]
    BY <1>1 DEF RecordFlags
  <2>2. deliveries[d] \in DeliveryRow
    BY DEF TypeInv, TypeOK
  <2> QED BY <2>1, <2>2 DEF DeliveryRow
<1>5. Grows
  BY <1>3, <1>4 DEF Grows
<1>6. ASSUME NEW o \in OrderId, NEW d \in DeliveriesOf(o), NEW a \in deliveries'[d].flags,
             a \notin deliveries[d].flags
      PROVE  \E c \in RowId : customers'[c] = o /\ released'[c][a] > 0
  <2>1. a \in p.issued /\ o = p.order
    BY <1>4, <1>6 DEF DeliveriesOf, SitesOf
  <2>2. p.customer \in RowId /\ customers[p.customer] = p.order
    BY <1>1, <1>2 DEF Founded, Signed, Publishing, Handing, Request
  <2>3. released[p.customer][a] > 0
    BY <1>1, <1>2, <2>1 DEF Founded, Signed
  <2> QED BY <1>3, <2>1, <2>2, <2>3
<1>7. Books'
  <2>1. StatusesRemembered'
    BY <1>3 DEF RecordsInv, Books, StatusesRemembered
  <2>2. ASSUME NEW o \in OrderId, NEW d \in DeliveriesOf(o)
        PROVE  deliveries'[d].at["refunded"] = deliveries[d].at["refunded"]
    BY <1>4 DEF DeliveriesOf
  <2> QED BY <1>3, <1>4, <1>5, <1>6, <2>1, <2>2, BooksGrow DEF RecordsInv
<1>8. PICK r \in Request :
        /\ run'[op] = r /\ r.pc = "mail" /\ r.action = p.action /\ r.order = p.order
        /\ r.issued = p.issued /\ r.succeeded = p.succeeded
  BY <1>1, <1>2, GoesFields
<1>9. \A q \in Operator : q # op => run'[q] = run[q]
  BY <1>1, <1>2, GoesFields
<1>10. Founded(r)'
  <2>1. Founded(p)'
    BY <1>1, <1>5, Before
  <2> QED BY <1>2, <1>8, <2>1 DEF Founded, InPlace, Built, Signed, Refunding,
       Announcing, Building, Publishing, Handing
<1> QED BY <1>3, <1>5, <1>7, <1>8, <1>9, <1>10, Landed, Mover

\* A refund lands on a delivery of an order that was called off, and once there
\* it is there, whoever wrote it.
LEMMA WriteRefundRecords ==
  ASSUME TypeInv, TypeInv', RecordsInv, NEW op \in Operator, WriteRefund(op)
  PROVE  Grows /\ RecordsInv'
<1>1. PICK p \in Request : p = run[op] /\ Founded(p)
  BY RunType DEF RecordsInv
<1>2. /\ p.pc = "refund" /\ p.action = "record_refund" /\ p.order \in OrderId
      /\ p.delivery \in DeliveriesOf(p.order) /\ p.delivery \in RowId
      /\ "Avbruten" \in everHeld[p.order]
  BY <1>1 DEF WriteRefund, At, Founded, InPlace, Refunding, TypeInv, OrderTaken,
              Working, Points, DeliveriesOf
<1>3. UNCHANGED <<orders, customers, sites, released, everHeld, mails>>
  BY DEF WriteRefund
<1>4. Goto(op, "mail") \/ Fail(op, p.order)
  BY <1>1 DEF WriteRefund
<1>5. /\ deliveries[p.delivery] \in DeliveryRow /\ clock \in Nat
      /\ Stamped(p.delivery, "refunded").site = deliveries[p.delivery].site
      /\ Stamped(p.delivery, "refunded").customer = deliveries[p.delivery].customer
      /\ Stamped(p.delivery, "refunded").flags = deliveries[p.delivery].flags
      /\ Stamped(p.delivery, "refunded").at["refunded"] = clock + 1
      /\ \A n \in Moments : n # "refunded" =>
           Stamped(p.delivery, "refunded").at[n] = deliveries[p.delivery].at[n]
  <2>1. deliveries[p.delivery] \in DeliveryRow /\ clock \in Nat
    BY <1>2 DEF TypeInv, TypeOK
  <2> QED BY <2>1 DEF Stamped, DeliveryRow, Moments
<1>6. deliveries \in [RowId -> DeliveryRow]
  BY DEF TypeInv, TypeOK
<1>7. /\ \/ deliveries' = deliveries
         \/ /\ deliveries' = [deliveries EXCEPT ![p.delivery] = Stamped(p.delivery, "refunded")]
            /\ deliveries[p.delivery].at["refunded"] = NULL
      /\ Goto(op, "mail") /\ deliveries' = deliveries /\ ~Fail(op, p.order) =>
           deliveries[p.delivery].at["refunded"] # NULL
  <2>1. \/ /\ deliveries[p.delivery].at["refunded"] = NULL
           /\ deliveries' = [deliveries EXCEPT ![p.delivery] = Stamped(p.delivery, "refunded")]
        \/ deliveries[p.delivery].at["refunded"] # NULL /\ deliveries' = deliveries
        \/ Fail(op, p.order) /\ deliveries' = deliveries
    BY <1>1 DEF WriteRefund
  <2> QED BY <1>2, <1>5, <1>6, <2>1 DEF NULL
<1>8. ASSUME NEW d \in RowId
      PROVE  /\ deliveries'[d].site = deliveries[d].site
             /\ deliveries'[d].customer = deliveries[d].customer
             /\ deliveries'[d].flags = deliveries[d].flags
             /\ d # p.delivery => deliveries'[d] = deliveries[d]
             /\ \A n \in Moments : deliveries[d].at[n] # NULL =>
                  deliveries'[d].at[n] = deliveries[d].at[n]
  BY <1>5, <1>6, <1>7
<1>9. Grows
  BY <1>3, <1>8 DEF Grows
<1>10. Books'
  <2>1. StatusesRemembered'
    BY <1>3 DEF RecordsInv, Books, StatusesRemembered
  <2>2. ASSUME NEW o \in OrderId, NEW d \in DeliveriesOf(o),
               deliveries'[d].at["refunded"] # NULL
        PROVE  deliveries[d].at["refunded"] # NULL \/ "Avbruten" \in everHeld'[o]
    <3>1. d \in RowId /\ (d = p.delivery => o = p.order)
      BY <1>2 DEF DeliveriesOf, SitesOf
    <3> QED BY <1>2, <1>3, <1>8, <2>2, <3>1
  <2>3. ASSUME NEW o \in OrderId, NEW d \in DeliveriesOf(o)
        PROVE  deliveries'[d].flags = deliveries[d].flags
    BY <1>8 DEF DeliveriesOf
  <2> QED BY <1>3, <1>8, <1>9, <2>1, <2>2, <2>3, BooksGrow DEF RecordsInv
<1>11. /\ Founded(run[op])'
       /\ \A q \in Operator : q # op => run'[q] = run[q]
  <2>1. CASE Fail(op, p.order)
    BY <1>1, <1>9, <2>1, LeavesFounded
  <2>2. CASE Goto(op, "mail") /\ ~Fail(op, p.order)
    <3>1. PICK r \in Request :
            /\ run'[op] = r /\ r.pc = "mail" /\ r.action = p.action /\ r.order = p.order
            /\ r.issued = p.issued /\ r.succeeded = p.succeeded
      BY <1>1, <2>2, GoesFields
    <3>2. \A q \in Operator : q # op => run'[q] = run[q]
      BY <1>1, <2>2, GoesFields
    <3>3. Founded(p)'
      BY <1>1, <1>9, Before
    <3>4. deliveries'[p.delivery].at["refunded"] # NULL
      BY <1>2, <1>5, <1>6, <1>7, <2>2 DEF NULL
    <3>5. p.delivery \in DeliveriesOf(p.order)'
      BY <1>2, <1>9, DeliveriesGrow
    <3>6. Written(p.order, p.action)'
      BY <1>2, <3>4, <3>5 DEF Written, Steps
    <3>7. Announcing(r)'
      BY <3>1, <3>3, <3>6 DEF Founded, Announcing
    <3>8. InPlace(r)' /\ Built(r)' /\ Refunding(r)' /\ Signed(r)'
      BY <1>2, <3>1 DEF InPlace, Built, Refunding, Signed, Building, Publishing, Handing
    <3> QED BY <3>1, <3>2, <3>7, <3>8, Landed DEF Founded
  <2> QED BY <1>4, <2>1, <2>2
<1> QED BY <1>3, <1>9, <1>10, <1>11, Mover

-----------------------------------------------------------------------------
(* The panel's own forms                                                   *)

LEMMA PanelRecords ==
  ASSUME TypeInv, TypeInv', RecordsInv,
         \/ \E s \in RowId, refs \in SiteFillings : PanelFillSite(s, refs)
         \/ \E d \in RowId : PanelFillReason(d)
         \/ \E o \in OrderId, to \in PanelStatuses : PanelSetStatus(o, to)
  PROVE  Grows /\ RecordsInv'
<1>1. CASE \E s \in RowId, refs \in SiteFillings : PanelFillSite(s, refs)
  <2>1. UNCHANGED <<orders, customers, deliveries, released, everHeld, mails, run>>
    BY <1>1 DEF PanelFillSite
  <2>2. sites \in [RowId -> SiteRow]
    BY DEF TypeInv, TypeOK
  <2>3. \A s \in RowId : /\ sites'[s].order = sites[s].order
                         /\ sites'[s].customer = sites[s].customer
                         /\ sites'[s].published = sites[s].published
    <3>1. PICK s \in RowId, refs \in SiteFillings : PanelFillSite(s, refs)
      BY <1>1
    <3> DEFINE first == [sites EXCEPT ![s].live = TRUE]
    <3>3. first \in [RowId -> SiteRow] /\ sites' = [first EXCEPT ![s].refs = refs]
      BY <2>2, <3>1 DEF PanelFillSite, SiteRow
    <3>4. \A x \in RowId : /\ first[x].order = sites[x].order
                           /\ first[x].customer = sites[x].customer
                           /\ first[x].published = sites[x].published
      BY <2>2 DEF SiteRow
    <3> HIDE DEF first
    <3> QED BY <3>3, <3>4 DEF SiteRow
  <2>4. Grows
    BY <2>1, <2>3 DEF Grows
  <2>5. StatusesRemembered'
    BY <2>1 DEF RecordsInv, Books, StatusesRemembered
  <2>6. Books'
    BY <2>1, <2>3, <2>4, <2>5, BooksGrow DEF RecordsInv
  <2> QED BY <2>1, <2>4, <2>6, NobodyMoves
<1>2. CASE \E d \in RowId : PanelFillReason(d)
  <2>1. UNCHANGED <<orders, customers, sites, released, everHeld, mails, run>>
    BY <1>2 DEF PanelFillReason
  <2>2. deliveries \in [RowId -> DeliveryRow]
    BY DEF TypeInv, TypeOK
  <2>3. \A d \in RowId : /\ deliveries'[d].site = deliveries[d].site
                         /\ deliveries'[d].customer = deliveries[d].customer
                         /\ deliveries'[d].flags = deliveries[d].flags
                         /\ deliveries'[d].at = deliveries[d].at
    BY <1>2, <2>2 DEF PanelFillReason, DeliveryRow
  <2>4. Grows
    BY <2>1, <2>3 DEF Grows
  <2>5. StatusesRemembered'
    BY <2>1 DEF RecordsInv, Books, StatusesRemembered
  <2>6. ASSUME NEW o \in OrderId, NEW d \in DeliveriesOf(o)
        PROVE  deliveries'[d].at = deliveries[d].at /\ deliveries'[d].flags = deliveries[d].flags
    BY <2>3 DEF DeliveriesOf
  <2>7. Books'
    BY <2>1, <2>3, <2>4, <2>5, <2>6, BooksGrow DEF RecordsInv
  <2> QED BY <2>1, <2>4, <2>7, NobodyMoves
<1>3. CASE \E o \in OrderId, to \in PanelStatuses : PanelSetStatus(o, to)
  <2>1. PICK o \in OrderId, to \in PanelStatuses : PanelSetStatus(o, to)
    BY <1>3
  <2>2. Grows /\ Books'
    BY <2>1, StatusWrite DEF PanelSetStatus
  <2> QED BY <2>1, <2>2, NobodyMoves DEF PanelSetStatus
<1> QED BY <1>1, <1>2, <1>3

-----------------------------------------------------------------------------
(* RecordsInv is inductive.                                                *)

LEMMA RecordsInit == Init => RecordsInv
<1> SUFFICES ASSUME Init PROVE RecordsInv
  OBVIOUS
<1>1. None \notin RowId /\ NoOrder \notin OrderId
  BY BackOfficeAssumption DEF None, RowId
<1>2. /\ \A d \in RowId : deliveries[d].site = None
      /\ \A s \in RowId : sites[s].order = NoOrder
      /\ \A c \in RowId, a \in Assets : released[c][a] = 0
      /\ \A o \in OrderId : /\ orders[o].status = INITIAL /\ orders[o].customer = None
                            /\ everHeld[o] = {INITIAL}
      /\ \A o \in OrderId, action \in ActionNames : mails[o][action] = 0
  BY DEF Init, NoDelivery, NoSite
<1>3. \A o \in OrderId : DeliveriesOf(o) = {}
  BY <1>1, <1>2 DEF DeliveriesOf, SitesOf
<1>4. Books
  BY <1>2, <1>3 DEF Books, DeliveriesHaveSites, StatusesRemembered,
     LinkMeansCompleteJob, RefundFollowsCancel, FlagsFollowClaims, ClaimsFollowPublication
<1>5. MailsWritten
  BY <1>2 DEF MailsWritten
<1>6. ASSUME NEW op \in Operator PROVE Founded(run[op])
  <2>1. run[op].pc = "idle" /\ run[op].issued = {} /\ run[op].succeeded = {}
    BY DEF Init, Idle
  <2> QED BY <2>1 DEF Founded, InPlace, Built, Signed, Refunding, Announcing,
       Building, Publishing, Handing
<1> QED BY <1>4, <1>5, <1>6 DEF RecordsInv

LEMMA RecordsStep ==
  ASSUME TypeInv, RecordsInv, [Next]_vars
  PROVE  Grows /\ RecordsInv'
<1>0. TypeInv'
  BY StepType
<1>1. CASE UNCHANGED vars
  <2>1. UNCHANGED <<Tables, mails, run>>
    BY <1>1 DEF vars, Tables
  <2>2. Grows /\ Books'
    BY <2>1, TablesStay DEF RecordsInv
  <2> QED BY <2>1, <2>2, NobodyMoves
<1>2. CASE Environment
  <2>1. CASE \E op \in Operator, action \in Offered, chosen \in SUBSET OrderId :
               StartRun(op, action, chosen)
    BY <1>0, <2>1, FreshRecords, BackOfficeAssumption
  <2>2. CASE Crash
    BY <2>2, CrashRecords
  <2>3. CASE \E op \in Operator : Disconnect(op)
    BY <1>0, <2>3, FreshRecords
  <2>4. CASE \/ \E s \in RowId, refs \in SiteFillings : PanelFillSite(s, refs)
             \/ \E d \in RowId : PanelFillReason(d)
             \/ \E o \in OrderId, to \in PanelStatuses : PanelSetStatus(o, to)
    BY <1>0, <2>4, PanelRecords
  <2> QED BY <1>2, <2>1, <2>2, <2>3, <2>4 DEF Environment
<1>3. ASSUME NEW op \in Operator, Serve(op) PROVE Grows /\ RecordsInv'
  <2>1. CASE \E o \in OrderId : \/ ReadForAccept(op, o) \/ ReadForStep(op, o)
                                \/ ReadForPublish(op, o) \/ ReadForRefund(op, o)
    BY <1>0, <2>1, ReadsRecords
  <2>2. CASE ReadFails(op) \/ Finish(op)
    BY <1>0, <2>2, ReadFailsRecords, FreshRecords
  <2>3. CASE CreateCustomer(op) \/ CreateSite(op) \/ CreateDelivery(op) \/ LinkOrder(op)
    BY <1>0, <2>3, CreateCustomerRecords, CreateSiteRecords, CreateDeliveryRecords,
       LinkOrderRecords
  <2>4. CASE AdvanceStatus(op) \/ PublishStatus(op) \/ StampDelivery(op) \/ StampPublished(op)
    BY <1>0, <2>4, WriteStatusRecords, StampDeliveryRecords, StampPublishedRecords
  <2>5. CASE Notify(op) \/ ReadSite(op) \/ OpenCell(op) \/ CloseCell(op)
    BY <1>0, <2>5, NotifyRecords, ReadSiteRecords, CellRecords
  <2>6. CASE IssueClaim(op) \/ RecordFlags(op) \/ FindDelivery(op) \/ WriteRefund(op)
    BY <1>0, <2>6, IssueClaimRecords, RecordFlagsRecords, FindDeliveryRecords,
       WriteRefundRecords
  <2> QED BY <1>3, <2>1, <2>2, <2>3, <2>4, <2>5, <2>6 DEF Serve
<1> QED BY <1>1, <1>2, <1>3 DEF Next

LEMMA RecordsInvariant == Spec => []RecordsInv
<1>1. TypeInv /\ RecordsInv /\ [Next]_vars => RecordsInv'
  BY RecordsStep
<1> QED BY <1>1, RecordsInit, TypeInvariant, PTL DEF Spec

-----------------------------------------------------------------------------
\* An order that shows a customer has that customer's own row, site and
\* delivery: accept_one links last, and no failure, kill or second operator
\* between its four statements leaves a link to a job that is not all there.
THEOREM LinksAreComplete == Spec => []LinkMeansCompleteJob
<1>1. RecordsInv => LinkMeansCompleteJob
  BY DEF RecordsInv, Books
<1> QED BY <1>1, RecordsInvariant, PTL

\* A customer hears of nothing that is not in the database: every mail is
\* sent after the write it announces, by whatever request.
THEOREM MailsFollowWrites == Spec => []MailFollowsWrite
<1>1. RecordsInv => MailFollowsWrite
  <2> SUFFICES ASSUME RecordsInv PROVE MailFollowsWrite
    OBVIOUS
  <2>1. \A o \in OrderId, action \in ActionNames : mails[o][action] > 0 => Written(o, action)
    BY DEF RecordsInv, MailsWritten
  <2>2. ASSUME NEW o \in OrderId, NEW a \in Steps, mails[o][a] > 0
        PROVE  Step(a).to \in everHeld[o]
    BY <2>1, <2>2 DEF Written, Steps, ActionNames
  <2>3. ASSUME NEW o \in OrderId, mails[o]["publish_site"] > 0
        PROVE  "Publicerad" \in everHeld[o]
    BY <2>1, <2>3 DEF Written, Steps, ActionNames
  <2>4. ASSUME NEW o \in OrderId, mails[o]["record_refund"] > 0
        PROVE  \E d \in DeliveriesOf(o) : deliveries[d].at["refunded"] # NULL
    BY <2>1, <2>4 DEF Written, Steps, ActionNames
  <2> QED BY <2>2, <2>3, <2>4 DEF MailFollowsWrite
<1> QED BY <1>1, RecordsInvariant, PTL

\* What an operator is told succeeded is in the database, and stays there
\* while other operators go on working and the panel's forms are saved.
THEOREM ReportsStayTrue == Spec => []ReportsAreTrue
<1>1. RecordsInv => ReportsAreTrue
  BY DEF RecordsInv, Founded, Announcing, Written, ReportsAreTrue
<1> QED BY <1>1, RecordsInvariant, PTL

\* No delivery shows a refund for an order that was never called off.
THEOREM RefundsFollowCancels == Spec => []RefundFollowsCancel
<1>1. RecordsInv => RefundFollowsCancel
  BY DEF RecordsInv, Books
<1> QED BY <1>1, RecordsInvariant, PTL

\* A transfer flag is backed by a Released claim in the cell's log, naming a
\* customer made from the same order.
THEOREM FlagsAreBacked == Spec => []FlagsFollowClaims
<1>1. RecordsInv => FlagsFollowClaims
  BY DEF RecordsInv, Books
<1> QED BY <1>1, RecordsInvariant, PTL

\* Nothing is released to a customer whose order was not written Publicerad
\* before: the claims come after the status, whoever else is at work.
THEOREM ClaimsAreEarned == Spec => []ClaimsFollowPublication
<1>1. RecordsInv => ClaimsFollowPublication
  BY DEF RecordsInv, Books
<1> QED BY <1>1, RecordsInvariant, PTL

\* No stamp is ever rewritten: the first time a site was published, a draft
\* offered, a delivery accepted or a refund sent is the one that stays.
THEOREM StampsStay == Spec => StampsWriteOnce
<1>1. TypeInv /\ RecordsInv /\ [Next]_vars =>
        [/\ \A s \in RowId : sites[s].published # NULL =>
              sites'[s].published = sites[s].published
         /\ \A d \in RowId, m \in Moments : deliveries[d].at[m] # NULL =>
              deliveries'[d].at[m] = deliveries[d].at[m]]_vars
  BY RecordsStep DEF Grows
<1> QED BY <1>1, TypeInvariant, RecordsInvariant, PTL DEF Spec, StampsWriteOnce

-----------------------------------------------------------------------------
(* One operator: a refund is announced once.                               *)

Refunded(o) == {d \in DeliveriesOf(o) : deliveries[d].at["refunded"] # NULL}

\* A request is about to write a refund that is not there, or to announce one
\* more than has been announced.
RefundIsNew(op) ==
  /\ run[op].pc = "refund" => deliveries[run[op].delivery].at["refunded"] = NULL
  /\ run[op].pc = "mail" /\ run[op].action = "record_refund" =>
       mails[run[op].order]["record_refund"] < Cardinality(Refunded(run[op].order))

RefundsInv == RefundMailsMatchRefunds /\ \A op \in Operator : RefundIsNew(op)

LEMMA RefundedGrows ==
  ASSUME TypeInv, Grows, NEW o \in OrderId
  PROVE  /\ Refunded(o) \subseteq Refunded(o)'
         /\ IsFiniteSet(Refunded(o)) /\ IsFiniteSet(Refunded(o)')
         /\ Cardinality(Refunded(o)) \in Nat /\ Cardinality(Refunded(o)') \in Nat
         /\ Cardinality(Refunded(o)) <= Cardinality(Refunded(o)')
<1>1. ASSUME NEW d \in Refunded(o) PROVE d \in Refunded(o)'
  <2>1. d \in DeliveriesOf(o)'
    BY DeliveriesGrow DEF Refunded
  <2>2. d \in RowId /\ deliveries'[d].at["refunded"] # NULL
    BY DEF Refunded, DeliveriesOf, Grows, Moments
  <2> QED BY <2>1, <2>2 DEF Refunded
<1>2. IsFiniteSet(RowId)
  BY FS_Interval, BackOfficeAssumption DEF RowId
<1>3. Refunded(o) \subseteq RowId /\ Refunded(o)' \subseteq RowId
  BY DEF Refunded, DeliveriesOf
<1>4. IsFiniteSet(Refunded(o)) /\ IsFiniteSet(Refunded(o)')
  BY <1>2, <1>3, FS_Subset
<1>5. Cardinality(Refunded(o)) <= Cardinality(Refunded(o)')
  BY <1>1, <1>4, FS_Subset
<1> QED BY <1>1, <1>4, <1>5, FS_CardinalityType

\* No mail goes out in this step, and the one request keeps its promise.
LEMMA RefundsFrame ==
  ASSUME OneOperator, TypeInv, RefundsInv, Grows, UNCHANGED mails,
         NEW op \in Operator, RefundIsNew(op)'
  PROVE  RefundsInv'
<1>1. ASSUME NEW o \in OrderId
      PROVE  mails'[o]["record_refund"] <= Cardinality(Refunded(o)')
  <2>1. mails[o]["record_refund"] <= Cardinality(Refunded(o))
    BY DEF RefundsInv, RefundMailsMatchRefunds, Refunded
  <2>2. mails[o]["record_refund"] \in Nat
    BY DEF TypeInv, TypeOK, ActionNames
  <2> QED BY <2>1, <2>2, RefundedGrows
<1>2. \A q \in Operator : q = op
  BY DEF OneOperator
<1>3. RefundMailsMatchRefunds'
  BY <1>1 DEF RefundMailsMatchRefunds, Refunded
<1> QED BY <1>2, <1>3 DEF RefundsInv

\* Only refund_one comes to where a refund is written or announced.
LEMMA RefundsElsewhere ==
  ASSUME TypeInv, TypeInv', RecordsInv, NEW op \in Operator, Serve(op),
         ~FindDelivery(op), ~WriteRefund(op)
  PROVE  RefundIsNew(op)'
<1>1. PICK p \in Request : p = run[op] /\ InPlace(p)
  BY RunType DEF RecordsInv, Founded
<1> SUFFICES run'[op].pc \in {"refund", "mail"} => run'[op].action # "record_refund" /\ run'[op].pc = "mail"
  BY DEF RefundIsNew
<1>2. ASSUME NEW o, Fail(op, o) \/ Succeed(op, o) PROVE run'[op].pc = "next"
  BY <1>2, Leaves
<1>3. ASSUME NEW pc, Goto(op, pc) PROVE run'[op].pc = pc /\ run'[op].action = p.action
  BY <1>1, <1>3, GoesFields
<1>4. ASSUME NEW o \in OrderId,
             \/ ReadForAccept(op, o) \/ ReadForStep(op, o)
             \/ ReadForPublish(op, o) \/ ReadForRefund(op, o)
      PROVE  run'[op].pc \in {"next", "customer", "status", "site", "find"}
  <2>1. \/ Fail(op, o) \/ Take(op, o, "customer") \/ Take(op, o, "status")
        \/ Take(op, o, "site") \/ Take(op, o, "find")
    BY <1>4 DEF ReadForAccept, ReadForStep, ReadForPublish, ReadForRefund
  <2>2. ASSUME NEW pc, Take(op, o, pc) PROVE run'[op].pc = pc
    BY <1>1, <2>2, TakesFields
  <2> QED BY <1>2, <2>1, <2>2
<1>5. CASE ReadFails(op) \/ Finish(op) \/ Notify(op) \/ LinkOrder(op)
  <2>1. (\E o : Fail(op, o) \/ Succeed(op, o)) \/ run' = [run EXCEPT ![op] = Idle]
    BY <1>5 DEF ReadFails, Finish, Notify, LinkOrder
  <2> QED BY <1>2, <2>1, IdleType, RunType
<1>6. CASE CreateCustomer(op) \/ CreateSite(op) \/ ReadSite(op) \/ IssueClaim(op)
  <2>1. \/ \E o : Fail(op, o)
        \/ \E x : run' = [run EXCEPT ![op] = [@ EXCEPT !.pc = "insert_site", !.customer = x]]
        \/ \E x : run' = [run EXCEPT ![op] = [@ EXCEPT !.pc = "insert_delivery", !.site = x]]
        \/ \E x, y : run' = [run EXCEPT ![op] = [@ EXCEPT !.pc = "status", !.site = x, !.refs = y]]
        \/ \E x : p.pc = "issue" /\ run' = [run EXCEPT ![op].issued = @ \cup {x}]
        \/ run' = [run EXCEPT ![op] = [@ EXCEPT !.pc = "flags", !.issued = {}]]
    BY <1>1, <1>6 DEF CreateCustomer, CreateSite, ReadSite, IssueClaim, At
  <2>2. run'[op].pc \in {"next", "insert_site", "insert_delivery", "status", "issue", "flags"}
    BY ZenonT(40), <1>1, <1>2, <2>1, RunType DEF Request
  <2> QED BY <2>2
<1>7. CASE CreateDelivery(op) \/ AdvanceStatus(op) \/ PublishStatus(op) \/ StampDelivery(op)
           \/ StampPublished(op) \/ OpenCell(op) \/ CloseCell(op) \/ RecordFlags(op)
  <2>1. /\ p.action # "record_refund"
        /\ \/ \E o : Fail(op, o)
           \/ \E pc \in {"link", "mail", "stamp", "published", "sign", "issue", "flags"} :
                Goto(op, pc)
    <3>1. CASE CreateDelivery(op)
      BY <1>1, <3>1 DEF CreateDelivery, At, InPlace, Building
    <3>2. CASE AdvanceStatus(op)
      BY <1>1, <3>2 DEF AdvanceStatus, WriteStatus, At, InPlace, Steps
    <3>3. CASE PublishStatus(op)
      BY <1>1, <3>3 DEF PublishStatus, WriteStatus, At, InPlace
    <3>4. CASE StampDelivery(op)
      BY <1>1, <3>4 DEF StampDelivery, At, InPlace, Steps
    <3>5. CASE StampPublished(op) \/ OpenCell(op) \/ CloseCell(op) \/ RecordFlags(op)
      BY <1>1, <3>5 DEF StampPublished, OpenCell, CloseCell, RecordFlags, At, InPlace, Handing
    <3> QED BY <1>7, <3>1, <3>2, <3>3, <3>4, <3>5
  <2> QED BY <1>2, <1>3, <2>1
<1> QED BY <1>4, <1>5, <1>6, <1>7 DEF Serve

LEMMA RefundsFind ==
  ASSUME OneOperator, TypeInv, RecordsInv, RefundsInv, Grows,
         NEW op \in Operator, FindDelivery(op)
  PROVE  RefundsInv'
<1>1. UNCHANGED <<deliveries, mails>>
  BY DEF FindDelivery
<1>2. CASE Fail(op, run[op].order)
  <2>1. run'[op].pc = "next"
    BY <1>2, Leaves
  <2> QED BY <1>1, <2>1, RefundsFrame DEF RefundIsNew
<1>3. CASE \E d \in RowId : /\ Owing(d)
                            /\ run' = [run EXCEPT ![op] = [@ EXCEPT !.pc = "refund", !.delivery = d]]
  <2>1. PICK d \in RowId :
          /\ Owing(d)
          /\ run' = [run EXCEPT ![op] = [@ EXCEPT !.pc = "refund", !.delivery = d]]
    BY <1>3
  <2>2. run'[op].pc = "refund" /\ run'[op].delivery = d
    BY <2>1, RunType DEF Request
  <2>3. RefundIsNew(op)'
    BY <1>1, <2>1, <2>2 DEF RefundIsNew, Owing
  <2> QED BY <1>1, <2>3, RefundsFrame
<1>4. \/ Fail(op, run[op].order)
      \/ \E d \in RowId : /\ Owing(d)
                          /\ run' = [run EXCEPT ![op] = [@ EXCEPT !.pc = "refund", !.delivery = d]]
  BY DEF FindDelivery
<1> QED BY <1>2, <1>3, <1>4

LEMMA RefundsWrite ==
  ASSUME OneOperator, TypeInv, TypeInv', RecordsInv, RefundsInv, Grows,
         NEW op \in Operator, WriteRefund(op)
  PROVE  RefundsInv'
<1>1. PICK p \in Request : p = run[op] /\ Founded(p)
  BY RunType DEF RecordsInv
<1>2. /\ p.pc = "refund" /\ p.order \in OrderId
      /\ p.delivery \in DeliveriesOf(p.order) /\ p.delivery \in RowId
      /\ deliveries[p.delivery].at["refunded"] = NULL
  BY <1>1 DEF WriteRefund, At, Founded, Refunding, TypeInv, OrderTaken, Working, Points,
              DeliveriesOf, RefundsInv, RefundIsNew
<1>3. UNCHANGED mails
  BY DEF WriteRefund
<1>4. CASE Fail(op, p.order)
  <2>1. run'[op].pc = "next"
    BY <1>4, Leaves
  <2> QED BY <1>3, <2>1, RefundsFrame DEF RefundIsNew
<1>5. CASE /\ Goto(op, "mail")
           /\ deliveries' = [deliveries EXCEPT ![p.delivery] = Stamped(p.delivery, "refunded")]
  <2>1. run'[op].pc = "mail" /\ run'[op].order = p.order
    BY <1>1, <1>5, GoesFields
  <2>2. deliveries'[p.delivery].at["refunded"] = clock + 1 /\ clock \in Nat
    BY <1>2, <1>5 DEF TypeInv, TypeOK, Stamped, DeliveryRow, Moments
  <2>3. p.delivery \in Refunded(p.order)' /\ p.delivery \notin Refunded(p.order)
    <3>1. p.delivery \in DeliveriesOf(p.order)'
      BY <1>2, DeliveriesGrow
    <3> QED BY <1>2, <2>2, <3>1 DEF Refunded, NULL
  <2>4. /\ Refunded(p.order) \cup {p.delivery} \subseteq Refunded(p.order)'
        /\ IsFiniteSet(Refunded(p.order)) /\ IsFiniteSet(Refunded(p.order)')
        /\ Cardinality(Refunded(p.order)) \in Nat /\ Cardinality(Refunded(p.order)') \in Nat
    BY <1>2, <2>3, RefundedGrows
  <2>5. Cardinality(Refunded(p.order)) + 1 <= Cardinality(Refunded(p.order)')
    <3>1. /\ IsFiniteSet(Refunded(p.order) \cup {p.delivery})
          /\ Cardinality(Refunded(p.order) \cup {p.delivery}) = Cardinality(Refunded(p.order)) + 1
      BY <2>3, <2>4, FS_AddElement
    <3> QED BY <2>4, <3>1, FS_Subset
  <2>6. /\ mails[p.order]["record_refund"] <= Cardinality(Refunded(p.order))
        /\ mails[p.order]["record_refund"] \in Nat
    BY <1>2 DEF RefundsInv, RefundMailsMatchRefunds, Refunded, TypeInv, TypeOK, ActionNames
  <2>7. mails'[p.order]["record_refund"] < Cardinality(Refunded(p.order)')
    BY <1>3, <2>4, <2>5, <2>6
  <2>8. RefundIsNew(op)'
    BY <2>1, <2>7 DEF RefundIsNew, Refunded, DeliveriesOf, SitesOf
  <2> QED BY <1>3, <2>8, RefundsFrame
<1>6. \/ Fail(op, p.order)
      \/ /\ Goto(op, "mail")
         /\ deliveries' = [deliveries EXCEPT ![p.delivery] = Stamped(p.delivery, "refunded")]
  BY <1>1, <1>2 DEF WriteRefund
<1> QED BY <1>4, <1>5, <1>6

LEMMA RefundsNotify ==
  ASSUME OneOperator, TypeInv, TypeInv', RecordsInv, RefundsInv, Grows,
         NEW op \in Operator, Notify(op)
  PROVE  RefundsInv'
<1>1. PICK p \in Request : p = run[op]
  BY RunType
<1>2. p.pc = "mail" /\ p.order \in OrderId /\ Succeed(op, p.order) /\ UNCHANGED deliveries
  BY <1>1 DEF Notify, At, TypeInv, OrderTaken, Working, Points
<1>3. \/ UNCHANGED mails
      \/ mails' = [mails EXCEPT ![p.order][p.action] = @ + 1]
  BY <1>1 DEF Notify
<1>4. mails \in [OrderId -> [ActionNames -> Nat]]
  BY DEF TypeInv, TypeOK
<1>5. ASSUME NEW o \in OrderId
      PROVE  mails'[o]["record_refund"] <= Cardinality(Refunded(o)')
  <2>1. /\ mails[o]["record_refund"] \in Nat
        /\ mails[o]["record_refund"] <= Cardinality(Refunded(o))
    BY <1>4 DEF RefundsInv, RefundMailsMatchRefunds, Refunded, ActionNames
  <2>2. CASE mails'[o]["record_refund"] = mails[o]["record_refund"]
    BY <2>1, <2>2, RefundedGrows
  <2>3. CASE /\ o = p.order /\ p.action = "record_refund"
             /\ mails'[o]["record_refund"] = mails[o]["record_refund"] + 1
    <3>1. mails[o]["record_refund"] < Cardinality(Refunded(o))
      BY <1>1, <1>2, <2>3 DEF RefundsInv, RefundIsNew
    <3> QED BY <2>1, <2>3, <3>1, RefundedGrows
  <2>4. "record_refund" \in ActionNames
    BY DEF ActionNames
  <2> QED BY <1>3, <1>4, <2>2, <2>3, <2>4
<1>6. \A q \in Operator : q = op
  BY DEF OneOperator
<1>7. run'[op].pc = "next"
  BY <1>2, Leaves
<1>8. RefundMailsMatchRefunds'
  BY <1>5 DEF RefundMailsMatchRefunds, Refunded
<1> QED BY <1>6, <1>7, <1>8 DEF RefundsInv, RefundIsNew

LEMMA RefundsEnvironment ==
  ASSUME OneOperator, TypeInv, RecordsInv, RefundsInv, Grows, Environment
  PROVE  RefundsInv'
<1>1. UNCHANGED mails
  BY DEF Environment, StartRun, PanelFillSite, PanelFillReason, PanelSetStatus, Crash, Disconnect
<1>2. CASE \E op \in Operator : run'[op].pc \in {"idle", "next"}
  BY <1>1, <1>2, RefundsFrame DEF RefundIsNew
<1>3. CASE \E op \in Operator, action \in Offered, chosen \in SUBSET OrderId :
             StartRun(op, action, chosen)
  <2> PICK op \in Operator, action \in Offered, chosen \in SUBSET OrderId :
        StartRun(op, action, chosen)
    BY <1>3
  <2> DEFINE begun == [Idle EXCEPT !.pc = "next", !.action = action, !.todo = chosen]
  <2>1. run' = [run EXCEPT ![op] = begun] /\ begun.pc = "next"
    BY DEF StartRun, Idle
  <2> HIDE DEF begun
  <2>2. run'[op].pc = "next"
    BY <2>1, RunType
  <2> QED BY <1>2, <2>2
<1>4. CASE \E op \in Operator : Disconnect(op)
  <2> PICK op \in Operator : Disconnect(op)
    BY <1>4
  <2>1. run'[op].pc = "idle"
    BY IdleType, RunType DEF Disconnect
  <2> QED BY <1>2, <2>1
<1>5. CASE ~ \E op \in Operator : TRUE
  <2>1. \A o \in OrderId : mails'[o]["record_refund"] <= Cardinality(Refunded(o)')
    <3> SUFFICES ASSUME NEW o \in OrderId
                 PROVE  mails'[o]["record_refund"] <= Cardinality(Refunded(o)')
      OBVIOUS
    <3>1. /\ mails[o]["record_refund"] <= Cardinality(Refunded(o))
          /\ mails[o]["record_refund"] \in Nat
      BY DEF RefundsInv, RefundMailsMatchRefunds, Refunded, TypeInv, TypeOK, ActionNames
    <3> QED BY <1>1, <3>1, RefundedGrows
  <2>2. RefundMailsMatchRefunds'
    BY <2>1 DEF RefundMailsMatchRefunds, Refunded
  <2> QED BY <1>5, <2>2 DEF RefundsInv
<1>6. CASE Crash /\ \E op \in Operator : TRUE
  <2> PICK op \in Operator : TRUE
    BY <1>6
  <2>1. run'[op].pc = "idle"
    BY <1>6, IdleType DEF Crash
  <2> QED BY <1>2, <2>1
<1>7. CASE /\ \E op \in Operator : TRUE
           /\ \/ \E s \in RowId, refs \in SiteFillings : PanelFillSite(s, refs)
              \/ \E d \in RowId : PanelFillReason(d)
              \/ \E o \in OrderId, to \in PanelStatuses : PanelSetStatus(o, to)
  <2> PICK op \in Operator : TRUE
    BY <1>7
  <2>1. PICK p \in Request : p = run[op] /\ Founded(p) /\ (p.pc \in Working => p.order \in OrderId)
    BY RunType DEF RecordsInv, TypeInv, OrderTaken
  <2>2. UNCHANGED run
    BY <1>7 DEF PanelFillSite, PanelFillReason, PanelSetStatus
  <2>3. \A d \in RowId : deliveries'[d].at = deliveries[d].at
    <3>1. deliveries \in [RowId -> DeliveryRow]
      BY DEF TypeInv, TypeOK
    <3>2. \/ deliveries' = deliveries
          \/ \E d \in RowId : deliveries' = [deliveries EXCEPT ![d].reason = TRUE]
      BY <1>7 DEF PanelFillSite, PanelFillReason, PanelSetStatus
    <3> QED BY <3>1, <3>2 DEF DeliveryRow
  <2>4. RefundIsNew(op)
    BY DEF RefundsInv
  <2>5. CASE p.pc = "refund"
    <3>1. p.delivery \in RowId
      BY <2>1, <2>5 DEF Founded, Refunding, DeliveriesOf
    <3>2. RefundIsNew(op)'
      BY <2>1, <2>2, <2>3, <2>4, <2>5, <3>1 DEF RefundIsNew
    <3> QED BY <1>1, <3>2, RefundsFrame
  <2>6. CASE p.pc # "refund"
    <3>1. p.pc = "mail" => p.order \in OrderId /\ mails[p.order]["record_refund"] \in Nat
      BY <2>1 DEF Working, Points, TypeInv, TypeOK, ActionNames
    <3>2. ASSUME p.pc = "mail", p.action = "record_refund"
          PROVE  mails'[p.order]["record_refund"] < Cardinality(Refunded(p.order)')
      <4>1. mails[p.order]["record_refund"] < Cardinality(Refunded(p.order))
        BY <2>1, <2>4, <3>2 DEF RefundIsNew
      <4> QED BY <1>1, <3>1, <3>2, <4>1, RefundedGrows
    <3>3. run'[op] = p
      BY <2>1, <2>2
    <3>4. RefundIsNew(op)'
      BY <2>6, <3>2, <3>3 DEF RefundIsNew, Refunded, DeliveriesOf, SitesOf
    <3> QED BY <1>1, <3>4, RefundsFrame
  <2> QED BY <2>5, <2>6
<1> QED BY <1>3, <1>4, <1>5, <1>6, <1>7 DEF Environment

\* With one operator, a customer hears that money is on its way at most once
\* per refund in the database, whatever fails and however often the studio
\* presses the button again.  (Two operators can announce one refund twice.)
THEOREM RefundsAreAnnouncedOnce ==
  ASSUME OneOperator
  PROVE  Spec => []RefundMailsMatchRefunds
<1>1. Init => RefundsInv
  <2> SUFFICES ASSUME Init PROVE RefundsInv
    OBVIOUS
  <2>1. RefundMailsMatchRefunds
    <3> SUFFICES ASSUME NEW o \in OrderId
                 PROVE  mails[o]["record_refund"] <= Cardinality(Refunded(o))
      BY DEF RefundMailsMatchRefunds, Refunded
    <3>1. IsFiniteSet(RowId)
      BY FS_Interval, BackOfficeAssumption DEF RowId
    <3>2. IsFiniteSet(Refunded(o))
      BY <3>1, FS_Subset DEF Refunded, DeliveriesOf
    <3>3. Cardinality(Refunded(o)) \in Nat
      BY <3>2, FS_CardinalityType
    <3>4. mails[o]["record_refund"] = 0
      BY DEF Init, ActionNames
    <3> QED BY <3>3, <3>4
  <2>2. \A op \in Operator : run[op].pc = "idle"
    BY IdleType DEF Init
  <2> QED BY <2>1, <2>2 DEF RefundsInv, RefundIsNew
<1>2. TypeInv /\ RecordsInv /\ RefundsInv /\ [Next]_vars => RefundsInv'
  <2> SUFFICES ASSUME TypeInv, RecordsInv, RefundsInv, [Next]_vars PROVE RefundsInv'
    OBVIOUS
  <2>1. TypeInv' /\ Grows
    BY StepType, RecordsStep
  <2>2. CASE Environment
    BY <2>1, <2>2, RefundsEnvironment
  <2>3. ASSUME NEW op \in Operator, Serve(op) PROVE RefundsInv'
    <3>1. CASE FindDelivery(op)
      BY <2>1, <3>1, RefundsFind
    <3>2. CASE WriteRefund(op)
      BY <2>1, <3>2, RefundsWrite
    <3>3. CASE Notify(op)
      BY <2>1, <3>3, RefundsNotify
    <3>4. CASE ~FindDelivery(op) /\ ~WriteRefund(op) /\ ~Notify(op)
      <4>1. UNCHANGED mails
        BY <2>3, <3>4 DEF Serve, ReadForAccept, ReadForStep, ReadForPublish, ReadForRefund,
             Reading, ReadFails, Finish, CreateCustomer, CreateSite, CreateDelivery,
             LinkOrder, AdvanceStatus, PublishStatus, WriteStatus, StampDelivery, ReadSite,
             StampPublished, OpenCell, IssueClaim, CloseCell, RecordFlags
      <4> QED BY <2>1, <2>3, <3>4, <4>1, RefundsElsewhere, RefundsFrame
    <3> QED BY <3>1, <3>2, <3>3, <3>4
  <2>4. CASE UNCHANGED vars
    BY <2>4 DEF vars, RefundsInv, RefundIsNew, RefundMailsMatchRefunds, Refunded,
                DeliveriesOf, SitesOf
  <2> QED BY <2>2, <2>3, <2>4 DEF Next
<1>3. RefundsInv => RefundMailsMatchRefunds
  BY DEF RefundsInv
<1> QED BY <1>1, <1>2, <1>3, TypeInvariant, RecordsInvariant, PTL DEF Spec
=============================================================================
