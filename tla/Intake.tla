-------------------------------- MODULE Intake --------------------------------
(***************************************************************************)
(* POST /bestall: how a visitor's form becomes an order                    *)
(* (crates/hemsidor24-web/src).  A request is limited, judged, stored and  *)
(* then announced to the studio and to the customer, each await a step, so *)
(* requests interleave and the visitor may leave, or press the button      *)
(* again, between any two of them.  The orders table is the only thing     *)
(* here that survives the process.                                         *)
(***************************************************************************)
EXTENDS Naturals, FiniteSets

CONSTANTS
  Visitor,                 \* whoever has the page open
  NoVisitor,               \* the owner of a row that does not exist
  Address,                 \* keys of the rate limiter
  AddressOf,               \* the address each visitor comes from
  Slot,                    \* requests served at the same time
  MaxRows,                 \* bound on the orders table
  Typed,                   \* what visitors of this instance type
  MailConfigured,          \* the SMTP settings are present
  MIN_SECONDS_ON_PAGE, RATE_LIMIT_BURST, RATE_LIMIT_PER_SECONDS,
  MaxClock,                \* bound on the seconds that pass
  MaxFaults                \* bound on what goes wrong: failing statements and
                           \* messages, process kills and dropped requests

\* A form fails validation, or passes it; of those that pass, validate_email
\* lets some addresses through that the mail library cannot parse.
Kinds == {"invalid", "valid", "unmailable"}

ASSUME IntakeAssumption ==
  /\ NoVisitor \notin Visitor
  /\ AddressOf \in [Visitor -> Address]
  /\ Typed \subseteq Kinds /\ MailConfigured \in BOOLEAN
  /\ MIN_SECONDS_ON_PAGE \in Nat
  /\ RATE_LIMIT_BURST \in Nat \ {0} /\ RATE_LIMIT_PER_SECONDS \in Nat \ {0}
  /\ MaxRows \in Nat /\ MaxClock \in Nat /\ MaxFaults \in Nat

RowId == 1 .. MaxRows
None == 0

VARIABLES
  orders,     \* the table: whose order a row is, the address in it, and notified_at
  told,       \* history: rows the studio was mailed about
  receipts,   \* history: rows the customer was mailed about
  page,       \* what each visitor's browser shows
  request,    \* the handlers in flight
  full,       \* per address, when the limiter's burst is replenished
  clock, faults

vars == <<orders, told, receipts, page, request, full, clock, faults>>

NoRow == [by |-> NoVisitor, email |-> "invalid", notified |-> FALSE]

\* A page as the server rendered it at a given second.  about and suspect
\* are history: the row an answer is for, and whether the form it answers came
\* too soon or with its honeypot filled.
Rendered(shows, second) ==
  [shows |-> shows, opened |-> second, about |-> None, suspect |-> FALSE]

Free == [pc |-> "free", by |-> NoVisitor, watched |-> FALSE, typed |-> "invalid",
         trap |-> FALSE, dated |-> FALSE, opened |-> 0, row |-> None]

Init ==
  /\ orders = [r \in RowId |-> NoRow]
  /\ told = {} /\ receipts = {}
  /\ page = [v \in Visitor |-> Rendered("form", 0)]
  /\ request = [s \in Slot |-> Free]
  /\ full = [a \in Address |-> 0]
  /\ clock = 0 /\ faults = 0

-----------------------------------------------------------------------------
At(s, pc) == request[s].pc = pc

Goto(s, pc) == request' = [request EXCEPT ![s].pc = pc]

Fault == faults < MaxFaults /\ faults' = faults + 1

Stored == {r \in RowId : orders[r] # NoRow}

\* The browser stops waiting for whatever the visitor sent before.
Unwatched(v) ==
  [s \in Slot |-> [request[s] EXCEPT !.watched = @ /\ request[s].by # v]]

\* GET /: a blank form, stamped with the second it was rendered.
Index(v) ==
  /\ page' = [page EXCEPT ![v] = Rendered("form", clock)]
  /\ request' = Unwatched(v)
  /\ UNCHANGED <<orders, told, receipts, full, clock, faults>>

\* The browser posts the form natively, from whichever page shows it: pressing
\* twice sends it twice, and only the last answer is shown.  A stripped form
\* comes without its stamp.  MaxRows: a row is left for every request.
Post(v, s, typed, trap, dated) ==
  /\ At(s, "free")
  /\ Cardinality(Stored) +
       Cardinality({t \in Slot : ~At(t, "free") /\ request[t].row = None}) < MaxRows
  /\ request' = [Unwatched(v) EXCEPT ![s] =
       [pc |-> "limiter", by |-> v, watched |-> TRUE, typed |-> typed,
        trap |-> trap, dated |-> dated, opened |-> page[v].opened, row |-> None]]
  /\ UNCHANGED <<orders, told, receipts, page, full, clock, faults>>

\* The handler returns: its response reaches the browser if it still waits.
\* A page that carries a form again carries a new stamp.
Answer(s, shows) ==
  LET r      == request[s]
      opened == IF shows \in {"tack", "fix"} THEN clock ELSE r.opened
  IN  /\ request' = [request EXCEPT ![s] = Free]
      /\ page' = IF r.watched
                 THEN [page EXCEPT ![r.by] =
                         [shows |-> shows, opened |-> opened, about |-> r.row,
                          suspect |-> r.trap \/ clock < r.opened + MIN_SECONDS_ON_PAGE]]
                 ELSE page

-----------------------------------------------------------------------------
(* The handler *)

\* When the burst of an address would be full again after one more attempt.
FullAfter(a) ==
  RATE_LIMIT_PER_SECONDS + IF full[a] > clock THEN full[a] ELSE clock

WithinBurst(a) ==
  FullAfter(a) <= clock + RATE_LIMIT_BURST * RATE_LIMIT_PER_SECONDS

\* GovernorLayer: a burst per address, one more attempt for every period.  It
\* wraps the route, so it comes before anything submit_order looks at.
Limit(s) ==
  LET a == AddressOf[request[s].by]
  IN  /\ At(s, "limiter")
      /\ IF WithinBurst(a)
         THEN /\ full' = [full EXCEPT ![a] = FullAfter(a)]
              /\ Goto(s, "judge")
              /\ UNCHANGED page
         ELSE Answer(s, "busy") /\ UNCHANGED full
      /\ UNCHANGED <<orders, told, receipts, clock, faults>>

\* spam::check: the honeypot, then the seconds since the form was rendered; a
\* form without a readable stamp is given the benefit of the doubt.
Check(r) ==
  CASE r.trap                -> "HoneypotFilled"
    [] r.dated /\ clock < r.opened + MIN_SECONDS_ON_PAGE -> "TooFast"
    [] OTHER                 -> "Clean"

\* Mutant: an order that fails validation is thanked for like spam is.
Judge_ThanksTheInvalid(s) ==
  /\ At(s, "judge")
  /\ IF Check(request[s]) # "Clean" \/ request[s].typed = "invalid"
     THEN Answer(s, "tack")
     ELSE Goto(s, "store") /\ UNCHANGED page
  /\ UNCHANGED <<orders, told, receipts, full, clock, faults>>

\* Spam reads the confirmation a customer would; a form with errors comes back.
Judge(s) ==
  /\ At(s, "judge")
  /\ IF Check(request[s]) # "Clean"
     THEN Answer(s, "tack")
     ELSE IF request[s].typed = "invalid"
          THEN Answer(s, "fix")
          ELSE Goto(s, "store") /\ UNCHANGED page
  /\ UNCHANGED <<orders, told, receipts, full, clock, faults>>

\* The next BIGSERIAL id.
IsNext(r) == r \notin Stored /\ \A q \in RowId \ Stored : r <= q

RowOf(r) == [by |-> r.by, email |-> r.typed, notified |-> FALSE]

\* Mutant: the customer is thanked at once, and the mails are forgotten.
Store_ThanksAtOnce(s) ==
  /\ At(s, "store")
  /\ \E r \in RowId :
       /\ IsNext(r)
       /\ orders' = [orders EXCEPT ![r] = RowOf(request[s])]
  /\ Answer(s, "tack")
  /\ UNCHANGED <<told, receipts, full, clock, faults>>

\* Mutant: a failed INSERT is logged, as a failed mail is.
Store_LogsTheError(s) ==
  /\ At(s, "store")
  /\ \E r \in RowId :
       LET insert == orders' = [orders EXCEPT ![r] = RowOf(request[s])]
       IN  /\ IsNext(r)
           /\ \/ /\ insert
                 /\ request' = [request EXCEPT ![s] = [@ EXCEPT !.pc = "studio", !.row = r]]
                 /\ UNCHANGED faults
              \/ UNCHANGED orders /\ Fault /\ Goto(s, "receipt")
  /\ UNCHANGED <<told, receipts, page, full, clock>>

\* The one failure the customer sees.  A connection that breaks may take the
\* answer with it and leave the row.
Store(s) ==
  /\ At(s, "store")
  /\ \E r \in RowId :
       LET insert == orders' = [orders EXCEPT ![r] = RowOf(request[s])]
       IN  /\ IsNext(r)
           /\ \/ /\ insert
                 /\ request' = [request EXCEPT ![s] = [@ EXCEPT !.pc = "studio", !.row = r]]
                 /\ UNCHANGED <<page, faults>>
              \/ /\ insert \/ UNCHANGED orders
                 /\ Fault
                 /\ Answer(s, "sorry")
  /\ UNCHANGED <<told, receipts, full, clock>>

\* Notifier::send of a message that names the customer's address.  Without SMTP
\* the fake notifier prints it and answers Ok.
Sends(s, inbox, delivered) ==
  \/ ~MailConfigured /\ delivered = inbox
  \/ /\ MailConfigured /\ request[s].typed # "unmailable"
     /\ delivered = inbox \cup {request[s].row}

\* The address does not parse; or the server refuses the message, or is lost
\* sight of after taking it.
SendFails(s, inbox, delivered) ==
  /\ MailConfigured
  /\ \/ request[s].typed = "unmailable" /\ delivered = inbox /\ UNCHANGED faults
     \/ request[s].typed # "unmailable" /\ Fault
        /\ delivered \in {inbox, inbox \cup {request[s].row}}

\* Mutant: the row is marked whatever send answered.
NotifyStudio_MarksAnyway(s) ==
  /\ At(s, "studio")
  /\ \/ Sends(s, told, told') /\ UNCHANGED faults
     \/ SendFails(s, told, told')
  /\ Goto(s, "mark")
  /\ UNCHANGED <<orders, receipts, page, full, clock>>

\* The notification's Reply-To is the customer's address.
NotifyStudio(s) ==
  /\ At(s, "studio")
  /\ \/ Sends(s, told, told') /\ Goto(s, "mark") /\ UNCHANGED faults
     \/ SendFails(s, told, told') /\ Goto(s, "receipt")
  /\ UNCHANGED <<orders, receipts, page, full, clock>>

\* UPDATE orders SET notified_at: an error is logged.
MarkNotified(s) ==
  LET mark == orders' = [orders EXCEPT ![request[s].row].notified = TRUE]
  IN  /\ At(s, "mark")
      /\ \/ mark /\ UNCHANGED faults
         \/ (mark \/ UNCHANGED orders) /\ Fault
      /\ Goto(s, "receipt")
      /\ UNCHANGED <<told, receipts, page, full, clock>>

\* The receipt is sent, or not, and the customer is thanked.
SendReceipt(s) ==
  /\ At(s, "receipt")
  /\ \/ Sends(s, receipts, receipts') /\ UNCHANGED faults
     \/ SendFails(s, receipts, receipts')
  /\ Answer(s, "tack")
  /\ UNCHANGED <<orders, told, full, clock>>

-----------------------------------------------------------------------------
(* What happens around it *)

Tick ==
  /\ clock < MaxClock
  /\ clock' = clock + 1
  /\ UNCHANGED <<orders, told, receipts, page, request, full, faults>>

\* A browser that stopped waiting closed its connection, and the server drops
\* the handler at the await it is at.
Disconnect(s) ==
  /\ ~At(s, "free") /\ ~request[s].watched
  /\ Fault
  /\ request' = [request EXCEPT ![s] = Free]
  /\ UNCHANGED <<orders, told, receipts, page, full, clock>>

\* Whoever waits sees a broken connection; the limiter starts over.
Crash ==
  /\ Fault
  /\ page' = [v \in Visitor |->
       IF \E s \in Slot : request[s].by = v /\ request[s].watched
       THEN [page[v] EXCEPT !.shows = "broken", !.about = None]
       ELSE page[v]]
  /\ request' = [s \in Slot |-> Free]
  /\ full' = [a \in Address |-> 0]
  /\ UNCHANGED <<orders, told, receipts, clock>>

Serve(s) ==
  \/ Limit(s) \/ Judge(s) \/ Store(s)
  \/ NotifyStudio(s) \/ MarkNotified(s) \/ SendReceipt(s)

Environment ==
  \/ \E v \in Visitor : Index(v)
  \/ \E v \in Visitor, s \in Slot, typed \in Typed, trap, dated \in BOOLEAN :
       Post(v, s, typed, trap, dated)
  \/ Tick \/ Crash
  \/ \E s \in Slot : Disconnect(s)

Next == Environment \/ \E s \in Slot : Serve(s)

Spec == Init /\ [][Next]_vars

\* The runtime polls a handler until it returns or is dropped.
FairSpec == Spec /\ \A s \in Slot : WF_vars(Serve(s))

-----------------------------------------------------------------------------
(* Properties *)

Row == [by : Visitor \cup {NoVisitor}, email : Kinds, notified : BOOLEAN]
Pages == [shows : {"form", "fix", "tack", "sorry", "busy", "broken"}, opened : Nat,
          about : RowId \cup {None}, suspect : BOOLEAN]
Handler == [pc : {"free", "limiter", "judge", "store", "studio", "mark", "receipt"},
            by : Visitor \cup {NoVisitor}, watched : BOOLEAN, typed : Kinds,
            trap : BOOLEAN, dated : BOOLEAN, opened : Nat, row : RowId \cup {None}]

TypeOK ==
  /\ orders \in [RowId -> Row]
  /\ told \in SUBSET RowId /\ receipts \in SUBSET RowId
  /\ page \in [Visitor -> Pages]
  /\ request \in [Slot -> Handler]
  /\ full \in [Address -> Nat]
  /\ clock \in Nat /\ faults \in Nat

\* "Persist first, notify second": nobody is mailed about an order that is not in
\* the table; and notified_at says "whether the studio notification actually went
\* out", whatever failed, was dropped or was killed between the two (without SMTP
\* the fake notifier answers Ok, and the column says so).
MailFollowsStore ==
  /\ told \cup receipts \subseteq Stored
  /\ MailConfigured => \A r \in Stored : orders[r].notified => r \in told

\* Whoever reads "Tack" has an order in the table, unless the honeypot was filled
\* (by a bot, or by a browser that fills in forms) or the form came back sooner
\* than spam::check thinks a human can.
ThanksMeansStored ==
  \A v \in Visitor : page[v].shows = "tack" /\ ~page[v].suspect =>
    page[v].about \in Stored /\ orders[page[v].about].by = v

\* README.md:78 "The studio gets the order": unless a statement or a message
\* fails or a handler is lost, the studio is mailed about every stored order
\* whose address can stand in a Reply-To.
StudioGetsTheOrder ==
  \A r \in RowId :
    orders[r].email = "valid" ~> r \in told \/ faults > 0
=============================================================================
