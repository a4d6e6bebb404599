---------------------------- MODULE Correspondence ----------------------------
(***************************************************************************)
(* An order from the form to the last message about it: what the customer  *)
(* typed and picked, the row it was stored as, what the back office reads  *)
(* of that row at every step, and what studio and customer are told.  One  *)
(* order, one step at a time: how the steps fail and interleave is for     *)
(* Intake and BackOffice.                                                  *)
(***************************************************************************)
EXTENDS OrderForm, OrderStatus, Messages

VARIABLES
  status,     \* orders.status
  job,        \* customer, site and delivery exist
  refunded,   \* deliveries.refunded_at is set
  inbox       \* every message sent

letters == <<status, job, refunded, inbox>>
allVars == <<vars, letters>>

JobInit ==
  /\ Init
  /\ status = INITIAL /\ job = FALSE /\ refunded = FALSE /\ inbox = {}

\* Order: what validate returns.
Ordered(raw) ==
  [f \in Field |->
     CASE f = "services" -> ServiceLines(raw[f])
       [] f \in {"style", "package"} -> raw[f].of
       [] OTHER -> Trim(raw[f])]

\* Stored, then announced: both messages are made of the validated order.
Announced ==
  /\ Post
  /\ inbox' = IF Refused(form) = {}
              THEN {StudioNotification(Ordered(form)), CustomerConfirmation(Ordered(form))}
              ELSE inbox
  /\ UNCHANGED <<status, job, refunded>>

Corrected ==
  /\ \E f \in Field : \E text \in Corrections[f] : Correct(f, text)
  /\ UNCHANGED letters

\* accept_one.
Accepted ==
  /\ orders # {} /\ ~job /\ status # "Avbruten"
  /\ job' = TRUE
  /\ UNCHANGED <<vars, status, refunded, inbox>>

\* The message each of workflow.rs's callers hands to advance.
MessageOf(to, row) ==
  CASE to = "UtkastSkickat" -> ProposalReady(row)
    [] to = "Godkand"       -> ProposalAccepted(row)
    [] to = "Avbruten"      -> OrderCancelled(row)

\* advance: the package is parsed from the column again, before anything is written.
Advanced(to) ==
  /\ CanTransition(status, to)
  /\ \E row \in orders :
       /\ Parses("package", [of |-> row.package, spelled |-> "slug"])
       /\ inbox' = inbox \cup {MessageOf(to, row)}
  /\ status' = to
  /\ UNCHANGED <<vars, job, refunded>>

\* publish_one: the address is the studio's to fill in.
Published ==
  /\ CanTransition(status, "Publicerad") /\ job
  /\ \E row \in orders : inbox' = inbox \cup {SitePublished(row, "live_url")}
  /\ status' = "Publicerad"
  /\ UNCHANGED <<vars, job, refunded>>

\* refund_one.
Refunded ==
  /\ status = "Avbruten" /\ job /\ ~refunded
  /\ \E row \in orders :
       /\ Parses("package", [of |-> row.package, spelled |-> "slug"])
       /\ inbox' = inbox \cup {RefundIssued(row, "refund_reason")}
  /\ refunded' = TRUE
  /\ UNCHANGED <<vars, status, job>>

JobNext ==
  \/ Announced \/ Corrected \/ Accepted
  \/ Advanced("UtkastSkickat")
  \/ Advanced("Godkand")
  \/ Published
  \/ Advanced("Avbruten")
  \/ Refunded

JobSpec == JobInit /\ [][JobNext]_allVars

-----------------------------------------------------------------------------
(* Properties *)

\* message.rs:27 "so the admin panel and the inbox agree about which order is
\* which": read line by line, the row says what the notification says, and a
\* reply to it reaches the address in the row.
PanelAndInboxAgree ==
  \A m \in inbox : m.about = "new" => \A row \in orders :
    /\ \A f \in Field \ {"services"} : m.tells[f] = row[f]
    /\ m.tells.services = Lines(row.services)
    /\ m.reply_to = row.email

\* message.rs:125 "so the price cannot drift from what was quoted": whatever a
\* message says of package and price is what the customer last picked, through
\* every form that came back, the slug in the table and each parse of it.
QuotesAreWhatWasPicked ==
  Parses("package", typed["package"]) =>
    \A m \in inbox :
      /\ "package" \in DOMAIN m.tells => m.tells.package = typed["package"].of
      /\ "price" \in DOMAIN m.tells => m.tells.price = PriceSekExVat(typed["package"].of)

\* message.rs:280 "a receipt can never quote a figure the customer was not
\* charged": the amount of a refund is the price that was paid, to the öre.
RefundIsWhatWasCharged ==
  \A m \in inbox : m.about = "refund" => \A row \in orders :
    m.tells.amount * 100 = PriceOreIncVat(row.package)
=============================================================================
