------------------------------- MODULE Messages -------------------------------
(***************************************************************************)
(* The messages of crates/hemsidor24-notify/src/message.rs: whom each is   *)
(* to, where a reply to it goes, and what it tells, heading by heading.    *)
(* The sentences around that are left out.                                 *)
(***************************************************************************)
EXTENDS Naturals

CONSTANTS
  Studio,           \* NOTIFY_TO
  PRICE_SEK_EX_VAT, \* of each package
  VAT_PERCENT

PriceSekExVat(package) == PRICE_SEK_EX_VAT[package]

\* Öre, so that half a krona stays exact.
PriceOreIncVat(package) == (PriceSekExVat(package) * 100 * (100 + VAT_PERCENT)) \div 100

\* Öre as kronor.
Kronor(ore) == ore \div 100

ToStudio(about, tells) == [about |-> about, to |-> Studio, reply_to |-> tells.email, tells |-> tells]

ToCustomer(about, email, tells) ==
  [about |-> about, to |-> email, reply_to |-> Studio, tells |-> tells]

\* Everything there is to know of an order, on one screen.
StudioNotification(order) ==
  ToStudio("new",
    [company |-> order.company, city |-> order.city, phone |-> order.phone,
     email |-> order.email, services |-> order.services,
     style |-> order.style, package |-> order.package, price |-> PriceSekExVat(order.package)])

CustomerConfirmation(order) ==
  ToCustomer("received", order.email,
    [company |-> order.company, style |-> order.style,
     package |-> order.package, price |-> PriceSekExVat(order.package)])

\* What the back office reads is a row: plain columns, and a package that parsed.
Quoting(row) ==
  [company |-> row.company, package |-> row.package, price |-> PriceSekExVat(row.package)]

ProposalReady(row) == ToCustomer("proposal", row.email, Quoting(row))
ProposalAccepted(row) == ToCustomer("accepted", row.email, Quoting(row))

SitePublished(row, live_url) ==
  ToCustomer("live", row.email, [company |-> row.company, live_url |-> live_url])

OrderCancelled(row) == ToCustomer("cancelled", row.email, [company |-> row.company])

RefundIssued(row, reason) ==
  ToCustomer("refund", row.email,
    [company |-> row.company, amount |-> Kronor(PriceOreIncVat(row.package)),
     reason |-> reason])
=============================================================================
