# Hemsidor24: what is specified, checked and proved

TLA+ modules for the Rust workspace in `crates` and the scripts around it: the
public order form that takes an order in, the back office that turns an order
into a published, handed-over site, the cell that signs for what was handed
over, the messages that go out on the way, the start of both servers, and the
backups. TLC checks small instances, TLAPS proves theorems for every instance.
Paths below are relative to `src/`.

## The system

Two processes share one Postgres database. Nothing else is shared, nothing is
queued, and neither process remembers anything across a restart.

| Part | State it keeps | Operations | Talks to |
| --- | --- | --- | --- |
| Order status machine, `crates/hemsidor24-core/src/status.rs` | none, a pure type | `next_allowed`, `can_transition_to`, `transition_to` | everybody who moves an order |
| Validation, `crates/hemsidor24-core/src/order.rs` and friends | none | `OrderForm::validate`, `Services::parse` | intake |
| Intake, `crates/hemsidor24-web/src` | rows of `orders`; the limiter's counters, in memory | `GET /`, `POST /bestall` | Postgres, the notifiers |
| Notifiers, `crates/hemsidor24-notify/src` | none | `send`, over SMTP or printed | intake, back office |
| Back office actions, `crates/hemsidor24-admin/src` | rows of `orders`, `customers`, `sites`, `deliveries` | six bulk actions over chosen orders | Postgres, the cell, mail |
| Panel forms (rustio-admin, external) | the same rows | saving an edited row | Postgres |
| Handover, `crates/hemsidor24-handover/src` | the cell: a signing key and an append-only log of claims | `create`, `open`, `release_custody`, `discharge`, `history` | back office (`signing.rs`) |
| Messages, `message.rs` of `crates/hemsidor24-notify/src` | none | seven constructors, from an order or a row to a message | intake, back office |
| Startup, both `main.rs`, `config.rs`, `mail.rs` | settings, migrations applied, the panel's first account | reading the environment, migrating, choosing a notifier, serving | all of the above |
| Container, `docker/entrypoint.sh` | none | start the site, wait for it, start the back office, wait for either | both servers |
| Backups, `scripts` | dump files, throwaway databases, cell copies | take, verify, prune | Postgres, the cell directory |

What is hard in it:

- **No transactions, no locks.** Every action is a series of awaits, one SQL
  statement each. Two operators, two browser tabs or two visitors interleave
  between any two of them, and every decision rests on a row read earlier.
- **Partial failure.** A statement fails in the middle of an action, or takes
  effect and loses its answer. Some errors end the action and some are logged.
- **Kills and dropped handlers.** A restart, or a browser that gives up, ends a
  handler at an await. Nothing resumes it.
- **The cell** takes one holder at a time and appends claims one by one.
- **Mail** is never allowed to fail anything, so it may silently not happen.
- **Time.** The form must have been open three seconds, and every rendering
  restarts that clock; the limiter counts per address. A laptop sleeps through
  its nightly backup, and dumps age all at once.
- **Settings read twice.** Two servers read one environment with different
  strictness, and containers overlap over one database.

What makes each part correct is stated as the properties below; the list of
hazards, each at its line, is in `PROJECT.json`.

## Modules

| Module | Models | Notes |
| --- | --- | --- |
| `OrderStatus` | the statuses and their moves | no state |
| `OrderLifecycle` | the promise: an order only takes allowed steps | abstract specification |
| `BackOffice` | the six actions, the cell they sign with, the panel's fields they depend on | implements `OrderLifecycle` for one operator |
| `Intake` | `GET /` and `POST /bestall`, from the limiter to the last mail | validation is its outcome |
| `OrderForm` | validation, the form that comes back, the row | what Intake leaves out of `Judge` and `Store` |
| `Messages` | the seven messages and their prices | no state |
| `Correspondence` | an order from the form to its refund, and every message about it | composes `OrderForm`, `OrderStatus` and `Messages` |
| `ClaimChain` | the promise: one identity, and a chain of claims under it that only grows | abstract specification |
| `Handover` | the cell's directory: created, opened, signed with, read, copied, lost, restored | what BackOffice leaves out of signing; implements `ClaimChain` while no volume is lost |
| `Startup` | both servers and the entrypoint, in several containers over one database | each container has settings of its own |
| `Backups` | dumps, their retention and verification | the cell's copies are in `Handover` |
| `MCBackOffice`, `MCIntake`, `MCOrderForm`, `MCHandover`, `MCStartup`, `MCBackups` | the instances for TLC | `MCOrderForm` extends `Correspondence` |
| `BackOfficeProofs` | `TypeCorrect` | |
| `BackOfficeStatusProofs` | `NothingIsSkipped`, `ImplementsLifecycle` | |
| `BackOfficeRecordsProofs` | `LinksAreComplete`, `MailsFollowWrites`, `ReportsStayTrue`, `RefundsFollowCancels`, `FlagsAreBacked`, `ClaimsAreEarned`, `StampsStay`, `RefundsAreAnnouncedOnce` | builds on the two above |
| `IntakeProofs` | `TypeCorrect`, `NothingAnnouncedUnstored`, `ThanksAreForAnOrder` | |
| `OrderFormProofs` | `FormIsTyped`, `FaultsAreShown`, `MendedFormsAreAccepted`, `WhatWasTypedIsStored`, `RowsReadBack`, `InboxIsThePanel`, `QuotesStay` | of `OrderForm` and `Correspondence` |
| `HandoverProofs` | `CellIsTyped`, `ServingCanSign`, `VerifiedCopiesAreWhole`, `BackedClaimsStay`, `ReceiptsStand`, `CellIsOneChain` | |
| `StartupProofs` | `TypeCorrect`, `SchemaFirst`, `SameMailInBoth`, `SomebodyCanLogIn`, `PasswordsAreNeverReset` | |
| `BackupsProofs` | `TypeCorrect`, `OthersDatabasesStay`, `DumpsAreKept`, `VerifiedDumpsHold`, `NeverDownToNothing` | |

`BackOffice` and `Handover` meet in `release_custody`: the first has the requests
that contend for one cell and what they make of its answer, the second has one
publication at a time and what becomes of the chain. `Intake` and
`Correspondence` meet in `POST /bestall`: the first has the handlers that
interleave and fail, with the outcome of validation, the second one order at a
time, with what is in it. The start of a container runs `signing::check`, which
`Startup` takes as an answer and `Handover` models.

### BackOffice

The tables are functions over ids, a row that does not exist being `NoSite`,
`NoDelivery` or `NoOrder`. `run[op]` is what one served request is doing: its
program counter is the await the handler is at, its other fields the locals
that survive an await (the order row read at the start, the created ids, the
references that were read, the claims signed so far), and `todo`, `succeeded`
and `failed` the loop every action shares.

| Code | Actions |
| --- | --- |
| `execute_bulk_action` and the loops | `StartRun`, `Settle`, `Finish` |
| `accept_one` | `ReadForAccept`, `CreateCustomer`, `CreateSite`, `CreateDelivery`, `LinkOrder` |
| `workflow::advance` (propose, approve, cancel) | `ReadForStep`, `AdvanceStatus`, `StampDelivery`, `Notify` |
| `publish_one` and `signing::sign` | `ReadForPublish`, `ReadSite`, `PublishStatus`, `StampPublished`, `OpenCell`, `IssueClaim`, `CloseCell`, `RecordFlags`, `Notify` |
| `refund_one` | `ReadForRefund`, `FindDelivery`, `WriteRefund`, `Notify` |
| a read that reports an error | `ReadFails` |
| rustio-admin (external) | `PanelFillSite`, `PanelFillReason`, `PanelSetStatus` |
| the world | `Crash`, `Disconnect` |

A statement that changes rows has up to three outcomes: it succeeds, it fails
and changes nothing, or it changes the rows and its answer is lost. Statements
whose error is only logged go on to the next step (`StampDelivery`,
`StampPublished`, `RecordFlags`); the others end the order with `Fail`. For the
logged ones a lost answer and a success are the same step. A claim is the
exception: the cell is a file under the process's own handle, and an `issue` that
reports an error has appended nothing.
`orm::all` has no stated order, so `site_for` and `delivery_for` may find any
match. Ids are taken in order, as `BIGSERIAL` does when no insert is rolled
back. `sign` contains no await, so `Disconnect` cannot drop a request in it,
but a kill can. Rows are never deleted.

`mails` and `everHeld` are history variables: what was delivered, and every
status an order was given. `clock` is Postgres `now()`, advanced by each stamp,
so that stamps can be compared.

### Intake

`orders` is the table, `request` the handlers in flight, `page` what each
visitor's browser shows, with the second its form was stamped with, and `full`
the limiter: per address, when its burst would be full again (the generic cell
rate algorithm `tower_governor` uses). `told` and `receipts` are history: the
rows that were mailed about.

| Code | Actions |
| --- | --- |
| `index` | `Index` |
| the browser's form | `Post`: pressing twice sends twice, the last answer is shown |
| `GovernorLayer` | `Limit` |
| `spam::check` and `validate` | `Judge` |
| `orders::store` | `Store` |
| `orders::notify` | `NotifyStudio`, `MarkNotified`, `SendReceipt` (which ends the handler) |
| the world | `Tick`, `Disconnect`, `Crash` |

What was typed is abstracted to what the handler can tell apart: it fails
validation, passes it, or passes it with an address the mail library cannot
parse. Whoever posts may have filled the honeypot or stripped the stamp. `about`
and `suspect` in `page` record which row an answer was about and whether the
form it answers came too soon or with its honeypot filled: to such a form *Tack*
is a pretence. A failing statement or message, a kill and a dropped handler all
count towards `MaxFaults`.

### OrderForm

A text is a sequence of *kinds* of characters (`letter`, `digit`, `at`, `dot`,
`dash`, `space`, `newline`): validation trims, counts and splits, and looks at
nothing else. `space` is the blank itself: a tab or a no-break space is trimmed
like one, but may not stand in a telephone number (`order.rs:224`), and is left
out. A radio posts a choice, spelled as slug, label or label with
price, or something that is no choice. `form` is what the browser's form holds,
`shown` the message next to each field; `typed` and `left` are history: what
the customer last put in, and the messages not acted on yet.

| Code | Definitions |
| --- | --- |
| `required_text`, `validate_phone`, `validate_email`, `Services::parse` | `RequiredText`, `ShapedLikeANumber`, `ShapedLikeAnAddress`, `ServicesError` |
| `Style` and `Package::from_str` | `Parses` |
| `OrderForm::validate`, `ValidationErrors` | `FieldError`, `Validate`, `Refused` |
| `FormView::from_rejected` | `FromRejected` |
| the INSERT's values | `Column`, `RowOf` |
| `POST /bestall`, as far as the form goes | action `Post` |
| the customer (external) | action `Correct` |

`MessagesAreFaults` compares validation with a second reading of the rules, by
position in the text instead of by trimming and splitting.

### Handover

A directory is a key, whether there is a log, and the chain in the log. `cell` is
the one in use, `backup` the destination of `backup-cell.sh`. `script` is the
script's place in its own text, and publications, discharges and receipts go on
between any two of its steps, though its comment asks for the back office to be
stopped: it does not check. `holder` is who has the cell open across a step:
the office while it signs, the script while it counts the claims of its source.
`unproven` is a restore that nobody has confirmed,
`receipts` the signed rows last put on a customer's receipt.

| Code | Actions |
| --- | --- |
| `signing::check`, `init` | `Start`, with `HANDOVER_CELL_INIT` set or not |
| `signing::sign`, `Studio::release_custody` | `OpenForSigning`, `IssueClaim` (one claim; an error ends the batch) |
| `Studio::discharge` | `Discharge` |
| `history_for_customer`, `receipt::render` | `Receipt` over `HistoryFor` |
| `backup-cell.sh` | `CheckFiles`, `CopyKey`, `CopyLog`, `CompareSums`, `InspectSource`, `CloseSource`, `Verdict` |
| the procedure of `tests/backup_restore.rs`, `docs/sijill-cell-backup.md` | `Restore`, `Confirm` |
| the world | `Stop`, `Redeploy`, `CutShort` |

`Created` is `Studio::create` as the code can know it: a new key and an empty log,
whatever the directory held before. Nothing but the order of `check` (open, and
create only if that fails) keeps an identity from being replaced, and open
fails for more reasons than a missing cell: the script may hold it. What then
keeps the cell is that `create` needs the one handle to it as `open` does. That
is taken from `signing.rs:251-270`, where a created cell cannot be opened before
it is let go of; with a library whose `create` did not, `ChainIsKept` would fail.

Assumed of the operator: a volume is lost or remounted only while the back
office is down; a restore goes into an empty directory, not while the script
runs, and is confirmed, or cleared away, before the back office is started on
it. The last is what the procedure asks for, and the code does not enforce it:
the startup check alone accepts a key without its log.

### Messages and Correspondence

A message is whom it is to, where a reply goes, and a record of what it tells of
the order; `Messages` has one constructor per function of `message.rs`.
`Correspondence` runs one order through its whole life and collects every
message in `inbox`, so that a property can compare what the customer last
picked, the row, the panel and the mails. One step at a time: how steps fail and
interleave is for `Intake` and `BackOffice`.

| Code | Definitions |
| --- | --- |
| `studio_notification` ... `refund_issued` | `StudioNotification` ... `RefundIssued` |
| `price_ore_inc_vat`, `kronor` | `PriceOreIncVat`, `Kronor` |
| `validate`, `orders::store`, both mails | actions `Announced`, `Corrected` |
| `accept_one`, `advance` with its three callers, `publish_one`, `refund_one` | `Accepted`, `Advanced` (with `MessageOf`), `Published`, `Refunded` |

### Startup

`env[c]` gives every setting of a container one of *unset*, *blank*, *bad* (does not parse, is too
short, cannot be used), *good* and *other*. `web[c]` and `admin[c]` are where
the two servers of a container are on their way up, `script[c]` where its
entrypoint is. Containers overlap, as they do in a redeployment, and share
`schema` and `accounts`. A container's settings change while that container is
down, whatever the others run with: two that start at once may have different
passwords for one account.

| Code | Actions |
| --- | --- |
| `main` of the site, `Config::from_env`, the choice of a notifier (`main.rs:75-95`) | `WebConfig`, `WebConnect`, `WebLock` and `WebMigrate` (one migration), `WebNotifier`, `WebBind`, `WebStops` |
| `main` of the back office, `mail::init`, `ensure_first_administrator` | `AdminMail`, `AdminCell`, `AdminConfig`, `AdminConnect`, `FindAdministrator`, `CreateAdministrator`, `AdminListen`, `AdminStops` |
| `--send-test-mail` | `SendTestMail` |
| `entrypoint.sh` | `Launch`, `Poll`, `Wait` |
| the world | `Kill`, `Reconfigure` |

The two readings of the mail settings are `SmtpIsFine` with `Notifier`, and
`Mailer`. The first account is looked for and made in two statements, so two
containers can both find none.

### Backups

A dump is a file named after the second its script started in; `whole` says that
it restores, `rows` what it holds, `mtime` when it was last written. `scratch`
are the throwaway databases, named after process ids; `own` while a live run
verifies in one, `left` when nobody does any more. `proved` and `crowded` are
history: what the source held when the verification began that passed a dump,
and whether `KEEP_MIN` files were ever broken at once.

| Code | Actions |
| --- | --- |
| `backup-postgres.sh` | `Begin`, `OpenDump`, `CloseDump`, `ListArchive` |
| `scheduled-backup.sh` | `Candidates`, `Prune` (one file) |
| `verify-postgres-backup.sh` | `VerifyByHand`, `CreateScratch`, `RestoreDump`, `Compare` (one table), `Conclude`; the trap is `Cleanup` |
| the world | `Insert`, `Sleep`, `Cut` |

An operator runs the scripts by hand while the nightly one runs. A file system
that loses what was written is the third outcome of `CloseDump`.
`Compare` takes what the throwaway database answers from the dump's rows, which it
was restored from a moment before, and `Expired` counts whole days, as `find -mtime`
does.

## The checks

Runs that pass:

| Run | Shows | Instance |
| --- | --- | --- |
| `publishing` | flags rest on claims, claims on publications; every bulk request is answered | 2 operators, 1 approved order, references edited (one too long), the dropdown, 2 faults, 1 crash, fairness |
| `serial` | types; one operator: `BackOffice` implements `OrderLifecycle`; an order that shows a customer has the whole job behind it; one refund mail per refund | 1 operator, 1 order, 2 rows, all six actions, 1 fault, 1 crash, built without signing |
| `stepping` | no step is jumped, however stale the status a step was decided on; refunds follow cancellations; reports and mails are true; stamps are written once | 2 operators, 1 accepted order, the actions that follow, the dropdown, 1 fault, built without signing |
| `posting` | types; mail only about stored rows, `notified_at` only after the mail; *Tack* about a row of one's own unless the form was suspect; the studio is mailed about every order that can be, unless something failed | 1 visitor, 2 handlers, 2 rows, every kind of form, 1 fault, fairness |
| `filling` | mistakes are all reported and only mistakes; a corrected form is accepted; what was typed is stored, fits the schema and reads back; panel and inbox agree; every message quotes the package that was picked last | limits of 2 to 5, every text up to 4, 6 or 7 characters in one field, every set of blank fields, 2 posts |
| `cell` | what serves can sign; one identity and one growing chain while no volume is lost (`ClaimChain`); a verified backup is its source, and its claims are never missing afterwards; receipts only grow | 2 customers, 2 items, 3 claims, 2 keys, 1 lost volume, 1 fault |
| `starting` | types; nothing serves over half a schema unless the entrypoint gave up waiting; both servers mail alike; a panel that serves has its administrator; passwords are never reset; no container stays with half of it | 2 containers, 3 settings each may be deployed with, 2 migrations, 1 try, 1 fault, fairness |
| `nights` | a verified dump holds the rows there were; one that restores remains; young ones are never touched; other people's databases are never dropped | 1 nightly run and 1 by hand, `KEEP_MIN` 2, `KEEP_DAYS` 0, 3 moments of a day each, 1 table, 2 faults, 1 process id |

Runs that end in a violation, each of one sentence that the repository says and
the code does not keep:

| Run | The sentence | What TLC shows |
| --- | --- | --- |
| `flags` | `README.md:116` "to match what was actually signed" | the second claim of a batch fails; the first is in the log and shows as no flag |
| `double_refund` | `cancellation.rs:347-349` a second mail must not go out | the UPDATE that changed no row is mailed about too |
| `receipt` | `studio.rs:149` "The handoff claims concerning one customer" | the history holds every discharge, whoever the artefact was released to |
| `refund` | `message.rs:280` "a receipt can never quote a figure the customer was not charged" | the price with VAT has half a krona, and the message names whole kronor |

Other limits of what the code promises, met while modelling:

- What `serial` shows fails as soon as a second operator works on the same
  order: decisions rest on a row read earlier and the write does not repeat the
  condition. A late step can revive a cancelled or refunded order, two
  overlapping accepts make two customers, and a refund can be mailed twice.
- An approval that runs between a proposal's status and its stamp leaves
  `accepted_at` before `offered_at`.
- A publication that finds the cell held is reported as done, and is unsigned.
- The status column is a free dropdown in the panel.
- An address that `validate_email` accepts and the mail library does not parse
  makes the studio's notification fail for its Reply-To (`message.rs:64`,
  `smtp.rs:91-93`): `StudioGetsTheOrder` is about the other addresses.
- Without SMTP settings `notified_at` is set though nobody was mailed;
  `MailFollowsStore` is conditional on them.
- A visitor who corrects a returned form within three seconds is judged too
  fast, reads *Tack*, and nothing is stored. The limiter, unlike the other spam
  checks, answers with an error page, and everybody behind one address shares it.
- The mail about a published site always says that domain, hosting and source
  stand in the customer's name (`message.rs:207-209`), whatever was signed.
- `mail.rs:9` says of a bad mail configuration "same policy as the public
  site ... not fatal". For the site a partial one is fatal, so in a container
  the back office then never starts.
- `entrypoint.sh` starts the back office after sixty tries, healthy site or not;
  `PagesFollowTheSchema` says so. A non-zero `wait -n` ends the script by `set -e`
  before it can kill the other server; as the container's first process it
  takes it along all the same.
- Nothing forwards `docker stop` to the two servers, so their graceful end is
  only reached by other signals. A mail host that cannot be used is reported as
  `StartupError::RateLimit`.
- Two dump scripts started in one second write one file (`Spaced` excludes it).
  A dump that fails `pg_restore --list` stays, though the log says that none was
  written, and counts towards `KEEP_MIN`; a dump under way when the night lists
  the directory counts too, and when it then fails, fewer than `KEEP_MIN` are
  left.
- Verification fails when an order arrives between the dump and the count, and
  passes when both counts of a table fail alike (`ERR`). A `rm` that fails on
  the last candidate ends the night without verifying, and without a word. A
  relative `HEMSIDOR24_BACKUP_DIR` makes the new dump's path come out empty.
- `backup-cell.sh` that fails half-way has already overwritten the previous
  copy, and holds the cell while it inspects it.

### Bounds, and why they are enough

`MaxRows` bounds the rows of `customers`, `sites` and `deliveries` (and, in
Intake, of `orders`); the environment only starts what there is room for, so a
bound never cuts a request off half-way. Two operators on one order are the
smallest instance of every race in the code, since no action looks at a third
party. `publishing` starts from an approved order, a state `Spec` reaches (with
the stamps and the clock it would have). `MaxFaults = 1` makes every single
statement fail, in either way, at every point; `MaxCrashes = 1` kills the
process, or drops a request, at every point; `publishing` has two faults, so
that a failing claim and a failing statement meet. `stepping` starts from an
order that was accepted, its site filled in and a reason to refund it given, so
that two operators can meet on the whole way from there to a publication or a
refund; the order is cancelled by the dropdown, and by its own action in
`serial`. That two operators accept one order at once is left to
`LinksAreComplete`. The dropdown picks *Avbruten* only, because picking anything
else breaks the promises at once. In `posting` the minimum time and the period
are one second and the burst two, so that a clock of one second passes each of
them; two rows and two handlers are a double press.

In `filling` the limits are small enough for every text to reach them, with
white space to spare on either side; fields are checked independently of each
other, so it is enough that one is wrong in every way, or several are wrong in
some way. Two posts are a refusal and a repeat. The checks are stated for the
constants; the program's are 120, 80, 32, 6, 254, 200 and the scope's maximum.

In `cell` three claims make a batch of two and one more, after a copy was
taken; two keys make a second identity; one lost volume makes a restore. A
publication is begun only if all its claims can be issued.

In `starting` two containers race for the lock, the schema and the account. Each
may have mail, or half a mail configuration, which stops the public site and not
the back office, and another password or one that is too short. With one try the
back office also comes up beside a site that never answers. Other settings (a
host or a port that cannot be used, no account to make) are in the theorems,
which hold for every environment. Two migrations leave a schema half-way. In
`nights` three moments of a day each are enough for a dump to pass `KEEP_DAYS`
while a run sleeps; with `KEEP_MIN` 2 three dumps make one candidate, and two
faults break the others; one process id has to come round.

Symmetry is declared on operators and orders and on customers and items, only in
runs without liveness properties.

Deadlock is checked in every run but `filling` and `refund`, whose order ends
refunded or with its posts used up, and `starting`, where both containers may
serve for good.

### Fairness

`FairSpec` asks for weak fairness of `Serve(op)` in `BackOffice` and `Serve(s)`
in `Intake`: a task the tokio runtime has polled is woken when its await
completes, and a statement, a message or the cell's `open` returns or reports an
error in the end (the pool and the SMTP transport have timeouts of their own).
In `Startup` the two servers and the entrypoint are processes, each weakly fair;
taking the migrations' lock is strongly fair, because Postgres serves those that
wait for it in turn. Nothing is assumed of people: nobody has to start an
action, post a form, launch a container or fill in a column, and no clock has to
advance.

## The proofs

Every invariant and every action property that a passing run checks is stated by
a theorem for all values of the constants, and so are the two refinements. What stays
with TLC is at the end of this section.

### BackOffice

`TypeCorrect == Spec => []TypeOK`. `TypeOK` is not inductive alone: a request
writes to the row of `run[op].order`, so the order must exist whenever the
program counter is past the first read. `TypeInv` adds `OrderTaken`, which says
that. There is one lemma per action, over shared lemmas on what `Settle`,
`Goto` and `Take` leave in `run`.

`NothingIsSkipped`: if `PanelStatuses = {}`, `Spec => []NoSkippedSteps`, for any
number of operators, orders, rows, faults and crashes. The statuses an order
*holds* go back and forth under stale writes, so the argument is about the
statuses it has *ever held*. A request about to write a status has read one
that allows it, and that one is in the history for good, whatever has
overwritten it since. `StatusInv` therefore says: the current status is in the
history; every request that has decided on a status is backed by history
(`DecisionIsFounded`: proposing needs nothing, approving a proposal, publishing
an approval); and nothing in the history was skipped. The assumption is needed:
the dropdown can pick any status, and an order picked to be published skips.

`ImplementsLifecycle`: if there is at most one operator and `PanelStatuses = {}`,
`Spec => StatusFollowsLifecycle`, which is `Lifecycle!Spec` under the refinement
mapping `INSTANCE OrderLifecycle WITH status <- ...`. Init maps to Init;
every step maps to a step of the lifecycle or to a stutter. `DecisionsStand` says
of the *current* status what `StatusInv` can only say of the history: with nobody
else there, the status a request has read is the one it overwrites. Both
assumptions are needed: a second operator, or the dropdown, moves the status
between the read and the write.

`BackOfficeRecordsProofs` is about what the tables, the cell and the histories
say about each other. A request relies on rows it wrote or read some awaits ago,
and others write in between. One invariant, `RecordsInv`, holds six properties
at once: `Books` (what tables and claims owe each other), `MailsWritten`, and
`Founded(run[op])` for every request, in which `Built`, `Signed` and `Refunding`
say which rows the three long actions hold, and `Announcing` that what is about
to be reported or mailed is written. It is preserved because what is relied on
only `Grows`: rows stay, keep their owner, and a stamp, a link, a claim and a
status held are never taken back (`FoundedStays`, `WrittenStays`). So each lemma
looks at the request that moved (`Mover`), and `FoundedStays` does the others.
From it: `LinksAreComplete`, `MailsFollowWrites`, `ReportsStayTrue`,
`RefundsFollowCancels`, `FlagsAreBacked`, `ClaimsAreEarned`, for any number of
operators and with the dropdown set to anything; and `StampsStay`, the action
property, directly from `Grows`.

`RefundsAreAnnouncedOnce` needs one operator and says so. `RefundIsNew`: whoever
is at the UPDATE has found no refund, and whoever is at the mail has one that
was not mailed about. With two operators it is false, which the run
`double_refund` shows.

### OrderForm and Correspondence

`FormIsTyped` is `TypeOK`. The first section of `OrderFormProofs` is what the others
stand on: induction over the text. The library's induction theorems take an
operator for a parameter, which the provers cannot instantiate, so induction is
stated over *sets*: a set of naturals that is not empty has a least one
(`LeastNatural`, from the well-foundedness of `<`), so one that holds 0 and every
successor holds them all (`AllNaturals`), and likewise for sequences
(`AllSequences`). A recursive function is then used as the solution of its
recursion (`Recursion`, `Alike`), of which there is exactly one. The operators
are written with recursive functions where they could have been written with
a fold or a filter, for that reason.

`FaultsAreShown`: `Spec => []MessagesAreFaults`. Validation trims, splits into
lines and filters; the second reading only looks at positions, and nothing ties
the two together by construction. `TrimSpans`: what is left of a text is what is
between its first and its last visible character. `LinesAreLaid`: line `k` of
`str::lines` is the characters after newline `k - 1` and before newline `k`, in
their order; hence what is trimmed on a line is visible in the text, and a line
too long is two visible characters too far apart (`LongIsFarApart`).
`NumberIsByPosition` and `AddressIsByPosition` do the telephone number and the
address, the latter character by character. The invariant `Showing` says that the
message next to a text not corrected since is what validation finds in it. The
proof found a mistake that no run showed: `Extent`, of the second reading, asked
for characters past the end of the text, whose value TLA+ leaves open. It is now
a count of positions.

`MendedFormsAreAccepted`: `Spec => []MendedIsAccepted`, for all limits, first
forms and corrections. The invariant does not say what a form looks like that
was *not* mended; `Mending` adds it: the faults of a form that came back are
among the messages not acted on. It rests on `NoNewFaults`: re-rendering the
form makes no field worse, because texts stay as they were and the radios of a
form that came back always parse.

`WhatWasTypedIsStored`: `Spec => []TypedIsStored`. `Keeping` says of every field
what `TypedIsStored` says of a row: where what was typed passes, what the form
holds passes too and becomes the same column.

`RowsReadBack`: `Spec => []StoredReadsBack`. `Storing` says that an order is that
of the form as it stands, which was accepted. The rest is `ServicesReadBack`,
what `orders.rs:43-45` promises: services that are split, trimmed and joined, and
then split and trimmed again, are the same. A trimmed line that is not empty is
`Clean`: without a newline, with nothing to trim; clean lines that are joined are
the lines that are read (`JoinedReadsBack`).

`InboxIsThePanel` and `QuotesStay` are `PanelAndInboxAgree` and
`QuotesAreWhatWasPicked`, of the whole life of an order (`JobSpec`). `Telling`
strengthens both: nothing is told before there is an order, the studio was told
what validation made of the form, and every quote is of the package in it.
`JobKeepsTheForm` carries the theorems about `OrderForm` over: seen from the form,
a step of the job is a step of `OrderForm` or none.

### Intake

`Intake`: `TypeCorrect`, `NothingAnnouncedUnstored` and `ThanksAreForAnOrder` are
`TypeOK`, `MailFollowsStore` and `ThanksMeansStored` for any number of visitors,
handlers, rows and faults. A handler mails about, marks and answers with the
`row` it was given by its INSERT, statements later; `Founded` says that the row
is then stored and its visitor's, and, before the mark, that the studio has been
told. `TablesGrow` is what every step keeps: a stored row stays, and stays
whose it was. So whatever a page was told stays true.

### Handover

`CellIsTyped` is `TypeOK`, which also bounds the claims and says when the office
holds the cell.

`ServingCanSign`: `Spec => []ServingMeansSignable`. The strengthening `Served`
adds that a cell still to be confirmed, which may yet be cleared away, is never
served from, and that only a serving back office signs.

`VerifiedCopiesAreWhole` and `BackedClaimsStay` are `VerifiedIsTheSource` and
`VerifiedClaimsComeBack` as theorems, from one invariant, `Backed`. The script
compares an identity and a number; that these tell two chains apart rests on
`CopyIsBeginning`: wherever the identity of the copy is in use, the chain there
begins with the copy. Appending keeps that (`PrefixOfLonger`), creating a cell
keeps it because the key is new (`KeysAreOld`), a restore keeps it unless the log
is missing, and then the cell is empty and still to be confirmed. A beginning as
long as the whole is the whole (`PrefixAsLong`). `WordIsCurrent` says that the
last *OK* is taken back as soon as the copy is overwritten, so it is never said
of a copy that is half new.

`ReceiptsStand`: `Spec => ReceiptsOnlyGrow`. `Recorded` says that what is on a
receipt is the beginning of what would be on the next one, and that, until a
volume is lost, there is nothing to restore or to clear away. It rests on
`HistoryGrows`: one more claim in the log is one more, or none, at the end of
what `history_for_customer` returns, by induction over the log.

`CellIsOneChain`: `Spec => ChainIsKept`, the refinement: under `INSTANCE ClaimChain WITH
key <- cell.key, log <- cell.log` the initial state is initial, and a step that
leaves no volume lost is a step of `ClaimChain` or none. Two facts of the history
make the steps so. `Numbered`: a claim's id is one of those issued so far, so the
next one is fresh. `Recorded`, which `ReceiptsStand` also uses: until a volume is
lost a directory without a key is empty and there is nothing to restore or to
clear away. So a cell is created only where none opens, because `Start` tries to
open first, and because while the script holds the cell, when `open` fails over
a cell that is there, `create` fails with it.

### Startup and Backups

`Startup`: one invariant, `Sound(c)` for every container: what a server has
passed on its way up still holds, though other containers have migrated, made
the account or stopped meanwhile. It holds because the settings of a container only change while
it is down, applied migrations and accounts stay, and the order of the steps
is the order in which each relies on those before. From it come the safety
properties of `starting`, and with them that `tested[c]` implies
`Mailer(c).smtp`: the test message goes through the same reading as the server.
`PasswordsAreNeverReset` is about any number of containers, each with its own
password: one that found no account and finds one when it comes to create it
fails, since an address has one account.

`Backups`: `TypeCorrect` and `OthersDatabasesStay` from `OneHolder`: no two live
runs have one process id, so the trap of one never drops what another, or a
killed one, left. The other three assume `Spaced`. `DumpsAreKept` needs
`DirectoryInv`: a run about to write has a name nobody else writes to, and what
is there under it does not restore; names in the past stay (`Settled`).
`VerifiedDumpsHold` adds what a live verification has found so far
(`ProvedInv` with the loop over the compared tables): the rows found equal were
there when it began, and the source only grows. `NeverDownToNothing` adds
`Pruner`: as long as fewer than `KEEP_MIN` files are broken, one of the
`KEEP_MIN` newest restores, and it is not on the list, so it is not what the
night removes, whatever has happened to the directory since it was listed.

### What is assumed, and what is not proved

Assumptions on constants: `BackOfficeAssumption`, `IntakeAssumption`,
`OrderFormAssumption`, `HandoverAssumption`, `StartupAssumption`,
`BackupsAssumption` (types and bounds; a form and a correction put texts in text
fields and picks in radio groups; launchd runs one job of a label at a time),
and `CorrectionsAreFine`: a customer corrects a field with something that passes.
TLC evaluates them in every run. Beyond them, the theorems named above assume one
operator, an empty dropdown, or `Spaced`.

Only model-checked: liveness. `EveryRunEnds`, `StudioGetsTheOrder` and
`NeverHalfADemo` rest on fairness, hence on `ENABLED`, which the proof system does
not reason about. The four runs that end in a violation are counterexamples and
have nothing to prove.

## Not modelled

- The panel's full-row saves (an edited row overwrites columns an action wrote
  meanwhile) and deletes: the handlers are rustio-admin's. Only the columns an
  operator must fill in, and the status dropdown, are modelled.
- Rows that fail to parse (`okänd status`, `okänt paket`): the schema's CHECKs
  keep them out. Indexes and foreign keys.
- Templates, stylesheets, the page script, the wording of messages and receipts,
  logging.
- The libraries themselves: rustio-admin, sijill, lettre, tower_governor, sqlx,
  and Postgres' own tools appear as the code uses them. `Created` leaves open
  whether sijill creates a cell beside a log without a key.
- A system clock that steps back (`spam.rs:69`).
- A restore of an older cell beside newer flags in Postgres: `Handover` and
  `BackOffice` are not composed in one state space.

## Plan

1. The publishing part of `BackOffice` composed with `Handover`'s directory, so
   that a restore of an older copy meets the flags in Postgres.
2. A restore that is served unconfirmed, beside the startup check that accepts
   it, as a run of its own.
