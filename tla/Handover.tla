------------------------------ MODULE Handover ------------------------------
(***************************************************************************)
(* The studio's cell through its life: a key and a log in a directory,     *)
(* opened by the back office at startup and for every publication          *)
(* (crates/hemsidor24-admin/src/signing.rs), read for receipts             *)
(* (crates/hemsidor24-handover), copied by scripts/backup-cell.sh while    *)
(* all of that may go on, lost with its volume and restored, whole or not. *)
(* The cell itself, sijill-cell, is external and appears as it is used.    *)
(***************************************************************************)
EXTENDS Naturals, FiniteSets, SequencesExt

CONSTANTS
  Customer,
  Nobody,          \* the counterparty of a Discharged, which has none
  Item,            \* item references, the artefacts of the customers
  MaxClaims,       \* bound on the claims ever issued
  MaxKeys,         \* bound on the keys ever generated
  MaxLosses,       \* bound on volumes lost
  MaxFaults        \* bound on failing claims, kills and scripts cut short

ASSUME HandoverAssumption ==
  /\ Nobody \notin Customer
  /\ MaxClaims \in Nat /\ MaxKeys \in Nat /\ MaxLosses \in Nat /\ MaxFaults \in Nat

None == 0
KeyId == 1 .. MaxKeys
ClaimId == 1 .. MaxClaims
Events == {"Released", "Discharged"}
Claim == [id : ClaimId, event : Events, item : Item,
          counterparty : Customer \cup {Nobody}, acknowledges : ClaimId \cup {None}]

\* cell.key, and log.sijill with its horizon, which always go together.
Directory == [key : KeyId \cup {None}, logged : BOOLEAN, log : Seq(Claim)]
Empty == [key |-> None, logged |-> FALSE, log |-> <<>>]
Whole(d) == d.key # None /\ d.logged

VARIABLES
  cell,         \* HANDOVER_CELL_DIR
  writable,     \* its volume is mounted read-write
  backup,       \* the destination of backup-cell.sh
  serving,      \* the back office has started
  signing,      \* what sign is at work on
  holder,       \* who has the cell open across a step: the office, the script
  unproven,     \* a restore that nobody has confirmed yet
  script,       \* where backup-cell.sh is
  seen,         \* the source as the script inspected it
  verified,     \* the script's last word on the backup was OK
  receipts,     \* history: the signed rows last put on a customer's receipt
  issued, keys, losses, faults

office == <<serving, signing, holder>>
copying == <<script, seen, verified>>
bounds == <<losses, faults>>
vars == <<cell, writable, backup, office, unproven, copying, receipts, issued, keys, bounds>>

Idle == [customer |-> Nobody, left |-> {}]

Init ==
  /\ cell = Empty /\ writable = TRUE /\ backup = Empty
  /\ serving = FALSE /\ signing = Idle /\ holder = "nobody"
  /\ unproven = FALSE
  /\ script = "idle" /\ seen = Empty /\ verified = FALSE
  /\ receipts = [c \in Customer |-> <<>>]
  /\ issued = 0 /\ keys = 0 /\ losses = 0 /\ faults = 0

-----------------------------------------------------------------------------
(* The cell, as it is used *)

\* A key on its own opens, with an empty chain; a log on its own does not.  A
\* cell directory takes one holder at a time.
Opens(d) == d.key # None
CanOpen == holder = "nobody" /\ Opens(cell)

Fault == faults < MaxFaults /\ faults' = faults + 1

\* Appending to the chain, by whoever holds the cell.
IssueBody(event, item, counterparty, acknowledges) ==
  /\ issued < MaxClaims
  /\ issued' = issued + 1
  /\ cell' = [cell EXCEPT !.logged = TRUE, !.log = Append(@,
       [id |-> issued + 1, event |-> event, item |-> item,
        counterparty |-> counterparty, acknowledges |-> acknowledges])]

\* Studio::create: a new key and an empty log, whatever the directory held; but
\* for the one handle, which it has to get as open has.
Created ==
  /\ holder = "nobody" /\ writable
  /\ keys < MaxKeys
  /\ keys' = keys + 1
  /\ cell' = [key |-> keys + 1, logged |-> TRUE, log |-> <<>>]

-----------------------------------------------------------------------------
(* The back office *)

\* Mutant: a cell that opens is good enough.
Start_NoProbe(mayCreate) ==
  /\ ~serving /\ ~unproven
  /\ \/ CanOpen /\ UNCHANGED <<cell, keys>>
     \/ ~CanOpen /\ mayCreate /\ Created
  /\ serving' = TRUE
  /\ UNCHANGED <<writable, backup, signing, holder, unproven, copying, receipts, issued, bounds>>

\* Mutant: HANDOVER_CELL_INIT creates, and what cannot be created is opened.
Start_CreatesFirst(mayCreate) ==
  /\ ~serving /\ ~unproven
  /\ \/ mayCreate /\ Created
     \/ ~(mayCreate /\ holder = "nobody" /\ writable) /\ CanOpen /\ UNCHANGED <<cell, keys>>
  /\ writable
  /\ serving' = TRUE
  /\ UNCHANGED <<writable, backup, signing, holder, unproven, copying, receipts, issued, bounds>>

\* signing::init: open, or create if asked to, then prove that the directory can
\* be written.  Anything else is fatal, and the process does not start.  The
\* operator does not start on a restore still to be confirmed.
Start(mayCreate) ==
  /\ ~serving /\ ~unproven
  /\ \/ CanOpen /\ UNCHANGED <<cell, keys>>
     \/ ~CanOpen /\ mayCreate /\ Created
  /\ writable
  /\ serving' = TRUE
  /\ UNCHANGED <<writable, backup, signing, holder, unproven, copying, receipts, issued, bounds>>

\* sign opens the cell, or leaves the handover unsigned.  Other publications
\* that want the cell at the same time are BackOffice's subject.  MaxClaims: a
\* publication is begun only if all its claims can be issued.
OpenForSigning(customer, items) ==
  /\ serving /\ signing = Idle /\ CanOpen
  /\ issued + Cardinality(items) <= MaxClaims
  /\ signing' = [customer |-> customer, left |-> items]
  /\ holder' = "office"
  /\ UNCHANGED <<cell, writable, backup, serving, unproven, copying, receipts, issued, keys,
                 bounds>>

\* Mutant: a batch that fails keeps the cell open.
IssueClaim_KeepsTheCell ==
  /\ signing # Idle
  /\ \/ /\ \E item \in signing.left :
             /\ IssueBody("Released", item, signing.customer, None)
             /\ signing' = IF signing.left = {item} THEN Idle
                           ELSE [signing EXCEPT !.left = @ \ {item}]
        /\ holder' = IF signing' = Idle THEN "nobody" ELSE holder
        /\ UNCHANGED faults
     \/ Fault /\ signing' = Idle /\ UNCHANGED <<holder, cell, issued>>
  /\ UNCHANGED <<writable, backup, serving, unproven, copying, receipts, keys, losses>>

\* release_custody issues one claim per artefact; an error ends the batch.
IssueClaim ==
  /\ signing # Idle
  /\ \/ /\ \E item \in signing.left :
             /\ IssueBody("Released", item, signing.customer, None)
             /\ signing' = IF signing.left = {item} THEN Idle
                           ELSE [signing EXCEPT !.left = @ \ {item}]
        /\ holder' = IF signing' = Idle THEN "nobody" ELSE holder
        /\ UNCHANGED faults
     \/ /\ Fault
        /\ signing' = Idle /\ holder' = "nobody"
        /\ UNCHANGED <<cell, issued>>
  /\ UNCHANGED <<writable, backup, serving, unproven, copying, receipts, keys, losses>>

\* The process is stopped between publications, or killed in one; whoever dies
\* lets go of the cell.
Stop ==
  /\ serving
  /\ IF signing = Idle THEN UNCHANGED faults ELSE Fault
  /\ serving' = FALSE /\ signing' = Idle
  /\ holder' = IF holder = "office" THEN "nobody" ELSE holder
  /\ UNCHANGED <<cell, writable, backup, unproven, copying, receipts, issued, keys, losses>>

-----------------------------------------------------------------------------
(* The record, read and closed *)

\* Studio::discharge closes a release the chain holds.
Discharge(k) ==
  /\ CanOpen /\ writable
  /\ k \in DOMAIN cell.log /\ cell.log[k].event = "Released"
  /\ IssueBody("Discharged", cell.log[k].item, Nobody, cell.log[k].id)
  /\ UNCHANGED <<writable, backup, office, unproven, copying, receipts, keys, bounds>>

\* Mutant: a release that has been closed is history.
HistoryFor_OpenOnly(customer) ==
  SelectSeq(cell.log, LAMBDA claim :
    /\ claim.counterparty = customer
    /\ \A k \in DOMAIN cell.log : cell.log[k].acknowledges # claim.id)

\* history_for_customer: in the order of the chain, what names the customer, and
\* whatever is a Discharged.
HistoryIn(log, customer) ==
  LET upTo[n \in 0 .. Len(log)] ==
        IF n = 0 THEN <<>>
        ELSE IF log[n].counterparty = customer \/ log[n].event = "Discharged"
        THEN Append(upTo[n - 1], log[n])
        ELSE upTo[n - 1]
  IN  upTo[Len(log)]
HistoryFor(customer) == HistoryIn(cell.log, customer)

\* A receipt is rendered from it.
Receipt(customer) ==
  /\ CanOpen
  /\ receipts' = [receipts EXCEPT ![customer] = HistoryFor(customer)]
  /\ UNCHANGED <<cell, writable, backup, office, unproven, copying, issued, keys, bounds>>

-----------------------------------------------------------------------------
(* scripts/backup-cell.sh *)

\* Anything missing is refused before anything is copied.
CheckFiles ==
  /\ script = "idle" /\ Whole(cell)
  /\ script' = "key"
  /\ UNCHANGED <<cell, writable, backup, office, unproven, seen, verified, receipts, issued,
                 keys, bounds>>

\* cp overwrites the previous copy in place, file by file.
CopyKey ==
  /\ script = "key"
  /\ backup' = IF Opens(cell) THEN [backup EXCEPT !.key = cell.key] ELSE backup
  /\ verified' = FALSE
  /\ script' = "log"
  /\ UNCHANGED <<cell, writable, office, unproven, seen, receipts, issued, keys, bounds>>

CopyLog ==
  /\ script = "log"
  /\ backup' = IF cell.logged THEN [backup EXCEPT !.logged = TRUE, !.log = cell.log] ELSE backup
  /\ script' = IF Whole(cell) THEN "sums" ELSE "idle"
  /\ UNCHANGED <<cell, writable, office, unproven, seen, verified, receipts, issued, keys, bounds>>

\* Source and copy must be byte-for-byte the same.
CompareSums ==
  /\ script = "sums"
  /\ script' = IF backup = cell THEN "inspect" ELSE "idle"
  /\ UNCHANGED <<cell, writable, backup, office, unproven, seen, verified, receipts, issued,
                 keys, bounds>>

\* The source is opened, if nobody else has it open; otherwise nothing is printed.
\* The cell is held while its claims are counted.
InspectSource ==
  /\ script = "inspect"
  /\ IF CanOpen
     THEN seen' = cell /\ holder' = "script" /\ script' = "counting"
     ELSE seen' = Empty /\ UNCHANGED holder /\ script' = "verdict"
  /\ UNCHANGED <<cell, writable, backup, serving, signing, unproven, verified, receipts, issued,
                 keys, bounds>>

\* What the script holds, it lets go of.
ScriptLetsGo == holder' = IF holder = "script" THEN "nobody" ELSE holder

CloseSource ==
  /\ script = "counting"
  /\ ScriptLetsGo
  /\ script' = "verdict"
  /\ UNCHANGED <<cell, writable, backup, serving, signing, unproven, seen, verified, receipts,
                 issued, keys, bounds>>

\* Mutant: the CellId is proof enough.
Verdict_ById ==
  /\ script = "verdict"
  /\ verified' = (Opens(backup) /\ seen.key = backup.key)
  /\ script' = "idle"
  /\ UNCHANGED <<cell, writable, backup, office, unproven, seen, receipts, issued, keys, bounds>>

\* The copy, restored into a scratch directory, has the CellId and the claim
\* count of the source.
Verdict ==
  /\ script = "verdict"
  /\ verified' = (Opens(backup) /\ seen.key = backup.key /\ Len(seen.log) = Len(backup.log))
  /\ script' = "idle"
  /\ UNCHANGED <<cell, writable, backup, office, unproven, seen, receipts, issued, keys, bounds>>

\* The script is interrupted, or its disk is pulled out.
CutShort ==
  /\ script # "idle" /\ Fault
  /\ script' = "idle" /\ ScriptLetsGo
  /\ UNCHANGED <<cell, writable, backup, serving, signing, unproven, seen, verified, receipts,
                 issued, keys, losses>>

-----------------------------------------------------------------------------
(* The operator *)

\* The back office is redeployed onto another mount, perhaps an empty one, which
\* nobody has open.
Redeploy(lost, readWrite) ==
  /\ ~serving
  /\ lost => losses < MaxLosses
  /\ losses' = IF lost THEN losses + 1 ELSE losses
  /\ cell' = IF lost THEN Empty ELSE cell
  /\ writable' = readWrite
  /\ IF lost THEN ScriptLetsGo ELSE UNCHANGED holder
  /\ unproven' = (unproven /\ ~lost)
  /\ UNCHANGED <<backup, serving, signing, copying, receipts, issued, keys, faults>>

\* A restore goes into a clean directory, with everything or with a part.
Restore(key, log) ==
  /\ ~serving /\ cell = Empty /\ writable /\ script = "idle"
  /\ key => Opens(backup)
  /\ log => backup.logged
  /\ key \/ log
  /\ cell' = [key |-> IF key THEN backup.key ELSE None,
              logged |-> log, log |-> IF log THEN backup.log ELSE <<>>]
  /\ unproven' = TRUE
  /\ UNCHANGED <<writable, backup, office, copying, receipts, issued, keys, bounds>>

\* Mutant: it opens, and as the right cell.
Confirm_ById ==
  /\ unproven /\ holder = "nobody"
  /\ unproven' = FALSE
  /\ cell' = IF CanOpen /\ cell.key = backup.key THEN cell ELSE Empty
  /\ UNCHANGED <<writable, backup, office, copying, receipts, issued, keys, bounds>>

\* The procedure of tests/backup_restore.rs: it opens, as the same cell, with as
\* many claims as the backup; or it is cleared away.  Nothing else is at the cell.
Confirm ==
  /\ unproven /\ holder = "nobody"
  /\ unproven' = FALSE
  /\ cell' = IF CanOpen /\ cell.key = backup.key /\ Len(cell.log) = Len(backup.log)
             THEN cell ELSE Empty
  /\ UNCHANGED <<writable, backup, office, copying, receipts, issued, keys, bounds>>

Script ==
  \/ CheckFiles \/ CopyKey \/ CopyLog \/ CompareSums \/ InspectSource \/ CloseSource
  \/ Verdict \/ CutShort

Next ==
  \/ \E mayCreate \in BOOLEAN : Start(mayCreate)
  \/ \E customer \in Customer, items \in (SUBSET Item) \ {{}} : OpenForSigning(customer, items)
  \/ IssueClaim \/ Stop
  \/ \E k \in ClaimId : Discharge(k)
  \/ \E customer \in Customer : Receipt(customer)
  \/ Script
  \/ \E lost, readWrite \in BOOLEAN : Redeploy(lost, readWrite)
  \/ \E key, log \in BOOLEAN : Restore(key, log)
  \/ Confirm

Spec == Init /\ [][Next]_vars

-----------------------------------------------------------------------------
(* Properties *)

TypeOK ==
  /\ {cell, backup, seen} \subseteq Directory
  /\ {writable, serving, unproven, verified} \subseteq BOOLEAN
  /\ signing \in [customer : Customer \cup {Nobody}, left : SUBSET Item]
  /\ holder \in {"nobody", "office", "script"} /\ (holder = "office") = (signing # Idle)
  /\ script \in {"idle", "key", "log", "sums", "inspect", "counting", "verdict"}
  /\ receipts \in [Customer -> Seq(Claim)]
  /\ issued \in 0 .. MaxClaims /\ keys \in 0 .. MaxKeys
  /\ losses \in 0 .. MaxLosses /\ faults \in 0 .. MaxFaults

\* signing.rs:146 "Prove signing works before the process serves anything":
\* whatever was mounted, lost or restored in part before it started, a serving
\* back office has a cell that opens and a log that can be appended to.
ServingMeansSignable == serving => Opens(cell) /\ writable

Chain == INSTANCE ClaimChain WITH key <- cell.key, log <- cell.log

\* signing.rs:91-98: a cell made where there was one "has a new signing identity
\* and an empty log, so every claim the studio signed before it is orphaned".  As
\* long as no volume is lost there is one identity and one chain under it, which
\* releases and discharges extend and nothing else: not a start with
\* HANDOVER_CELL_INIT left set, also when the script holds the cell and open fails.
ChainIsKept ==
  Chain!Init /\ [][losses' = 0 => Chain!Next]_<<cell.key, cell.log>>

\* "OK backup verified": the copy is the source as it was inspected, claim for
\* claim, although publications may be signed while the script runs.
VerifiedIsTheSource == verified => backup = seen

\* What a verified backup holds is never missing from a cell that serves under
\* its identity: neither a lost volume nor a restore of half of it gets past the
\* procedure.
VerifiedClaimsComeBack ==
  serving /\ verified /\ cell.key = backup.key => IsPrefix(backup.log, cell.log)

\* A receipt says what earlier receipts said, and then what happened since, as
\* long as no volume is lost.
ReceiptsOnlyGrow ==
  [][losses = 0 => \A c \in Customer : IsPrefix(receipts[c], receipts'[c])]_vars

-----------------------------------------------------------------------------
(* What a comment says of the code and the code does not keep.             *)

Concerns(claim, customer) ==
  \/ claim.counterparty = customer
  \/ \E k \in DOMAIN cell.log : /\ cell.log[k].id = claim.acknowledges
                                /\ cell.log[k].counterparty = customer

\* studio.rs:149 "The handoff claims concerning one customer".
HistoryConcernsCustomer ==
  \A c \in Customer : \A k \in DOMAIN HistoryFor(c) : Concerns(HistoryFor(c)[k], c)
=============================================================================
