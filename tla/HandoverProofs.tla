--------------------------- MODULE HandoverProofs ---------------------------
(***************************************************************************)
(* What the startup check and a verified backup are worth, for any number  *)
(* of customers, items, claims, keys, lost volumes and faults: the chain   *)
(* of one identity only grows, so the CellId and a count of claims are     *)
(* enough to tell a whole copy from any other, the cell keeps the promise  *)
(* of ClaimChain, and what a receipt once said it goes on saying.          *)
(***************************************************************************)
EXTENDS Handover, SequenceTheorems, WellFoundedInduction, TLAPS

\* Strengthening: a cell still to be confirmed, which may yet be cleared away,
\* is never served from; only what serves is signing; keys are counted.
Served ==
  /\ serving => ~unproven /\ Opens(cell) /\ writable
  /\ signing # Idle => serving
  /\ keys \in Nat

\* A claim joins the chain under the key that is there.
LEMMA IssuingKeepsTheKey ==
  ASSUME NEW event, NEW item, NEW counterparty, NEW acknowledges,
         IssueBody(event, item, counterparty, acknowledges), Opens(cell)
  PROVE  Opens(cell)'
BY DEF IssueBody, Opens

\* Whatever happens next, what serves can still sign.
LEMMA ServedIsInductive == Served /\ [Next]_vars => Served'
<1> SUFFICES ASSUME Served, [Next]_vars PROVE Served'
  OBVIOUS
<1>1. ASSUME NEW mayCreate \in BOOLEAN, Start(mayCreate) PROVE Served'
  <2>1. serving' /\ ~unproven' /\ writable'
    BY <1>1 DEF Start
  <2>2. Opens(cell')
    <3>1. CASE CanOpen /\ cell' = cell
      BY <3>1 DEF CanOpen
    <3>2. CASE Created
      BY <3>2 DEF Created, Opens, None, Served
    <3> QED BY <1>1, <3>1, <3>2 DEF Start
  <2>3. keys' \in Nat
    BY <1>1 DEF Start, Created, Served
  <2> QED BY <2>1, <2>2, <2>3 DEF Served, Opens
<1>2. ASSUME NEW customer \in Customer, NEW items \in (SUBSET Item) \ {{}},
             OpenForSigning(customer, items)
      PROVE  Served'
  BY <1>2 DEF OpenForSigning, Served, Opens
<1>3. CASE IssueClaim
  <2>1. UNCHANGED <<serving, unproven, writable, keys>> /\ signing # Idle
    BY <1>3 DEF IssueClaim
  <2>2. Opens(cell) => Opens(cell)'
    <3>1. CASE UNCHANGED cell
      BY <3>1 DEF Opens
    <3>2. CASE \E item \in signing.left : IssueBody("Released", item, signing.customer, None)
      BY <3>2, IssuingKeepsTheKey
    <3> QED BY <1>3, <3>1, <3>2 DEF IssueClaim
  <2> QED BY <2>1, <2>2 DEF Served
<1>4. CASE Stop
  BY <1>4 DEF Stop, Served, Idle
<1>5. ASSUME NEW k \in ClaimId, Discharge(k) PROVE Served'
  <2>1. UNCHANGED <<serving, unproven, writable, keys, signing>>
    BY <1>5 DEF Discharge, office
  <2>2. Opens(cell)'
    BY <1>5, IssuingKeepsTheKey DEF Discharge, CanOpen
  <2> QED BY <2>1, <2>2 DEF Served, Idle
<1>6. ASSUME NEW customer \in Customer, Receipt(customer) PROVE Served'
  BY <1>6 DEF Receipt, Served, Opens, office, Idle
<1>7. CASE Script
  <2>1. UNCHANGED <<serving, unproven, writable, cell, keys, signing>>
    BY <1>7 DEF Script, CheckFiles, CopyKey, CopyLog, CompareSums, InspectSource, CloseSource, Verdict,
                CutShort, office
  <2> QED BY <2>1 DEF Served, Opens, Idle
<1>8. ASSUME NEW lost \in BOOLEAN, NEW readWrite \in BOOLEAN, Redeploy(lost, readWrite)
      PROVE  Served'
  BY <1>8 DEF Redeploy, Served, office, Idle
<1>9. ASSUME NEW key \in BOOLEAN, NEW log \in BOOLEAN, Restore(key, log) PROVE Served'
  BY <1>9 DEF Restore, Served, office, Idle
<1>10. CASE Confirm
  BY <1>10 DEF Confirm, Served, office, Idle
<1>11. CASE UNCHANGED vars
  BY <1>11 DEF vars, office, Served, Opens, Idle
<1> QED
  BY <1>1, <1>2, <1>3, <1>4, <1>5, <1>6, <1>7, <1>8, <1>9, <1>10, <1>11 DEF Next

\* A back office that serves has a cell that opens and a log it can append to
\* (signing.rs:146-161), whatever was mounted, lost or restored before.
THEOREM ServingCanSign == Spec => []ServingMeansSignable
<1>1. Init => Served
  BY DEF Init, Served, Idle
<1>2. Served => ServingMeansSignable
  BY DEF Served, ServingMeansSignable
<1> QED BY <1>1, <1>2, ServedIsInductive, PTL DEF Spec

-----------------------------------------------------------------------------
(* Backups *)

Typed ==
  /\ cell \in Directory /\ backup \in Directory /\ seen \in Directory
  /\ signing \in [customer : Customer \cup {Nobody}, left : SUBSET Item]
  /\ issued \in Nat /\ keys \in Nat

\* After cp has overwritten the previous copy, after it has copied the log, and
\* after the checksums agreed.
Overwritten == {"log", "sums", "inspect", "counting", "verdict"}
Copied == {"sums", "inspect", "counting", "verdict"}
Compared == {"inspect", "counting", "verdict"}
Inspected == {"counting", "verdict"}

\* Keys are numbered in the order they are generated.
KeysAreOld == cell.key <= keys /\ backup.key <= keys

\* The word OK is only ever said of the copy that is there.
WordIsCurrent ==
  /\ script \in Overwritten => ~verified
  /\ script \in Copied => backup.logged

\* The copy is the beginning of the chain of its identity, wherever that is
\* still in use; but for a key restored without its log and not yet confirmed.
CopyIsBeginning ==
  (script \in Compared \/ verified) /\ Opens(cell) /\ cell.key = backup.key =>
    \/ IsPrefix(backup.log, cell.log)
    \/ unproven /\ cell.log = <<>> /\ script \notin Compared

\* A source of the copy's identity has a log, and so has what was inspected.
SourceIsWhole ==
  /\ script \in Compared /\ Opens(cell) /\ cell.key = backup.key => cell.logged
  /\ script \in Inspected /\ Opens(backup) /\ seen.key = backup.key =>
       seen.logged /\ IsPrefix(backup.log, seen.log)

Backed ==
  /\ Typed /\ Served
  /\ KeysAreOld /\ WordIsCurrent /\ CopyIsBeginning /\ SourceIsWhole
  /\ VerifiedIsTheSource

-----------------------------------------------------------------------------
(* Beginnings of a chain *)

LEMMA PrefixOfItself ==
  ASSUME NEW S, NEW s \in Seq(S)
  PROVE  IsPrefix(s, s)
BY DEF IsPrefix

LEMMA EmptyIsPrefix ==
  ASSUME NEW S, NEW s \in Seq(S)
  PROVE  IsPrefix(<<>>, s)
BY DEF IsPrefix

LEMMA PrefixOfLonger ==
  ASSUME NEW S, NEW s \in Seq(S), NEW t \in Seq(S), NEW x \in S, IsPrefix(s, t)
  PROVE  IsPrefix(s, Append(t, x))
<1>1. Len(s) \in Nat /\ Len(t) \in Nat /\ Len(Append(t, x)) = Len(t) + 1
  OBVIOUS
<1>2. SubSeq(Append(t, x), 1, Len(s)) = SubSeq(t, 1, Len(s))
  BY <1>1 DEF IsPrefix
<1> QED BY <1>1, <1>2 DEF IsPrefix

\* A beginning that is as long as the whole is the whole.
LEMMA PrefixAsLong ==
  ASSUME NEW S, NEW s \in Seq(S), NEW t \in Seq(S), IsPrefix(s, t), Len(s) = Len(t)
  PROVE  s = t
BY SubSeqFull DEF IsPrefix

-----------------------------------------------------------------------------
(* Claims *)

\* A claim is appended to the log under the key that is there.
LEMMA IssuingAppends ==
  ASSUME Typed, NEW event \in Events, NEW item \in Item,
         NEW counterparty \in Customer \cup {Nobody}, NEW acknowledges \in ClaimId \cup {None},
         IssueBody(event, item, counterparty, acknowledges)
  PROVE  /\ cell' \in Directory /\ issued' \in Nat
         /\ cell'.key = cell.key /\ cell'.logged
         /\ \E claim \in Claim : cell'.log = Append(cell.log, claim)
<1> DEFINE claim == [id |-> issued + 1, event |-> event, item |-> item,
                     counterparty |-> counterparty, acknowledges |-> acknowledges]
<1>1. issued + 1 \in ClaimId
  BY HandoverAssumption DEF IssueBody, Typed, ClaimId
<1>2. claim \in Claim
  BY <1>1 DEF Claim
<1>3. Append(cell.log, claim) \in Seq(Claim)
  BY <1>2 DEF Typed, Directory
<1>4. cell' = [key |-> cell.key, logged |-> TRUE, log |-> Append(cell.log, claim)]
  BY DEF IssueBody, Typed, Directory
<1>5. issued' \in Nat
  BY DEF IssueBody, Typed
<1> QED BY <1>2, <1>3, <1>4, <1>5 DEF Typed, Directory

\* Whoever appends, publishing or discharging, disturbs nothing of a backup.
LEMMA AppendingKeepsBacked ==
  ASSUME Backed, Served',
         signing' \in [customer : Customer \cup {Nobody}, left : SUBSET Item],
         UNCHANGED <<backup, seen, script, verified, unproven, keys>>,
         Opens(cell), cell' \in Directory, issued' \in Nat,
         cell'.key = cell.key, cell'.logged,
         \E claim \in Claim : cell'.log = Append(cell.log, claim),
         unproven => cell.log # <<>>
  PROVE  Backed'
<1>1. Typed'
  BY DEF Backed, Typed
<1>2. KeysAreOld' /\ WordIsCurrent' /\ SourceIsWhole' /\ VerifiedIsTheSource'
  BY DEF Backed, KeysAreOld, WordIsCurrent, SourceIsWhole, VerifiedIsTheSource, Opens
<1>3. CopyIsBeginning'
  <2> SUFFICES ASSUME script \in Compared \/ verified, cell.key = backup.key
               PROVE  IsPrefix(backup.log, cell'.log)
    BY DEF CopyIsBeginning, Opens
  <2>1. IsPrefix(backup.log, cell.log)
    BY DEF Backed, CopyIsBeginning
  <2>2. cell.log \in Seq(Claim) /\ backup.log \in Seq(Claim)
    BY DEF Backed, Typed, Directory
  <2> QED BY <2>1, <2>2, PrefixOfLonger
<1> QED BY <1>1, <1>2, <1>3 DEF Backed

\* Actions that touch neither a copy nor the cell.
LEMMA StutteringKeepsBacked ==
  ASSUME Backed, Served',
         signing' \in [customer : Customer \cup {Nobody}, left : SUBSET Item],
         UNCHANGED <<cell, backup, seen, script, verified, unproven, issued, keys>>
  PROVE  Backed'
BY DEF Backed, Typed, KeysAreOld, WordIsCurrent, CopyIsBeginning, SourceIsWhole,
       VerifiedIsTheSource, Opens

-----------------------------------------------------------------------------
(* The back office *)

\* A cell that is created has a key no copy has.
LEMMA StartKeepsBacked ==
  ASSUME Backed, Served', NEW mayCreate \in BOOLEAN, Start(mayCreate)
  PROVE  Backed'
<1>1. UNCHANGED <<backup, seen, script, verified, unproven, issued, signing>>
  BY DEF Start, copying
<1>2. CASE UNCHANGED <<cell, keys>>
  BY <1>1, <1>2, StutteringKeepsBacked DEF Backed, Typed
<1>3. CASE Created
  <2>1. /\ cell' = [key |-> keys + 1, logged |-> TRUE, log |-> <<>>]
        /\ keys' = keys + 1 /\ keys + 1 \in KeyId
    BY <1>3, HandoverAssumption DEF Created, KeyId, Backed, Typed
  <2>2. Typed'
    BY <1>1, <2>1 DEF Backed, Typed, Directory
  <2>3. cell'.key # backup'.key /\ KeysAreOld'
    BY <1>1, <2>1 DEF Backed, KeysAreOld, Typed, Directory, KeyId, None
  <2> QED
    BY <1>1, <2>2, <2>3 DEF Backed, WordIsCurrent, CopyIsBeginning, SourceIsWhole,
                            VerifiedIsTheSource, Opens
<1> QED BY <1>2, <1>3 DEF Start

LEMMA SigningKeepsBacked ==
  ASSUME Backed, Served', IssueClaim
  PROVE  Backed'
<1>1. UNCHANGED <<backup, seen, script, verified, unproven, keys, serving>>
  BY DEF IssueClaim, copying
<1>2. CASE Fault /\ signing' = Idle /\ UNCHANGED <<cell, issued>>
  BY <1>1, <1>2, StutteringKeepsBacked DEF Idle
<1>3. ASSUME NEW item \in signing.left,
             IssueBody("Released", item, signing.customer, None),
             signing' = IF signing.left = {item} THEN Idle
                        ELSE [signing EXCEPT !.left = @ \ {item}]
      PROVE  Backed'
  <2>1. signing' \in [customer : Customer \cup {Nobody}, left : SUBSET Item]
    BY <1>3 DEF Backed, Typed, Idle
  <2>2. /\ Typed /\ item \in Item /\ signing.customer \in Customer \cup {Nobody}
        /\ "Released" \in Events /\ None \in ClaimId \cup {None}
    BY <1>3 DEF Backed, Typed, Events
  <2>3. /\ cell' \in Directory /\ issued' \in Nat /\ cell'.key = cell.key /\ cell'.logged
        /\ \E claim \in Claim : cell'.log = Append(cell.log, claim)
    BY <1>3, <2>2, IssuingAppends
  <2>4. Opens(cell) /\ ~unproven
    BY DEF Backed, Served, Idle
  <2> QED BY <1>1, <2>1, <2>3, <2>4, AppendingKeepsBacked
<1> QED BY <1>2, <1>3 DEF IssueClaim

LEMMA DischargingKeepsBacked ==
  ASSUME Backed, Served', NEW k \in ClaimId, Discharge(k)
  PROVE  Backed'
<1>1. UNCHANGED <<backup, seen, script, verified, unproven, keys, signing>>
  BY DEF Discharge, office, copying
<1>2. cell.log[k] \in Claim /\ cell.log # <<>>
  BY ElementOfSeq DEF Discharge, Backed, Typed, Directory
<1>3. /\ Typed /\ cell.log[k].item \in Item /\ cell.log[k].id \in ClaimId \cup {None}
      /\ Nobody \in Customer \cup {Nobody} /\ "Discharged" \in Events
  BY <1>2 DEF Backed, Claim, Events
<1>4. IssueBody("Discharged", cell.log[k].item, Nobody, cell.log[k].id) /\ Opens(cell)
  BY DEF Discharge, CanOpen
<1>5. /\ cell' \in Directory /\ issued' \in Nat /\ cell'.key = cell.key /\ cell'.logged
      /\ \E claim \in Claim : cell'.log = Append(cell.log, claim)
  BY <1>3, <1>4, IssuingAppends
<1> QED BY <1>1, <1>2, <1>4, <1>5, AppendingKeepsBacked DEF Backed, Typed

-----------------------------------------------------------------------------
(* The script *)

LEMMA CheckKeepsBacked ==
  ASSUME Backed, Served', CheckFiles
  PROVE  Backed'
BY DEF CheckFiles, office, Backed, Typed, KeysAreOld, WordIsCurrent, Overwritten, Copied,
       Compared, Inspected, CopyIsBeginning, SourceIsWhole, VerifiedIsTheSource, Opens

\* From the first byte that is overwritten the last word is taken back.
LEMMA CopyingKeepsBacked ==
  ASSUME Backed, Served', CopyKey \/ CopyLog
  PROVE  Backed'
<1>1. ~verified' /\ script' \notin Compared /\ UNCHANGED <<cell, seen, unproven, issued, keys, signing>>
  BY DEF CopyKey, CopyLog, office, Backed, WordIsCurrent, Overwritten, Compared
<1>2. backup' \in Directory /\ backup'.key <= keys
  BY DEF CopyKey, CopyLog, Backed, Typed, Directory, KeysAreOld, Opens
<1>3. script' \in Copied => backup'.logged
  BY DEF CopyKey, CopyLog, Copied, Whole, Backed, Typed, Directory
<1> QED
  BY <1>1, <1>2, <1>3 DEF Backed, Typed, KeysAreOld, WordIsCurrent, Copied, Compared, Inspected,
                          CopyIsBeginning, SourceIsWhole, VerifiedIsTheSource

\* What has the same bytes is the same chain.
LEMMA ComparingKeepsBacked ==
  ASSUME Backed, Served', CompareSums
  PROVE  Backed'
<1>1. UNCHANGED <<cell, backup, seen, verified, unproven, issued, keys, signing>> /\ ~verified
  BY DEF CompareSums, office, Backed, WordIsCurrent, Overwritten
<1>2. CASE backup = cell /\ script' = "inspect"
  <2>1. IsPrefix(backup.log, cell.log)
    BY <1>2, PrefixOfItself DEF Backed, Typed, Directory
  <2>2. backup.logged /\ cell.logged
    BY <1>2 DEF CompareSums, Backed, WordIsCurrent, Copied
  <2> QED
    BY <1>1, <1>2, <2>1, <2>2 DEF Backed, Typed, KeysAreOld, WordIsCurrent, CopyIsBeginning,
                                  SourceIsWhole, Inspected, VerifiedIsTheSource
<1>3. CASE script' = "idle"
  BY <1>1, <1>3 DEF Backed, Typed, KeysAreOld, WordIsCurrent, Copied, Compared, Inspected,
                    CopyIsBeginning, SourceIsWhole, VerifiedIsTheSource
<1> QED BY <1>2, <1>3 DEF CompareSums

LEMMA InspectedIsTyped ==
  ASSUME cell \in Directory, InspectSource
  PROVE  seen' \in Directory
<1>1. Empty \in Directory
  BY DEF Empty, Directory
<1>2. seen' = cell \/ seen' = Empty
  BY DEF InspectSource
<1> QED BY <1>1, <1>2

\* A source that cannot be opened shows no key.
LEMMA InspectingKeepsBacked ==
  ASSUME Backed, Served', InspectSource
  PROVE  Backed'
<1>1. /\ UNCHANGED <<cell, backup, verified, unproven, issued, keys, signing>>
      /\ ~verified /\ script = "inspect" /\ script' \in Inspected /\ backup.logged
  BY DEF InspectSource, Backed, WordIsCurrent, Overwritten, Copied, Compared, Inspected
<1>2. seen' \in Directory
  BY InspectedIsTyped DEF Backed, Typed
<1>3. CopyIsBeginning' /\ (Opens(cell) /\ cell.key = backup.key =>
                             IsPrefix(backup.log, cell.log) /\ cell.logged)
  BY <1>1 DEF Backed, CopyIsBeginning, SourceIsWhole, Compared, Opens
<1>4. Opens(backup) /\ seen'.key = backup.key => seen'.logged /\ IsPrefix(backup.log, seen'.log)
  BY <1>3 DEF InspectSource, CanOpen, Opens, Empty
<1>5. WordIsCurrent'
  BY <1>1 DEF WordIsCurrent
<1>6. SourceIsWhole'
  BY <1>1, <1>3, <1>4 DEF SourceIsWhole, Opens
<1> QED
  BY <1>1, <1>2, <1>3, <1>5, <1>6 DEF Backed, Typed, KeysAreOld, VerifiedIsTheSource

\* What was counted stays counted.
LEMMA ClosingKeepsBacked ==
  ASSUME Backed, Served', CloseSource
  PROVE  Backed'
<1>1. /\ UNCHANGED <<cell, backup, seen, verified, unproven, issued, keys, signing>>
      /\ script = "counting" /\ script' = "verdict"
  BY DEF CloseSource
<1> QED
  BY <1>1 DEF Backed, Typed, KeysAreOld, WordIsCurrent, Overwritten, Copied, Compared, Inspected,
              CopyIsBeginning, SourceIsWhole, VerifiedIsTheSource, Opens

\* One key and one count: the copy is what was inspected.
LEMMA VerdictKeepsBacked ==
  ASSUME Backed, Served', Verdict
  PROVE  Backed'
<1>1. /\ UNCHANGED <<cell, backup, seen, unproven, issued, keys, signing>>
      /\ script = "verdict" /\ script' = "idle"
      /\ verified' = (Opens(backup) /\ seen.key = backup.key /\ Len(seen.log) = Len(backup.log))
  BY DEF Verdict, office
<1>2. CopyIsBeginning' /\ SourceIsWhole' /\ WordIsCurrent'
  BY <1>1 DEF Backed, WordIsCurrent, Overwritten, Copied, CopyIsBeginning, SourceIsWhole,
              Compared, Inspected, Opens
<1>3. ASSUME verified' PROVE backup = seen
  <2>1. /\ seen.key = backup.key /\ Len(seen.log) = Len(backup.log)
        /\ seen.logged /\ backup.logged /\ IsPrefix(backup.log, seen.log)
    BY <1>1, <1>3 DEF Backed, SourceIsWhole, WordIsCurrent, Copied, Compared, Inspected
  <2>2. backup \in Directory /\ seen \in Directory
    BY DEF Backed, Typed
  <2>3. backup.log = seen.log
    BY <2>1, <2>2, PrefixAsLong DEF Directory
  <2> QED BY <2>1, <2>2, <2>3 DEF Directory
<1> QED BY <1>1, <1>2, <1>3 DEF Backed, Typed, KeysAreOld, VerifiedIsTheSource

LEMMA CutShortKeepsBacked ==
  ASSUME Backed, Served', CutShort
  PROVE  Backed'
BY DEF CutShort, office, Backed, Typed, KeysAreOld, WordIsCurrent, Overwritten, Copied,
       Compared, Inspected, CopyIsBeginning, SourceIsWhole, VerifiedIsTheSource, Opens

-----------------------------------------------------------------------------
(* The operator *)

LEMMA RedeployKeepsBacked ==
  ASSUME Backed, Served', NEW lost \in BOOLEAN, NEW readWrite \in BOOLEAN,
         Redeploy(lost, readWrite)
  PROVE  Backed'
<1>1. UNCHANGED <<backup, seen, script, verified, issued, keys, signing>>
  BY DEF Redeploy, office, copying
<1>2. CASE cell' = cell /\ (unproven' <=> unproven)
  BY <1>1, <1>2 DEF Backed, Typed, KeysAreOld, WordIsCurrent, CopyIsBeginning, SourceIsWhole,
                    VerifiedIsTheSource, Opens
<1>3. CASE cell' = Empty
  BY <1>1, <1>3 DEF Backed, Typed, Directory, Empty, KeysAreOld, None, WordIsCurrent,
                    CopyIsBeginning, SourceIsWhole, VerifiedIsTheSource, Opens
<1> QED BY <1>2, <1>3 DEF Redeploy

\* A restored key comes with its log, or is still to be confirmed.
LEMMA RestoreKeepsBacked ==
  ASSUME Backed, Served', NEW key \in BOOLEAN, NEW log \in BOOLEAN, Restore(key, log)
  PROVE  Backed'
<1>1. /\ UNCHANGED <<backup, seen, script, verified, issued, keys, signing>>
      /\ script = "idle" /\ unproven'
  BY DEF Restore, office, copying
<1>2. cell' = [key |-> IF key THEN backup.key ELSE None,
               logged |-> log, log |-> IF log THEN backup.log ELSE <<>>]
  BY DEF Restore
<1>3. Typed' /\ KeysAreOld'
  BY <1>1, <1>2 DEF Backed, Typed, Directory, KeysAreOld, None
<1>4. CopyIsBeginning'
  <2>1. IsPrefix(backup.log, backup.log)
    BY PrefixOfItself DEF Backed, Typed, Directory
  <2> QED BY <1>1, <1>2, <2>1 DEF CopyIsBeginning, Compared
<1> QED
  BY <1>1, <1>3, <1>4 DEF Backed, WordIsCurrent, SourceIsWhole, Compared, Inspected, VerifiedIsTheSource

\* A key with fewer claims than the backup is cleared away.
LEMMA ConfirmKeepsBacked ==
  ASSUME Backed, Served', Confirm
  PROVE  Backed'
<1>1. UNCHANGED <<backup, seen, script, verified, issued, keys, signing>>
  BY DEF Confirm, office, copying
<1>2. CASE cell' = Empty
  BY <1>1, <1>2 DEF Backed, Typed, Directory, Empty, KeysAreOld, None, WordIsCurrent,
                    CopyIsBeginning, SourceIsWhole, VerifiedIsTheSource, Opens
<1>3. CASE cell' = cell /\ Len(cell.log) = Len(backup.log)
  <2>1. backup.log \in Seq(Claim) /\ cell.log \in Seq(Claim)
    BY DEF Backed, Typed, Directory
  <2>2. cell.log = <<>> => IsPrefix(backup.log, cell.log)
    BY <1>3, <2>1, EmptyIsPrefix
  <2>3. CopyIsBeginning'
    BY <1>1, <1>3, <2>2 DEF Backed, CopyIsBeginning, Opens
  <2> QED
    BY <1>1, <1>3, <2>3 DEF Backed, Typed, KeysAreOld, WordIsCurrent, SourceIsWhole,
                            VerifiedIsTheSource, Opens
<1> QED BY <1>2, <1>3 DEF Confirm

-----------------------------------------------------------------------------

LEMMA BackedIsInductive == Backed /\ [Next]_vars => Backed'
<1> SUFFICES ASSUME Backed, [Next]_vars PROVE Backed'
  OBVIOUS
<1>1. Served'
  BY ServedIsInductive DEF Backed
<1>2. ASSUME NEW mayCreate \in BOOLEAN, Start(mayCreate) PROVE Backed'
  BY <1>1, <1>2, StartKeepsBacked
<1>3. ASSUME NEW customer \in Customer, NEW items \in (SUBSET Item) \ {{}},
             OpenForSigning(customer, items)
      PROVE  Backed'
  BY <1>1, <1>3, StutteringKeepsBacked DEF OpenForSigning, copying
<1>4. CASE IssueClaim
  BY <1>1, <1>4, SigningKeepsBacked
<1>5. CASE Stop
  BY <1>1, <1>5, StutteringKeepsBacked DEF Stop, copying, Idle
<1>6. ASSUME NEW k \in ClaimId, Discharge(k) PROVE Backed'
  BY <1>1, <1>6, DischargingKeepsBacked
<1>7. ASSUME NEW customer \in Customer, Receipt(customer) PROVE Backed'
  BY <1>1, <1>7, StutteringKeepsBacked DEF Receipt, copying, office, Backed, Typed
<1>8. CASE Script
  BY <1>1, <1>8, CheckKeepsBacked, CopyingKeepsBacked, ComparingKeepsBacked,
     InspectingKeepsBacked, ClosingKeepsBacked, VerdictKeepsBacked, CutShortKeepsBacked DEF Script
<1>9. ASSUME NEW lost \in BOOLEAN, NEW readWrite \in BOOLEAN, Redeploy(lost, readWrite)
      PROVE  Backed'
  BY <1>1, <1>9, RedeployKeepsBacked
<1>10. ASSUME NEW key \in BOOLEAN, NEW log \in BOOLEAN, Restore(key, log) PROVE Backed'
  BY <1>1, <1>10, RestoreKeepsBacked
<1>11. CASE Confirm
  BY <1>1, <1>11, ConfirmKeepsBacked
<1>12. CASE UNCHANGED vars
  BY <1>1, <1>12, StutteringKeepsBacked DEF vars, office, copying, Backed, Typed
<1> QED
  BY <1>2, <1>3, <1>4, <1>5, <1>6, <1>7, <1>8, <1>9, <1>10, <1>11, <1>12 DEF Next

LEMMA BackedAtFirst == Init => Backed
<1> SUFFICES ASSUME Init PROVE Backed
  OBVIOUS
<1>1. Typed
  BY DEF Init, Typed, Directory, Empty, Idle
<1>2. Served
  BY DEF Init, Served, Idle
<1> QED
  BY <1>1, <1>2 DEF Init, Backed, KeysAreOld, Empty, None, WordIsCurrent, Overwritten, Copied,
                    Compared, Inspected, CopyIsBeginning, SourceIsWhole, VerifiedIsTheSource

\* "OK backup verified" (backup-cell.sh:86) is true of the copy claim for claim,
\* though only the CellId and a count of claims are compared in the end, and
\* whatever is signed, lost, created or restored while the script runs.
THEOREM VerifiedCopiesAreWhole == Spec => []VerifiedIsTheSource
<1>1. Backed => VerifiedIsTheSource
  BY DEF Backed
<1> QED BY <1>1, BackedAtFirst, BackedIsInductive, PTL DEF Spec

\* A back office that serves under the identity of a verified backup has every
\* claim of it: the confirmation of tests/backup_restore.rs:106-136 turns every
\* restore in part away.
THEOREM BackedClaimsStay == Spec => []VerifiedClaimsComeBack
<1>1. Backed => VerifiedClaimsComeBack
  BY DEF Backed, Served, CopyIsBeginning, VerifiedClaimsComeBack
<1> QED BY <1>1, BackedAtFirst, BackedIsInductive, PTL DEF Spec

-----------------------------------------------------------------------------
(* Receipts *)

\* A set of naturals that is not empty has a least one, so a set that holds 0
\* and the successor of each of its naturals holds them all.
LEMMA LeastNatural ==
  ASSUME NEW T, T \subseteq Nat, T # {}
  PROVE  \E n \in T : \A m \in T : n <= m
<1> DEFINE R == OpToRel(<, Nat)
<1>1. PICK n \in T : \A m \in T : ~ (<<m, n>> \in R)
  <2> HIDE DEF R
  <2>1. IsWellFoundedOn(R, Nat)
    BY NatLessThanWellFounded DEF R
  <2> QED BY <2>1, WFMin
<1>2. ASSUME NEW m \in T PROVE n <= m
  <2>1. m \in Nat /\ n \in Nat
    OBVIOUS
  <2>2. ~ (<<m, n>> \in R)
    BY <1>1
  <2>3. <<m, n>> \in R <=> m < n
    BY <2>1 DEF OpToRel
  <2> HIDE DEF R
  <2> QED BY <2>1, <2>2, <2>3
<1> HIDE DEF R
<1> QED BY <1>2

LEMMA AllNaturals ==
  ASSUME NEW S, 0 \in S, \A n \in Nat : n \in S => n + 1 \in S
  PROVE  Nat \subseteq S
<1> SUFFICES ASSUME NEW k \in Nat, k \notin S PROVE FALSE
  OBVIOUS
<1>1. PICK n \in Nat \ S : \A m \in Nat \ S : n <= m
  BY LeastNatural
<1>2. n - 1 \in Nat /\ n - 1 \in S
  BY <1>1
<1> QED BY <1>1, <1>2

\* history_for_customer, claim by claim: what upTo computes for a log.
Reads(f, log, customer) ==
  /\ f[0] = <<>>
  /\ \A n \in 1 .. Len(log) :
       f[n] = IF log[n].counterparty = customer \/ log[n].event = "Discharged"
              THEN Append(f[n - 1], log[n]) ELSE f[n - 1]

\* Two readings that agree on the claims agree on the receipt.
LEMMA ReadingsAgree ==
  ASSUME NEW customer, NEW log \in Seq(Claim), NEW longer \in Seq(Claim),
         Len(log) <= Len(longer), \A n \in 1 .. Len(log) : longer[n] = log[n],
         NEW f, Reads(f, log, customer), NEW g, Reads(g, longer, customer)
  PROVE  \A n \in 0 .. Len(log) : f[n] = g[n]
<1> DEFINE S == {n \in Nat : n <= Len(log) => f[n] = g[n]}
<1>1. 0 \in S
  BY DEF Reads
<1>2. ASSUME NEW n \in Nat, n \in S PROVE n + 1 \in S
  <2> SUFFICES ASSUME n + 1 <= Len(log) PROVE f[n + 1] = g[n + 1]
    OBVIOUS
  <2>1. n + 1 \in 1 .. Len(log) /\ n + 1 \in 1 .. Len(longer) /\ (n + 1) - 1 = n
    OBVIOUS
  <2>2. f[n] = g[n] /\ longer[n + 1] = log[n + 1]
    BY <1>2, <2>1
  <2> QED BY <2>1, <2>2 DEF Reads
<1> HIDE DEF S
<1>3. Nat \subseteq S
  BY <1>1, <1>2, AllNaturals
<1> QED BY <1>3 DEF S

\* Every log has a reading.
LEMMA LogsCanBeRead ==
  ASSUME NEW customer, NEW log \in Seq(Claim)
  PROVE  \E f \in [0 .. Len(log) -> Seq(Claim)] : Reads(f, log, customer)
<1> DEFINE Begun(n) == SubSeq(log, 1, n)
<1> DEFINE S == {n \in Nat : n <= Len(log) =>
                                  \E f \in [0 .. n -> Seq(Claim)] : Reads(f, Begun(n), customer)}
<1>0. \A n \in 0 .. Len(log) :
        /\ Begun(n) \in Seq(Claim) /\ Len(Begun(n)) = n
        /\ \A i \in 1 .. n : Begun(n)[i] = log[i]
  OBVIOUS
<1>1. 0 \in S
  <2>1. Len(Begun(0)) = 0
    BY <1>0
  <2> HIDE DEF Begun
  <2> DEFINE f == [i \in 0 .. 0 |-> <<>>]
  <2>2. f \in [0 .. 0 -> Seq(Claim)] /\ Reads(f, Begun(0), customer)
    BY <2>1 DEF Reads
  <2> HIDE DEF f
  <2> QED BY <2>2
<1>2. ASSUME NEW n \in Nat, n \in S PROVE n + 1 \in S
  <2> SUFFICES ASSUME n + 1 <= Len(log) 
               PROVE  \E f \in [0 .. n + 1 -> Seq(Claim)] : Reads(f, Begun(n + 1), customer)
    OBVIOUS
  <2>1. PICK f \in [0 .. n -> Seq(Claim)] : Reads(f, Begun(n), customer)
    BY <1>2
  <2> DEFINE last == IF log[n + 1].counterparty = customer \/ log[n + 1].event = "Discharged"
                     THEN Append(f[n], log[n + 1]) ELSE f[n]
  <2> DEFINE g == [i \in 0 .. n + 1 |-> IF i = n + 1 THEN last ELSE f[i]]
  <2>2. /\ Len(Begun(n)) = n /\ Len(Begun(n + 1)) = n + 1
        /\ \A i \in 1 .. n : Begun(n)[i] = log[i]
        /\ \A i \in 1 .. n + 1 : Begun(n + 1)[i] = log[i]
    BY <1>0
  <2> HIDE DEF Begun
  <2>3. f[0] = <<>>
    BY <2>1 DEF Reads
  <2>4. log[n + 1] \in Claim
    OBVIOUS
  <2>5. last \in Seq(Claim)
    BY <2>3, <2>4
  <2>6. g \in [0 .. n + 1 -> Seq(Claim)] /\ g[0] = <<>>
    BY <2>3, <2>5
  <2>7. ASSUME NEW i \in 1 .. n + 1
        PROVE  g[i] = IF log[i].counterparty = customer \/ log[i].event = "Discharged"
                      THEN Append(g[i - 1], log[i]) ELSE g[i - 1]
    <3>1. CASE i = n + 1
      <4>1. i - 1 = n /\ g[i - 1] = f[n] /\ g[i] = last
        BY <3>1
      <4> QED BY <3>1, <4>1
    <3>2. CASE i \in 1 .. n
      <4>1. g[i] = f[i] /\ g[i - 1] = f[i - 1] /\ Begun(n)[i] = log[i]
        BY <2>2, <3>2
      <4> QED BY <2>1, <2>2, <3>2, <4>1 DEF Reads
    <3> QED BY <3>1, <3>2
  <2> HIDE DEF g, last
  <2>8. Reads(g, Begun(n + 1), customer)
    BY <2>2, <2>6, <2>7 DEF Reads
  <2> QED BY <2>6, <2>8
<1>3. Begun(Len(log)) = log
  BY SubSeqFull
<1> HIDE DEF S, Begun
<1>4. Nat \subseteq S
  BY <1>1, <1>2, AllNaturals
<1> QED BY <1>3, <1>4 DEF S

\* What history_for_customer returns is the end of a reading.
LEMMA HistoryIsRead ==
  ASSUME NEW customer, NEW log \in Seq(Claim)
  PROVE  \E f \in [0 .. Len(log) -> Seq(Claim)] :
           Reads(f, log, customer) /\ HistoryIn(log, customer) = f[Len(log)]
<1> DEFINE Step(f) ==
      [n \in 0 .. Len(log) |->
         IF n = 0 THEN <<>>
         ELSE IF log[n].counterparty = customer \/ log[n].event = "Discharged"
         THEN Append(f[n - 1], log[n])
         ELSE f[n - 1]]
<1> DEFINE upTo == CHOOSE f : f = Step(f)
<1>1. PICK f \in [0 .. Len(log) -> Seq(Claim)] : Reads(f, log, customer)
  BY LogsCanBeRead
<1>2. f = Step(f)
  <2>1. ASSUME NEW n \in 0 .. Len(log) PROVE f[n] = Step(f)[n]
    <3>1. CASE n = 0
      BY <1>1, <3>1 DEF Reads
    <3>2. CASE n \in 1 .. Len(log)
      BY <1>1, <3>2 DEF Reads
    <3> QED BY <3>1, <3>2
  <2>2. Step(f) = [n \in 0 .. Len(log) |-> Step(f)[n]]
    OBVIOUS
  <2>3. f = [n \in 0 .. Len(log) |-> f[n]]
    OBVIOUS
  <2> HIDE DEF Step
  <2> QED BY <2>1, <2>2, <2>3
<1>3. upTo = Step(upTo)
  <2> HIDE DEF Step
  <2> QED BY <1>2
<1>4. Reads(upTo, log, customer)
  <2> HIDE DEF upTo
  <2>1. ASSUME NEW n \in 0 .. Len(log)
        PROVE  upTo[n] = IF n = 0 THEN <<>>
                         ELSE IF log[n].counterparty = customer \/ log[n].event = "Discharged"
                         THEN Append(upTo[n - 1], log[n])
                         ELSE upTo[n - 1]
    BY <1>3, Zenon
  <2>2. upTo[0] = <<>>
    BY <2>1
  <2>3. ASSUME NEW n \in 1 .. Len(log)
        PROVE  upTo[n] = IF log[n].counterparty = customer \/ log[n].event = "Discharged"
                         THEN Append(upTo[n - 1], log[n]) ELSE upTo[n - 1]
    BY <2>1
  <2> QED BY <2>2, <2>3 DEF Reads
<1>5. HistoryIn(log, customer) = upTo[Len(log)]
  BY DEF HistoryIn
<1> HIDE DEF upTo
<1>6. f[Len(log)] = upTo[Len(log)]
  BY <1>1, <1>4, ReadingsAgree
<1> QED BY <1>1, <1>5, <1>6

\* history_for_customer, one claim at a time.
LEMMA HistoryGrows ==
  ASSUME NEW customer, NEW log \in Seq(Claim), NEW claim \in Claim
  PROVE  /\ HistoryIn(log, customer) \in Seq(Claim)
         /\ HistoryIn(<<>>, customer) = <<>>
         /\ HistoryIn(Append(log, claim), customer) =
              IF claim.counterparty = customer \/ claim.event = "Discharged"
              THEN Append(HistoryIn(log, customer), claim)
              ELSE HistoryIn(log, customer)
<1> DEFINE longer == Append(log, claim)
<1>1. /\ longer \in Seq(Claim) /\ Len(longer) = Len(log) + 1 /\ longer[Len(log) + 1] = claim
      /\ \A n \in 1 .. Len(log) : longer[n] = log[n]
  OBVIOUS
<1>2. PICK f \in [0 .. Len(log) -> Seq(Claim)] :
             Reads(f, log, customer) /\ HistoryIn(log, customer) = f[Len(log)]
  BY HistoryIsRead
<1> HIDE DEF longer
<1>3. PICK g \in [0 .. Len(longer) -> Seq(Claim)] :
             Reads(g, longer, customer) /\ HistoryIn(longer, customer) = g[Len(longer)]
  BY <1>1, HistoryIsRead
<1>4. f[Len(log)] = g[Len(log)]
  <2>1. Len(log) <= Len(longer) /\ Len(log) \in 0 .. Len(log)
    BY <1>1
  <2>2. \A n \in 0 .. Len(log) : f[n] = g[n]
    <3>1. \A n \in 1 .. Len(log) : longer[n] = log[n]
      BY <1>1
    <3>2. Reads(f, log, customer) /\ Reads(g, longer, customer) /\ longer \in Seq(Claim)
      BY <1>1, <1>2, <1>3
    <3> QED BY SMTT(30), <2>1, <3>1, <3>2, ReadingsAgree
  <2> QED BY <2>1, <2>2
<1>5. HistoryIn(<<>>, customer) = <<>>
  <2>1. <<>> \in Seq(Claim) /\ Len(<<>>) = 0
    OBVIOUS
  <2> QED BY SMTT(30), <2>1, HistoryIsRead DEF Reads
<1>6. /\ Len(longer) \in 1 .. Len(longer) /\ Len(longer) - 1 = Len(log)
      /\ longer[Len(longer)] = claim
  BY <1>1
<1>7. g[Len(longer)] = IF claim.counterparty = customer \/ claim.event = "Discharged"
                       THEN Append(g[Len(log)], claim) ELSE g[Len(log)]
  BY <1>3, <1>6 DEF Reads
<1>8. HistoryIn(longer, customer) =
        IF claim.counterparty = customer \/ claim.event = "Discharged"
        THEN Append(HistoryIn(log, customer), claim)
        ELSE HistoryIn(log, customer)
  BY <1>2, <1>3, <1>4, <1>7
<1> QED BY SMTT(30), <1>2, <1>5, <1>8 DEF longer

LEMMA HistoryIsTyped ==
  ASSUME NEW customer, NEW log \in Seq(Claim)
  PROVE  HistoryIn(log, customer) \in Seq(Claim)
BY HistoryIsRead

-----------------------------------------------------------------------------
(* Types *)

\* A claim that is issued finds its place in the log.
LEMMA IssuingKeepsTypes ==
  ASSUME TypeOK, NEW event \in Events, NEW item \in Item,
         NEW counterparty \in Customer \cup {Nobody}, NEW acknowledges \in ClaimId \cup {None},
         IssueBody(event, item, counterparty, acknowledges)
  PROVE  cell' \in Directory /\ issued' \in 0 .. MaxClaims
<1>1. Typed
  BY DEF TypeOK, Typed
<1>2. cell' \in Directory
  BY <1>1, IssuingAppends
<1> QED BY <1>2, HandoverAssumption DEF IssueBody, TypeOK

LEMMA FaultKeepsTypes ==
  ASSUME TypeOK, Fault
  PROVE  faults' \in 0 .. MaxFaults
BY HandoverAssumption DEF TypeOK, Fault

\* A batch that goes on has claims left, one that ends leaves nothing behind.
LEMMA SigningKeepsTypes ==
  ASSUME TypeOK, IssueClaim
  PROVE  TypeOK'
<1>1. UNCHANGED <<writable, backup, serving, unproven, script, seen, verified, receipts, keys, losses>>
  BY DEF IssueClaim, copying
<1>2. CASE Fault /\ signing' = Idle /\ holder' = "nobody" /\ UNCHANGED <<cell, issued>>
  <2>1. signing' \in [customer : Customer \cup {Nobody}, left : SUBSET Item]
    BY <1>2 DEF Idle
  <2>2. holder' \in {"nobody", "office", "script"} /\ (holder' = "office") = (signing' # Idle)
    BY <1>2
  <2> QED BY <1>1, <1>2, <2>1, <2>2, FaultKeepsTypes DEF TypeOK, Idle
<1>3. ASSUME NEW item \in signing.left,
             IssueBody("Released", item, signing.customer, None),
             signing' = IF signing.left = {item} THEN Idle
                        ELSE [signing EXCEPT !.left = @ \ {item}],
             holder' = IF signing' = Idle THEN "nobody" ELSE holder,
             signing # Idle, UNCHANGED faults
      PROVE  TypeOK'
  <2>1. /\ item \in Item /\ signing.customer \in Customer \cup {Nobody}
        /\ "Released" \in Events /\ None \in ClaimId \cup {None}
    BY <1>3 DEF TypeOK, Events
  <2>2. cell' \in Directory /\ issued' \in 0 .. MaxClaims
    BY <1>3, <2>1, IssuingKeepsTypes
  <2>3. signing' \in [customer : Customer \cup {Nobody}, left : SUBSET Item]
    BY <1>3 DEF TypeOK, Idle
  <2>4. holder = "office"
    BY <1>3 DEF TypeOK
  <2>5. holder' \in {"nobody", "office", "script"} /\ (holder' = "office") = (signing' # Idle)
    BY <1>3, <2>4
  <2> QED BY <1>1, <1>3, <2>2, <2>3, <2>5 DEF TypeOK, Idle
<1> QED BY <1>2, <1>3 DEF IssueClaim

LEMMA TypesAreInductive == TypeOK /\ [Next]_vars => TypeOK'
<1> SUFFICES ASSUME TypeOK, [Next]_vars PROVE TypeOK'
  OBVIOUS
<1>1. ASSUME NEW mayCreate \in BOOLEAN, Start(mayCreate) PROVE TypeOK'
  <2>1. cell' \in Directory /\ keys' \in 0 .. MaxKeys
    <3>1. CASE UNCHANGED <<cell, keys>>
      BY <3>1 DEF TypeOK
    <3>2. CASE Created
      <4>1. keys + 1 \in KeyId /\ keys' = keys + 1
        BY <3>2, HandoverAssumption DEF Created, KeyId, TypeOK
      <4> QED BY <3>2, <4>1 DEF Created, Directory, KeyId
    <3> QED BY <1>1, <3>1, <3>2 DEF Start
  <2> QED BY <1>1, <2>1 DEF Start, TypeOK, copying, bounds, Idle
<1>2. ASSUME NEW customer \in Customer, NEW items \in (SUBSET Item) \ {{}},
             OpenForSigning(customer, items)
      PROVE  TypeOK'
  <2>1. signing' = [customer |-> customer, left |-> items] /\ holder' = "office"
    BY <1>2 DEF OpenForSigning
  <2>2. signing' # Idle /\ signing' \in [customer : Customer \cup {Nobody}, left : SUBSET Item]
    BY <2>1 DEF Idle
  <2> QED BY <1>2, <2>1, <2>2 DEF OpenForSigning, TypeOK, copying, bounds, Idle
<1>3. CASE IssueClaim
  BY <1>3, SigningKeepsTypes
<1>4. CASE Stop
  <2>1. faults' \in 0 .. MaxFaults
    BY <1>4, FaultKeepsTypes DEF Stop, TypeOK
  <2>2. signing' \in [customer : Customer \cup {Nobody}, left : SUBSET Item]
    BY <1>4 DEF Stop, Idle
  <2> QED BY <1>4, <2>1, <2>2 DEF Stop, TypeOK, copying, Idle
<1>5. ASSUME NEW k \in ClaimId, Discharge(k) PROVE TypeOK'
  <2>1. cell.log[k] \in Claim
    BY <1>5, ElementOfSeq DEF Discharge, TypeOK, Directory
  <2>2. /\ cell.log[k].item \in Item /\ cell.log[k].id \in ClaimId \cup {None}
        /\ Nobody \in Customer \cup {Nobody} /\ "Discharged" \in Events
    BY <2>1 DEF Claim, Events
  <2>3. cell' \in Directory /\ issued' \in 0 .. MaxClaims
    BY <1>5, <2>2, IssuingKeepsTypes DEF Discharge
  <2> QED BY <1>5, <2>3 DEF Discharge, TypeOK, office, copying, bounds, Idle
<1>6. ASSUME NEW customer \in Customer, Receipt(customer) PROVE TypeOK'
  <2>1. HistoryFor(customer) \in Seq(Claim)
    BY HistoryIsTyped DEF HistoryFor, TypeOK, Directory
  <2>2. receipts' \in [Customer -> Seq(Claim)]
    BY <1>6, <2>1 DEF Receipt, TypeOK
  <2> QED BY <1>6, <2>2 DEF Receipt, TypeOK, office, copying, bounds, Idle
<1>7. CASE Script
  <2>1. UNCHANGED <<cell, writable, serving, signing, unproven, receipts, issued, keys, losses>>
    BY <1>7 DEF Script, CheckFiles, CopyKey, CopyLog, CompareSums, InspectSource, CloseSource, Verdict,
                CutShort, office, bounds
  <2>2. faults' \in 0 .. MaxFaults
    BY <1>7, FaultKeepsTypes DEF Script, CheckFiles, CopyKey, CopyLog, CompareSums,
                                 InspectSource, CloseSource, Verdict, CutShort, bounds, TypeOK
  <2>3. backup' \in Directory
    <3>1. CASE CopyKey \/ CopyLog
      BY ZenonT(40), <3>1 DEF CopyKey, CopyLog, TypeOK, Directory, Opens
    <3>2. CASE UNCHANGED backup
      BY <3>2 DEF TypeOK
    <3> QED BY <1>7, <3>1, <3>2 DEF Script, CheckFiles, CompareSums, InspectSource, CloseSource, Verdict,
                                    CutShort
  <2>4. seen' \in Directory
    <3>1. CASE InspectSource
      BY <3>1, InspectedIsTyped DEF TypeOK
    <3>2. CASE UNCHANGED seen
      BY <3>2 DEF TypeOK
    <3> QED BY <1>7, <3>1, <3>2 DEF Script, CheckFiles, CopyKey, CopyLog, CompareSums, CloseSource, Verdict,
                                    CutShort
  <2>5. verified' \in BOOLEAN
    BY <1>7 DEF Script, CheckFiles, CopyKey, CopyLog, CompareSums, InspectSource, CloseSource, Verdict,
                CutShort, TypeOK
  <2>6. script' \in {"idle", "key", "log", "sums", "inspect", "counting", "verdict"}
    BY <1>7 DEF Script, CheckFiles, CopyKey, CopyLog, CompareSums, InspectSource, CloseSource, Verdict,
                CutShort, TypeOK
  <2>7. /\ holder' \in {"nobody", "office", "script"}
        /\ (holder' = "office") = (holder = "office")
    <3>1. CASE UNCHANGED holder
      BY <3>1 DEF TypeOK
    <3>2. CASE ScriptLetsGo
      BY <3>2 DEF ScriptLetsGo, TypeOK
    <3>3. CASE holder = "nobody" /\ holder' = "script"
      BY <3>3
    <3> QED BY <1>7, <3>1, <3>2, <3>3 DEF Script, CheckFiles, CopyKey, CopyLog, CompareSums,
               InspectSource, CanOpen, CloseSource, Verdict, CutShort, office
  <2> QED BY <2>1, <2>2, <2>3, <2>4, <2>5, <2>6, <2>7 DEF TypeOK, Idle
<1>8. ASSUME NEW lost \in BOOLEAN, NEW readWrite \in BOOLEAN, Redeploy(lost, readWrite)
      PROVE  TypeOK'
  <2>1. losses' \in 0 .. MaxLosses
    BY <1>8, HandoverAssumption DEF Redeploy, TypeOK
  <2>2. cell' \in Directory
    BY <1>8 DEF Redeploy, TypeOK, Directory, Empty
  <2>3. /\ holder' \in {"nobody", "office", "script"}
        /\ (holder' = "office") = (holder = "office")
    BY <1>8 DEF Redeploy, ScriptLetsGo, TypeOK
  <2> QED BY <1>8, <2>1, <2>2, <2>3 DEF Redeploy, TypeOK, copying, Idle
<1>9. ASSUME NEW key \in BOOLEAN, NEW log \in BOOLEAN, Restore(key, log) PROVE TypeOK'
  <2>1. cell' \in Directory
    BY <1>9 DEF Restore, TypeOK, Directory
  <2> QED BY <1>9, <2>1 DEF Restore, TypeOK, office, copying, bounds, Idle
<1>10. CASE Confirm
  <2>1. cell' \in Directory
    BY <1>10 DEF Confirm, TypeOK, Directory, Empty
  <2> QED BY <1>10, <2>1 DEF Confirm, TypeOK, office, copying, bounds, Idle
<1>11. CASE UNCHANGED vars
  BY <1>11 DEF vars, office, copying, bounds, TypeOK, Idle
<1> QED
  BY <1>1, <1>2, <1>3, <1>4, <1>5, <1>6, <1>7, <1>8, <1>9, <1>10, <1>11 DEF Next

LEMMA TypesAtFirst == Init => TypeOK
<1> SUFFICES ASSUME Init PROVE TypeOK
  OBVIOUS
<1>1. {cell, backup, seen} \subseteq Directory
  BY DEF Init, Directory, Empty
<1>2. receipts \in [Customer -> Seq(Claim)]
  BY DEF Init
<1>3. signing \in [customer : Customer \cup {Nobody}, left : SUBSET Item]
  BY DEF Init, Idle
<1>4. /\ issued \in 0 .. MaxClaims /\ keys \in 0 .. MaxKeys
      /\ losses \in 0 .. MaxLosses /\ faults \in 0 .. MaxFaults
  BY HandoverAssumption DEF Init
<1>5. /\ {writable, serving, unproven, verified} \subseteq BOOLEAN
      /\ holder = "nobody" /\ signing = Idle /\ script = "idle"
  BY DEF Init
<1> QED BY <1>1, <1>2, <1>3, <1>4, <1>5 DEF TypeOK

\* Claims, keys and receipts keep their types and their bounds, and the office holds
\* the cell exactly while a publication is being signed (signing.rs:168-229).
THEOREM CellIsTyped == Spec => []TypeOK
BY TypesAtFirst, TypesAreInductive, PTL DEF Spec

-----------------------------------------------------------------------------
(* What was once on a receipt *)

\* Strengthening: as long as no volume is lost, a cell that once was made still
\* is, so there is nothing to restore or to clear away, and what stands on a
\* receipt is the beginning of what would stand on the next.
Recorded ==
  losses = 0 =>
    /\ ~unproven
    /\ \/ Opens(cell)
       \/ /\ cell = Empty /\ backup = Empty
          /\ script = "idle"
    /\ \A c \in Customer : IsPrefix(receipts[c], HistoryFor(c))

LEMMA IssuingKeepsRecorded ==
  ASSUME TypeOK, Recorded, Opens(cell), UNCHANGED <<losses, unproven, receipts>>,
         NEW event \in Events, NEW item \in Item,
         NEW counterparty \in Customer \cup {Nobody}, NEW acknowledges \in ClaimId \cup {None},
         IssueBody(event, item, counterparty, acknowledges)
  PROVE  Recorded'
<1>1. PICK claim \in Claim : cell'.log = Append(cell.log, claim) /\ cell'.key = cell.key
  BY IssuingAppends DEF TypeOK, Typed
<1>2. ASSUME losses = 0, NEW c \in Customer
      PROVE  IsPrefix(receipts[c], HistoryIn(cell'.log, c))
  <2>1. /\ cell.log \in Seq(Claim) /\ receipts[c] \in Seq(Claim)
        /\ IsPrefix(receipts[c], HistoryIn(cell.log, c))
    BY <1>2 DEF TypeOK, Directory, Recorded, HistoryFor
  <2>2. /\ HistoryIn(cell.log, c) \in Seq(Claim)
        /\ \/ HistoryIn(cell'.log, c) = Append(HistoryIn(cell.log, c), claim)
           \/ HistoryIn(cell'.log, c) = HistoryIn(cell.log, c)
    BY <1>1, <2>1, HistoryGrows
  <2> QED BY <2>1, <2>2, PrefixOfLonger
<1>3. losses = 0 => ~unproven' /\ Opens(cell')
  BY <1>1 DEF Recorded, Opens
<1>4. losses = 0 => \A c \in Customer : IsPrefix(receipts'[c], HistoryIn(cell'.log, c))
  BY <1>2
<1> QED BY <1>3, <1>4 DEF Recorded, HistoryFor, Opens

LEMMA RecordedIsInductive ==
  TypeOK /\ TypeOK' /\ Served /\ Recorded /\ [Next]_vars => Recorded'
<1> SUFFICES ASSUME TypeOK, TypeOK', Served, Recorded, [Next]_vars PROVE Recorded'
  OBVIOUS
<1>1. ASSUME NEW mayCreate \in BOOLEAN, Start(mayCreate) PROVE Recorded'
  <2>1. UNCHANGED <<losses, unproven, receipts, backup, script>>
    BY <1>1 DEF Start, bounds, copying
  <2>2. CASE UNCHANGED cell
    BY <2>1, <2>2 DEF Recorded, Opens, HistoryFor
  <2>3. CASE Created /\ ~CanOpen
    <3>1. losses = 0 => cell.log = <<>>
      BY <2>3 DEF Created, CanOpen, Recorded, Empty
    <3>2. cell'.log = <<>> /\ cell'.key = keys + 1 /\ keys \in Nat
      BY <2>3 DEF Created, TypeOK
    <3> QED BY <2>1, <3>1, <3>2 DEF Recorded, Opens, HistoryFor, None
  <2> QED BY <1>1, <2>2, <2>3 DEF Start
<1>2. ASSUME NEW customer \in Customer, NEW items \in (SUBSET Item) \ {{}},
             OpenForSigning(customer, items)
      PROVE  Recorded'
  BY <1>2 DEF OpenForSigning, bounds, copying, Recorded, Opens, HistoryFor
<1>3. CASE IssueClaim
  <2>1. UNCHANGED <<losses, unproven, receipts, backup, script>> /\ Opens(cell)
    BY <1>3 DEF IssueClaim, copying, Served
  <2>2. CASE UNCHANGED cell
    BY <2>1, <2>2 DEF Recorded, Opens, HistoryFor
  <2>3. ASSUME NEW item \in signing.left, IssueBody("Released", item, signing.customer, None)
        PROVE  Recorded'
    <3>1. /\ item \in Item /\ signing.customer \in Customer \cup {Nobody}
          /\ "Released" \in Events /\ None \in ClaimId \cup {None}
      BY DEF TypeOK, Events
    <3> QED BY <2>1, <2>3, <3>1, IssuingKeepsRecorded
  <2> QED BY <1>3, <2>2, <2>3 DEF IssueClaim
<1>4. CASE Stop
  BY <1>4 DEF Stop, copying, Recorded, Opens, HistoryFor
<1>5. ASSUME NEW k \in ClaimId, Discharge(k) PROVE Recorded'
  <2>1. cell.log[k] \in Claim
    BY <1>5, ElementOfSeq DEF Discharge, TypeOK, Directory
  <2>2. /\ cell.log[k].item \in Item /\ cell.log[k].id \in ClaimId \cup {None}
        /\ Nobody \in Customer \cup {Nobody} /\ "Discharged" \in Events
    BY <2>1 DEF Claim, Events
  <2> QED BY <1>5, <2>2, IssuingKeepsRecorded DEF Discharge, CanOpen, bounds
<1>6. ASSUME NEW customer \in Customer, Receipt(customer) PROVE Recorded'
  <2>1. UNCHANGED <<losses, unproven, cell, backup, script>>
    BY <1>6 DEF Receipt, bounds, copying
  <2>2. ASSUME losses = 0, NEW c \in Customer PROVE IsPrefix(receipts'[c], HistoryIn(cell.log, c))
    <3>1. HistoryIn(cell.log, c) \in Seq(Claim)
      BY HistoryIsTyped DEF TypeOK, Directory
    <3>2. CASE c = customer
      <4>1. receipts'[c] = HistoryIn(cell.log, c)
        BY <1>6, <3>2 DEF Receipt, TypeOK, HistoryFor
      <4> QED BY <3>1, <4>1, PrefixOfItself
    <3>3. CASE c # customer
      BY <1>6, <2>2, <3>3 DEF Receipt, TypeOK, Recorded, HistoryFor
    <3> QED BY <3>2, <3>3
  <2> QED BY <2>1, <2>2 DEF Recorded, Opens, HistoryFor
<1>7. CASE Script
  <2>1. UNCHANGED <<losses, unproven, cell, receipts>>
    BY <1>7 DEF Script, CheckFiles, CopyKey, CopyLog, CompareSums, InspectSource, CloseSource, Verdict,
                CutShort, bounds
  <2>2. Opens(cell) \/ script # "idle"
    BY <1>7 DEF Script, CheckFiles, CopyKey, CopyLog, CompareSums, InspectSource, CloseSource, Verdict,
                CutShort, Whole, Opens
  <2>3. losses = 0 => ~unproven /\ Opens(cell)
    BY <2>2 DEF Recorded
  <2> QED BY <2>1, <2>3 DEF Recorded, Opens, HistoryFor
<1>8. ASSUME NEW lost \in BOOLEAN, NEW readWrite \in BOOLEAN, Redeploy(lost, readWrite)
      PROVE  Recorded'
  <2>1. CASE lost
    BY <1>8, <2>1 DEF Redeploy, Recorded, TypeOK
  <2>2. CASE ~lost
    BY <1>8, <2>2 DEF Redeploy, copying, Recorded, Opens, HistoryFor
  <2> QED BY <2>1, <2>2
<1>9. ASSUME NEW key \in BOOLEAN, NEW log \in BOOLEAN, Restore(key, log) PROVE Recorded'
  BY <1>9 DEF Restore, bounds, Recorded, Opens, Empty
<1>10. CASE Confirm
  BY <1>10 DEF Confirm, bounds, Recorded
<1>11. CASE UNCHANGED vars
  BY <1>11 DEF vars, bounds, copying, Recorded, Opens, HistoryFor
<1> QED
  BY <1>1, <1>2, <1>3, <1>4, <1>5, <1>6, <1>7, <1>8, <1>9, <1>10, <1>11 DEF Next

LEMMA RecordedAtFirst == Init => Recorded
<1> SUFFICES ASSUME Init PROVE Recorded
  OBVIOUS
<1>1. ASSUME NEW c \in Customer PROVE IsPrefix(receipts[c], HistoryFor(c))
  <2>1. receipts[c] = <<>> /\ cell.log = <<>> /\ <<>> \in Seq(Claim)
    BY DEF Init, Empty
  <2> QED BY <2>1, HistoryIsTyped, EmptyIsPrefix DEF HistoryFor
<1> QED BY <1>1 DEF Init, Recorded

\* A receipt (studio.rs:149-190) says what earlier receipts said and then what
\* happened since, whatever is issued, discharged, copied or restarted between
\* the two, as long as no volume is lost.
THEOREM ReceiptsStand == Spec => ReceiptsOnlyGrow
<1>1. Init => TypeOK /\ Served /\ Recorded
  BY TypesAtFirst, RecordedAtFirst DEF Init, Served, Idle
<1>2. /\ TypeOK /\ Served /\ Recorded
      /\ [Next]_vars
      => (TypeOK /\ Served /\ Recorded)'
  BY TypesAreInductive, ServedIsInductive, RecordedIsInductive
<1>3. /\ TypeOK /\ Recorded
      /\ [Next]_vars
      => [losses = 0 => \A c \in Customer : IsPrefix(receipts[c], receipts'[c])]_vars
  <2> SUFFICES ASSUME TypeOK, Recorded, Next, losses = 0, NEW c \in Customer
               PROVE  IsPrefix(receipts[c], receipts'[c])
    OBVIOUS
  <2>1. receipts[c] \in Seq(Claim)
    BY DEF TypeOK
  <2>2. CASE UNCHANGED receipts
    BY <2>1, <2>2, PrefixOfItself
  <2>3. ASSUME NEW customer \in Customer, Receipt(customer)
        PROVE  IsPrefix(receipts[c], receipts'[c])
    <3>1. CASE c = customer
      BY <2>3, <3>1 DEF Receipt, TypeOK, Recorded
    <3>2. CASE c # customer
      <4>1. receipts'[c] = receipts[c]
        BY <2>3, <3>2 DEF Receipt, TypeOK
      <4> QED BY <2>1, <4>1, PrefixOfItself
    <3> QED BY <3>1, <3>2
  <2> QED
    BY <2>2, <2>3 DEF Next, Start, OpenForSigning, IssueClaim, Stop, Discharge, Script,
       CheckFiles, CopyKey, CopyLog, CompareSums, InspectSource, CloseSource, Verdict, CutShort, Redeploy,
       Restore, Confirm
<1> QED BY <1>1, <1>2, <1>3, PTL DEF Spec, ReceiptsOnlyGrow

-----------------------------------------------------------------------------
(* The chain *)

\* Strengthening: a batch is some customer's, and claims are numbered as they are
\* issued, so the next number is not in the chain.
Numbered ==
  /\ signing = Idle \/ signing.customer \in Customer
  /\ losses = 0 => \A k \in DOMAIN cell.log : cell.log[k].id <= issued

\* A claim that is issued extends the chain.
LEMMA IssuingExtends ==
  ASSUME TypeOK, Numbered, losses = 0, NEW event, NEW item, NEW counterparty, NEW acknowledges,
         IssueBody(event, item, counterparty, acknowledges), Opens(cell)
  PROVE  /\ Chain!Extend(issued + 1, event, item, counterparty, acknowledges)
         /\ issued + 1 \in ClaimId
         /\ \A k \in DOMAIN cell'.log : cell'.log[k].id <= issued'
<1>1. /\ cell.key # None /\ cell \in Directory /\ issued \in Nat
      /\ \A k \in DOMAIN cell.log : cell.log[k].id <= issued
  BY HandoverAssumption DEF TypeOK, Numbered, Opens
<1> DEFINE claim == [id |-> issued + 1, event |-> event, item |-> item,
                     counterparty |-> counterparty, acknowledges |-> acknowledges]
<1>2. /\ cell'.key = cell.key /\ cell'.log = Append(cell.log, claim) /\ issued' = issued + 1
      /\ issued < MaxClaims /\ cell.log \in Seq(Claim)
  BY <1>1 DEF IssueBody, Directory
<1>3. issued + 1 \in ClaimId
  BY <1>1, <1>2, HandoverAssumption DEF ClaimId
<1>4. \A k \in DOMAIN cell.log : cell.log[k].id # issued + 1
  <2> SUFFICES ASSUME NEW k \in DOMAIN cell.log PROVE cell.log[k].id # issued + 1
    OBVIOUS
  <2>1. cell.log[k] \in Claim
    BY <1>2, ElementOfSeq
  <2>2. cell.log[k].id \in Nat
    BY <2>1 DEF Claim, ClaimId
  <2> QED BY <1>1, <2>2
<1>5. ASSUME NEW k \in DOMAIN cell'.log PROVE cell'.log[k].id <= issued'
  <2>1. k \in 1 .. Len(cell.log) \/ k = Len(cell.log) + 1
    BY <1>2, <1>5
  <2>2. CASE k \in 1 .. Len(cell.log)
    <3>1. cell'.log[k] = cell.log[k] /\ k \in DOMAIN cell.log
      BY <1>2, <2>2
    <3>2. cell.log[k] \in Claim
      BY <1>2, <3>1, ElementOfSeq
    <3>3. cell.log[k].id \in Nat
      BY <3>2 DEF Claim, ClaimId
    <3> QED BY <1>1, <1>2, <3>1, <3>3
  <2>3. CASE k = Len(cell.log) + 1
    <3>1. cell'.log[k] = claim
      BY <1>2, <2>3
    <3> QED BY <1>1, <1>2, <3>1
  <2> QED BY <2>1, <2>2, <2>3
<1> QED BY <1>1, <1>2, <1>3, <1>4, <1>5 DEF Chain!Extend, Chain!Fresh

\* What a step does to the chain, and that the next number stays free.
LEMMA StepKeepsTheChain ==
  ASSUME TypeOK, Served, Recorded, Numbered, [Next]_vars, losses' = 0
  PROVE  /\ [Chain!Next]_<<cell.key, cell.log>>
         /\ \A k \in DOMAIN cell'.log : cell'.log[k].id <= issued'
<1>1. losses = 0
  BY DEF Next, Start, OpenForSigning, IssueClaim, Stop, Discharge, Receipt, Script, CheckFiles,
         CopyKey, CopyLog, CompareSums, InspectSource, CloseSource, Verdict, CutShort, Redeploy,
         Restore, Confirm, vars, bounds, TypeOK
<1>2. \A k \in DOMAIN cell.log : cell.log[k].id <= issued
  BY <1>1 DEF Numbered
<1>3. CASE UNCHANGED <<cell, issued>>
  BY <1>2, <1>3
<1>4. ASSUME Created, ~CanOpen
      PROVE  Chain!Begin /\ cell'.log = <<>>
  <2>1. cell = Empty
    BY <1>1, <1>4 DEF Created, CanOpen, Recorded
  <2>2. cell'.key # None /\ cell'.log = <<>>
    BY <1>4 DEF Created, None, TypeOK
  <2> QED BY <2>1, <2>2 DEF Empty, Chain!Begin
<1>5. ASSUME NEW item \in signing.left, signing # Idle,
             IssueBody("Released", item, signing.customer, None)
      PROVE  /\ Chain!Next
             /\ \A k \in DOMAIN cell'.log : cell'.log[k].id <= issued'
  <2>1. Opens(cell) /\ item \in Item /\ signing.customer \in Customer
    BY <1>5 DEF Served, Numbered, TypeOK
  <2>2. /\ Chain!Extend(issued + 1, "Released", item, signing.customer, None)
        /\ issued + 1 \in ClaimId
        /\ \A k \in DOMAIN cell'.log : cell'.log[k].id <= issued'
    BY <1>1, <1>5, <2>1, IssuingExtends
  <2>3. Chain!Release(issued + 1, item, signing.customer)
    BY <2>2 DEF Chain!Release
  <2> QED BY <2>1, <2>2, <2>3 DEF Chain!Next
<1>6. ASSUME NEW k \in ClaimId, Discharge(k)
      PROVE  /\ Chain!Next
             /\ \A j \in DOMAIN cell'.log : cell'.log[j].id <= issued'
  <2>1. /\ Opens(cell) /\ k \in DOMAIN cell.log /\ cell.log[k].event = "Released"
        /\ IssueBody("Discharged", cell.log[k].item, Nobody, cell.log[k].id)
    BY <1>6 DEF Discharge, CanOpen
  <2>2. /\ Chain!Extend(issued + 1, "Discharged", cell.log[k].item, Nobody, cell.log[k].id)
        /\ issued + 1 \in ClaimId
        /\ \A j \in DOMAIN cell'.log : cell'.log[j].id <= issued'
    BY <1>1, <2>1, IssuingExtends
  <2>3. Chain!Discharge(issued + 1, k)
    BY <2>1, <2>2 DEF Chain!Discharge
  <2> QED BY <2>1, <2>2, <2>3 DEF Chain!Next
<1>7. ASSUME NEW mayCreate \in BOOLEAN, Start(mayCreate)
      PROVE  UNCHANGED <<cell, issued>> \/ (Created /\ ~CanOpen)
  BY <1>7 DEF Start
<1>8. CASE IssueClaim
  BY <1>3, <1>5, <1>8 DEF IssueClaim
<1>9. ASSUME NEW lost \in BOOLEAN, NEW readWrite \in BOOLEAN, Redeploy(lost, readWrite)
      PROVE  UNCHANGED <<cell, issued>>
  BY <1>1, <1>9 DEF Redeploy
<1>10. ASSUME NEW key \in BOOLEAN, NEW log \in BOOLEAN, Restore(key, log)
       PROVE  FALSE
  BY <1>1, <1>10 DEF Restore, Recorded, Opens, Empty
<1>11. ~Confirm
  BY <1>1 DEF Confirm, Recorded
<1> QED
  BY <1>3, <1>4, <1>6, <1>7, <1>8, <1>9, <1>10, <1>11
     DEF Next, OpenForSigning, Stop, Receipt, Script, CheckFiles, CopyKey, CopyLog, CompareSums,
         InspectSource, CloseSource, Verdict, CutShort, vars, Chain!Next

LEMMA NumberedIsInductive ==
  TypeOK /\ Served /\ Recorded /\ Numbered /\ [Next]_vars => Numbered'
<1> SUFFICES ASSUME TypeOK, Served, Recorded, Numbered, [Next]_vars PROVE Numbered'
  OBVIOUS
<1>1. losses' = 0 => \A k \in DOMAIN cell'.log : cell'.log[k].id <= issued'
  BY StepKeepsTheChain
<1>2. signing' = Idle \/ signing'.customer \in Customer
  <2>1. ASSUME NEW customer \in Customer, NEW items \in (SUBSET Item) \ {{}},
               OpenForSigning(customer, items)
        PROVE  signing'.customer \in Customer
    BY <2>1 DEF OpenForSigning
  <2>2. CASE IssueClaim
    BY <2>2 DEF IssueClaim, Numbered, TypeOK
  <2>3. CASE Stop
    BY <2>3 DEF Stop
  <2>4. CASE signing' = signing
    BY <2>4 DEF Numbered
  <2> QED
    BY <2>1, <2>2, <2>3, <2>4 DEF Next, Start, Discharge, Receipt, Script, CheckFiles, CopyKey,
       CopyLog, CompareSums, InspectSource, CloseSource, Verdict, CutShort, Redeploy, Restore,
       Confirm, vars, office
<1> QED BY <1>1, <1>2 DEF Numbered, Idle

\* The cell is a claim chain (signing.rs:91-131, studio.rs:87-131): as long as no
\* volume is lost it has one identity, and is extended by releases and by
\* discharges of what it holds, whoever starts, stops, copies, inspects, restores
\* or finds the cell taken, with HANDOVER_CELL_INIT or without.
THEOREM CellIsOneChain == Spec => ChainIsKept
<1>1. Init => Chain!Init
  BY DEF Init, Empty, Chain!Init
<1>2. Init => TypeOK /\ Served /\ Recorded /\ Numbered
  BY TypesAtFirst, RecordedAtFirst DEF Init, Served, Numbered, Idle, Empty
<1>3. /\ TypeOK /\ Served /\ Recorded /\ Numbered
      /\ [Next]_vars
      => (TypeOK /\ Served /\ Recorded /\ Numbered)'
  BY TypesAreInductive, ServedIsInductive, RecordedIsInductive, NumberedIsInductive
<1>4. /\ TypeOK /\ Served /\ Recorded /\ Numbered
      /\ [Next]_vars
      => [losses' = 0 => Chain!Next]_<<cell.key, cell.log>>
  BY StepKeepsTheChain
<1> QED BY <1>1, <1>2, <1>3, <1>4, PTL DEF Spec, ChainIsKept
=============================================================================
