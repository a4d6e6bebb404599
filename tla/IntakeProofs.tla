----------------------------- MODULE IntakeProofs -----------------------------
(***************************************************************************)
(* What POST /bestall promises about the table, the mails and the answers, *)
(* for any number of visitors, requests in flight, rows, seconds and       *)
(* faults, and any settings of the limiter and the spam check.             *)
(***************************************************************************)
EXTENDS Intake, TLAPS

-----------------------------------------------------------------------------
(* The inductive invariant *)

Stage == {"studio", "mark", "receipt"}

\* A handler past its INSERT is about a row of the visitor it serves, and one
\* about to set notified_at has told the studio.
Founded(s) ==
  LET r == request[s] IN
  /\ r.pc # "free" => r.by \in Visitor
  /\ r.pc \in Stage => r.row \in Stored /\ orders[r.row].by = r.by
  /\ r.pc = "mark" /\ MailConfigured => r.row \in told

Inv ==
  /\ TypeOK
  /\ \A s \in Slot : Founded(s)
  /\ MailFollowsStore /\ ThanksMeansStored

\* What every step does to the table and the histories: rows are added and
\* marked, never taken back or given to somebody else.
TablesGrow ==
  /\ orders' \in [RowId -> Row] /\ told' \in SUBSET RowId /\ receipts' \in SUBSET RowId
  /\ \A r \in Stored : r \in Stored' /\ orders'[r].by = orders[r].by
  /\ told \subseteq told'
  /\ MailFollowsStore'

LEMMA SameTables == ASSUME Inv, UNCHANGED <<orders, told, receipts>> PROVE TablesGrow
  BY DEF Inv, TypeOK, TablesGrow, Stored, MailFollowsStore

\* A request keeps its place, is over, or has moved on to where it may be.
LEMMA RequestsFounded ==
  ASSUME Inv, TablesGrow,
         \A t \in Slot : \/ request'[t] = Free
                         \/ /\ request'[t].pc = request[t].pc
                            /\ request'[t].by = request[t].by
                            /\ request'[t].row = request[t].row
                         \/ Founded(t)'
  PROVE  \A t \in Slot : Founded(t)'
<1> SUFFICES ASSUME NEW t \in Slot PROVE Founded(t)'
  OBVIOUS
<1>1. CASE request'[t] = Free
  BY <1>1 DEF Founded, Free, Stage
<1>2. CASE /\ request'[t].pc = request[t].pc
           /\ request'[t].by = request[t].by
           /\ request'[t].row = request[t].row
  BY <1>2 DEF Founded, Inv, TablesGrow
<1> QED BY <1>1, <1>2

\* A page keeps what it shows, or does not thank anybody who is not suspect
\* without a row of theirs.
Thanks(v) ==
  page'[v].shows = "tack" /\ ~page'[v].suspect =>
    page'[v].about \in Stored' /\ orders'[page'[v].about].by = v

LEMMA PagesThank ==
  ASSUME Inv, TablesGrow, \A v \in Visitor : page'[v] = page[v] \/ Thanks(v)
  PROVE  ThanksMeansStored'
<1> SUFFICES ASSUME NEW v \in Visitor PROVE Thanks(v)
  BY DEF ThanksMeansStored, Thanks
<1>1. CASE page'[v] = page[v]
  BY <1>1 DEF Thanks, Inv, ThanksMeansStored, TablesGrow
<1> QED BY <1>1

LEMMA Constants ==
  /\ Free \in Handler /\ NoRow \in Row
  /\ \A shows \in {"form", "fix", "tack", "sorry", "busy", "broken"}, second \in Nat :
       Rendered(shows, second) \in Pages
  BY DEF Free, Handler, NoRow, Row, Kinds, Rendered, Pages

-----------------------------------------------------------------------------
(* Answering and moving on *)

\* When a handler may answer Tack.
MayThank(s) ==
  LET r == request[s] IN
  \/ r.trap \/ clock < r.opened + MIN_SECONDS_ON_PAGE
  \/ r.row \in Stored /\ orders[r.row].by = r.by

Shown == {"form", "fix", "tack", "sorry", "busy", "broken"}

LEMMA AnswerKeeps ==
  ASSUME Inv, TablesGrow, NEW s \in Slot, NEW shows \in Shown, Answer(s, shows),
         shows = "tack" => MayThank(s),
         full' \in [Address -> Nat], clock' = clock, faults' \in Nat
  PROVE  Inv'
<1> DEFINE r == request[s]
           answer == [shows |-> shows,
                      opened |-> IF shows \in {"tack", "fix"} THEN clock ELSE r.opened,
                      about |-> r.row,
                      suspect |-> r.trap \/ clock < r.opened + MIN_SECONDS_ON_PAGE]
<1>1. r \in Handler /\ clock \in Nat /\ request \in [Slot -> Handler] /\ page \in [Visitor -> Pages]
  BY DEF Inv, TypeOK
<1>2. /\ request' = [request EXCEPT ![s] = Free]
      /\ page' = IF r.watched THEN [page EXCEPT ![r.by] = answer] ELSE page
  BY DEF Answer
<1>3. request' \in [Slot -> Handler]
  BY <1>1, <1>2, Constants
<1>4. answer \in Pages
  BY <1>1, IntakeAssumption DEF Handler, Pages, Shown
<1>5. page' \in [Visitor -> Pages]
  BY <1>1, <1>2, <1>4
<1>6. \A t \in Slot : Founded(t)'
  <2>1. \A t \in Slot : request'[t] = Free \/ request'[t] = request[t]
    BY <1>1, <1>2
  <2> QED BY <2>1, RequestsFounded
<1>7. ThanksMeansStored'
  <2> SUFFICES ASSUME NEW v \in Visitor, page'[v] # page[v] PROVE Thanks(v)
    BY PagesThank
  <2>1. v = r.by /\ page'[v] = answer
    BY <1>1, <1>2
  <2>2. /\ answer.shows = shows /\ answer.about = r.row
        /\ answer.suspect <=> r.trap \/ clock < r.opened + MIN_SECONDS_ON_PAGE
    BY <1>1 DEF Handler
  <2>3. CASE shows = "tack" /\ ~answer.suspect
    <3>1. r.row \in Stored /\ orders[r.row].by = r.by
      BY <2>2, <2>3 DEF MayThank
    <3> QED BY <2>1, <2>2, <3>1 DEF Thanks, TablesGrow
  <2> QED BY <2>1, <2>2, <2>3 DEF Thanks
<1> QED BY <1>3, <1>5, <1>6, <1>7, <1>1 DEF Inv, TypeOK, TablesGrow

LEMMA MovesOn ==
  ASSUME Inv, TablesGrow, NEW s \in Slot, NEW run \in Handler,
         request' = [request EXCEPT ![s] = run], page' = page,
         run = Free \/ Founded(s)',
         full' \in [Address -> Nat], clock' = clock, faults' \in Nat
  PROVE  Inv'
<1>1. request' \in [Slot -> Handler] /\ clock \in Nat
  BY DEF Inv, TypeOK
<1>2. request'[s] = run /\ \A t \in Slot \ {s} : request'[t] = request[t]
  BY DEF Inv, TypeOK
<1>3. \A t \in Slot : Founded(t)'
  <2>1. \A t \in Slot : request'[t] = Free \/ request'[t] = request[t] \/ Founded(t)'
    BY <1>2
  <2> QED BY <2>1, RequestsFounded
<1>4. ThanksMeansStored'
  BY PagesThank
<1> QED BY <1>1, <1>3, <1>4 DEF Inv, TypeOK, TablesGrow
-----------------------------------------------------------------------------
(* The steps *)

\* What a handler in flight is, where it leaves table and histories alone.
LEMMA GotoKeeps ==
  ASSUME Inv, NEW s \in Slot, NEW pc \in {"judge", "store", "receipt"}, Goto(s, pc),
         pc = "receipt" => request[s].pc \in Stage,
         ~At(s, "free"), TablesGrow, page' = page,
         full' \in [Address -> Nat], clock' = clock, faults' \in Nat
  PROVE  Inv'
<1> DEFINE run == [request[s] EXCEPT !.pc = pc]
<1>1. request[s] \in Handler /\ Founded(s) /\ request \in [Slot -> Handler]
  BY DEF Inv, TypeOK
<1>2. run \in Handler /\ run.pc = pc /\ run.by = request[s].by /\ run.row = request[s].row
  BY <1>1 DEF Handler
<1>3. request' = [request EXCEPT ![s] = run]
  BY DEF Goto
<1>4. request'[s] = run
  BY <1>1, <1>3
<1>5. Founded(s)'
  BY <1>1, <1>2, <1>4 DEF Founded, Stage, At, TablesGrow
<1> HIDE DEF run
<1> QED BY <1>2, <1>3, <1>5, MovesOn

LEMMA LimitKeeps == ASSUME Inv, NEW s \in Slot, Limit(s) PROVE Inv'
<1> DEFINE a == AddressOf[request[s].by]
<1>1. TablesGrow /\ ~At(s, "free")
  BY SameTables DEF Limit, At
<1>2. faults' \in Nat /\ clock' = clock
  BY DEF Limit, Inv, TypeOK
<1>3. full' \in [Address -> Nat]
  <2>1. FullAfter(a) \in Nat \/ a \notin Address
    BY IntakeAssumption DEF FullAfter, Inv, TypeOK
  <2> QED BY <2>1 DEF Limit, Inv, TypeOK
<1>4. CASE WithinBurst(a)
  BY <1>1, <1>2, <1>3, <1>4, GotoKeeps DEF Limit
<1>5. CASE ~WithinBurst(a)
  BY <1>1, <1>2, <1>3, <1>5, AnswerKeeps DEF Limit, Shown
<1> QED BY <1>4, <1>5

LEMMA JudgeKeeps == ASSUME Inv, NEW s \in Slot, Judge(s) PROVE Inv'
<1>1. TablesGrow /\ ~At(s, "free")
  BY SameTables DEF Judge, At
<1>2. faults' \in Nat /\ clock' = clock /\ full' \in [Address -> Nat]
  BY DEF Judge, Inv, TypeOK
<1>3. CASE Check(request[s]) # "Clean"
  <2>1. MayThank(s)
    BY <1>3 DEF Check, MayThank
  <2> QED BY <1>1, <1>2, <1>3, <2>1, AnswerKeeps DEF Judge, Shown
<1>4. CASE Check(request[s]) = "Clean" /\ request[s].typed = "invalid"
  BY <1>1, <1>2, <1>4, AnswerKeeps DEF Judge, Shown
<1>5. CASE Check(request[s]) = "Clean" /\ request[s].typed # "invalid"
  BY <1>1, <1>2, <1>5, GotoKeeps DEF Judge
<1> QED BY <1>3, <1>4, <1>5

\* An INSERT takes an id that was free.
LEMMA InsertGrows ==
  ASSUME Inv, NEW s \in Slot, At(s, "store"), NEW r \in RowId, IsNext(r),
         orders' = [orders EXCEPT ![r] = RowOf(request[s])], UNCHANGED <<told, receipts>>
  PROVE  TablesGrow /\ r \in Stored' /\ orders'[r].by = request[s].by
<1>1. request[s] \in Handler /\ request[s].by \in Visitor
  BY DEF Inv, TypeOK, Founded, At
<1>2. /\ RowOf(request[s]) \in Row /\ RowOf(request[s]).by = request[s].by
      /\ RowOf(request[s]).notified = FALSE /\ RowOf(request[s]) # NoRow
  BY <1>1, IntakeAssumption DEF RowOf, Row, Handler, NoRow
<1>3. orders' \in [RowId -> Row] /\ r \notin Stored
  BY <1>2 DEF Inv, TypeOK, IsNext
<1>4. orders'[r] = RowOf(request[s]) /\ \A q \in RowId \ {r} : orders'[q] = orders[q]
  BY DEF Inv, TypeOK
<1>5. Stored' = Stored \cup {r}
  BY <1>2, <1>4 DEF Stored
<1>6. MailFollowsStore'
  BY <1>2, <1>3, <1>4, <1>5 DEF Inv, MailFollowsStore, Stored
<1> QED BY <1>2, <1>3, <1>4, <1>5, <1>6 DEF TablesGrow, Inv, TypeOK, Stored

LEMMA StoreKeeps == ASSUME Inv, NEW s \in Slot, Store(s) PROVE Inv'
<1>1. At(s, "store") /\ request[s] \in Handler /\ Founded(s) /\ request \in [Slot -> Handler]
  BY DEF Store, Inv, TypeOK
<1>2. clock' = clock /\ full' \in [Address -> Nat] /\ UNCHANGED <<told, receipts>>
  BY DEF Store, Inv, TypeOK
<1>3. PICK r \in RowId :
        LET insert == orders' = [orders EXCEPT ![r] = RowOf(request[s])]
        IN  /\ IsNext(r)
            /\ \/ /\ insert
                  /\ request' = [request EXCEPT ![s] = [@ EXCEPT !.pc = "studio", !.row = r]]
                  /\ UNCHANGED <<page, faults>>
               \/ (insert \/ UNCHANGED orders) /\ Fault /\ Answer(s, "sorry")
  BY DEF Store
<1>4. CASE /\ orders' = [orders EXCEPT ![r] = RowOf(request[s])]
           /\ request' = [request EXCEPT ![s] = [@ EXCEPT !.pc = "studio", !.row = r]]
           /\ UNCHANGED <<page, faults>>
  <2> DEFINE run == [request[s] EXCEPT !.pc = "studio", !.row = r]
  <2>1. TablesGrow /\ r \in Stored' /\ orders'[r].by = request[s].by
    BY <1>1, <1>2, <1>3, <1>4, InsertGrows
  <2>2. run \in Handler /\ run.pc = "studio" /\ run.by = request[s].by /\ run.row = r
    BY <1>1 DEF Handler
  <2>3. request'[s] = run /\ request' = [request EXCEPT ![s] = run]
    BY <1>1, <1>4
  <2>4. Founded(s)'
    BY <1>1, <2>1, <2>2, <2>3 DEF Founded, Stage, At
  <2>5. faults' \in Nat /\ page' = page
    BY <1>4 DEF Inv, TypeOK
  <2> HIDE DEF run
  <2> QED BY <1>2, <2>1, <2>2, <2>3, <2>4, <2>5, MovesOn
<1>5. CASE (orders' = [orders EXCEPT ![r] = RowOf(request[s])] \/ UNCHANGED orders)
           /\ Fault /\ Answer(s, "sorry")
  <2>1. TablesGrow
    BY <1>1, <1>2, <1>3, <1>5, InsertGrows, SameTables
  <2>2. faults' \in Nat
    BY <1>5 DEF Fault, Inv, TypeOK
  <2> QED BY <1>2, <1>5, <2>1, <2>2, AnswerKeeps DEF Shown
<1> QED BY <1>3, <1>4, <1>5

LEMMA NotifyStudioKeeps == ASSUME Inv, NEW s \in Slot, NotifyStudio(s) PROVE Inv'
<1> DEFINE r == request[s]
<1>1. /\ r.pc = "studio" /\ r \in Handler /\ Founded(s) /\ request \in [Slot -> Handler]
      /\ r.row \in Stored /\ r.row \in RowId
  BY DEF NotifyStudio, At, Inv, TypeOK, Founded, Stage, Stored
<1>2. /\ clock' = clock /\ full' \in [Address -> Nat] /\ page' = page
      /\ UNCHANGED <<orders, receipts>>
  BY DEF NotifyStudio, Inv, TypeOK
<1>3. faults' \in Nat
  BY DEF NotifyStudio, SendFails, Fault, Inv, TypeOK
<1>4. told' \in {told, told \cup {r.row}}
  BY DEF NotifyStudio, Sends, SendFails
<1>5. TablesGrow
  BY <1>1, <1>2, <1>4 DEF TablesGrow, Inv, TypeOK, MailFollowsStore, Stored
<1>6. CASE Goto(s, "receipt")
  BY <1>1, <1>2, <1>3, <1>5, <1>6, GotoKeeps DEF Stage, At
<1>7. CASE Goto(s, "mark")
  <2> DEFINE run == [r EXCEPT !.pc = "mark"]
  <2>1. MailConfigured => r.row \in told'
    <3>1. request'[s].pc = "mark"
      BY <1>1, <1>7 DEF Goto, Handler
    <3>2. ~Goto(s, "receipt")
      BY <1>1, <3>1 DEF Goto, Handler
    <3> QED BY <3>2 DEF NotifyStudio, Sends
  <2>2. run \in Handler /\ run.pc = "mark" /\ run.by = r.by /\ run.row = r.row
    BY <1>1 DEF Handler
  <2>3. request' = [request EXCEPT ![s] = run] /\ request'[s] = run
    BY <1>1, <1>7 DEF Goto
  <2>4. Founded(s)'
    BY <1>1, <1>5, <2>1, <2>2, <2>3 DEF Founded, Stage, TablesGrow
  <2> HIDE DEF run
  <2> QED BY <1>2, <1>3, <1>5, <2>2, <2>3, <2>4, MovesOn
<1> QED BY <1>6, <1>7 DEF NotifyStudio

LEMMA MarkNotifiedKeeps == ASSUME Inv, NEW s \in Slot, MarkNotified(s) PROVE Inv'
<1> DEFINE r == request[s].row
<1>1. /\ request[s].pc = "mark" /\ Founded(s) /\ r \in Stored /\ r \in RowId
      /\ MailConfigured => r \in told
  BY DEF MarkNotified, At, Inv, TypeOK, Founded, Stage, Stored
<1>2. /\ clock' = clock /\ full' \in [Address -> Nat] /\ page' = page
      /\ Goto(s, "receipt") /\ UNCHANGED <<told, receipts>>
  BY DEF MarkNotified, Inv, TypeOK
<1>3. faults' \in Nat
  BY DEF MarkNotified, Fault, Inv, TypeOK
<1>4. CASE UNCHANGED orders
  BY <1>1, <1>2, <1>3, <1>4, SameTables, GotoKeeps DEF Stage, At
<1>5. CASE orders' = [orders EXCEPT ![r].notified = TRUE]
  <2>1. /\ orders' \in [RowId -> Row] /\ orders'[r].notified = TRUE
        /\ \A q \in RowId : orders'[q].by = orders[q].by
        /\ \A q \in RowId \ {r} : orders'[q] = orders[q]
    BY <1>1, <1>5 DEF Inv, TypeOK, Row
  <2>2. Stored' = Stored
    BY <1>1, <2>1 DEF Stored, NoRow
  <2>3. TablesGrow
    BY <1>1, <1>2, <2>1, <2>2 DEF TablesGrow, Inv, TypeOK, MailFollowsStore, Stored
  <2> QED BY <1>1, <1>2, <1>3, <2>3, GotoKeeps DEF Stage, At
<1> QED BY <1>4, <1>5 DEF MarkNotified

LEMMA SendReceiptKeeps == ASSUME Inv, NEW s \in Slot, SendReceipt(s) PROVE Inv'
<1> DEFINE r == request[s]
<1>1. r.pc = "receipt" /\ r.row \in Stored /\ r.row \in RowId /\ orders[r.row].by = r.by
  BY DEF SendReceipt, At, Inv, TypeOK, Founded, Stage, Stored
<1>2. /\ clock' = clock /\ full' \in [Address -> Nat] /\ Answer(s, "tack")
      /\ UNCHANGED <<orders, told>>
  BY DEF SendReceipt, Inv, TypeOK
<1>3. faults' \in Nat
  BY DEF SendReceipt, SendFails, Fault, Inv, TypeOK
<1>4. receipts' \in {receipts, receipts \cup {r.row}}
  BY DEF SendReceipt, Sends, SendFails
<1>5. TablesGrow
  BY <1>1, <1>2, <1>4 DEF TablesGrow, Inv, TypeOK, MailFollowsStore, Stored
<1> QED BY <1>1, <1>2, <1>3, <1>5, AnswerKeeps DEF MayThank, Shown

-----------------------------------------------------------------------------
(* The world *)

LEMMA UnwatchedIsTheSame ==
  ASSUME Inv, NEW v \in Visitor
  PROVE  /\ Unwatched(v) \in [Slot -> Handler]
         /\ \A t \in Slot : /\ Unwatched(v)[t].pc = request[t].pc
                            /\ Unwatched(v)[t].by = request[t].by
                            /\ Unwatched(v)[t].row = request[t].row
  BY ZenonT(40) DEF Inv, TypeOK, Unwatched, Handler

LEMMA IndexKeeps == ASSUME Inv, NEW v \in Visitor, Index(v) PROVE Inv'
<1>1. TablesGrow
  BY SameTables DEF Index
<1>2. request' \in [Slot -> Handler] /\ \A t \in Slot : Founded(t)'
  BY <1>1, UnwatchedIsTheSame, RequestsFounded DEF Index
<1>3. Rendered("form", clock) \in Pages /\ Rendered("form", clock).shows = "form"
  BY Constants DEF Inv, TypeOK, Rendered
<1>4. page' \in [Visitor -> Pages]
  BY <1>3 DEF Index, Inv, TypeOK
<1>5. ThanksMeansStored'
  <2>1. \A u \in Visitor : page'[u] = page[u] \/ page'[u] = Rendered("form", clock)
    BY DEF Index, Inv, TypeOK
  <2> QED BY <1>1, <1>3, <2>1, PagesThank DEF Thanks
<1> QED BY <1>1, <1>2, <1>4, <1>5 DEF Index, Inv, TypeOK, TablesGrow

LEMMA PostKeeps ==
  ASSUME Inv, NEW v \in Visitor, NEW s \in Slot, NEW typed \in Typed, NEW trap \in BOOLEAN,
         NEW dated \in BOOLEAN, Post(v, s, typed, trap, dated)
  PROVE  Inv'
<1> DEFINE run == [pc |-> "limiter", by |-> v, watched |-> TRUE, typed |-> typed,
                   trap |-> trap, dated |-> dated, opened |-> page[v].opened, row |-> None]
<1>1. TablesGrow
  BY SameTables DEF Post
<1>2. request' = [Unwatched(v) EXCEPT ![s] = run]
  BY DEF Post
<1>3. run \in Handler /\ run.pc = "limiter" /\ run.by = v
  BY IntakeAssumption DEF Handler, Inv, TypeOK, Pages
<1> HIDE DEF run
<1>4. request' \in [Slot -> Handler]
  BY <1>2, <1>3, UnwatchedIsTheSame
<1>5. \A t \in Slot : Founded(t)'
  <2>1. \A t \in Slot : request'[t] = IF t = s THEN run ELSE Unwatched(v)[t]
    BY <1>2, UnwatchedIsTheSame
  <2>2. Founded(s)'
    BY <1>3, <2>1 DEF Founded, Stage
  <2> QED BY <1>1, <2>1, <2>2, UnwatchedIsTheSame, RequestsFounded
<1>6. ThanksMeansStored'
  BY <1>1, PagesThank DEF Post
<1> QED BY <1>1, <1>4, <1>5, <1>6 DEF Post, Inv, TypeOK, TablesGrow

LEMMA TickKeeps == ASSUME Inv, Tick PROVE Inv'
<1>1. TablesGrow
  BY SameTables DEF Tick
<1>2. \A t \in Slot : Founded(t)'
  BY <1>1, RequestsFounded DEF Tick
<1>3. ThanksMeansStored'
  BY <1>1, PagesThank DEF Tick
<1> QED BY <1>1, <1>2, <1>3 DEF Tick, Inv, TypeOK, TablesGrow

LEMMA DisconnectKeeps == ASSUME Inv, NEW s \in Slot, Disconnect(s) PROVE Inv'
<1>1. TablesGrow
  BY SameTables DEF Disconnect
<1>2. faults' \in Nat
  BY DEF Disconnect, Fault, Inv, TypeOK
<1> QED BY <1>1, <1>2, Constants, MovesOn DEF Disconnect, Inv, TypeOK

LEMMA CrashKeeps == ASSUME Inv, Crash PROVE Inv'
<1> DEFINE broken(v) == [page[v] EXCEPT !.shows = "broken", !.about = None]
<1>1. TablesGrow
  BY SameTables DEF Crash
<1>2. \A v \in Visitor : page'[v] = page[v] \/ page'[v] = broken(v)
  BY DEF Crash
<1>3. \A v \in Visitor : broken(v) \in Pages /\ broken(v).shows = "broken"
  BY DEF Inv, TypeOK, Pages
<1>4. page' \in [Visitor -> Pages]
  <2>1. DOMAIN page' = Visitor /\ page' = [v \in Visitor |-> page'[v]]
    BY DEF Crash
  <2>2. page \in [Visitor -> Pages]
    BY DEF Inv, TypeOK
  <2>3. \A v \in Visitor : page'[v] \in Pages
    BY <1>2, <1>3, <2>2
  <2> QED BY <2>1, <2>3
<1>5. request' \in [Slot -> Handler] /\ \A t \in Slot : Founded(t)'
  BY <1>1, Constants, RequestsFounded DEF Crash
<1>6. ThanksMeansStored'
  <2>1. \A v \in Visitor : page'[v] = page[v] \/ page'[v].shows = "broken"
    BY <1>2, <1>3
  <2> QED BY <1>1, <2>1, PagesThank DEF Thanks
<1>7. full' = [a \in Address |-> 0] /\ faults' = faults + 1 /\ clock' = clock
  BY DEF Crash, Fault
<1>8. full' \in [Address -> Nat] /\ faults' \in Nat /\ clock' \in Nat
  BY <1>7 DEF Inv, TypeOK
<1> QED BY <1>1, <1>4, <1>5, <1>6, <1>8 DEF Inv, TypeOK, TablesGrow

-----------------------------------------------------------------------------
(* Theorems *)

LEMMA Starts == Init => Inv
<1> SUFFICES ASSUME Init PROVE Inv
  OBVIOUS
<1>1. Stored = {}
  BY DEF Init, Stored
<1>2. TypeOK
  BY Constants DEF Init, TypeOK
<1>3. \A s \in Slot : Founded(s)
  BY DEF Init, Founded, Free, Stage
<1>4. MailFollowsStore
  BY <1>1 DEF Init, MailFollowsStore
<1>5. ThanksMeansStored
  BY DEF Init, ThanksMeansStored, Rendered
<1> QED BY <1>2, <1>3, <1>4, <1>5 DEF Inv

LEMMA Keeps == Inv /\ [Next]_vars => Inv'
<1> SUFFICES ASSUME Inv, [Next]_vars PROVE Inv'
  OBVIOUS
<1>1. CASE UNCHANGED vars
  <2>1. TablesGrow
    BY <1>1, SameTables DEF vars
  <2>2. \A t \in Slot : Founded(t)'
    BY <1>1, <2>1, RequestsFounded DEF vars
  <2>3. ThanksMeansStored'
    BY <1>1, <2>1, PagesThank DEF vars
  <2> QED BY <1>1, <2>1, <2>2, <2>3 DEF vars, Inv, TypeOK, TablesGrow
<1>2. ASSUME NEW s \in Slot, Serve(s) PROVE Inv'
  BY <1>2, LimitKeeps, JudgeKeeps, StoreKeeps, NotifyStudioKeeps, MarkNotifiedKeeps,
     SendReceiptKeeps DEF Serve
<1>3. ASSUME Environment PROVE Inv'
  BY <1>3, IndexKeeps, PostKeeps, TickKeeps, CrashKeeps, DisconnectKeeps DEF Environment
<1> QED BY <1>1, <1>2, <1>3 DEF Next

LEMMA Always == Spec => []Inv
BY Starts, Keeps, PTL DEF Spec

\* The table, the handlers and the pages keep their types, with any number of
\* visitors, requests in flight, rows and faults.
THEOREM TypeCorrect == Spec => []TypeOK
<1>1. Inv => TypeOK
  BY DEF Inv
<1> QED BY <1>1, Always, PTL

\* routes.rs:151 "Persist first, notify second": no mail without its row, and no
\* notified_at without the mail, however handlers interleave, fail or are dropped.
THEOREM NothingAnnouncedUnstored == Spec => []MailFollowsStore
<1>1. Inv => MailFollowsStore
  BY DEF Inv
<1> QED BY <1>1, Always, PTL

\* A person who takes the time spam::check asks for, and leaves the honeypot
\* alone, reads Tack only about a stored row that is theirs.
THEOREM ThanksAreForAnOrder == Spec => []ThanksMeansStored
<1>1. Inv => ThanksMeansStored
  BY DEF Inv
<1> QED BY <1>1, Always, PTL
=============================================================================
