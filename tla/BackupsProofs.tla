---------------------------- MODULE BackupsProofs ----------------------------
(***************************************************************************)
(* What the dump scripts promise, for any tables, number of runs by hand,  *)
(* retention, faults and nights slept through.                             *)
(***************************************************************************)
EXTENDS Backups, FiniteSetTheorems, TLAPS

-----------------------------------------------------------------------------
(* Types *)

\* Strengthening of TypeOK: no two runs verify under one process id.
OneHolder ==
  \A r, s \in Script, p \in Pid : Verifies(r, p) /\ Verifies(s, p) => r = s

TypeInv == TypeOK /\ OneHolder

LEMMA ConstantTypes ==
  /\ NoFile \in File /\ Idle \in Run /\ ~Live(Idle)
  /\ Idle.pc = "idle" /\ Idle.name = 0 /\ Idle.at = 1
<1>1. [t \in Table |-> 0] \in Source
  BY BackupsAssumption DEF Source
<1>2. (CHOOSE p \in Pid : TRUE) \in Pid
  BY BackupsAssumption
<1> QED BY <1>1, <1>2, BackupsAssumption DEF NoFile, File, Idle, Run, Name, Live

\* What becomes of the throwaway databases when one run moves on.
Keeps(s, run) ==
  /\ Live(run) <=> Live(script[s])
  /\ run.pid = script[s].pid
  /\ scratch' = scratch

Takes(s, run) ==
  /\ ~Live(script[s]) /\ Live(run)
  /\ \A r \in Script : ~Verifies(r, run.pid)
  /\ scratch' = [scratch EXCEPT ![run.pid] = "own"]

Drops(s, run) ==
  /\ Live(script[s]) /\ ~Live(run)
  /\ \E what \in {"none", "left"} : scratch' = [scratch EXCEPT ![script[s].pid] = what]

Rests(s, run) == ~Live(script[s]) /\ ~Live(run) /\ scratch' = scratch

LEMMA MovingOn ==
  ASSUME TypeInv, NEW s \in Script, NEW run \in Run,
         script' = [script EXCEPT ![s] = run],
         Keeps(s, run) \/ Takes(s, run) \/ Drops(s, run) \/ Rests(s, run),
         source' \in Source, files' \in [Name -> File], clock' \in Name,
         proved' \in [Name -> Source \cup {Nothing}], crowded' \in BOOLEAN, faults' \in Nat
  PROVE  TypeInv'
<1>1. script \in [Script -> Run] /\ scratch \in [Pid -> {"none", "own", "left"}]
  BY DEF TypeInv, TypeOK
<1>2. \A r \in Script : script'[r] = IF r = s THEN run ELSE script[r]
  BY <1>1
<1>3. \A r \in Script : script[r].pid \in Pid
  BY <1>1 DEF Run
<1>4. run.pid \in Pid
  BY DEF Run
<1>5. \A r \in Script, p \in Pid :
        Verifies(r, p)' <=> IF r = s THEN Live(run) /\ run.pid = p ELSE Verifies(r, p)
  BY <1>2 DEF Verifies, Live
<1>6. \A p \in Pid : scratch[p] = "own" <=> \E r \in Script : Verifies(r, p)
  BY DEF TypeInv, TypeOK
<1>7. /\ scratch' \in [Pid -> {"none", "own", "left"}]
      /\ \A p \in Pid : scratch'[p] = "own" <=> \E r \in Script : Verifies(r, p)'
      /\ OneHolder'
  <2>1. CASE Keeps(s, run)
    BY <2>1, <1>1, <1>3, <1>5, <1>6 DEF Keeps, Verifies, TypeInv, OneHolder
  <2>2. CASE Takes(s, run)
    BY <2>2, <1>1, <1>3, <1>4, <1>5, <1>6 DEF Takes, Verifies, TypeInv, OneHolder
  <2>3. CASE Drops(s, run)
    <3>1. PICK what \in {"none", "left"} : scratch' = [scratch EXCEPT ![script[s].pid] = what]
      BY <2>3 DEF Drops
    <3>2. \A r \in Script, p \in Pid : Verifies(r, p)' <=> r # s /\ Verifies(r, p)
      BY <2>3, <1>5 DEF Drops
    <3>3. \A r \in Script : r # s => ~Verifies(r, script[s].pid)
      BY <2>3, <1>3 DEF Drops, Verifies, TypeInv, OneHolder
    <3>4. \A p \in Pid : p # script[s].pid => ~Verifies(s, p)
      BY DEF Verifies
    <3> QED BY <3>1, <3>2, <3>3, <3>4, <1>1, <1>3, <1>6 DEF TypeInv, OneHolder
  <2>4. CASE Rests(s, run)
    BY <2>4, <1>1, <1>3, <1>5, <1>6 DEF Rests, Verifies, TypeInv, OneHolder
  <2> QED BY <2>1, <2>2, <2>3, <2>4
<1>8. script' \in [Script -> Run]
  BY <1>1
<1> QED BY <1>7, <1>8 DEF TypeInv, TypeOK

LEMMA RunTypes ==
  ASSUME TypeOK, NEW s \in Script
  PROVE  /\ script[s] \in Run /\ script[s].name \in Name /\ script[s].pid \in Pid
         /\ Dump(s) \in File /\ source \in Source /\ clock \in Name
         /\ proved \in [Name -> Source \cup {Nothing}] /\ files \in [Name -> File]
         /\ faults \in Nat /\ crowded \in BOOLEAN
BY DEF TypeOK, Run, Dump

\* An exit leaves the idle run, and so does a step that only moves the counter.
LEMMA Exits ==
  ASSUME TypeOK, NEW s \in Script, Exit(s)
  PROVE  script' = [script EXCEPT ![s] = Idle]
BY DEF Exit

LEMMA Moves ==
  ASSUME TypeOK, NEW s \in Script, NEW pc, Goto(s, pc),
         pc \in {"idle", "dump", "dumping", "list", "candidates", "prune", "create",
                 "restore", "compare", "conclude"}
  PROVE  /\ script' = [script EXCEPT ![s] = [script[s] EXCEPT !.pc = pc]]
         /\ [script[s] EXCEPT !.pc = pc] \in Run
         /\ [script[s] EXCEPT !.pc = pc].pid = script[s].pid
         /\ [script[s] EXCEPT !.pc = pc].pc = pc
BY RunTypes DEF Goto, Run

LEMMA DirectoryTypes ==
  ASSUME TypeOK, NEW dir \in [Name -> File], Directory(dir)
  PROVE  files' \in [Name -> File] /\ crowded' \in BOOLEAN
BY RunTypes DEF Directory, TypeOK

LEMMA BeginTypes == ASSUME TypeInv, NEW s \in Script, Begin(s) PROVE TypeInv'
<1> DEFINE run == [script[s] EXCEPT !.pc = "dump", !.name = clock]
<1>1. script' = [script EXCEPT ![s] = run] /\ run \in Run
  BY RunTypes DEF Begin, TypeInv, Run
<1>2. Rests(s, run)
  BY RunTypes DEF Rests, Live, Begin, At, TypeInv, Run
<1> HIDE DEF run
<1> QED BY <1>1, <1>2, RunTypes, MovingOn DEF Begin, TypeInv

LEMMA OpenDumpTypes == ASSUME TypeInv, NEW s \in Script, OpenDump(s) PROVE TypeInv'
<1>1. [there |-> TRUE, whole |-> FALSE, rows |-> source, mtime |-> clock] \in File
  BY RunTypes DEF File, TypeInv
<1>2. files' \in [Name -> File] /\ crowded' \in BOOLEAN
  BY <1>1, RunTypes, DirectoryTypes DEF OpenDump, TypeInv
<1>3. Rests(s, [script[s] EXCEPT !.pc = "dumping"])
  BY Moves, RunTypes DEF Rests, Live, OpenDump, At, TypeInv
<1> QED BY <1>2, <1>3, Moves, RunTypes, MovingOn DEF OpenDump, TypeInv

LEMMA CloseDumpTypes == ASSUME TypeInv, NEW s \in Script, CloseDump(s) PROVE TypeInv'
<1> DEFINE n == script[s].name
           written == [files EXCEPT ![n].whole = TRUE, ![n].mtime = clock]
<1>0. ~Live(script[s])
  BY DEF CloseDump, At, Live
<1>1. files' \in [Name -> File] /\ crowded' \in BOOLEAN
  <2>1. written \in [Name -> File]
    BY ZenonT(40), RunTypes DEF File, TypeInv, TypeOK
  <2>2. [files EXCEPT ![n] = NoFile] \in [Name -> File]
    BY RunTypes, ConstantTypes DEF TypeInv
  <2> QED BY <2>1, <2>2, RunTypes, DirectoryTypes DEF CloseDump, TypeInv
<1>2. faults' \in Nat
  BY RunTypes DEF CloseDump, Fault, TypeInv
<1>3. CASE Exit(s)
  <2>1. Rests(s, Idle)
    BY <1>0, ConstantTypes DEF Rests, CloseDump
  <2> QED BY <1>1, <1>2, <1>3, <2>1, ConstantTypes, RunTypes, MovingOn DEF CloseDump, TypeInv, Exit
<1>4. CASE Goto(s, "list")
  <2>1. Rests(s, [script[s] EXCEPT !.pc = "list"])
    BY <1>0, <1>4, Moves DEF Rests, Live, CloseDump, TypeInv
  <2> QED BY <1>1, <1>2, <1>4, <2>1, Moves, RunTypes, MovingOn DEF CloseDump, TypeInv
<1> QED BY <1>3, <1>4 DEF CloseDump

LEMMA ListArchiveTypes == ASSUME TypeInv, NEW s \in Script, ListArchive(s) PROVE TypeInv'
<1>0. ~Live(script[s]) /\ UNCHANGED <<source, files, scratch, clock, proved, crowded>>
  BY DEF ListArchive, At, Live
<1>1. faults' \in Nat
  BY RunTypes DEF ListArchive, Fault, TypeInv
<1>2. CASE Exit(s)
  <2>1. Rests(s, Idle)
    BY <1>0, ConstantTypes DEF Rests
  <2> QED BY <1>0, <1>1, <1>2, <2>1, ConstantTypes, RunTypes, MovingOn DEF TypeInv, Exit
<1>3. CASE Goto(s, "candidates")
  <2>1. Rests(s, [script[s] EXCEPT !.pc = "candidates"])
    BY <1>0, <1>3, Moves DEF Rests, Live, TypeInv
  <2> QED BY <1>0, <1>1, <1>3, <2>1, Moves, RunTypes, MovingOn DEF TypeInv
<1> QED BY <1>2, <1>3 DEF ListArchive

LEMMA AfterPruningTypes ==
  ASSUME TypeInv, NEW s \in Script
  PROVE  AfterPruning(s) \in Run /\ ~Live(AfterPruning(s))
BY RunTypes, ConstantTypes DEF AfterPruning, TypeInv, Run, Live

LEMMA CandidatesTypes == ASSUME TypeInv, NEW s \in Script, Candidates(s) PROVE TypeInv'
<1>0. ~Live(script[s]) /\ UNCHANGED <<source, files, scratch, clock, proved, crowded, faults>>
  BY DEF Candidates, At, Live
<1>1. PICK run \in Run : script' = [script EXCEPT ![s] = run] /\ ~Live(run)
  <2>1. CASE script' = [script EXCEPT ![s] = AfterPruning(s)]
    BY <2>1, AfterPruningTypes
  <2>2. ASSUME NEW kept \in SUBSET There,
               script' = [script EXCEPT ![s].pc = "prune", ![s].old = There \ kept]
        PROVE  \E run \in Run : script' = [script EXCEPT ![s] = run] /\ ~Live(run)
    <3> DEFINE run == [script[s] EXCEPT !.pc = "prune", !.old = There \ kept]
    <3>1. There \ kept \in SUBSET Name
      BY DEF There
    <3>2. run \in Run /\ ~Live(run) /\ script' = [script EXCEPT ![s] = run]
      BY <2>2, <3>1, RunTypes DEF TypeInv, Run, Live
    <3> QED BY <3>2
  <2> QED BY <2>1, <2>2 DEF Candidates
<1>2. Rests(s, run)
  BY <1>0, <1>1 DEF Rests
<1> QED BY <1>0, <1>1, <1>2, RunTypes, MovingOn DEF TypeInv

LEMMA PruneTypes == ASSUME TypeInv, NEW s \in Script, Prune(s) PROVE TypeInv'
<1>0. ~Live(script[s]) /\ UNCHANGED <<source, scratch, clock, proved>>
  BY DEF Prune, At, Live
<1>1. files' \in [Name -> File] /\ crowded' \in BOOLEAN /\ faults' \in Nat
  <2>1. \A n \in Name : [files EXCEPT ![n] = NoFile] \in [Name -> File]
    BY RunTypes, ConstantTypes DEF TypeInv
  <2>2. script[s].old \in SUBSET Name
    BY RunTypes DEF TypeInv, Run
  <2> QED BY <2>1, <2>2, RunTypes, DirectoryTypes DEF Prune, Fault, TypeInv
<1>2. PICK run \in Run : script' = [script EXCEPT ![s] = run] /\ ~Live(run)
  <2>1. CASE script' = [script EXCEPT ![s] = AfterPruning(s)]
    BY <2>1, AfterPruningTypes
  <2>2. CASE Exit(s)
    BY <2>2, ConstantTypes DEF Exit
  <2>3. ASSUME NEW n, script' = [script EXCEPT ![s] = [@ EXCEPT !.old = script[s].old \ {n}]]
        PROVE  \E run \in Run : script' = [script EXCEPT ![s] = run] /\ ~Live(run)
    <3> DEFINE run == [script[s] EXCEPT !.old = script[s].old \ {n}]
    <3>1. run \in Run /\ ~Live(run) /\ script' = [script EXCEPT ![s] = run]
      BY <1>0, <2>3, RunTypes DEF TypeInv, Run, Live
    <3> QED BY <3>1
  <2> QED BY <2>1, <2>2, <2>3 DEF Prune
<1>3. Rests(s, run)
  BY <1>0, <1>2 DEF Rests
<1> QED BY <1>0, <1>1, <1>2, <1>3, RunTypes, MovingOn DEF TypeInv

LEMMA VerifyByHandTypes ==
  ASSUME TypeInv, NEW s \in Script, NEW n \in Name, VerifyByHand(s, n) PROVE TypeInv'
<1> DEFINE run == [script[s] EXCEPT !.pc = "create", !.name = n]
<1>1. script' = [script EXCEPT ![s] = run] /\ run \in Run
  BY RunTypes DEF VerifyByHand, TypeInv, Run
<1>2. Rests(s, run)
  BY RunTypes DEF Rests, Live, VerifyByHand, At, TypeInv, Run
<1> HIDE DEF run
<1> QED BY <1>1, <1>2, RunTypes, MovingOn DEF VerifyByHand, TypeInv

LEMMA CreateScratchTypes ==
  ASSUME TypeInv, NEW s \in Script, NEW p \in Pid, CreateScratch(s, p) PROVE TypeInv'
<1>0. ~Live(script[s]) /\ UNCHANGED <<source, files, clock, proved, crowded>>
  BY DEF CreateScratch, At, Live
<1>1. faults' \in Nat
  BY RunTypes DEF CreateScratch, Fault, TypeInv
<1>2. CASE Exit(s) /\ UNCHANGED scratch
  <2>1. Rests(s, Idle)
    BY <1>0, <1>2, ConstantTypes DEF Rests
  <2> QED BY <1>0, <1>1, <1>2, <2>1, ConstantTypes, RunTypes, MovingOn DEF TypeInv, Exit
<1>3. CASE /\ scratch' = [scratch EXCEPT ![p] = "own"]
           /\ script' = [script EXCEPT ![s].pc = "restore", ![s].pid = p, ![s].since = source]
  <2> DEFINE run == [script[s] EXCEPT !.pc = "restore", !.pid = p, !.since = source]
  <2>1. script' = [script EXCEPT ![s] = run] /\ run \in Run /\ run.pid = p /\ Live(run)
    BY <1>3, RunTypes DEF TypeInv, Run, Live
  <2> HIDE DEF run
  <2>2. Takes(s, run)
    BY <1>0, <1>3, <2>1 DEF Takes, CreateScratch
  <2> QED BY <1>0, <1>1, <2>1, <2>2, RunTypes, MovingOn DEF TypeInv
<1> QED BY <1>2, <1>3 DEF CreateScratch

LEMMA RestoreDumpTypes == ASSUME TypeInv, NEW s \in Script, RestoreDump(s) PROVE TypeInv'
<1>0. Live(script[s]) /\ UNCHANGED <<source, files, clock, proved, crowded>>
  BY DEF RestoreDump, At, Live
<1>1. faults' \in Nat
  BY RunTypes DEF RestoreDump, Cleanup, Fault, TypeInv
<1>2. CASE Exit(s)
  <2>1. script'[s] = Idle /\ Idle.pc # "compare"
    BY <1>2, ConstantTypes DEF Exit, TypeInv, TypeOK
  <2>2. ~Goto(s, "compare")
    BY <2>1, RunTypes DEF Goto, TypeInv, TypeOK, Run
  <2>3. Drops(s, Idle)
    BY <1>0, <2>2, ConstantTypes DEF Drops, RestoreDump, Cleanup
  <2> QED BY <1>0, <1>1, <1>2, <2>3, ConstantTypes, RunTypes, MovingOn DEF TypeInv, Exit
<1>3. CASE Goto(s, "compare") /\ UNCHANGED scratch
  <2>1. Keeps(s, [script[s] EXCEPT !.pc = "compare"])
    BY <1>0, <1>3, Moves DEF Keeps, Live, TypeInv
  <2> QED BY <1>0, <1>1, <1>3, <2>1, Moves, RunTypes, MovingOn DEF TypeInv
<1> QED BY <1>2, <1>3 DEF RestoreDump

\* What a comparison makes of a run.
LEMMA CountTypes ==
  ASSUME TypeInv, NEW s \in Script, NEW failed \in BOOLEAN
  PROVE  /\ AfterCount(s, failed) \in Run /\ AfterCount(s, failed).pid = script[s].pid
         /\ Live(AfterCount(s, failed))
<1> DEFINE pc == IF script[s].at = Len(Compared) THEN "conclude" ELSE "compare"
           run == [script[s] EXCEPT !.at = script[s].at + 1, !.bad = failed, !.pc = pc]
<1>1. script[s] \in Run /\ script[s].at + 1 \in Nat
  BY RunTypes DEF TypeInv, Run
<1>2. pc \in {"conclude", "compare"}
  OBVIOUS
<1> HIDE DEF pc
<1>3. run \in Run /\ run.pid = script[s].pid /\ run.pc = pc
  BY <1>1, <1>2 DEF Run
<1> QED BY <1>2, <1>3 DEF AfterCount, Live, pc

LEMMA Counted ==
  ASSUME TypeInv, NEW s \in Script, Compare(s)
  PROVE  \E failed \in BOOLEAN :
           /\ script' = [script EXCEPT ![s] = AfterCount(s, failed)]
           /\ faults' \in Nat /\ faults <= faults'
           /\ ~failed /\ faults' < 2 =>
                ~script[s].bad
                  /\ Dump(s).rows[Compared[script[s].at]] = source[Compared[script[s].at]]
<1> DEFINE t == Compared[script[s].at]
           differs == Dump(s).rows[t] # source[t]
<1>0. script[s].bad \in BOOLEAN /\ faults \in Nat
  BY RunTypes DEF TypeInv, Run
<1>1. ASSUME NEW wrong \in BOOLEAN,
             script' = [script EXCEPT ![s] = AfterCount(s, script[s].bad \/ wrong)],
             faults' \in Nat, faults <= faults', ~wrong /\ faults' < 2 => ~differs
      PROVE  \E failed \in BOOLEAN :
               /\ script' = [script EXCEPT ![s] = AfterCount(s, failed)]
               /\ faults' \in Nat /\ faults <= faults'
               /\ ~failed /\ faults' < 2 => ~script[s].bad /\ Dump(s).rows[t] = source[t]
  <2>1. (script[s].bad \/ wrong) \in BOOLEAN
    BY <1>0
  <2>2. ~(script[s].bad \/ wrong) /\ faults' < 2 => ~script[s].bad /\ Dump(s).rows[t] = source[t]
    BY <1>1
  <2> WITNESS (script[s].bad \/ wrong) \in BOOLEAN
  <2> QED BY <1>1, <2>2
<1>2. CASE script' = [script EXCEPT ![s] = AfterCount(s, script[s].bad \/ differs)]
           /\ UNCHANGED faults
  <2>1. differs \in BOOLEAN
    OBVIOUS
  <2>2. faults' \in Nat /\ faults <= faults'
    BY <1>0, <1>2
  <2> HIDE DEF differs
  <2> QED BY <1>1, <1>2, <2>1, <2>2, Zenon
<1>3. CASE script' = [script EXCEPT ![s] = AfterCount(s, script[s].bad \/ TRUE)] /\ Fault
  <2>1. faults' \in Nat /\ faults <= faults'
    BY <1>0, <1>3 DEF Fault
  <2> QED BY <1>1, <1>3, <2>1, Zenon
<1>4. CASE script' = [script EXCEPT ![s] = AfterCount(s, script[s].bad \/ FALSE)]
           /\ faults' = faults + 2
  <2>1. faults' \in Nat /\ faults <= faults' /\ ~(faults' < 2)
    BY <1>0, <1>4
  <2> QED BY <1>1, <1>4, <2>1, Zenon
<1> QED BY <1>2, <1>3, <1>4 DEF Compare

LEMMA CompareTypes == ASSUME TypeInv, NEW s \in Script, Compare(s) PROVE TypeInv'
<1>1. UNCHANGED <<source, files, scratch, clock, proved, crowded>> /\ Live(script[s])
  BY DEF Compare, At, Live
<1>2. PICK failed \in BOOLEAN :
        script' = [script EXCEPT ![s] = AfterCount(s, failed)] /\ faults' \in Nat
  BY Counted
<1>3. Keeps(s, AfterCount(s, failed))
  BY <1>1, CountTypes DEF Keeps
<1> QED BY <1>1, <1>2, <1>3, CountTypes, RunTypes, MovingOn DEF TypeInv

LEMMA ConcludeTypes == ASSUME TypeInv, NEW s \in Script, Conclude(s) PROVE TypeInv'
<1>0. Live(script[s]) /\ UNCHANGED <<source, files, clock, crowded>> /\ Exit(s)
  BY DEF Conclude, At, Live
<1>1. faults' \in Nat
  BY RunTypes DEF Conclude, Cleanup, Fault, TypeInv
<1>2. proved' \in [Name -> Source \cup {Nothing}]
  <2>1. script[s].since \in Source \cup {Nothing}
    BY RunTypes DEF TypeInv, Run
  <2> QED BY <2>1, RunTypes DEF Conclude, TypeInv
<1>3. Drops(s, Idle)
  BY <1>0, ConstantTypes DEF Drops, Conclude, Cleanup
<1> QED BY <1>0, <1>1, <1>2, <1>3, ConstantTypes, RunTypes, MovingOn DEF TypeInv, Exit

LEMMA CutTypes == ASSUME TypeInv, NEW s \in Script, Cut(s) PROVE TypeInv'
<1>0. UNCHANGED <<source, files, clock, proved, crowded>> /\ Exit(s)
  BY DEF Cut
<1>1. faults' \in Nat
  BY RunTypes DEF Cut, Fault, TypeInv
<1>2. Drops(s, Idle) \/ Rests(s, Idle)
  BY ConstantTypes DEF Drops, Rests, Cut, Verifies
<1> QED BY <1>0, <1>1, <1>2, ConstantTypes, RunTypes, MovingOn DEF TypeInv, Exit

LEMMA InsertTypes == ASSUME TypeInv, NEW t \in Table, Insert(t) PROVE TypeInv'
<1>1. source' \in Source
  BY BackupsAssumption DEF Insert, TypeInv, TypeOK, Source
<1> QED BY <1>1 DEF Insert, TypeInv, TypeOK, OneHolder, Verifies, Live

LEMMA SleepTypes == ASSUME TypeInv, Sleep PROVE TypeInv'
BY DEF Sleep, TypeInv, TypeOK, OneHolder, Verifies, Live

LEMMA TypesStep == TypeInv /\ [Next]_vars => TypeInv'
<1> SUFFICES ASSUME TypeInv, [Next]_vars PROVE TypeInv'
  OBVIOUS
<1>1. CASE UNCHANGED vars
  BY <1>1 DEF vars, TypeInv, TypeOK, OneHolder, Verifies, Live
<1>2. CASE Next
  BY <1>2, BeginTypes, OpenDumpTypes, CloseDumpTypes, ListArchiveTypes, CandidatesTypes, PruneTypes,
     VerifyByHandTypes, CreateScratchTypes, RestoreDumpTypes, CompareTypes, ConcludeTypes,
     CutTypes, InsertTypes, SleepTypes
     DEF Next, Step
<1> QED BY <1>1, <1>2

LEMMA TypesInit == Init => TypeInv
<1> SUFFICES ASSUME Init PROVE TypeInv
  OBVIOUS
<1>1. [t \in Table |-> 0] \in Source
  BY BackupsAssumption DEF Source
<1>2. \A s \in Script : ~Live(script[s])
  BY ConstantTypes DEF Init
<1>3. source \in Source /\ crowded \in BOOLEAN /\ faults \in Nat
  BY <1>1 DEF Init
<1>4. clock \in Name
  BY BackupsAssumption DEF Init, Name
<1>5. files \in [Name -> File]
  BY ConstantTypes DEF Init
<1>6. script \in [Script -> Run]
  BY ConstantTypes DEF Init
<1>7. scratch \in [Pid -> {"none", "own", "left"}] /\ \A p \in Pid : scratch[p] = "none"
  BY DEF Init
<1>8. proved \in [Name -> Source \cup {Nothing}]
  BY DEF Init
<1> QED BY <1>2, <1>3, <1>4, <1>5, <1>6, <1>7, <1>8 DEF TypeInv, TypeOK, OneHolder, Verifies

\* Types, and who holds which throwaway database: none is left behind by a run
\* that ends by itself (the trap of verify-postgres-backup.sh:39).
THEOREM TypeCorrect == Spec => []TypeOK
<1>1. TypeInv => TypeOK
  BY DEF TypeInv
<1> QED BY <1>1, TypesInit, TypesStep, PTL DEF Spec

\* verify-postgres-backup.sh:8: what a run did not create itself is never
\* dropped, and a run that was killed is not the run that has its id now.
THEOREM OthersDatabasesStay == Spec => LeftDatabasesStay
<1>1. TypeInv /\ [Next]_vars => [\A p \in Pid : scratch[p] = "left" => scratch'[p] = "left"]_vars
  <2> SUFFICES ASSUME TypeInv, Next, NEW p \in Pid, scratch[p] = "left"
               PROVE  scratch'[p] = "left"
    OBVIOUS
  <2>1. \A s \in Script : ~Verifies(s, p)
    BY DEF TypeInv, TypeOK
  <2>2. \A s \in Script : Live(script[s]) => script[s].pid # p
    BY <2>1 DEF Verifies
  <2>3. scratch \in [Pid -> {"none", "own", "left"}]
    BY DEF TypeInv, TypeOK
  <2>4. ASSUME NEW s \in Script, Begin(s) \/ OpenDump(s) \/ CloseDump(s) \/ ListArchive(s)
               \/ Candidates(s) \/ Prune(s) \/ Compare(s)
        PROVE  scratch'[p] = "left"
    BY <2>4 DEF Begin, OpenDump, CloseDump, ListArchive, Candidates, Prune, Compare
  <2>5. ASSUME NEW s \in Script, NEW q \in Pid, CreateScratch(s, q) PROVE scratch'[p] = "left"
    BY <2>3, <2>5 DEF CreateScratch
  <2>6. ASSUME NEW s \in Script, RestoreDump(s) \/ Conclude(s) PROVE scratch'[p] = "left"
    <3>1. script[s].pid # p
      BY <2>2, <2>6 DEF RestoreDump, Conclude, At, Live
    <3> QED BY <2>3, <2>6, <3>1 DEF RestoreDump, Conclude, Cleanup
  <2>7. ASSUME NEW s \in Script, Cut(s) PROVE scratch'[p] = "left"
    BY <2>3, <2>7 DEF Cut
  <2>8. CASE Sleep \/ (\E t \in Table : Insert(t)) \/ \E s \in Script, n \in Name : VerifyByHand(s, n)
    BY <2>8 DEF Sleep, Insert, VerifyByHand
  <2> QED BY <2>4, <2>5, <2>6, <2>7, <2>8 DEF Next, Step
<1> QED BY <1>1, TypesInit, TypesStep, PTL DEF Spec, LeftDatabasesStay

-----------------------------------------------------------------------------
(* The directory: who writes which file, and which files nobody writes      *)

Writes(s) == script[s].pc \in {"dump", "dumping"}

FilesInv ==
  \A n \in Name : /\ files[n].there => n <= files[n].mtime /\ files[n].mtime <= clock
                  /\ files[n].whole => files[n].there

\* A run that is about to write a dump has a name nobody else has, and what is
\* there under that name does not restore.
WritersInv ==
  /\ \A s \in Script :
       /\ At(s, "dump") => ~files[script[s].name].there
       /\ At(s, "dumping") => /\ ~files[script[s].name].whole
                              /\ script[s].name = clock => files[script[s].name].there
       /\ Writes(s) => script[s].name <= clock
  /\ \A r, s \in Script : Writes(r) /\ Writes(s) /\ r # s => script[r].name # script[s].name

\* A whole dump, or what became of one: its name will not be used again.
Settled(n) ==
  /\ \/ files[n].there /\ files[n].whole
     \/ ~files[n].there /\ n < clock
  /\ \A s \in Script : Writes(s) => script[s].name # n

DirectoryInv == TypeInv /\ FilesInv /\ WritersInv

\* Only pruning takes away a dump that restores, only when it is old enough and
\* on the list, and nothing changes one.
Untouched(n) ==
  \/ files'[n] = files[n]
  \/ /\ files'[n] = NoFile /\ Expired(n)
     /\ \E s \in Script : At(s, "prune") /\ n \in script[s].old

\* What every step leaves of the directory.
Kept ==
  /\ FilesInv' /\ WritersInv'
  /\ \A n \in Name : Settled(n) =>
       Settled(n)' /\ (files'[n].there => files[n].there /\ files'[n].rows = files[n].rows)
  /\ \A n \in Restorable(files) : Untouched(n)

LEMMA Older ==
  ASSUME DirectoryInv, NEW n \in Name, files[n].there, Expired(n)
  PROVE  files[n].mtime < clock /\ n < clock
<1>1. files[n].mtime \in Nat /\ clock \in Nat /\ n \in Nat
  BY BackupsAssumption DEF DirectoryInv, TypeInv, TypeOK, File, Name
<1>2. n <= files[n].mtime /\ files[n].mtime <= clock
  BY DEF DirectoryInv, FilesInv
<1>3. CASE files[n].mtime = clock
  <2>1. clock - files[n].mtime = 0
    BY <1>1, <1>3
  <2>2. 0 \div DAY = 0
    BY BackupsAssumption
  <2> QED BY <2>1, <2>2, BackupsAssumption DEF Expired
<1> QED BY <1>1, <1>2, <1>3

\* A step of a run that neither writes nor touches a file.
LEMMA QuietKeeps ==
  ASSUME DirectoryInv, files' = files, clock' = clock,
         \A r \in Script : script'[r] = script[r] \/ script'[r].pc \notin {"dump", "dumping"}
  PROVE  Kept
<1>1. \A r \in Script : Writes(r)' => script'[r] = script[r] /\ Writes(r)
  BY DEF Writes
<1>2. FilesInv'
  BY DEF DirectoryInv, FilesInv
<1>3. WritersInv'
  BY <1>1 DEF DirectoryInv, WritersInv, At, Writes
<1>4. \A n \in Name : Settled(n) => Settled(n)'
  BY <1>1 DEF Settled
<1>5. \A n \in Restorable(files) : Untouched(n)
  BY DEF Untouched
<1> QED BY <1>2, <1>3, <1>4, <1>5 DEF Kept

LEMMA BeginDirectory == ASSUME DirectoryInv, Spaced, NEW s \in Script, Begin(s) PROVE Kept
<1>1. /\ files' = files /\ clock' = clock /\ clock \in Nat
      /\ script'[s].pc = "dump" /\ script'[s].name = clock
      /\ \A r \in Script \ {s} : script'[r] = script[r]
      /\ ~files[clock].there /\ clock \in Name /\ Name \subseteq Nat
  BY BackupsAssumption, RunTypes DEF Begin, DirectoryInv, TypeInv, TypeOK, Run, Name
<1>2. \A r \in Script : Writes(r) => script[r].name # clock
  BY <1>1 DEF Begin, DirectoryInv, WritersInv, Writes, At
<1>3. FilesInv'
  BY <1>1 DEF DirectoryInv, FilesInv
<1>4. WritersInv'
  BY <1>1, <1>2 DEF DirectoryInv, WritersInv, Writes, At
<1>5. \A n \in Name : Settled(n) => Settled(n)'
  BY <1>1 DEF Settled, Writes
<1>6. \A n \in Restorable(files) : Untouched(n)
  BY <1>1 DEF Untouched
<1> QED BY <1>1, <1>3, <1>4, <1>5, <1>6 DEF Kept

LEMMA OpenDumpDirectory == ASSUME DirectoryInv, NEW s \in Script, OpenDump(s) PROVE Kept
<1> DEFINE n == script[s].name
           file == [there |-> TRUE, whole |-> FALSE, rows |-> source, mtime |-> clock]
<1>1. /\ n \in Name /\ clock' = clock /\ clock \in Nat /\ Name \subseteq Nat
      /\ script'[s].pc = "dumping" /\ script'[s].name = n
      /\ \A r \in Script \ {s} : script'[r] = script[r]
      /\ files'[n] = file /\ \A k \in Name \ {n} : files'[k] = files[k]
      /\ At(s, "dump") /\ Writes(s)
  BY BackupsAssumption, RunTypes
     DEF OpenDump, Directory, Goto, At, Writes, DirectoryInv, TypeInv, TypeOK, Run, Name
<1>2. /\ ~files[n].there /\ ~files[n].whole /\ n <= clock
      /\ \A r \in Script \ {s} : Writes(r) => script[r].name # n
  BY <1>1 DEF DirectoryInv, WritersInv, FilesInv
<1>3. FilesInv'
  BY <1>1, <1>2 DEF DirectoryInv, FilesInv
<1>4. \A r \in Script : Writes(r)' => Writes(r) /\ script'[r].name = script[r].name
  BY <1>1 DEF Writes
<1>5. WritersInv'
  <2>1. ASSUME NEW r \in Script \ {s}, Writes(r)
        PROVE  script'[r] = script[r] /\ files'[script[r].name] = files[script[r].name]
    BY <1>1, <1>2, <2>1, RunTypes DEF DirectoryInv, TypeInv
  <2>2. \A r \in Script \ {s} : At(r, "dump")' => ~files'[script'[r].name].there
    BY <1>1, <2>1 DEF DirectoryInv, WritersInv, At, Writes
  <2>3. \A r \in Script \ {s} : At(r, "dumping")' =>
          /\ ~files'[script'[r].name].whole
          /\ script'[r].name = clock' => files'[script'[r].name].there
    BY <1>1, <2>1 DEF DirectoryInv, WritersInv, At, Writes
  <2>4. \A r \in Script : Writes(r)' => script'[r].name <= clock'
    BY <1>1, <1>4 DEF DirectoryInv, WritersInv
  <2>5. /\ ~At(s, "dump")' /\ ~files'[script'[s].name].whole /\ files'[script'[s].name].there
    BY <1>1 DEF At
  <2>6. \A q, r \in Script : Writes(q)' /\ Writes(r)' /\ q # r => script'[q].name # script'[r].name
    BY <1>4 DEF DirectoryInv, WritersInv
  <2> QED BY <2>2, <2>3, <2>4, <2>5, <2>6 DEF WritersInv
<1>6. \A k \in Name : Settled(k) => k # n
  BY <1>1 DEF Settled
<1>7. \A k \in Name : Settled(k) => Settled(k)'
  BY <1>1, <1>4, <1>6 DEF Settled
<1>8. \A k \in Restorable(files) : Untouched(k)
  BY <1>1, <1>2 DEF Untouched, Restorable
<1> QED BY <1>1, <1>3, <1>5, <1>6, <1>7, <1>8 DEF Kept

LEMMA CloseDumpDirectory == ASSUME DirectoryInv, NEW s \in Script, CloseDump(s) PROVE Kept
<1> DEFINE n == script[s].name
<1>1. /\ n \in Name /\ clock' = clock /\ clock \in Nat /\ Name \subseteq Nat
      /\ ~Writes(s)' /\ \A r \in Script \ {s} : script'[r] = script[r]
      /\ At(s, "dumping") /\ Writes(s)
  BY BackupsAssumption, RunTypes, ConstantTypes
     DEF CloseDump, Goto, Exit, At, Writes, DirectoryInv, TypeInv, TypeOK, Run, Name
<1>2. /\ ~files[n].whole /\ n <= clock
      /\ \A r \in Script \ {s} : Writes(r) => script[r].name # n
  BY <1>1 DEF DirectoryInv, WritersInv
<1>3. /\ \A k \in Name \ {n} : files'[k] = files[k]
      /\ \/ files'[n] = files[n] \/ files'[n] = NoFile
         \/ files[n].there /\ files'[n] = [files[n] EXCEPT !.whole = TRUE, !.mtime = clock]
  BY <1>1, RunTypes DEF CloseDump, Directory, Dump, DirectoryInv, TypeInv, TypeOK, File
<1>4. files[n] \in File
  BY <1>1 DEF DirectoryInv, TypeInv, TypeOK
<1>5. FilesInv'
  <2>1. /\ files'[n].there => n <= files'[n].mtime /\ files'[n].mtime <= clock
        /\ files'[n].whole => files'[n].there
    <3>1. /\ files[n].there => n <= files[n].mtime /\ files[n].mtime <= clock
          /\ files[n].whole => files[n].there
      BY <1>1 DEF DirectoryInv, FilesInv
    <3>2. CASE files'[n] = files[n]
      BY <3>1, <3>2
    <3>3. CASE files'[n] = NoFile
      BY <3>3 DEF NoFile
    <3>4. CASE files[n].there /\ files'[n] = [files[n] EXCEPT !.whole = TRUE, !.mtime = clock]
      BY <1>1, <1>2, <1>4, <3>4 DEF File
    <3> QED BY <1>3, <3>2, <3>3, <3>4
  <2> QED BY <1>1, <1>3, <2>1 DEF DirectoryInv, FilesInv
<1>6. \A r \in Script : Writes(r)' => Writes(r) /\ script'[r] = script[r] /\ script[r].name # n
  BY <1>1, <1>2 DEF Writes
<1>7. WritersInv'
  <2>1. \A r \in Script : Writes(r)' => files'[script[r].name] = files[script[r].name]
    BY <1>3, <1>6, RunTypes DEF DirectoryInv, TypeInv
  <2> QED BY <1>1, <1>6, <2>1 DEF DirectoryInv, WritersInv, At, Writes
<1>8. \A k \in Name : Settled(k) => k # n
  BY <1>1 DEF Settled
<1>9. \A k \in Name : Settled(k) => Settled(k)'
  BY <1>1, <1>3, <1>6, <1>8 DEF Settled
<1>10. \A k \in Restorable(files) : Untouched(k)
  BY <1>1, <1>2, <1>3 DEF Untouched, Restorable
<1> QED BY <1>3, <1>5, <1>7, <1>8, <1>9, <1>10 DEF Kept

LEMMA PruneDirectory == ASSUME DirectoryInv, NEW s \in Script, Prune(s) PROVE Kept
<1>1. /\ clock' = clock /\ At(s, "prune") /\ ~Writes(s)' /\ ~Writes(s)
      /\ \A r \in Script \ {s} : script'[r] = script[r]
      /\ clock \in Nat /\ Name \subseteq Nat /\ script[s].old \subseteq Name
  <2>1. clock \in Nat /\ Name \subseteq Nat /\ script[s].old \subseteq Name
    BY BackupsAssumption, RunTypes DEF DirectoryInv, TypeInv, Run, Name
  <2>2. /\ script \in [Script -> Run] /\ script[s].pc = "prune" /\ Idle.pc = "idle"
        /\ AfterPruning(s).pc \in {"idle", "create"}
    BY ConstantTypes DEF Prune, At, AfterPruning, DirectoryInv, TypeInv, TypeOK, Run
  <2>3. ASSUME NEW n, script' = [script EXCEPT ![s] = [@ EXCEPT !.old = script[s].old \ {n}]]
        PROVE  script'[s].pc = "prune" /\ \A r \in Script \ {s} : script'[r] = script[r]
    BY <2>2, <2>3 DEF Run
  <2>4. /\ script'[s].pc \notin {"dump", "dumping"}
        /\ \A r \in Script \ {s} : script'[r] = script[r]
    BY <2>2, <2>3 DEF Prune, Exit
  <2> QED BY <2>1, <2>2, <2>4 DEF Prune, At, Writes
<1>2. CASE files' = files
  BY <1>1, <1>2, QuietKeeps DEF Writes
<1>3. ASSUME NEW n \in script[s].old, files[n].there, Expired(n),
             files' = [files EXCEPT ![n] = NoFile]
      PROVE  Kept
  <2>1. n \in Name /\ n < clock /\ files'[n] = NoFile /\ \A k \in Name \ {n} : files'[k] = files[k]
    BY <1>1, <1>3, Older DEF DirectoryInv, TypeInv, TypeOK
  <2>2. FilesInv'
    BY <1>1, <2>1 DEF DirectoryInv, FilesInv, NoFile
  <2>3. \A r \in Script : Writes(r)' => Writes(r) /\ script'[r] = script[r]
    BY <1>1 DEF Writes
  <2>4. WritersInv'
    <3>1. \A r \in Script : Writes(r)' =>
            \/ files'[script'[r].name] = files[script[r].name]
            \/ files'[script'[r].name] = NoFile /\ script'[r].name < clock
      BY <2>1, <2>3, RunTypes DEF DirectoryInv, TypeInv
    <3>2. ASSUME NEW r \in Script, Writes(r)'
          PROVE  /\ At(r, "dump")' => ~files'[script'[r].name].there
                 /\ At(r, "dumping")' => /\ ~files'[script'[r].name].whole
                                         /\ script'[r].name = clock' => files'[script'[r].name].there
                 /\ script'[r].name <= clock'
      <4>1. CASE files'[script'[r].name] = files[script[r].name]
        BY <1>1, <2>3, <3>2, <4>1 DEF DirectoryInv, WritersInv, At
      <4>2. CASE files'[script'[r].name] = NoFile /\ script'[r].name < clock
        <5>1. script'[r].name \in Nat
          BY <1>1, <2>3, <3>2, RunTypes DEF DirectoryInv, TypeInv
        <5> QED BY <1>1, <4>2, <5>1 DEF NoFile
      <4> QED BY <3>1, <3>2, <4>1, <4>2
    <3>3. \A q, r \in Script : Writes(q)' /\ Writes(r)' /\ q # r => script'[q].name # script'[r].name
      BY <2>3 DEF DirectoryInv, WritersInv
    <3> QED BY <3>2, <3>3 DEF WritersInv, Writes, At
  <2>5. \A k \in Name : Settled(k) => Settled(k)'
    BY <1>1, <2>1, <2>3 DEF Settled, NoFile
  <2>6. \A k \in Restorable(files) : Untouched(k)
    BY <1>1, <1>3, <2>1 DEF Untouched, Restorable
  <2> QED BY <2>1, <2>2, <2>4, <2>5, <2>6 DEF Kept, NoFile
<1> QED BY <1>2, <1>3 DEF Prune, Directory

LEMMA SleepDirectory == ASSUME DirectoryInv, Sleep PROVE Kept
<1>1. /\ files' = files /\ script' = script /\ clock \in Nat /\ clock' \in Nat /\ clock < clock'
      /\ Name \subseteq Nat
  BY BackupsAssumption DEF Sleep, DirectoryInv, TypeInv, TypeOK, Name
<1>2. \A n \in Name : files[n].mtime \in Nat
  BY <1>1 DEF DirectoryInv, TypeInv, TypeOK, File
<1>3. \A r \in Script : script[r].name \in Nat
  BY <1>1, RunTypes DEF DirectoryInv, TypeInv
<1>4. FilesInv'
  BY <1>1, <1>2 DEF DirectoryInv, FilesInv
<1>5. WritersInv'
  BY <1>1, <1>3 DEF DirectoryInv, WritersInv, At, Writes
<1>6. \A n \in Name : Settled(n) => Settled(n)'
  <2> SUFFICES ASSUME NEW n \in Name, Settled(n) PROVE Settled(n)'
    OBVIOUS
  <2>1. n < clock => n < clock'
    BY <1>1
  <2> QED BY <1>1, <2>1 DEF Settled, Writes
<1> QED BY <1>1, <1>4, <1>5, <1>6 DEF Kept, Untouched

\* The runs that go about something else.
LEMMA OtherStepsAreQuiet ==
  ASSUME DirectoryInv, NEW s \in Script,
         \/ ListArchive(s) \/ Candidates(s) \/ RestoreDump(s) \/ Compare(s) \/ Conclude(s) \/ Cut(s)
         \/ (\E p \in Pid : CreateScratch(s, p)) \/ \E n \in Name : VerifyByHand(s, n)
  PROVE  Kept
<1>1. files' = files /\ clock' = clock
  BY DEF ListArchive, Candidates, RestoreDump, Compare, Conclude, Cut, CreateScratch, VerifyByHand
<1>2. script \in [Script -> Run] /\ script[s] \in Run /\ Idle.pc = "idle"
  BY ConstantTypes DEF DirectoryInv, TypeInv, TypeOK
<1>3. \A r \in Script : script'[r] = script[r] \/ script'[r].pc \notin {"dump", "dumping"}
  <2>1. CASE ListArchive(s) \/ RestoreDump(s) \/ Conclude(s) \/ Cut(s)
    BY <1>2, <2>1 DEF ListArchive, RestoreDump, Conclude, Cut, Goto, Exit, Run
  <2>2. CASE Candidates(s)
    BY ZenonT(40), <1>2, <2>2 DEF Candidates, AfterPruning, Run
  <2>3. CASE Compare(s)
    <3>1. PICK failed \in BOOLEAN : script' = [script EXCEPT ![s] = AfterCount(s, failed)]
      BY <2>3, Counted DEF DirectoryInv
    <3>2. Live(AfterCount(s, failed))
      BY CountTypes DEF DirectoryInv
    <3>3. AfterCount(s, failed).pc \notin {"dump", "dumping"}
      BY <3>2 DEF Live
    <3>4. \A r \in Script : script'[r] = IF r = s THEN AfterCount(s, failed) ELSE script[r]
      BY <1>2, <3>1
    <3> QED BY <3>3, <3>4
  <2>4. CASE \E p \in Pid : CreateScratch(s, p)
    <3>1. PICK p \in Pid : CreateScratch(s, p)
      BY <2>4
    <3>2. CASE Exit(s)
      BY <1>2, <3>2 DEF Exit
    <3>3. CASE script' = [script EXCEPT ![s].pc = "restore", ![s].pid = p, ![s].since = source]
      <4> DEFINE run == [script[s] EXCEPT !.pc = "restore", !.pid = p, !.since = source]
      <4>1. script' = [script EXCEPT ![s] = run] /\ run.pc = "restore"
        BY <1>2, <3>3 DEF Run
      <4> HIDE DEF run
      <4> QED BY <1>2, <4>1
    <3> QED BY <3>1, <3>2, <3>3 DEF CreateScratch
  <2>5. CASE \E n \in Name : VerifyByHand(s, n)
    BY ZenonT(40), <1>2, <2>5 DEF VerifyByHand, Run
  <2> QED BY <2>1, <2>2, <2>3, <2>4, <2>5
<1> QED BY <1>1, <1>3, QuietKeeps

LEMMA DirectoryStep == ASSUME Spaced, DirectoryInv, [Next]_vars PROVE Kept
<1>1. CASE UNCHANGED vars
  BY <1>1, QuietKeeps DEF vars
<1>2. ASSUME NEW t \in Table, Insert(t) PROVE Kept
  BY <1>2, QuietKeeps DEF Insert
<1>3. ASSUME NEW s \in Script, Step(s) PROVE Kept
  BY <1>3, OpenDumpDirectory, CloseDumpDirectory, PruneDirectory, OtherStepsAreQuiet DEF Step
<1> QED BY <1>1, <1>2, <1>3, BeginDirectory, OtherStepsAreQuiet, SleepDirectory DEF Next

LEMMA DirectoryStarts == Init => DirectoryInv
<1> SUFFICES ASSUME Init PROVE DirectoryInv
  OBVIOUS
<1>1. FilesInv
  BY DEF Init, FilesInv, NoFile
<1>2. WritersInv
  BY ConstantTypes DEF Init, WritersInv, Writes, At
<1> QED BY <1>1, <1>2, TypesInit DEF DirectoryInv

LEMMA DirectoryAlways == ASSUME Spaced PROVE Spec => []DirectoryInv
<1>1. DirectoryInv /\ [Next]_vars => DirectoryInv'
  BY DirectoryStep, TypesStep DEF DirectoryInv, Kept
<1> QED BY <1>1, DirectoryStarts, PTL DEF Spec

\* scheduled-backup.sh:20: a dump that restores is never overwritten or damaged,
\* and goes only after KEEP_DAYS, as long as no two runs take the same name.
THEOREM DumpsAreKept ==
  ASSUME Spaced
  PROVE  Spec => YoungDumpsStay
<1>1. DirectoryInv /\ [Next]_vars =>
        [\A n \in Restorable(files) : files'[n] # files[n] => files'[n] = NoFile /\ Expired(n)]_vars
  BY DirectoryStep DEF Kept, Untouched
<1> QED BY <1>1, DirectoryAlways, PTL DEF Spec, YoungDumpsStay

-----------------------------------------------------------------------------
(* Verification: what a verdict rests on *)

\* What a run that verifies has found so far holds for the rows there were when
\* it began, whatever has been added since.
Verifier(s) ==
  LET run == script[s] IN
  /\ run.pc \notin {"compare", "conclude"} => run.at = 1
  /\ Live(run) => run.since \in Source /\ \A t \in Table : run.since[t] <= source[t]
  /\ run.pc = "conclude" => run.at = Len(Compared) + 1
  /\ run.pc \in {"compare", "conclude"} =>
       /\ Settled(run.name)
       /\ ~run.bad /\ faults < 2 /\ files[run.name].there =>
            \A k \in DOMAIN Compared :
              k < run.at => run.since[Compared[k]] <= files[run.name].rows[Compared[k]]

ProvedInv ==
  \A n \in Name : proved[n] # Nothing =>
    /\ Settled(n)
    /\ faults < 2 /\ files[n].there => \A t \in Table : proved[n][t] <= files[n].rows[t]

VerdictInv == DirectoryInv /\ (\A s \in Script : Verifier(s)) /\ ProvedInv

\* What the steps of others do to what a run has found.
Around ==
  /\ Kept
  /\ faults \in Nat /\ faults' \in Nat /\ faults <= faults'
  /\ \A t \in Table : source[t] \in Nat /\ source'[t] \in Nat /\ source[t] <= source'[t]

LEMMA AroundStep == ASSUME Spaced, VerdictInv, [Next]_vars PROVE Around
<1>1. Kept /\ TypeInv'
  BY DirectoryStep, TypesStep DEF VerdictInv, DirectoryInv
<1>2. faults \in Nat /\ faults' \in Nat
  BY <1>1 DEF VerdictInv, DirectoryInv, TypeInv, TypeOK
<1>3. faults <= faults'
  <2>1. CASE UNCHANGED vars
    BY <1>2, <2>1 DEF vars
  <2>2. ASSUME NEW s \in Script, Compare(s) PROVE faults <= faults'
    BY <2>2, Counted DEF VerdictInv, DirectoryInv
  <2>3. ASSUME NEW s \in Script, \/ Begin(s) \/ OpenDump(s) \/ CloseDump(s) \/ ListArchive(s)
                                 \/ Candidates(s) \/ Prune(s) \/ RestoreDump(s) \/ Conclude(s)
                                 \/ Cut(s) \/ (\E p \in Pid : CreateScratch(s, p))
                                 \/ (\E n \in Name : VerifyByHand(s, n))
        PROVE  faults <= faults'
    <3>1. faults' = faults \/ Fault
      BY <2>3 DEF Begin, OpenDump, CloseDump, ListArchive, Candidates, Prune, RestoreDump,
                  Conclude, Cut, CreateScratch, VerifyByHand, Cleanup
    <3> QED BY <1>2, <3>1 DEF Fault
  <2>4. CASE Sleep \/ \E t \in Table : Insert(t)
    BY <1>2, <2>4 DEF Sleep, Insert
  <2> QED BY <2>1, <2>2, <2>3, <2>4 DEF Next, Step
<1>4. source \in Source /\ source' \in Source
  BY <1>1 DEF VerdictInv, DirectoryInv, TypeInv, TypeOK
<1>5. \A t \in Table : source[t] \in Nat /\ source'[t] \in Nat
  BY <1>4, BackupsAssumption DEF Source
<1>6. \A t \in Table : source[t] <= source'[t]
  <2>1. CASE source' = source
    BY <1>5, <2>1
  <2>2. ASSUME NEW u \in Table, Insert(u) PROVE \A t \in Table : source[t] <= source'[t]
    BY <1>4, <1>5, <2>2 DEF Insert, Source
  <2> QED BY <2>1, <2>2
       DEF Next, Step, vars, Begin, OpenDump, CloseDump, ListArchive, Candidates, Prune,
           CreateScratch, RestoreDump, Compare, Conclude, Cut, VerifyByHand, Sleep
<1> QED BY <1>1, <1>2, <1>3, <1>5, <1>6 DEF Around

\* A run that does nothing keeps its findings.
LEMMA FindingsStay ==
  ASSUME VerdictInv, Around, NEW s \in Script, script'[s] = script[s]
  PROVE  Verifier(s)'
<1> DEFINE run == script[s]
<1>1. /\ run.pc \notin {"compare", "conclude"} => run.at = 1
      /\ run.pc = "conclude" => run.at = Len(Compared) + 1
  BY DEF VerdictInv, Verifier
<1>2. Live(run) => run.since \in Source /\ \A t \in Table : run.since[t] <= source'[t]
  <2> SUFFICES ASSUME Live(run), NEW t \in Table PROVE run.since[t] <= source'[t]
    BY DEF VerdictInv, Verifier
  <2>1. run.since[t] <= source[t] /\ run.since[t] \in Nat
    BY BackupsAssumption DEF VerdictInv, Verifier, Source
  <2> QED BY <2>1 DEF Around
<1>3. run.pc \in {"compare", "conclude"} =>
        /\ Settled(run.name)'
        /\ ~run.bad /\ faults' < 2 /\ files'[run.name].there =>
             \A k \in DOMAIN Compared :
               k < run.at => run.since[Compared[k]] <= files'[run.name].rows[Compared[k]]
  <2>1. run.name \in Name
    BY RunTypes DEF VerdictInv, DirectoryInv, TypeInv
  <2>2. faults' < 2 => faults < 2
    BY DEF Around
  <2> QED BY <2>1, <2>2 DEF VerdictInv, Verifier, Around, Kept
<1> QED BY <1>1, <1>2, <1>3 DEF Verifier, Live

\* So does one whose new place asks for nothing.
LEMMA NothingFound ==
  ASSUME NEW s \in Script, script'[s].at = 1, ~Live(script'[s])
  PROVE  Verifier(s)'
BY DEF Verifier, Live

\* A step of one run leaves the others where they are.
LEMMA OthersRest ==
  ASSUME TypeInv, NEW s \in Script, NEW r \in Script \ {s},
         Begin(r) \/ Step(r) \/ Cut(r) \/ \E n \in Name : VerifyByHand(r, n)
  PROVE  script'[s] = script[s]
<1>0. script \in [Script -> Run] /\ TypeInv
  BY DEF TypeInv, TypeOK
<1>1. ASSUME NEW run, script' = [script EXCEPT ![r] = run] PROVE script'[s] = script[s]
  BY <1>0, <1>1
<1>2. CASE Begin(r) \/ OpenDump(r) \/ CloseDump(r) \/ ListArchive(r) \/ RestoreDump(r)
           \/ Conclude(r) \/ Cut(r) \/ \E n \in Name : VerifyByHand(r, n)
  BY <1>0, <1>2 DEF Begin, OpenDump, CloseDump, ListArchive, RestoreDump, Conclude, Cut,
                    VerifyByHand, Goto, Exit
<1>3. CASE Candidates(r) \/ Prune(r)
  BY <1>0, <1>3 DEF Candidates, Prune, Exit
<1>4. CASE Compare(r)
  BY <1>0, <1>1, <1>4, Counted
<1>5. CASE \E p \in Pid : CreateScratch(r, p)
  BY <1>0, <1>5 DEF CreateScratch, Exit
<1> QED BY <1>2, <1>3, <1>4, <1>5 DEF Step

LEMMA VerifierStep ==
  ASSUME VerdictInv, Around, Next, NEW s \in Script PROVE Verifier(s)'
<1>0. /\ script \in [Script -> Run] /\ TypeInv /\ Verifier(s) /\ script[s] \in Run
      /\ Idle.at = 1 /\ ~Live(Idle)
  BY ConstantTypes DEF VerdictInv, DirectoryInv, TypeInv, TypeOK
<1>1. CASE script'[s] = script[s]
  BY <1>1, FindingsStay
<1>2. CASE script'[s] = Idle
  BY <1>0, <1>2, NothingFound
<1>3. CASE Begin(s) \/ OpenDump(s) \/ CloseDump(s) \/ ListArchive(s) \/ Candidates(s) \/ Prune(s)
           \/ \E n \in Name : VerifyByHand(s, n)
  <2>1. script[s].at = 1 /\ ~Live(script[s])
    BY <1>0, <1>3 DEF Verifier, Begin, OpenDump, CloseDump, ListArchive, Candidates, Prune,
                      VerifyByHand, At, Live
  <2>2. AfterPruning(s).at = 1 /\ ~Live(AfterPruning(s))
    BY <1>0, <2>1, AfterPruningTypes DEF AfterPruning, Run
  <2>3. CASE Begin(s) \/ \E n \in Name : VerifyByHand(s, n)
    BY <1>0, <2>1, <2>3, NothingFound DEF Begin, VerifyByHand, Run, Live
  <2>4. CASE OpenDump(s) \/ CloseDump(s) \/ ListArchive(s)
    BY <1>0, <1>2, <2>1, <2>4, NothingFound DEF OpenDump, CloseDump, ListArchive, Goto, Exit, Run, Live
  <2>5. CASE Candidates(s)
    <3>1. CASE script' = [script EXCEPT ![s] = AfterPruning(s)]
      BY <1>0, <2>2, <3>1, NothingFound
    <3>2. ASSUME NEW old, script' = [script EXCEPT ![s].pc = "prune", ![s].old = old]
          PROVE  Verifier(s)'
      BY <1>0, <2>1, <3>2, NothingFound DEF Run, Live
    <3> QED BY <2>5, <3>1, <3>2 DEF Candidates
  <2>6. CASE Prune(s)
    <3>1. CASE script' = [script EXCEPT ![s] = AfterPruning(s)]
      BY <1>0, <2>2, <3>1, NothingFound
    <3>2. ASSUME NEW n, script' = [script EXCEPT ![s] = [@ EXCEPT !.old = script[s].old \ {n}]]
          PROVE  Verifier(s)'
      BY <1>0, <2>1, <3>2, NothingFound DEF Run, Live
    <3>3. CASE Exit(s)
      BY <1>0, <1>2, <3>3 DEF Exit
    <3> QED BY <2>6, <3>1, <3>2, <3>3 DEF Prune
  <2> QED BY <1>3, <2>3, <2>4, <2>5, <2>6
<1>4. ASSUME NEW p \in Pid, CreateScratch(s, p) PROVE Verifier(s)'
  <2>1. CASE Exit(s)
    BY <1>0, <1>2, <2>1 DEF Exit
  <2>2. CASE script' = [script EXCEPT ![s].pc = "restore", ![s].pid = p, ![s].since = source]
    <3>1. script[s].at = 1 /\ source' = source /\ source \in Source
      BY <1>0, <1>4, RunTypes DEF Verifier, CreateScratch, At, TypeInv
    <3>2. script'[s].pc = "restore" /\ script'[s].at = 1 /\ script'[s].since = source
      BY <1>0, <2>2, <3>1 DEF Run
    <3> QED BY <3>1, <3>2 DEF Verifier, Live, Around
  <2> QED BY <1>4, <2>1, <2>2 DEF CreateScratch
<1>5. CASE RestoreDump(s)
  <2>1. CASE Exit(s)
    BY <1>0, <1>2, <2>1 DEF Exit
  <2>2. CASE Dump(s).whole /\ Goto(s, "compare")
    <3>0. PICK n \in Name : n = script[s].name
      BY <1>0, RunTypes DEF TypeInv
    <3>1. n \in Name /\ files[n].whole
      BY <2>2, <3>0 DEF Dump
    <3>2. Settled(n)
      <4>1. files[n].there
        BY <3>1 DEF VerdictInv, DirectoryInv, FilesInv
      <4>2. \A r \in Script : Writes(r) => script[r].name # n
        BY <3>0, <3>1, <4>1 DEF VerdictInv, DirectoryInv, WritersInv, Writes, At
      <4> QED BY <3>1, <4>1, <4>2 DEF Settled
    <3>3. /\ script'[s].pc = "compare" /\ script'[s].at = 1 /\ script'[s].name = n
          /\ script'[s].since = script[s].since
          /\ script[s].since \in Source /\ \A t \in Table : script[s].since[t] <= source[t]
      <4>1. script[s].pc = "restore" /\ Live(script[s])
        BY <1>5 DEF RestoreDump, At, Live
      <4>2. /\ script[s].at = 1 /\ script[s].since \in Source
            /\ \A t \in Table : script[s].since[t] <= source[t]
        BY <1>0, <4>1 DEF Verifier
      <4>3. /\ script'[s].pc = "compare" /\ script'[s].at = script[s].at
            /\ script'[s].name = n /\ script'[s].since = script[s].since
        BY <1>0, <2>2, <3>0 DEF Goto, Run
      <4> QED BY <4>2, <4>3
    <3>4. source' = source /\ Settled(n)'
      BY <1>5, <3>1, <3>2 DEF RestoreDump, Around, Kept
    <3>5. \A k \in DOMAIN Compared : ~(k < 1)
      BY BackupsAssumption
    <3> QED BY <3>3, <3>4, <3>5 DEF Verifier
  <2> QED BY <1>5, <2>1, <2>2 DEF RestoreDump
<1>6. CASE Compare(s)
  <2> DEFINE run == script[s]
  <2>0. PICK n \in Name : n = script[s].name
    BY <1>0, RunTypes DEF TypeInv
  <2>1. PICK failed \in BOOLEAN :
          /\ script' = [script EXCEPT ![s] = AfterCount(s, failed)]
          /\ ~failed /\ faults' < 2 =>
               ~run.bad /\ files[n].rows[Compared[run.at]] = source[Compared[run.at]]
    BY <1>0, <1>6, <2>0, Counted DEF Dump
  <2>2. /\ run.pc = "compare" /\ n \in Name /\ run.at \in Nat /\ files' = files /\ source' = source
        /\ Live(run)
    BY <1>0, <1>6, <2>0 DEF Compare, At, Run, Live
  <2>3. /\ script'[s].at = run.at + 1 /\ script'[s].bad = failed /\ script'[s].name = n
        /\ script'[s].since = run.since
        /\ script'[s].pc = IF run.at = Len(Compared) THEN "conclude" ELSE "compare"
    BY <1>0, <2>0, <2>1 DEF AfterCount, Run
  <2>4. /\ run.since \in Source /\ \A t \in Table : run.since[t] <= source[t]
        /\ Settled(n)
        /\ ~run.bad /\ faults < 2 /\ files[n].there =>
             \A k \in DOMAIN Compared :
               k < run.at => run.since[Compared[k]] <= files[n].rows[Compared[k]]
    <3>1. Verifier(s)
      BY <1>0
    <3>2. run.since \in Source /\ \A t \in Table : run.since[t] <= source[t]
      BY <2>2, <3>1 DEF Verifier
    <3>3. /\ Settled(n)
          /\ ~run.bad /\ faults < 2 /\ files[n].there =>
               \A k \in DOMAIN Compared :
                 k < run.at => run.since[Compared[k]] <= files[n].rows[Compared[k]]
      BY <2>0, <2>2, <3>1 DEF Verifier
    <3> QED BY <3>2, <3>3
  <2>5. Settled(n)'
    BY <2>2, <2>4 DEF Around, Kept
  <2>6. ASSUME ~failed, faults' < 2, files[n].there, NEW k \in DOMAIN Compared, k < run.at + 1
        PROVE  run.since[Compared[k]] <= files[n].rows[Compared[k]]
    <3>1. faults < 2
      BY <2>6 DEF Around
    <3>2. k \in Nat
      BY BackupsAssumption
    <3>3. CASE k < run.at
      BY <2>1, <2>4, <2>6, <3>1, <3>3
    <3>4. CASE k = run.at
      BY <2>1, <2>4, <2>6, <3>4 DEF Table
    <3> QED BY <2>2, <2>6, <3>2, <3>3, <3>4
  <2> QED BY <2>2, <2>3, <2>4, <2>5, <2>6 DEF Verifier
<1>7. CASE Conclude(s) \/ Cut(s)
  BY <1>0, <1>2, <1>7 DEF Conclude, Cut, Exit
<1>8. ASSUME NEW r \in Script \ {s}, \/ Begin(r) \/ Step(r) \/ Cut(r)
                                     \/ \E n \in Name : VerifyByHand(r, n)
      PROVE  script'[s] = script[s]
  BY <1>0, <1>8, OthersRest
<1>9. CASE Sleep \/ \E t \in Table : Insert(t)
  BY <1>1, <1>9 DEF Sleep, Insert
<1> QED BY <1>1, <1>3, <1>4, <1>5, <1>6, <1>7, <1>8, <1>9 DEF Next, Step

LEMMA ProvedStep == ASSUME VerdictInv, Around, [Next]_vars PROVE ProvedInv'
<1> SUFFICES ASSUME NEW n \in Name, proved'[n] # Nothing
             PROVE  /\ Settled(n)'
                    /\ faults' < 2 /\ files'[n].there =>
                         \A t \in Table : proved'[n][t] <= files'[n].rows[t]
  BY DEF ProvedInv
<1>1. ASSUME Settled(n), faults < 2 /\ files[n].there => \A t \in Table : proved'[n][t] <= files[n].rows[t]
      PROVE  /\ Settled(n)'
             /\ faults' < 2 /\ files'[n].there =>
                  \A t \in Table : proved'[n][t] <= files'[n].rows[t]
  <2>1. faults' < 2 => faults < 2
    BY DEF Around
  <2> QED BY <1>1, <2>1 DEF Around, Kept
<1>2. CASE proved'[n] = proved[n]
  BY <1>1, <1>2 DEF VerdictInv, ProvedInv
<1>3. ASSUME NEW s \in Script, Conclude(s), proved'[n] # proved[n]
      PROVE  Settled(n) /\ (faults < 2 /\ files[n].there =>
                              \A t \in Table : proved'[n][t] <= files[n].rows[t])
  <2>1. proved \in [Name -> Source \cup {Nothing}] /\ Verifier(s)
    BY RunTypes DEF VerdictInv, DirectoryInv, TypeInv
  <2>2. n = script[s].name /\ ~script[s].bad /\ proved'[n] = script[s].since
    BY <1>3, <2>1 DEF Conclude
  <2>3. \A k \in DOMAIN Compared : k < script[s].at
    BY <1>3, <2>1, BackupsAssumption DEF Conclude, At, Verifier
  <2> QED BY <1>3, <2>1, <2>2, <2>3 DEF Verifier, Conclude, At, Table
<1>4. proved' = proved \/ \E s \in Script : Conclude(s)
  BY DEF Next, Step, vars, Begin, OpenDump, CloseDump, ListArchive, Candidates, Prune,
         CreateScratch, RestoreDump, Compare, Cut, VerifyByHand, Sleep, Insert
<1> QED BY <1>1, <1>2, <1>3, <1>4

LEMMA VerdictStarts == Init => VerdictInv
<1> SUFFICES ASSUME Init PROVE VerdictInv
  OBVIOUS
<1>1. \A s \in Script : Verifier(s)
  BY ConstantTypes DEF Init, Verifier
<1>2. ProvedInv
  BY DEF Init, ProvedInv
<1> QED BY <1>1, <1>2, DirectoryStarts DEF VerdictInv

LEMMA VerdictStep == ASSUME Spaced, VerdictInv, [Next]_vars PROVE VerdictInv'
<1>1. Around /\ DirectoryInv'
  BY AroundStep, TypesStep DEF VerdictInv, DirectoryInv, Around, Kept
<1>2. \A s \in Script : Verifier(s)'
  <2>1. CASE Next
    BY <1>1, <2>1, VerifierStep
  <2>2. CASE UNCHANGED vars
    BY <1>1, <2>2, FindingsStay DEF vars
  <2> QED BY <2>1, <2>2
<1> QED BY <1>1, <1>2, ProvedStep DEF VerdictInv

\* "verified - restores and matches the source" (verify-postgres-backup.sh): what
\* was said of a dump holds for the rows there were when the run began.
THEOREM VerifiedDumpsHold ==
  ASSUME Spaced
  PROVE  Spec => []VerifiedHoldsTheRows
<1>1. VerdictInv => VerifiedHoldsTheRows
  BY DEF VerdictInv, ProvedInv, VerifiedHoldsTheRows, Settled
<1>2. VerdictInv /\ [Next]_vars => VerdictInv'
  BY VerdictStep
<1> QED BY <1>1, <1>2, VerdictStarts, PTL DEF Spec

-----------------------------------------------------------------------------
(* Retention: some dump that restores is not on the list *)

Pruner(s) ==
  /\ script[s].pc \in {"candidates", "prune"} => s \in Nightly
  /\ script[s].pc = "prune" /\ ~crowded => \E n \in Restorable(files) : n \notin script[s].old

PruningInv ==
  /\ DirectoryInv
  /\ \A s \in Script : Pruner(s)
  /\ Cardinality(Broken(files)) >= KEEP_MIN => crowded

LEMMA OneNight == \A r, s \in Nightly : r = s
BY BackupsAssumption

\* The list leaves out KEEP_MIN files; all of them broken is a crowd.
LEMMA ListLeavesOne ==
  ASSUME PruningInv, ~crowded, NEW kept, Newest(kept, KEEP_MIN)
  PROVE  \E n \in Restorable(files) : n \in kept
<1>1. CASE kept \subseteq Broken(files)
  <2>1. IsFiniteSet(Broken(files))
    <3>1. IsFiniteSet(Name)
      BY BackupsAssumption, FS_Interval DEF Name
    <3> QED BY <3>1, FS_Subset DEF Broken
  <2>2. Cardinality(kept) <= Cardinality(Broken(files))
    BY <1>1, <2>1, FS_Subset
  <2>3. Cardinality(Broken(files)) \in Nat
    BY <2>1, FS_CardinalityType
  <2> QED BY <2>2, <2>3, BackupsAssumption DEF Newest, PruningInv
<1> QED BY <1>1 DEF Newest, There, Broken, Restorable

\* Other runs, and the clock, leave a dump that restores where it is.
LEMMA OnlyTheNightPrunes ==
  ASSUME PruningInv, Kept, NEW s \in Script, At(s, "prune"), ~crowded
  PROVE  \E n \in Restorable(files') : n \notin script[s].old
<1>1. PICK n \in Restorable(files) : n \notin script[s].old
  BY DEF PruningInv, Pruner, At
<1>2. n \in Name /\ Untouched(n)
  BY DEF Kept, Restorable
<1>3. files'[n] = files[n]
  <2>1. ASSUME NEW r \in Script, At(r, "prune"), n \in script[r].old PROVE FALSE
    <3>1. r = s
      BY <2>1, OneNight DEF PruningInv, Pruner, At
    <3> QED BY <1>1, <2>1, <3>1
  <2> QED BY <1>2, <2>1 DEF Untouched
<1> QED BY <1>1, <1>2, <1>3 DEF Restorable

LEMMA CrowdStep ==
  ASSUME PruningInv, [Next]_vars
  PROVE  /\ crowded => crowded'
         /\ Cardinality(Broken(files'))  >= KEEP_MIN => crowded'
<1>1. CASE UNCHANGED <<files, crowded>>
  BY <1>1 DEF PruningInv
<1>2. ASSUME NEW dir, Directory(dir)
      PROVE  /\ crowded => crowded'
             /\ Cardinality(Broken(files')) >= KEEP_MIN => crowded'
  BY <1>2 DEF Directory
<1>3. UNCHANGED <<files, crowded>> \/ \E dir : Directory(dir)
  <2>1. CASE UNCHANGED vars
    BY <2>1 DEF vars
  <2>2. ASSUME NEW s \in Script, OpenDump(s) \/ CloseDump(s) \/ Prune(s)
        PROVE  UNCHANGED <<files, crowded>> \/ \E dir : Directory(dir)
    BY <2>2 DEF OpenDump, CloseDump, Prune
  <2>3. CASE \/ \E s \in Script : \/ Begin(s) \/ ListArchive(s) \/ Candidates(s) \/ RestoreDump(s)
                                  \/ Compare(s) \/ Conclude(s) \/ Cut(s)
                                  \/ \E p \in Pid : CreateScratch(s, p)
                                  \/ \E n \in Name : VerifyByHand(s, n)
             \/ Sleep \/ \E t \in Table : Insert(t)
    BY <2>3 DEF Begin, ListArchive, Candidates, RestoreDump, Compare, Conclude, Cut,
                CreateScratch, VerifyByHand, Sleep, Insert
  <2> QED BY <2>1, <2>2, <2>3 DEF Next, Step
<1> QED BY <1>1, <1>2, <1>3

LEMMA PrunerStep ==
  ASSUME PruningInv, Kept, Next, crowded => crowded', NEW s \in Script PROVE Pruner(s)'
<1>0. /\ script \in [Script -> Run] /\ script[s] \in Run /\ Idle.pc = "idle" /\ Pruner(s)
      /\ AfterPruning(s).pc \in {"idle", "create"}
  BY ConstantTypes DEF PruningInv, DirectoryInv, TypeInv, TypeOK, AfterPruning, Run
<1>1. CASE script'[s] = script[s]
  BY <1>0, <1>1, OnlyTheNightPrunes DEF Pruner, At
<1>2. CASE script'[s].pc \notin {"candidates", "prune"}
  BY <1>2 DEF Pruner
<1>3. CASE ListArchive(s)
  <2>1. script'[s].pc = "idle" \/ (script'[s].pc = "candidates" /\ s \in Nightly)
    BY <1>0, <1>3 DEF ListArchive, Goto, Exit, Run
  <2> QED BY <2>1 DEF Pruner
<1>4. CASE Candidates(s)
  <2>1. CASE script' = [script EXCEPT ![s] = AfterPruning(s)]
    BY <1>0, <1>2, <2>1
  <2>2. ASSUME NEW kept, Newest(kept, KEEP_MIN),
               script' = [script EXCEPT ![s].pc = "prune", ![s].old = There \ kept]
        PROVE  Pruner(s)'
    <3>1. script'[s].pc = "prune" /\ script'[s].old = There \ kept /\ s \in Nightly
      BY <1>0, <1>4, <2>2 DEF Candidates, At, Pruner, Run
    <3>2. files' = files /\ crowded' = crowded
      BY <1>4 DEF Candidates
    <3>3. ~crowded => \E n \in Restorable(files) : n \in kept
      BY <2>2, ListLeavesOne
    <3> QED BY <3>1, <3>2, <3>3 DEF Pruner
  <2> QED BY <1>4, <2>1, <2>2 DEF Candidates
<1>5. CASE Prune(s)
  <2>1. CASE script'[s].pc # "prune"
    <3>1. script'[s].pc # "candidates"
      BY <1>0, <1>5, <2>1 DEF Prune, Exit, At, Run
    <3> QED BY <1>2, <2>1, <3>1
  <2>2. CASE script'[s].pc = "prune"
    <3>1. script'[s].old \subseteq script[s].old /\ At(s, "prune") /\ s \in Nightly
      <4>1. PICK n \in script[s].old :
              \/ script' = [script EXCEPT ![s] = AfterPruning(s)]
              \/ script' = [script EXCEPT ![s] = [@ EXCEPT !.old = script[s].old \ {n}]]
              \/ Exit(s)
        BY <1>5 DEF Prune
      <4>2. script' = [script EXCEPT ![s] = [@ EXCEPT !.old = script[s].old \ {n}]]
        BY <1>0, <2>2, <4>1 DEF Exit
      <4>3. script'[s].old = script[s].old \ {n}
        BY <1>0, <4>2 DEF Run
      <4> QED BY <1>0, <1>5, <4>3 DEF Prune, At, Pruner
    <3> QED BY <2>2, <3>1, OnlyTheNightPrunes DEF Pruner
  <2> QED BY <2>1, <2>2
<1>6. CASE OpenDump(s) \/ CloseDump(s) \/ Begin(s) \/ RestoreDump(s) \/ Conclude(s) \/ Cut(s)
           \/ \E n \in Name : VerifyByHand(s, n)
  <2>1. script'[s].pc \notin {"candidates", "prune"}
    BY <1>0, <1>6 DEF OpenDump, CloseDump, Begin, RestoreDump, Conclude, Cut, VerifyByHand,
                      Goto, Exit, Run
  <2> QED BY <1>2, <2>1
<1>7. CASE Compare(s)
  <2>1. PICK failed \in BOOLEAN : script' = [script EXCEPT ![s] = AfterCount(s, failed)]
    BY <1>7, Counted DEF PruningInv, DirectoryInv
  <2>2. Live(AfterCount(s, failed))
    BY CountTypes DEF PruningInv, DirectoryInv
  <2>3. script'[s] = AfterCount(s, failed)
    BY <1>0, <2>1
  <2> QED BY <1>2, <2>2, <2>3 DEF Live
<1>8. ASSUME NEW p \in Pid, CreateScratch(s, p) PROVE Pruner(s)'
  <2>1. CASE Exit(s)
    BY <1>0, <1>2, <2>1 DEF Exit
  <2>2. CASE script' = [script EXCEPT ![s].pc = "restore", ![s].pid = p, ![s].since = source]
    <3>1. script'[s].pc = "restore"
      BY <1>0, <2>2 DEF Run
    <3> QED BY <1>2, <3>1
  <2> QED BY <1>8, <2>1, <2>2 DEF CreateScratch
<1>9. ASSUME NEW r \in Script \ {s}, \/ Begin(r) \/ Step(r) \/ Cut(r)
                                     \/ \E n \in Name : VerifyByHand(r, n)
      PROVE  script'[s] = script[s]
  BY <1>0, <1>9, OthersRest DEF PruningInv, DirectoryInv
<1>10. CASE Sleep \/ \E t \in Table : Insert(t)
  BY <1>1, <1>10 DEF Sleep, Insert
<1> QED BY <1>1, <1>3, <1>4, <1>5, <1>6, <1>7, <1>8, <1>9, <1>10 DEF Next, Step

LEMMA PruningStarts == Init => PruningInv
<1> SUFFICES ASSUME Init PROVE PruningInv
  OBVIOUS
<1>1. \A s \in Script : Pruner(s)
  BY ConstantTypes DEF Init, Pruner
<1>2. Broken(files) = {}
  BY DEF Init, Broken, NoFile
<1>3. ~(Cardinality(Broken(files)) >= KEEP_MIN)
  BY <1>2, FS_EmptySet, BackupsAssumption
<1> QED BY <1>1, <1>3, DirectoryStarts DEF PruningInv

LEMMA PruningStep == ASSUME Spaced, PruningInv, [Next]_vars PROVE PruningInv' /\ Kept
<1>1. Kept /\ DirectoryInv'
  BY DirectoryStep, TypesStep DEF PruningInv, DirectoryInv, Kept
<1>2. /\ crowded => crowded'
      /\ Cardinality(Broken(files')) >= KEEP_MIN => crowded'
  BY CrowdStep
<1>3. \A s \in Script : Pruner(s)'
  <2>1. CASE Next
    BY <1>1, <1>2, <2>1, PrunerStep
  <2>2. CASE UNCHANGED vars
    BY <2>2 DEF vars, PruningInv, Pruner
  <2> QED BY <2>1, <2>2
<1> QED BY <1>1, <1>2, <1>3 DEF PruningInv, Broken

\* scheduled-backup.sh:20 "must not wake up and delete its way to nothing": what
\* the night removes is never the last dump that restores, whatever was added,
\* damaged or removed since it was listed.
THEOREM NeverDownToNothing ==
  ASSUME Spaced
  PROVE  Spec => RestorableRemains
<1>1. PruningInv /\ [Next]_vars =>
        [~crowded /\ Restorable(files) # {} => Restorable(files') # {}]_vars
  <2> SUFFICES ASSUME PruningInv, Next, ~crowded, NEW n \in Restorable(files)
               PROVE  Restorable(files') # {}
    OBVIOUS
  <2>1. Kept
    BY PruningStep
  <2>2. n \in Name /\ Untouched(n)
    BY <2>1 DEF Kept, Restorable
  <2>3. CASE files'[n] = files[n]
    BY <2>2, <2>3 DEF Restorable
  <2>4. CASE \E s \in Script : At(s, "prune")
    BY <2>1, <2>4, OnlyTheNightPrunes
  <2> QED BY <2>2, <2>3, <2>4 DEF Untouched
<1>2. PruningInv /\ [Next]_vars => PruningInv'
  BY PruningStep
<1> QED BY <1>1, <1>2, PruningStarts, PTL DEF Spec, RestorableRemains
=============================================================================
