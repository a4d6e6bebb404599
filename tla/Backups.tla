------------------------------- MODULE Backups -------------------------------
(***************************************************************************)
(* The dumps of Postgres: scripts/backup-postgres.sh, its nightly wrapper  *)
(* scheduled-backup.sh and verify-postgres-backup.sh, over one directory   *)
(* and one source that goes on changing.  An operator may run the first    *)
(* and the last by hand meanwhile; any run may be cut short, and the       *)
(* machine may sleep for days between any two commands.                    *)
(***************************************************************************)
EXTENDS Naturals, FiniteSets, Sequences

CONSTANTS
  Nightly,        \* the wrapper's runs: launchd has one of a label at a time
  ByHand,         \* runs an operator starts
  Compared,       \* the tables verify counts, in order
  Pid,            \* process ids, which name the throwaway databases
  SKIP_VERIFY,    \* HEMSIDOR24_SKIP_VERIFY
  KEEP_DAYS, KEEP_MIN,
  DAY,            \* moments in a day
  Spaced,         \* no two runs of the dump script start in the same second
  MaxClock,       \* bound on the moments that pass
  MaxRows,        \* bound on the rows of a table
  MaxFaults       \* bound on commands that fail and runs cut short

ASSUME BackupsAssumption ==
  /\ Nightly \cap ByHand = {} /\ (\A r, s \in Nightly : r = s) /\ Pid # {}
  /\ {SKIP_VERIFY, Spaced} \subseteq BOOLEAN
  /\ KEEP_DAYS \in Nat /\ KEEP_MIN \in Nat \ {0} /\ DAY \in Nat \ {0}
  /\ Len(Compared) \in Nat \ {0} /\ DOMAIN Compared = 1 .. Len(Compared)
  /\ MaxClock \in Nat /\ MaxRows \in Nat /\ MaxFaults \in Nat

Script == Nightly \cup ByHand
Table == {Compared[k] : k \in DOMAIN Compared}
Source == [Table -> 0 .. MaxRows]

\* A dump is named after the second its script started in.
Name == 0 .. MaxClock

VARIABLES
  source,     \* how many rows each table has
  files,      \* the directory
  scratch,    \* throwaway databases: somebody's, this script's, or none
  script,     \* where each run is, and its locals
  clock,
  proved,     \* history: the source when the verification began that passed a dump
  crowded,    \* history: KEEP_MIN of the files could not be restored at some time
  faults

vars == <<source, files, scratch, script, clock, proved, crowded, faults>>

NoFile == [there |-> FALSE, whole |-> FALSE, rows |-> [t \in Table |-> 0], mtime |-> 0]
File == [there : BOOLEAN, whole : BOOLEAN, rows : Source, mtime : Name]

Nothing == [t \in Table |-> MaxRows + 1]

Idle == [pc |-> "idle", name |-> 0, old |-> {}, pid |-> CHOOSE p \in Pid : TRUE,
         at |-> 1, bad |-> FALSE, since |-> Nothing]

Init ==
  /\ source = [t \in Table |-> 0]
  /\ files = [n \in Name |-> NoFile]
  /\ scratch = [p \in Pid |-> "none"]
  /\ script = [s \in Script |-> Idle]
  /\ clock = 0
  /\ proved = [n \in Name |-> Nothing]
  /\ crowded = FALSE
  /\ faults = 0

-----------------------------------------------------------------------------
At(s, pc) == script[s].pc = pc
Dump(s) == files[script[s].name]

There == {n \in Name : files[n].there}
Restorable(dir) == {n \in Name : dir[n].there /\ dir[n].whole}
Broken(dir) == {n \in Name : dir[n].there /\ ~dir[n].whole}

Fault == faults < MaxFaults /\ faults' = faults + 1

\* A live run restores into the database named after its id.
Live(run) == run.pc \in {"restore", "compare", "conclude"}
Verifies(s, p) == Live(script[s]) /\ script[s].pid = p

Goto(s, pc) == script' = [script EXCEPT ![s].pc = pc]

\* exit: whatever the log says, the run is over.
Exit(s) == script' = [script EXCEPT ![s] = Idle]

Directory(dir) ==
  /\ files' = dir
  /\ crowded' = (crowded \/ Cardinality(Broken(dir)) >= KEEP_MIN)

-----------------------------------------------------------------------------
(* backup-postgres.sh *)

\* Mutant: the name is taken for granted.
Begin_AnyName(s) ==
  /\ At(s, "idle")
  /\ Spaced => \A r \in Script : At(r, "dump") => script[r].name # clock
  /\ script' = [script EXCEPT ![s].pc = "dump", ![s].name = clock]
  /\ UNCHANGED <<source, files, scratch, clock, proved, crowded, faults>>

\* "Never overwrite silently": a name that is taken is refused, and the run ends.
Begin(s) ==
  /\ At(s, "idle")
  /\ ~files[clock].there
  /\ Spaced => \A r \in Script : At(r, "dump") => script[r].name # clock
  /\ script' = [script EXCEPT ![s].pc = "dump", ![s].name = clock]
  /\ UNCHANGED <<source, files, scratch, clock, proved, crowded, faults>>

\* pg_dump truncates its file, then reads from one snapshot of the source.
OpenDump(s) ==
  /\ At(s, "dump")
  /\ Directory([files EXCEPT ![script[s].name] =
       [there |-> TRUE, whole |-> FALSE, rows |-> source, mtime |-> clock]])
  /\ Goto(s, "dumping")
  /\ UNCHANGED <<source, scratch, clock, proved, faults>>

\* It completes; or fails, and the partial file is removed; or what reached the
\* disk is not what it wrote.  A file removed meanwhile stays removed.
CloseDump(s) ==
  LET n == script[s].name IN
  /\ At(s, "dumping")
  /\ \/ /\ Directory(IF Dump(s).there
                     THEN [files EXCEPT ![n].whole = TRUE, ![n].mtime = clock] ELSE files)
        /\ Goto(s, "list") /\ UNCHANGED faults
     \/ Directory([files EXCEPT ![n] = NoFile]) /\ Exit(s) /\ Fault
     \/ UNCHANGED <<files, crowded>> /\ Goto(s, "list") /\ Fault
  /\ UNCHANGED <<source, scratch, clock, proved>>

\* pg_restore --list: damaged data behind a table of contents passes.  What does
\* not pass ends the run, and stays.
ListArchive(s) ==
  /\ At(s, "list")
  /\ \/ /\ Dump(s).there
        /\ IF s \in Nightly THEN Goto(s, "candidates") ELSE Exit(s)
        /\ UNCHANGED faults
     \/ ~Dump(s).whole /\ Exit(s) /\ UNCHANGED faults
     \/ Dump(s).whole /\ Exit(s) /\ Fault
  /\ UNCHANGED <<source, files, scratch, clock, proved, crowded>>

-----------------------------------------------------------------------------
(* scheduled-backup.sh *)

AfterPruning(s) == IF SKIP_VERIFY THEN Idle ELSE [script[s] EXCEPT !.pc = "create", !.old = {}]

Newest(kept, number) ==
  /\ kept \subseteq There /\ Cardinality(kept) = number
  /\ \A k \in kept, n \in There \ kept : files[n].mtime <= files[k].mtime

\* Mutant: tail -n +KEEP_MIN.
Candidates_OneShort(s) ==
  /\ At(s, "candidates")
  /\ IF Cardinality(There) > KEEP_MIN
     THEN \E kept \in SUBSET There :
            /\ Newest(kept, KEEP_MIN - 1)
            /\ script' = [script EXCEPT ![s].pc = "prune", ![s].old = There \ kept]
     ELSE script' = [script EXCEPT ![s] = AfterPruning(s)]
  /\ UNCHANGED <<source, files, scratch, clock, proved, crowded, faults>>

\* ls -t: all but the newest KEEP_MIN, of whatever has the name of a dump.
Candidates(s) ==
  /\ At(s, "candidates")
  /\ IF Cardinality(There) > KEEP_MIN
     THEN \E kept \in SUBSET There :
            /\ Newest(kept, KEEP_MIN)
            /\ script' = [script EXCEPT ![s].pc = "prune", ![s].old = There \ kept]
     ELSE script' = [script EXCEPT ![s] = AfterPruning(s)]
  /\ UNCHANGED <<source, files, scratch, clock, proved, crowded, faults>>

\* find -mtime +N: the age in whole days is more than N.
Expired(n) == (clock - files[n].mtime) \div DAY > KEEP_DAYS

\* Mutant: whatever is not among the newest goes.
Prune_AnyAge(s) ==
  LET old == script[s].old IN
  /\ At(s, "prune")
  /\ \E n \in old :
       /\ Directory([files EXCEPT ![n] = NoFile])
       /\ script' = [script EXCEPT ![s] = IF old = {n} THEN AfterPruning(s)
                                          ELSE [@ EXCEPT !.old = old \ {n}]]
  /\ UNCHANGED <<source, scratch, clock, proved, faults>>

\* One candidate after the other: it goes if it is old enough.  A rm that fails
\* is passed over, but as the last command of the loop it ends the script.
Prune(s) ==
  LET old  == script[s].old
      next(n) == script' = [script EXCEPT ![s] = IF old = {n} THEN AfterPruning(s)
                                                 ELSE [@ EXCEPT !.old = old \ {n}]]
  IN
  /\ At(s, "prune")
  /\ \E n \in old :
       IF files[n].there /\ Expired(n)
       THEN \/ Directory([files EXCEPT ![n] = NoFile]) /\ next(n) /\ UNCHANGED faults
            \/ /\ UNCHANGED <<files, crowded>> /\ Fault
               /\ IF old = {n} THEN Exit(s) ELSE next(n)
       ELSE UNCHANGED <<files, crowded, faults>> /\ next(n)
  /\ UNCHANGED <<source, scratch, clock, proved>>

-----------------------------------------------------------------------------
(* verify-postgres-backup.sh *)

\* By hand it takes any file there is.
VerifyByHand(s, n) ==
  /\ s \in ByHand /\ At(s, "idle")
  /\ files[n].there
  /\ script' = [script EXCEPT ![s].pc = "create", ![s].name = n]
  /\ UNCHANGED <<source, files, scratch, clock, proved, crowded, faults>>

\* Mutant: what this script's name is on is dropped at the end, come what may.
CreateScratch_Adopts(s, p) ==
  /\ At(s, "create")
  /\ \A r \in Script : ~Verifies(r, p)
  /\ Dump(s).there
  /\ scratch' = [scratch EXCEPT ![p] = "own"]
  /\ script' = [script EXCEPT ![s].pc = "restore", ![s].pid = p, ![s].since = source]
  /\ UNCHANGED <<source, files, clock, proved, crowded, faults>>

\* A database of that name is somebody else's, and is refused; no two live
\* processes share an id.
CreateScratch(s, p) ==
  /\ At(s, "create")
  /\ \A r \in Script : ~Verifies(r, p)
  /\ IF Dump(s).there /\ scratch[p] = "none"
     THEN \/ /\ scratch' = [scratch EXCEPT ![p] = "own"]
             /\ script' = [script EXCEPT ![s].pc = "restore", ![s].pid = p, ![s].since = source]
             /\ UNCHANGED faults
          \/ UNCHANGED scratch /\ Exit(s) /\ Fault
     ELSE UNCHANGED <<scratch, faults>> /\ Exit(s)
  /\ UNCHANGED <<source, files, clock, proved, crowded>>

\* The trap: what was created is dropped, unless that fails.
Cleanup(s) ==
  \/ scratch' = [scratch EXCEPT ![script[s].pid] = "none"] /\ UNCHANGED faults
  \/ scratch' = [scratch EXCEPT ![script[s].pid] = "left"] /\ Fault

\* Mutant: no trap.
RestoreDump_NoTrap(s) ==
  /\ At(s, "restore")
  /\ \/ Dump(s).whole /\ Goto(s, "compare") /\ UNCHANGED faults
     \/ ~Dump(s).whole /\ Exit(s) /\ UNCHANGED faults
     \/ Dump(s).whole /\ Fault /\ Exit(s)
  /\ UNCHANGED <<source, files, scratch, clock, proved, crowded>>

\* pg_restore reads the whole file, and notices what is damaged.
RestoreDump(s) ==
  /\ At(s, "restore")
  /\ \/ Dump(s).whole /\ Goto(s, "compare") /\ UNCHANGED <<scratch, faults>>
     \/ ~Dump(s).whole /\ Exit(s) /\ Cleanup(s)
     \/ Dump(s).whole /\ Fault /\ Exit(s)
        /\ scratch' = [scratch EXCEPT ![script[s].pid] = "none"]
  /\ UNCHANGED <<source, files, clock, proved, crowded>>

AfterCount(s, failed) ==
  [script[s] EXCEPT !.at = @ + 1, !.bad = failed,
                    !.pc = IF script[s].at = Len(Compared) THEN "conclude" ELSE "compare"]

\* Mutant: a count that fails reads as 0.
Compare_FailsToZero(s) ==
  LET t == Compared[script[s].at]
      count(a, b) == script' = [script EXCEPT ![s] = AfterCount(s, script[s].bad \/ a # b)]
  IN
  /\ At(s, "compare")
  /\ \/ count(source[t], Dump(s).rows[t]) /\ UNCHANGED faults
     \/ (count(0, Dump(s).rows[t]) \/ count(source[t], 0)) /\ Fault
  /\ UNCHANGED <<source, files, scratch, clock, proved, crowded>>

\* check: a count that fails reads as ERR, on both sides if both fail.
Compare(s) ==
  LET t == Compared[script[s].at]
      differs == Dump(s).rows[t] # source[t]
      count(failed) == script' = [script EXCEPT ![s] = AfterCount(s, script[s].bad \/ failed)]
  IN
  /\ At(s, "compare")
  /\ \/ count(differs) /\ UNCHANGED faults
     \/ count(TRUE) /\ Fault
     \/ count(FALSE) /\ faults + 1 < MaxFaults /\ faults' = faults + 2
  /\ UNCHANGED <<source, files, scratch, clock, proved, crowded>>

\* The tables are looked for and read through a join, and the verdict is given.
Conclude(s) ==
  /\ At(s, "conclude")
  /\ \/ /\ proved' = IF script[s].bad THEN proved
                     ELSE [proved EXCEPT ![script[s].name] = script[s].since]
        /\ Cleanup(s)
     \/ UNCHANGED proved /\ Fault /\ scratch' = [scratch EXCEPT ![script[s].pid] = "none"]
  /\ Exit(s)
  /\ UNCHANGED <<source, files, clock, crowded>>

-----------------------------------------------------------------------------
(* What happens around it *)

\* A visitor orders, the studio accepts, a new version migrates.
Insert(t) ==
  /\ source[t] < MaxRows
  /\ source' = [source EXCEPT ![t] = @ + 1]
  /\ UNCHANGED <<files, scratch, script, clock, proved, crowded, faults>>

\* The lid is shut for as long as it takes.
Sleep ==
  /\ \E later \in Name : later > clock /\ clock' = later
  /\ UNCHANGED <<source, files, scratch, script, proved, crowded, faults>>

\* A run is killed: no trap, no rm.
Cut(s) ==
  /\ ~At(s, "idle") /\ Fault
  /\ Exit(s)
  /\ scratch' = IF Verifies(s, script[s].pid)
                THEN [scratch EXCEPT ![script[s].pid] = "left"] ELSE scratch
  /\ UNCHANGED <<source, files, clock, proved, crowded>>

Step(s) ==
  \/ OpenDump(s) \/ CloseDump(s) \/ ListArchive(s) \/ Candidates(s) \/ Prune(s)
  \/ \E p \in Pid : CreateScratch(s, p)
  \/ RestoreDump(s) \/ Compare(s) \/ Conclude(s)

Next ==
  \/ \E s \in Script : Begin(s) \/ Step(s) \/ Cut(s)
  \/ \E s \in Script, n \in Name : VerifyByHand(s, n)
  \/ \E t \in Table : Insert(t)
  \/ Sleep

Spec == Init /\ [][Next]_vars

-----------------------------------------------------------------------------
(* Properties *)

Run == [pc : {"idle", "dump", "dumping", "list", "candidates", "prune", "create",
              "restore", "compare", "conclude"},
        name : Name, old : SUBSET Name, pid : Pid, at : Nat, bad : BOOLEAN,
        since : Source \cup {Nothing}]

TypeOK ==
  /\ source \in Source
  /\ files \in [Name -> File]
  /\ scratch \in [Pid -> {"none", "own", "left"}]
  /\ script \in [Script -> Run]
  /\ \A p \in Pid : scratch[p] = "own" <=> \E s \in Script : Verifies(s, p)
  /\ clock \in Name
  /\ proved \in [Name -> Source \cup {Nothing}]
  /\ crowded \in BOOLEAN /\ faults \in Nat

\* scheduled-backup.sh:20 "a laptop that was shut for three weeks must not wake
\* up and delete its way to nothing": once there is a dump that restores there
\* always is one, however long the machine sleeps and wherever, unless KEEP_MIN
\* files at once were partial or damaged.
RestorableRemains ==
  [][~crowded /\ Restorable(files) # {} => Restorable(files') # {}]_vars

\* scheduled-backup.sh:20 "Keep every dump for this many days": a dump that
\* restores is never overwritten or damaged, and only removed after KEEP_DAYS.
YoungDumpsStay ==
  [][\A n \in Restorable(files) : files'[n] # files[n] => files'[n] = NoFile /\ Expired(n)]_vars

\* "verified - restores and matches the source": the dump restores, and no row
\* that was there when the verification began is missing from it, unless two
\* commands failed.
VerifiedHoldsTheRows ==
  \A n \in Name : proved[n] # Nothing /\ files[n].there =>
    /\ files[n].whole
    /\ faults < 2 => \A t \in Table : proved[n][t] <= files[n].rows[t]

\* verify-postgres-backup.sh:8 "never touches a database it did not create
\* itself": what a killed run left behind stays, also when its id comes back.
LeftDatabasesStay ==
  [][\A p \in Pid : scratch[p] = "left" => scratch'[p] = "left"]_vars
=============================================================================
