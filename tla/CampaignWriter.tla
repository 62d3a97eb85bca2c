--------------------------- MODULE CampaignWriter ---------------------------
(***************************************************************************)
(* The processes that open one physical campaign database for writing:     *)
(* the writer lock each takes first, and the schema migration each runs    *)
(* before anything else.  A process may be an older program than the one   *)
(* that wrote the file, and may die at any point.                          *)
(***************************************************************************)
EXTENDS Naturals, FiniteSets

CONSTANTS
  Procs,
  NoProc,    \* a lock nobody holds
  Db,        \* the path of the database file
  Alias,     \* a symbolic link to it
  Dangling,  \* whether the link may be there before the file is
  Given,     \* the path each process was told to open
  Build,     \* how many migrations come with each process's program
  MaxBuild   \* those of the newest program

Paths == {Db, Alias}
Versions == 1 .. MaxBuild

ASSUME PathsAssumption ==
  Db # Alias /\ NoProc \notin Procs /\ Dangling \in BOOLEAN
  /\ Given \in [Procs -> Paths]
ASSUME BuildAssumption ==
  MaxBuild \in Nat \ {0} /\ Build \in [Procs -> Versions]

VARIABLES
  pc,       \* what each process is doing
  lock,     \* the lock path its spelling of the file was resolved to
  holder,   \* who holds the lock at each path
  exists,   \* the database file is there
  foreign,  \* it holds tables that are no known baseline
  schema,   \* the migrations whose statements took effect in it
  tracked,  \* it has a schema_migrations table, the ledger
  ledger,   \* the migrations recorded there
  todo      \* the next version each process means to apply

lockVars == <<lock, holder>>
schemaVars == <<exists, foreign, schema, tracked, ledger>>
writerVars == <<pc, lockVars, schemaVars, todo>>

Opening == {"locked", "opened", "prepared", "migrating"}

\* The file is absent, a legacy database at the baseline, or one that cannot
\* be adopted.
WriterInit ==
  /\ pc = [p \in Procs |-> "off"]
  /\ lock = [p \in Procs |-> Db]
  /\ holder = [n \in Paths |-> NoProc]
  /\ tracked = FALSE /\ ledger = {} /\ todo = [p \in Procs |-> 0]
  /\ \/ exists = FALSE /\ foreign = FALSE /\ schema = {}
     \/ exists = TRUE /\ foreign = FALSE /\ schema = {1}
     \/ exists = TRUE /\ foreign = TRUE /\ schema = {}

Goes(p, where) == pc' = [pc EXCEPT ![p] = where]

\* Mutant: the lock is named after the path as given.
LockPathAsGiven(n) == n
\* The realpath of the file, or the path as given when nothing is there yet.
LockPath(n) == IF exists THEN Db ELSE n

\* Returning, throwing and dying let go of the lock alike: release() runs in a
\* finally, and the operating system drops the lock of a dead process.
Leave(p) ==
  /\ Goes(p, "off")
  /\ holder' = [holder EXCEPT ![lock[p]] = NoProc]
  /\ lock' = [lock EXCEPT ![p] = Db]
  /\ todo' = [todo EXCEPT ![p] = 0]

-----------------------------------------------------------------------------
\* A process that finds the lock taken is refused at once and changes nothing.
Acquire(p) ==
  LET n == LockPath(Given[p])
  IN /\ pc[p] = "off"
     /\ Given[p] = Alias => exists \/ Dangling
     /\ holder[n] = NoProc
     /\ holder' = [holder EXCEPT ![n] = p]
     /\ lock' = [lock EXCEPT ![p] = n]
     /\ Goes(p, "locked")
     /\ UNCHANGED <<schemaVars, todo>>

\* SQLite creates the file, through the link if need be.
OpenDatabase(p) ==
  /\ pc[p] = "locked"
  /\ exists' = TRUE
  /\ Goes(p, "opened")
  /\ UNCHANGED <<lockVars, foreign, schema, tracked, ledger, todo>>

\* A ledger or an empty file needs nothing; a baseline is adopted by writing
\* its ledger row; any other database is refused before it is touched.
PrepareDatabase(p) ==
  /\ pc[p] = "opened"
  /\ UNCHANGED <<exists, foreign, schema>>
  /\ \/ /\ tracked \/ (schema = {} /\ ~ foreign)
        /\ Goes(p, "prepared")
        /\ UNCHANGED <<lockVars, tracked, ledger, todo>>
     \/ /\ ~ tracked /\ schema = {1} /\ ~ foreign
        /\ tracked' = TRUE /\ ledger' = {1}
        /\ Goes(p, "prepared")
        /\ UNCHANGED <<lockVars, todo>>
     \/ /\ ~ tracked /\ foreign
        /\ Leave(p) /\ UNCHANGED <<tracked, ledger>>

\* Mutant: a ledger of a newer program is not refused.
VerifyLedgerAnyway(p) ==
  /\ pc[p] = "prepared"
  /\ tracked' = TRUE
  /\ todo' = [todo EXCEPT ![p] = Cardinality(ledger) + 1]
  /\ Goes(p, "migrating")
  /\ UNCHANGED <<lockVars, exists, foreign, schema, ledger>>

\* runMigrations makes the ledger, refuses one that records a migration this
\* program does not have, and lists what is pending.
VerifyLedger(p) ==
  /\ pc[p] = "prepared"
  /\ tracked' = TRUE
  /\ UNCHANGED <<exists, foreign, schema, ledger>>
  /\ \/ /\ \A v \in ledger : v <= Build[p]
        /\ todo' = [todo EXCEPT ![p] = Cardinality(ledger) + 1]
        /\ Goes(p, "migrating")
        /\ UNCHANGED lockVars
     \/ /\ \E v \in ledger : v > Build[p]
        /\ Leave(p)

\* One transaction a migration: its statements and its ledger row, or neither.
ApplyMigration(p) ==
  /\ pc[p] = "migrating" /\ todo[p] <= Build[p]
  /\ UNCHANGED <<exists, foreign, tracked>>
  /\ \/ /\ todo[p] \notin ledger
        /\ schema' = schema \cup {todo[p]}
        /\ ledger' = ledger \cup {todo[p]}
        /\ todo' = [todo EXCEPT ![p] = @ + 1]
        /\ UNCHANGED <<pc, lockVars>>
     \/ Leave(p) /\ UNCHANGED <<schema, ledger>>

MigrationsDone(p) ==
  /\ pc[p] = "migrating" /\ todo[p] > Build[p]
  /\ Goes(p, "ready")
  /\ todo' = [todo EXCEPT ![p] = 0]
  /\ UNCHANGED <<lockVars, schemaVars>>

WriterStep(p) ==
  \/ Acquire(p) \/ OpenDatabase(p) \/ PrepareDatabase(p)
  \/ VerifyLedger(p) \/ ApplyMigration(p) \/ MigrationsDone(p)

\* Dying, or returning early, wherever the process is.
Stop(p) ==
  /\ pc[p] # "off"
  /\ Leave(p) /\ UNCHANGED schemaVars
=============================================================================
