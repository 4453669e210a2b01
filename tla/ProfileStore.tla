---------------------------- MODULE ProfileStore ----------------------------
(***************************************************************************)
(* The database of a profile and its schema: run_migrations, the check in  *)
(* front of it (create_schema) and `kin migrate`, which migrates a copy    *)
(* and puts it in the place of the original.                               *)
(*                                                                         *)
(* executescript first commits the open transaction, so the statements of  *)
(* a migration commit one by one, and the row that records the migration   *)
(* commits after them: a process may die anywhere in between.              *)
(***************************************************************************)
EXTENDS Naturals, Sequences, FiniteSets

CONSTANTS
    Openers,        \* processes that open the profile
    Releases,       \* the versions a profile may be at; 0: a new one
    MaxRows,        \* rows they write
    MaxStops        \* processes that die

ASSUME StoreAssumption ==
    /\ "migrate" \notin Openers
    /\ Releases \subseteq Nat
    /\ MaxRows \in Nat /\ MaxStops \in Nat

Migrate == "migrate"
Migrators == Openers \cup {Migrate}

\* ALL_MIGRATIONS.  "create" has an IF NOT EXISTS; "alter" adds or renames a
\* column and fails when it has been done before.
MigrationScripts == <<
    <<"create">>, <<"create">>, <<"alter", "create">>, <<"create", "alter">>,
    <<"alter", "alter", "create">>, <<"alter">>,
    <<"alter", "alter", "alter", "alter", "alter">>, <<"create">>, <<"create">> >>
Versions == DOMAIN MigrationScripts
Done(v) == {<<v, k>> : k \in DOMAIN MigrationScripts[v]}

VARIABLES
    db,            \* kin.db of the profile
    staged,        \* the copy `kin migrate` works on
    job,           \* what each process is doing
    rowCount, stops,
    interrupted,   \* ghost: versions that were left half applied
    overlap,       \* ghost: two processes migrated one database at once
    late           \* ghost: rows written after the copy was made

storeVars == <<db, staged, job, rowCount, stops, interrupted, overlap, late>>

\* table: schema_migrations exists; recorded: its rows; applied: the statements
\* that took effect; drift: a recorded checksum is not the one of the code;
\* foreign: tables or columns of no known release; file: which file this is.
Database(table, upto, drift, foreign) ==
    [table |-> table, recorded |-> 1..upto, applied |-> UNION {Done(v) : v \in 1..upto},
     drift |-> drift, foreign |-> foreign, rows |-> {}, file |-> 0]
Fresh == Database(FALSE, 0, FALSE, FALSE)
Legacy(foreign) ==      \* tables of the first release, before schema_migrations
    [Fresh EXCEPT !.applied = Done(1), !.foreign = foreign]
NoCopy == [file |-> 99]
Stopped == [pc |-> "no"]

StoreInit ==
    /\ db \in {Legacy(f) : f \in BOOLEAN}
              \cup {Database(v > 0, v, v > 0 /\ d, FALSE) :
                        v \in Releases \cap (0..Len(MigrationScripts)), d \in BOOLEAN}
    /\ staged = NoCopy
    /\ job = [p \in Migrators |-> Stopped]
    /\ rowCount = 0 /\ stops = 0
    /\ interrupted = {} /\ overlap = FALSE /\ late = {}

\* is_legacy_unmigrated_profile
IsLegacy(d) == ~ d.table /\ d.applied # {}
-----------------------------------------------------------------------------
(* run_migrations, on the database itself or on the copy.                  *)

StoreTarget(p) == IF p = Migrate THEN staged ELSE db
SetTarget(p, d) == IF p = Migrate THEN staged' = d /\ UNCHANGED db
                   ELSE db' = d /\ UNCHANGED staged

\* The first version that was not recorded when the rows were read.
NextVersion(known, v) ==
    LET open == {w \in Versions : w >= v /\ w \notin known}
    IN IF open = {} THEN 0 ELSE CHOOSE w \in open : \A x \in open : w <= x

Running(known, v) ==
    LET w == NextVersion(known, v)
    IN IF w = 0 THEN [pc |-> "migrated"] ELSE [pc |-> "run", known |-> known, v |-> w, k |-> 1]

\* The table of migrations is made, a legacy profile is validated and recorded
\* as version 1, and the recorded rows are read; a checksum that differs is an
\* error.
BeginMigrations(p) ==
    LET d == StoreTarget(p)
        legacy == IsLegacy(d)
        known == IF legacy THEN {1} ELSE d.recorded
    IN IF legacy /\ d.foreign
       THEN /\ SetTarget(p, [d EXCEPT !.table = TRUE])
            /\ job' = [job EXCEPT ![p] = [pc |-> "failed", why |-> "foreign"]]
       ELSE /\ SetTarget(p, [d EXCEPT !.table = TRUE, !.recorded = known])
            /\ job' = [job EXCEPT ![p] = IF d.drift THEN [pc |-> "failed", why |-> "drift"]
                                         ELSE Running(known, 1)]

\* Faulty variant: nothing says IF NOT EXISTS.
RunStatementOnce(p) ==
    LET d == StoreTarget(p)
        s == <<job[p].v, job[p].k>>
    IN /\ job[p].pc = "run" /\ job[p].k <= Len(MigrationScripts[job[p].v])
       /\ IF s \in d.applied
          THEN /\ job' = [job EXCEPT ![p] = [pc |-> "failed", why |-> "duplicate"]]
               /\ UNCHANGED <<db, staged>>
          ELSE /\ SetTarget(p, [d EXCEPT !.applied = @ \cup {s}])
               /\ job' = [job EXCEPT ![p].k = @ + 1]
       /\ UNCHANGED <<rowCount, stops, interrupted, overlap, late>>

\* One statement of the script, committed by itself.
RunStatement(p) ==
    LET d == StoreTarget(p)
        s == <<job[p].v, job[p].k>>
    IN /\ job[p].pc = "run" /\ job[p].k <= Len(MigrationScripts[job[p].v])
       /\ IF s \in d.applied /\ MigrationScripts[job[p].v][job[p].k] = "alter"
          THEN /\ job' = [job EXCEPT ![p] = [pc |-> "failed", why |-> "duplicate"]]
               /\ UNCHANGED <<db, staged>>
          ELSE /\ SetTarget(p, [d EXCEPT !.applied = @ \cup {s}])
               /\ job' = [job EXCEPT ![p].k = @ + 1]
       /\ UNCHANGED <<rowCount, stops, interrupted, overlap, late>>

\* The row of schema_migrations; version is its primary key.
RecordVersion(p) ==
    LET d == StoreTarget(p) IN
    /\ job[p].pc = "run" /\ job[p].k > Len(MigrationScripts[job[p].v])
    /\ IF job[p].v \in d.recorded
       THEN /\ job' = [job EXCEPT ![p] = [pc |-> "failed", why |-> "duplicate"]]
            /\ UNCHANGED <<db, staged>>
       ELSE /\ SetTarget(p, [d EXCEPT !.recorded = @ \cup {job[p].v}])
            /\ job' = [job EXCEPT ![p] = Running(job[p].known, job[p].v + 1)]
    /\ UNCHANGED <<rowCount, stops, interrupted, overlap, late>>
-----------------------------------------------------------------------------
(* Opening a profile.                                                      *)

\* create_schema: a legacy profile is refused; anything else is migrated.
OpenProfile(p) ==
    /\ p \in Openers /\ job[p].pc = "no"
    /\ ~ IsLegacy(db)
    /\ BeginMigrations(p)
    /\ overlap' = (overlap \/ \E q \in Openers : job[q].pc = "run")
    /\ UNCHANGED <<rowCount, stops, interrupted, late>>

\* The error is reported and the process ends.
OpenFails(p) ==
    /\ p \in Openers /\ job[p].pc = "failed"
    /\ job' = [job EXCEPT ![p] = Stopped]
    /\ UNCHANGED <<db, staged, rowCount, stops, interrupted, overlap, late>>

\* The connection stays with the file it opened.
Opened(p) ==
    /\ p \in Openers /\ job[p].pc = "migrated"
    /\ job' = [job EXCEPT ![p] = [pc |-> "open", file |-> db.file]]
    /\ UNCHANGED <<db, staged, rowCount, stops, interrupted, overlap, late>>

\* It writes a row: into a file that is no longer there, once the copy has
\* taken its place.
WriteRow(p) ==
    /\ job[p].pc = "open"
    /\ rowCount < MaxRows
    /\ rowCount' = rowCount + 1
    /\ db' = IF job[p].file = db.file THEN [db EXCEPT !.rows = @ \cup {rowCount'}] ELSE db
    /\ late' = IF job[p].file # db.file \/ staged # NoCopy THEN late \cup {rowCount'} ELSE late
    /\ UNCHANGED <<staged, job, stops, interrupted, overlap>>
-----------------------------------------------------------------------------
(* kin migrate.                                                            *)

\* The integrity facts are read and the profile is copied.
MigrateCopies ==
    /\ job[Migrate].pc = "no"
    /\ staged' = db
    /\ job' = [job EXCEPT ![Migrate] = [pc |-> "copied"]]
    /\ overlap' = (overlap \/ \E q \in Openers : job[q].pc = "run")
    /\ UNCHANGED <<db, rowCount, stops, interrupted, late>>

MigrateRuns ==
    /\ job[Migrate].pc = "copied"
    /\ BeginMigrations(Migrate)
    /\ UNCHANGED <<rowCount, stops, interrupted, overlap, late>>

\* The copy takes the place of the original; a process that has the original
\* open, or is still migrating it, goes on with a file that is no longer there.
Swap ==
    /\ db' = [staged EXCEPT !.file = db.file + 1]
    /\ staged' = NoCopy
    /\ job' = [p \in Migrators |->
                  CASE p = Migrate -> [pc |-> "done"]
                    [] p # Migrate /\ job[p].pc \in {"run", "migrated"} ->
                          [pc |-> "open", file |-> db.file]
                    [] OTHER -> job[p]]
    /\ UNCHANGED <<rowCount, stops, interrupted, overlap, late>>

\* Faulty variant: errors of the migration are not looked at.
MigrateSwapsAny ==
    /\ job[Migrate].pc \in {"migrated", "failed"}
    /\ Swap

\* No error, identity and counts as before, the last version reached.
MigrateSwaps ==
    /\ job[Migrate].pc = "migrated"
    /\ Swap

\* The copy is thrown away; the original is left as it was.
MigrateGivesUp ==
    /\ job[Migrate].pc = "failed"
    /\ staged' = NoCopy
    /\ job' = [job EXCEPT ![Migrate] = Stopped]
    /\ UNCHANGED <<db, rowCount, stops, interrupted, overlap, late>>

\* A process dies.  A copy is left where it is.
ProcessEnds(p) ==
    /\ job[p].pc \notin {"no", "failed", "done"}
    /\ stops < MaxStops
    /\ stops' = stops + 1
    /\ job' = [job EXCEPT ![p] = Stopped]
    /\ interrupted' = IF /\ p \in Openers /\ job[p].pc = "run"
                         /\ \E k \in 1..(job[p].k - 1) : MigrationScripts[job[p].v][k] = "alter"
                      THEN interrupted \cup {job[p].v} ELSE interrupted
    /\ UNCHANGED <<db, staged, rowCount, overlap, late>>

StoreNext ==
    \/ \E p \in Migrators : RunStatement(p) \/ RecordVersion(p) \/ ProcessEnds(p)
    \/ \E p \in Openers : OpenProfile(p) \/ OpenFails(p) \/ Opened(p) \/ WriteRow(p)
    \/ MigrateCopies \/ MigrateRuns \/ MigrateSwaps \/ MigrateGivesUp

StoreSpec == StoreInit /\ [][StoreNext]_storeVars
-----------------------------------------------------------------------------
StoreTypeOK ==
    /\ db.recorded \subseteq Versions
    /\ db.applied \subseteq UNION {Done(v) : v \in Versions}
    /\ db.rows \subseteq 1..MaxRows
    /\ \A p \in Migrators : job[p].pc \in {"no", "copied", "run", "migrated", "failed",
                                           "open", "done"}

\* A profile opens, also after a process died while it was migrating it: what
\* is done again does no harm.  run_migrations fails for one of four reasons
\* only: a checksum that differs, a schema of no known release, another process
\* at work at the same time, or a process that died after a column was added or
\* renamed and before the version was recorded.
MigrationsResume ==
    \A p \in Migrators : job[p].pc = "failed" =>
        \/ job[p].why \in {"drift", "foreign"}
        \/ overlap \/ interrupted # {}

\* `kin migrate` replaces a profile by a whole one: the database in place is the
\* original, or a copy with every version recorded and every row the original
\* had when it was copied.  Rows written while it worked are the exception.
SwapIsWhole ==
    db.file > 0 => /\ db.recorded = Versions
                   /\ (1..rowCount) \ late \subseteq db.rows
=============================================================================
