--------------------------- MODULE SchemaStartup ---------------------------
(***************************************************************************)
(* Who builds the schema, and who may use it (db/mod.rs, db/schema.rs).    *)
(*                                                                         *)
(* Starters migrate: the daemon under its supervisor, and the one-shot     *)
(* `netgraspd migrate`.  Readers are the commands that never do.  The      *)
(* Trovato plugin creates tables of its own accord and an operator may     *)
(* drop what a refusal lists.  Every query and every migration is a step,  *)
(* and a step of anybody else's may fall between two of them.              *)
(*                                                                         *)
(* A table is the function from its columns to how they are declared:      *)
(* "right", or with another type or nullability.                           *)
(***************************************************************************)
EXTENDS Integers, Sequences, FiniteSets, FiniteSetsExt

CONSTANTS
  Starters,    \* the processes that migrate
  Readers,     \* the processes that only read
  MaxBreaks,   \* bound: crashes of a starter and lost connections
  MaxPlugins   \* bound: tables the plugin creates

ASSUME SchemaAssumption == MaxBreaks \in Nat /\ MaxPlugins \in Nat

VARIABLES
  database,    \* the ng_ tables that exist
  recorded,    \* refinery_schema_history: the versions, or {0} if it is missing
  foreign,     \* history: the tables the plugin created, as it did
  starter,     \* [Starters -> [pc, pending, left, faults, outcome, raced]], where
               \* raced is a history variable: others have built meanwhile
  reader,      \* [Readers -> [pc, left, faults, verdict]]
  breaks, plugins, pluginDone

schemaVars == <<database, recorded, foreign, starter, reader, breaks, plugins, pluginDone>>

\* Every table and column this build expects, and the order of the tables.
InOrder == <<"devices", "signals", "people">>

Expected ==
  [devices  |-> {"id", "ipv6", "owner"},
   signals  |-> {"id"},
   people   |-> {"id"}]

\* "state" is the plugin's.
Tables == DOMAIN Expected \cup {"state"}
Columns == {"id", "ipv6", "owner", "extra"}

\* V1, V2 and V3: the tables each creates, and the columns it adds.
Migrations ==
  << [creates |-> {"devices", "signals"}, adds |-> {}],
     [creates |-> {}, adds |-> {"ipv6"}],
     [creates |-> {"people"}, adds |-> {"owner"}] >>

embedded_max_version == Len(Migrations)

Declared(columns) == [c \in columns |-> "right"]

With(tables, t, layout) == [u \in DOMAIN tables \cup {t} |-> IF u = t THEN layout ELSE tables[u]]

\* MIGRATION_TABLE may be missing.
NoTable == {0}

applied_migration_versions == recorded \ NoTable

----------------------------------------------------------------------------
(* The checks                                                              *)

table_exists(t) == t \in DOMAIN database

\* Mutant: a column only has to be there.
DivergesByName(t) == ~table_exists(t) \/ ~(Expected[t] \subseteq DOMAIN database[t])

\* schema_problems, for one table: a column beyond the expected is no problem.
Diverges(t) ==
  \/ ~table_exists(t)
  \/ \E c \in Expected[t] :
       c \notin DOMAIN database[t] \/ database[t][c] # "right"

\* The table whose turn it is.
Following(left) == InOrder[Min({i \in 1..Len(InOrder) : InOrder[i] \in left})]

\* Mutant: the history table is enough, what it records is not looked at.
MigratedIfRecorded == recorded # NoTable

\* The daemon has migrated here before: something is recorded as applied.
MigratedBefore == applied_migration_versions # {}

\* All tables, in one state.
Whole ==
  /\ \A t \in DOMAIN Expected :
       /\ t \in DOMAIN database
       /\ \A c \in Expected[t] : c \in DOMAIN database[t] /\ database[t][c] = "right"
  /\ applied_migration_versions = 1..embedded_max_version

----------------------------------------------------------------------------
(* Db::migrate, health_check and preflight                                 *)

Goes(p, pc) == starter' = [starter EXCEPT ![p].pc = pc]

\* A start that ends here, and what the operator is told.
Ends(p, outcome) ==
  starter' = [starter EXCEPT ![p] = [@ EXCEPT !.pc = "down", !.outcome = outcome,
                                              !.pending = {}, !.left = {}, !.faults = {}]]

Start(p) ==
  /\ starter[p].pc = "down"
  /\ starter' = [starter EXCEPT ![p].pc = "guard", ![p].outcome = "none",
                                      ![p].raced = FALSE]
  /\ UNCHANGED <<database, recorded>>

\* check_daemon_migrated_first, before anything is run: two queries.
GuardTable(p) ==
  /\ starter[p].pc = "guard"
  /\ Goes(p, IF table_exists("devices") THEN "guard_history" ELSE "runner")
  /\ UNCHANGED <<database, recorded>>

GuardHistory(p) ==
  /\ starter[p].pc = "guard_history"
  /\ IF MigratedBefore THEN Goes(p, "runner") ELSE Ends(p, "reconcile")
  /\ UNCHANGED <<database, recorded>>

\* refinery makes sure of its table and works out what is to be applied.
Runner(p) ==
  /\ starter[p].pc = "runner"
  /\ recorded' = applied_migration_versions
  /\ starter' = [starter EXCEPT ![p].pc = "apply",
                   ![p].pending = {v \in 1..embedded_max_version :
                                     \A a \in applied_migration_versions : a < v}]
  /\ UNCHANGED database

\* Mutant: CREATE TABLE IF NOT EXISTS.
ConflictsNever(v) == FALSE

\* CREATE TABLE and ADD COLUMN fail on what is there already.
Conflicts(v) ==
  \/ Migrations[v].creates \cap DOMAIN database # {}
  \/ \E c \in Migrations[v].adds : c \in DOMAIN database["devices"]

Migrated(v) ==
  LET created == Migrations[v].creates \ DOMAIN database
      tables == [t \in DOMAIN database \cup created |->
                   IF t \in created THEN Declared({"id"}) ELSE database[t]]
  IN  [tables EXCEPT !["devices"] =
         [c \in DOMAIN @ \cup Migrations[v].adds |->
            IF c \in DOMAIN @ THEN @[c] ELSE "right"]]

\* A migration and its record are one transaction.
ApplyMigration(p) ==
  /\ starter[p].pc = "apply"
  /\ IF starter[p].pending = {}
     THEN /\ starter' = [starter EXCEPT ![p].pc = "preflight",
                                        ![p].left = DOMAIN Expected, ![p].faults = {}]
          /\ UNCHANGED <<database, recorded>>
     ELSE LET v == Min(starter[p].pending)
          IN  IF v \in recorded \/ Conflicts(v)
              THEN Ends(p, "raw") /\ UNCHANGED <<database, recorded>>
              ELSE /\ database' = Migrated(v)
                   /\ recorded' = recorded \cup {v}
                   /\ starter' = [q \in Starters |->
                        [starter[q] EXCEPT
                           !.pending = IF q = p THEN @ \ {v} ELSE @,
                           !.raced = @ \/ (q # p /\ starter[q].pc # "down")]]

\* schema_problems reads the catalog table by table.
Preflight(p) ==
  /\ starter[p].pc = "preflight"
  /\ IF starter[p].left # {}
     THEN LET t == Following(starter[p].left) IN
            starter' = [starter EXCEPT ![p].left = @ \ {t},
                          ![p].faults = IF Diverges(t) THEN @ \cup {t} ELSE @]
     ELSE IF starter[p].faults = {} THEN Goes(p, "up") ELSE Ends(p, "diverged")
  /\ UNCHANGED <<database, recorded>>

\* The server is lost, or the process is.
FailsMidway(p) ==
  /\ breaks < MaxBreaks /\ breaks' = breaks + 1
  /\ starter[p].pc # "down"
  /\ Ends(p, "failed")
  /\ UNCHANGED <<database, recorded>>

Step(p) ==
  \/ Start(p)
  \/ GuardTable(p)
  \/ GuardHistory(p)
  \/ Runner(p)
  \/ ApplyMigration(p)
  \/ Preflight(p)

----------------------------------------------------------------------------
(* check_readable                                                          *)

Says(r, verdict) ==
  reader' = [reader EXCEPT ![r] = [pc |-> "done", left |-> {}, faults |-> {},
                                   verdict |-> verdict]]

\* The applied versions decide first.
ReadVersions(r) ==
  /\ reader[r].pc = "idle"
  /\ \/ applied_migration_versions = {} /\ reader' = [reader EXCEPT ![r].pc = "guard"]
     \/ /\ applied_migration_versions # {}
        /\ Max(applied_migration_versions) < embedded_max_version
        /\ Says(r, "behind")
     \/ /\ applied_migration_versions # {}
        /\ Max(applied_migration_versions) >= embedded_max_version
        /\ reader' = [reader EXCEPT ![r].pc = "tables", ![r].left = DOMAIN Expected]

\* Nothing was applied: somebody else's schema, or none.
ReadGuard(r) ==
  /\ reader[r].pc = "guard"
  /\ Says(r, IF table_exists("devices") /\ ~MigratedBefore THEN "reconcile" ELSE "no_schema")

ReadTables(r) ==
  /\ reader[r].pc = "tables"
  /\ IF reader[r].left # {}
     THEN LET t == Following(reader[r].left) IN
            reader' = [reader EXCEPT ![r].left = @ \ {t},
                         ![r].faults = IF Diverges(t) THEN @ \cup {t} ELSE @]
     ELSE Says(r, IF reader[r].faults = {} THEN "reads" ELSE "diverged")

\* The command has printed and exits; another one is typed.
ReadAgain(r) ==
  /\ reader[r].pc = "done"
  /\ reader' = [reader EXCEPT ![r].pc = "idle", ![r].verdict = "none"]

Read(r) ==
  \/ ReadVersions(r)
  \/ ReadGuard(r)
  \/ ReadTables(r)
  \/ ReadAgain(r)

----------------------------------------------------------------------------
(* The others                                                              *)

\* The plugin's CREATE TABLE IF NOT EXISTS: as this build would have made the
\* table, or not.
PluginCreates(t) ==
  /\ ~pluginDone /\ plugins < MaxPlugins /\ plugins' = plugins + 1
  /\ ~table_exists(t)
  /\ \E layout \in {Declared({"id", "extra"}), [c \in {"id"} |-> "nullable"]} :
       /\ database' = With(database, t, layout)
       /\ foreign' = With(foreign, t, layout)
  /\ starter' = [p \in Starters |->
                   [starter[p] EXCEPT !.raced = @ \/ starter[p].pc # "down"]]
  /\ UNCHANGED <<recorded, reader, breaks, pluginDone>>

\* An operator follows the advice of reconcile_message: the tables it lists,
\* present_ng_tables, are dropped, and with them the plugin's.
Reconcile ==
  /\ \E p \in Starters : starter[p].outcome = "reconcile"
  /\ ~MigratedBefore /\ table_exists("devices")
  /\ database' = << >> /\ foreign' = << >>
  /\ UNCHANGED <<recorded, starter, reader, breaks, plugins, pluginDone>>

\* From here on the plugin is done.
PluginDone ==
  /\ ~pluginDone /\ pluginDone' = TRUE
  /\ UNCHANGED <<database, recorded, foreign, starter, reader, breaks, plugins>>

----------------------------------------------------------------------------
\* Nothing at all; an older build's, with V1; or a current one somebody altered.
SchemaInit ==
  /\ \/ database = << >> /\ recorded = NoTable
     \/ database = [t \in {"devices", "signals"} |-> Declared({"id"})] /\ recorded = {1}
     \/ /\ \E altered \in DOMAIN Expected :
             database = [t \in DOMAIN Expected |->
                           [c \in Expected[t] |->
                              IF t = altered /\ c = "id" THEN "nullable" ELSE "right"]]
        /\ recorded = 1..embedded_max_version
  /\ foreign = << >>
  /\ starter = [p \in Starters |-> [pc |-> "down", pending |-> {}, left |-> {},
                                    faults |-> {}, outcome |-> "none", raced |-> FALSE]]
  /\ reader = [r \in Readers |-> [pc |-> "idle", left |-> {}, faults |-> {},
                                  verdict |-> "none"]]
  /\ breaks = 0 /\ plugins = 0 /\ pluginDone = FALSE

\* Two starters may meet: the one's migration is the other's conflict.
StartsAlone(p) == Step(p) /\ UNCHANGED <<foreign, reader, breaks, plugins, pluginDone>>

Starting ==
  \E p \in Starters :
    \/ StartsAlone(p)
    \/ FailsMidway(p) /\ UNCHANGED <<foreign, reader, plugins, pluginDone>>

Reading ==
  \E r \in Readers :
    Read(r) /\ UNCHANGED <<database, recorded, foreign, starter, breaks, plugins, pluginDone>>

SchemaNext ==
  \/ Starting
  \/ Reading
  \/ \E t \in {"devices", "people", "state"} : PluginCreates(t)
  \/ Reconcile
  \/ PluginDone

\* The supervisor starts a daemon again that has ended, and the operator reads.
SchemaFairness ==
  /\ \A p \in Starters : WF_schemaVars(StartsAlone(p))
  /\ SF_schemaVars(Reconcile)

SchemaSpec == SchemaInit /\ [][SchemaNext]_schemaVars /\ SchemaFairness

----------------------------------------------------------------------------
\* The types, and what holds of the tables by way of the migrations.
SchemaTypeOK ==
  /\ DOMAIN database \subseteq Tables
  /\ \A t \in DOMAIN database :
       /\ DOMAIN database[t] \subseteq Columns
       /\ \A c \in DOMAIN database[t] : database[t][c] \in {"right", "nullable"}
  /\ recorded = NoTable \/ recorded \in {1..v : v \in 0..embedded_max_version}
  /\ breaks \in 0..MaxBreaks /\ plugins \in 0..MaxPlugins

\* Nobody works on a schema that is not this build's: a daemon that is up and a
\* command that reads have all migrations and every table as expected, however
\* many others were creating tables while the checks went from table to table
\* (schema.rs preflight, check_readable).
ServedIsWhole ==
  /\ \A p \in Starters : starter[p].pc = "up" => Whole
  /\ \A r \in Readers : reader[r].verdict = "reads" => Whole

\* "The tables are neither adopted nor dropped" (schema.rs:373): a table the
\* plugin created stays as the plugin made it, through every start and every
\* migration.
ForeignTablesStand ==
  \A t \in DOMAIN foreign : t \in DOMAIN database /\ database[t] = foreign[t]

\* The guard replaces refinery's "relation already exists" by advice, also after
\* a first attempt that left the history table behind (schema.rs:377).  The raw
\* error is left to those who meet: a table created, or a migration applied,
\* after the guard has looked; and to an upgrade, whose new table the plugin may
\* have created long before.
RawErrorsAreMeetings ==
  \A p \in Starters :
    starter[p].outcome = "raw" =>
      \/ starter[p].raced
      \/ MigratedBefore /\ "people" \in DOMAIN foreign

\* The start is guarded: nobody works on half a schema, nothing of the plugin's is
\* taken, and a refusal explains itself.
StartIsGuarded == ServedIsWhole /\ ForeignTablesStand /\ RawErrorsAreMeetings

\* The advice is good: once the plugin is done, starting again and dropping the
\* tables a refusal lists leads to a running daemon - or to one that names a
\* divergence, or, on an upgrade that finds the plugin's table in its way, to
\* the raw error again and again.
AdviceHelps ==
  \A p \in Starters :
    pluginDone ~>
            \/ starter[p].pc = "up"
            \/ starter[p].outcome = "diverged"
            \/ MigratedBefore /\ "people" \in DOMAIN foreign
=============================================================================
