------------------------------ MODULE Migrating ------------------------------
(***************************************************************************)
(* Servers that start together and bring the schema up to date (wa() in    *)
(* src/main.ts, MigrationManager, PostgreSQLAdapter).  A server takes a    *)
(* lock of the database in a transaction of its own, runs in it every      *)
(* migration that is not recorded, and commits.                            *)
(*                                                                         *)
(* up() opens a second transaction around each migration, on a second      *)
(* connection; but query() prefers the connection of the call chain's      *)
(* transaction, so every statement runs in the outer one and the inner     *)
(* BEGIN and COMMIT enclose nothing.  One failing statement therefore      *)
(* undoes the migrations before it as well, although up() has already      *)
(* reported them, and the COMMIT of the broken transaction is a rollback   *)
(* that raises no error: the server goes on and serves.                    *)
(***************************************************************************)
EXTENDS SchemaHistory, FiniteSets

CONSTANTS
  Servers,      \* processes that start
  PoolSize,     \* PG_POOL_MAX
  MaxTroubles   \* how often a statement fails, a connection cannot be had
                \* or a process dies (bounds the model)

Nobody == "nobody"

ASSUME MigratingAssumption ==
  PoolSize \in Nat \ {0} /\ MaxTroubles \in Nat /\ Nobody \notin Servers

\* A fact about the list of migrations, for TLC to compute: after those before
\* it the up() of each runs through, and its down() leads back.
ASSUME MigrationsFit ==
  /\ Len(Migrations) \in Nat /\ SchemaAt[0] = {}
  /\ \A v \in SchemaVersions :
       /\ RunAll(Migrations[v].up, SchemaAt[v - 1]) = [ok |-> TRUE, objs |-> SchemaAt[v]]
       /\ RunAll(Migrations[v].down, SchemaAt[v]) = [ok |-> TRUE, objs |-> SchemaAt[v - 1]]

VARIABLES
  recorded,     \* the versions in schema_migrations, as committed
  schema,       \* the objects of the schema, as committed
  holder,       \* who holds the advisory lock
  stage,        \* progress of each server
  work,         \* what the transaction of each server sees
  next,         \* the migration a server is at
  troubles,
  reported      \* history: versions a server has reported as applied

migratingVars == <<recorded, schema, holder, stage, work, next, troubles, reported>>

NoWork == [recorded |-> {}, schema |-> {}, broken |-> FALSE]

MigratingInit ==
  /\ recorded = {} /\ schema = {} /\ holder = Nobody
  /\ stage = [p \in Servers |-> "off"]
  /\ work = [p \in Servers |-> NoWork]
  /\ next = [p \in Servers |-> 1]
  /\ troubles = 0
  /\ reported = [p \in Servers |-> {}]

At(p, s) == stage[p] = s
Trouble == troubles < MaxTroubles /\ troubles' = troubles + 1
Pending(p) == SchemaVersions \ work[p].recorded

-----------------------------------------------------------------------------
Boot(p) ==
  /\ At(p, "off")
  /\ stage' = [stage EXCEPT ![p] = "waiting"]
  /\ UNCHANGED <<recorded, schema, holder, work, next, troubles, reported>>

\* Faulty variant, for mutation checks: the lock is not waited for.
TakeLockAnyway(p) ==
  /\ At(p, "waiting")
  /\ holder' = p
  /\ work' = [work EXCEPT ![p] = [recorded |-> recorded, schema |-> schema, broken |-> FALSE]]
  /\ stage' = [stage EXCEPT ![p] = "choosing"]
  /\ UNCHANGED <<recorded, schema, next, troubles, reported>>

\* withTransaction(): BEGIN, and pg_advisory_xact_lock() as its first query.
TakeLock(p) ==
  /\ At(p, "waiting") /\ holder = Nobody
  /\ holder' = p
  /\ work' = [work EXCEPT ![p] = [recorded |-> recorded, schema |-> schema, broken |-> FALSE]]
  /\ stage' = [stage EXCEPT ![p] = "choosing"]
  /\ UNCHANGED <<recorded, schema, next, troubles, reported>>

\* migrateUp(): the pending migrations in order, one up() each.
NextMigration(p) ==
  /\ At(p, "choosing") /\ Pending(p) # {}
  /\ PoolSize > 1
  /\ next' = [next EXCEPT ![p] = CHOOSE v \in Pending(p) : \A u \in Pending(p) : v <= u]
  /\ stage' = [stage EXCEPT ![p] = "running"]
  /\ UNCHANGED <<recorded, schema, holder, work, troubles, reported>>

\* beginTransaction() gets no second connection: up() fails, the loop ends.
NoConnection(p) ==
  /\ At(p, "choosing") /\ Pending(p) # {}
  /\ IF PoolSize = 1 THEN UNCHANGED troubles ELSE Trouble
  /\ stage' = [stage EXCEPT ![p] = "finishing"]
  /\ UNCHANGED <<recorded, schema, holder, work, next, reported>>

UpToDate(p) ==
  /\ At(p, "choosing") /\ Pending(p) = {}
  /\ stage' = [stage EXCEPT ![p] = "finishing"]
  /\ UNCHANGED <<recorded, schema, holder, work, next, troubles, reported>>

\* up(): the statements of the migration, the record of its version, and the
\* report.  Nobody sees the transaction in between.
Apply(p) ==
  LET r == RunAll(Migrations[next[p]].up, work[p].schema) IN
  /\ At(p, "running") /\ r.ok
  /\ work' = [work EXCEPT ![p] =
                [recorded |-> @.recorded \union {next[p]}, schema |-> r.objs, broken |-> @.broken]]
  /\ reported' = [reported EXCEPT ![p] = @ \union {next[p]}]
  /\ stage' = [stage EXCEPT ![p] = "choosing"]
  /\ UNCHANGED <<recorded, schema, holder, next, troubles>>

\* A statement fails: the (empty) inner transaction is rolled back, migrateUp()
\* stops, and PostgreSQL will accept nothing more in the outer transaction.
StatementFails(p) ==
  /\ At(p, "running")
  /\ IF RunAll(Migrations[next[p]].up, work[p].schema).ok THEN Trouble ELSE UNCHANGED troubles
  /\ work' = [work EXCEPT ![p].broken = TRUE]
  /\ stage' = [stage EXCEPT ![p] = "finishing"]
  /\ UNCHANGED <<recorded, schema, holder, next, reported>>

\* COMMIT, which of a broken transaction makes a rollback; the server serves.
Finish(p) ==
  /\ At(p, "finishing")
  /\ IF work[p].broken THEN UNCHANGED <<recorded, schema>>
     ELSE recorded' = work[p].recorded /\ schema' = work[p].schema
  /\ holder' = Nobody
  /\ work' = [work EXCEPT ![p] = NoWork]
  /\ stage' = [stage EXCEPT ![p] = "serving"]
  /\ UNCHANGED <<next, troubles, reported>>

\* A process dies: its connection closes, its transaction is rolled back.
Die(p) ==
  /\ ~At(p, "off") /\ Trouble
  /\ holder' = IF holder = p THEN Nobody ELSE holder
  /\ work' = [work EXCEPT ![p] = NoWork]
  /\ next' = [next EXCEPT ![p] = 1]
  /\ stage' = [stage EXCEPT ![p] = "off"]
  /\ reported' = [reported EXCEPT ![p] = {}]
  /\ UNCHANGED <<recorded, schema>>

\* down() of one migration, in a transaction of its own.
Undo(db, v) ==
  LET r == RunAll(Migrations[v].down, db.schema)
  IN IF r.ok THEN [recorded |-> db.recorded \ {v}, schema |-> r.objs] ELSE db

\* migrateDown(), reset() and migrateTo() an earlier version: the last
\* migrations are undone one after the other until one fails.  No server calls
\* them; they are for a maintenance script, run while no server starts.
MigrateDown(steps) ==
  LET top == Cardinality(recorded)
      db[n \in 0 .. steps] ==
        IF n = 0 THEN [recorded |-> recorded, schema |-> schema] ELSE Undo(db[n - 1], top + 1 - n)
  IN /\ \A p \in Servers : At(p, "off")
     /\ recorded' = db[steps].recorded /\ schema' = db[steps].schema
     /\ UNCHANGED <<holder, stage, work, next, troubles, reported>>

Server(p) ==
  \/ TakeLock(p) \/ NextMigration(p) \/ NoConnection(p) \/ UpToDate(p) \/ Apply(p)
  \/ StatementFails(p) \/ Finish(p)

MigratingNext ==
  \/ \E p \in Servers : Boot(p) \/ Server(p) \/ Die(p)
  \/ \E steps \in 1 .. Cardinality(recorded) : MigrateDown(steps)

MigratingSpec == MigratingInit /\ [][MigratingNext]_migratingVars

-----------------------------------------------------------------------------
\* The committed schema is exactly that of the recorded versions, which are
\* the first so many, with nothing half done: whatever failed, died or was
\* undone, and every down() takes back all that its up() did.
SchemaIsAsRecorded ==
  \E n \in 0 .. Len(Migrations) : recorded = 1 .. n /\ schema = SchemaAt[n]

\* One server at a time is past the lock, and a server that has done all its
\* work has every migration in its transaction.
OneMigrator ==
  \A p, q \in Servers :
    /\ stage[p] \in {"choosing", "running", "finishing"} => holder = p
    /\ At(p, "finishing") /\ troubles = 0 /\ PoolSize > 1 => work[p].recorded = SchemaVersions

\* No statement of up() or down() is refused for its place in the order: the
\* migrations take a database from nothing to the newest version and back.
EveryMigrationWorks ==
  \A p \in Servers : work[p].broken => troubles > 0

MigrationSafety == SchemaIsAsRecorded /\ OneMigrator /\ EveryMigrationWorks

\* What deleting a row takes with it: a chat, its messages and summary and the
\* codes that continue it; an agent, what it is made of and its runs; a
\* workspace, its people and its agents.  Usage, money, alerts and documents
\* outlive them all, and no foreign key refuses a deletion.
Kept == {"token_usage", "market_ledger", "market_wallets", "billing_subscriptions",
         "billing_payments", "automation_alerts", "artifacts", "generated_files",
         "user_memories", "studio_projects"}

GoWithAgent == {"agents", "agent_functions", "agent_code_functions", "agent_mcp_servers",
                "agent_schedules", "agent_runs"}

DeletionTakesItsOwn ==
  LET gone(t) == GoWith(t, schema)
      here(S) == S \intersect Tables(schema)
  IN /\ \A t \in {"sessions", "agents", "native_agents", "workspaces", "pipelines"} :
          gone(t) \intersect Kept = {}
     /\ gone("sessions") = {"sessions"} \union here({"chat_messages", "session_summaries",
                              "whatsapp_link_codes", "channel_link_codes"})
     /\ gone("agents") = {"agents"} \union here(GoWithAgent)
     /\ <<"column", "agents", "workspace_id">> \in schema =>
          gone("workspaces") = GoWithAgent \union
            {"workspaces", "workspace_members", "workspace_invites", "workspace_audit"}
=============================================================================
