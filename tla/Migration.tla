------------------------------ MODULE Migration -----------------------------
(***************************************************************************)
(* How the app container comes up: entrypoint.sh runs `alembic upgrade     *)
(* head' (env.py, 0001_initial_schema.py) and starts the server only if it *)
(* succeeds.  The whole migration is one transaction, one step of the model*)
(* per statement; the container or the database may go away between any    *)
(* two of them, and nothing restarts the container but a person.           *)
(***************************************************************************)
EXTENDS Naturals, Sequences

\* What the statements of upgrade() create, in their order, and at the end the
\* revision that alembic writes into alembic_version.
Upgrade == <<"timescaledb", "trades", "trades_hypertable", "candles_1m",
             "candles_1m_hypertable", "pipeline_status", "0001">>

Tables == {"trades", "candles_1m", "pipeline_status"}

\* Everything but the extension belongs to a table or is alembic's.
Objects == {Upgrade[i] : i \in DOMAIN Upgrade}
Dropped == Objects \ {"timescaledb"}

VARIABLES
  database,   \* "up" or "down"
  schema,     \* the objects that are committed
  container,  \* "down", "upgrade" or "serve"
  executed,   \* statements of upgrade() that the transaction has executed
  working     \* the objects as the transaction sees them

migration == <<database, schema, container, executed, working>>

\* The extension may be there from the image's template database.
MigrationInit ==
  /\ database = "up" /\ schema \in {{}, {"timescaledb"}}
  /\ container = "down" /\ executed = 0 /\ working = {}

\* depends_on: service_healthy.  alembic reads the revision the database is at.
Launch ==
  /\ container = "down" /\ database = "up"
  /\ container' = "upgrade" /\ executed' = 0 /\ working' = schema
  /\ UNCHANGED <<database, schema>>

\* Mutant: autocommit, every statement is durable at once.
AtOnce(objects) == objects

\* begin_transaction in do_run_migrations: nothing is durable before the end.
Durable(objects) == schema

\* CREATE TABLE raises if the table is there; the extension, the hypertables and
\* the version table have their IF NOT EXISTS.
Clashes(object) == object \in Tables \cap working

Pending == container = "upgrade" /\ "0001" \notin working

Execute ==
  /\ Pending
  /\ LET object == Upgrade[executed + 1] IN
     /\ ~Clashes(object)
     /\ working' = working \cup {object}
     /\ schema' = Durable(working')
  /\ executed' = executed + 1
  /\ UNCHANGED <<database, container>>

\* The transaction ends and `exec uvicorn' takes the place of the script.  When
\* the database is at the head there was nothing to execute.
Commit ==
  /\ container = "upgrade" /\ "0001" \in working
  /\ schema' = working
  /\ container' = "serve" /\ executed' = 0 /\ working' = {}
  /\ UNCHANGED database

\* The container is stopped or dies, in the migration (which is rolled back) or
\* later; `set -e' also ends it when the database does not answer.
Stop ==
  /\ container # "down"
  /\ container' = "down" /\ executed' = 0 /\ working' = {}
  /\ UNCHANGED <<database, schema>>

\* The database stops, which ends a migration, or is started again.
DatabaseTurns ==
  /\ database' = IF database = "up" THEN "down" ELSE "up"
  /\ IF container = "upgrade"
     THEN container' = "down" /\ executed' = 0 /\ working' = {}
     ELSE UNCHANGED <<container, executed, working>>
  /\ UNCHANGED schema

\* downgrade(), by hand while the container is down: one transaction, which
\* leaves the extension.
Downgrade ==
  /\ container = "down" /\ database = "up" /\ "0001" \in schema
  /\ schema' = schema \ Dropped
  /\ UNCHANGED <<database, container, executed, working>>

MigrationNext ==
  Launch \/ Execute \/ Commit \/ Stop \/ DatabaseTurns \/ Downgrade

-----------------------------------------------------------------------------
(* Properties. *)

MigrationTypeOK ==
  /\ database \in {"up", "down"} /\ container \in {"down", "upgrade", "serve"}
  /\ schema \subseteq Objects /\ working \subseteq Objects
  /\ executed \in 0..Len(Upgrade)

\* However often a migration is interrupted, undone and repeated: the server
\* runs on the whole schema only, the revision never stands for less than its
\* statements, and no table is ever in the way of the next attempt (CREATE TABLE
\* would fail, and with it every later start of the container).
SchemaWhole ==
  /\ container = "serve" => "0001" \in schema
  /\ "0001" \in schema => schema = Objects
  /\ "0001" \notin schema => schema \cap Tables = {}
=============================================================================
