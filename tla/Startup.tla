------------------------------- MODULE Startup -------------------------------
(***************************************************************************)
(* Start-up of the replicas of one deployment: main wires the connector,   *)
(* the audit sink, the event bus, the store, the service and the routes,   *)
(* in that order, and exits on the first thing that is missing.  Opening   *)
(* the store runs the schema migrations, each replica on its own and       *)
(* without a lock, on the database they share.  An operator may run the    *)
(* migrations backwards meanwhile.  The orchestrator that restarts a       *)
(* replica, and the database, are external.                                *)
(***************************************************************************)
EXTENDS Naturals, FiniteSets

CONSTANTS
    Replicas,
    NV,         \* number of migrations, applied in the order 1..NV
    Envs,       \* the environments a deployment may be started with
    MaxFaults,  \* bound on failed statements, failed pings and listens, and crashes
    MaxDowns    \* bound on the runs of Down

\* What main reads from the environment.
Env == [dev : BOOLEAN,                          \* DEV_MODE=1
        venue : {"exchange", "otc", "dummy"},   \* VENUE_FAMILY
        pairs : BOOLEAN,                        \* PAIRS leaves a pair
        vault : BOOLEAN,                        \* SECRETS_MANAGER_URL
        creds : {"unset", "empty", "set"},      \* the venue's SECRETS_* or *_API_*
        brokers : {"unset", "blank", "set"},    \* KAFKA_BROKERS; blank is ","
        bus : {"unset", "bad", "set"},          \* EVENT_BUS_URL
        db : BOOLEAN,                           \* DB_URL
        token : BOOLEAN]                        \* SERVICE_TOKEN_SECRET

ASSUME StartupAssumption == /\ IsFiniteSet(Replicas) /\ Envs \subseteq Env
                            /\ NV \in Nat /\ MaxFaults \in Nat /\ MaxDowns \in Nat

Versions == 1..NV

VARIABLES
    env,        \* the environment, the same for every replica
    pc,         \* where each replica is in main
    ver,        \* the migration its Runner.Up is at
    wired,      \* what main has put together so far
    table,      \* the database: does schema_migrations exist,
    applied,    \*   which migrations are in effect
    recorded,   \*   and which are recorded
    op, opVer,  \* where the operator's Runner.Down is, and at which migration
    faults, downs,
    reverted,   \* history: migrations a Down statement has undone,
    half,       \*   those whose record it has not deleted,
    raced       \*   those undone between a replica's apply and its record

db == <<table, applied, recorded>>
history == <<reverted, half, raced>>
operator == <<op, opVer, downs>>
vars == <<env, pc, ver, wired, db, operator, faults, history>>

Unwired == [conn |-> "none", sink |-> "none", bus |-> "none",
            store |-> "none", auth |-> "none"]

Init ==
    /\ env \in Envs
    /\ pc = [r \in Replicas |-> "connector"]
    /\ ver = [r \in Replicas |-> 1]
    /\ wired = [r \in Replicas |-> Unwired]
    /\ table = FALSE /\ applied = {} /\ recorded = {}
    /\ op = "idle" /\ opVer = 0
    /\ faults = 0 /\ downs = 0
    /\ reverted = {} /\ half = {} /\ raced = {}

Goto(r, w) == pc' = [pc EXCEPT ![r] = w]
Wire(r, part, what) == wired' = [wired EXCEPT ![r][part] = what]

\* A call that may fail: log.Fatalf ends the process.
Answer(r, ok, w) ==
    /\ ok \/ faults < MaxFaults
    /\ faults' = IF ok THEN faults ELSE faults + 1
    /\ Goto(r, IF ok THEN w ELSE "exited")

\* log.Fatalf for a missing setting.
Fatal(r) == Goto(r, "exited") /\ UNCHANGED wired
-----------------------------------------------------------------------------
(* main, up to the store *)

\* loadExchangeCreds in production: the env-vault must hold both values.
LoadCreds == env.vault /\ env.creds = "set"

\* selectConnector.
Connector(r) ==
    /\ pc[r] = "connector"
    /\ \/ /\ env.venue # "dummy" /\ (env.dev \/ LoadCreds)
          /\ Wire(r, "conn", env.venue) /\ Goto(r, "audit")
       \/ /\ env.venue = "dummy" /\ env.dev
          /\ Wire(r, "conn", "dummy") /\ Goto(r, "audit")
       \/ ~ env.dev /\ (env.venue = "dummy" \/ ~ LoadCreds) /\ Fatal(r)
    /\ UNCHANGED <<env, ver, db, operator, faults, history>>

\* Mutated form of AuditSink: blank brokers fall back to memory in production.
AuditSinkFallback(r) ==
    /\ pc[r] = "audit"
    /\ \/ env.brokers = "set" /\ Wire(r, "sink", "kafka") /\ Goto(r, "bus")
       \/ env.brokers = "blank" /\ Wire(r, "sink", "memory") /\ Goto(r, "bus")
       \/ env.brokers = "unset" /\ env.dev /\ Wire(r, "sink", "memory") /\ Goto(r, "bus")
       \/ env.brokers = "unset" /\ ~ env.dev /\ Fatal(r)
    /\ UNCHANGED <<env, ver, db, operator, faults, history>>

\* newAuditSink.
AuditSink(r) ==
    /\ pc[r] = "audit"
    /\ \/ env.brokers = "set" /\ Wire(r, "sink", "kafka") /\ Goto(r, "bus")
       \/ env.brokers # "set" /\ env.dev /\ Wire(r, "sink", "memory") /\ Goto(r, "bus")
       \/ env.brokers # "set" /\ ~ env.dev /\ Fatal(r)
    /\ UNCHANGED <<env, ver, db, operator, faults, history>>

\* EVENT_BUS_URL: a bad one is logged and events are disabled.
EventBus(r) ==
    /\ pc[r] = "bus"
    /\ Wire(r, "bus", IF env.bus = "set" THEN "kafka" ELSE "none")
    /\ Goto(r, "store")
    /\ UNCHANGED <<env, ver, db, operator, faults, history>>

\* newStore, without a DB_URL; it decides here whether postgres is opened.
NewStore(r) ==
    /\ pc[r] = "store"
    /\ ver' = [ver EXCEPT ![r] = 1]
    /\ \/ env.db /\ Goto(r, "ping") /\ UNCHANGED wired
       \/ ~ env.db /\ env.dev /\ Wire(r, "store", "memory") /\ Goto(r, "service")
       \/ ~ env.db /\ ~ env.dev /\ Fatal(r)
    /\ UNCHANGED <<env, db, operator, faults, history>>
-----------------------------------------------------------------------------
(* postgres.Open and migrations.Runner.Up.  A statement that fails may still *)
(* have taken effect; the statements of one migration are one transaction.   *)

Ping(r) ==
    /\ pc[r] = "ping"
    /\ \E ok \in BOOLEAN : Answer(r, ok, "create")
    /\ UNCHANGED <<env, ver, wired, db, operator, history>>

CreateTable(r) ==
    /\ pc[r] = "create"
    /\ \E ok, took \in BOOLEAN :
         /\ ok => took
         /\ table' = (table \/ took)
         /\ Answer(r, ok, "query")
    /\ UNCHANGED <<env, ver, wired, applied, recorded, operator, history>>

\* The head of the loop over the migrations, and the query of the next one.
Query(r) ==
    /\ pc[r] = "query"
    /\ \/ /\ ver[r] > NV
          /\ Wire(r, "store", "postgres") /\ Goto(r, "service")
          /\ UNCHANGED <<ver, faults>>
       \/ /\ ver[r] \in recorded
          /\ ver' = [ver EXCEPT ![r] = @ + 1]
          /\ UNCHANGED <<pc, wired, faults>>
       \/ /\ ver[r] \in Versions
          /\ \E ok \in BOOLEAN : (ok => ver[r] \notin recorded) /\ Answer(r, ok, "apply")
          /\ UNCHANGED <<ver, wired>>
    /\ UNCHANGED <<env, db, operator, history>>

\* Mutated form of Apply: the migration is not written to be run again.
ApplyOnce(r) ==
    /\ pc[r] = "apply"
    /\ \/ /\ ver[r] \in applied
          /\ Goto(r, "exited")
          /\ UNCHANGED <<applied, faults>>
       \/ /\ ver[r] \notin applied
          /\ \E ok, took \in BOOLEAN :
               /\ ok => took
               /\ applied' = IF took THEN applied \cup {ver[r]} ELSE applied
               /\ Answer(r, ok, "record")
    /\ UNCHANGED <<env, ver, wired, table, recorded, operator, history>>
\* Mutated form of Apply: an error of the statement does not end Up.
ApplyGoOn(r) ==
    /\ pc[r] = "apply"
    /\ \E ok, took \in BOOLEAN :
         /\ ok => took
         /\ applied' = IF took THEN applied \cup {ver[r]} ELSE applied
         /\ ok \/ faults < MaxFaults
         /\ faults' = IF ok THEN faults ELSE faults + 1
         /\ Goto(r, "record")
    /\ UNCHANGED <<env, ver, wired, table, recorded, operator, history>>

Apply(r) ==
    /\ pc[r] = "apply"
    /\ \E ok, took \in BOOLEAN :
         /\ ok => took
         /\ applied' = IF took THEN applied \cup {ver[r]} ELSE applied
         /\ Answer(r, ok, "record")
    /\ UNCHANGED <<env, ver, wired, table, recorded, operator, history>>

\* Mutated form of Record: the loop goes to the migration after the next.
RecordSkip(r) ==
    /\ pc[r] = "record"
    /\ \E ok, took \in BOOLEAN :
         /\ ok => took
         /\ recorded' = IF took THEN recorded \cup {ver[r]} ELSE recorded
         /\ ver' = [ver EXCEPT ![r] = @ + 2]
         /\ Answer(r, ok, "query")
    /\ UNCHANGED <<env, wired, table, applied, operator, history>>

Record(r) ==
    /\ pc[r] = "record"
    /\ \E ok, took \in BOOLEAN :
         /\ ok => took
         /\ recorded' = IF took THEN recorded \cup {ver[r]} ELSE recorded
         /\ ver' = [ver EXCEPT ![r] = @ + 1]
         /\ Answer(r, ok, "query")
    /\ UNCHANGED <<env, wired, table, applied, operator, history>>
-----------------------------------------------------------------------------
(* main, after the store *)

\* NewService subscribes to the book: the OTC connector answers ErrUnsupported
\* and an exchange refuses an empty list of pairs.
NewService(r) ==
    /\ pc[r] = "service"
    /\ Goto(r, IF \/ env.venue = "otc"
                  \/ env.venue = "exchange" /\ ~ env.pairs
               THEN "exited" ELSE "routes")
    /\ UNCHANGED <<env, ver, wired, db, operator, faults, history>>

\* Routes asks SecretFromEnv for the service-token secret.
Routes(r) ==
    /\ pc[r] = "routes"
    /\ \/ env.token /\ Wire(r, "auth", "token") /\ Goto(r, "listen")
       \/ ~ env.token /\ env.dev /\ Wire(r, "auth", "bypass") /\ Goto(r, "listen")
       \/ ~ env.token /\ ~ env.dev /\ Fatal(r)
    /\ UNCHANGED <<env, ver, db, operator, faults, history>>

Listen(r) ==
    /\ pc[r] = "listen"
    /\ \E ok \in BOOLEAN : Answer(r, ok, "serving")
    /\ UNCHANGED <<env, ver, wired, db, operator, history>>

\* SIGTERM: the server is shut down and the publisher closed.
Stop(r) ==
    /\ pc[r] = "serving"
    /\ Goto(r, "stopped")
    /\ UNCHANGED <<env, ver, wired, db, operator, faults, history>>

\* The process is killed, at any point.
Crash(r) ==
    /\ pc[r] \notin {"exited", "stopped"}
    /\ faults < MaxFaults
    /\ faults' = faults + 1
    /\ Goto(r, "exited")
    /\ UNCHANGED <<env, ver, wired, db, operator, history>>

\* The orchestrator starts a replica that has exited again.
Restart(r) ==
    /\ pc[r] = "exited"
    /\ Goto(r, "connector")
    /\ wired' = [wired EXCEPT ![r] = Unwired]
    /\ UNCHANGED <<env, ver, db, operator, faults, history>>
-----------------------------------------------------------------------------
(* migrations.Runner.Down, in a process of the operator: newest migration first *)

DownAnswer(ok, w) ==
    /\ ok \/ faults < MaxFaults
    /\ faults' = IF ok THEN faults ELSE faults + 1
    /\ op' = IF ok THEN w ELSE "idle"

DownStart ==
    /\ op = "idle" /\ downs < MaxDowns
    /\ op' = "query" /\ opVer' = NV /\ downs' = downs + 1
    /\ UNCHANGED <<env, pc, ver, wired, db, faults, history>>

\* Down does not create schema_migrations: without it the query fails.
DownQuery ==
    /\ op = "query"
    /\ \/ /\ opVer = 0 \/ ~ table
          /\ op' = "idle" /\ UNCHANGED <<opVer, faults>>
       \/ /\ opVer # 0 /\ table /\ opVer \notin recorded
          /\ opVer' = opVer - 1 /\ UNCHANGED <<op, faults>>
       \/ /\ opVer # 0 /\ table /\ opVer \in recorded
          /\ \E ok \in BOOLEAN : DownAnswer(ok, "revert")
          /\ UNCHANGED opVer
    /\ UNCHANGED <<env, pc, ver, wired, db, downs, history>>

DownRevert ==
    /\ op = "revert"
    /\ \E ok, took \in BOOLEAN :
         /\ ok => took
         /\ applied' = IF took THEN applied \ {opVer} ELSE applied
         /\ reverted' = IF took THEN reverted \cup {opVer} ELSE reverted
         /\ half' = IF took THEN half \cup {opVer} ELSE half
         /\ raced' = IF took /\ \E r \in Replicas : pc[r] = "record" /\ ver[r] = opVer
                     THEN raced \cup {opVer} ELSE raced
         /\ DownAnswer(ok, "delete")
    /\ UNCHANGED <<env, pc, ver, wired, table, recorded, opVer, downs>>

DownDelete ==
    /\ op = "delete"
    /\ \E ok, took \in BOOLEAN :
         /\ ok => took
         /\ recorded' = IF took THEN recorded \ {opVer} ELSE recorded
         /\ half' = IF took THEN half \ {opVer} ELSE half
         /\ opVer' = opVer - 1
         /\ DownAnswer(ok, "query")
    /\ UNCHANGED <<env, pc, ver, wired, table, applied, downs, reverted, raced>>
-----------------------------------------------------------------------------
Step(r) ==
    \/ Connector(r) \/ AuditSink(r) \/ EventBus(r) \/ NewStore(r)
    \/ Ping(r) \/ CreateTable(r) \/ Query(r) \/ Apply(r) \/ Record(r)
    \/ NewService(r) \/ Routes(r) \/ Listen(r)

Next ==
    \/ \E r \in Replicas : Step(r) \/ Stop(r) \/ Crash(r) \/ Restart(r)
    \/ DownStart \/ DownQuery \/ DownRevert \/ DownDelete

Spec == Init /\ [][Next]_vars

\* A process that runs goes on, and the orchestrator restarts one that exited.
FairSpec == Spec /\ \A r \in Replicas : WF_vars(Step(r)) /\ WF_vars(Restart(r))
-----------------------------------------------------------------------------
TypeOK ==
    /\ env \in Envs
    /\ pc \in [Replicas -> {"connector", "audit", "bus", "store", "ping", "create",
                            "query", "apply", "record", "service", "routes",
                            "listen", "serving", "stopped", "exited"}]
    /\ ver \in [Replicas -> 1..NV + 1]
    /\ wired \in [Replicas -> [conn : {"none", "exchange", "otc", "dummy"},
                               sink : {"none", "kafka", "memory"},
                               bus : {"none", "kafka"},
                               store : {"none", "postgres", "memory"},
                               auth : {"none", "token", "bypass"}]]
    /\ table \in BOOLEAN /\ applied \subseteq Versions /\ recorded \subseteq Versions
    /\ op \in {"idle", "query", "revert", "delete"} /\ opVer \in 0..NV
    /\ faults \in 0..MaxFaults /\ downs \in 0..MaxDowns
    /\ reverted \subseteq Versions /\ half \subseteq Versions /\ raced \subseteq Versions

\* A recorded migration is never run again (migrations.go:103-105), so a record
\* must not outlive its tables.  It does in two ways only: Down stopped between
\* its two statements (migrations.go:133-138), or it undid a migration that a
\* replica had applied and not yet recorded (migrations.go:107-112).
RecordedApplied == recorded \ applied \subseteq half \cup raced

\* A replica that serves from postgres finds every table, whatever crashed,
\* failed half-way or ran beside it, unless Down has been used
\* (migrations.go:97-113, postgres.go:41-45).
ServingSchema ==
    \A r \in Replicas :
        pc[r] = "serving" /\ wired[r].store = "postgres"
            => Versions \subseteq applied \cup reverted

\* The prod-no-stub contract (main.go:137-140): outside DEV_MODE nothing is
\* served through a stub, whichever settings are missing or blank.
ProdNoStub ==
    \A r \in Replicas :
        pc[r] = "serving" /\ ~ env.dev =>
            /\ wired[r].conn # "dummy" /\ env.creds = "set"
            /\ wired[r].sink = "kafka"
            /\ wired[r].store = "postgres"
            /\ wired[r].auth = "token"

\* What README.md:186-204 asks of a deployment, but for the OTC desk.
Startable ==
    \/ env.dev /\ env.venue # "otc" /\ (env.venue = "exchange" => env.pairs)
    \/ /\ env.venue = "exchange" /\ env.pairs
       /\ env.vault /\ env.creds = "set" /\ env.brokers = "set"
       /\ env.db /\ env.token

\* Every replica of a deployment with its settings serves in the end, although
\* replicas migrate side by side, crash half-way, find migrations applied and
\* not recorded, or undone behind their back (migrations.go:86-115).
EventuallyServes == Startable => \A r \in Replicas : <>(pc[r] = "serving")
=============================================================================
