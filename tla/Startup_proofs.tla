--------------------------- MODULE Startup_proofs ---------------------------
(***************************************************************************)
(* For any number of replicas, migrations, faults and runs of Down, and in *)
(* every environment: what the migrations leave in the database, and what  *)
(* a replica that serves was wired with.                                   *)
(***************************************************************************)
EXTENDS Startup, TLAPS

\* Where Up is says what it has done: the migrations before the one it is at are
\* in effect, and so is the one it is about to record, but for what Down undid.
Migrating(r) ==
    /\ pc[r] \in {"ping", "create"} => ver[r] = 1
    /\ pc[r] \in {"apply", "record"} => ver[r] \in Versions
    /\ pc[r] \in {"query", "apply", "record"} =>
           \A v \in Versions : v < ver[r] => v \in applied \cup reverted
    /\ pc[r] = "record" => ver[r] \in applied \cup raced

\* A replica that opened postgres ran them all.
Migrated(r) ==
    pc[r] \in {"service", "routes", "listen", "serving"} /\ wired[r].store = "postgres"
        => Versions \subseteq applied \cup reverted

\* What a production replica has been wired with by the time it is past each part.
ProdWired(r) ==
    ~ env.dev =>
        /\ pc[r] \notin {"connector", "exited"} =>
               wired[r].conn # "dummy" /\ env.creds = "set"
        /\ pc[r] \notin {"connector", "audit", "exited"} => wired[r].sink = "kafka"
        /\ pc[r] \in {"service", "routes", "listen", "serving"} =>
               wired[r].store = "postgres"
        /\ pc[r] \in {"listen", "serving"} => wired[r].auth = "token"

Replica(r) == Migrating(r) /\ Migrated(r) /\ ProdWired(r)

\* Down works on a migration, and what it half undid or undid under a replica is
\* undone.
Undone ==
    /\ half \subseteq reverted /\ raced \subseteq reverted
    /\ op \in {"revert", "delete"} => opVer \in Versions

IInv == TypeOK /\ (\A r \in Replicas : Replica(r)) /\ Undone /\ RecordedApplied

Places == {"connector", "audit", "bus", "store", "ping", "create", "query", "apply",
           "record", "service", "routes", "listen", "serving", "stopped", "exited"}
Wiring == [conn : {"none", "exchange", "otc", "dummy"}, sink : {"none", "kafka", "memory"},
           bus : {"none", "kafka"}, store : {"none", "postgres", "memory"},
           auth : {"none", "token", "bypass"}]
-----------------------------------------------------------------------------
\* The connector is put in place; the other parts stay.
LEMMA WireConn ==
    ASSUME TypeOK, NEW r \in Replicas, NEW c \in {"exchange", "otc", "dummy"}, Wire(r, "conn", c)
    PROVE  /\ wired' \in [Replicas -> Wiring] /\ wired'[r].conn = c
           /\ wired'[r].sink = wired[r].sink /\ wired'[r].bus = wired[r].bus
           /\ wired'[r].store = wired[r].store /\ wired'[r].auth = wired[r].auth
           /\ \A q \in Replicas : q # r => wired'[q] = wired[q]
  BY DEF TypeOK, Wire, Wiring

\* The audit sink is put in place; the other parts stay.
LEMMA WireSink ==
    ASSUME TypeOK, NEW r \in Replicas, NEW c \in {"kafka", "memory"}, Wire(r, "sink", c)
    PROVE  /\ wired' \in [Replicas -> Wiring] /\ wired'[r].sink = c
           /\ wired'[r].conn = wired[r].conn /\ wired'[r].bus = wired[r].bus
           /\ wired'[r].store = wired[r].store /\ wired'[r].auth = wired[r].auth
           /\ \A q \in Replicas : q # r => wired'[q] = wired[q]
  BY DEF TypeOK, Wire, Wiring

\* The event bus is put in place; the other parts stay.
LEMMA WireBus ==
    ASSUME TypeOK, NEW r \in Replicas, NEW c \in {"none", "kafka"}, Wire(r, "bus", c)
    PROVE  /\ wired' \in [Replicas -> Wiring] /\ wired'[r].bus = c
           /\ wired'[r].conn = wired[r].conn /\ wired'[r].sink = wired[r].sink
           /\ wired'[r].store = wired[r].store /\ wired'[r].auth = wired[r].auth
           /\ \A q \in Replicas : q # r => wired'[q] = wired[q]
  BY DEF TypeOK, Wire, Wiring

\* The store is put in place; the other parts stay.
LEMMA WireStore ==
    ASSUME TypeOK, NEW r \in Replicas, NEW c \in {"postgres", "memory"}, Wire(r, "store", c)
    PROVE  /\ wired' \in [Replicas -> Wiring] /\ wired'[r].store = c
           /\ wired'[r].conn = wired[r].conn /\ wired'[r].sink = wired[r].sink
           /\ wired'[r].bus = wired[r].bus /\ wired'[r].auth = wired[r].auth
           /\ \A q \in Replicas : q # r => wired'[q] = wired[q]
  BY DEF TypeOK, Wire, Wiring

\* The middleware is put in place; the other parts stay.
LEMMA WireAuth ==
    ASSUME TypeOK, NEW r \in Replicas, NEW c \in {"token", "bypass"}, Wire(r, "auth", c)
    PROVE  /\ wired' \in [Replicas -> Wiring] /\ wired'[r].auth = c
           /\ wired'[r].conn = wired[r].conn /\ wired'[r].sink = wired[r].sink
           /\ wired'[r].bus = wired[r].bus /\ wired'[r].store = wired[r].store
           /\ \A q \in Replicas : q # r => wired'[q] = wired[q]
  BY DEF TypeOK, Wire, Wiring

\* One replica moves.
LEMMA GotoMoves ==
    ASSUME TypeOK, NEW r \in Replicas, NEW w \in Places, Goto(r, w)
    PROVE  /\ pc' \in [Replicas -> Places]
           /\ \A q \in Replicas : pc'[q] = IF q = r THEN w ELSE pc[q]
  BY DEF TypeOK, Goto, Places

\* A call that may fail sends the replica on or ends it, within the bound.
LEMMA AnswerMoves ==
    ASSUME TypeOK, NEW r \in Replicas, NEW w \in Places, NEW ok \in BOOLEAN, Answer(r, ok, w)
    PROVE  /\ pc' \in [Replicas -> Places] /\ faults' \in 0..MaxFaults
           /\ pc'[r] = IF ok THEN w ELSE "exited"
           /\ \A q \in Replicas : q # r => pc'[q] = pc[q]
<1>1. Goto(r, IF ok THEN w ELSE "exited") /\ (IF ok THEN w ELSE "exited") \in Places
  BY DEF Answer, Places
<1>2. faults' \in 0..MaxFaults
  BY StartupAssumption DEF Answer, TypeOK
<1> QED
  BY <1>1, <1>2, GotoMoves

\* What holds of a replica that does not move stays, as long as what it relies on
\* in the database does.
LEMMA ReplicaKept ==
    ASSUME TypeOK, NEW q \in Replicas, Replica(q),
           pc'[q] = pc[q], ver'[q] = ver[q], wired'[q] = wired[q], env' = env,
           applied \cup reverted \subseteq applied' \cup reverted',
           pc[q] = "record" /\ ver[q] \in applied \cup raced => ver[q] \in applied' \cup raced'
    PROVE  Replica(q)'
<1>1. Migrating(q)'
  BY DEF Replica, Migrating
<1>2. Migrated(q)'
  BY DEF Replica, Migrated
<1>3. ProdWired(q)'
  BY DEF Replica, ProdWired
<1> QED
  BY <1>1, <1>2, <1>3 DEF Replica

\* A step of one replica that leaves the database, and after which what should
\* hold of that replica does, keeps the invariant.
LEMMA LocalIInv ==
    ASSUME IInv, NEW r \in Replicas, UNCHANGED <<env, db, operator, history>>,
           pc' \in [Replicas -> Places], ver' \in [Replicas -> 1..NV + 1],
           wired' \in [Replicas -> Wiring], faults' \in 0..MaxFaults,
           \A q \in Replicas : q # r =>
               pc'[q] = pc[q] /\ ver'[q] = ver[q] /\ wired'[q] = wired[q],
           Replica(r)'
    PROVE  IInv'
<1>0. TypeOK /\ Undone /\ RecordedApplied /\ \A q \in Replicas : Replica(q)
  BY DEF IInv
<1>1. UNCHANGED <<table, applied, recorded, op, opVer, downs, reverted, half, raced>>
  BY DEF db, operator, history
<1>2. TypeOK'
  BY <1>0, <1>1 DEF TypeOK, Places, Wiring
<1>3. Undone' /\ RecordedApplied'
  BY <1>0, <1>1 DEF Undone, RecordedApplied
<1>4. \A q \in Replicas : Replica(q)'
  BY <1>0, <1>1, ReplicaKept
<1> QED
  BY <1>2, <1>3, <1>4 DEF IInv

\* The replica's place, its migration and its wiring, with their types.
LEMMA Types ==
    ASSUME IInv, NEW r \in Replicas
    PROVE  /\ TypeOK /\ Replica(r) /\ env \in Env /\ pc[r] \in Places
           /\ pc \in [Replicas -> Places] /\ ver \in [Replicas -> 1..NV + 1]
           /\ wired \in [Replicas -> Wiring] /\ faults \in 0..MaxFaults
           /\ wired[r] \in Wiring /\ env.dev \in BOOLEAN
<1>1. env \in Env /\ TypeOK /\ Replica(r)
  BY StartupAssumption DEF IInv, TypeOK
<1> QED
  BY <1>1 DEF TypeOK, Places, Wiring, Env

\* log.Fatalf for a missing setting, a signal or a crash: the replica has ended.
LEMMA EndIInv ==
    ASSUME IInv, NEW r \in Replicas, NEW w \in {"exited", "stopped"}, Goto(r, w),
           ver' \in [Replicas -> 1..NV + 1], \A q \in Replicas : q # r => ver'[q] = ver[q],
           faults' \in 0..MaxFaults, w = "stopped" => pc[r] = "serving",
           UNCHANGED <<env, wired, db, operator, history>>
    PROVE  IInv'
<1>0. TypeOK /\ wired \in [Replicas -> Wiring] /\ Replica(r) /\ w \in Places
  BY Types DEF Places
<1>1. /\ pc' \in [Replicas -> Places] /\ pc'[r] = w
      /\ \A q \in Replicas : q # r => pc'[q] = pc[q]
  BY <1>0, GotoMoves
<1>2. Replica(r)'
  BY <1>0, <1>1 DEF Replica, Migrating, Migrated, ProdWired
<1> QED
  BY <1>0, <1>1, <1>2, LocalIInv

\* A replica goes on to a place before the migrations or after them, having put
\* at most one part in place.
LEMMA GoOnIInv ==
    ASSUME IInv, NEW r \in Replicas,
           NEW w \in {"audit", "bus", "store", "ping", "service", "routes", "listen", "serving"},
           Goto(r, w),
           ver' \in [Replicas -> 1..NV + 1], \A q \in Replicas : q # r => ver'[q] = ver[q],
           wired' \in [Replicas -> Wiring],
           \A q \in Replicas : q # r => wired'[q] = wired[q],
           faults' \in 0..MaxFaults, UNCHANGED <<env, db, operator, history>>,
           w = "ping" => ver'[r] = 1, Migrated(r)', ProdWired(r)'
    PROVE  IInv'
<1>0. TypeOK /\ w \in Places
  BY Types DEF Places
<1>1. /\ pc' \in [Replicas -> Places] /\ pc'[r] = w
      /\ \A q \in Replicas : q # r => pc'[q] = pc[q]
  BY <1>0, GotoMoves
<1>2. Migrating(r)'
  BY <1>1 DEF Migrating
<1>3. Replica(r)'
  BY <1>2 DEF Replica
<1> QED
  BY <1>1, <1>3, LocalIInv

\* selectConnector.
LEMMA ConnectorIInv ==
    ASSUME IInv, NEW r \in Replicas, Connector(r)
    PROVE  IInv'
<1>0. /\ UNCHANGED <<env, ver, db, operator, faults, history>>
      /\ ver \in [Replicas -> 1..NV + 1] /\ faults \in 0..MaxFaults /\ TypeOK
      /\ env \in Env
  BY Types DEF Connector
<1>1. CASE Fatal(r)
  BY <1>0, <1>1, EndIInv DEF Fatal
<1>2. CASE ~ Fatal(r)
  <2>1. /\ Wire(r, "conn", env.venue) /\ Goto(r, "audit")
        /\ env.venue \in {"exchange", "otc", "dummy"}
        /\ ~ env.dev => env.venue # "dummy" /\ env.creds = "set"
    BY <1>0, <1>2 DEF Connector, LoadCreds, Env
  <2>2. /\ wired' \in [Replicas -> Wiring] /\ wired'[r].conn = env.venue
        /\ \A q \in Replicas : q # r => wired'[q] = wired[q]
    BY <1>0, <2>1, WireConn
  <2>3. pc'[r] = "audit"
    BY <1>0, <2>1 DEF Goto, TypeOK
  <2>4. Migrated(r)' /\ ProdWired(r)'
    BY <1>0, <2>1, <2>2, <2>3 DEF Migrated, ProdWired
  <2> QED
    BY <1>0, <2>1, <2>2, <2>4, GoOnIInv
<1> QED
  BY <1>1, <1>2

\* newAuditSink.
LEMMA AuditSinkIInv ==
    ASSUME IInv, NEW r \in Replicas, AuditSink(r)
    PROVE  IInv'
<1>0. /\ UNCHANGED <<env, ver, db, operator, faults, history>>
      /\ ver \in [Replicas -> 1..NV + 1] /\ faults \in 0..MaxFaults /\ TypeOK
      /\ Replica(r) /\ pc[r] = "audit"
  BY Types DEF AuditSink
<1>1. CASE Fatal(r)
  BY <1>0, <1>1, EndIInv DEF Fatal
<1>2. ASSUME NEW c \in {"kafka", "memory"}, Wire(r, "sink", c), Goto(r, "bus"),
             ~ env.dev => c = "kafka"
      PROVE  IInv'
  <2>1. /\ wired' \in [Replicas -> Wiring] /\ wired'[r].sink = c
        /\ wired'[r].conn = wired[r].conn
        /\ \A q \in Replicas : q # r => wired'[q] = wired[q]
    BY <1>0, <1>2, WireSink
  <2>2. pc'[r] = "bus"
    BY <1>0, <1>2 DEF Goto, TypeOK
  <2>3. Migrated(r)' /\ ProdWired(r)'
    BY <1>0, <1>2, <2>1, <2>2 DEF Replica, Migrated, ProdWired
  <2> QED
    BY <1>0, <1>2, <2>1, <2>3, GoOnIInv
<1> QED
  BY <1>1, <1>2 DEF AuditSink

\* EVENT_BUS_URL.
LEMMA EventBusIInv ==
    ASSUME IInv, NEW r \in Replicas, EventBus(r)
    PROVE  IInv'
<1>0. /\ UNCHANGED <<env, ver, db, operator, faults, history>>
      /\ ver \in [Replicas -> 1..NV + 1] /\ faults \in 0..MaxFaults /\ TypeOK
      /\ Replica(r) /\ pc[r] = "bus" /\ Goto(r, "store")
  BY Types DEF EventBus
<1> DEFINE c == IF env.bus = "set" THEN "kafka" ELSE "none"
<1>1. Wire(r, "bus", c) /\ c \in {"none", "kafka"}
  BY DEF EventBus
<1> HIDE DEF c
<1>2. /\ wired' \in [Replicas -> Wiring]
      /\ wired'[r].conn = wired[r].conn /\ wired'[r].sink = wired[r].sink
      /\ \A q \in Replicas : q # r => wired'[q] = wired[q]
  BY <1>0, <1>1, WireBus
<1>3. pc'[r] = "store"
  BY <1>0 DEF Goto, TypeOK
<1>4. Migrated(r)' /\ ProdWired(r)'
  BY <1>0, <1>2, <1>3 DEF Replica, Migrated, ProdWired
<1> QED
  BY <1>0, <1>2, <1>4, GoOnIInv

\* newStore.
LEMMA NewStoreIInv ==
    ASSUME IInv, NEW r \in Replicas, NewStore(r)
    PROVE  IInv'
<1>0. /\ UNCHANGED <<env, db, operator, faults, history>> /\ faults \in 0..MaxFaults
      /\ TypeOK /\ Replica(r) /\ pc[r] = "store" /\ wired \in [Replicas -> Wiring]
  BY Types DEF NewStore
<1>1. /\ ver' \in [Replicas -> 1..NV + 1] /\ ver'[r] = 1
      /\ \A q \in Replicas : q # r => ver'[q] = ver[q]
  BY <1>0, StartupAssumption DEF NewStore, TypeOK
<1>2. CASE Fatal(r)
  BY <1>0, <1>1, <1>2, EndIInv DEF Fatal
<1>3. CASE Goto(r, "ping") /\ UNCHANGED wired
  <2>1. pc'[r] = "ping"
    BY <1>0, <1>3 DEF Goto, TypeOK
  <2>2. Migrated(r)' /\ ProdWired(r)'
    BY <1>0, <1>3, <2>1 DEF Replica, Migrated, ProdWired
  <2> QED
    BY <1>0, <1>1, <1>3, <2>2, GoOnIInv
<1>4. CASE env.dev /\ Wire(r, "store", "memory") /\ Goto(r, "service")
  <2>1. /\ wired' \in [Replicas -> Wiring] /\ wired'[r].store = "memory"
        /\ \A q \in Replicas : q # r => wired'[q] = wired[q]
    BY <1>0, <1>4, WireStore
  <2>2. Migrated(r)' /\ ProdWired(r)'
    BY <1>0, <1>4, <2>1 DEF Migrated, ProdWired
  <2> QED
    BY <1>0, <1>1, <1>4, <2>1, <2>2, GoOnIInv
<1> QED
  BY <1>2, <1>3, <1>4 DEF NewStore

\* NewService, the routes and the listener: what was wired stays.
LEMMA ServeIInv ==
    ASSUME IInv, NEW r \in Replicas, NewService(r) \/ Routes(r) \/ Listen(r)
    PROVE  IInv'
<1>0. /\ UNCHANGED <<env, ver, db, operator, history>>
      /\ TypeOK /\ Replica(r) /\ wired \in [Replicas -> Wiring]
      /\ ver \in [Replicas -> 1..NV + 1] /\ faults \in 0..MaxFaults
      /\ pc[r] \in {"service", "routes", "listen"}
  BY Types DEF NewService, Routes, Listen
<1>1. UNCHANGED <<applied, reverted>>
  BY <1>0 DEF db, history
<1>2. CASE NewService(r)
  <2>1. UNCHANGED <<wired, faults>> /\ (Goto(r, "exited") \/ Goto(r, "routes"))
    BY <1>2 DEF NewService
  <2>2. CASE Goto(r, "exited")
    BY <1>0, <2>1, <2>2, EndIInv
  <2>3. CASE Goto(r, "routes")
    <3>1. pc'[r] = "routes" /\ pc[r] = "service"
      BY <1>0, <1>2, <2>3 DEF Goto, TypeOK, NewService
    <3>2. Migrated(r)' /\ ProdWired(r)'
      BY <1>0, <1>1, <2>1, <3>1 DEF Replica, Migrated, ProdWired
    <3> QED
      BY <1>0, <2>1, <2>3, <3>2, GoOnIInv
  <2> QED
    BY <2>1, <2>2, <2>3
<1>3. CASE Routes(r)
  <2>1. UNCHANGED faults
    BY <1>3 DEF Routes
  <2>2. CASE Fatal(r)
    BY <1>0, <2>1, <2>2, EndIInv DEF Fatal
  <2>3. ASSUME NEW c \in {"token", "bypass"}, Wire(r, "auth", c), Goto(r, "listen"),
               ~ env.dev => c = "token"
        PROVE  IInv'
    <3>1. /\ wired' \in [Replicas -> Wiring] /\ wired'[r].auth = c
          /\ wired'[r].conn = wired[r].conn /\ wired'[r].sink = wired[r].sink
          /\ wired'[r].store = wired[r].store
          /\ \A q \in Replicas : q # r => wired'[q] = wired[q]
      BY <1>0, <2>3, WireAuth
    <3>2. pc'[r] = "listen" /\ pc[r] = "routes"
      BY <1>0, <1>3, <2>3 DEF Goto, TypeOK, Routes
    <3>3. Migrated(r)' /\ ProdWired(r)'
      BY <1>0, <1>1, <2>3, <3>1, <3>2 DEF Replica, Migrated, ProdWired
    <3> QED
      BY <1>0, <2>1, <2>3, <3>1, <3>3, GoOnIInv
  <2> QED
    BY <1>3, <2>2, <2>3 DEF Routes
<1>4. CASE Listen(r)
  <2>1. PICK ok \in BOOLEAN : Answer(r, ok, "serving")
    BY <1>4 DEF Listen
  <2>2. UNCHANGED wired /\ faults' \in 0..MaxFaults /\ pc[r] = "listen"
    BY <1>0, <1>4, <2>1, AnswerMoves DEF Listen, Places
  <2>3. CASE Goto(r, "exited")
    BY <1>0, <2>2, <2>3, EndIInv
  <2>4. CASE Goto(r, "serving")
    <3>1. pc'[r] = "serving"
      BY <1>0, <2>4 DEF Goto, TypeOK
    <3>2. Migrated(r)' /\ ProdWired(r)'
      BY <1>0, <1>1, <2>2, <3>1 DEF Replica, Migrated, ProdWired
    <3> QED
      BY <1>0, <2>2, <2>4, <3>2, GoOnIInv
  <2> QED
    BY <2>1, <2>3, <2>4 DEF Answer
<1> QED
  BY <1>2, <1>3, <1>4

\* A replica is stopped, crashes, or is started again.
LEMMA ProcessIInv ==
    ASSUME IInv, NEW r \in Replicas, Stop(r) \/ Crash(r) \/ Restart(r)
    PROVE  IInv'
<1>0. /\ UNCHANGED <<env, ver, db, operator, history>> /\ TypeOK
      /\ wired \in [Replicas -> Wiring] /\ pc \in [Replicas -> Places]
      /\ ver \in [Replicas -> 1..NV + 1] /\ faults \in 0..MaxFaults
  BY Types DEF Stop, Crash, Restart
<1>1. CASE Stop(r)
  BY <1>0, <1>1, EndIInv DEF Stop
<1>2. CASE Crash(r)
  <2>1. faults' \in 0..MaxFaults
    BY <1>0, <1>2, StartupAssumption DEF Crash
  <2> QED
    BY <1>0, <1>2, <2>1, EndIInv DEF Crash
<1>3. CASE Restart(r)
  <2>1. /\ pc' \in [Replicas -> Places] /\ pc'[r] = "connector"
        /\ \A q \in Replicas : q # r => pc'[q] = pc[q]
    BY <1>0, <1>3, GotoMoves DEF Restart, Places
  <2>2. /\ wired' \in [Replicas -> Wiring]
        /\ \A q \in Replicas : q # r => wired'[q] = wired[q]
    BY <1>0, <1>3 DEF Restart, Wiring, Unwired
  <2>3. Replica(r)'
    BY <2>1 DEF Replica, Migrating, Migrated, ProdWired
  <2>4. faults' \in 0..MaxFaults
    BY <1>0, <1>3 DEF Restart
  <2> QED
    BY <1>0, <2>1, <2>2, <2>3, <2>4, LocalIInv
<1> QED
  BY <1>1, <1>2, <1>3
-----------------------------------------------------------------------------
\* A step of Up: migrations come into effect and are recorded, none is undone.
LEMMA UpIInv ==
    ASSUME IInv, NEW r \in Replicas, UNCHANGED <<env, wired, operator, history>>,
           pc' \in [Replicas -> Places], ver' \in [Replicas -> 1..NV + 1],
           faults' \in 0..MaxFaults,
           \A q \in Replicas : q # r => pc'[q] = pc[q] /\ ver'[q] = ver[q],
           table' \in BOOLEAN, applied \subseteq applied', applied' \subseteq Versions,
           recorded' \subseteq Versions, recorded' \ applied' \subseteq half \cup raced,
           Replica(r)'
    PROVE  IInv'
<1>0. TypeOK /\ Undone /\ \A q \in Replicas : Replica(q)
  BY DEF IInv
<1>1. UNCHANGED <<op, opVer, downs, reverted, half, raced>>
  BY DEF operator, history
<1>2. TypeOK'
  BY <1>0, <1>1 DEF TypeOK, Places
<1>3. Undone' /\ RecordedApplied'
  BY <1>0, <1>1 DEF Undone, RecordedApplied
<1>4. applied \cup reverted \subseteq applied' \cup reverted'
      /\ applied \cup raced \subseteq applied' \cup raced'
  BY <1>1
<1>5. \A q \in Replicas : Replica(q)'
  BY <1>0, <1>4, ReplicaKept
<1> QED
  BY <1>2, <1>3, <1>5 DEF IInv

\* What is recorded is in effect, or was undone.
LEMMA RecordedDone ==
    ASSUME IInv
    PROVE  recorded \subseteq applied \cup reverted
  BY DEF IInv, RecordedApplied, Undone

\* A replica within Open whose wiring a step leaves: production settings hold on.
LEMMA ProdKept ==
    ASSUME IInv, NEW r \in Replicas, UNCHANGED <<env, wired>>,
           pc[r] \in {"ping", "create", "query", "apply", "record"},
           pc'[r] \in {"create", "query", "apply", "record", "exited"}
    PROVE  ProdWired(r)' /\ Migrated(r)'
  BY DEF IInv, Replica, ProdWired, Migrated

\* Ping and the table of migrations.
LEMMA OpenIInv ==
    ASSUME IInv, NEW r \in Replicas, Ping(r) \/ CreateTable(r)
    PROVE  IInv'
<1>0. /\ UNCHANGED <<env, ver, wired, applied, recorded, operator, history>>
      /\ TypeOK /\ Replica(r) /\ ver \in [Replicas -> 1..NV + 1] /\ ver[r] = 1
      /\ pc[r] \in {"ping", "create"}
  BY Types DEF Ping, CreateTable, db, Replica, Migrating
<1>1. PICK ok \in BOOLEAN, w \in {"create", "query"} : Answer(r, ok, w)
  BY DEF Ping, CreateTable
<1>2. /\ pc' \in [Replicas -> Places] /\ faults' \in 0..MaxFaults
      /\ pc'[r] \in {"create", "query", "exited"}
      /\ \A q \in Replicas : q # r => pc'[q] = pc[q]
  <2>1. w \in Places
    BY DEF Places
  <2> QED
    BY <1>0, <1>1, <2>1, AnswerMoves
<1>3. table' \in BOOLEAN
  <2>1. CASE Ping(r)
    BY <1>0, <2>1 DEF Ping, db, TypeOK
  <2>2. CASE CreateTable(r)
    <3>1. PICK took \in BOOLEAN : table' = (table \/ took)
      BY <2>2 DEF CreateTable
    <3> QED
      BY <3>1
  <2> QED
    BY <2>1, <2>2
<1>4. Migrating(r)'
  <2>1. \A v \in Versions : ~ (v < ver[r])
    BY <1>0, StartupAssumption DEF Versions
  <2> QED
    BY <1>0, <1>2, <2>1 DEF Migrating
<1>5. Replica(r)'
  BY <1>0, <1>2, <1>4, ProdKept DEF Replica
<1>6. applied \subseteq Versions /\ recorded \subseteq Versions
      /\ recorded \ applied \subseteq half \cup raced
  BY DEF IInv, TypeOK, RecordedApplied
<1> QED
  BY <1>0, <1>2, <1>3, <1>5, <1>6, UpIInv

\* The migration at hand is done with: the next one follows.
LEMMA NextVersion ==
    ASSUME NEW v \in Nat, NEW S, NEW n \in Nat, v \in 1..n, v \in S,
           \A u \in 1..n : u < v => u \in S
    PROVE  v + 1 \in 1..n + 1 /\ \A u \in 1..n : u < v + 1 => u \in S
  OBVIOUS

\* The query for the next migration, and the end of the loop.
LEMMA QueryIInv ==
    ASSUME IInv, NEW r \in Replicas, Query(r)
    PROVE  IInv'
<1>0. /\ UNCHANGED <<env, db, operator, history>> /\ pc[r] = "query"
      /\ TypeOK /\ Replica(r) /\ ver \in [Replicas -> 1..NV + 1]
      /\ faults \in 0..MaxFaults /\ wired \in [Replicas -> Wiring]
      /\ pc \in [Replicas -> Places] /\ ver[r] \in 1..NV + 1
  BY Types DEF Query
<1>1. UNCHANGED <<table, applied, recorded, reverted, raced>>
  BY <1>0 DEF db, history
<1>2. \A v \in Versions : v < ver[r] => v \in applied \cup reverted
  BY <1>0 DEF Replica, Migrating
<1>3. CASE ver[r] > NV /\ Wire(r, "store", "postgres") /\ Goto(r, "service")
           /\ UNCHANGED <<ver, faults>>
  <2>1. Versions \subseteq applied \cup reverted
    BY <1>0, <1>2, <1>3, StartupAssumption DEF Versions
  <2>2. /\ wired' \in [Replicas -> Wiring] /\ wired'[r].store = "postgres"
        /\ wired'[r].conn = wired[r].conn /\ wired'[r].sink = wired[r].sink
        /\ \A q \in Replicas : q # r => wired'[q] = wired[q]
    BY <1>0, <1>3, WireStore
  <2>3. pc'[r] = "service"
    BY <1>0, <1>3 DEF Goto
  <2>4. Migrated(r)'
    BY <1>1, <2>1 DEF Migrated
  <2>5. ProdWired(r)'
    BY <1>0, <2>2, <2>3 DEF Replica, ProdWired
  <2> QED
    BY <1>0, <1>3, <2>2, <2>4, <2>5, GoOnIInv
<1>4. CASE /\ ver[r] \in recorded /\ ver' = [ver EXCEPT ![r] = @ + 1]
           /\ UNCHANGED <<pc, wired, faults>>
  <2>1. ver[r] \in Versions /\ ver[r] \in applied \cup reverted
    BY <1>0, <1>4, RecordedDone DEF TypeOK
  <2>2. ver[r] + 1 \in 1..NV + 1
        /\ \A v \in Versions : v < ver[r] + 1 => v \in applied \cup reverted
    BY <1>0, <1>2, <2>1, StartupAssumption, NextVersion DEF Versions
  <2>3. /\ ver' \in [Replicas -> 1..NV + 1] /\ ver'[r] = ver[r] + 1
        /\ \A q \in Replicas : q # r => ver'[q] = ver[q]
    BY <1>0, <1>4, <2>2
  <2>4. Migrating(r)'
    BY <1>0, <1>1, <1>4, <2>2, <2>3 DEF Migrating
  <2>5. Replica(r)'
    BY <1>0, <1>4, <2>4, ProdKept DEF Replica
  <2> QED
    BY <1>0, <1>4, <2>3, <2>5, LocalIInv
<1>5. ASSUME ver[r] \in Versions, NEW ok \in BOOLEAN, Answer(r, ok, "apply"),
             UNCHANGED <<ver, wired>>
      PROVE  IInv'
  <2>1. /\ pc' \in [Replicas -> Places] /\ faults' \in 0..MaxFaults
        /\ pc'[r] \in {"apply", "exited"}
        /\ \A q \in Replicas : q # r => pc'[q] = pc[q]
    <3>1. "apply" \in Places
      BY DEF Places
    <3> QED
      BY <1>0, <1>5, <3>1, AnswerMoves
  <2>2. Migrating(r)'
    BY <1>1, <1>2, <1>5, <2>1 DEF Migrating
  <2>3. Replica(r)'
    BY <1>0, <1>5, <2>1, <2>2, ProdKept DEF Replica
  <2> QED
    BY <1>0, <1>5, <2>1, <2>3, LocalIInv
<1> QED
  BY <1>3, <1>4, <1>5 DEF Query

\* The statements of one migration.
LEMMA ApplyIInv ==
    ASSUME IInv, NEW r \in Replicas, Apply(r)
    PROVE  IInv'
<1>0. /\ UNCHANGED <<env, ver, wired, table, recorded, operator, history>>
      /\ pc[r] = "apply" /\ TypeOK /\ Replica(r) /\ ver \in [Replicas -> 1..NV + 1]
  BY Types DEF Apply
<1>1. PICK ok, took \in BOOLEAN :
        /\ ok => took
        /\ applied' = IF took THEN applied \cup {ver[r]} ELSE applied
        /\ Answer(r, ok, "record")
  BY DEF Apply
<1>2. /\ pc' \in [Replicas -> Places] /\ faults' \in 0..MaxFaults
      /\ pc'[r] = IF ok THEN "record" ELSE "exited"
      /\ \A q \in Replicas : q # r => pc'[q] = pc[q]
  <2>1. "record" \in Places
    BY DEF Places
  <2> QED
    BY <1>0, <1>1, <2>1, AnswerMoves
<1>3. ver[r] \in Versions /\ \A v \in Versions : v < ver[r] => v \in applied \cup reverted
  BY <1>0 DEF Replica, Migrating
<1>4. /\ applied \subseteq applied' /\ applied' \subseteq Versions
      /\ ok => ver[r] \in applied'
  BY <1>0, <1>1, <1>3 DEF TypeOK
<1>5. /\ recorded' \subseteq Versions /\ table' \in BOOLEAN
      /\ recorded' \ applied' \subseteq half \cup raced /\ reverted' = reverted
  BY <1>0, <1>4 DEF IInv, TypeOK, RecordedApplied, history
<1>6. Migrating(r)'
  BY <1>0, <1>2, <1>3, <1>4, <1>5 DEF Migrating
<1>7. Replica(r)'
  BY <1>0, <1>2, <1>6, ProdKept DEF Replica
<1> QED
  BY <1>0, <1>2, <1>4, <1>5, <1>7, UpIInv

\* Its record.
LEMMA RecordIInv ==
    ASSUME IInv, NEW r \in Replicas, Record(r)
    PROVE  IInv'
<1>0. /\ UNCHANGED <<env, wired, table, applied, operator, history>>
      /\ pc[r] = "record" /\ TypeOK /\ Replica(r) /\ ver \in [Replicas -> 1..NV + 1]
  BY Types DEF Record
<1>1. PICK ok, took \in BOOLEAN :
        /\ recorded' = IF took THEN recorded \cup {ver[r]} ELSE recorded
        /\ ver' = [ver EXCEPT ![r] = @ + 1]
        /\ Answer(r, ok, "query")
  BY DEF Record
<1>2. /\ pc' \in [Replicas -> Places] /\ faults' \in 0..MaxFaults
      /\ pc'[r] \in {"query", "exited"}
      /\ \A q \in Replicas : q # r => pc'[q] = pc[q]
  <2>1. "query" \in Places
    BY DEF Places
  <2> QED
    BY <1>0, <1>1, <2>1, AnswerMoves
<1>3. /\ ver[r] \in Versions /\ ver[r] \in applied \cup raced
      /\ \A v \in Versions : v < ver[r] => v \in applied \cup reverted
  BY <1>0 DEF Replica, Migrating
<1>4. ver[r] \in applied \cup reverted
  BY <1>3 DEF IInv, Undone
<1>5. ver[r] + 1 \in 1..NV + 1
      /\ \A v \in Versions : v < ver[r] + 1 => v \in applied \cup reverted
  BY <1>3, <1>4, StartupAssumption, NextVersion DEF Versions
<1>6. /\ ver' \in [Replicas -> 1..NV + 1] /\ ver'[r] = ver[r] + 1
      /\ \A q \in Replicas : q # r => ver'[q] = ver[q]
  BY <1>0, <1>1, <1>5
<1>7. /\ recorded' \subseteq Versions /\ table' \in BOOLEAN /\ applied' \subseteq Versions
      /\ recorded' \ applied' \subseteq half \cup raced /\ reverted' = reverted
  BY <1>0, <1>1, <1>3 DEF IInv, TypeOK, RecordedApplied, history
<1>8. Migrating(r)'
  BY <1>0, <1>2, <1>5, <1>6, <1>7 DEF Migrating
<1>9. Replica(r)'
  BY <1>0, <1>2, <1>8, ProdKept DEF Replica
<1> QED
  BY <1>0, <1>2, <1>6, <1>7, <1>9, UpIInv
-----------------------------------------------------------------------------
\* A step of the operator's Down, which leaves every replica where it is.
LEMMA DownIInv ==
    ASSUME IInv, UNCHANGED <<env, pc, ver, wired, table>>,
           applied' \subseteq Versions, recorded' \subseteq Versions,
           op' \in {"idle", "query", "revert", "delete"}, opVer' \in 0..NV,
           faults' \in 0..MaxFaults, downs' \in 0..MaxDowns, reverted' \subseteq Versions,
           half' \subseteq reverted', raced' \subseteq reverted',
           op' \in {"revert", "delete"} => opVer' \in Versions,
           recorded' \ applied' \subseteq half' \cup raced',
           applied \cup reverted \subseteq applied' \cup reverted',
           \A q \in Replicas : pc[q] = "record" /\ ver[q] \in applied \cup raced
                                   => ver[q] \in applied' \cup raced'
    PROVE  IInv'
<1>0. TypeOK /\ \A q \in Replicas : Replica(q)
  BY DEF IInv
<1>1. TypeOK'
  BY <1>0 DEF TypeOK
<1>2. Undone' /\ RecordedApplied'
  BY DEF Undone, RecordedApplied
<1>3. \A q \in Replicas : Replica(q)'
  BY <1>0, ReplicaKept
<1> QED
  BY <1>1, <1>2, <1>3 DEF IInv

\* A statement of Down that may fail ends it, within the bound.
LEMMA DownAnswerMoves ==
    ASSUME TypeOK, NEW ok \in BOOLEAN, NEW w \in {"revert", "delete", "query"},
           DownAnswer(ok, w)
    PROVE  op' \in {"idle", w} /\ faults' \in 0..MaxFaults
  BY StartupAssumption DEF TypeOK, DownAnswer

\* Down starts, and looks for the newest migration that is recorded.
LEMMA DownQueryIInv ==
    ASSUME IInv, DownStart \/ DownQuery
    PROVE  IInv'
<1>0. /\ UNCHANGED <<env, pc, ver, wired, table, applied, recorded, reverted, half, raced>>
      /\ TypeOK /\ Undone /\ RecordedApplied
  BY DEF IInv, DownStart, DownQuery, db, history
<1>1. /\ op' \in {"idle", "query", "revert", "delete"} /\ opVer' \in 0..NV
      /\ faults' \in 0..MaxFaults /\ downs' \in 0..MaxDowns
      /\ op' \in {"revert", "delete"} => opVer' \in Versions
  <2>1. CASE DownStart
    BY <1>0, <2>1, StartupAssumption DEF TypeOK, DownStart
  <2>2. CASE DownQuery
    <3>1. downs' \in 0..MaxDowns /\ op = "query" /\ opVer \in 0..NV /\ faults \in 0..MaxFaults
      BY <1>0, <2>2 DEF TypeOK, DownQuery
    <3>2. CASE op' = "idle" /\ UNCHANGED <<opVer, faults>>
      BY <3>1, <3>2
    <3>3. CASE opVer # 0 /\ opVer' = opVer - 1 /\ UNCHANGED <<op, faults>>
      BY <3>1, <3>3, StartupAssumption
    <3>4. ASSUME opVer # 0, NEW ok \in BOOLEAN, DownAnswer(ok, "revert"), opVer' = opVer
          PROVE  op' \in {"idle", "revert"} /\ faults' \in 0..MaxFaults /\ opVer' \in Versions
      <4>1. op' \in {"idle", "revert"} /\ faults' \in 0..MaxFaults
        BY <1>0, <3>4, DownAnswerMoves
      <4>2. opVer' \in Versions
        BY <3>1, <3>4, StartupAssumption DEF Versions
      <4> QED
        BY <4>1, <4>2
    <3> QED
      BY <2>2, <3>1, <3>2, <3>3, <3>4 DEF DownQuery, Versions
  <2> QED
    BY <2>1, <2>2
<1>2. applied \subseteq Versions /\ recorded \subseteq Versions /\ reverted \subseteq Versions
  BY <1>0 DEF TypeOK
<1> QED
  BY <1>0, <1>1, <1>2, DownIInv DEF Undone, RecordedApplied

\* It undoes a migration, maybe under a replica that is about to record it ...
LEMMA DownRevertIInv ==
    ASSUME IInv, DownRevert
    PROVE  IInv'
<1>0. /\ UNCHANGED <<env, pc, ver, wired, table, recorded, opVer, downs>>
      /\ TypeOK /\ Undone /\ RecordedApplied /\ op = "revert" /\ opVer \in Versions
  BY DEF IInv, DownRevert, Undone
<1>1. PICK ok, took \in BOOLEAN :
        /\ ok => took
        /\ applied' = IF took THEN applied \ {opVer} ELSE applied
        /\ reverted' = IF took THEN reverted \cup {opVer} ELSE reverted
        /\ half' = IF took THEN half \cup {opVer} ELSE half
        /\ raced' = IF took /\ \E r \in Replicas : pc[r] = "record" /\ ver[r] = opVer
                    THEN raced \cup {opVer} ELSE raced
        /\ DownAnswer(ok, "delete")
  BY DEF DownRevert
<1>2. op' \in {"idle", "delete"} /\ faults' \in 0..MaxFaults
  BY <1>0, <1>1, DownAnswerMoves
<1>3. /\ applied' \subseteq Versions /\ recorded' \subseteq Versions
      /\ reverted' \subseteq Versions /\ opVer' \in 0..NV /\ downs' \in 0..MaxDowns
  BY <1>0, <1>1 DEF TypeOK
<1>4. half' \subseteq reverted' /\ raced' \subseteq reverted'
  BY <1>0, <1>1 DEF Undone
<1>5. recorded' \ applied' \subseteq half' \cup raced'
  BY <1>0, <1>1 DEF RecordedApplied
<1>6. applied \cup reverted \subseteq applied' \cup reverted'
  BY <1>1
<1>7. \A q \in Replicas : pc[q] = "record" /\ ver[q] \in applied \cup raced
                              => ver[q] \in applied' \cup raced'
  BY <1>1
<1> QED
  BY <1>0, <1>2, <1>3, <1>4, <1>5, <1>6, <1>7, DownIInv

\* ... and deletes its record.
LEMMA DownDeleteIInv ==
    ASSUME IInv, DownDelete
    PROVE  IInv'
<1>0. /\ UNCHANGED <<env, pc, ver, wired, table, applied, downs, reverted, raced>>
      /\ TypeOK /\ Undone /\ RecordedApplied /\ op = "delete" /\ opVer \in Versions
  BY DEF IInv, DownDelete, Undone
<1>1. PICK ok, took \in BOOLEAN :
        /\ recorded' = IF took THEN recorded \ {opVer} ELSE recorded
        /\ half' = IF took THEN half \ {opVer} ELSE half
        /\ opVer' = opVer - 1
        /\ DownAnswer(ok, "query")
  BY DEF DownDelete
<1>2. op' \in {"idle", "query"} /\ faults' \in 0..MaxFaults
  BY <1>0, <1>1, DownAnswerMoves
<1>3. opVer' \in 0..NV
  BY <1>0, <1>1, StartupAssumption DEF Versions
<1>4. /\ applied' \subseteq Versions /\ recorded' \subseteq Versions
      /\ reverted' \subseteq Versions /\ downs' \in 0..MaxDowns
  BY <1>0, <1>1 DEF TypeOK
<1>5. half' \subseteq reverted' /\ raced' \subseteq reverted'
      /\ recorded' \ applied' \subseteq half' \cup raced'
  BY <1>0, <1>1 DEF Undone, RecordedApplied
<1> QED
  BY <1>0, <1>2, <1>3, <1>4, <1>5, DownIInv
-----------------------------------------------------------------------------
\* Before the first replica does anything.
LEMMA InitIInv == Init => IInv
<1> SUFFICES ASSUME Init PROVE IInv
  OBVIOUS
<1>1. table \in BOOLEAN
  BY DEF Init
<1>2. TypeOK
  BY <1>1, StartupAssumption DEF Init, TypeOK, Unwired
<1>3. \A r \in Replicas : Replica(r)
  BY DEF Init, Replica, Migrating, Migrated, ProdWired
<1>4. Undone /\ RecordedApplied
  BY DEF Init, Undone, RecordedApplied
<1> QED
  BY <1>2, <1>3, <1>4 DEF IInv

\* Every step keeps the invariant.
LEMMA StepIInv == IInv /\ [Next]_vars => IInv'
<1> SUFFICES ASSUME IInv, [Next]_vars PROVE IInv'
  OBVIOUS
<1>1. CASE UNCHANGED vars
  <2>1. UNCHANGED <<env, pc, ver, wired, table, applied, recorded, op, opVer, downs, faults,
                    reverted, half, raced>>
    BY <1>1 DEF vars, db, operator, history
  <2>2. UNCHANGED <<TypeOK, Undone, RecordedApplied>>
    BY <2>1 DEF TypeOK, Undone, RecordedApplied
  <2>3. TypeOK /\ \A r \in Replicas : Replica(r)
    BY DEF IInv
  <2>4. \A r \in Replicas : Replica(r)'
    BY <2>1, <2>3, ReplicaKept
  <2> QED
    BY <2>2, <2>4 DEF IInv
<1>2. ASSUME NEW r \in Replicas, Step(r) PROVE IInv'
  BY <1>2, ConnectorIInv, AuditSinkIInv, EventBusIInv, NewStoreIInv, OpenIInv, QueryIInv,
     ApplyIInv, RecordIInv, ServeIInv DEF Step
<1>3. ASSUME NEW r \in Replicas, Stop(r) \/ Crash(r) \/ Restart(r) PROVE IInv'
  BY <1>3, ProcessIInv
<1>4. CASE DownStart \/ DownQuery \/ DownRevert \/ DownDelete
  BY <1>4, DownQueryIInv, DownRevertIInv, DownDeleteIInv
<1> QED
  BY <1>1, <1>2, <1>3, <1>4 DEF Next

\* The invariant holds throughout.
LEMMA Inductive == Spec => []IInv
  BY InitIInv, StepIInv, PTL DEF Spec

\* The replicas, the database and the operator keep their types.
THEOREM TypeCorrect == Spec => []TypeOK
  BY Inductive, PTL DEF IInv

\* A record outlives its tables only where Down stopped half-way or undid a
\* migration between a replica's apply and its record, however many replicas
\* migrate side by side and wherever they crash (migrations.go:86-140).
THEOREM Recorded == Spec => []RecordedApplied
  BY Inductive, PTL DEF IInv

\* A replica that serves from postgres finds every table, short of Down
\* (migrations.go:97-113, postgres.go:41-45).
THEOREM Schema == Spec => []ServingSchema
<1>1. IInv => ServingSchema
  BY DEF IInv, Replica, Migrated, ServingSchema
<1> QED
  BY <1>1, Inductive, PTL

\* Outside DEV_MODE no stub is served, in any environment (main.go:137-140).
THEOREM NoStub == Spec => []ProdNoStub
<1>1. IInv => ProdNoStub
  BY DEF IInv, Replica, ProdWired, ProdNoStub
<1> QED
  BY <1>1, Inductive, PTL
=============================================================================
