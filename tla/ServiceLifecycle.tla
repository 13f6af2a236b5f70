-------------------------- MODULE ServiceLifecycle --------------------------
(***************************************************************************)
(* The life of a service process, from main to the exit status on which    *)
(* the container runtime decides.  Run of order_service and Run of         *)
(* billing_service differ in their tables, their workers and what they     *)
(* close; both start the workers, never wait for them, and look at the     *)
(* signal only at the end of the start-up.                                 *)
(***************************************************************************)
EXTENDS Naturals

CONSTANTS Calls,         \* the gRPC calls that can be in flight
          MaxAttempts,   \* maxRetries of InitDB: 10 in the code
          MaxFaults      \* bound: outages, ports taken, crashes, servers that fail

ASSUME LifecycleAssumption ==
  /\ MaxAttempts \in Nat \ {0}
  /\ MaxFaults \in Nat

VARIABLES service,     \* which of the two programs this is
          configured,  \* every required environment variable is set
          phase,       \* where Run is; "exited": there is no process
          attempt,     \* failed attempts of InitDB
          stopping,    \* SIGTERM was received: ctx is cancelled
          deaf,        \* grpcServer.Serve has failed
          forced,      \* the 30 seconds are over: Stop
          pool,        \* the process's connection pool is open
          tables,      \* the tables that exist
          busy,        \* workers with a batch or a message in hand
          calls,       \* gRPC calls in flight
          exit,        \* "failed": a non-zero exit status
          databaseUp,  \* Postgres answers
          portFree,    \* the gRPC port can be bound
          faults       \* faults so far

program == <<service, configured>>
environment == <<databaseUp, portFree>>
work == <<busy, calls>>
vars == <<program, phase, attempt, stopping, deaf, forced, pool, tables, work,
          exit, environment, faults>>

Phases == {"config", "connect", "migrate", "outbox", "start", "listen", "serve",
           "closing", "draining", "close", "exited"}

\* What the service's own code reads and writes, and its goroutines that do.
Tables == IF service = "order_service" THEN {"orders", "outbox_events"}
                                       ELSE {"invoices", "processed_events"}

Workers == IF service = "order_service" THEN {"relay"}
                                        ELSE {"created", "paid", "cancelled"}

\* Run is past the go statements of the workers.
Started == phase \in {"listen", "serve", "closing", "draining", "close"}

\* Between net.Listen and GracefulStop.
Accepting == phase \in {"serve", "closing"} /\ ~ deaf

TypeOK ==
  /\ service \in {"order_service", "billing_service"} /\ configured \in BOOLEAN
  /\ phase \in Phases
  /\ attempt \in 0 .. MaxAttempts
  /\ {stopping, deaf, forced, pool} \subseteq BOOLEAN
  /\ tables \subseteq Tables
  /\ busy \subseteq Workers
  /\ calls \subseteq Calls
  /\ exit \in {"none", "ok", "failed"}
  /\ {databaseUp, portFree} \subseteq BOOLEAN
  /\ faults \in 0 .. MaxFaults

Init ==
  /\ service \in {"order_service", "billing_service"} /\ configured \in BOOLEAN
  /\ phase = "config" /\ attempt = 0
  /\ stopping = FALSE /\ deaf = FALSE /\ forced = FALSE /\ pool = FALSE
  /\ tables = {} /\ busy = {} /\ calls = {}
  /\ exit = "none"
  /\ databaseUp \in BOOLEAN /\ portFree \in BOOLEAN
  /\ faults = 0

-----------------------------------------------------------------------------
At(p) == phase = p

Goto(p) == phase' = p /\ UNCHANGED <<exit, work>>

\* Variant: main drops the error of Run.
MainDropsTheError(code) ==
  /\ phase' = "exited" /\ exit' = "ok"
  /\ busy' = {} /\ calls' = {}

\* The process ends, and with it every goroutine and call: log.Fatal in main
\* for an error of Run.
Exit(code) ==
  /\ phase' = "exited" /\ exit' = code
  /\ busy' = {} /\ calls' = {}

\* mustGetenv, for each required variable.
LoadConfig ==
  /\ At("config")
  /\ IF configured THEN Goto("connect") ELSE Exit("failed")
  /\ UNCHANGED <<attempt, deaf, pool, tables, forced>>

\* Variant: the loop does not end.
InitDBForever ==
  /\ At("connect")
  /\ \/ databaseUp /\ pool' = TRUE /\ Goto("migrate") /\ UNCHANGED attempt
     \/ ~ databaseUp /\ attempt' = attempt + 1 /\ Goto("connect") /\ UNCHANGED pool
  /\ UNCHANGED <<deaf, tables, forced>>

\* One attempt, and the sleep after it, which no signal cuts short.
InitDB ==
  /\ At("connect")
  /\ \/ databaseUp /\ pool' = TRUE /\ Goto("migrate") /\ UNCHANGED attempt
     \/ /\ ~ databaseUp /\ attempt' = attempt + 1 /\ UNCHANGED pool
        /\ IF attempt' < MaxAttempts THEN Goto("connect") ELSE Exit("failed")
  /\ UNCHANGED <<deaf, tables, forced>>

\* A call of AutoMigrate for the tables ts, before Run goes on to next.
AutoMigrate(ts, next) ==
  /\ \/ databaseUp /\ tables' = tables \cup ts /\ Goto(next)
     \/ ~ databaseUp /\ Exit("failed") /\ UNCHANGED tables
  /\ UNCHANGED <<attempt, deaf, pool, forced>>

\* order_service: InitDB migrates orders, and Run the outbox.
MigrateOrders == At("migrate") /\ service = "order_service" /\ AutoMigrate({"orders"}, "outbox")

\* Variant: the failed migration of the outbox is only logged.
MigrateOutboxUnchecked ==
  /\ At("outbox")
  /\ Goto("start")
  /\ tables' = IF databaseUp THEN Tables ELSE tables
  /\ UNCHANGED <<attempt, deaf, pool, forced>>

MigrateOutbox == At("outbox") /\ AutoMigrate({"outbox_events"}, "start")

\* billing_service migrates both of its tables in one call; the errors of the
\* two statements that drop old constraints are ignored.
RunMigrations == At("migrate") /\ service = "billing_service" /\ AutoMigrate(Tables, "start")

\* The metrics server, whose failure is only logged, the services, and the
\* goroutines of the workers.
StartRelay == At("start") /\ service = "order_service" /\ Goto("listen")

StartConsumers == At("start") /\ service = "billing_service" /\ Goto("listen")

StartWorkers ==
  /\ StartRelay \/ StartConsumers
  /\ UNCHANGED <<attempt, deaf, pool, tables, forced>>

\* Run returns the error of net.Listen, with its workers running, to main.
Listen ==
  /\ At("listen")
  /\ IF portFree THEN Goto("serve") ELSE Exit("failed")
  /\ UNCHANGED <<attempt, deaf, pool, tables, forced>>

\* <-ctx.Done().  billing_service closes the readers of its consumers before
\* the server is told to stop; order_service leaves the relay to its context.
AwaitSignal ==
  /\ At("serve") /\ stopping
  /\ Goto(IF service = "billing_service" THEN "closing" ELSE "draining")
  /\ UNCHANGED <<attempt, deaf, pool, tables, forced>>

CloseConsumers ==
  /\ At("closing")
  /\ Goto("draining")
  /\ UNCHANGED <<attempt, deaf, pool, tables, forced>>

\* Variant: nobody waits for GracefulStop.
StopInTheBackground ==
  /\ At("draining")
  /\ Goto("close")
  /\ UNCHANGED <<attempt, deaf, pool, tables, forced>>

\* Variant: without the deadline.
GracefulStopOnly ==
  /\ At("draining") /\ calls = {}
  /\ Goto("close")
  /\ UNCHANGED <<attempt, deaf, pool, tables, forced>>

\* GracefulStop waits for the calls, or Stop, 30 seconds later, does not.
GracefulStop ==
  /\ At("draining")
  /\ Goto("close")
  /\ \/ calls = {} /\ UNCHANGED forced
     \/ forced' = TRUE
  /\ UNCHANGED <<attempt, deaf, pool, tables>>

\* The DLQ producer (billing_service) and the pool are closed.
CloseDB ==
  /\ At("close") /\ pool
  /\ pool' = FALSE /\ Goto("close")
  /\ UNCHANGED <<attempt, deaf, tables, forced>>

\* Run returns nil, and main returns.
Return ==
  /\ At("close") /\ ~ pool
  /\ Exit("ok")
  /\ UNCHANGED <<attempt, deaf, pool, tables, forced>>

Run ==
  /\ \/ LoadConfig \/ InitDB \/ MigrateOrders \/ MigrateOutbox \/ RunMigrations
     \/ StartWorkers \/ Listen \/ AwaitSignal \/ CloseConsumers \/ GracefulStop
     \/ CloseDB \/ Return
  /\ UNCHANGED <<program, stopping, environment, faults>>

\* A worker takes a batch or a message in hand, which needs a context that is
\* not cancelled and a database that answers, and is done with it in some way.
Work(w) ==
  /\ Started
  /\ \/ w \notin busy /\ ~ stopping /\ pool /\ databaseUp /\ busy' = busy \cup {w}
     \/ w \in busy /\ busy' = busy \ {w}
  /\ UNCHANGED <<program, phase, attempt, stopping, deaf, forced, pool, tables, calls,
                 exit, environment, faults>>

\* A call is accepted; it ends some time, or never.
Serve(c) ==
  /\ \/ Accepting /\ c \notin calls /\ calls' = calls \cup {c}
     \/ c \in calls /\ calls' = calls \ {c}
  /\ UNCHANGED <<program, phase, attempt, stopping, deaf, forced, pool, tables, busy,
                 exit, environment, faults>>

\* SIGTERM, which the runtime sends when the container is to stop.
Signal ==
  /\ ~ At("exited") /\ ~ stopping
  /\ stopping' = TRUE
  /\ UNCHANGED <<program, phase, attempt, deaf, forced, pool, tables, work, exit,
                 environment, faults>>

\* restart: on-failure, unless the container was told to stop.
Restart ==
  /\ At("exited") /\ exit = "failed" /\ ~ stopping
  /\ phase' = "config" /\ exit' = "none" /\ attempt' = 0
  /\ deaf' = FALSE /\ forced' = FALSE /\ pool' = FALSE
  /\ UNCHANGED <<program, stopping, tables, work, environment, faults>>

\* Postgres, or the port, comes back.
Recover ==
  /\ \/ ~ databaseUp /\ databaseUp' = TRUE /\ UNCHANGED portFree
     \/ ~ portFree /\ portFree' = TRUE /\ UNCHANGED databaseUp
  /\ UNCHANGED <<program, phase, attempt, stopping, deaf, forced, pool, tables, work,
                 exit, faults>>

Fault == faults < MaxFaults /\ faults' = faults + 1

Outage ==
  /\ Fault
  /\ \/ databaseUp /\ databaseUp' = FALSE /\ UNCHANGED portFree
     \/ portFree /\ portFree' = FALSE /\ UNCHANGED databaseUp
  /\ UNCHANGED <<program, phase, attempt, stopping, deaf, forced, pool, tables, work, exit>>

Crash ==
  /\ Fault
  /\ ~ At("exited") /\ Exit("failed")
  /\ UNCHANGED <<program, attempt, stopping, deaf, forced, pool, tables, environment>>

\* The error of grpcServer.Serve is logged by its goroutine; Run waits on.
ServeFails ==
  /\ Fault
  /\ Accepting /\ deaf' = TRUE
  /\ UNCHANGED <<program, phase, attempt, stopping, forced, pool, tables, work, exit,
                 environment>>

Next ==
  \/ Run \/ Signal \/ Restart \/ Recover \/ Outage \/ Crash \/ ServeFails
  \/ \E w \in Workers : Work(w)
  \/ \E c \in Calls : Serve(c)

Spec == Init /\ [][Next]_vars

\* Run is scheduled and its timers fire, the runtime restarts what failed, and
\* Postgres and the port come back.  Calls and workers may hang for ever.
FairSpec == Spec /\ WF_vars(Run) /\ WF_vars(Restart) /\ WF_vars(Recover)

-----------------------------------------------------------------------------
\* Start-up order, over crashes and restarts in the middle of a migration: no
\* worker and no call meets a database that lacks one of the service's tables.
TablesBeforeWork == busy # {} \/ calls # {} => tables = Tables

\* Shutdown order: the pool is not closed under a call that GracefulStop waits
\* for, even if it was accepted after the signal.
CallsKeepTheirPool == calls # {} /\ ~ pool => forced

\* SIGTERM stops the service in whatever phase it comes and whatever hangs,
\* during the attempts of InitDB, which do not look at the context, as well.
StopsOnSignal == stopping ~> At("exited")

\* A service that has its variables and is not told to stop comes back to the
\* end of its start-up after every fault: exhausted attempts, failed migrations
\* and a taken port all end in an exit status that has it restarted.
ComesBack == configured => []<>(At("serve") \/ stopping)
=============================================================================
