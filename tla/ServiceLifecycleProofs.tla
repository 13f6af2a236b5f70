----------------------- MODULE ServiceLifecycleProofs -----------------------
(***************************************************************************)
(* ServiceLifecycle, proved for both programs and any number of calls,     *)
(* connection attempts and faults.                                         *)
(*                                                                         *)
(* Both properties of the work are about two ends of the life of the       *)
(* process, so the invariant says for each phase of Run what it has behind *)
(* it: PhaseHasTables, PhaseHasPool, and WorkHasPhase, which ties workers  *)
(* and calls to the phases they can be met in.                             *)
(***************************************************************************)
EXTENDS ServiceLifecycle, TLAPS

\* The connection attempts that are left.
AttemptsAreLeft == phase \in {"config", "connect"} => attempt < MaxAttempts

\* The migrations that Run has behind it.
PhaseHasTables ==
  /\ phase = "outbox" => service = "order_service" /\ "orders" \in tables
  /\ phase = "start" \/ Started => tables = Tables

\* Workers exist after their go statements, calls while there is a server.
WorkHasPhase ==
  /\ busy # {} => Started
  /\ calls # {} => phase \in {"serve", "closing", "draining", "close"}

\* The pool is open from InitDB to the end of the shutdown; what is in flight
\* by then is what Stop left behind.
PhaseHasPool ==
  /\ phase \in {"migrate", "outbox", "start", "listen", "serve", "closing", "draining"} => pool
  /\ phase = "close" => calls = {} \/ forced

IInv ==
  /\ TypeOK
  /\ AttemptsAreLeft
  /\ PhaseHasTables
  /\ WorkHasPhase
  /\ PhaseHasPool

-----------------------------------------------------------------------------
LEMMA InitIInv == Init => IInv
<1> SUFFICES ASSUME Init PROVE IInv
  OBVIOUS
<1>1. attempt = 0 /\ attempt < MaxAttempts /\ attempt \in 0 .. MaxAttempts /\ faults \in 0 .. MaxFaults
  BY LifecycleAssumption DEF Init
<1>2. TypeOK
  BY <1>1 DEF Init, TypeOK, Phases
<1> QED
  BY <1>1, <1>2 DEF Init, IInv, AttemptsAreLeft, PhaseHasTables, WorkHasPhase, PhaseHasPool, Started

\* Whatever phase it is in, a process that ends leaves no work behind.
LEMMA ExitIInv ==
  ASSUME IInv, NEW code \in {"ok", "failed"}, Exit(code),
         UNCHANGED <<service, configured, tables>>,
         attempt' \in 0 .. MaxAttempts, faults' \in 0 .. MaxFaults,
         {stopping', deaf', forced', pool'} \subseteq BOOLEAN,
         {databaseUp', portFree'} \subseteq BOOLEAN
  PROVE  IInv'
<1>1. phase' = "exited" /\ busy' = {} /\ calls' = {} /\ exit' \in {"none", "ok", "failed"}
  BY DEF Exit
<1>2. TypeOK'
  BY <1>1 DEF IInv, TypeOK, Phases, Tables, Workers
<1> QED
  BY <1>1, <1>2 DEF IInv, AttemptsAreLeft, PhaseHasTables, WorkHasPhase, PhaseHasPool, Started

\* Run goes from one phase to the next, or returns: every step finds what the
\* new phase must have behind it.
LEMMA RunIInv ==
  ASSUME IInv, Run
  PROVE  IInv'
<1>1. UNCHANGED <<service, configured, stopping, databaseUp, portFree, faults>>
  BY DEF Run, program, environment
<1> USE <1>1 DEF IInv, TypeOK, AttemptsAreLeft, PhaseHasTables, WorkHasPhase, PhaseHasPool,
                 Phases, Started, Tables, Workers, At, Goto, work
<1>2. CASE LoadConfig
  BY <1>2 DEF LoadConfig, Exit
<1>3. CASE InitDB
  <2>1. CASE databaseUp
    BY <1>3, <2>1 DEF InitDB
  <2>2. CASE ~ databaseUp
    <3>1. attempt' = attempt + 1 /\ attempt' \in 0 .. MaxAttempts
      BY <1>3, <2>2, LifecycleAssumption DEF InitDB
    <3>2. CASE attempt' < MaxAttempts
      BY <1>3, <2>2, <3>1, <3>2 DEF InitDB
    <3>3. CASE ~ (attempt' < MaxAttempts)
      <4>1. Exit("failed") /\ UNCHANGED <<tables, deaf, forced, pool>>
        BY <1>3, <2>2, <3>3 DEF InitDB
      <4> QED
        BY <3>1, <4>1, ExitIInv
    <3> QED
      BY <3>2, <3>3
  <2> QED
    BY <2>1, <2>2
<1>4. CASE MigrateOrders
  BY <1>4 DEF MigrateOrders, AutoMigrate, Exit
<1>5. CASE MigrateOutbox
  BY <1>5 DEF MigrateOutbox, AutoMigrate, Exit
<1>6. CASE RunMigrations
  BY <1>6 DEF RunMigrations, AutoMigrate, Exit
<1>7. CASE StartWorkers
  BY <1>7 DEF StartWorkers, StartRelay, StartConsumers
<1>8. CASE Listen
  BY <1>8 DEF Listen, Exit
<1>9. CASE AwaitSignal
  BY <1>9 DEF AwaitSignal
<1>10. CASE CloseConsumers
  BY <1>10 DEF CloseConsumers
<1>11. CASE GracefulStop
  BY <1>11 DEF GracefulStop
<1>12. CASE CloseDB
  BY <1>12 DEF CloseDB
<1>13. CASE Return
  BY <1>13 DEF Return, Exit
<1> QED
  BY <1>2, <1>3, <1>4, <1>5, <1>6, <1>7, <1>8, <1>9, <1>10, <1>11, <1>12, <1>13 DEF Run

\* A worker starts work in a phase that has workers.
LEMMA WorkIInv ==
  ASSUME IInv, NEW w \in Workers, Work(w)
  PROVE  IInv'
  BY DEF Work, program, environment, IInv, TypeOK, AttemptsAreLeft, PhaseHasTables, WorkHasPhase,
         PhaseHasPool, Started, Tables, Workers

\* A call is accepted in a phase that has a server, and not in the last one.
LEMMA ServeIInv ==
  ASSUME IInv, NEW c \in Calls, Serve(c)
  PROVE  IInv'
  BY DEF Serve, Accepting, program, environment, IInv, TypeOK, AttemptsAreLeft, PhaseHasTables,
         WorkHasPhase, PhaseHasPool, Started, Tables, Workers

\* The runtime, Postgres and the network.
LEMMA OutsideIInv ==
  ASSUME IInv, Signal \/ Restart \/ Recover \/ Outage \/ Crash \/ ServeFails
  PROVE  IInv'
<1>1. CASE Signal
  BY <1>1 DEF Signal, At, program, environment, work, IInv, TypeOK, AttemptsAreLeft,
              PhaseHasTables, WorkHasPhase, PhaseHasPool, Started, Tables, Workers
<1>2. CASE Restart
  <2>1. attempt' = 0 /\ 0 \in 0 .. MaxAttempts /\ 0 < MaxAttempts
    BY <1>2, LifecycleAssumption DEF Restart
  <2>2. /\ phase = "exited" /\ phase' = "config" /\ exit' = "none"
        /\ deaf' = FALSE /\ forced' = FALSE /\ pool' = FALSE
        /\ UNCHANGED <<service, configured, stopping, tables, busy, calls, databaseUp, portFree, faults>>
    BY <1>2 DEF Restart, At, program, work, environment
  <2> QED
    BY <2>1, <2>2 DEF IInv, TypeOK, AttemptsAreLeft, PhaseHasTables, WorkHasPhase, PhaseHasPool,
                      Phases, Started, Tables, Workers
<1>3. CASE Recover
  BY <1>3 DEF Recover, program, work, IInv, TypeOK, AttemptsAreLeft,
              PhaseHasTables, WorkHasPhase, PhaseHasPool, Started, Tables, Workers
<1>4. ASSUME Fault PROVE faults' \in 0 .. MaxFaults
  BY <1>4, LifecycleAssumption DEF Fault, IInv, TypeOK
<1>5. CASE Outage
  BY <1>4, <1>5 DEF Outage, program, work, IInv, TypeOK, AttemptsAreLeft,
                    PhaseHasTables, WorkHasPhase, PhaseHasPool, Started, Tables, Workers
<1>6. CASE Crash
  <2>1. /\ faults' \in 0 .. MaxFaults /\ Exit("failed")
        /\ UNCHANGED <<service, configured, tables, attempt, stopping, deaf, forced, pool,
                       databaseUp, portFree>>
    BY <1>4, <1>6 DEF Crash, program, environment
  <2> QED
    BY <2>1, ExitIInv DEF IInv, TypeOK
<1>7. CASE ServeFails
  BY <1>4, <1>7 DEF ServeFails, program, environment, work, IInv, TypeOK, AttemptsAreLeft,
                    PhaseHasTables, WorkHasPhase, PhaseHasPool, Started, Tables, Workers
<1> QED
  BY <1>1, <1>2, <1>3, <1>5, <1>6, <1>7

LEMMA NextIInv == IInv /\ [Next]_vars => IInv'
<1> SUFFICES ASSUME IInv, [Next]_vars PROVE IInv'
  OBVIOUS
<1>1. CASE UNCHANGED vars
  BY <1>1 DEF vars, program, environment, work, IInv, TypeOK, AttemptsAreLeft,
              PhaseHasTables, WorkHasPhase, PhaseHasPool, Started, Tables, Workers
<1>2. CASE Run
  BY <1>2, RunIInv
<1>3. CASE Signal \/ Restart \/ Recover \/ Outage \/ Crash \/ ServeFails
  BY <1>3, OutsideIInv
<1>4. CASE \E w \in Workers : Work(w)
  BY <1>4, WorkIInv
<1>5. CASE \E c \in Calls : Serve(c)
  BY <1>5, ServeIInv
<1> QED
  BY <1>1, <1>2, <1>3, <1>4, <1>5 DEF Next

-----------------------------------------------------------------------------
\* The state of the process stays well-typed: InitDB makes no attempt more
\* than it has, and no program meets a table or a worker of the other.
THEOREM LifecycleTypeCorrect == Spec => []TypeOK
<1>1. IInv => TypeOK
  BY DEF IInv
<1> QED
  BY <1>1, InitIInv, NextIInv, PTL DEF Spec

\* Run starts its workers and its server behind the migrations: whatever
\* crashed and was restarted before, work finds every table.
THEOREM TablesFirst == Spec => []TablesBeforeWork
<1>1. IInv => TablesBeforeWork
  BY DEF IInv, TablesBeforeWork, WorkHasPhase, PhaseHasTables, Started
<1> QED
  BY <1>1, InitIInv, NextIInv, PTL DEF Spec

\* Run closes the pool behind GracefulStop: a call without a pool is one that
\* Stop left behind after the 30 seconds.
THEOREM PoolClosedLast == Spec => []CallsKeepTheirPool
<1>1. IInv => CallsKeepTheirPool
  BY DEF IInv, TypeOK, CallsKeepTheirPool, WorkHasPhase, PhaseHasPool
<1> QED
  BY <1>1, InitIInv, NextIInv, PTL DEF Spec
=============================================================================
