----------------------------- MODULE Supervisor -----------------------------
(***************************************************************************)
(* The supervisor process of agentd: private_command_supervisor() runs     *)
(* supervisor_run() in a loop.  One round starts every child service in a  *)
(* fixed order, sleeps in supervisor_sighandler_wait() until a signal is   *)
(* caught, stops everything and returns; the next round starts everything  *)
(* again unless SIGTERM was caught or a service could not be started.      *)
(*                                                                         *)
(* Signals are delivered between any two steps.  The handler only clears   *)
(* keep_running on SIGTERM; the wait blocks the signals and then suspends  *)
(* with the old mask, so one that is pending by then ends the wait.  The   *)
(* build without AUTHSERVICE is modelled.                                  *)
(***************************************************************************)
EXTENDS Naturals, Sequences

CONSTANTS
    MaxFaults,      \* bound: services that die by themselves or fail to start
    MaxSignals      \* bound: SIGHUP and SIGTERM sent by the operator

ASSUME BoundAssumption == MaxFaults \in Nat /\ MaxSignals \in Nat

VARIABLES
    pc,             \* where the supervisor is
    step,           \* position in StartOrder or in Program
    running,        \* proc->running of each service
    child,          \* the process of each service, as the kernel sees it
    waiting,        \* inside the waitpid of process_stop_ex / process_kill
    pending,        \* signals caught while blocked
    keep_running,   \* the global flag
    failed,         \* retval of this round is an error
    faults, signals \* counters for the bounds

vars == <<pc, step, running, child, waiting, pending, keep_running, failed,
          faults, signals>>

DataServices == {"data_for_canonization", "data_for_attestation",
                 "data_for_auth_protocol"}

Service == DataServices \union
    {"random", "random_for_canonization", "listener", "notification",
     "protocol", "canonization", "attestation"}

Signal == {"SIGHUP", "SIGTERM", "SIGCHLD"}

\* The data service each service talks to.
DataServiceOf ==
    [canonization |-> "data_for_canonization",
     attestation  |-> "data_for_attestation",
     protocol     |-> "data_for_auth_protocol"]

\* The START_PROCESS lines, in order.
StartOrder == <<"random", "random_for_canonization", "data_for_canonization",
                "data_for_attestation", "data_for_auth_protocol", "listener",
                "notification", "protocol", "canonization", "attestation">>

Stop(s) == [op |-> "stop", svc |-> s]
Kill(s) == [op |-> "kill", svc |-> s]
Dispose(s) == [op |-> "dispose", svc |-> s]

\* Faulty variant: the data services are stopped first.
ProgramDataFirst ==
    <<Stop("data_for_canonization"), Stop("data_for_auth_protocol"),
      Stop("data_for_attestation"),
      Stop("listener"), Stop("protocol"), Stop("canonization"),
      Stop("attestation"), Stop("notification"),
      Stop("random_for_canonization"), Stop("random"),
      Kill("listener"), Kill("protocol"), Kill("canonization"),
      Kill("attestation"), Kill("notification"),
      Dispose("attestation"), Dispose("data_for_attestation"),
      Dispose("canonization"), Dispose("data_for_canonization"),
      Dispose("protocol"), Dispose("notification"),
      Dispose("data_for_auth_protocol"), Dispose("listener"),
      Dispose("random_for_canonization"), Dispose("random")>>

\* What follows the wait, in order: process_stop of the higher-level services,
\* process_kill of some, process_stop of the data services, from the label
\* quiesce_data_processes on, and the CLEANUP_PROCESS lines.
Program ==
    <<Stop("listener"), Stop("protocol"), Stop("canonization"),
      Stop("attestation"), Stop("notification"),
      Stop("random_for_canonization"), Stop("random"),
      Kill("listener"), Kill("protocol"), Kill("canonization"),
      Kill("attestation"), Kill("notification"),
      Stop("data_for_canonization"), Stop("data_for_auth_protocol"),
      Stop("data_for_attestation"),
      Dispose("attestation"), Dispose("data_for_attestation"),
      Dispose("canonization"), Dispose("data_for_canonization"),
      Dispose("protocol"), Dispose("notification"),
      Dispose("data_for_auth_protocol"), Dispose("listener"),
      Dispose("random_for_canonization"), Dispose("random")>>

QuiesceDataProcesses == 13      \* label quiesce_data_processes
CleanupAttestation == 16        \* label cleanup_attestationservice

----------------------------------------------------------------------------

Init ==
    /\ pc = "init"
    /\ step = 1
    /\ running = [s \in Service |-> FALSE]
    /\ child = [s \in Service |-> "none"]
    /\ waiting = FALSE
    /\ pending = {}
    /\ keep_running = FALSE
    /\ failed = FALSE
    /\ faults = 0
    /\ signals = 0

\* private_command_supervisor: the handlers are installed, then the flag is set.
EnterLoop ==
    /\ pc = "init"
    /\ pc' = "start"
    /\ keep_running' = TRUE
    /\ UNCHANGED <<step, running, child, waiting, pending, failed, faults,
                   signals>>

\* A signal reaches the process: it stays pending while it is blocked, and
\* otherwise supervisor_signal_handler runs and ends a sigsuspend.
Deliver(sig) ==
    IF pc = "blocked"
    THEN /\ pending' = pending \union {sig}
         /\ UNCHANGED <<pc, step, keep_running>>
    ELSE /\ keep_running' = (keep_running /\ sig # "SIGTERM")
         /\ pc' = IF pc = "suspended" THEN "stop" ELSE pc
         /\ step' = IF pc = "suspended" THEN 1 ELSE step
         /\ UNCHANGED pending

\* The operator sends SIGHUP or SIGTERM.
OperatorSignal(sig) ==
    /\ pc # "exited"
    /\ signals < MaxSignals
    /\ signals' = signals + 1
    /\ Deliver(sig)
    /\ UNCHANGED <<running, child, waiting, failed, faults>>

\* A service exits by itself; its parent gets SIGCHLD.
ChildDies(s) ==
    /\ pc # "exited"
    /\ child[s] = "alive"
    /\ faults < MaxFaults
    /\ faults' = faults + 1
    /\ child' = [child EXCEPT ![s] = "dead"]
    /\ Deliver("SIGCHLD")
    /\ UNCHANGED <<running, waiting, failed, signals>>

\* A service that was sent SIGTERM leaves its event loop and exits.
ChildTerminates(s) ==
    /\ pc # "exited"
    /\ child[s] = "told"
    /\ child' = [child EXCEPT ![s] = "dead"]
    /\ Deliver("SIGCHLD")
    /\ UNCHANGED <<running, waiting, failed, faults, signals>>

----------------------------------------------------------------------------

\* process_start succeeds for the next service.
ProcessStart ==
    /\ pc = "start"
    /\ child' = [child EXCEPT ![StartOrder[step]] = "alive"]
    /\ running' = [running EXCEPT ![StartOrder[step]] = TRUE]
    /\ step' = step + 1
    /\ pc' = IF step = Len(StartOrder) THEN "wait" ELSE "start"
    /\ UNCHANGED <<waiting, pending, keep_running, failed, faults, signals>>

\* The start of the protocol service can fail after the fork, in the key and
\* entity handshake; the child is then left as it is.  The other start methods
\* stop what they forked.
MayLeaveChild(s) ==
    IF s = "protocol" THEN {"none", "alive"} ELSE {"none"}

\* process_start fails: goto the label of that START_PROCESS line.
ProcessStartFails ==
    /\ pc = "start"
    /\ faults < MaxFaults
    /\ faults' = faults + 1
    /\ \E left \in MayLeaveChild(StartOrder[step]) :
          child' = [child EXCEPT ![StartOrder[step]] = left]
    /\ failed' = TRUE
    /\ pc' = "stop"
    /\ step' = IF step <= 3 THEN CleanupAttestation ELSE QuiesceDataProcesses
    /\ UNCHANGED <<running, waiting, pending, keep_running, signals>>

\* Reading the configuration or creating the sockets and structures fails
\* before any service is started.
SetupFails ==
    /\ pc = "start"
    /\ step = 1
    /\ faults < MaxFaults
    /\ faults' = faults + 1
    /\ failed' = TRUE
    /\ keep_running' = FALSE
    /\ pc' = "exited"
    /\ UNCHANGED <<step, running, child, waiting, pending, signals>>

\* supervisor_sighandler_wait: sigprocmask(SIG_BLOCK).
BlockSignals ==
    /\ pc = "wait"
    /\ pc' = "blocked"
    /\ UNCHANGED <<step, running, child, waiting, pending, keep_running,
                   failed, faults, signals>>

\* supervisor_sighandler_wait: sigsuspend(&oldmask).  What is pending is
\* handled at once and ends the wait.
Sigsuspend ==
    /\ pc = "blocked"
    /\ pending' = {}
    /\ keep_running' = (keep_running /\ "SIGTERM" \notin pending)
    /\ IF pending = {}
       THEN pc' = "suspended" /\ UNCHANGED step
       ELSE pc' = "stop" /\ step' = 1
    /\ UNCHANGED <<running, child, waiting, failed, faults, signals>>

----------------------------------------------------------------------------

At == Program[step]

\* Faulty variant: no dispose method stops the process.
ForgottenByAll == Service

\* supervisor_dispose_notification_service closes sockets and clears the
\* structure; every other dispose method stops the process.
ForgottenByDispose == {"notification"}

\* process_stop, process_kill or dispose of a service that is not running.
SkipStopped ==
    /\ pc = "stop"
    /\ step <= Len(Program)
    /\ ~running[At.svc]
    /\ step' = step + 1
    /\ UNCHANGED <<pc, running, child, waiting, pending, keep_running, failed,
                   faults, signals>>

\* Faulty variant: waits without having sent the signal.
SendNothing ==
    /\ pc = "stop"
    /\ step <= Len(Program)
    /\ running[At.svc]
    /\ ~waiting
    /\ At.op = "dispose" => At.svc \notin ForgottenByDispose
    /\ waiting' = TRUE
    /\ UNCHANGED <<pc, step, running, child, pending, keep_running, failed,
                   faults, signals>>

\* process_stop_ex and process_kill: the signal is sent and waitpid entered.
SendTerm ==
    /\ pc = "stop"
    /\ step <= Len(Program)
    /\ running[At.svc]
    /\ ~waiting
    /\ At.op = "dispose" => At.svc \notin ForgottenByDispose
    /\ waiting' = TRUE
    /\ child' = [child EXCEPT ![At.svc] =
                    IF @ # "alive" THEN @
                    ELSE IF At.op = "kill" THEN "dead" ELSE "told"]
    /\ UNCHANGED <<pc, step, running, pending, keep_running, failed, faults,
                   signals>>

\* Faulty variant: waitpid with WNOHANG, and the service counts as stopped.
ReapNoHang ==
    /\ waiting
    /\ waiting' = FALSE
    /\ running' = [running EXCEPT ![At.svc] = FALSE]
    /\ step' = step + 1
    /\ UNCHANGED <<pc, child, pending, keep_running, failed, faults, signals>>

\* Faulty variant: the service still counts as running.
ReapKeepRunning ==
    /\ waiting
    /\ child[At.svc] = "dead"
    /\ waiting' = FALSE
    /\ child' = [child EXCEPT ![At.svc] = "none"]
    /\ step' = step + 1
    /\ UNCHANGED <<pc, running, pending, keep_running, failed, faults,
                   signals>>

\* waitpid returns: the process is reaped and no longer running.
Reap ==
    /\ waiting
    /\ child[At.svc] = "dead"
    /\ waiting' = FALSE
    /\ child' = [child EXCEPT ![At.svc] = "none"]
    /\ running' = [running EXCEPT ![At.svc] = FALSE]
    /\ step' = step + 1
    /\ UNCHANGED <<pc, pending, keep_running, failed, faults, signals>>

\* The dispose of a service whose process it does not stop.
Forget ==
    /\ pc = "stop"
    /\ step <= Len(Program)
    /\ running[At.svc]
    /\ At.op = "dispose"
    /\ At.svc \in ForgottenByDispose
    /\ running' = [running EXCEPT ![At.svc] = FALSE]
    /\ step' = step + 1
    /\ UNCHANGED <<pc, child, waiting, pending, keep_running, failed, faults,
                   signals>>

\* supervisor_run returns to the loop of private_command_supervisor.
RunReturns ==
    /\ pc = "stop"
    /\ step > Len(Program)
    /\ step' = 1
    /\ keep_running' = (keep_running /\ ~failed)
    /\ pc' = IF keep_running' THEN "start" ELSE "exited"
    /\ UNCHANGED <<running, child, waiting, pending, failed, faults, signals>>

Supervise ==
    \/ EnterLoop
    \/ ProcessStart
    \/ BlockSignals
    \/ Sigsuspend
    \/ SkipStopped
    \/ SendTerm
    \/ Reap
    \/ Forget
    \/ RunReturns

Next ==
    \/ Supervise
    \/ ProcessStartFails
    \/ SetupFails
    \/ \E s \in Service : ChildDies(s) \/ ChildTerminates(s)
    \/ \E sig \in {"SIGHUP", "SIGTERM"} : OperatorSignal(sig)

\* The supervisor keeps running while it can, and a service that was sent
\* SIGTERM exits: every service leaves its event loop on that signal.
Fairness ==
    /\ WF_vars(Supervise)
    /\ \A s \in Service : WF_vars(ChildTerminates(s))

Spec == Init /\ [][Next]_vars /\ Fairness

----------------------------------------------------------------------------

\* Type invariant; the wait for a process is only entered while stopping one.
TypeOK ==
    /\ pc \in {"init", "start", "wait", "blocked", "suspended", "stop",
               "exited"}
    /\ step \in 1 .. Len(Program) + 1
    /\ running \in [Service -> BOOLEAN]
    /\ child \in [Service -> {"none", "alive", "told", "dead"}]
    /\ waiting \in BOOLEAN
    /\ waiting => pc = "stop" /\ step <= Len(Program)
    /\ pending \in SUBSET Signal
    /\ keep_running \in BOOLEAN
    /\ failed \in BOOLEAN
    /\ faults \in 0 .. MaxFaults
    /\ signals \in 0 .. MaxSignals

\* The process id of a running service belongs to a child that has not been
\* reaped: process_stop_ex and process_kill never signal or wait for a process
\* id that the kernel may have given to another process.
SignalsOwnChild ==
    \A s \in Service : running[s] => child[s] # "none"

\* A round starts a service only when no process of it is left from the round
\* before: there is never a second listener, data service or canonization
\* service beside the one being started.
OneProcessPerService ==
    pc = "start" =>
        \A i \in step .. Len(StartOrder) : child[StartOrder[i]] = "none"

\* After the wait, a data service is told to stop only when the service that
\* uses it is gone and reaped, so no client loses its database under it.
DataServiceOutlivesClient ==
    pc = "stop" /\ ~failed =>
        \A s \in DOMAIN DataServiceOf :
            child[DataServiceOf[s]] = "told" => child[s] = "none"

\* A supervisor that stops by request leaves no process behind.  One that gives
\* up because a service did not start can leave only two: the notification
\* service, and a protocol service whose handshake failed.
LeftBehind ==
    pc = "exited" =>
        \A s \in Service :
            child[s] # "none" => failed /\ s \in {"notification", "protocol"}

\* When the structure of a process is disposed, the process is stopped: none
\* is left when the supervisor exits.
DisposeStopsProcess ==
    pc = "exited" => \A s \in Service : child[s] = "none"

\* Once the shutdown has begun it ends, in the next round or in the exit.
\* (supervisor_run, process_stop_ex)
ShutdownEnds ==
    (pc = "stop") ~> (pc = "exited" \/ (pc = "start" /\ keep_running))

\* A service that died is reaped and, with the others, started again, or the
\* supervisor exits.
DeadServiceReplaced ==
    \A s \in Service :
        (child[s] = "dead") ~> (child[s] # "dead" \/ pc = "exited")

=============================================================================
