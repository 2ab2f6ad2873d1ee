-------------------------- MODULE SupervisorProofs --------------------------
(***************************************************************************)
(* Proofs of the safety properties of Supervisor, for any number of        *)
(* signals, deaths and failed starts.                                      *)
(*                                                                         *)
(* None of the properties is inductive.  A round may only start a service  *)
(* because the round before has stopped it, and that follows from where    *)
(* the supervisor is in its program: a service that still runs is named    *)
(* by an entry that is still to come.                                      *)
(***************************************************************************)
EXTENDS Supervisor, TLAPS

\* A service that runs is still to be stopped or disposed of.
StillToCome ==
    pc = "stop" =>
        \A s \in Service : running[s] =>
            \E j \in step .. 25 : Program[j].svc = s

\* After the wait it is still to be stopped, before the first dispose.
StillToStop ==
    pc = "stop" /\ ~failed =>
        \A s \in Service : running[s] =>
            \E j \in step .. 15 : Program[j] = Stop(s)

NotStartedYet ==
    pc = "start" =>
        /\ step <= 10
        /\ \A i \in step .. 10 : ~running[StartOrder[i]]

IndInv ==
    /\ TypeOK
    /\ SignalsOwnChild
    /\ failed => pc \in {"stop", "exited"}
    /\ pc = "init" => step = 1
    /\ pc \in {"init", "exited"} => \A s \in Service : ~running[s]
    /\ \A s \in Service :
         child[s] # "none" /\ ~running[s] => failed /\ s \in {"notification", "protocol"}
    /\ waiting => /\ running[At.svc]
                  /\ At.op = "dispose" => At.svc \notin ForgottenByDispose
    /\ \A s \in Service : child[s] = "told" => waiting /\ At.svc = s
    /\ NotStartedYet
    /\ StillToCome
    /\ StillToStop
-----------------------------------------------------------------------------
\* Every service is started once.  (supervisor_run)
LEMMA StartFacts ==
    /\ Len(StartOrder) = 10
    /\ \A i \in 1 .. 10 : StartOrder[i] \in Service
    /\ \A i, j \in 1 .. 10 : StartOrder[i] = StartOrder[j] => i = j
    /\ \A s \in Service : \E i \in 1 .. 10 : StartOrder[i] = s
  BY DEF StartOrder, Service, DataServices

\* Every service has a stop entry, and behind all of them a dispose entry.
\* (supervisor_run)
LEMMA ProgramFacts ==
    /\ Len(Program) = 25
    /\ \A j \in 1 .. 25 : Program[j].svc \in Service
    /\ \A s \in Service : \E j \in 1 .. 15 : Program[j] = Stop(s)
    /\ \A s \in Service : \E j \in 16 .. 25 : Program[j].svc = s
    /\ \A j \in 16 .. 25 : Program[j].op = "dispose"
    /\ \A j \in 1 .. 15 : Program[j].op # "dispose"
  BY DEF Program, Stop, Kill, Dispose, Service, DataServices
-----------------------------------------------------------------------------
\* Nothing runs when the supervisor begins.
LEMMA InitInv == Init => IndInv
<1> SUFFICES ASSUME Init PROVE IndInv
  OBVIOUS
<1>1. /\ step \in 1 .. Len(Program) + 1
      /\ faults \in 0 .. MaxFaults /\ signals \in 0 .. MaxSignals
  BY BoundAssumption, ProgramFacts DEF Init
<1>2. running \in [Service -> BOOLEAN] /\ \A s \in Service : ~running[s] /\ child[s] = "none"
  BY Zenon DEF Init
<1>3. child \in [Service -> {"none", "alive", "told", "dead"}]
  BY DEF Init
<1>4. TypeOK
  BY <1>1, <1>2, <1>3, Zenon DEF Init, TypeOK
<1>5. QED
  BY <1>2, <1>4 DEF Init, IndInv, SignalsOwnChild, NotStartedYet, StillToCome, StillToStop

\* A signal moves the supervisor only from the suspension to the first entry.
LEMMA DeliverStep ==
    ASSUME IndInv, NEW sig \in Signal, Deliver(sig)
    PROVE  /\ (pc' = pc /\ step' = step) \/ (pc = "suspended" /\ pc' = "stop" /\ step' = 1)
           /\ pending' \in SUBSET Signal /\ keep_running' \in BOOLEAN
<1>1. pending' \in SUBSET Signal
  BY DEF IndInv, TypeOK, Deliver
<1>2. keep_running' \in BOOLEAN
  BY Zenon DEF IndInv, TypeOK, Deliver
<1>3. (pc' = pc /\ step' = step) \/ (pc = "suspended" /\ pc' = "stop" /\ step' = 1)
  BY Zenon DEF Deliver
<1>4. QED
  BY <1>1, <1>2, <1>3

\* Deliveries that leave the processes as they are, or let one of them die.
LEMMA DeliverInv ==
    ASSUME IndInv, NEW sig \in Signal, Deliver(sig), pc # "exited",
           UNCHANGED <<running, waiting, failed>>,
           faults' \in 0 .. MaxFaults, signals' \in 0 .. MaxSignals,
           \/ UNCHANGED child
           \/ \E s \in Service : child[s] # "none" /\ child' = [child EXCEPT ![s] = "dead"]
    PROVE  IndInv'
<1>1. TypeOK'
  BY DeliverStep, ProgramFacts DEF IndInv, TypeOK
<1>2. \A s \in Service : (child'[s] # "none" <=> child[s] # "none")
                         /\ (child'[s] = "told" => child[s] = "told")
  BY DEF IndInv, TypeOK
<1>3. /\ waiting' => /\ running'[At'.svc]
                     /\ At'.op = "dispose" => At'.svc \notin ForgottenByDispose
      /\ \A s \in Service : child'[s] = "told" => waiting' /\ At'.svc = s
  BY <1>2, DeliverStep DEF IndInv, TypeOK, At
<1>4. NotStartedYet' /\ StillToCome' /\ StillToStop'
  <2>1. CASE pc' = pc /\ step' = step
    BY <2>1 DEF IndInv, NotStartedYet, StillToCome, StillToStop
  <2>2. CASE pc = "suspended" /\ pc' = "stop" /\ step' = 1
    <3>1. \A s \in Service : /\ \E j \in 1 .. 15 : Program[j] = Stop(s)
                             /\ \E j \in 1 .. 25 : Program[j].svc = s
      BY ProgramFacts
    <3>2. QED
      BY <2>2, <3>1 DEF NotStartedYet, StillToCome, StillToStop
  <2>3. QED
    BY <2>1, <2>2, DeliverStep
<1>5. QED
  BY <1>1, <1>2, <1>3, <1>4, DeliverStep DEF IndInv, SignalsOwnChild

\* The entry at "step" is done with: it named a service that does not run now.
LEMMA Advance ==
    ASSUME IndInv, pc = "stop", pc' = "stop", step \in 1 .. 25, step' = step + 1,
           failed' = failed, running' \in [Service -> BOOLEAN],
           \A s \in Service : running'[s] => running[s],
           ~running'[At.svc]
    PROVE  NotStartedYet' /\ StillToCome' /\ StillToStop'
<1>1. \A s \in Service, j \in step .. 25 : running'[s] /\ Program[j].svc = s => j \in step + 1 .. 25
  BY DEF At
<1>2. \A s \in Service : Stop(s).svc = s
  BY DEF Stop
<1>3. StillToCome'
  BY <1>1 DEF IndInv, StillToCome
<1>4. StillToStop'
  <2> SUFFICES ASSUME ~failed, NEW s \in Service, running'[s]
               PROVE  \E j \in step + 1 .. 15 : Program[j] = Stop(s)
    BY DEF StillToStop
  <2>1. PICK j \in step .. 15 : Program[j] = Stop(s)
    BY DEF IndInv, StillToStop
  <2>2. j \in step + 1 .. 25
    BY <1>1, <1>2, <2>1
  <2>3. QED
    BY <2>1, <2>2
<1>5. QED
  BY <1>3, <1>4 DEF NotStartedYet
-----------------------------------------------------------------------------
\* A service is started.  (process_start)
LEMMA ProcessStartInv == ASSUME IndInv, ProcessStart PROVE IndInv'
<1> DEFINE svc == StartOrder[step]
<1>1. /\ pc = "start" /\ step \in 1 .. 10 /\ svc \in Service /\ ~failed
      /\ \A i \in step + 1 .. 10 : StartOrder[i] # svc /\ StartOrder[i] \in Service
  <2>1. /\ pc = "start" /\ step \in Nat /\ step >= 1 /\ step <= 10
        /\ failed => pc \in {"stop", "exited"}
    BY DEF IndInv, TypeOK, NotStartedYet, ProcessStart
  <2>2. step \in 1 .. 10
    BY <2>1
  <2> QED BY <2>1, <2>2, StartFacts
<1>2. /\ running' \in [Service -> BOOLEAN] /\ running'[svc]
      /\ \A s \in Service \ {svc} : running'[s] = running[s]
  <2>1. running \in [Service -> BOOLEAN] /\ running' = [running EXCEPT ![svc] = TRUE]
    BY DEF IndInv, TypeOK, ProcessStart
  <2> HIDE DEF svc
  <2> QED BY <1>1, <2>1
<1>3. /\ child' \in [Service -> {"none", "alive", "told", "dead"}] /\ child'[svc] = "alive"
      /\ \A s \in Service \ {svc} : child'[s] = child[s]
  <2>1. /\ child \in [Service -> {"none", "alive", "told", "dead"}]
        /\ child' = [child EXCEPT ![svc] = "alive"]
    BY DEF IndInv, TypeOK, ProcessStart
  <2> HIDE DEF svc
  <2> QED BY <1>1, <2>1
<1>4. step' = step + 1 /\ pc' = IF step = 10 THEN "wait" ELSE "start"
  BY StartFacts DEF ProcessStart
<1> HIDE DEF svc
<1>5. TypeOK'
  <2>1. ~waiting /\ UNCHANGED <<waiting, pending, keep_running, failed, faults, signals>>
    BY <1>1 DEF IndInv, TypeOK, ProcessStart
  <2>2. step' \in 1 .. Len(Program) + 1 /\ pc' \in {"wait", "start"}
    BY <1>1, <1>4, ProgramFacts
  <2>3. QED
    BY <1>2, <1>3, <2>1, <2>2 DEF IndInv, TypeOK
<1>6. ~waiting /\ ~waiting' /\ \A s \in Service : child[s] # "told"
  BY <1>1 DEF IndInv, TypeOK, ProcessStart
<1>7. NotStartedYet'
  BY <1>1, <1>2, <1>4 DEF IndInv, NotStartedYet
<1>8. QED
  BY <1>1, <1>2, <1>3, <1>4, <1>5, <1>6, <1>7
  DEF IndInv, SignalsOwnChild, StillToCome, StillToStop, ProcessStart

\* A service cannot be started: the cleanup begins.
LEMMA ProcessStartFailsInv == ASSUME IndInv, ProcessStartFails PROVE IndInv'
<1> DEFINE svc == StartOrder[step]
<1>1. /\ pc = "start" /\ step \in 1 .. 10 /\ svc \in Service /\ ~running[svc] /\ ~failed
  BY StartFacts DEF IndInv, TypeOK, NotStartedYet, ProcessStartFails
<1>2. PICK left \in MayLeaveChild(svc) : child' = [child EXCEPT ![svc] = left]
  BY DEF ProcessStartFails
<1>3. left \in {"none", "alive"} /\ (left = "none" \/ svc = "protocol")
  BY <1>2 DEF MayLeaveChild
<1> HIDE DEF svc
<1>4. /\ child' \in [Service -> {"none", "alive", "told", "dead"}] /\ child'[svc] = left
      /\ \A s \in Service \ {svc} : child'[s] = child[s]
  BY <1>1, <1>2, <1>3 DEF IndInv, TypeOK
<1>5. pc' = "stop" /\ failed' /\ running' = running /\ waiting' = waiting /\ step' \in {13, 16}
  BY DEF ProcessStartFails, CleanupAttestation, QuiesceDataProcesses
<1>6. faults' \in 0 .. MaxFaults
  BY BoundAssumption DEF IndInv, TypeOK, ProcessStartFails
<1>7. failed' \in BOOLEAN
  BY Zenon DEF ProcessStartFails
<1>8. TypeOK'
  BY <1>1, <1>4, <1>5, <1>6, <1>7, ProgramFacts DEF IndInv, TypeOK, ProcessStartFails
<1>9. ~waiting /\ \A s \in Service : child[s] # "told"
  BY <1>1 DEF IndInv, TypeOK
<1>10. StillToCome'
  <2>1. \A s \in Service : \E j \in 16 .. 25 : Program[j].svc = s
    BY ProgramFacts
  <2>2. QED
    BY <1>5, <2>1 DEF StillToCome
<1>11. QED
  BY <1>1, <1>3, <1>4, <1>5, <1>8, <1>9, <1>10
  DEF IndInv, SignalsOwnChild, NotStartedYet, StillToStop

\* The supervisor fails before any service is started.
LEMMA SetupFailsInv == ASSUME IndInv, SetupFails PROVE IndInv'
<1>1. \A s \in Service : ~running[s]
  BY StartFacts DEF IndInv, NotStartedYet, SetupFails
<1>2. faults' \in 0 .. MaxFaults
  BY BoundAssumption DEF IndInv, TypeOK, SetupFails
<1>3. failed' \in BOOLEAN /\ keep_running' \in BOOLEAN
  BY Zenon DEF SetupFails
<1>4. ~failed /\ ~waiting /\ pc' = "exited" /\ \A s \in Service : child[s] = "none"
  BY <1>1 DEF IndInv, TypeOK, SetupFails
<1>5. TypeOK'
  BY <1>2, <1>3, <1>4 DEF IndInv, TypeOK, SetupFails
<1>6. QED
  BY <1>1, <1>4, <1>5
  DEF IndInv, SetupFails, SignalsOwnChild, NotStartedYet, StillToCome, StillToStop
-----------------------------------------------------------------------------
\* What the steps of the program share.
LEMMA StopFacts ==
    ASSUME IndInv, pc = "stop", step <= Len(Program)
    PROVE  /\ step \in 1 .. 25 /\ At.svc \in Service
           /\ waiting => /\ running[At.svc]
                         /\ At.op = "dispose" => At.svc \notin ForgottenByDispose
           /\ \A s \in Service : child[s] = "told" => waiting /\ At.svc = s
  BY ProgramFacts DEF IndInv, TypeOK, At

\* An entry for a service that does not run is passed over.  (process_stop_ex)
LEMMA SkipStoppedInv == ASSUME IndInv, SkipStopped PROVE IndInv'
<1>1. /\ pc = "stop" /\ pc' = "stop" /\ step <= Len(Program) /\ step' = step + 1
      /\ ~running[At.svc]
      /\ UNCHANGED <<running, child, waiting, pending, keep_running, failed, faults, signals>>
  BY DEF SkipStopped
<1>2. step \in 1 .. 25 /\ ~waiting /\ \A s \in Service : child[s] # "told"
  BY <1>1, StopFacts
<1>3. TypeOK'
  BY <1>1, <1>2, ProgramFacts DEF IndInv, TypeOK
<1>4. running \in [Service -> BOOLEAN]
  BY DEF IndInv, TypeOK
<1>5. NotStartedYet' /\ StillToCome' /\ StillToStop'
  BY <1>1, <1>2, <1>4, Advance
<1>6. QED
  BY <1>1, <1>2, <1>3, <1>5 DEF IndInv, SignalsOwnChild

\* The process of an entry is told to terminate.  (process_stop_ex)
LEMMA SendTermInv == ASSUME IndInv, SendTerm PROVE IndInv'
<1>1. /\ pc = "stop" /\ step <= Len(Program) /\ running[At.svc] /\ ~waiting /\ waiting'
      /\ UNCHANGED <<pc, step, running, pending, keep_running, failed, faults, signals>>
      /\ waiting' \in BOOLEAN
  BY DEF SendTerm
<1>2. step \in 1 .. 25 /\ At.svc \in Service /\ \A s \in Service : child[s] # "told"
  BY <1>1, StopFacts
<1> DEFINE svc == At.svc
           to == IF child[svc] # "alive" THEN child[svc]
                 ELSE IF At.op = "kill" THEN "dead" ELSE "told"
<1>3. child' = [child EXCEPT ![svc] = to]
  BY DEF SendTerm
<1>4. child[svc] \in {"none", "alive", "dead"} /\ child[svc] # "none"
  BY <1>1, <1>2 DEF IndInv, TypeOK, SignalsOwnChild
<1>5. to \in {"alive", "told", "dead"}
  BY <1>4
<1> HIDE DEF svc, to
<1>6. /\ child' \in [Service -> {"none", "alive", "told", "dead"}] /\ child'[svc] = to
      /\ \A s \in Service \ {svc} : child'[s] = child[s]
  BY <1>2, <1>3, <1>5 DEF IndInv, TypeOK, svc
<1>7. TypeOK'
  BY <1>1, <1>6 DEF IndInv, TypeOK
<1>8. At' = At
  BY <1>1 DEF At
<1>9. /\ running'[At'.svc]
      /\ At'.op = "dispose" => At'.svc \notin ForgottenByDispose
      /\ \A s \in Service : child'[s] = "told" => waiting' /\ At'.svc = s
  BY <1>1, <1>2, <1>6, <1>8 DEF svc, SendTerm
<1>10. /\ SignalsOwnChild'
       /\ \A s \in Service :
            child'[s] # "none" /\ ~running'[s] => failed' /\ s \in {"notification", "protocol"}
  BY <1>1, <1>2, <1>5, <1>6 DEF IndInv, SignalsOwnChild, svc
<1>11. QED
  BY <1>1, <1>7, <1>9, <1>10 DEF IndInv, NotStartedYet, StillToCome, StillToStop

\* The process that was waited for is reaped.  (process_stop_ex)
LEMMA ReapInv == ASSUME IndInv, Reap PROVE IndInv'
<1>1. /\ pc = "stop" /\ step <= Len(Program) /\ waiting /\ pc' = "stop" /\ step' = step + 1
      /\ UNCHANGED <<pending, keep_running, failed, faults, signals>>
  BY DEF IndInv, TypeOK, Reap
<1>2. step \in 1 .. 25 /\ At.svc \in Service
  BY <1>1, StopFacts
<1> DEFINE svc == At.svc
<1>3. waiting' = FALSE
  BY DEF Reap
<1>4. /\ child' \in [Service -> {"none", "alive", "told", "dead"}] /\ child'[svc] = "none"
      /\ \A s \in Service \ {svc} : child'[s] = child[s]
  BY <1>2 DEF IndInv, TypeOK, Reap
<1>5. /\ running' \in [Service -> BOOLEAN] /\ ~running'[svc]
      /\ \A s \in Service \ {svc} : running'[s] = running[s]
  BY <1>2 DEF IndInv, TypeOK, Reap
<1>6. TypeOK'
  <2>1. step' \in 1 .. Len(Program) + 1
    BY <1>1, <1>2, ProgramFacts
  <2>2. QED
    BY <1>1, <1>3, <1>4, <1>5, <2>1 DEF IndInv, TypeOK
<1>7. NotStartedYet' /\ StillToCome' /\ StillToStop'
  BY <1>1, <1>2, <1>5, Advance
<1>8. \A s \in Service : child'[s] # "told"
  BY <1>1, <1>2, <1>4, StopFacts
<1>9. QED
  BY <1>1, <1>2, <1>3, <1>4, <1>5, <1>6, <1>7, <1>8 DEF IndInv, SignalsOwnChild

\* Only a round that failed to start disposes of a service that still runs.
LEMMA ForgetInv == ASSUME IndInv, Forget PROVE IndInv'
<1>1. /\ pc = "stop" /\ step <= Len(Program) /\ pc' = "stop" /\ step' = step + 1
      /\ running[At.svc] /\ At.op = "dispose" /\ At.svc = "notification"
      /\ UNCHANGED <<child, waiting, pending, keep_running, failed, faults, signals>>
  BY DEF Forget, ForgottenByDispose
<1>2. step \in 1 .. 25 /\ At.svc \in Service
  BY <1>1, StopFacts
<1>3. failed
  <2>1. step \in 16 .. 25
    BY <1>1, <1>2, ProgramFacts DEF At
  <2>2. QED
    BY <1>1, <1>2, <2>1 DEF IndInv, StillToStop
<1>4. ~waiting /\ \A s \in Service : child[s] # "told"
  BY <1>1, StopFacts DEF ForgottenByDispose
<1>5. /\ running' \in [Service -> BOOLEAN] /\ ~running'[At.svc]
      /\ \A s \in Service \ {At.svc} : running'[s] = running[s]
  BY <1>2 DEF IndInv, TypeOK, Forget
<1>6. step' \in 1 .. Len(Program) + 1
  BY <1>1, <1>2, ProgramFacts
<1>7. TypeOK'
  BY <1>1, <1>4, <1>5, <1>6 DEF IndInv, TypeOK
<1>8. NotStartedYet' /\ StillToCome' /\ StillToStop'
  BY <1>1, <1>2, <1>5, Advance
<1>9. QED
  BY <1>1, <1>2, <1>3, <1>4, <1>5, <1>7, <1>8 DEF IndInv, SignalsOwnChild

\* The program is at its end: nothing runs any more, and after a round that did
\* not fail no process is left.
LEMMA RunReturnsInv == ASSUME IndInv, RunReturns PROVE IndInv'
<1>1. /\ pc = "stop" /\ step = 26 /\ step' = 1 /\ ~waiting
      /\ UNCHANGED <<running, child, waiting, pending, failed, faults, signals>>
  BY ProgramFacts DEF IndInv, TypeOK, RunReturns
<1>2. \A s \in Service : ~running[s]
  BY <1>1 DEF IndInv, StillToCome
<1>3. keep_running' \in BOOLEAN /\ (keep_running' => ~failed)
  BY Zenon DEF IndInv, TypeOK, RunReturns
<1>4. pc' \in {"start", "exited"} /\ (pc' = "start" => ~failed)
  BY <1>3 DEF RunReturns
<1>5. TypeOK'
  BY <1>1, <1>3, <1>4, ProgramFacts DEF IndInv, TypeOK
<1>6. \A s \in Service : child[s] # "told"
  BY <1>1 DEF IndInv
<1>7. NotStartedYet'
  BY <1>1, <1>2, StartFacts DEF NotStartedYet
<1>8. QED
  BY <1>1, <1>2, <1>4, <1>5, <1>6, <1>7 DEF IndInv, SignalsOwnChild, StillToCome, StillToStop

\* The wait, on whose end the program starts from its first entry.
LEMMA WaitInv ==
    ASSUME IndInv, EnterLoop \/ BlockSignals \/ Sigsuspend PROVE IndInv'
<1>1. /\ ~waiting /\ ~failed /\ pc \in {"init", "wait", "blocked"}
      /\ UNCHANGED <<running, child, waiting, failed, faults, signals>>
  BY DEF IndInv, TypeOK, EnterLoop, BlockSignals, Sigsuspend
<1>2. pending' \in SUBSET Signal
  BY DEF IndInv, TypeOK, EnterLoop, BlockSignals, Sigsuspend
<1>3. keep_running' \in BOOLEAN
  BY Zenon DEF IndInv, TypeOK, EnterLoop, BlockSignals, Sigsuspend
<1>4. \/ pc = "init" /\ pc' = "start" /\ step' = step
      \/ pc' \in {"blocked", "suspended"} /\ step' = step
      \/ pc' = "stop" /\ step' = 1
  BY DEF EnterLoop, BlockSignals, Sigsuspend
<1>5. TypeOK'
  BY <1>1, <1>2, <1>3, <1>4, ProgramFacts DEF IndInv, TypeOK
<1>6. \A s \in Service : child[s] # "told"
  BY <1>1 DEF IndInv
<1>7. pc = "init" => step = 1
  BY DEF IndInv
<1>8. NotStartedYet'
  BY <1>1, <1>4, <1>7, StartFacts DEF IndInv, NotStartedYet
<1>9. StillToCome' /\ StillToStop'
  <2>1. \A s \in Service : /\ \E j \in 1 .. 15 : Program[j] = Stop(s)
                           /\ \E j \in 1 .. 25 : Program[j].svc = s
    BY ProgramFacts
  <2>2. QED
    BY <1>4, <2>1 DEF StillToCome, StillToStop
<1>10. QED
  BY <1>1, <1>4, <1>5, <1>6, <1>8, <1>9 DEF IndInv, SignalsOwnChild
-----------------------------------------------------------------------------
\* Every step preserves the invariant.
LEMMA StepInv == IndInv /\ [Next]_vars => IndInv'
<1> SUFFICES ASSUME IndInv, [Next]_vars PROVE IndInv'
  OBVIOUS
<1>1. CASE EnterLoop \/ BlockSignals \/ Sigsuspend
  BY <1>1, WaitInv
<1>2. CASE ProcessStart
  BY <1>2, ProcessStartInv
<1>3. CASE SkipStopped
  BY <1>3, SkipStoppedInv
<1>4. CASE SendTerm
  BY <1>4, SendTermInv
<1>5. CASE Reap
  BY <1>5, ReapInv
<1>6. CASE Forget
  BY <1>6, ForgetInv
<1>7. CASE RunReturns
  BY <1>7, RunReturnsInv
<1>8. CASE ProcessStartFails
  BY <1>8, ProcessStartFailsInv
<1>9. CASE SetupFails
  BY <1>9, SetupFailsInv
<1>10. ASSUME NEW s \in Service, ChildDies(s) PROVE IndInv'
  <2>1. faults' \in 0 .. MaxFaults /\ signals' \in 0 .. MaxSignals
    BY <1>10, BoundAssumption DEF IndInv, TypeOK, ChildDies
  <2>2. "SIGCHLD" \in Signal
    BY DEF Signal
  <2>3. child[s] # "none" /\ child' = [child EXCEPT ![s] = "dead"]
    BY <1>10 DEF ChildDies
  <2>4. pc # "exited" /\ Deliver("SIGCHLD") /\ UNCHANGED <<running, waiting, failed>>
    BY <1>10 DEF ChildDies
  <2>5. QED
    BY <2>1, <2>2, <2>3, <2>4, DeliverInv
<1>11. ASSUME NEW s \in Service, ChildTerminates(s) PROVE IndInv'
  <2>1. faults' \in 0 .. MaxFaults /\ signals' \in 0 .. MaxSignals
    BY <1>11 DEF IndInv, TypeOK, ChildTerminates
  <2>2. "SIGCHLD" \in Signal
    BY DEF Signal
  <2>3. child[s] # "none" /\ child' = [child EXCEPT ![s] = "dead"]
    BY <1>11 DEF ChildTerminates
  <2>4. pc # "exited" /\ Deliver("SIGCHLD") /\ UNCHANGED <<running, waiting, failed>>
    BY <1>11 DEF ChildTerminates
  <2>5. QED
    BY <2>1, <2>2, <2>3, <2>4, DeliverInv
<1>12. ASSUME NEW sig \in {"SIGHUP", "SIGTERM"}, OperatorSignal(sig) PROVE IndInv'
  <2>1. faults' \in 0 .. MaxFaults /\ signals' \in 0 .. MaxSignals
    BY <1>12, BoundAssumption DEF IndInv, TypeOK, OperatorSignal
  <2>2. sig \in Signal
    BY DEF Signal
  <2>3. pc # "exited" /\ Deliver(sig) /\ UNCHANGED <<running, child, waiting, failed>>
    BY <1>12 DEF OperatorSignal
  <2>4. QED
    BY <2>1, <2>2, <2>3, DeliverInv
<1>13. CASE UNCHANGED vars
  BY <1>13 DEF vars, IndInv, TypeOK, SignalsOwnChild, At, NotStartedYet, StillToCome, StillToStop
<1>14. QED
  BY <1>1, <1>2, <1>3, <1>4, <1>5, <1>6, <1>7, <1>8, <1>9, <1>10, <1>11, <1>12, <1>13
  DEF Next, Supervise
-----------------------------------------------------------------------------
\* The position of the supervisor in its program and the state of every process
\* agree in every reachable state.
THEOREM Invariant == Spec => []IndInv
  BY InitInv, StepInv, PTL DEF Spec

\* The process id that process_stop_ex and process_kill use is that of a child that
\* was not reaped.
THEOREM SignalsCorrect == Spec => []SignalsOwnChild
<1>1. IndInv => SignalsOwnChild
  BY DEF IndInv
<1>2. QED
  BY <1>1, Invariant, PTL

\* No service is started beside a process of it from an earlier round.
THEOREM OneProcessCorrect == Spec => []OneProcessPerService
<1>1. IndInv => OneProcessPerService
  <2> SUFFICES ASSUME IndInv, pc = "start", NEW i \in step .. Len(StartOrder)
               PROVE  child[StartOrder[i]] = "none"
    BY DEF OneProcessPerService
  <2>1. i \in step .. 10 /\ i \in 1 .. 10 /\ StartOrder[i] \in Service
    BY StartFacts DEF IndInv, TypeOK
  <2>2. ~running[StartOrder[i]] /\ ~failed
    BY <2>1 DEF IndInv, NotStartedYet
  <2>3. QED
    BY <2>1, <2>2 DEF IndInv
<1>2. QED
  BY <1>1, Invariant, PTL

\* A data service is not told to stop while the service that uses it is there.
THEOREM DataServiceCorrect == Spec => []DataServiceOutlivesClient
<1>1. IndInv => DataServiceOutlivesClient
  <2> SUFFICES ASSUME IndInv, pc = "stop", ~failed, NEW s \in DOMAIN DataServiceOf,
                      child[DataServiceOf[s]] = "told"
               PROVE  child[s] = "none"
    BY DEF DataServiceOutlivesClient
  <2> DEFINE d == DataServiceOf[s]
  <2>1. s \in {"canonization", "attestation", "protocol"} /\ d \in DataServices
        /\ s \in Service /\ d \in Service
    BY DEF DataServiceOf, DataServices, Service
  <2> HIDE DEF d
  <2>2. step \in 1 .. 25 /\ At.svc = d /\ running[d]
    BY <2>1, ProgramFacts DEF IndInv, TypeOK, d
  <2>3. step <= 15
    BY <2>1, <2>2 DEF IndInv, StillToStop
  <2>4. step \in {13, 14, 15}
    BY <2>1, <2>2, <2>3 DEF At, Program, Stop, Kill, Dispose, DataServices
  <2>5. \A j \in 13 .. 15 : Program[j] # Stop(s)
    BY <2>1 DEF Program, Stop
  <2>6. ~running[s]
    BY <2>1, <2>4, <2>5 DEF IndInv, StillToStop
  <2>7. QED
    BY <2>1, <2>6 DEF IndInv
<1>2. QED
  BY <1>1, Invariant, PTL

\* A supervisor that exits by request leaves no process behind, and one that gives
\* up can leave only the notification service and the protocol service.
THEOREM LeftBehindCorrect == Spec => []LeftBehind
<1>1. IndInv => LeftBehind
  BY DEF IndInv, LeftBehind
<1>2. QED
  BY <1>1, Invariant, PTL
=============================================================================
