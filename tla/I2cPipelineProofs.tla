---------------------------- MODULE I2cPipelineProofs ----------------------------
(***************************************************************************)
(* Proofs about the I2C pipeline for every value of its constants: its      *)
(* types, that snapshots and phases agree with the requests in flight, and  *)
(* that the sensors' health is honest and charged once.                     *)
(***************************************************************************)
EXTENDS I2cPipeline, TLAPS

-----------------------------------------------------------------------------
(* Sensor health. *)

\* A capped counter stays in its range.
LEMMA SaturatedRange ==
  ASSUME NEW n \in Nat, NEW cap \in Nat
  PROVE  Saturated(n, cap) \in 0..cap
  BY DEF Saturated

\* A verdict keeps a health record well formed.
LEMMA HealthVerdicts ==
  ASSUME NEW h \in Health
  PROVE  AfterSuccess(h) \in Health /\ AfterFailure(h) \in Health /\ Demoted(h) \in Health
<1>1. Threshold \in Nat /\ FaultAt \in Nat
  BY MaxFailAssumption DEF Threshold, FaultAt
<1>2. h.succs + 1 \in Nat /\ h.fails + 1 \in Nat
  BY <1>1 DEF Health
<1>3. /\ Saturated(h.succs + 1, Threshold) \in 0..Threshold
      /\ Saturated(h.fails + 1, FaultAt) \in 0..FaultAt
  BY <1>1, <1>2, SaturatedRange
<1>4. AfterSuccess(h) \in Health
  BY <1>1, <1>3 DEF AfterSuccess, Health, Levels
<1>5. AfterFailure(h) \in Health
  <2> DEFINE f == Saturated(h.fails + 1, FaultAt)
             l == IF f >= FaultAt THEN "FAULT" ELSE "DEGRADED"
  <2>1. f \in 0..FaultAt /\ 0 \in 0..Threshold /\ l \in Levels
    BY <1>1, <1>3 DEF Levels
  <2>2. AfterFailure(h) = [h EXCEPT !.fails = f, !.succs = 0, !.level = l]
    BY DEF AfterFailure
  <2> HIDE DEF f, l
  <2> QED BY <2>1, <2>2 DEF Health
<1>6. Demoted(h) \in Health
  BY <1>1 DEF Demoted, Health, Levels
<1> QED BY <1>4, <1>5, <1>6

-----------------------------------------------------------------------------
(* Bounded queues. *)

\* Taking the head of a queue leaves a shorter queue of the same elements.
LEMMA QueueTail ==
  ASSUME NEW S, NEW q \in Seq(S), q # <<>>
  PROVE  Head(q) \in S /\ Tail(q) \in Seq(S) /\ Len(Tail(q)) = Len(q) - 1 /\ Len(q) \in Nat
  OBVIOUS

\* Appending to a queue that is not full keeps it within its capacity.
LEMMA QueueAppend ==
  ASSUME NEW S, NEW q \in Seq(S), NEW e \in S, NEW cap \in Nat, Len(q) < cap
  PROVE  Append(q, e) \in Seq(S) /\ Len(Append(q, e)) <= cap
  OBVIOUS

\* The next token is a positive number above TokenBase, and so is the one after it.
LEMMA NextTokenFacts ==
  ASSUME LoopType
  PROVE  /\ nextToken \in Nat \ {0} /\ nextToken > TokenBase
         /\ TokenAfter(nextToken) \in Nat /\ TokenAfter(nextToken) > nextToken
         /\ TokenAfter(nextToken) > TokenBase
  BY PipelineAssumption DEF LoopType, TokenAfter

\* queueResult() keeps the result queue well formed, full or not.
LEMMA QueueResultType ==
  ASSUME resQ \in Seq(Result), Len(resQ) <= ResCap, NEW res \in Result, QueueResult(res)
  PROVE  resQ' \in Seq(Result) /\ Len(resQ') <= ResCap
  BY QueueAppend, PipelineAssumption DEF QueueResult

\* Sending a request keeps the request queue and the active tokens well formed.
LEMMA SendType ==
  ASSUME LoopType, QueueType, ClientType, NEW k \in Kinds, NEW val \in Nat,
         Send(k, val) \/ QueueFull
  PROVE  /\ reqQ' \in Seq(Request) /\ Len(reqQ') <= ReqCap
         /\ active' \in [Tracked -> Nat]
         /\ nextToken' \in Nat /\ nextToken' > TokenBase
<1>1. CASE QueueFull
  BY <1>1, NextTokenFacts DEF QueueFull, QueueType, ClientType
<1>2. CASE Send(k, val)
  <2> DEFINE t == nextToken
  <2>1. /\ reqQ' = Append(reqQ, [kind |-> k, token |-> t, val |-> val])
        /\ active' = IF k \in Tracked THEN [active EXCEPT ![k] = t] ELSE active
        /\ nextToken' = TokenAfter(t)
    BY <1>2 DEF Send
  <2>2. t \in Nat \ {0} /\ nextToken' \in Nat /\ nextToken' > TokenBase
    BY <2>1, NextTokenFacts
  <2> HIDE DEF t
  <2>3. [kind |-> k, token |-> t, val |-> val] \in Request
    BY <2>2 DEF Request
  <2>4. Len(reqQ) < ReqCap
    BY <1>2 DEF Send
  <2>5. reqQ' \in Seq(Request) /\ Len(reqQ') <= ReqCap
    BY <2>1, <2>3, <2>4, QueueAppend, PipelineAssumption DEF QueueType
  <2>6. active' \in [Tracked -> Nat]
    BY <2>1, <2>2 DEF ClientType
  <2> QED BY <2>2, <2>5, <2>6
<1> QED BY <1>1, <1>2

-----------------------------------------------------------------------------
(* Settling requests. *)

\* Verdicts keep everything they touch well formed.
LEMMA SettleType ==
  ASSUME TypeOK, NEW K \in SUBSET Tracked, NEW st \in Status, NEW val \in Nat,
         Settle(K, st, val)
  PROVE  /\ due' \subseteq Timers /\ active' \in [Tracked -> Nat]
         /\ SnapshotType'
         /\ envPhase' \in {"IDLE", "WAIT_CONVERSION", "WAIT_READ_RESULT"}
         /\ envHealth' \in Health /\ rtcHealth' \in Health
         /\ rtcTime' \in Nat /\ rtcSetPendingValue' \in Nat
<1> USE DEF TypeOK
<1>1. due' \subseteq Timers
  BY DEF Settle, ClientType
<1>2. active' \in [Tracked -> Nat]
  BY DEF Settle, ClientType
<1>3. raw' \in [queued : BOOLEAN, active : BOOLEAN, complete : BOOLEAN,
                status : Status \cup {"none"}]
  BY DEF Settle, RawAfter, SnapshotType
<1>4. scan' \in [active : BOOLEAN, complete : BOOLEAN, flawed : BOOLEAN,
                 addr : Nat, total : Nat, found : Seq(Nat)]
  <2>1. CASE "scan" \notin K
    BY <2>1 DEF Settle, ScanAfter, SnapshotType
  <2>2. CASE "scan" \in K
    <3> DEFINE f == IF st = "ok" /\ Len(scan.found) < MaxFound
                    THEN Append(scan.found, val) ELSE scan.found
               a == IF LastProbe THEN scan.addr ELSE scan.addr + 1
    <3>1. scan.found \in Seq(Nat) /\ scan.addr \in Nat /\ scan.total + 1 \in Nat
      BY DEF SnapshotType
    <3>2. f \in Seq(Nat) /\ a \in Nat
      BY <3>1
    <3>3. LastProbe \in BOOLEAN /\ (scan.flawed \/ st \in Flaws) \in BOOLEAN
      BY DEF LastProbe
    <3>4. scan' = [active |-> ~LastProbe, complete |-> LastProbe,
                   flawed |-> scan.flawed \/ st \in Flaws,
                   addr |-> a, total |-> scan.total + 1, found |-> f]
      BY <2>2 DEF Settle, ScanAfter
    <3> HIDE DEF f, a
    <3> QED BY <3>1, <3>2, <3>3, <3>4
  <2> QED BY <2>1, <2>2
<1>5. recoverStatus' \in Status \cup {"none", "queued", "running", "full"}
  BY DEF Settle, RecoverAfter, SnapshotType
<1>6. envPhase' \in {"IDLE", "WAIT_CONVERSION", "WAIT_READ_RESULT"}
  BY DEF Settle, EnvPhaseAfter, SensorType
<1>7. envHealth' \in Health
  BY HealthVerdicts DEF Settle, EnvHealthAfter, SensorType
<1>8. rtcHealth' \in Health
  BY HealthVerdicts DEF Settle, RtcHealthAfter, SensorType
<1>9. rtcTime' \in Nat /\ rtcSetPendingValue' \in Nat
  BY DEF Settle, RtcTimeAfter, SensorType
<1> QED BY <1>1, <1>2, <1>3, <1>4, <1>5, <1>6, <1>7, <1>8, <1>9 DEF SnapshotType

\* The clients a result or a deadline settles have a request in flight, and a
\* result on time settles no two clients of one device.
LEMMA SettledInFlight ==
  ASSUME TypeOK
  PROVE  /\ \A r \in Result :
              /\ Owners(r) \in SUBSET Tracked /\ \A k \in Owners(r) : active[k] # 0
              /\ \A j, k \in Owners(r) : j = k
              /\ LateOwners(r) \in SUBSET Tracked /\ \A k \in LateOwners(r) : active[k] # 0
         /\ ExpiredInFlight \in SUBSET Tracked /\ \A k \in ExpiredInFlight : active[k] # 0
<1>1. Rtc \cup Env \cup {"raw", "scan", "recover"} \subseteq Tracked
  BY DEF Rtc, Env, Tracked, Clients
<1>2. ASSUME NEW r \in Result
      PROVE  /\ Owners(r) \in SUBSET Tracked /\ \A k \in Owners(r) : active[k] # 0
             /\ \A j, k \in Owners(r) : j = k
  <2>1. r.token # 0
    BY DEF Result
  <2> QED BY <1>1, <2>1 DEF Owners
<1>3. ASSUME NEW r \in Result
      PROVE  LateOwners(r) \in SUBSET Tracked /\ \A k \in LateOwners(r) : active[k] # 0
  <2>1. r.token # 0
    BY DEF Result
  <2> QED BY <1>1, <2>1 DEF LateOwners
<1>4. ExpiredInFlight \in SUBSET Tracked /\ \A k \in ExpiredInFlight : active[k] # 0
  BY DEF ExpiredInFlight
<1> QED BY <1>2, <1>3, <1>4

\* Every key of a live request is a key.
LEMMA LiveKeys == ASSUME TypeOK PROVE Live \subseteq Key
<1>1. InFlight \subseteq Key
  BY DEF InFlight, Key, TypeOK, ClientType, Tracked, Kinds
<1>2. \A r \in Request \cup Result : KeyOf(r) \in Key
  BY DEF KeyOf, Key, Request, Result
<1>3. ToSet(reqQ) \cup current \cup ToSet(resQ) \subseteq Request \cup Result
  BY DEF ToSet, TypeOK, QueueType
<1>4. InSystem \subseteq Key
  BY <1>2, <1>3 DEF InSystem
<1> QED BY <1>1, <1>4 DEF Live

-----------------------------------------------------------------------------
(* Type correctness. *)

\* The initial state is well formed.
LEMMA TypeInit == Init => TypeOK
<1> SUFFICES ASSUME Init PROVE TypeOK
  OBVIOUS
<1>1. NoSample \in Health
  BY MaxFailAssumption DEF NoSample, Health, Threshold, FaultAt, Levels
<1>2. LoopType /\ ClientType
  BY PipelineAssumption DEF Init, LoopType, ClientType
<1>3. SnapshotType
  BY PipelineAssumption DEF Init, SnapshotType
<1>4. SensorType
  BY <1>1 DEF Init, SensorType
<1>5. QueueType
  BY PipelineAssumption DEF Init, QueueType
<1>6. BusType
  BY DEF Init, BusType
<1> QED BY <1>2, <1>3, <1>4, <1>5, <1>6 DEF TypeOK

\* A command is accepted into well-formed state.
LEMMA TypeCommand == TypeOK /\ Command => TypeOK'
<1> SUFFICES ASSUME TypeOK, Command PROVE TypeOK'
  OBVIOUS
<1> USE DEF TypeOK, loopVars, envVars, rtcVars, snapshots, settings, taskVars, history
<1>1. CASE QueueRaw
  BY <1>1 DEF QueueRaw, LoopType, ClientType, SnapshotType, SensorType, QueueType,
     BusType, Status
<1>2. CASE QueueRtcSet
  <2>1. LoopType' /\ ClientType' /\ SnapshotType' /\ QueueType' /\ BusType'
    BY <1>2 DEF QueueRtcSet, LoopType, ClientType, SnapshotType, QueueType, BusType
  <2>2. SensorType'
    BY <1>2, HealthVerdicts DEF QueueRtcSet, SensorType
  <2> QED BY <2>1, <2>2
<1>3. CASE QueueBusRecover
  BY <1>3 DEF QueueBusRecover, LoopType, ClientType, SnapshotType, SensorType, QueueType,
     BusType
<1>4. CASE QueueBusScan
  <2>1. ClientType'
    BY <1>4 DEF QueueBusScan, ClientType, Timers
  <2>2. SnapshotType'
    BY <1>4, PipelineAssumption DEF QueueBusScan, SnapshotType
  <2>3. LoopType' /\ SensorType' /\ QueueType' /\ BusType'
    BY <1>4 DEF QueueBusScan, LoopType, SensorType, QueueType, BusType
  <2> QED BY <2>1, <2>2, <2>3
<1>5. CASE ApplySettings
  <2>1. [kind |-> "setFreq", token |-> cfg + 1, val |-> 0] \in Request
    BY DEF Request, Kinds, SensorType
  <2>2. reqQ' \in Seq(Request) /\ Len(reqQ') <= ReqCap
    BY <1>5, <2>1, QueueAppend, PipelineAssumption DEF ApplySettings, QueueType
  <2>3. LoopType' /\ ClientType' /\ SnapshotType' /\ SensorType' /\ BusType'
    BY <1>5 DEF ApplySettings, LoopType, ClientType, SnapshotType, SensorType, BusType
  <2>4. QueueType'
    BY <1>5, <2>2 DEF ApplySettings, QueueType
  <2> QED BY <2>3, <2>4
<1> QED BY <1>1, <1>2, <1>3, <1>4, <1>5 DEF Command

\* Taking a result, late or not, and handling deadlines keep state well formed.
LEMMA TypeResults ==
  TypeOK /\ (ProcessResult \/ ProcessLateResult \/ HandleExpiredInFlight) => TypeOK'
<1> SUFFICES ASSUME TypeOK, ProcessResult \/ ProcessLateResult \/ HandleExpiredInFlight
             PROVE  TypeOK'
  OBVIOUS
<1> USE DEF settings, taskVars, history
<1>1. "timeout" \in Status
  BY DEF Status
<1>2. ASSUME NEW K \in SUBSET Tracked, NEW st \in Status, NEW val \in Nat,
             Settle(K, st, val), LoopType',
             resQ' \in Seq(Result), Len(resQ') <= ResCap,
             UNCHANGED <<seen, pending, settings, reqQ, taskVars, expired, history>>
      PROVE  TypeOK'
  <2>1. /\ due' \subseteq Timers /\ active' \in [Tracked -> Nat]
        /\ SnapshotType'
        /\ envPhase' \in {"IDLE", "WAIT_CONVERSION", "WAIT_READ_RESULT"}
        /\ envHealth' \in Health /\ rtcHealth' \in Health
        /\ rtcTime' \in Nat /\ rtcSetPendingValue' \in Nat
    BY <1>2, SettleType
  <2>2. ClientType'
    BY <1>2, <2>1 DEF TypeOK, ClientType
  <2>3. SensorType'
    BY <1>2, <2>1 DEF TypeOK, SensorType
  <2>4. QueueType'
    BY <1>2 DEF TypeOK, QueueType
  <2>5. BusType'
    BY <1>2 DEF TypeOK, BusType
  <2> QED BY <1>2, <2>1, <2>2, <2>3, <2>4, <2>5 DEF TypeOK
<1>3. ASSUME TakesResult, Drained
      PROVE  /\ Head(resQ) \in Result /\ LoopType'
             /\ resQ' \in Seq(Result) /\ Len(resQ') <= ResCap
             /\ UNCHANGED <<seen, pending, settings, reqQ, taskVars, expired, history>>
  <2>1. Head(resQ) \in Result /\ resQ' \in Seq(Result) /\ Len(resQ') <= ResCap
    BY <1>3, QueueTail, PipelineAssumption DEF TakesResult, Drained, TypeOK, QueueType
  <2>2. LoopType'
    BY <1>3, PipelineAssumption DEF TakesResult, Drained, TypeOK, LoopType
  <2> QED BY <1>3, <2>1, <2>2 DEF Drained
<1>4. CASE ProcessResult
  <2>1. Head(resQ) \in Result /\ Head(resQ).status \in Status /\ Head(resQ).val \in Nat
    BY <1>3, <1>4 DEF ProcessResult, Result
  <2>2. Owners(Head(resQ)) \in SUBSET Tracked
    BY <2>1, SettledInFlight
  <2> QED BY <1>2, <1>3, <1>4, <2>1, <2>2 DEF ProcessResult
<1>5. CASE ProcessLateResult
  <2>1. Head(resQ) \in Result
    BY <1>3, <1>5 DEF ProcessLateResult
  <2>2. LateOwners(Head(resQ)) \in SUBSET Tracked
    BY <2>1, SettledInFlight
  <2> QED BY <1>1, <1>2, <1>3, <1>5, <2>2 DEF ProcessLateResult
<1>6. CASE HandleExpiredInFlight
  <2>1. ExpiredInFlight \in SUBSET Tracked
    BY SettledInFlight
  <2>2. LoopType'
    BY <1>6, PipelineAssumption DEF HandleExpiredInFlight, TypeOK, LoopType
  <2>3. resQ' \in Seq(Result) /\ Len(resQ') <= ResCap
    BY <1>6 DEF HandleExpiredInFlight, TypeOK, QueueType
  <2> QED BY <1>1, <1>2, <1>6, <2>1, <2>2, <2>3 DEF HandleExpiredInFlight
<1> QED BY <1>4, <1>5, <1>6

\* Every slot of scheduleRequests() keeps state well formed.
LEMMA TypeSchedule == TypeOK /\ Schedule => TypeOK'
<1> SUFFICES ASSUME TypeOK, Schedule PROVE TypeOK'
  OBVIOUS
<1> USE DEF envVars, rtcVars, snapshots, settings, taskVars, history
<1>1. PICK k \in Clients : Turn(k)
  BY DEF Schedule, ScheduleRecover, ScheduleRaw, ScheduleRtcSet, ScheduleEnvRead,
     ScheduleRtcRead, ScheduleEnvTrigger, ScheduleDisplay, ScheduleScan, Clients
<1>3. /\ reqQ' \in Seq(Request) /\ Len(reqQ') <= ReqCap
      /\ active' \in [Tracked -> Nat]
      /\ nextToken' \in Nat /\ nextToken' > TokenBase
  <2>1. \E j \in Kinds, v \in Nat : Send(j, v) \/ QueueFull
    <3>1. rtcSetPendingValue \in Nat /\ envAddr \in Nat /\ ScanStarted.addr \in Nat
      BY PipelineAssumption DEF TypeOK, SensorType, SnapshotType, ScanStarted
    <3>2. Clients \subseteq Kinds /\ 0 \in Nat
      BY DEF Kinds
    <3> QED BY <3>1, <3>2 DEF Schedule, ScheduleRecover, ScheduleRaw, ScheduleRtcSet,
            ScheduleEnvRead, ScheduleRtcRead, ScheduleEnvTrigger, ScheduleDisplay,
            ScheduleScan, Clients
  <2> QED BY <2>1, SendType DEF TypeOK
<1>2. LoopType'
  <2>1. SlotOf[k] + 1 \in 1..9
    BY DEF SlotOf, Clients
  <2> QED BY <1>1, <1>3, <2>1, PipelineAssumption DEF Turn, TypeOK, LoopType
<1>4. QueueType' /\ BusType'
  BY <1>1, <1>3 DEF Turn, TypeOK, QueueType, BusType, Schedule, ScheduleRecover,
     ScheduleRaw, ScheduleRtcSet, ScheduleEnvRead, ScheduleRtcRead, ScheduleEnvTrigger,
     ScheduleDisplay, ScheduleScan
<1>5. ClientType'
  BY <1>3 DEF TypeOK, ClientType, Schedule, ScheduleRecover, ScheduleRaw, ScheduleRtcSet,
     ScheduleEnvRead, ScheduleRtcRead, ScheduleEnvTrigger, ScheduleDisplay, ScheduleScan
<1>6. SnapshotType'
  <2>1. ScanStarted \in [active : BOOLEAN, complete : BOOLEAN, flawed : BOOLEAN,
                         addr : Nat, total : Nat, found : Seq(Nat)]
    BY PipelineAssumption DEF TypeOK, SnapshotType, ScanStarted
  <2>2. [ScanStarted EXCEPT !.flawed = TRUE] \in
          [active : BOOLEAN, complete : BOOLEAN, flawed : BOOLEAN,
           addr : Nat, total : Nat, found : Seq(Nat)]
    BY <2>1
  <2>3. SnapshotType
    BY DEF TypeOK
  <2>4. CASE ScheduleRecover
    BY <2>3, <2>4 DEF ScheduleRecover, SnapshotType
  <2>5. CASE ScheduleRaw
    <3> DEFINE sent == [queued |-> FALSE, active |-> TRUE, complete |-> FALSE,
                        status |-> "busy"]
               held == [queued |-> TRUE, active |-> FALSE, complete |-> FALSE,
                        status |-> "busy"]
    <3>1. raw' = sent \/ raw' = held
      BY <2>5 DEF ScheduleRaw
    <3>2. sent \in [queued : BOOLEAN, active : BOOLEAN, complete : BOOLEAN,
                    status : Status \cup {"none"}]
      BY DEF Status
    <3>3. held \in [queued : BOOLEAN, active : BOOLEAN, complete : BOOLEAN,
                    status : Status \cup {"none"}]
      BY DEF Status
    <3>4. UNCHANGED <<scan, recoverStatus>>
      BY <2>5 DEF ScheduleRaw
    <3> HIDE DEF sent, held
    <3> QED BY <2>3, <3>1, <3>2, <3>3, <3>4 DEF SnapshotType
  <2>6. CASE ScheduleScan
    BY <2>1, <2>2, <2>3, <2>6 DEF ScheduleScan, SnapshotType
  <2>7. CASE UNCHANGED snapshots
    BY <2>3, <2>7 DEF SnapshotType
  <2>8. \/ ScheduleRecover \/ ScheduleRaw \/ ScheduleScan
        \/ UNCHANGED snapshots
    BY DEF Schedule, ScheduleRtcSet, ScheduleEnvRead, ScheduleRtcRead, ScheduleEnvTrigger,
       ScheduleDisplay
  <2> QED BY <2>4, <2>5, <2>6, <2>7, <2>8
<1>7. SensorType'
  BY <1>1, HealthVerdicts DEF Turn, TypeOK, SensorType, Schedule, ScheduleRecover,
     ScheduleRaw, ScheduleRtcSet, ScheduleEnvRead, ScheduleRtcRead, ScheduleEnvTrigger,
     ScheduleDisplay, ScheduleScan
<1> QED BY <1>2, <1>4, <1>5, <1>6, <1>7 DEF TypeOK

\* The end of an iteration, the task and the clock keep state well formed.
LEMMA TypeOthers == TypeOK /\ (EndTick \/ Task \/ PassDeadline) => TypeOK'
<1> SUFFICES ASSUME TypeOK, EndTick \/ Task \/ PassDeadline PROVE TypeOK'
  OBVIOUS
<1> USE DEF loopVars, envVars, rtcVars, snapshots, settings, taskVars, history
<1>1. CASE EndTick
  <2>1. LoopType'
    BY <1>1, PipelineAssumption DEF EndTick, TypeOK, LoopType
  <2>2. ClientType' /\ BusType'
    BY <1>1 DEF EndTick, TypeOK, ClientType, BusType
  <2>3. SnapshotType' /\ SensorType' /\ QueueType'
    BY <1>1 DEF EndTick, TypeOK, SnapshotType, SensorType, QueueType
  <2> QED BY <2>1, <2>2, <2>3 DEF TypeOK
<1>2. CASE PassDeadline
  <2>1. PICK key \in Live : PassDeadlineOf(key)
    BY <1>2 DEF PassDeadline
  <2>2. BusType'
    BY <2>1, LiveKeys DEF PassDeadlineOf, TypeOK, BusType
  <2>3. LoopType' /\ ClientType' /\ SnapshotType' /\ SensorType' /\ QueueType'
    BY <2>1 DEF PassDeadlineOf, TypeOK, LoopType, ClientType, SnapshotType, SensorType,
       QueueType
  <2> QED BY <2>2, <2>3 DEF TypeOK
<1>3. CASE FetchExpired
  <2>1. /\ Head(reqQ) \in Request /\ Tail(reqQ) \in Seq(Request)
        /\ Len(Tail(reqQ)) <= ReqCap
    BY <1>3, QueueTail, PipelineAssumption DEF FetchExpired, TypeOK, QueueType
  <2>2. [kind |-> Head(reqQ).kind, token |-> Head(reqQ).token,
         val |-> 0, status |-> "timeout", late |-> TRUE] \in Result
    BY <2>1 DEF Request, Result, Status
  <2>3. resQ' \in Seq(Result) /\ Len(resQ') <= ResCap
    BY <1>3, <2>2, QueueResultType DEF FetchExpired, TypeOK, QueueType
  <2>4. QueueType'
    BY <1>3, <2>1, <2>3 DEF FetchExpired, TypeOK, QueueType
  <2>5. LoopType' /\ ClientType' /\ SnapshotType' /\ SensorType' /\ BusType'
    BY <1>3 DEF FetchExpired, TypeOK, LoopType, ClientType, SnapshotType, SensorType,
       BusType
  <2> QED BY <2>4, <2>5 DEF TypeOK
<1>4. CASE Fetch
  <2>1. /\ Head(reqQ) \in Request /\ Tail(reqQ) \in Seq(Request)
        /\ Len(Tail(reqQ)) <= ReqCap
    BY <1>4, QueueTail, PipelineAssumption DEF Fetch, TypeOK, QueueType
  <2>2. QueueType'
    BY <1>4, <2>1 DEF Fetch, TypeOK, QueueType
  <2>3. LoopType' /\ ClientType' /\ SnapshotType' /\ SensorType' /\ BusType'
    BY <1>4 DEF Fetch, TypeOK, LoopType, ClientType, SnapshotType, SensorType, BusType
  <2> QED BY <2>2, <2>3 DEF TypeOK
<1>5. CASE Complete
  <2> DEFINE late(q) == KeyOf(q) \in expired
             result(q, st) ==
               [kind |-> q.kind, token |-> q.token,
                val |-> IF q.kind = "rtcRead" THEN chip ELSE q.val,
                status |-> IF late(q) /\ st = "ok" THEN "timeout" ELSE st,
                late |-> late(q)]
  <2>0. PICK q \in current : \E st \in Outcomes(q.kind) : Completes(q, st)
    BY <1>5 DEF Complete
  <2>1. PICK st \in Outcomes(q.kind) :
          /\ current' = {}
          /\ chip' \in ChipAfter(q, st)
          /\ busCfg' \in BusCfgAfter(q, st)
          /\ QueueResult(result(q, st))
          /\ ranRaw' = IF q.kind = "raw" /\ q.token = active["raw"] THEN st ELSE ranRaw
          /\ acked' = IF q.kind = "scan" /\ q.token = active["scan"] /\ st = "ok"
                      THEN acked \cup {q.val} ELSE acked
          /\ chipTimes' = chipTimes \cup {chip'}
          /\ UNCHANGED <<loopVars, due, pending, active, snapshots, envVars, rtcVars,
                         settings, reqQ, expired>>
    BY <2>0 DEF Completes
  <2>2. st \in Status
    BY DEF Outcomes, Status
  <2>3. q \in Request
    BY DEF TypeOK, QueueType
  <2>4. chip' \in Nat /\ busCfg' \in Nat
    BY <2>1, <2>3 DEF ChipAfter, BusCfgAfter, TypeOK, BusType, SensorType, Request
  <2>5. result(q, st) \in Result
    BY <2>2, <2>3 DEF Request, Result, Status, TypeOK, BusType
  <2> HIDE DEF result
  <2>6. resQ' \in Seq(Result) /\ Len(resQ') <= ResCap
    BY <2>1, <2>5, QueueResultType DEF TypeOK, QueueType
  <2>7. QueueType'
    BY <2>1, <2>6 DEF TypeOK, QueueType
  <2>8. BusType'
    BY <2>1, <2>2, <2>3, <2>4 DEF TypeOK, BusType, Request
  <2>9. LoopType' /\ ClientType' /\ SnapshotType' /\ SensorType'
    BY <2>1 DEF TypeOK, LoopType, ClientType, SnapshotType, SensorType
  <2> QED BY <2>7, <2>8, <2>9 DEF TypeOK
<1> QED BY <1>1, <1>2, <1>3, <1>4, <1>5 DEF Task

\* A stuttering step changes nothing TypeOK speaks of.
LEMMA TypeStutter == TypeOK /\ UNCHANGED vars => TypeOK'
  BY DEF TypeOK, LoopType, ClientType, SnapshotType, SensorType, QueueType, BusType, vars,
     loopVars, envVars, rtcVars, snapshots, settings, taskVars, history

\* Every reachable state is well formed; in particular both queues stay within
\* their capacity and no request is ever issued under token 0, which the
\* orchestrator reads as "nothing in flight".
THEOREM TypeCorrect == Spec => []TypeOK
<1>1. TypeOK /\ [Next]_vars => TypeOK'
  BY TypeCommand, TypeResults, TypeSchedule, TypeOthers, TypeStutter DEF Next, Tick
<1> QED BY TypeInit, <1>1, PTL DEF Spec

-----------------------------------------------------------------------------
(* What the snapshots and phases promise: each agrees with the requests in   *)
(* flight.                                                                    *)

\* The inductive invariant.  Each part needs its flags to agree with the active
\* token, and settling a request needs to know which flags a token implies.
SnapshotInv ==
  RawFlagsAgree /\ EnvPhaseAgrees /\ RecoverStatusAgrees /\ ScanAccounting

\* The state SnapshotInv speaks of.
snapshotVars == <<pending, active, raw, scan, recoverStatus, envPhase>>

\* The invariant depends on these variables only.
LEMMA SnapshotStutter == SnapshotInv /\ UNCHANGED snapshotVars => SnapshotInv'
  BY DEF SnapshotInv, RawFlagsAgree, EnvPhaseAgrees, RecoverStatusAgrees, ScanAccounting,
     snapshotVars

\* At the start every flag is down and no token is active.
LEMMA SnapshotInit == Init => SnapshotInv
<1> SUFFICES ASSUME Init PROVE SnapshotInv
  OBVIOUS
<1>1. \A k \in Tracked : active[k] = 0
  BY DEF Init
<1>2. {"raw", "envTrig", "envRead", "recover", "scan"} \subseteq Tracked
  BY DEF Tracked, Clients
<1> QED BY <1>1, <1>2, PipelineAssumption
     DEF Init, SnapshotInv, RawFlagsAgree, EnvPhaseAgrees, RecoverStatusAgrees, ScanAccounting

\* A command changes only its own client, which has nothing in flight.
LEMMA SnapshotCommand == TypeOK /\ SnapshotInv /\ Command => SnapshotInv'
<1> SUFFICES ASSUME TypeOK, SnapshotInv, Command PROVE SnapshotInv'
  OBVIOUS
<1> USE DEF snapshots, envVars, rtcVars
<1>1. CASE QueueRaw
  BY <1>1 DEF QueueRaw, Idle, SnapshotInv, RawFlagsAgree, EnvPhaseAgrees,
     RecoverStatusAgrees, ScanAccounting
<1>2. CASE QueueRtcSet
  BY <1>2 DEF QueueRtcSet, SnapshotInv, RawFlagsAgree, EnvPhaseAgrees,
     RecoverStatusAgrees, ScanAccounting
<1>3. CASE QueueBusRecover
  BY <1>3 DEF QueueBusRecover, Idle, SnapshotInv, RawFlagsAgree, EnvPhaseAgrees,
     RecoverStatusAgrees, ScanAccounting
<1>4. CASE QueueBusScan
  BY <1>4 DEF QueueBusScan, Idle, SnapshotInv, RawFlagsAgree, EnvPhaseAgrees,
     RecoverStatusAgrees, ScanAccounting
<1>5. CASE ApplySettings
  BY <1>5, SnapshotStutter DEF ApplySettings, snapshotVars
<1> QED BY <1>1, <1>2, <1>3, <1>4, <1>5 DEF Command

\* Verdicts for clients in flight keep flags, phases and tokens in agreement.
LEMMA SnapshotSettle ==
  ASSUME TypeOK, SnapshotInv, NEW K \in SUBSET Tracked, NEW st \in Status, NEW val \in Nat,
         \A k \in K : active[k] # 0,
         st = "timeout" \/ \A j, k \in K : j = k,
         Settle(K, st, val), UNCHANGED pending
  PROVE  SnapshotInv'
<1>1. \A k \in Tracked \ Env : active'[k] = IF k \in K THEN 0 ELSE active[k]
  BY DEF Settle
<1>2. {"raw", "scan", "recover"} \subseteq Tracked \ Env
  BY DEF Tracked, Clients, Env
<1>3. RawFlagsAgree'
  BY <1>1, <1>2 DEF Settle, RawAfter, SnapshotInv, RawFlagsAgree
<1>4. RecoverStatusAgrees'
  BY <1>1, <1>2 DEF Settle, RecoverAfter, SnapshotInv, RecoverStatusAgrees, Status
<1>5. ScanAccounting'
  <2>1. CASE "scan" \notin K
    BY <1>1, <1>2, <2>1 DEF Settle, ScanAfter, SnapshotInv, ScanAccounting
  <2>2. CASE "scan" \in K
    <3>1. scan.active /\ scan.total = scan.addr - FirstAddr /\ scan.addr <= LastAddr
      BY <2>2 DEF SnapshotInv, ScanAccounting
    <3>2. /\ scan'.active = ~LastProbe /\ scan'.complete = LastProbe
          /\ scan'.addr = (IF LastProbe THEN scan.addr ELSE scan.addr + 1)
          /\ scan'.total = scan.total + 1
      BY <2>2 DEF Settle, ScanAfter
    <3>3. active'["scan"] = 0 /\ "scan" \notin pending'
      BY <1>1, <1>2, <2>2, <3>1 DEF SnapshotInv, ScanAccounting
    <3>4. scan.addr \in Nat /\ scan.total \in Nat
      BY DEF TypeOK, SnapshotType
    <3>5. FirstAddr \in Nat /\ LastAddr \in Nat
      BY PipelineAssumption
    <3>6. CASE LastProbe
      <4>1. scan.addr = LastAddr
        BY <3>1, <3>4, <3>5, <3>6 DEF LastProbe
      <4> QED BY <3>1, <3>2, <3>3, <3>4, <3>5, <3>6, <4>1 DEF ScanAccounting
    <3>7. CASE ~LastProbe
      <4>1. scan.addr + 1 <= LastAddr
        BY <3>1, <3>4, <3>5, <3>7 DEF LastProbe
      <4> QED BY <3>1, <3>2, <3>3, <3>4, <3>5, <3>7, <4>1 DEF ScanAccounting
    <3> QED BY <3>6, <3>7
  <2> QED BY <2>1, <2>2
<1>6. EnvPhaseAgrees'
  <2>1. {"envTrig", "envRead"} \subseteq Tracked /\ Env = {"envTrig", "envRead"}
    BY DEF Tracked, Clients, Env
  <2>2. CASE K \cap Env = {}
    BY <2>1, <2>2 DEF Settle, EnvFails, EnvPhaseAfter, SnapshotInv, EnvPhaseAgrees
  <2>3. CASE K \cap Env # {} /\ EnvFails(K, st)
    BY <2>1, <2>3 DEF Settle, EnvFails, EnvPhaseAfter, EnvPhaseAgrees
  <2>4. CASE K \cap Env # {} /\ ~EnvFails(K, st)
    <3>1. \A j, k \in K : j = k
      BY <2>4 DEF EnvFails
    <3> QED BY <2>1, <2>4, <3>1
         DEF Settle, EnvPhaseAfter, SnapshotInv, EnvPhaseAgrees
  <2> QED BY <2>2, <2>3, <2>4
<1> QED BY <1>3, <1>4, <1>5, <1>6 DEF SnapshotInv

\* Sending a request gives its client a token and leaves the other clients alone.
LEMMA SendActive ==
  ASSUME TypeOK, NEW k \in Clients, NEW val, Send(k, val)
  PROVE  /\ \A j \in Tracked : j # k => active'[j] = active[j]
         /\ k \in Tracked => active'[k] # 0
<1>1. active' = IF k \in Tracked THEN [active EXCEPT ![k] = nextToken] ELSE active
  BY DEF Send
<1>2. nextToken # 0
  BY NextTokenFacts DEF TypeOK
<1> QED BY <1>1, <1>2 DEF TypeOK, ClientType

\* A client that takes its turn has nothing in flight, and what its eligibility says.
LEMMA TurnFacts ==
  ASSUME NEW k \in Clients, Turn(k)
  PROVE  Eligible(k)
  BY DEF Turn, Remaining

\* Every slot of scheduleRequests() changes the flags of the client it serves
\* together with its token.
LEMMA SnapshotSchedule == TypeOK /\ SnapshotInv /\ Schedule => SnapshotInv'
<1> SUFFICES ASSUME TypeOK, SnapshotInv, Schedule PROVE SnapshotInv'
  OBVIOUS
<1> USE DEF envVars, rtcVars, snapshots
<1>0. /\ {"recover", "raw", "rtcSet", "envRead", "rtcRead", "envTrig", "scan"} = Tracked
      /\ Clients = Tracked \cup {"display"}
  BY DEF Tracked, Clients
<1>1. CASE ScheduleRecover
  <2>1. active["recover"] = 0 /\ pending' = pending \ {"recover"}
    BY <1>0, <1>1, TurnFacts DEF ScheduleRecover, Eligible
  <2>2. /\ \A j \in Tracked : j # "recover" => active'[j] = active[j]
        /\ \/ active'["recover"] # 0 /\ recoverStatus' = "running"
           \/ active'["recover"] = 0 /\ recoverStatus' = "full"
    BY <1>0, <1>1, <2>1, SendActive DEF ScheduleRecover, QueueFull
  <2> QED BY <1>0, <1>1, <2>1, <2>2 DEF ScheduleRecover, SnapshotInv, RawFlagsAgree,
       EnvPhaseAgrees, RecoverStatusAgrees, ScanAccounting
<1>2. CASE ScheduleRaw
  <2>1. active["raw"] = 0 /\ "raw" \in pending
    BY <1>0, <1>2, TurnFacts DEF ScheduleRaw, Eligible
  <2>2. \A j \in Tracked : j # "raw" => active'[j] = active[j]
    BY <1>0, <1>2, SendActive DEF ScheduleRaw, QueueFull
  <2>3. \/ /\ active'["raw"] # 0 /\ pending' = pending \ {"raw"}
           /\ ~raw'.queued /\ raw'.active /\ ~raw'.complete
        \/ /\ active'["raw"] = 0 /\ pending' = pending
           /\ raw'.queued /\ ~raw'.active /\ ~raw'.complete
    BY <1>0, <1>2, <2>1, SendActive DEF ScheduleRaw, QueueFull
  <2> QED BY <1>0, <1>2, <2>1, <2>2, <2>3 DEF ScheduleRaw, SnapshotInv, RawFlagsAgree,
       EnvPhaseAgrees, RecoverStatusAgrees, ScanAccounting
<1>3. CASE ScheduleEnvRead
  <2>1. active["envRead"] = 0 /\ active["envTrig"] = 0
    BY <1>0, <1>3, TurnFacts DEF ScheduleEnvRead, Eligible
  <2>2. /\ \A j \in Tracked : j # "envRead" => active'[j] = active[j]
        /\ \/ active'["envRead"] # 0 /\ envPhase' = "WAIT_READ_RESULT"
           \/ active'["envRead"] = 0 /\ envPhase' = "IDLE"
    BY <1>0, <1>3, <2>1, SendActive DEF ScheduleEnvRead, QueueFull
  <2> QED BY <1>0, <1>3, <2>1, <2>2 DEF ScheduleEnvRead, SnapshotInv, RawFlagsAgree,
       EnvPhaseAgrees, RecoverStatusAgrees, ScanAccounting
<1>4. CASE ScheduleEnvTrigger
  <2>1. active["envTrig"] = 0 /\ active["envRead"] = 0
    BY <1>0, <1>4, TurnFacts
    DEF ScheduleEnvTrigger, Eligible, SnapshotInv, EnvPhaseAgrees
  <2>2. /\ \A j \in Tracked : j # "envTrig" => active'[j] = active[j]
        /\ \/ active'["envTrig"] # 0 /\ envPhase' = "WAIT_CONVERSION"
           \/ active'["envTrig"] = 0 /\ envPhase' = "IDLE"
    BY <1>0, <1>4, <2>1, SendActive DEF ScheduleEnvTrigger, QueueFull
  <2> QED BY <1>0, <1>4, <2>1, <2>2 DEF ScheduleEnvTrigger, SnapshotInv, RawFlagsAgree,
       EnvPhaseAgrees, RecoverStatusAgrees, ScanAccounting
<1>5. CASE ScheduleScan
  <2>1. active["scan"] = 0 /\ ("scan" \in pending \/ scan.active)
    BY <1>0, <1>5, TurnFacts DEF ScheduleScan, Eligible
  <2>2. \A j \in Tracked : j # "scan" => active'[j] = active[j]
    BY <1>0, <1>5, SendActive DEF ScheduleScan, QueueFull
  <2>3. /\ scan'.active /\ ~scan'.complete
        /\ scan'.total = scan'.addr - FirstAddr /\ scan'.addr <= LastAddr
    <3>1. /\ ScanStarted.active /\ ~ScanStarted.complete
          /\ ScanStarted.total = ScanStarted.addr - FirstAddr
          /\ ScanStarted.addr <= LastAddr
      BY <2>1, PipelineAssumption DEF ScanStarted, SnapshotInv, ScanAccounting
    <3>2. /\ scan'.active = ScanStarted.active /\ scan'.complete = ScanStarted.complete
          /\ scan'.total = ScanStarted.total /\ scan'.addr = ScanStarted.addr
      <4>1. ScanStarted \in [active : BOOLEAN, complete : BOOLEAN, flawed : BOOLEAN,
                             addr : Nat, total : Nat, found : Seq(Nat)]
        BY PipelineAssumption DEF ScanStarted, TypeOK, SnapshotType
      <4> QED BY <1>5, <4>1 DEF ScheduleScan
    <3> QED BY <3>1, <3>2
  <2> QED BY <1>0, <1>5, <2>1, <2>2, <2>3 DEF ScheduleScan, SnapshotInv, RawFlagsAgree,
       EnvPhaseAgrees, RecoverStatusAgrees, ScanAccounting
<1>6. CASE ScheduleRtcSet
  <2>1. \A j \in Tracked : j # "rtcSet" => active'[j] = active[j]
    BY <1>0, <1>6, SendActive DEF ScheduleRtcSet, QueueFull
  <2> QED BY <1>0, <1>6, <2>1 DEF ScheduleRtcSet, SnapshotInv, RawFlagsAgree,
       EnvPhaseAgrees, RecoverStatusAgrees, ScanAccounting
<1>7. CASE ScheduleRtcRead
  <2>1. \A j \in Tracked : j # "rtcRead" => active'[j] = active[j]
    BY <1>0, <1>7, SendActive DEF ScheduleRtcRead, QueueFull
  <2> QED BY <1>0, <1>7, <2>1 DEF ScheduleRtcRead, SnapshotInv, RawFlagsAgree,
       EnvPhaseAgrees, RecoverStatusAgrees, ScanAccounting
<1>8. CASE ScheduleDisplay
  <2>1. \A j \in Tracked : active'[j] = active[j]
    BY <1>0, <1>8, SendActive DEF ScheduleDisplay, QueueFull
  <2> QED BY <1>0, <1>8, <2>1 DEF ScheduleDisplay, SnapshotInv, RawFlagsAgree,
       EnvPhaseAgrees, RecoverStatusAgrees, ScanAccounting
<1> QED BY <1>1, <1>2, <1>3, <1>4, <1>5, <1>6, <1>7, <1>8 DEF Schedule

\* Results and deadlines settle only clients in flight.
LEMMA SnapshotResults ==
  TypeOK /\ SnapshotInv /\ (ProcessResult \/ ProcessLateResult \/ HandleExpiredInFlight)
    => SnapshotInv'
<1> SUFFICES ASSUME TypeOK, SnapshotInv,
                    ProcessResult \/ ProcessLateResult \/ HandleExpiredInFlight
             PROVE  SnapshotInv'
  OBVIOUS
<1>1. "timeout" \in Status /\ 0 \in Nat
  BY DEF Status
<1>2. ASSUME TakesResult
      PROVE  /\ Head(resQ) \in Result
             /\ Head(resQ).status \in Status /\ Head(resQ).val \in Nat
  <2>1. Head(resQ) \in Result
    BY <1>2, QueueTail DEF TakesResult, TypeOK, QueueType
  <2> QED BY <2>1 DEF Result
<1>3. CASE ProcessResult
  <2>1. TakesResult /\ UNCHANGED pending
        /\ Settle(Owners(Head(resQ)), Head(resQ).status, Head(resQ).val)
    BY <1>3 DEF ProcessResult, Drained
  <2> QED BY <1>2, <2>1, SettledInFlight, SnapshotSettle
<1>4. CASE ProcessLateResult
  <2>1. TakesResult /\ UNCHANGED pending /\ Settle(LateOwners(Head(resQ)), "timeout", 0)
    BY <1>4 DEF ProcessLateResult, Drained
  <2> QED BY <1>1, <1>2, <2>1, SettledInFlight, SnapshotSettle
<1>5. CASE HandleExpiredInFlight
  <2>1. UNCHANGED pending /\ Settle(ExpiredInFlight, "timeout", 0)
    BY <1>5 DEF HandleExpiredInFlight
  <2> QED BY <1>1, <2>1, SettledInFlight, SnapshotSettle
<1> QED BY <1>3, <1>4, <1>5

\* The end of an iteration, the task and the clock touch none of it.
LEMMA SnapshotOthers ==
  SnapshotInv /\ (EndTick \/ Task \/ PassDeadline \/ UNCHANGED vars) => SnapshotInv'
<1>1. EndTick \/ Task \/ PassDeadline \/ UNCHANGED vars => UNCHANGED snapshotVars
  BY DEF EndTick, Task, FetchExpired, Fetch, Complete, Completes, PassDeadline,
     PassDeadlineOf, vars, snapshots, envVars, snapshotVars
<1> QED BY <1>1, SnapshotStutter

\* Flags, phases and counters agree with the requests in flight in every
\* reachable state, whatever is late, lost, dropped or refused by a full queue.
THEOREM SnapshotsAgree == Spec => []SnapshotInv
<1>1. TypeOK /\ SnapshotInv /\ [Next]_vars => SnapshotInv'
  BY SnapshotCommand, SnapshotSchedule, SnapshotResults, SnapshotOthers DEF Next, Tick
<1> QED BY SnapshotInit, TypeCorrect, <1>1, PTL DEF Spec

\* The raw snapshot is in one of its four states, and they agree with the token.
THEOREM RawFlagsAlwaysAgree == Spec => []RawFlagsAgree
<1>1. SnapshotInv => RawFlagsAgree
  BY DEF SnapshotInv
<1> QED BY SnapshotsAgree, <1>1, PTL

\* The environment sensor awaits a read exactly while one is in flight.
THEOREM EnvPhaseAlwaysAgrees == Spec => []EnvPhaseAgrees
<1>1. SnapshotInv => EnvPhaseAgrees
  BY DEF SnapshotInv
<1> QED BY SnapshotsAgree, <1>1, PTL

\* A recovery reads queued or running exactly while it is.
THEOREM RecoverStatusAlwaysAgrees == Spec => []RecoverStatusAgrees
<1>1. SnapshotInv => RecoverStatusAgrees
  BY DEF SnapshotInv
<1> QED BY SnapshotsAgree, <1>1, PTL

\* A scan in progress has counted every address behind it exactly once.
THEOREM ScanAlwaysAccounted == Spec => []ScanAccounting
<1>1. SnapshotInv => ScanAccounting
  BY DEF SnapshotInv
<1> QED BY SnapshotsAgree, <1>1, PTL

-----------------------------------------------------------------------------
(* The verdicts on the sensors. *)

\* No verdict makes a level say what its counters do not.
LEMMA HonestVerdicts ==
  ASSUME NEW h \in Health, HonestLevel(h)
  PROVE  HonestLevel(AfterSuccess(h)) /\ HonestLevel(AfterFailure(h)) /\ HonestLevel(Demoted(h))
<1>1. HonestLevel(AfterSuccess(h))
  BY DEF HonestLevel, AfterSuccess
<1>2. HonestLevel(AfterFailure(h))
  <2> DEFINE f == Saturated(h.fails + 1, FaultAt)
             l == IF f >= FaultAt THEN "FAULT" ELSE "DEGRADED"
  <2>1. AfterFailure(h) = [h EXCEPT !.fails = f, !.succs = 0, !.level = l]
    BY DEF AfterFailure
  <2>2. l # "OK" /\ (l = "FAULT" => f >= FaultAt)
    OBVIOUS
  <2> HIDE DEF f, l
  <2> QED BY <2>1, <2>2 DEF HonestLevel, Health
<1>3. HonestLevel(Demoted(h))
  BY DEF HonestLevel, Demoted, Health
<1> QED BY <1>1, <1>2, <1>3

\* A sensor reads OK only after a success, and FAULT only after 2 * MaxFail
\* failures in a row, for every threshold.
THEOREM HealthAlwaysHonest == Spec => []HealthHonest
<1> USE DEF snapshots, envVars, rtcVars
<1>1. Init => HealthHonest
  BY DEF Init, HealthHonest, HonestLevel, NoSample
<1>2. TypeOK /\ HealthHonest /\ [Next]_vars => HealthHonest'
  <2> SUFFICES ASSUME TypeOK, HealthHonest, [Next]_vars PROVE HealthHonest'
    OBVIOUS
  <2>1. rtcHealth \in Health /\ envHealth \in Health /\ AfterFailure(rtcHealth) \in Health
        /\ HonestLevel(AfterFailure(rtcHealth))
    BY HealthVerdicts, HonestVerdicts DEF TypeOK, SensorType, HealthHonest
  <2>2. ASSUME NEW K, NEW st, NEW val, Settle(K, st, val) PROVE HealthHonest'
    BY <2>1, <2>2, HonestVerdicts DEF Settle, EnvHealthAfter, RtcHealthAfter, HealthHonest
  <2>3. CASE ProcessResult \/ ProcessLateResult \/ HandleExpiredInFlight
    BY <2>2, <2>3 DEF ProcessResult, ProcessLateResult, HandleExpiredInFlight
  <2>4. CASE Schedule
    BY <2>1, <2>4, HonestVerdicts DEF Schedule, ScheduleRecover, ScheduleRaw, ScheduleRtcSet,
       ScheduleEnvRead, ScheduleRtcRead, ScheduleEnvTrigger, ScheduleDisplay, ScheduleScan,
       HealthHonest
  <2>5. CASE Command
    BY <2>1, <2>5, HonestVerdicts DEF Command, QueueRaw, QueueRtcSet, QueueBusRecover,
       QueueBusScan, ApplySettings, HealthHonest
  <2>6. CASE EndTick \/ Task \/ PassDeadline \/ UNCHANGED vars
    BY <2>6 DEF EndTick, Task, FetchExpired, Fetch, Complete, Completes, PassDeadline,
       PassDeadlineOf, vars, HealthHonest
  <2> QED BY <2>3, <2>4, <2>5, <2>6 DEF Next, Tick
<1> QED BY <1>1, <1>2, TypeCorrect, PTL DEF Spec

\* Verdicts charge the environment sensor only for a request of its own that is settled
\* in the same step.
LEMMA ChargedVerdict ==
  ASSUME TypeOK, NEW K \in SUBSET Tracked, NEW st, NEW val, Settle(K, st, val),
         \A k \in K : active[k] # 0, envHealth'.fails > envHealth.fails
  PROVE  \E k \in Env : active[k] # 0 /\ active'[k] = 0
<1>1. envHealth.fails \in Nat
  BY MaxFailAssumption DEF TypeOK, SensorType, Health, FaultAt
<1>2. envHealth' = EnvHealthAfter(K, st, val)
  BY DEF Settle
<1>3. AfterSuccess(envHealth).fails = 0
  BY DEF AfterSuccess
<1>4. EnvFails(K, st)
  BY <1>1, <1>2, <1>3 DEF EnvHealthAfter
<1>5. PICK k \in K \cap Env : TRUE
  BY <1>4 DEF EnvFails
<1>6. active'[k] = 0
  BY <1>5 DEF Settle
<1> QED BY <1>5, <1>6

\* One request, one verdict: the failure count of the environment sensor grows only when
\* a request in flight is given up or a request finds the queue full.
THEOREM EnvAlwaysChargedOnce == Spec => EnvChargedOnce
<1> DEFINE Charged == envHealth'.fails > envHealth.fails =>
                        \/ \E k \in Env : active[k] # 0 /\ active'[k] = 0
                        \/ Len(reqQ) = ReqCap
<1> USE DEF envVars
<1>1. TypeOK /\ [Next]_vars => Charged
  <2> SUFFICES ASSUME TypeOK, [Next]_vars, envHealth'.fails > envHealth.fails
               PROVE  (\E k \in Env : active[k] # 0 /\ active'[k] = 0) \/ Len(reqQ) = ReqCap
    OBVIOUS
  <2>1. envHealth' # envHealth
    <3>1. envHealth.fails \in Nat
      BY MaxFailAssumption DEF TypeOK, SensorType, Health, FaultAt
    <3> QED BY <3>1
  <2>2. ASSUME TakesResult PROVE Head(resQ) \in Result
    BY <2>2, QueueTail DEF TakesResult, TypeOK, QueueType
  <2>3. CASE ProcessResult
    BY <2>2, <2>3, SettledInFlight, ChargedVerdict DEF ProcessResult
  <2>4. CASE ProcessLateResult
    BY <2>2, <2>4, SettledInFlight, ChargedVerdict DEF ProcessLateResult
  <2>5. CASE HandleExpiredInFlight
    BY <2>5, SettledInFlight, ChargedVerdict DEF HandleExpiredInFlight
  <2>6. CASE Schedule
    BY <2>1, <2>6 DEF Schedule, ScheduleRecover, ScheduleRaw, ScheduleRtcSet, ScheduleEnvRead,
       ScheduleRtcRead, ScheduleEnvTrigger, ScheduleDisplay, ScheduleScan, QueueFull
  <2>7. CASE Command \/ EndTick \/ Task \/ PassDeadline \/ UNCHANGED vars
    BY <2>1, <2>7 DEF Command, QueueRaw, QueueRtcSet, QueueBusRecover, QueueBusScan,
       ApplySettings, EndTick, Task, FetchExpired, Fetch, Complete, Completes, PassDeadline,
       PassDeadlineOf, vars
  <2> QED BY <2>3, <2>4, <2>5, <2>6, <2>7 DEF Next, Tick
<1>2. TypeOK /\ [Next]_vars => [Charged]_vars
  BY <1>1
<1> HIDE DEF Charged
<1>3. Spec => [][Charged]_vars
  BY TypeCorrect, <1>2, PTL DEF Spec
<1> QED BY <1>3 DEF EnvChargedOnce, Charged
=============================================================================
