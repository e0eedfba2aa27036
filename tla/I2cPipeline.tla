------------------------------ MODULE I2cPipeline ------------------------------
(***************************************************************************)
(* The I2C request pipeline: the orchestrator, which the main loop ticks,  *)
(* the I2C task, which owns the bus, and the two FreeRTOS queues between   *)
(* them.  Both sides run concurrently: every action of the main loop below *)
(* is what it does between two queue operations, so the task may run       *)
(* between any two of them.                                                *)
(*                                                                         *)
(* Time is the set of requests whose deadline has passed.  The task reads  *)
(* the real clock (`expired'); the main loop reads it once at the top of   *)
(* an iteration and works with that reading until the next (`seen').       *)
(*                                                                         *)
(* Tokens come from two counters that both start at 1: the orchestrator's, *)
(* `nextToken', which every request takes one of, sent or refused, and the *)
(* task's own, from which SET_FREQ takes its token; that one is `cfg', for *)
(* nothing else uses it.  TokenBase is the number of tokens the            *)
(* orchestrator has taken before the behaviour begins: 0 is the boot.  The *)
(* counters are 32 bits wide and skip zero; their wrap, after 2^32         *)
(* requests, is beyond the model.                                          *)
(***************************************************************************)
EXTENDS Integers, Sequences, FiniteSets, SequencesExt, SensorHealth

CONSTANTS
  Sources,          \* the kinds of request this instance may issue
  ReqCap, ResCap,   \* capacity of the request and the result queue
  RequestsPerTick,  \* RuntimeSettings::i2cRequestsPerTick
  ResultsPerTick,   \* RuntimeSettings::i2cMaxResultsPerTick
  FirstAddr, LastAddr, MaxFound,   \* scan range and I2cScanSnapshot::MAX_FOUND
  EnvAddrs,         \* values of RuntimeSettings::i2cEnvAddress
  TokenBase,        \* tokens the orchestrator has already handed out
  MaxSets,          \* bound: RTC set commands
  MaxApply          \* bound: settings changes

Rtc == {"rtcSet", "rtcRead"}
Env == {"envTrig", "envRead"}

\* Clients in the order scheduleRequests() serves them.
SlotOf == [recover |-> 1, raw |-> 2, rtcSet |-> 3, envRead |-> 4,
           rtcRead |-> 5, envTrig |-> 6, display |-> 7, scan |-> 8]
Clients == {"recover", "raw", "rtcSet", "envRead", "rtcRead", "envTrig",
            "display", "scan"}
Tracked == Clients \ {"display"}     \* clients that remember an active token
Kinds   == Clients \cup {"setFreq"}  \* SET_FREQ is sent by I2cTask itself
Timers  == {"envRead", "rtcRead", "envTrig", "display", "scan"} \cap Sources

ASSUME PipelineAssumption ==
  /\ Sources \subseteq Kinds
  /\ ReqCap \in Nat \ {0} /\ ResCap \in Nat \ {0}
  /\ RequestsPerTick \in Nat \ {0} /\ ResultsPerTick \in Nat \ {0}
  /\ FirstAddr \in Nat /\ LastAddr \in Nat /\ FirstAddr <= LastAddr
  /\ MaxFound \in Nat /\ EnvAddrs \subseteq Nat /\ EnvAddrs # {}
  /\ TokenBase \in Nat
  /\ MaxSets \in Nat /\ MaxApply \in Nat

VARIABLES
  pc, slot, budget, drained,  \* where the main loop is in one iteration
  seen,                       \* requests expired by the loop's clock reading
  nextToken,                  \* the orchestrator's token counter
  due,                        \* poll timers that have come round
  pending,                    \* commands accepted, request not yet queued
  active,                     \* token in flight per client, 0 if none
  raw, scan, recoverStatus,   \* the snapshots the web API and the CLI read
  envPhase, envHealth,
  rtcHealth, rtcTime, rtcSetPendingValue,
  cfg, envAddr,               \* settings: bus configuration, sensor address
  reqQ, resQ,                 \* _requestQueue and _resultQueue
  current,                    \* the request the task is executing, if any
  busCfg, chip,               \* the driver's configuration, the RTC chip's time
  expired,                    \* requests expired by the real clock
  ranRaw, acked, chipTimes    \* history: the bus's word on the current raw
                              \* operation, the addresses that answered this
                              \* scan, the times the RTC chip has held

loopVars  == <<pc, slot, budget, drained, seen, nextToken>>
envVars   == <<envPhase, envHealth>>
rtcVars   == <<rtcHealth, rtcTime, rtcSetPendingValue>>
snapshots == <<raw, scan, recoverStatus>>
settings  == <<cfg, envAddr>>
taskVars  == <<current, busCfg, chip>>
history   == <<ranRaw, acked, chipTimes>>
vars == <<loopVars, due, pending, active, snapshots, envVars, rtcVars, settings,
          reqQ, resQ, taskVars, expired, history>>

Request == [kind : Kinds, token : Nat \ {0}, val : Nat]
Status  == {"ok", "nack", "busy", "error", "timeout"}
Result  == [kind : Kinds, token : Nat \ {0}, val : Nat, status : Status, late : BOOLEAN]
Key     == Kinds \X Nat

KeyOf(r) == <<r.kind, r.token>>

\* Verdicts processRequest() can give per kind, apart from lateness.
Outcomes(kind) ==
  CASE kind = "scan" -> {"ok", "nack", "error"}
    [] kind \in Env  -> {"ok", "busy", "error"}
    [] OTHER         -> {"ok", "error"}

LoopType ==
  /\ pc \in {"drain", "sched"} /\ slot \in 1..9
  /\ budget \in 0..RequestsPerTick /\ drained \in 0..ResultsPerTick
  /\ nextToken \in Nat /\ nextToken > TokenBase
ClientType ==
  /\ due \subseteq Timers
  /\ pending \subseteq {"recover", "raw", "rtcSet", "scan"}
  /\ active \in [Tracked -> Nat]
SnapshotType ==
  /\ raw \in [queued : BOOLEAN, active : BOOLEAN, complete : BOOLEAN,
              status : Status \cup {"none"}]
  /\ scan \in [active : BOOLEAN, complete : BOOLEAN, flawed : BOOLEAN,
               addr : Nat, total : Nat, found : Seq(Nat)]
  /\ recoverStatus \in Status \cup {"none", "queued", "running", "full"}
SensorType ==
  /\ envPhase \in {"IDLE", "WAIT_CONVERSION", "WAIT_READ_RESULT"}
  /\ envHealth \in Health /\ rtcHealth \in Health
  /\ rtcTime \in Nat /\ rtcSetPendingValue \in Nat
  /\ cfg \in Nat /\ envAddr \in EnvAddrs
QueueType ==
  /\ reqQ \in Seq(Request) /\ Len(reqQ) <= ReqCap
  /\ resQ \in Seq(Result) /\ Len(resQ) <= ResCap
  /\ current \subseteq Request /\ \A p, q \in current : p = q
BusType ==
  /\ busCfg \in Nat /\ chip \in Nat
  /\ seen \subseteq Key /\ expired \subseteq Key
  /\ ranRaw \in Status \cup {"none"} /\ acked \subseteq Nat /\ chipTimes \subseteq Nat

\* Every variable stays in its range: in particular both queues keep to their
\* capacity, tokens in requests to positive numbers and polls to known timers.
TypeOK ==
  LoopType /\ ClientType /\ SnapshotType /\ SensorType /\ QueueType /\ BusType

Init ==
  /\ pc = "drain" /\ slot = 1 /\ budget = 0 /\ drained = 0
  /\ nextToken = TokenBase + 1
  /\ seen = {} /\ expired = {}
  /\ due = {} /\ pending = {}
  /\ active = [k \in Tracked |-> 0]
  /\ raw = [queued |-> FALSE, active |-> FALSE, complete |-> FALSE, status |-> "none"]
  /\ scan = [active |-> FALSE, complete |-> FALSE, flawed |-> FALSE,
             addr |-> FirstAddr, total |-> 0, found |-> <<>>]
  /\ recoverStatus = "none"
  /\ envPhase = "IDLE" /\ envHealth = NoSample /\ rtcHealth = NoSample
  /\ rtcTime = 0 /\ rtcSetPendingValue = 0
  /\ cfg = 0 /\ envAddr \in EnvAddrs
  /\ reqQ = <<>> /\ resQ = <<>>
  /\ current = {} /\ busCfg = 0 /\ chip = 0
  /\ ranRaw = "none" /\ acked = {} /\ chipTimes = {chip}

-----------------------------------------------------------------------------
(* Which requests are still somewhere. *)

InSystem == {KeyOf(r) : r \in ToSet(reqQ) \cup current \cup ToSet(resQ)}
InFlight == {<<k, active[k]>> : k \in {c \in Tracked : active[c] # 0}}
Live     == InSystem \cup InFlight

-----------------------------------------------------------------------------
(* Commands, which the application executes at the top of an iteration, before *)
(* the orchestrator takes its first result.                                    *)

Commanding == pc = "drain" /\ drained = 0

\* Fault: a command is accepted while the previous one is still in flight.
Idle_PendingOnly(k) == k \notin pending

Idle(k) == k \notin pending /\ active[k] = 0

QueueRaw ==
  /\ Commanding /\ "raw" \in Sources
  /\ Idle("raw")
  /\ pending' = pending \cup {"raw"}
  /\ raw' = [queued |-> TRUE, active |-> FALSE, complete |-> FALSE, status |-> "busy"]
  /\ ranRaw' = "none"
  /\ UNCHANGED <<loopVars, due, active, scan, recoverStatus, envVars, rtcVars,
                 settings, reqQ, resQ, taskVars, expired, acked, chipTimes>>

QueueRtcSet ==
  /\ Commanding /\ "rtcSet" \in Sources
  /\ Idle("rtcSet")
  /\ rtcSetPendingValue < MaxSets
  /\ pending' = pending \cup {"rtcSet"}
  /\ rtcSetPendingValue' = rtcSetPendingValue + 1
  /\ rtcHealth' = Demoted(rtcHealth)
  /\ UNCHANGED <<loopVars, due, active, snapshots, envVars, rtcTime,
                 settings, reqQ, resQ, taskVars, expired, history>>

QueueBusRecover ==
  /\ Commanding /\ "recover" \in Sources
  /\ Idle("recover")
  /\ pending' = pending \cup {"recover"}
  /\ recoverStatus' = "queued"
  /\ UNCHANGED <<loopVars, due, active, raw, scan, envVars, rtcVars,
                 settings, reqQ, resQ, taskVars, expired, history>>

QueueBusScan ==
  /\ Commanding /\ "scan" \in Sources
  /\ Idle("scan") /\ ~scan.active
  /\ pending' = pending \cup {"scan"}
  /\ due' = due \cup {"scan"}
  /\ scan' = [active |-> FALSE, complete |-> FALSE, flawed |-> FALSE,
              addr |-> FirstAddr, total |-> 0, found |-> <<>>]
  /\ acked' = {}
  /\ UNCHANGED <<loopVars, active, raw, recoverStatus, envVars, rtcVars,
                 settings, reqQ, resQ, taskVars, expired, ranRaw, chipTimes>>

\* updateSettings: I2cTask::applySettings() and then the orchestrator's.  The
\* SET_FREQ request carries a token of the task's own counter, and what
\* enqueue() returns is ignored.
ApplySettings ==
  /\ Commanding /\ "setFreq" \in Sources /\ cfg < MaxApply
  /\ cfg' = cfg + 1
  /\ envAddr' \in EnvAddrs
  /\ reqQ' = IF Len(reqQ) < ReqCap
             THEN Append(reqQ, [kind |-> "setFreq", token |-> cfg + 1, val |-> 0])
             ELSE reqQ
  /\ due' = due \cup ({"display"} \cap Timers)
  /\ UNCHANGED <<loopVars, pending, active, snapshots, envVars, rtcVars,
                 resQ, taskVars, expired, history>>

-----------------------------------------------------------------------------
(* Results and deadlines.  Settle gives the clients in K their verdict st,  *)
(* val being the payload of the result (an RTC time, a probed or read       *)
(* address): the common effect of processResult() and of                    *)
(* handleExpiredInFlight().                                                 *)

\* Fault: a completed operation stays active.
RawAfter_StaysActive(K, st) ==
  IF "raw" \notin K THEN raw ELSE [raw EXCEPT !.complete = TRUE, !.status = st]

RawAfter(K, st) ==
  IF "raw" \notin K THEN raw
  ELSE [queued |-> FALSE, active |-> FALSE, complete |-> TRUE, status |-> st]

\* Fault: the scan stops one address early.
LastProbe_Early == scan.addr + 1 >= LastAddr

LastProbe == scan.addr >= LastAddr

\* Fault: a probe that timed out is not counted as one.
Flaws_ErrorsOnly == {"error"}

Flaws == {"timeout", "error"}

ScanAfter(K, st, addr) ==
  IF "scan" \notin K THEN scan
  ELSE [active   |-> ~LastProbe,
        complete |-> LastProbe,
        flawed   |-> scan.flawed \/ st \in Flaws,
        addr     |-> IF LastProbe THEN scan.addr ELSE scan.addr + 1,
        total    |-> scan.total + 1,
        found    |-> IF st = "ok" /\ Len(scan.found) < MaxFound
                     THEN Append(scan.found, addr) ELSE scan.found]

\* Fault: a recovery given up at its deadline still reads running.
RecoverAfter_NoTimeout(K, st) ==
  IF "recover" \in K /\ st # "timeout" THEN st ELSE recoverStatus

RecoverAfter(K, st) == IF "recover" \in K THEN st ELSE recoverStatus

EnvFails(K, st) == K \cap Env # {} /\ st \notin {"ok", "busy"}

EnvSampled(K, st, addr) == "envRead" \in K /\ st = "ok" /\ addr = envAddr

EnvHealthAfter(K, st, addr) ==
  IF EnvFails(K, st) THEN AfterFailure(envHealth)
  ELSE IF EnvSampled(K, st, addr) THEN AfterSuccess(envHealth) ELSE envHealth

\* Fault: a busy sensor does not end the cycle.
EnvPhaseAfter_BusyWaits(K, st) ==
  IF K \cap Env = {} \/ ("envTrig" \in K /\ st = "ok") \/ st = "busy"
  THEN envPhase ELSE "IDLE"

\* A good trigger leaves the phase at WAIT_CONVERSION; all else ends the cycle.
EnvPhaseAfter(K, st) ==
  IF K \cap Env = {} \/ ("envTrig" \in K /\ st = "ok") THEN envPhase ELSE "IDLE"

RtcHealthAfter(K, st) ==
  IF K \cap Rtc = {} THEN rtcHealth
  ELSE IF st = "ok" THEN AfterSuccess(rtcHealth)
  ELSE IF Rtc \subseteq K THEN AfterFailure(AfterFailure(rtcHealth))
  ELSE AfterFailure(rtcHealth)

\* Fault: the time asked for is published whatever the chip said.
RtcTimeAfter_Unconfirmed(K, st, val) ==
  IF "rtcSet" \in K THEN rtcSetPendingValue
  ELSE IF st = "ok" /\ "rtcRead" \in K THEN val ELSE rtcTime

RtcTimeAfter(K, st, val) ==
  IF st # "ok" THEN rtcTime
  ELSE IF "rtcSet" \in K THEN rtcSetPendingValue
  ELSE IF "rtcRead" \in K THEN val ELSE rtcTime

\* Polls pushed into the future by a failure at FAULT.
PutOff(envFailed, rtcFailed) ==
  (IF envFailed /\ BacksOff(envHealth') THEN {"envTrig"} ELSE {}) \cup
  (IF rtcFailed /\ BacksOff(rtcHealth') THEN {"rtcRead"} ELSE {})

Settle(K, st, val) ==
  /\ active' = [k \in Tracked |->
                  IF k \in K \/ (k \in Env /\ EnvFails(K, st)) THEN 0 ELSE active[k]]
  /\ raw' = RawAfter(K, st)
  /\ scan' = ScanAfter(K, st, val)
  /\ recoverStatus' = RecoverAfter(K, st)
  /\ envHealth' = EnvHealthAfter(K, st, val)
  /\ envPhase' = EnvPhaseAfter(K, st)
  /\ rtcHealth' = RtcHealthAfter(K, st)
  /\ rtcTime' = RtcTimeAfter(K, st, val)
  /\ due' = due \ PutOff(EnvFails(K, st), K \cap Rtc # {} /\ st # "ok")
  /\ UNCHANGED rtcSetPendingValue

\* Fault: a raw operation in flight takes any result no one else claims.
Owners_AnyRaw(r) ==
  LET typed(S) == {k \in S : k = r.kind /\ active[k] = r.token}
  IN IF typed(Tracked \ {"raw"}) # {} THEN typed(Tracked \ {"raw"})
     ELSE IF active["raw"] # 0 THEN {"raw"} ELSE {}

\* The in-flight client a result on time is credited to: RTC and ENV by device
\* and token, the raw operation by token alone, scan and recovery by operation
\* and token.
Owners(r) ==
  LET typed(S) == {k \in S : k = r.kind /\ active[k] = r.token}
  IN IF typed(Rtc \cup Env) # {} THEN typed(Rtc \cup Env)
     ELSE IF active["raw"] = r.token THEN {"raw"}
     ELSE typed({"scan", "recover"})

\* Fault: a late result is charged to its device whether or not it is awaited.
LateOwners_ByDevice(r) ==
  {k \in {"raw"} \cup Rtc \cup Env : k = r.kind}

\* A late result ends no scan probe and no recovery: their deadline does.
LateOwners(r) ==
  {k \in {"raw"} \cup Rtc \cup Env : active[k] = r.token /\ k \in {"raw", r.kind}}

IsLate(r) == r.late \/ KeyOf(r) \in seen

TakesResult == pc = "drain" /\ drained < ResultsPerTick /\ resQ # <<>>

Drained ==
  /\ resQ' = Tail(resQ)
  /\ drained' = drained + 1
  /\ UNCHANGED <<pc, slot, budget, seen, nextToken, pending, settings, reqQ, taskVars,
                 expired, history>>

ProcessResult ==
  /\ TakesResult /\ ~IsLate(Head(resQ))
  /\ Settle(Owners(Head(resQ)), Head(resQ).status, Head(resQ).val)
  /\ Drained

ProcessLateResult ==
  /\ TakesResult /\ IsLate(Head(resQ))
  /\ Settle(LateOwners(Head(resQ)), "timeout", 0)
  /\ Drained

\* Fault: deadlines of the bus operations (raw, scan, recovery) are forgotten.
ExpiredInFlight_DevicesOnly ==
  {k \in Rtc \cup Env : active[k] # 0 /\ <<k, active[k]>> \in seen}

ExpiredInFlight == {k \in Tracked : active[k] # 0 /\ <<k, active[k]>> \in seen}

HandleExpiredInFlight ==
  /\ pc = "drain" /\ (drained = ResultsPerTick \/ resQ = <<>>)
  /\ Settle(ExpiredInFlight, "timeout", 0)
  /\ pc' = "sched" /\ slot' = 1 /\ budget' = RequestsPerTick
  /\ UNCHANGED <<drained, seen, nextToken, pending, settings, reqQ, resQ, taskVars,
                 expired, history>>

-----------------------------------------------------------------------------
(* scheduleRequests(): at most RequestsPerTick slots, in the order SlotOf. *)

Eligible(k) ==
  /\ k \in Tracked => active[k] = 0
  /\ k \in {"recover", "raw", "rtcSet"} => k \in pending
  /\ k \in Timers => k \in due
  /\ k \in Sources
  /\ k = "envRead" => envPhase = "WAIT_CONVERSION" /\ active["envTrig"] = 0
  /\ k = "envTrig" => envPhase = "IDLE"
  /\ k = "scan" => "scan" \in pending \/ scan.active

Remaining == {k \in Clients : SlotOf[k] >= slot /\ Eligible(k)}

Turn(k) ==
  /\ pc = "sched" /\ budget > 0
  /\ k \in Remaining /\ \A j \in Remaining : SlotOf[k] <= SlotOf[j]
  /\ budget' = budget - 1
  /\ slot' = SlotOf[k] + 1
  /\ UNCHANGED <<pc, drained, seen, settings, resQ, taskVars, expired>>

\* Fault: the counter is not advanced.
TokenAfter_Constant(t) == t

TokenAfter(t) == t + 1

\* enqueueRequest(): the token is taken before the queue is asked.
Send(k, val) ==
  /\ Len(reqQ) < ReqCap
  /\ nextToken' = TokenAfter(nextToken)
  /\ reqQ' = Append(reqQ, [kind |-> k, token |-> nextToken, val |-> val])
  /\ active' = IF k \in Tracked THEN [active EXCEPT ![k] = nextToken] ELSE active

QueueFull ==
  /\ Len(reqQ) = ReqCap
  /\ nextToken' = TokenAfter(nextToken)
  /\ UNCHANGED <<reqQ, active>>

\* A recovery that finds the queue full is given up.
ScheduleRecover ==
  /\ Turn("recover")
  /\ pending' = pending \ {"recover"}
  /\ \/ Send("recover", 0) /\ recoverStatus' = "running"
     \/ QueueFull /\ recoverStatus' = "full"
  /\ UNCHANGED <<due, raw, scan, envVars, rtcVars, history>>

ScheduleRaw ==
  /\ Turn("raw")
  /\ \/ /\ Send("raw", 0)
        /\ pending' = pending \ {"raw"}
        /\ raw' = [queued |-> FALSE, active |-> TRUE, complete |-> FALSE, status |-> "busy"]
     \/ /\ QueueFull
        /\ raw' = [queued |-> TRUE, active |-> FALSE, complete |-> FALSE, status |-> "busy"]
        /\ UNCHANGED pending
  /\ UNCHANGED <<due, scan, recoverStatus, envVars, rtcVars, history>>

ScheduleRtcSet ==
  /\ Turn("rtcSet")
  /\ \/ /\ Send("rtcSet", rtcSetPendingValue)
        /\ pending' = pending \ {"rtcSet"}
        /\ UNCHANGED <<due, rtcHealth>>
     \/ /\ QueueFull
        /\ rtcHealth' = AfterFailure(rtcHealth)
        /\ due' = due \ PutOff(FALSE, TRUE)
        /\ UNCHANGED pending
  /\ UNCHANGED <<snapshots, envVars, rtcTime, rtcSetPendingValue, history>>

ScheduleEnvRead ==
  /\ Turn("envRead")
  /\ \/ /\ Send("envRead", envAddr)
        /\ envPhase' = "WAIT_READ_RESULT"
        /\ UNCHANGED <<due, envHealth>>
     \/ /\ QueueFull
        /\ envPhase' = "IDLE"
        /\ envHealth' = AfterFailure(envHealth)
        /\ due' = due \ PutOff(TRUE, FALSE)
  /\ UNCHANGED <<pending, snapshots, rtcVars, history>>

ScheduleRtcRead ==
  /\ Turn("rtcRead")
  /\ \/ /\ Send("rtcRead", 0)
        /\ due' = due \ {"rtcRead"}
        /\ UNCHANGED rtcHealth
     \/ /\ QueueFull
        /\ rtcHealth' = AfterFailure(rtcHealth)
        /\ due' = due \ PutOff(FALSE, TRUE)
  /\ UNCHANGED <<pending, snapshots, envVars, rtcTime, rtcSetPendingValue, history>>

ScheduleEnvTrigger ==
  /\ Turn("envTrig")
  /\ \/ /\ Send("envTrig", envAddr)
        /\ envPhase' = "WAIT_CONVERSION"
        /\ due' = due \ Env
        /\ UNCHANGED envHealth
     \/ /\ QueueFull
        /\ envHealth' = AfterFailure(envHealth)
        /\ due' = due \ PutOff(TRUE, FALSE)
        /\ envPhase' = "IDLE"
  /\ UNCHANGED <<pending, snapshots, rtcVars, history>>

ScheduleDisplay ==
  /\ Turn("display")
  /\ due' = due \ {"display"}
  /\ Send("display", 0) \/ QueueFull
  /\ UNCHANGED <<pending, snapshots, envVars, rtcVars, history>>

\* A scan that has just been accepted restarts its counters first.
ScanStarted ==
  IF "scan" \in pending
  THEN [active |-> TRUE, complete |-> FALSE, flawed |-> FALSE,
        addr |-> FirstAddr, total |-> 0, found |-> <<>>]
  ELSE scan

ScheduleScan ==
  /\ Turn("scan")
  /\ pending' = pending \ {"scan"}
  /\ due' = due \ {"scan"}
  /\ \/ Send("scan", ScanStarted.addr) /\ scan' = ScanStarted
     \/ QueueFull /\ scan' = [ScanStarted EXCEPT !.flawed = TRUE]
  /\ UNCHANGED <<raw, recoverStatus, envVars, rtcVars, history>>

\* The iteration is over; the next one begins by reading the clock.
EndTick ==
  /\ pc = "sched" /\ (budget = 0 \/ Remaining = {})
  /\ pc' = "drain" /\ slot' = 1 /\ budget' = 0 /\ drained' = 0
  /\ expired' = expired \cap Live
  /\ seen' = expired'
  /\ \E rung \in SUBSET (Timers \ due) : due' = due \cup rung
  /\ UNCHANGED <<nextToken, pending, active, snapshots, envVars, rtcVars, settings,
                 reqQ, resQ, taskVars, history>>

-----------------------------------------------------------------------------
(* The I2C task: taskLoop() and processRequest(). *)

\* Fault: the result queue has no bound.
QueueResult_Unbounded(res) == resQ' = Append(resQ, res)

\* queueResult(): a result that finds the queue full is dropped.
QueueResult(res) ==
  resQ' = IF Len(resQ) < ResCap THEN Append(resQ, res) ELSE resQ

FetchExpired ==
  /\ current = {} /\ reqQ # <<>> /\ KeyOf(Head(reqQ)) \in expired
  /\ reqQ' = Tail(reqQ)
  /\ QueueResult([kind |-> Head(reqQ).kind, token |-> Head(reqQ).token,
                  val |-> 0, status |-> "timeout", late |-> TRUE])
  /\ UNCHANGED <<loopVars, due, pending, active, snapshots, envVars, rtcVars, settings,
                 taskVars, expired, history>>

Fetch ==
  /\ current = {} /\ reqQ # <<>> /\ KeyOf(Head(reqQ)) \notin expired
  /\ reqQ' = Tail(reqQ)
  /\ current' = {Head(reqQ)}
  /\ UNCHANGED <<loopVars, due, pending, active, snapshots, envVars, rtcVars, settings,
                 resQ, busCfg, chip, expired, history>>

\* What executing q may leave in the chip and in the bus driver.  A failed RTC
\* set may have written the time before it failed.  A failure or a slow
\* transfer may trip the recovery policy, and a recovery resets the driver
\* with the current configuration.
ChipAfter(q, st) ==
  IF q.kind # "rtcSet" THEN {chip} ELSE IF st = "ok" THEN {q.val} ELSE {chip, q.val}

BusCfgAfter(q, st) ==
  IF q.kind \in {"setFreq", "recover"} /\ st = "ok" THEN {cfg}
  ELSE IF st \in {"nack", "busy"} THEN {busCfg} ELSE {busCfg, cfg}

Completes(q, st) ==
  LET late == KeyOf(q) \in expired IN
  /\ current' = {}
  /\ chip' \in ChipAfter(q, st)
  /\ busCfg' \in BusCfgAfter(q, st)
  /\ QueueResult([kind |-> q.kind, token |-> q.token,
                  val |-> IF q.kind = "rtcRead" THEN chip ELSE q.val,
                  status |-> IF late /\ st = "ok" THEN "timeout" ELSE st,
                  late |-> late])
  /\ ranRaw' = IF q.kind = "raw" /\ q.token = active["raw"] THEN st ELSE ranRaw
  /\ acked' = IF q.kind = "scan" /\ q.token = active["scan"] /\ st = "ok"
              THEN acked \cup {q.val} ELSE acked
  /\ chipTimes' = chipTimes \cup {chip'}
  /\ UNCHANGED <<loopVars, due, pending, active, snapshots, envVars, rtcVars,
                 settings, reqQ, expired>>

Complete == \E q \in current : \E st \in Outcomes(q.kind) : Completes(q, st)

\* The clock passes the deadline of a request that is still somewhere.
PassDeadlineOf(key) ==
  /\ key \in Live \ expired
  /\ expired' = expired \cup {key}
  /\ UNCHANGED <<loopVars, due, pending, active, snapshots, envVars, rtcVars,
                 settings, reqQ, resQ, taskVars, history>>

PassDeadline == \E key \in Live : PassDeadlineOf(key)

-----------------------------------------------------------------------------
Command == QueueRaw \/ QueueRtcSet \/ QueueBusRecover \/ QueueBusScan \/ ApplySettings

Schedule == \/ ScheduleRecover \/ ScheduleRaw \/ ScheduleRtcSet \/ ScheduleEnvRead
            \/ ScheduleRtcRead \/ ScheduleEnvTrigger \/ ScheduleDisplay \/ ScheduleScan

Tick == \/ ProcessResult \/ ProcessLateResult \/ HandleExpiredInFlight
        \/ Schedule \/ EndTick

Task == FetchExpired \/ Fetch \/ Complete

Next == Command \/ Tick \/ Task \/ PassDeadline

Spec == Init /\ [][Next]_vars

\* The main loop never blocks on the pipeline, and the clock advances: past
\* every deadline and to every poll.  The driver bounds every transfer, so the
\* task keeps taking requests; nothing the main loop promises rests on that.
RunsMainLoop == WF_vars(Tick)
RunsClock ==
  /\ \A k \in Tracked \cap Sources : WF_vars(PassDeadlineOf(<<k, active[k]>>))
  /\ \A t \in Timers : SF_vars(EndTick /\ t \in due')
RunsTask == WF_vars(Task)

LoopSpec == Spec /\ RunsMainLoop /\ RunsClock
FairSpec == LoopSpec /\ RunsTask

-----------------------------------------------------------------------------
(* Safety. *)

\* The raw snapshot is in one of its four states, and they agree with the
\* request: queued while the command waits for a slot, active while a token is
\* in flight (I2cRaw.h, queueRawRequest, scheduleRequests, processResult).
RawFlagsAgree ==
  /\ raw.queued <=> "raw" \in pending
  /\ raw.active <=> active["raw"] # 0
  /\ ~(raw.queued /\ raw.active) /\ ~(raw.complete /\ (raw.queued \/ raw.active))

\* A raw operation is reported good only if the bus completed this very
\* operation with that verdict: no late, foreign or earlier result stands in.
RawTruthful == raw.complete /\ raw.status = "ok" => ranRaw = "ok"

\* The environment sensor's phase and its tokens move together: a read is
\* awaited exactly while one is in flight, nothing is in flight when idle, and
\* trigger and read are never in flight at once.
EnvPhaseAgrees ==
  /\ envPhase = "WAIT_READ_RESULT" <=> active["envRead"] # 0
  /\ active["envTrig"] # 0 => envPhase = "WAIT_CONVERSION"

\* A scan in progress has counted each address behind it exactly once, and a
\* complete one every address of the range, whatever was late, lost or dropped;
\* a probe is in flight only for a scan in progress.
ScanAccounting ==
  /\ scan.active => scan.total = scan.addr - FirstAddr /\ scan.addr <= LastAddr
  /\ scan.complete => scan.total = LastAddr - FirstAddr + 1
  /\ active["scan"] # 0 => scan.active
  /\ ~(scan.active /\ scan.complete)
  /\ "scan" \in pending => ~scan.active

\* A complete scan without timeouts or errors lists exactly the addresses that
\* answered, in order, up to the capacity of the snapshot.
ScanHonest ==
  scan.complete /\ ~scan.flawed =>
    /\ ToSet(scan.found) \subseteq acked
    /\ Len(scan.found) = Saturated(Cardinality(acked), MaxFound)
    /\ \A i, j \in DOMAIN scan.found : i < j => scan.found[i] < scan.found[j]

\* A recovery reads queued or running exactly while it is (queueBusRecover,
\* scheduleRequests, processResult).
RecoverStatusAgrees ==
  /\ recoverStatus = "queued"  <=> "recover" \in pending
  /\ recoverStatus = "running" <=> active["recover"] # 0

\* The published RTC time is one the chip has held: a time that was only asked for is
\* never published, whichever sets failed, came late or were never sent.
RtcTimeWasOnChip == rtcTime \in chipTimes

\* No two in-flight clients share a token, and no request or result left over
\* from one client carries another client's: what matching by token rests on.
TokensTellClients ==
  /\ \A j, k \in Tracked : active[j] # 0 /\ active[j] = active[k] => j = k
  /\ \A key \in InSystem : \A k \in Tracked :
       active[k] # 0 /\ active[k] = key[2] => key[1] = k

\* The health levels mean what they say: OK only after a success, FAULT only
\* after 2 * MaxFail failures in a row.
HealthHonest == HonestLevel(rtcHealth) /\ HonestLevel(envHealth)

-----------------------------------------------------------------------------
(* Action properties. *)

\* Sets are numbered in the order they were asked for: a step never publishes
\* an RTC time from before one already published.
RtcNeverGoesBack == [][rtcTime' >= rtcTime]_vars

\* One request, one verdict: the failure count of the environment sensor grows
\* only when a request in flight is given up or a request finds the queue full,
\* so a late result is not charged again after its deadline was.
EnvChargedOnce ==
  [][envHealth'.fails > envHealth.fails =>
       \/ \E k \in Env : active[k] # 0 /\ active'[k] = 0
       \/ Len(reqQ) = ReqCap]_vars

-----------------------------------------------------------------------------
(* Liveness. *)

\* Every request in flight is resolved by the main loop alone, even if the
\* task hangs or its result is dropped (handleExpiredInFlight).
InFlightResolves == \A k \in Tracked \cap Sources : []<>(active[k] = 0)

\* A measurement cycle of the environment sensor ends, even if the task hangs.
EnvCycleEnds == []<>(envPhase = "IDLE")

\* With a live task every scan that starts completes, whatever its probes meet.
ScanCompletes == scan.active ~> scan.complete

-----------------------------------------------------------------------------
(* The raw snapshot implements the one-shot operation it promises. *)

RawVerdicts == {"ok", "error"}

RawPhase == IF raw.queued THEN "queued" ELSE IF raw.active THEN "inflight"
            ELSE IF raw.complete THEN "done" ELSE "idle"

OneShotRaw == INSTANCE OneShot WITH
  Verdicts <- RawVerdicts,
  phase    <- RawPhase,
  outcome  <- IF RawPhase = "done" THEN raw.status ELSE "none",
  ran      <- ranRaw

\* Queued, run at most once, answered once and truthfully, and always answered.
ImplementsOneShot == OneShotRaw!Spec
=============================================================================
