------------------------------- MODULE BusProofs -------------------------------
(***************************************************************************)
(* The I2C task below its queues, for any frequencies, backoffs, thresholds *)
(* and number of faults: the pace of recoveries, what a reported recovery    *)
(* means, the frequency, the settings a driver runs with, and what "clock    *)
(* set" means.                                                               *)
(***************************************************************************)
EXTENDS I2cBus, I2cDrivers, TLAPS

-----------------------------------------------------------------------------
(* The bus *)

PolicyStates == [failures : Nat, hasRecovered : BOOLEAN, current : Nat]

BusTypes ==
  /\ busSettings \in [freq : Freqs, backoff : Backoffs]
  /\ backend \in [started : BOOLEAN, freq : Freqs]
  /\ stuck \in BOOLEAN /\ hardwareOk \in BOOLEAN
  /\ policy \in PolicyStates
  /\ sinceRecovery \in Nat /\ autoAge \in Nat /\ busErrors \in Nat
  /\ setFreq \in {"none", "owed", "queued"} /\ freqLost \in BOOLEAN

\* The constants are numbers, and so is the backoff in use.
LEMMA BackoffFacts ==
  ASSUME BusTypes
  PROVE  /\ BackoffMax \in Nat /\ Threshold \in Nat \ {0} /\ FailMax \in Nat
         /\ busSettings.backoff \in 1..BackoffMax /\ busSettings.freq \in Freqs
<1>1. busSettings.backoff \in Backoffs /\ busSettings.freq \in Freqs
  BY DEF BusTypes
<1>2. /\ Backoffs \subseteq 1..BackoffMax /\ BackoffMax \in Nat
      /\ Threshold \in Nat \ {0} /\ FailMax \in Nat
  BY I2cBusAssumption
<1> QED BY <1>1, <1>2

\* Updates of the policy's state.
LEMMA PolicyUpdates ==
  /\ \A p \in PolicyStates, n \in Nat :
       /\ [p EXCEPT !.failures = n] \in PolicyStates
       /\ [p EXCEPT !.failures = n].hasRecovered = p.hasRecovered
  /\ \A p \in PolicyStates, n \in Nat :
       /\ [p EXCEPT !.hasRecovered = TRUE, !.current = n] \in PolicyStates
       /\ [p EXCEPT !.hasRecovered = TRUE, !.current = n].hasRecovered
BY DEF PolicyStates

\* What the operators of the policy return.
LEMMA PolicyFacts ==
  ASSUME BusTypes,
         NEW p \in PolicyStates
  PROVE  /\ OnSuccess(p) \in PolicyStates
         /\ OnFailure(p) \in PolicyStates
         /\ OnRecovery(p) \in PolicyStates
         /\ OnFailure(p).hasRecovered = p.hasRecovered
         /\ OnRecovery(p).hasRecovered
<1>1. busSettings.backoff \in Nat /\ BackoffMax \in Nat /\ FailMax \in Nat
  BY BackoffFacts
<1>2. OnSuccess(p) \in PolicyStates
  BY <1>1 DEF OnSuccess, PolicyStates
<1>3. OnFailure(p) \in PolicyStates /\ OnFailure(p).hasRecovered = p.hasRecovered
  <2> DEFINE n == Capped(p.failures + 1, FailMax)
  <2>1. n \in Nat
    BY <1>1 DEF Capped, PolicyStates
  <2>2. OnFailure(p) = [p EXCEPT !.failures = n]
    BY DEF OnFailure
  <2> HIDE DEF n
  <2> QED BY <2>1, <2>2, PolicyUpdates, Zenon
<1>4. OnRecovery(p) \in PolicyStates /\ OnRecovery(p).hasRecovered
  <2> DEFINE c == IF p.current < busSettings.backoff THEN busSettings.backoff
                  ELSE IF p.current < BackoffMax THEN Capped(2 * p.current, BackoffMax)
                       ELSE p.current
  <2>1. c \in Nat
    BY <1>1 DEF Capped, PolicyStates
  <2>2. OnRecovery(p) = [p EXCEPT !.hasRecovered = TRUE, !.current = c]
    BY DEF OnRecovery
  <2> HIDE DEF c
  <2> QED BY <2>1, <2>2, PolicyUpdates, Zenon
<1> QED BY <1>2, <1>3, <1>4

(* What the claims about the bus rest on: the age of the policy's last recovery is
   at least that of the last recovery of all, and nothing is remembered of it after a
   success. *)
BusInv ==
  /\ BusTypes
  /\ autoAge >= sinceRecovery /\ sinceRecovery <= BackoffMax + 1
  /\ ~policy.hasRecovered => autoAge = BackoffMax + 1
  /\ RecoveredMeansUp
  /\ FrequencyFollows

\* A recovery by the policy leaves a typed backend at the frequency of the settings,
\* and its request comes only when the backoff the user chose is over.
LEMMA ChargeStep ==
  ASSUME BusInv, Charge
  PROVE  /\ backend' \in [started : BOOLEAN, freq : Freqs]
         /\ backend'.freq \in {backend.freq, busSettings.freq}
         /\ stuck' \in BOOLEAN /\ hardwareOk' \in BOOLEAN
         /\ policy' \in PolicyStates
         /\ sinceRecovery' \in Nat /\ autoAge' \in Nat /\ autoAge' >= sinceRecovery'
         /\ sinceRecovery' <= BackoffMax + 1
         /\ ~policy'.hasRecovered => autoAge' = BackoffMax + 1
         /\ recovery' # "ok"
         /\ recovery' = "auto" => autoAge >= busSettings.backoff
         /\ ShouldRecover(OnFailure(policy)) => backend'.freq = busSettings.freq
<1> DEFINE failed == OnFailure(policy)
<1>1. /\ failed \in PolicyStates
      /\ failed.hasRecovered = policy.hasRecovered
      /\ OnRecovery(failed) \in PolicyStates
      /\ OnRecovery(failed).hasRecovered
  BY PolicyFacts DEF BusInv, BusTypes
<1>2. CASE ShouldRecover(failed)
  <2>1. /\ \E o \in Outcomes : Recovered(o)
        /\ policy' = OnRecovery(failed) /\ recovery' = "auto" /\ autoAge' = 0
    BY <1>2 DEF Charge
  <2>2. PICK o \in Outcomes : Recovered(o)
    BY <2>1
  <2>3. o \in [pulsed : BOOLEAN, cycled : BOOLEAN, hookOk : BOOLEAN, heals : BOOLEAN]
    BY DEF Outcomes
  <2>4. backend' \in [started : BOOLEAN, freq : Freqs] /\ backend'.freq = busSettings.freq
    BY <2>2, <2>3 DEF Recovered, LastReset, BusInv, BusTypes
  <2>5. stuck' \in BOOLEAN /\ hardwareOk' \in BOOLEAN /\ sinceRecovery' = 0
    BY <2>2, <2>3 DEF Recovered, Freed, LastReset, BusInv, BusTypes
  <2>6. autoAge >= busSettings.backoff
    <3>1. CASE policy.hasRecovered
      <4>1. sinceRecovery >= CurrentBackoff
        BY <1>1, <1>2, <3>1 DEF ShouldRecover
      <4>2. CurrentBackoff \in Nat /\ CurrentBackoff >= busSettings.backoff
        <5>1. policy.current \in Nat
          BY DEF BusInv, BusTypes, PolicyStates
        <5> QED BY <5>1, BackoffFacts DEF CurrentBackoff, BusInv
      <4> QED BY <4>1, <4>2, BackoffFacts DEF BusInv, BusTypes
    <3>2. CASE ~policy.hasRecovered
      BY <3>2, BackoffFacts DEF BusInv
    <3> QED BY <3>1, <3>2
  <2>7. BackoffMax \in Nat
    BY BackoffFacts DEF BusInv
  <2> QED BY <1>1, <2>1, <2>4, <2>5, <2>6, <2>7
<1>3. CASE ~ShouldRecover(failed)
  <2>1. policy' = failed /\ NoRecovery
    BY <1>3 DEF Charge
  <2> QED BY <1>1, <1>3, <2>1 DEF NoRecovery, busEnv, BusInv, BusTypes
<1> QED BY <1>2, <1>3

\* After a success nothing is remembered of recoveries.
LEMMA ClearStep ==
  ASSUME BusTypes, Clear
  PROVE  /\ policy' \in PolicyStates /\ autoAge' = BackoffMax + 1 /\ autoAge' \in Nat
BY BackoffFacts, PolicyFacts DEF Clear, BusTypes

\* The counters stay numbers.
LEMMA CappedFacts ==
  ASSUME BusTypes
  PROVE  /\ Capped(busErrors + 1, FailMax) \in Nat
         /\ Capped(autoAge + 1, BackoffMax + 1) \in Nat
BY BackoffFacts DEF Capped, BusTypes

\* A recovery somebody asked for: where it says it worked, backend and lines are up.
LEMMA RecoverStep ==
  ASSUME BusTypes, NEW o \in Outcomes, Recovered(o)
  PROVE  /\ backend' \in [started : BOOLEAN, freq : Freqs]
         /\ backend'.freq = busSettings.freq
         /\ stuck' \in BOOLEAN /\ hardwareOk' \in BOOLEAN /\ sinceRecovery' = 0
         /\ StatusOk(o) => backend'.started /\ ~stuck'
<1>1. o \in [pulsed : BOOLEAN, cycled : BOOLEAN, hookOk : BOOLEAN, heals : BOOLEAN]
  BY DEF Outcomes
<1>2. LastReset(o) \in BOOLEAN /\ Freed(o) \in BOOLEAN
  BY <1>1 DEF LastReset, Freed, BusTypes
<1>3. backend' = [started |-> LastReset(o), freq |-> busSettings.freq]
  BY DEF Recovered
<1>4. StatusOk(o) => LastReset(o) /\ Freed(o)
  BY DEF StatusOk, LastReset
<1>5. /\ backend' \in [started : BOOLEAN, freq : Freqs]
      /\ backend'.freq = busSettings.freq /\ backend'.started = LastReset(o)
  BY <1>2, <1>3, BackoffFacts
<1>6. stuck' = ~Freed(o) /\ hardwareOk' = LastReset(o) /\ sinceRecovery' = 0
  BY DEF Recovered
<1>7. (~Freed(o)) \in BOOLEAN
  BY <1>2
<1> QED BY <1>2, <1>4, <1>5, <1>6, <1>7

\* Every step of the bus keeps the invariant, and a recovery by the policy comes only
\* when the backoff is over.
LEMMA BusStep ==
  ASSUME BusInv, [BusNext]_busVars
  PROVE  /\ BusInv'
         /\ BusNext => (recovery' = "auto" => autoAge >= busSettings.backoff)
<1> USE DEF BusInv
<1>1. BusTypes
  OBVIOUS
<1>2. CASE FastFail
  <2>1. Charge /\ busErrors' = Capped(busErrors + 1, FailMax)
    BY <1>2 DEF FastFail, Failed
  <2>2. setFreq' \in {"none", "owed", "queued"} /\ freqLost' \in BOOLEAN
    BY <1>1, <1>2 DEF FastFail, BusTypes
  <2>3. BusTypes'
    BY <1>1, <1>2, <2>1, <2>2, ChargeStep, CappedFacts DEF FastFail, busMain, BusTypes
  <2>4. setFreq' = setFreq \/ freqLost'
    BY <1>2 DEF FastFail
  <2>5. FrequencyFollows'
    BY <1>2, <2>1, <2>4, ChargeStep DEF FastFail, busMain, FrequencyFollows
  <2> QED BY <2>1, <2>3, <2>5, ChargeStep DEF RecoveredMeansUp
<1>3. CASE Transfer \/ AnswerFromDriver
  <2>0. UNCHANGED <<busMain, freqVars>>
    BY <1>3 DEF Transfer, AnswerFromDriver
  <2>1. CASE Failed \/ Slow
    <3>1. Charge /\ busErrors' \in Nat
      BY <1>1, <2>1, CappedFacts DEF Failed, Slow
    <3>2. BusTypes'
      BY <1>1, <2>0, <3>1, ChargeStep DEF busMain, freqVars, BusTypes
    <3>3. FrequencyFollows'
      BY <2>0, <3>1, ChargeStep DEF busMain, freqVars, FrequencyFollows
    <3> QED BY <3>1, <3>2, <3>3, ChargeStep DEF RecoveredMeansUp
  <2>2. CASE Succeeded
    <3>1. BusTypes'
      BY <1>1, <2>0, <2>2, ClearStep DEF Succeeded, busMain, freqVars, busEnv, BusTypes
    <3>2. FrequencyFollows' /\ RecoveredMeansUp'
      BY <2>0, <2>2
        DEF Succeeded, busMain, freqVars, FrequencyFollows, RecoveredMeansUp
    <3>3. autoAge' = BackoffMax + 1 /\ sinceRecovery' = sinceRecovery /\ recovery' = "none"
      BY <1>1, <2>2, ClearStep DEF Succeeded
    <3> QED BY <1>1, <3>1, <3>2, <3>3
  <2> QED BY <1>3, <2>1, <2>2 DEF Transfer, AnswerFromDriver
<1>4. CASE RunSetFreq
  <2>1. busMain' = busMain /\ setFreq' = "none" /\ freqLost' = FALSE
    BY <1>4 DEF RunSetFreq
  <2>2. CASE ShouldRecover(OnFailure(policy)) /\ Failed
    <3>1. Charge /\ busErrors' \in Nat /\ backend'.freq = busSettings.freq
      BY <1>1, <2>2, CappedFacts, ChargeStep DEF Failed
    <3>2. BusTypes'
      BY <1>1, <2>1, <3>1, ChargeStep DEF busMain, BusTypes
    <3>3. FrequencyFollows'
      BY <2>1, <3>1 DEF busMain, FrequencyFollows
    <3> QED BY <3>1, <3>2, <3>3, ChargeStep DEF RecoveredMeansUp
  <2>3. CASE /\ Clear /\ busErrors' = 0
             /\ backend' = [started |-> TRUE, freq |-> busSettings.freq]
             /\ recovery' = "none" /\ UNCHANGED <<busEnv, sinceRecovery>>
    <3>1. BusTypes'
      BY <1>1, <2>1, <2>3, ClearStep, BackoffFacts DEF busMain, busEnv, BusTypes
    <3>2. FrequencyFollows' /\ RecoveredMeansUp'
      BY <2>1, <2>3 DEF busMain, FrequencyFollows, RecoveredMeansUp
    <3>3. autoAge' = BackoffMax + 1 /\ sinceRecovery' = sinceRecovery /\ recovery' = "none"
      BY <1>1, <2>3, ClearStep
    <3> QED BY <1>1, <3>1, <3>2, <3>3
  <2>4. CASE /\ policy' = OnFailure(policy) /\ busErrors' = Capped(busErrors + 1, FailMax)
             /\ backend' = [started |-> backend.started /\ hardwareOk, freq |-> busSettings.freq]
             /\ recovery' = "none" /\ UNCHANGED <<busEnv, sinceRecovery, autoAge>>
    <3>1. (backend.started /\ hardwareOk) \in BOOLEAN
      OBVIOUS
    <3>2. backend' \in [started : BOOLEAN, freq : Freqs] /\ backend'.freq = busSettings.freq
      BY <1>1, <2>4, <3>1, BackoffFacts
    <3>3. policy' \in PolicyStates /\ policy'.hasRecovered = policy.hasRecovered
      BY <1>1, <2>4, PolicyFacts DEF BusTypes
    <3>4. BusTypes'
      BY <1>1, <2>1, <2>4, <3>2, <3>3, CappedFacts DEF busMain, busEnv, BusTypes
    <3>5. FrequencyFollows' /\ RecoveredMeansUp'
      BY <2>1, <2>4, <3>2 DEF busMain, FrequencyFollows, RecoveredMeansUp
    <3> QED BY <2>4, <3>3, <3>4, <3>5
  <2> QED BY <1>4, <2>2, <2>3, <2>4 DEF RunSetFreq
<1>5. CASE RunRecover
  <2>1. PICK o \in Outcomes :
          Recovered(o) /\ recovery' = IF StatusOk(o) THEN "ok" ELSE "failed"
    BY <1>5 DEF RunRecover
  <2>2. RecoveredMeansUp' /\ FrequencyFollows'
    BY <1>1, <1>5, <2>1, RecoverStep
      DEF RunRecover, RecoveredMeansUp, FrequencyFollows, busMain
  <2>3. CASE Clear /\ busErrors' = 0
    <3>1. BusTypes'
      BY <1>1, <1>5, <2>1, <2>3, RecoverStep, ClearStep
        DEF RunRecover, busMain, freqVars, BusTypes
    <3> QED BY <1>1, <2>1, <2>2, <2>3, <3>1, RecoverStep, ClearStep DEF BusTypes
  <2>4. CASE /\ policy' = OnFailure(OnRecovery(policy))
             /\ busErrors' = Capped(busErrors + 1, FailMax)
             /\ UNCHANGED autoAge
    <3>1. policy' \in PolicyStates /\ policy'.hasRecovered
      BY <1>1, <2>4, PolicyFacts DEF BusTypes
    <3>2. BusTypes'
      BY <1>1, <1>5, <2>1, <2>4, <3>1, RecoverStep, CappedFacts
        DEF RunRecover, busMain, freqVars, BusTypes
    <3> QED BY <1>1, <2>1, <2>2, <2>4, <3>1, <3>2, RecoverStep, BackoffFacts DEF BusTypes
  <2> QED BY <1>5, <2>3, <2>4 DEF RunRecover
<1>6. CASE ExpireRequest
  <2>1. policy' \in PolicyStates /\ policy'.hasRecovered = policy.hasRecovered
    BY <1>1, <1>6, PolicyFacts DEF ExpireRequest, BusTypes
  <2>2. setFreq' \in {"none", "owed", "queued"} /\ freqLost' \in BOOLEAN
    BY <1>1, <1>6 DEF ExpireRequest, BusTypes
  <2>3. BusTypes'
    BY <1>1, <1>6, <2>1, <2>2, CappedFacts DEF ExpireRequest, NoRecovery, busMain, busEnv, BusTypes
  <2>4. setFreq' = setFreq \/ freqLost'
    BY <1>6 DEF ExpireRequest
  <2>5. FrequencyFollows' /\ RecoveredMeansUp'
    BY <1>6, <2>4 DEF ExpireRequest, NoRecovery, busMain, FrequencyFollows, RecoveredMeansUp
  <2> QED BY <1>6, <2>1, <2>3, <2>5 DEF ExpireRequest, NoRecovery
<1>7. CASE ChangeBusSettings \/ AskSetFreq
  BY <1>1, <1>7
    DEF ChangeBusSettings, AskSetFreq, NoRecovery, busMain, busEnv, BusTypes,
        FrequencyFollows, RecoveredMeansUp
<1>8. CASE Upset
  <2>1. stuck' \in BOOLEAN /\ hardwareOk' \in BOOLEAN
    BY <1>1, <1>8 DEF Upset, BusTypes
  <2> QED BY <1>1, <1>8, <2>1
       DEF Upset, busMain, freqVars, BusTypes, FrequencyFollows, RecoveredMeansUp
<1>9. CASE BusTime
  <2>1. /\ autoAge' >= sinceRecovery' /\ sinceRecovery' <= BackoffMax + 1
        /\ ~policy'.hasRecovered => autoAge' = BackoffMax + 1
    BY <1>1, <1>9, BackoffFacts DEF BusTime, Capped, BusTypes
  <2>2. BusTypes'
    BY <1>1, <1>9, CappedFacts DEF BusTime, busMain, freqVars, busEnv, BusTypes
  <2> QED BY <1>9, <2>1, <2>2
       DEF BusTime, busMain, freqVars, busEnv, FrequencyFollows, RecoveredMeansUp
<1>10. CASE UNCHANGED busVars
  <2>1. BusInv'
    BY <1>10 DEF busVars, busEnv, busMain, freqVars, BusTypes, FrequencyFollows,
                 RecoveredMeansUp
  <2>2. BusNext => (recovery' = "auto" => autoAge >= busSettings.backoff)
    BY <1>2, <1>3, <1>4, <1>5, <1>6, <1>7, <1>8, <1>9 DEF BusNext
  <2> QED BY <2>1, <2>2
<1> QED BY <1>2, <1>3, <1>4, <1>5, <1>6, <1>7, <1>8, <1>9, <1>10 DEF BusNext

\* It holds when the task starts.
LEMMA BusStart ==
  ASSUME BusInit PROVE BusInv
<1>1. busSettings \in [freq : Freqs, backoff : Backoffs]
  BY DEF BusInit
<1>2. busSettings.backoff \in 1..BackoffMax /\ BackoffMax \in Nat /\ busSettings.freq \in Freqs
  BY <1>1, I2cBusAssumption
<1>3. BusTypes
  <2>1. policy \in PolicyStates
    BY <1>2 DEF BusInit, PolicyStates
  <2>2. backend \in [started : BOOLEAN, freq : Freqs]
    BY <1>2 DEF BusInit
  <2>3. stuck \in BOOLEAN /\ hardwareOk \in BOOLEAN /\ freqLost \in BOOLEAN
    BY DEF BusInit
  <2>4. setFreq \in {"none", "owed", "queued"}
    BY DEF BusInit
  <2>5. sinceRecovery \in Nat /\ autoAge \in Nat /\ busErrors \in Nat
    BY <1>2 DEF BusInit
  <2> QED BY <1>1, <2>1, <2>2, <2>3, <2>4, <2>5 DEF BusTypes
<1>4. ~policy.hasRecovered => autoAge = BackoffMax + 1
  BY DEF BusInit
<1> QED BY <1>2, <1>3, <1>4 DEF BusInit, BusInv, RecoveredMeansUp, FrequencyFollows

\* A recovery reported as done (recoverBus() in I2cTask.cpp) leaves a started backend
\* and free lines.
THEOREM RecoveryIsHonest == BusSpec => []RecoveredMeansUp
<1>1. BusInv /\ [BusNext]_busVars => BusInv'
  BY BusStep
<1>2. BusInit => BusInv
  BY BusStart
<1>3. BusInv => RecoveredMeansUp
  BY DEF BusInv
<1> QED BY <1>1, <1>2, <1>3, PTL DEF BusSpec

\* Without a success in between, the recoveries of the policy keep the backoff the user
\* chose (RecoveryPolicy::shouldRecover), whatever is changed or requested meanwhile.
THEOREM RecoveryAlwaysPaced == BusSpec => RecoveryPaced
<1>1. BusInv /\ [BusNext]_busVars => BusInv'
  BY BusStep
<1>2. BusInit => BusInv
  BY BusStart
<1>3. BusInv /\ [BusNext]_busVars
        => [recovery' = "auto" => autoAge >= busSettings.backoff]_busVars
  BY BusStep
<1> QED BY <1>1, <1>2, <1>3, PTL DEF BusSpec, RecoveryPaced

\* The backend runs at the frequency of the settings, a SET_FREQ is on its way, or the
\* last one was lost (I2cTask::applySettings ignores what enqueue() says).
THEOREM FrequencyAlwaysFollows == BusSpec => []FrequencyFollows
<1>1. BusInv /\ [BusNext]_busVars => BusInv'
  BY BusStep
<1>2. BusInit => BusInv
  BY BusStart
<1>3. BusInv => FrequencyFollows
  BY DEF BusInv
<1> QED BY <1>1, <1>2, <1>3, PTL DEF BusSpec

-----------------------------------------------------------------------------
(* The drivers *)

DriverStates == [initialized : BOOLEAN, config : Nat, offline : BOOLEAN]
ChipStates == [time : {"old", "set", "lost"}, latched : BOOLEAN]

(* The calls that can be left in a request for the clock. *)
RtcCalls == {<<"read">>, <<"setTime", "readValidity">>, <<"readValidity">>, <<"clearFlags">>}

DriverTypes ==
  /\ driver \in DriverStates /\ chip \in ChipStates
  /\ captured \in Nat /\ driverSettings \in Nat
  /\ lost \in BOOLEAN

(* What the task read for a begin() that runs is in use, unless it was overtaken; the
   calls after setTime are made on a chip that has the time, unless it lost power. *)
DriverInv ==
  /\ DriverTypes
  /\ driverPc = "begin" /\ ~raced => captured = driverSettings
  /\ DriverConfigCurrent
  /\ device = "RTC" /\ driverPc # "idle" => steps \in RtcCalls
  /\ device = "RTC" /\ driverPc # "idle" /\ ~lost
       /\ Head(steps) \in {"readValidity", "clearFlags"} => chip.time = "set"

\* The sequences of calls, one by one.
LEMMA RtcCallFacts ==
  /\ Head(<<"read">>) = "read" /\ Tail(<<"read">>) = <<>>
  /\ Head(<<"setTime", "readValidity">>) = "setTime"
  /\ Tail(<<"setTime", "readValidity">>) = <<"readValidity">>
  /\ Head(<<"readValidity">>) = "readValidity" /\ Tail(<<"readValidity">>) = <<>>
  /\ Head(<<"clearFlags">>) = "clearFlags" /\ Tail(<<"clearFlags">>) = <<>>
  /\ <<"clearFlags">> # <<>> /\ <<"readValidity">> # <<>>
OBVIOUS

\* The effects on the chip.
LEMMA ChipUpdates ==
  \A c \in ChipStates :
    /\ [c EXCEPT !.time = "set"] \in ChipStates
    /\ [c EXCEPT !.time = "set"].time = "set"
    /\ [c EXCEPT !.latched = FALSE] \in ChipStates
    /\ ~[c EXCEPT !.latched = FALSE].latched
    /\ [c EXCEPT !.latched = FALSE].time = c.time
BY DEF ChipStates

\* Updates of the driver's state.
LEMMA DriverUpdates ==
  \A d \in DriverStates :
    /\ \A b \in BOOLEAN :
         /\ [d EXCEPT !.offline = b] \in DriverStates
         /\ [d EXCEPT !.offline = b].initialized = d.initialized
         /\ [d EXCEPT !.offline = b].config = d.config
    /\ [d EXCEPT !.initialized = FALSE] \in DriverStates
    /\ ~[d EXCEPT !.initialized = FALSE].initialized
BY DEF DriverStates

\* What a call of a request for the clock that succeeds does to the chip, and what
\* calls it leaves.
LEMMA RtcCall ==
  ASSUME DriverInv, device = "RTC", driverPc # "idle", Effect(Head(steps))
  PROVE  /\ Rest(Head(steps)) \in RtcCalls \union {<<>>}
         /\ ~lost /\ Rest(Head(steps)) # <<>>
              /\ Head(Rest(Head(steps))) \in {"readValidity", "clearFlags"} => chip'.time = "set"
         /\ ~lost /\ Rest(Head(steps)) = <<>> /\ Head(steps) # "read"
              => chip'.time = "set" /\ ~chip'.latched
<1> DEFINE call == Head(steps)
<1>1. steps \in RtcCalls /\ chip \in ChipStates
  BY DEF DriverInv, DriverTypes
<1>2. CASE steps = <<"read">>
  <2>1. Rest(call) = <<>>
    BY <1>2, RtcCallFacts DEF Rest
  <2> QED BY <1>2, <2>1, RtcCallFacts
<1>3. CASE steps = <<"setTime", "readValidity">>
  <2>1. Rest(call) = <<"readValidity">>
    BY <1>3, RtcCallFacts DEF Rest
  <2>2. chip' = [chip EXCEPT !.time = "set"]
    BY <1>3, RtcCallFacts DEF Effect
  <2>3. chip'.time = "set"
    BY <1>1, <2>2, ChipUpdates
  <2> QED BY <2>1, <2>3, RtcCallFacts DEF RtcCalls
<1>4. CASE steps = <<"readValidity">>
  <2>1. Rest(call) = IF chip.latched THEN <<"clearFlags">> ELSE <<>>
    BY <1>4, RtcCallFacts DEF Rest
  <2>2. chip' = chip
    BY <1>4, RtcCallFacts DEF Effect
  <2>3. ~lost => chip.time = "set"
    BY <1>4, RtcCallFacts DEF DriverInv
  <2> QED BY <2>1, <2>2, <2>3, RtcCallFacts DEF RtcCalls
<1>5. CASE steps = <<"clearFlags">>
  <2>1. Rest(call) = <<>>
    BY <1>5, RtcCallFacts DEF Rest
  <2>2. chip' = [chip EXCEPT !.latched = FALSE]
    BY <1>5, RtcCallFacts DEF Effect
  <2>3. ~chip'.latched /\ chip'.time = chip.time
    BY <1>1, <2>2, ChipUpdates
  <2>4. ~lost => chip.time = "set"
    BY <1>5, RtcCallFacts DEF DriverInv
  <2> QED BY <2>1, <2>3, <2>4
<1> QED BY <1>1, <1>2, <1>3, <1>4, <1>5 DEF RtcCalls

\* Whatever is called, the chip keeps its type.
LEMMA EffectTyped ==
  ASSUME DriverTypes, Effect(Head(steps)) PROVE chip' \in ChipStates
BY ChipUpdates DEF DriverTypes, Effect

(* What a step may say of the clock. *)
HonestStep ==
  driverPc # "idle" /\ driverPc' = "idle" /\ answer' = "ok" /\ Head(steps) # "read"
    /\ device = "RTC" /\ ~lost
  => chip'.time = "set" /\ ~chip'.latched

\* A request that begins with a driver that is not ready reads the settings of this
\* moment; one for the clock has the calls of the clock.
LEMMA StartStep ==
  ASSUME DriverInv, StartRequest PROVE DriverInv' /\ HonestStep
<1> USE DEF DriverInv
<1>1. device = "RTC" => steps' \in {<<"read">>, <<"setTime", "readValidity">>}
  BY DEF StartRequest, Requested
<1>2. device' = device /\ chip' = chip /\ driverSettings' = driverSettings
      /\ applying' = applying /\ lost' = FALSE
  BY DEF StartRequest
<1>3. driverPc' # "idle"
  BY DEF StartRequest
<1>4. CASE Ready
  <2>1. driverPc' = "call" /\ driver' = driver /\ captured' = captured /\ raced' = raced
    BY <1>4 DEF StartRequest
  <2>2. DriverTypes' /\ DriverConfigCurrent'
    BY <1>2, <2>1 DEF DriverTypes, DriverConfigCurrent
  <2> QED BY <1>1, <1>2, <1>3, <2>1, <2>2, RtcCallFacts DEF RtcCalls, HonestStep
<1>5. CASE ~Ready
  <2>1. driverPc' = "begin" /\ captured' = driverSettings /\ raced' = FALSE
        /\ driver' = [driver EXCEPT !.initialized = FALSE]
    BY <1>5 DEF StartRequest
  <2>2. driver' \in DriverStates /\ ~driver'.initialized
    BY <2>1, DriverUpdates DEF DriverTypes
  <2>3. DriverTypes' /\ DriverConfigCurrent'
    BY <1>2, <2>1, <2>2 DEF DriverTypes, DriverConfigCurrent
  <2> QED BY <1>1, <1>2, <1>3, <2>1, <2>3, RtcCallFacts DEF RtcCalls, HonestStep
<1> QED BY <1>4, <1>5

\* A call that succeeds goes on with the rest of its request, or ends it with the chip
\* as the answer says.
LEMMA CallOkStep ==
  ASSUME DriverInv, CallOk PROVE DriverInv' /\ HonestStep
<1> USE DEF DriverInv
<1>1. /\ driverPc # "idle" /\ Effect(Head(steps))
      /\ UNCHANGED <<device, driver, captured, lost, driverSettings, applying, raced>>
  BY DEF CallOk
<1>2. DriverTypes'
  BY <1>1, EffectTyped DEF DriverTypes
<1>3. CASE Rest(Head(steps)) = <<>>
  <2>1. driverPc' = "idle"
    BY <1>3 DEF CallOk, End
  <2>2. DriverConfigCurrent'
    BY <1>1 DEF DriverConfigCurrent
  <2>3. HonestStep
    BY <1>1, <1>3, RtcCall DEF HonestStep
  <2> QED BY <1>1, <1>2, <2>1, <2>2, <2>3
<1>4. CASE Rest(Head(steps)) # <<>>
  <2>1. driverPc' = "call" /\ steps' = Rest(Head(steps))
    BY <1>4 DEF CallOk
  <2>2. DriverConfigCurrent'
    BY <1>1 DEF DriverConfigCurrent
  <2>3. device = "RTC" => steps' \in RtcCalls
    BY <1>1, <1>4, <2>1, RtcCall
  <2>4. device = "RTC" /\ ~lost /\ Head(steps') \in {"readValidity", "clearFlags"}
          => chip'.time = "set"
    BY <1>1, <1>4, <2>1, RtcCall
  <2> QED BY <1>1, <1>2, <2>1, <2>2, <2>3, <2>4 DEF HonestStep
<1> QED BY <1>3, <1>4

\* A call that fails, a refused call and a recovery leave the chip alone and end in no
\* good answer.
LEMMA FailStep ==
  ASSUME DriverInv, CallFails \/ CallRefused \/ RecoverDriver
  PROVE  DriverInv' /\ HonestStep
<1> USE DEF DriverInv
<1>1. /\ driverPc # "idle"
      /\ UNCHANGED <<device, captured, lost, driverSettings, applying, chip, raced>>
  BY DEF CallFails, CallRefused, RecoverDriver
<1>2. driver' = driver \/ \E b \in BOOLEAN : driver' = [driver EXCEPT !.offline = b]
  <2>1. CASE CallFails
    BY <2>1 DEF CallFails
  <2>2. CASE CallRefused
    BY <2>2 DEF CallRefused
  <2>3. CASE RecoverDriver
    <3>1. (~answering) \in BOOLEAN
      OBVIOUS
    <3> QED BY <2>3, <3>1, Zenon DEF RecoverDriver
  <2> QED BY <2>1, <2>2, <2>3
<1>3. /\ driver' \in DriverStates
      /\ driver'.initialized = driver.initialized /\ driver'.config = driver.config
  BY <1>2, DriverUpdates, Zenon DEF DriverTypes
<1>4. DriverTypes' /\ DriverConfigCurrent'
  BY <1>1, <1>3 DEF DriverTypes, DriverConfigCurrent
<1>5. \/ driverPc' = "idle" /\ answer' # "ok"
      \/ driverPc' \in {"recover", "retry"} /\ steps' = steps
  <2>1. CASE CallFails
    BY <2>1 DEF CallFails, End
  <2>2. CASE CallRefused
    BY <2>2 DEF CallRefused, End
  <2>3. CASE RecoverDriver
    BY <2>3 DEF RecoverDriver, End
  <2> QED BY <2>1, <2>2, <2>3
<1> QED BY <1>1, <1>4, <1>5 DEF HonestStep

\* Every step keeps what is known of the driver and its request.
LEMMA DriverStep ==
  ASSUME DriverInv, [DriverNext]_driverVars
  PROVE  DriverInv' /\ (DriverNext => HonestStep)
<1> USE DEF DriverInv
<1>1. CASE StartRequest \/ CallOk \/ CallFails \/ CallRefused \/ RecoverDriver
  BY <1>1, StartStep, CallOkStep, FailStep
<1>2. CASE BeginDriver
  <2>1. /\ driverPc = "begin"
        /\ UNCHANGED <<device, captured, lost, driverSettings, applying, chip, raced>>
    BY <1>2 DEF BeginDriver
  <2>2. CASE answering
    <3>1. /\ driver' = [initialized |-> TRUE, config |-> captured, offline |-> FALSE]
          /\ driverPc' = "call" /\ steps' = steps
      BY <1>2, <2>2 DEF BeginDriver
    <3>2. driver' \in DriverStates /\ driver'.config = captured
      BY <3>1 DEF DriverStates, DriverTypes
    <3>3. DriverTypes' /\ DriverConfigCurrent'
      BY <2>1, <3>2 DEF DriverTypes, DriverConfigCurrent
    <3> QED BY <2>1, <3>1, <3>3 DEF HonestStep
  <2>3. CASE ~answering
    <3>1. driver' = driver /\ driverPc' = "idle" /\ answer' # "ok"
      BY <1>2, <2>3 DEF BeginDriver, End
    <3>2. DriverTypes' /\ DriverConfigCurrent'
      BY <2>1, <3>1 DEF DriverTypes, DriverConfigCurrent
    <3> QED BY <2>1, <3>1, <3>2 DEF HonestStep
  <2> QED BY <2>2, <2>3
<1>3. CASE WriteSettings
  <2>1. DriverTypes' /\ DriverConfigCurrent'
    BY <1>3 DEF WriteSettings, requestVars, DriverTypes, DriverConfigCurrent
  <2> QED BY <1>3, <2>1 DEF WriteSettings, requestVars, HonestStep
<1>4. CASE Uninitialize
  <2>1. driver' \in DriverStates /\ ~driver'.initialized
    BY <1>4, DriverUpdates DEF Uninitialize, DriverTypes
  <2>2. DriverTypes' /\ DriverConfigCurrent'
    BY <1>4, <2>1 DEF Uninitialize, requestVars, DriverTypes, DriverConfigCurrent
  <2> QED BY <1>4, <2>2 DEF Uninitialize, requestVars, HonestStep
<1>5. CASE Outage
  <2>1. chip' \in ChipStates /\ lost' \in BOOLEAN
    <3>1. \/ chip' = chip /\ lost' = lost
          \/ chip' = [time |-> "lost", latched |-> TRUE] /\ lost' = TRUE
      BY <1>5, Zenon DEF Outage
    <3>2. CASE chip' = chip /\ lost' = lost
      BY <3>2 DEF DriverTypes
    <3>3. CASE chip' = [time |-> "lost", latched |-> TRUE] /\ lost' = TRUE
      BY <3>3 DEF ChipStates
    <3> QED BY <3>1, <3>2, <3>3
  <2>2. DriverTypes' /\ DriverConfigCurrent'
    BY <1>5, <2>1 DEF Outage, DriverTypes, DriverConfigCurrent
  <2>3. ~lost' => chip' = chip /\ ~lost
    BY <1>5 DEF Outage
  <2> QED BY <1>5, <2>2, <2>3 DEF Outage, HonestStep
<1>6. CASE BackoffEnds \/ UNCHANGED driverVars
  <2>1. UNCHANGED <<device, driver, requestVars, driverSettings, applying, chip, raced>>
    BY <1>6 DEF BackoffEnds, driverVars
  <2>2. DriverTypes' /\ DriverConfigCurrent'
    BY <2>1 DEF requestVars, DriverTypes, DriverConfigCurrent
  <2> QED BY <2>1, <2>2 DEF requestVars, HonestStep
<1> QED BY <1>1, <1>2, <1>3, <1>4, <1>5, <1>6 DEF DriverNext, ServeRequest

\* It holds before the first request.
LEMMA DriverStart ==
  ASSUME DriverInit PROVE DriverInv
<1>1. DriverTypes /\ DriverConfigCurrent
  BY DEF DriverInit, DriverTypes, DriverStates, ChipStates, DriverConfigCurrent
<1> QED BY <1>1 DEF DriverInit, DriverInv

\* A driver that is set up runs with the settings in use once I2cTask::applySettings()
\* is through, unless they changed while its begin() ran.
THEOREM ConfigAlwaysCurrent == DriverSpec => []DriverConfigCurrent
<1>1. DriverInv /\ [DriverNext]_driverVars => DriverInv'
  BY DriverStep
<1>2. DriverInit => DriverInv
  BY DriverStart
<1>3. DriverInv => DriverConfigCurrent
  BY DEF DriverInv
<1> QED BY <1>1, <1>2, <1>3, PTL DEF DriverSpec

\* "Clock set" (RTC_SET in I2cTask.cpp) means that the chip has the time and its
\* validity flags are clear, through recoveries and retries, unless it lost power
\* meanwhile.
THEOREM ClockSetIsHonest == DriverSpec => RtcSetHonest
<1>1. DriverInv /\ [DriverNext]_driverVars => DriverInv'
  BY DriverStep
<1>2. DriverInit => DriverInv
  BY DriverStart
<1>3. DriverInv /\ [DriverNext]_driverVars => [HonestStep]_driverVars
  BY DriverStep
<1>4. DriverSpec => [][HonestStep]_driverVars
  BY <1>1, <1>2, <1>3, PTL DEF DriverSpec
<1> QED BY <1>4 DEF RtcSetHonest, HonestStep
=============================================================================
