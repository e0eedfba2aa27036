-------------------------------- MODULE I2cBus --------------------------------
(***************************************************************************)
(* The I2C task below its queues: what a request does to the bus backend,   *)
(* the recovery policy and the error counters, and how applySettings(),      *)
(* called by the main loop, reaches the backend through a SET_FREQ request.  *)
(* Which requests come and in which order is the orchestrator's affair       *)
(* (I2cPipeline); here any request may come next.                           *)
(***************************************************************************)
EXTENDS Naturals

CONSTANTS
  Freqs,          \* bus frequencies
  Backoffs,       \* i2cRecoveryBackoffMs, in ticks: what a user may choose
  BackoffMax,     \* i2cRecoveryBackoffMaxMs, in ticks
  Threshold,      \* i2cMaxConsecutiveFailures
  FailMax,        \* where the counters of failures stop: 2^32 - 1 in the code
  PowerHook,      \* a power hook is configured
  MaxFaults,      \* bound: changes of the state of lines and hardware
  MaxChanges      \* bound: changes of the settings

ASSUME I2cBusAssumption ==
  /\ Backoffs \subseteq 1..BackoffMax /\ BackoffMax \in Nat \ {0}
  /\ Threshold \in Nat \ {0} /\ FailMax \in Nat /\ FailMax > Threshold
  /\ PowerHook \in BOOLEAN

VARIABLES
  busSettings,    \* frequency and recovery backoff in use
  backend,        \* _started and the frequency of _config
  stuck,          \* the GPIO probe finds a line held low
  hardwareOk,     \* a reset of the bus driver succeeds
  policy,         \* _consecutiveFailures, _hasRecovered, _currentBackoffMs
  sinceRecovery,  \* ticks since the last recovery
  autoAge,        \* history: ticks since the policy's last recovery, if no success came since
  busErrors,      \* consecutiveErrors of the metrics
  setFreq,        \* the SET_FREQ request: "none", "owed" while applySettings() runs, "queued"
  freqLost,       \* history: the last SET_FREQ was refused or expired
  recovery,       \* history: the last step's recovery: "none", the policy's ("auto"), or
                  \* the one RECOVER asked for and its status ("ok", "failed")
  faults, settingsChanges   \* bounds

busEnv  == <<stuck, hardwareOk, faults>>
busMain == <<busSettings, settingsChanges>>
freqVars == <<setFreq, freqLost>>
busVars == <<busEnv, busMain, freqVars, backend, policy, sinceRecovery, autoAge,
             busErrors, recovery>>

BusInit ==
  /\ busSettings \in [freq : Freqs, backoff : Backoffs]
  /\ backend = [started |-> TRUE, freq |-> busSettings.freq]
  /\ stuck = FALSE /\ hardwareOk = TRUE
  /\ policy = [failures |-> 0, hasRecovered |-> FALSE, current |-> busSettings.backoff]
  /\ sinceRecovery = 0 /\ autoAge = BackoffMax + 1 /\ busErrors = 0
  /\ setFreq = "none" /\ freqLost = FALSE /\ recovery = "none"
  /\ faults = 0 /\ settingsChanges = 0

-----------------------------------------------------------------------------
(* RecoveryPolicy *)

Capped(n, cap) == IF n > cap THEN cap ELSE n

OnSuccess(p) == [failures |-> 0, hasRecovered |-> FALSE, current |-> busSettings.backoff]
OnFailure(p) == [p EXCEPT !.failures = Capped(@ + 1, FailMax)]

CurrentBackoff == IF policy.current < busSettings.backoff THEN busSettings.backoff
                  ELSE policy.current

\* Mutant: the failures are compared for equality, and count on during the backoff.
ShouldRecover_Exactly(p) ==
  p.failures = Threshold /\ (p.hasRecovered => sinceRecovery >= CurrentBackoff)

ShouldRecover(p) ==
  p.failures >= Threshold /\ (p.hasRecovered => sinceRecovery >= CurrentBackoff)

\* Mutant: the recovery is not noted.
OnRecovery_Unnoted(p) ==
  [p EXCEPT !.current = IF @ < busSettings.backoff THEN busSettings.backoff
                        ELSE IF @ < BackoffMax THEN Capped(2 * @, BackoffMax) ELSE @]

OnRecovery(p) ==
  [p EXCEPT !.hasRecovered = TRUE,
            !.current = IF @ < busSettings.backoff THEN busSettings.backoff
                        ELSE IF @ < BackoffMax THEN Capped(2 * @, BackoffMax) ELSE @]

-----------------------------------------------------------------------------
(* recoverBus(): a reset; while a line is held, clock pulses and a second reset; if
   that does not free it, the power hook and a third.  Its status is that of the
   last of these that failed. *)
Outcomes ==
  {o \in [pulsed : BOOLEAN, cycled : BOOLEAN, hookOk : BOOLEAN, heals : BOOLEAN] :
     /\ o.pulsed \/ o.cycled => stuck /\ ~(o.pulsed /\ o.cycled)
     /\ o.cycled \/ o.heals => PowerHook /\ stuck /\ ~o.pulsed}

UsesHook(o)  == PowerHook /\ stuck /\ ~o.pulsed
Freed(o)     == ~stuck \/ o.pulsed \/ o.cycled
LastReset(o) == hardwareOk \/ o.heals         \* cycling the power may heal the hardware
StatusOk(o)  == hardwareOk /\ Freed(o) /\ (UsesHook(o) => o.hookOk)

Recovered(o) ==
  /\ stuck' = ~Freed(o)
  /\ hardwareOk' = LastReset(o)
  /\ backend' = [started |-> LastReset(o), freq |-> busSettings.freq]
  /\ sinceRecovery' = 0
  /\ UNCHANGED faults

NoRecovery ==
  /\ recovery' = "none"
  /\ UNCHANGED <<backend, busEnv, sinceRecovery, autoAge>>

-----------------------------------------------------------------------------
(* What processRequest() makes of the status of a request *)

(* A failure is charged to the policy, which may have the bus recovered. *)
Charge ==
  LET failed == OnFailure(policy)
  IN IF ShouldRecover(failed)
       THEN /\ \E o \in Outcomes : Recovered(o)
            /\ policy' = OnRecovery(failed)
            /\ recovery' = "auto" /\ autoAge' = 0
       ELSE policy' = failed /\ NoRecovery

Clear == policy' = OnSuccess(policy) /\ autoAge' = BackoffMax + 1

(* Policy and metrics agree on failure and success, but for a slow operation, which
   the metrics take as a success. *)
Failed    == Charge /\ busErrors' = Capped(busErrors + 1, FailMax)
Slow      == Charge /\ busErrors' = 0
Succeeded ==
  /\ Clear /\ busErrors' = 0
  /\ recovery' = "none"
  /\ UNCHANGED <<backend, busEnv, sinceRecovery>>

(* A held line fails any request at once; a backend that did not start refuses it. *)
FastFail ==
  /\ stuck
  /\ Failed
  /\ setFreq' \in {setFreq, IF setFreq = "queued" THEN "none" ELSE setFreq}
  /\ freqLost' = (freqLost \/ setFreq' # setFreq)
  /\ UNCHANGED busMain

Transfer ==
  /\ ~stuck
  /\ Failed \/ (backend.started /\ (Slow \/ Succeeded))
  /\ UNCHANGED <<busMain, freqVars>>

(* The driver of the environment sensor answers from its own state, with no transfer:
   a measurement is under way (IN_PROGRESS, BUSY) or not ready (RESOURCE_BUSY).  That
   counts as a success, whether or not the backend has started. *)
AnswerFromDriver ==
  /\ ~stuck
  /\ Succeeded
  /\ UNCHANGED <<busMain, freqVars>>

(* SET_FREQ takes the frequency of that moment and starts the backend again; one
   that had not started only takes the frequency.  A late answer is a failure. *)
RunSetFreq ==
  /\ ~stuck /\ setFreq = "queued"
  /\ setFreq' = "none" /\ freqLost' = FALSE
  /\ LET up == backend.started /\ hardwareOk
         failed == OnFailure(policy)
     IN \/ /\ up
           /\ Clear /\ busErrors' = 0
           /\ backend' = [started |-> TRUE, freq |-> busSettings.freq]
           /\ recovery' = "none" /\ UNCHANGED <<busEnv, sinceRecovery>>
        \/ ShouldRecover(failed) /\ Failed
        \/ /\ ~ShouldRecover(failed)
           /\ policy' = failed /\ busErrors' = Capped(busErrors + 1, FailMax)
           /\ backend' = [started |-> up, freq |-> busSettings.freq]
           /\ recovery' = "none" /\ UNCHANGED <<busEnv, sinceRecovery, autoAge>>
  /\ UNCHANGED busMain

(* RECOVER runs whatever the policy says; when it fails or is late no second one
   follows. *)
RunRecover ==
  /\ ~stuck
  /\ \E o \in Outcomes :
       /\ Recovered(o)
       /\ recovery' = IF StatusOk(o) THEN "ok" ELSE "failed"
  /\ \/ recovery' = "ok" /\ Clear /\ busErrors' = 0
     \/ /\ policy' = OnFailure(OnRecovery(policy))
        /\ busErrors' = Capped(busErrors + 1, FailMax)
        /\ UNCHANGED autoAge
  /\ UNCHANGED <<busMain, freqVars>>

(* A request that expired in the queue is charged, and recovers nothing. *)
ExpireRequest ==
  /\ policy' = OnFailure(policy)
  /\ busErrors' = Capped(busErrors + 1, FailMax)
  /\ setFreq' \in {setFreq, IF setFreq = "queued" THEN "none" ELSE setFreq}
  /\ freqLost' = (freqLost \/ setFreq' # setFreq)
  /\ NoRecovery
  /\ UNCHANGED busMain

-----------------------------------------------------------------------------
(* The main loop *)

(* applySettings(): first the settings and the policy ... *)
ChangeBusSettings ==
  /\ setFreq # "owed" /\ settingsChanges < MaxChanges
  /\ settingsChanges' = settingsChanges + 1
  /\ busSettings' \in [freq : Freqs, backoff : Backoffs]
  /\ setFreq' = "owed"
  /\ NoRecovery
  /\ UNCHANGED <<policy, busErrors, freqLost>>

(* ... then the request, whose refusal nobody looks at. *)
AskSetFreq ==
  /\ setFreq = "owed"
  /\ \/ setFreq' = "queued" /\ UNCHANGED freqLost
     \/ setFreq' = "none" /\ freqLost' = TRUE
  /\ NoRecovery
  /\ UNCHANGED <<busMain, policy, busErrors>>

-----------------------------------------------------------------------------
(* The lines, the hardware and the clock *)

Upset ==
  /\ faults < MaxFaults /\ faults' = faults + 1
  /\ \/ stuck' = ~stuck /\ UNCHANGED hardwareOk
     \/ hardwareOk' = ~hardwareOk /\ UNCHANGED stuck
  /\ recovery' = "none"
  /\ UNCHANGED <<busMain, freqVars, backend, policy, sinceRecovery, autoAge, busErrors>>

BusTime ==
  /\ sinceRecovery <= BackoffMax
  /\ sinceRecovery' = sinceRecovery + 1
  /\ autoAge' = Capped(autoAge + 1, BackoffMax + 1)
  /\ recovery' = "none"
  /\ UNCHANGED <<busMain, freqVars, backend, policy, busEnv, busErrors>>

-----------------------------------------------------------------------------
BusNext ==
  \/ FastFail \/ Transfer \/ AnswerFromDriver \/ RunSetFreq \/ RunRecover \/ ExpireRequest
  \/ ChangeBusSettings \/ AskSetFreq \/ Upset \/ BusTime

(* The clock moves and devices are polled for ever. *)
BusFairness == WF_busVars(BusTime) /\ WF_busVars(Transfer) /\ WF_busVars(FastFail)

BusSpec == BusInit /\ [][BusNext]_busVars /\ BusFairness

-----------------------------------------------------------------------------
(* Properties *)

(* A recovery that reports success leaves a started backend and free lines, on every
   way through reset, clock pulses and power hook; RECOVER's caller is told so. *)
RecoveredMeansUp == recovery = "ok" => backend.started /\ ~stuck

(* Without a success in between, the recoveries the policy asks for keep the backoff
   the user chose, whatever settings changes and requested recoveries come between. *)
RecoveryPaced == [][recovery' = "auto" => autoAge >= busSettings.backoff]_busVars

(* The backend runs at the frequency of the settings, or a SET_FREQ is on its way, or
   the last one was lost: refused by a full queue, expired, or failed by a held line. *)
FrequencyFollows == backend.freq = busSettings.freq \/ setFreq # "none" \/ freqLost

(* A bus whose hardware works again comes back without anybody asking for it, once the
   environment driver stops answering for a bus that is down: such an answer clears the
   failures the recovery waits for, and nothing in the code bounds how many there are. *)
AnswerWhileDown == ~backend.started /\ AnswerFromDriver
BusComesBack ==
  <>[](hardwareOk /\ ~stuck) /\ <>[][~AnswerWhileDown]_busVars => <>[](backend.started)
=============================================================================
