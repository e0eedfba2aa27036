------------------------------ MODULE I2cDrivers ------------------------------
(***************************************************************************)
(* The device drivers the I2C task keeps for clock (RTC), climate sensor     *)
(* (ENV) and display: when one is set up, with which settings, and what a    *)
(* request does when the driver has gone OFFLINE.  Each request names one    *)
(* device and the task serves one request at a time, so one driver is        *)
(* followed: device says which.                                              *)
(*                                                                          *)
(* The driver libraries are external: they go OFFLINE after failures and      *)
(* refuse every call until recover() succeeds.                               *)
(***************************************************************************)
EXTENDS Naturals, Sequences

CONSTANTS
  MaxVersions,    \* bound: versions of the settings
  MaxOutages      \* bound: times the device stops or starts to answer, or loses power

VARIABLES
  device,         \* the driver followed
  driver,         \* initialized, the settings it was set up with, OFFLINE or not
  driverPc,       \* where the task is in a request
  steps,          \* library calls left in this request
  captured,       \* the settings the task read for begin()
  answer,         \* the status of the last request
  nextRecover,    \* _displayNextRecoverMs: "now", or "later" during the backoff
  driverSettings, \* version of the settings in use
  applying,       \* applySettings() has written the settings, not yet the driver's flag
  answering,      \* the device answers on the bus
  chip,           \* the clock chip: its time, and whether the validity flags are latched
  raced,          \* history: settings changed while begin() ran
  lost,           \* history: the chip lost power during this request
  outages         \* bound

requestVars == <<driverPc, steps, captured, answer, lost>>
driverVars == <<device, driver, requestVars, nextRecover, driverSettings, applying,
                answering, chip, raced, outages>>

DriverInit ==
  /\ device \in {"RTC", "ENV", "DISPLAY"}
  /\ driver = [initialized |-> FALSE, config |-> 0, offline |-> FALSE]
  /\ driverPc = "idle" /\ steps = <<>> /\ captured = 0 /\ answer = "none"
  /\ nextRecover = "now"
  /\ driverSettings = 1 /\ applying = FALSE
  /\ answering \in BOOLEAN
  /\ chip = [time |-> "old", latched |-> TRUE]
  /\ raced = FALSE /\ lost = FALSE /\ outages = 0

-----------------------------------------------------------------------------
(* The calls a request makes.  A fetch follows a trigger, whatever became of that;
   only a trigger recovers the climate sensor. *)
Requested ==
  CASE device = "RTC" -> {<<"read">>, <<"setTime", "readValidity">>}
    [] device = "ENV" -> {IF answer \in {"triggered", "missed"} THEN <<"fetch">>
                          ELSE <<"trigger">>}
    [] device = "DISPLAY" -> {<<"flush">>}

End(ok) ==
  /\ driverPc' = "idle" /\ steps' = <<>>
  /\ answer' = IF Head(steps) = "trigger" THEN IF ok THEN "triggered" ELSE "missed"
               ELSE IF ok THEN "ok" ELSE "failed"

(* What ensureXxxReady() compares with the settings of this moment: nothing more for
   the clock and the climate sensor (beyond address and timeout), everything it uses
   for the display. *)
Ready == driver.initialized /\ (device = "DISPLAY" => driver.config = driverSettings)

(* A driver that is not ready is ended and begun with the settings of this moment. *)
StartRequest ==
  /\ driverPc = "idle"
  /\ steps' \in Requested
  /\ lost' = FALSE /\ answer' = "none"
  /\ IF Ready
       THEN driverPc' = "call" /\ UNCHANGED <<driver, captured, raced, nextRecover>>
       ELSE /\ driverPc' = "begin" /\ captured' = driverSettings /\ raced' = FALSE
            /\ driver' = [driver EXCEPT !.initialized = FALSE]
            /\ nextRecover' = "now"
  /\ UNCHANGED <<device, driverSettings, applying, answering, chip, outages>>

BeginDriver ==
  /\ driverPc = "begin"
  /\ IF answering
       THEN /\ driver' = [initialized |-> TRUE, config |-> captured, offline |-> FALSE]
            /\ driverPc' = "call" /\ UNCHANGED <<steps, answer>>
       ELSE UNCHANGED driver /\ End(FALSE)
  /\ UNCHANGED <<device, captured, lost, nextRecover, driverSettings, applying, answering,
                 chip, raced, outages>>

(* What a call that succeeds does to the chip, and the calls that follow it: latched
   flags are cleared, each with a call. *)
Effect(call) ==
  chip' = CASE call = "setTime" -> [chip EXCEPT !.time = "set"]
            [] call = "clearFlags" -> [chip EXCEPT !.latched = FALSE]
            [] OTHER -> chip

\* Mutant: the validity flags are read and left latched.
Rest_FlagsStay(call) == Tail(steps)

Rest(call) ==
  IF call = "readValidity" /\ chip.latched THEN <<"clearFlags">> ELSE Tail(steps)

CallOk ==
  /\ driverPc \in {"call", "retry"} /\ ~driver.offline /\ answering
  /\ Effect(Head(steps))
  /\ IF Rest(Head(steps)) = <<>> THEN End(TRUE)
     ELSE driverPc' = "call" /\ steps' = Rest(Head(steps)) /\ UNCHANGED answer
  /\ UNCHANGED <<device, driver, captured, lost, nextRecover, driverSettings, applying,
                 answering, raced, outages>>

(* A call that fails may take the driver OFFLINE; the clock is then recovered and the
   call made once more. *)
CallFails ==
  /\ driverPc \in {"call", "retry"} /\ ~driver.offline /\ ~answering
  /\ \E offline \in BOOLEAN :
       /\ driver' = [driver EXCEPT !.offline = offline]
       /\ IF offline /\ device = "RTC" /\ driverPc = "call"
            THEN driverPc' = "recover" /\ UNCHANGED <<steps, answer>>
            ELSE End(FALSE)
  /\ UNCHANGED <<device, captured, lost, nextRecover, driverSettings, applying, answering,
                 chip, raced, outages>>

\* Mutant: no call recovers the climate sensor.
CallRefused_EnvStays ==
  /\ driverPc = "call" /\ driver.offline
  /\ IF device = "ENV" \/ (device = "DISPLAY" /\ nextRecover = "later")
       THEN End(FALSE)
       ELSE driverPc' = "recover" /\ UNCHANGED <<steps, answer>>
  /\ UNCHANGED <<device, driver, captured, lost, nextRecover, driverSettings, applying,
                 answering, chip, raced, outages>>

(* A driver that is OFFLINE refuses the call and is recovered first, except for a
   fetch, and except for the display during its backoff. *)
CallRefused ==
  /\ driverPc = "call" /\ driver.offline
  /\ IF Head(steps) = "fetch" \/ (device = "DISPLAY" /\ nextRecover = "later")
       THEN End(FALSE)
       ELSE driverPc' = "recover" /\ UNCHANGED <<steps, answer>>
  /\ UNCHANGED <<device, driver, captured, lost, nextRecover, driverSettings, applying,
                 answering, chip, raced, outages>>

RecoverDriver ==
  /\ driverPc = "recover"
  /\ driver' = [driver EXCEPT !.offline = ~answering]
  /\ IF answering THEN driverPc' = "retry" /\ UNCHANGED <<steps, answer>> ELSE End(FALSE)
  /\ nextRecover' = IF device = "DISPLAY" /\ ~answering THEN "later" ELSE "now"
  /\ UNCHANGED <<device, captured, lost, driverSettings, applying, answering, chip, raced,
                 outages>>

-----------------------------------------------------------------------------
(* The main loop: applySettings() writes the settings, then has the driver set up
   again if it was. *)
WriteSettings ==
  /\ ~applying /\ driverSettings < MaxVersions
  /\ driverSettings' = driverSettings + 1
  /\ applying' = TRUE
  /\ raced' = (raced \/ driverPc = "begin")
  /\ UNCHANGED <<device, driver, requestVars, nextRecover, answering, chip, outages>>

Uninitialize ==
  /\ applying /\ applying' = FALSE
  /\ driver' = [driver EXCEPT !.initialized = FALSE]
  /\ nextRecover' = IF driver.initialized THEN "now" ELSE nextRecover
  /\ UNCHANGED <<device, requestVars, driverSettings, answering, chip, raced, outages>>

(* The device, its supply and the clock. *)
Outage ==
  /\ outages < MaxOutages /\ outages' = outages + 1
  /\ \/ answering' = ~answering /\ UNCHANGED <<chip, lost>>
     \/ chip' = [time |-> "lost", latched |-> TRUE] /\ lost' = TRUE /\ UNCHANGED answering
  /\ UNCHANGED <<device, driver, driverPc, steps, captured, answer, nextRecover,
                 driverSettings, applying, raced>>

BackoffEnds ==
  /\ nextRecover = "later" /\ nextRecover' = "now"
  /\ UNCHANGED <<device, driver, requestVars, driverSettings, applying, answering, chip,
                 raced, outages>>

-----------------------------------------------------------------------------
ServeRequest ==
  StartRequest \/ BeginDriver \/ CallOk \/ CallFails \/ CallRefused \/ RecoverDriver

DriverNext == ServeRequest \/ WriteSettings \/ Uninitialize \/ Outage \/ BackoffEnds

(* Devices are polled for ever; the main loop and the clock go on. *)
DriverFairness ==
  WF_driverVars(ServeRequest) /\ WF_driverVars(Uninitialize) /\ WF_driverVars(BackoffEnds)

DriverSpec == DriverInit /\ [][DriverNext]_driverVars /\ DriverFairness

-----------------------------------------------------------------------------
(* Properties *)

(* A driver that is set up runs with the settings in use once applySettings() is
   through, unless they changed while its begin() ran: then it keeps the old ones,
   and nothing sets it up again before the next change. *)
DriverConfigCurrent ==
  driver.initialized /\ ~applying /\ ~raced => driver.config = driverSettings

(* Setting the clock is reported done only when the chip has the time and its
   validity flags are clear, through failures, recoveries and retries; unless the
   chip lost power while it was done. *)
RtcSetHonest ==
  [][driverPc # "idle" /\ driverPc' = "idle" /\ answer' = "ok" /\ Head(steps) # "read"
       /\ device = "RTC" /\ ~lost
       => chip'.time = "set" /\ ~chip'.latched]_driverVars

(* A device that answers again is served again, through OFFLINE and backoff. *)
DriverComesBack == <>[]answering => []<>(answer = "ok")
=============================================================================
