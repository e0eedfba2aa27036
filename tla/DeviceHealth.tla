----------------------------- MODULE DeviceHealth -----------------------------
(***************************************************************************)
(* What the main loop makes of the health of its parts: the status of each  *)
(* device, the health of the system, and the health light.  One tick runs   *)
(* the queued commands, takes a sample, evaluates the devices and shows the *)
(* system's health.  The table of devices is written under the state lock,  *)
(* which may time out.                                                      *)
(*                                                                          *)
(* SD stands for the devices evaluated afresh in every tick, RTC for those  *)
(* written when a sample is taken.                                          *)
(***************************************************************************)
EXTENDS Naturals

CONSTANTS
  HealthDebounce,   \* ledHealthDebounceMs, in ticks
  DegradedWindow    \* commandQueueDegradedWindowMs, in ticks

ASSUME DeviceHealthAssumption == HealthDebounce \in Nat \ {0} /\ DegradedWindow \in Nat

VARIABLES
  phase,            \* what the tick does next
  deviceStatus,     \* the health in _deviceStatus
  depthHigh,        \* the command queue is as deep as its threshold
  overflowAge,      \* ticks since the last overflow, or Never
  lastCommandOk,    \* lastCommandStatus
  sdIssueAge,       \* ticks since the logger's counters last grew, or Never
  sdMissed,         \* they grew while the card was not mounted
  sysHealth,        \* the health this tick came to
  initComplete,     \* the light has left its init pattern
  ledHealthDebounce,\* stable, pending, and for how long it is pending
  agreed            \* history: for how many ticks the system's health has been the same

healthVars == <<phase, deviceStatus, depthHigh, overflowAge, lastCommandOk,
                sdIssueAge, sdMissed, sysHealth, initComplete, ledHealthDebounce,
                agreed>>

Levels  == {"OK", "DEGRADED", "FAULT"}
Devices == {"WEB", "SD", "RTC"}
Never   == DegradedWindow + 1
Older(age) == IF age = Never THEN Never ELSE age + 1

HealthInit ==
  /\ phase = "commands"
  /\ deviceStatus = [d \in Devices |-> IF d = "RTC" THEN "DEGRADED"
                                       ELSE IF d = "WEB" THEN "UNKNOWN" ELSE "OK"]
  /\ sysHealth = "UNKNOWN"
  /\ depthHigh = FALSE /\ overflowAge = Never /\ lastCommandOk = TRUE
  /\ sdIssueAge = Never /\ sdMissed = FALSE
  /\ initComplete = FALSE
  /\ ledHealthDebounce = [stable |-> "none", pending |-> "none", since |-> 0]
  /\ agreed = 0

-----------------------------------------------------------------------------
(* Commands ran, or none was queued; the queue may have overflowed since. *)
RunCommands ==
  /\ phase = "commands" /\ phase' = "sample"
  /\ lastCommandOk' \in BOOLEAN
  /\ depthHigh' \in BOOLEAN
  /\ overflowAge' \in {0, Older(overflowAge)}
  /\ UNCHANGED <<deviceStatus, sdIssueAge, sdMissed, sysHealth,
                 initComplete, ledHealthDebounce, agreed>>

(* A sample is due and the lock is taken, or not. *)
TakeSample ==
  /\ phase = "sample" /\ phase' = "evaluate"
  /\ \/ \E h \in Levels : deviceStatus' = [deviceStatus EXCEPT !["RTC"] = h]
     \/ UNCHANGED deviceStatus
  /\ UNCHANGED <<depthHigh, overflowAge, lastCommandOk, sdIssueAge, sdMissed,
                 sysHealth, initComplete, ledHealthDebounce, agreed>>

-----------------------------------------------------------------------------
(* isCommandQueueDegraded() *)
CommandQueueDegraded == depthHigh \/ overflowAge <= DegradedWindow

(* A fresh tick begins with the health unknown and the status ok; the web server's
   is only ever changed for the worse, and a device left like that is not written. *)
WebHealth == IF CommandQueueDegraded \/ ~lastCommandOk THEN "DEGRADED" ELSE "UNKNOWN"

(* The logger's counters are compared while the card is mounted: new issues count
   for a while. *)
SdEvaluated(logger, grew) ==
  IF logger = "off"
    THEN /\ sdMissed' = (sdMissed \/ grew)
         /\ sdIssueAge' = Older(sdIssueAge)
    ELSE /\ sdMissed' = FALSE
         /\ sdIssueAge' = IF sdMissed \/ grew THEN 0 ELSE Older(sdIssueAge)

SdHealth(logger) == IF logger = "good" /\ sdIssueAge' > DegradedWindow THEN "OK" ELSE "DEGRADED"

Published(logger) ==
  [d \in Devices |->
     CASE d = "WEB" -> IF WebHealth = "UNKNOWN" THEN deviceStatus["WEB"] ELSE WebHealth
       [] d = "SD" -> SdHealth(logger)
       [] d = "RTC" -> deviceStatus["RTC"]]

WorstHealth(table) ==
  LET found == {table[d] : d \in Devices}
  IN IF "FAULT" \in found THEN "FAULT" ELSE IF "DEGRADED" \in found THEN "DEGRADED" ELSE "OK"

EvaluateDevices ==
  /\ phase = "evaluate" /\ phase' = "show"
  /\ \E logger \in {"off", "bad", "good"}, grew \in BOOLEAN :
       /\ SdEvaluated(logger, grew)
       /\ \/ deviceStatus' = Published(logger) /\ sysHealth' = WorstHealth(deviceStatus')
          \/ deviceStatus' = deviceStatus /\ sysHealth' = "DEGRADED"   \* the lock timed out
  /\ agreed' = IF sysHealth' # sysHealth THEN 1
               ELSE IF agreed = HealthDebounce + 1 THEN agreed ELSE agreed + 1
  /\ UNCHANGED <<depthHigh, overflowAge, lastCommandOk, initComplete,
                 ledHealthDebounce>>

-----------------------------------------------------------------------------
(* debounceHealth() *)
Settled(h) == [stable |-> h, pending |-> h, since |-> 0]

\* Mutant: a new pending level keeps the time of the one before.
Debounced_KeepsTime(target) ==
  LET now == ledHealthDebounce
  IN IF now.stable = "none" \/ target = "FAULT" \/ target = now.stable THEN Settled(target)
     ELSE IF now.since + 1 >= HealthDebounce
            THEN [now EXCEPT !.stable = target, !.pending = target, !.since = HealthDebounce]
     ELSE [now EXCEPT !.pending = target, !.since = @ + 1]

Debounced(target) ==
  LET now == ledHealthDebounce
  IN IF now.stable = "none" \/ target = "FAULT" \/ target = now.stable THEN Settled(target)
     ELSE IF target # now.pending THEN [now EXCEPT !.pending = target, !.since = 0]
     ELSE IF now.since + 1 >= HealthDebounce
            THEN [now EXCEPT !.stable = target, !.since = HealthDebounce]
     ELSE [now EXCEPT !.since = @ + 1]

(* The light keeps its init pattern for a while after the start. *)
ShowHealth ==
  /\ phase = "show" /\ phase' = "commands"
  /\ ledHealthDebounce' = IF initComplete THEN Debounced(sysHealth) ELSE ledHealthDebounce
  /\ UNCHANGED <<deviceStatus, depthHigh, overflowAge, lastCommandOk, sdIssueAge, sdMissed,
                 sysHealth, initComplete, agreed>>

InitTimeEnds ==
  /\ ~initComplete /\ initComplete' = TRUE
  /\ UNCHANGED <<phase, deviceStatus, depthHigh, overflowAge, lastCommandOk, sdIssueAge,
                 sdMissed, sysHealth, ledHealthDebounce, agreed>>

-----------------------------------------------------------------------------
Tick == RunCommands \/ TakeSample \/ EvaluateDevices \/ ShowHealth

HealthNext == Tick \/ InitTimeEnds

HealthSpec == HealthInit /\ [][HealthNext]_healthVars

-----------------------------------------------------------------------------
(* Properties *)

Shown == ledHealthDebounce.stable

(* The light shows a fault in the tick that finds it, and changes to anything else
   only after the system's health has been the same for the debounce time. *)
LedDebounced ==
  [][phase = "show" /\ initComplete =>
       /\ sysHealth = "FAULT" => Shown' = "FAULT"
       /\ Shown' # Shown /\ Shown # "none" /\ Shown' # "FAULT" => agreed > HealthDebounce]_healthVars

(* What QueueHealth.h says of the command queue, as the web server's status shows it:
   degraded only while an overflow is recent, the queue is deep or the last command
   failed. *)
WebHonest ==
  phase = "show" /\ deviceStatus["WEB"] = "DEGRADED"
    => CommandQueueDegraded \/ ~lastCommandOk
=============================================================================
