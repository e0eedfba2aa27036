------------------------------ MODULE LidarLink ------------------------------
(***************************************************************************)
(* The serial line between the LiDAR's UART and its measurement: frames     *)
(* wait in the UART's buffer until the main loop serves the adapter, which  *)
(* reads a bounded number of bytes, or until a probe reads them through     *)
(* TFMPlus, a library outside src/.  Either stamps what it finds with the   *)
(* time that the loop read at its start.  One frame is one element;          *)
(* LidarFrames has the bytes.                                               *)
(*                                                                          *)
(* Time passes in units; the loop may serve late, and a probe holds it up   *)
(* while it waits for a frame.  Ages stop at Old, where nothing tells them  *)
(* apart any more.                                                          *)
(***************************************************************************)
EXTENDS Naturals, Sequences

CONSTANTS
  BufferFrames,    \* frames the UART's buffer holds
  BudgetFrames,    \* frames one service reads
  ServiceEvery,    \* lidarServiceMs
  FrameStale,      \* lidarFrameStaleMs
  MaxStall         \* bound: how late the loop serves the adapter or reads its clock

ASSUME LidarLinkAssumption ==
  /\ {BufferFrames, BudgetFrames, ServiceEvery} \subseteq Nat \ {0}
  /\ {FrameStale, MaxStall} \subseteq Nat

VARIABLES
  fifo,            \* frames in the UART's buffer: true age and signal
  latest,          \* {the measurement last read}, with its true and its stamped age, or {}
  linkHealth,      \* _health
  sinceService,    \* time since the nowMs of the last service
  lag,             \* time since the loop read nowMs
  probing          \* a probe reads the UART

linkVars == <<fifo, latest, linkHealth, sinceService, lag, probing>>

Period == ServiceEvery + MaxStall
Services == (BufferFrames + BudgetFrames - 1) \div BudgetFrames
Old == 4 * FrameStale + (Services + 1) * Period + 1
Later(age) == IF age = Old THEN Old ELSE age + 1

(* begin() *)
LinkInit ==
  /\ fifo = <<>> /\ latest = {} /\ linkHealth = "DEGRADED"
  /\ sinceService = ServiceEvery /\ lag = 0 /\ probing = FALSE

(* One unit of time: at most one frame arrives, and is lost when the buffer is full. *)
LinkTime ==
  /\ sinceService < Period /\ sinceService' = sinceService + 1
  /\ lag < MaxStall /\ lag' = lag + 1
  /\ \E arrived \in {<<>>} \union {<<[born |-> 0, signalOk |-> ok]>> : ok \in BOOLEAN} :
       fifo' = [i \in DOMAIN fifo |-> [fifo[i] EXCEPT !.born = Later(@)]]
                 \o (IF Len(fifo) < BufferFrames THEN arrived ELSE <<>>)
  /\ latest' = {[m EXCEPT !.born = Later(@), !.captured = Later(@)] : m \in latest}
  /\ UNCHANGED <<linkHealth, probing>>

(* A round of the loop begins. *)
ReadClock ==
  ~probing /\ lag' = 0 /\ UNCHANGED <<fifo, latest, linkHealth, sinceService, probing>>

\* Mutant: a frame that is stale is not noticed until it is four times as old.
HealthOf_LateOnly(measurement) ==
  IF measurement = {} THEN "DEGRADED"
  ELSE LET m == CHOOSE x \in measurement : TRUE
       IN IF m.captured > 4 * FrameStale + lag THEN "FAULT"
          ELSE IF ~m.signalOk THEN "DEGRADED" ELSE "OK"

(* evaluateHealth(): the age at nowMs. *)
HealthOf(measurement) ==
  IF measurement = {} THEN "DEGRADED"
  ELSE LET m == CHOOSE x \in measurement : TRUE
       IN IF m.captured > 4 * FrameStale + lag THEN "FAULT"
          ELSE IF m.captured > FrameStale + lag \/ ~m.signalOk THEN "DEGRADED" ELSE "OK"

(* What the budget of bytes covers of the buffer. *)
Taken == IF Len(fifo) < BudgetFrames THEN Len(fifo) ELSE BudgetFrames

(* The measurement made of a frame now. *)
Measured(frame, ok) == {[born |-> frame.born, captured |-> lag, signalOk |-> ok]}

(* tick(): once the service is due at nowMs.  The last frame that the parser delivers
   is the measurement; bytes lost to a full buffer or to a probe may cost it the frames
   after that one. *)
TickLidar ==
  /\ ~probing
  /\ sinceService >= ServiceEvery + lag /\ sinceService' = lag
  /\ fifo' = SubSeq(fifo, Taken + 1, Len(fifo))
  /\ \E k \in 0..Taken :
       latest' = IF k = 0 THEN latest ELSE Measured(fifo[k], fifo[k].signalOk)
  /\ linkHealth' = HealthOf(latest')
  /\ UNCHANGED <<lag, probing>>

(* readOnce(), for a sample, when no service is due. *)
ReadOnce ==
  /\ ~probing
  /\ sinceService < ServiceEvery + lag
  /\ linkHealth' = HealthOf(latest)
  /\ UNCHANGED <<fifo, latest, sinceService, lag, probing>>

(* probeOnce(): TFMPlus reads the UART itself and waits for a frame; the loop waits. *)
ProbeBegins ==
  ~probing /\ probing' = TRUE /\ UNCHANGED <<fifo, latest, linkHealth, sinceService, lag>>

(* No frame came, or none that TFMPlus accepts; what it has read is gone, and the
   measurement stays. *)
ProbeFails ==
  /\ probing /\ probing' = FALSE
  /\ \E gone \in 0..Len(fifo) : fifo' = SubSeq(fifo, gone + 1, Len(fifo))
  /\ linkHealth' = "DEGRADED"
  /\ UNCHANGED <<latest, sinceService, lag>>

(* The frame it gives is the measurement, stamped with nowMs and judged by its distance
   alone. *)
ProbeReads ==
  /\ probing /\ probing' = FALSE
  /\ \E k \in 1..Len(fifo), ok \in BOOLEAN :
       /\ fifo' = SubSeq(fifo, k + 1, Len(fifo))
       /\ latest' = Measured(fifo[k], ok)
       /\ linkHealth' = IF ok THEN "OK" ELSE "DEGRADED"
  /\ UNCHANGED <<sinceService, lag>>

(* forceRecover() starts the UART again: what waits in it and what was read are gone,
   and a service is due. *)
ForceRecover ==
  /\ ~probing
  /\ fifo' = <<>> /\ latest' = {} /\ linkHealth' = "DEGRADED"
  /\ sinceService' = ServiceEvery + lag
  /\ UNCHANGED <<lag, probing>>

LinkNext ==
  \/ LinkTime \/ ReadClock \/ TickLidar \/ ReadOnce
  \/ ProbeBegins \/ ProbeFails \/ ProbeReads \/ ForceRecover

LinkSpec == LinkInit /\ [][LinkNext]_linkVars

-----------------------------------------------------------------------------
(* A measurement is stamped with the loop's time when it is read, by a service or by a
   probe, however long it has waited in the buffer and however long the probe has held
   the loop up.  Its true age, while the adapter is healthy, is still bounded: by the
   stale time, the services a full buffer takes, and the service that judges it. *)
HealthyIsRecent ==
  linkHealth = "OK" =>
    \A m \in latest : m.born < FrameStale + (Services + 1) * Period
=============================================================================
