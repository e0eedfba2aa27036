------------------------------ MODULE SensorHealth ------------------------------
(***************************************************************************)
(* Health of one polled sensor (the RTC, the environment sensor) as the    *)
(* orchestrator keeps it: consecutive failure and success counters and a   *)
(* level with hysteresis.  The 32-bit counters of the code are saturated   *)
(* at the largest value any comparison of the code distinguishes, so that  *)
(* saturation changes no decision.                                         *)
(***************************************************************************)
EXTENDS Naturals

CONSTANT MaxFail        \* RuntimeSettings::i2cMaxConsecutiveFailures

ASSUME MaxFailAssumption == MaxFail \in Nat \ {0}

Threshold == IF MaxFail > 2 THEN MaxFail ELSE 2   \* successes to be OK again
FaultAt   == 2 * MaxFail                          \* failures to be at FAULT

Levels == {"OK", "DEGRADED", "FAULT"}

Health == [has : BOOLEAN, fails : 0..FaultAt, succs : 0..Threshold, level : Levels]

NoSample == [has |-> FALSE, fails |-> 0, succs |-> 0, level |-> "DEGRADED"]

Saturated(n, cap) == IF n > cap THEN cap ELSE n

\* Fault: a success does not clear the failures.
AfterSuccess_KeepsFailures(h) ==
  LET s == Saturated(h.succs + 1, Threshold)
  IN [has |-> TRUE, fails |-> h.fails, succs |-> s,
      level |-> IF h.level = "OK" \/ ~h.has \/ s >= Threshold THEN "OK" ELSE "DEGRADED"]

\* updateRtcSuccess, and the success half of the environment read.
AfterSuccess(h) ==
  LET s == Saturated(h.succs + 1, Threshold)
  IN [has   |-> TRUE,
      fails |-> 0,
      succs |-> s,
      level |-> IF h.level = "OK" \/ ~h.has \/ s >= Threshold
                THEN "OK" ELSE "DEGRADED"]

\* Fault: a failure does not clear the successes.
AfterFailure_KeepsSuccesses(h) ==
  LET f == Saturated(h.fails + 1, FaultAt)
  IN [h EXCEPT !.fails = f,
               !.level = IF f >= FaultAt THEN "FAULT" ELSE "DEGRADED"]

\* updateRtcFailure / updateEnvFailure.
AfterFailure(h) ==
  LET f == Saturated(h.fails + 1, FaultAt)
  IN [h EXCEPT !.fails = f,
               !.succs = 0,
               !.level = IF f >= FaultAt THEN "FAULT" ELSE "DEGRADED"]

\* A failure at FAULT also pushes the next poll back (exponential backoff).
BacksOff(h) == h.fails >= FaultAt

\* queueRtcSet demotes the RTC until the set is confirmed.
Demoted(h) == [h EXCEPT !.level = "DEGRADED"]

\* What each level promises a reader: OK means the last verdict was a
\* success; FAULT means at least 2 * MaxFail failures in a row; the counters
\* are never both positive.
HonestLevel(h) ==
  /\ h.level = "OK" => h.has /\ h.fails = 0
  /\ h.level = "FAULT" => h.fails >= FaultAt
  /\ h.fails = 0 \/ h.succs = 0
=============================================================================
