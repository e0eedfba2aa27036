---------------------------- MODULE AccessPoint ----------------------------
(***************************************************************************)
(* The access point as the main loop drives it: tick() asks for a start or *)
(* a stop, processDeferred() carries it out, the web server keeps the guard *)
(* time after a stop or a failed start.  The operators name only these      *)
(* variables; the modules that extend this one say when they run.          *)
(***************************************************************************)
CONSTANT Nothing     \* no network asked for

VARIABLES
  apEnabled,         \* the access point is wanted
  apRunning,         \* _apRunning of the web server
  apNetwork,         \* the network it was started with
  apRestartGuard,    \* a stop or a failed start was less than the guard time ago
  nextApStartRetry,  \* "now", or "later" while the retry time is ahead
  deferredApStop,
  deferredApStart    \* the network in deferredApStartSettings, or Nothing

apVars  == <<apRunning, apNetwork, apRestartGuard>>
askVars == <<apEnabled, nextApStartRetry, deferredApStop, deferredApStart>>

ApInit(wanted) ==
  /\ apEnabled = wanted
  /\ apRunning = FALSE /\ apNetwork = "blank" /\ apRestartGuard = FALSE
  /\ nextApStartRetry = "now" /\ deferredApStop = FALSE /\ deferredApStart = Nothing

ApRestarted(wanted) ==
  /\ apEnabled' = wanted
  /\ apRunning' = FALSE /\ apNetwork' = "blank" /\ apRestartGuard' = FALSE
  /\ nextApStartRetry' = "now" /\ deferredApStop' = FALSE /\ deferredApStart' = Nothing

-----------------------------------------------------------------------------
(* tick() asks for a start or a stop and leaves the work to processDeferred();
   an access point nobody uses is switched off after a time. *)
AskStart(network) ==
  /\ apEnabled /\ ~apRunning /\ deferredApStart = Nothing /\ nextApStartRetry = "now"
  /\ deferredApStart' = network
  /\ UNCHANGED <<apEnabled, nextApStartRetry, deferredApStop>>

AskNothing ==
  /\ apEnabled
  /\ apRunning \/ deferredApStart # Nothing \/ nextApStartRetry = "later"
  /\ UNCHANGED askVars

\* Mutant: the access point that runs is not asked to stop.
AskStop_LeavesRunning ==
  /\ ~apEnabled
  /\ nextApStartRetry' = "now"
  /\ UNCHANGED <<apEnabled, deferredApStop, deferredApStart>>

AskStop ==
  /\ ~apEnabled
  /\ deferredApStop' = (deferredApStop \/ apRunning)
  /\ nextApStartRetry' = "now"
  /\ UNCHANGED <<apEnabled, deferredApStart>>

AutoOff ==
  /\ apEnabled /\ apRunning
  /\ apEnabled' = FALSE
  /\ deferredApStop' = TRUE
  /\ UNCHANGED <<nextApStartRetry, deferredApStart>>

(* processDeferred(): a pending stop also cancels the pending start. *)
StopAp ==
  /\ deferredApStop
  /\ deferredApStop' = FALSE /\ deferredApStart' = Nothing
  /\ apRunning' = FALSE /\ apNetwork' = "blank"
  /\ apRestartGuard' = (apRestartGuard \/ apRunning)
  /\ UNCHANGED nextApStartRetry

StartAp ==
  /\ ~deferredApStop /\ deferredApStart # Nothing /\ ~apRunning /\ ~apRestartGuard
  /\ apRunning' = TRUE /\ apNetwork' = deferredApStart
  /\ nextApStartRetry' = "now" /\ deferredApStart' = Nothing
  /\ UNCHANGED <<deferredApStop, apRestartGuard>>

\* Mutant: a refused start stays asked for.
StartRefused_KeepsAsking ==
  /\ ~deferredApStop /\ deferredApStart # Nothing /\ ~apRunning /\ apRestartGuard
  /\ nextApStartRetry' = "later"
  /\ UNCHANGED <<deferredApStart, deferredApStop, apRunning, apNetwork, apRestartGuard>>

(* startAp() refuses during the guard time. *)
StartRefused ==
  /\ ~deferredApStop /\ deferredApStart # Nothing /\ ~apRunning /\ apRestartGuard
  /\ nextApStartRetry' = "later" /\ deferredApStart' = Nothing
  /\ UNCHANGED <<deferredApStop, apRunning, apNetwork, apRestartGuard>>

(* The radio does not come up: the guard time begins again. *)
RadioFails ==
  /\ ~deferredApStop /\ deferredApStart # Nothing /\ ~apRunning /\ ~apRestartGuard
  /\ apRestartGuard' = TRUE
  /\ nextApStartRetry' = "later" /\ deferredApStart' = Nothing
  /\ UNCHANGED <<deferredApStop, apRunning, apNetwork>>

NoApJob ==
  /\ ~deferredApStop /\ (deferredApStart = Nothing \/ apRunning)
  /\ deferredApStart' = Nothing
  /\ UNCHANGED <<deferredApStop, apRunning, apNetwork, apRestartGuard, nextApStartRetry>>

(* The clock passes the end of the guard time, or of the retry delay. *)
GuardEnds ==
  /\ apRestartGuard /\ apRestartGuard' = FALSE
  /\ UNCHANGED <<apRunning, apNetwork, askVars>>

RetryDue ==
  /\ nextApStartRetry = "later" /\ nextApStartRetry' = "now"
  /\ UNCHANGED <<apVars, apEnabled, deferredApStop, deferredApStart>>
=============================================================================
