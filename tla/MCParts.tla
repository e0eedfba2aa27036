------------------------------- MODULE MCParts -------------------------------
(***************************************************************************)
(* The parts that share no variable with each other, checked in one run.    *)
(* focus names the part that moves, chosen in the initial state; the others *)
(* keep their initial state.  Steps of parts that share nothing commute, so *)
(* their interleavings would show nothing more.                             *)
(***************************************************************************)
EXTENDS WebClients, JsonStream, DeviceHealth, I2cBus, I2cDrivers, Button, LidarFrames,
        LidarLink

VARIABLE focus

Parts == {"web", "json", "health", "bus", "driver", "button", "lidar", "link"}

vars == <<focus, webVars, jsonVars, healthVars, busVars, driverVars, buttonVars, frameVars,
          linkVars>>

(* Parts that have several initial states keep one of them when they stand still. *)
Init ==
  /\ focus \in Parts
  /\ WebInit /\ JsonInit /\ HealthInit /\ BusInit /\ DriverInit /\ ButtonInit /\ FramesInit
  /\ LinkInit
  /\ focus # "bus" => busSettings.freq = CHOOSE f \in Freqs : TRUE
  /\ focus # "bus" => busSettings.backoff = 1
  /\ focus # "driver" => device = "RTC" /\ ~answering

InWeb(A) ==
  /\ focus = "web" /\ A
  /\ UNCHANGED <<focus, jsonVars, healthVars, busVars, driverVars, buttonVars, frameVars, linkVars>>
InJson(A) ==
  /\ focus = "json" /\ A
  /\ UNCHANGED <<focus, webVars, healthVars, busVars, driverVars, buttonVars, frameVars, linkVars>>
InHealth(A) ==
  /\ focus = "health" /\ A
  /\ UNCHANGED <<focus, webVars, jsonVars, busVars, driverVars, buttonVars, frameVars, linkVars>>
InBus(A) ==
  /\ focus = "bus" /\ A
  /\ UNCHANGED <<focus, webVars, jsonVars, healthVars, driverVars, buttonVars, frameVars, linkVars>>
InDriver(A) ==
  /\ focus = "driver" /\ A
  /\ UNCHANGED <<focus, webVars, jsonVars, healthVars, busVars, buttonVars, frameVars, linkVars>>
InButton(A) ==
  /\ focus = "button" /\ A
  /\ UNCHANGED <<focus, webVars, jsonVars, healthVars, busVars, driverVars, frameVars, linkVars>>
InLidar(A) ==
  /\ focus = "lidar" /\ A
  /\ UNCHANGED <<focus, webVars, jsonVars, healthVars, busVars, driverVars, buttonVars, linkVars>>
InLink(A) ==
  /\ focus = "link" /\ A
  /\ UNCHANGED <<focus, webVars, jsonVars, healthVars, busVars, driverVars, buttonVars, frameVars>>

Next ==
  \/ InWeb(WebNext) \/ InJson(JsonNext) \/ InHealth(HealthNext) \/ InBus(BusNext)
  \/ InDriver(DriverNext) \/ InButton(ButtonNext) \/ InLidar(FramesNext)
  \/ InLink(LinkNext)

(* The fairness of the parts, each about the part that moves. *)
Fairness ==
  /\ WF_webVars(InWeb(WebLoop))
  /\ WF_webVars(InWeb(ApTime(GuardEnds))) /\ WF_webVars(InWeb(ApTime(RetryDue)))
  /\ SF_webVars(InWeb(StartRadio)) /\ SF_webVars(InWeb(BeginSweep /\ sweep' = "first"))
  /\ \A c \in ClientIds : WF_webVars(InWeb(c \in closing /\ Disconnect(c)))
  /\ \A r \in Requests : WF_jsonVars(InJson(Fill(r) \/ CloseConnection(r)))
  /\ WF_busVars(InBus(BusTime)) /\ WF_busVars(InBus(Transfer)) /\ WF_busVars(InBus(FastFail))
  /\ WF_driverVars(InDriver(ServeRequest)) /\ WF_driverVars(InDriver(Uninitialize))
  /\ WF_driverVars(InDriver(BackoffEnds))

Spec == Init /\ [][Next]_vars /\ Fairness
=============================================================================
