----------------------------- MODULE WebClients -----------------------------
(***************************************************************************)
(* The WebSocket clients of the web server and the access point they come  *)
(* through.                                                                *)
(*                                                                          *)
(* Two tasks write the table of clients without a lock: the network task,  *)
(* which reports a client when it connects and when it is gone, and the    *)
(* main loop, which sends each client the live status, counts the frames a *)
(* client could not take, and clears the table when the access point is    *)
(* started or stopped.  The main loop looks at a slot in one step and      *)
(* writes it in another.                                                   *)
(***************************************************************************)
EXTENDS Naturals, FiniteSets, AccessPoint

CONSTANTS
  Slots,          \* MAX_TRACKED_WS_CLIENTS
  MaxStalled,     \* MAX_STALLED_WS_FRAMES
  MaxClients,     \* bound: clients that connect
  MaxSwitches     \* bound: changes of what the application wants of the access point

ASSUME WebClientsAssumption == Slots \in Nat \ {0} /\ MaxStalled \in Nat \ {0}

VARIABLES
  connected,      \* clients the library would send to
  closing,        \* clients told to go, whose disconnect is still to be reported
  full,          \* connected clients with no room in their queue
  wsClients,      \* the table: the client of each slot, 0 for none, and its stalled frames
  nextClient,     \* the library numbers its clients upwards from 1
  radioUp,        \* stations can reach the server
  webPc,          \* where the main loop is
  slot, seen, verdict,   \* the slot it is at, the client it found there, and how it fared
  sweep,          \* "prune" the table, prune it "first" and then "send" a frame
  wiped,          \* history: clients the main loop took out of the table unasked
  switches        \* bound

clientVars == <<connected, closing, full, nextClient>>
sweepVars  == <<slot, seen, verdict, sweep>>
tableVars  == <<wsClients, wiped>>
webVars == <<apVars, askVars, clientVars, sweepVars, tableVars, radioUp, webPc, switches>>

ClientIds == 1..MaxClients
Free      == [id |-> 0, stalled |-> 0]
EmptyTable == [i \in 1..Slots |-> Free]
Held == {wsClients[i].id : i \in 1..Slots} \ {0}

WebInit ==
  /\ ApInit(FALSE)
  /\ connected = {} /\ closing = {} /\ full = {} /\ nextClient = 1
  /\ wsClients = EmptyTable /\ wiped = {}
  /\ radioUp = FALSE /\ webPc = "ask"
  /\ slot = 1 /\ seen = 0 /\ verdict = "none" /\ sweep = "prune"
  /\ switches = 0

-----------------------------------------------------------------------------
(* The network task *)

(* noteWsClientConnected(): the first free slot, or the client is told to go. *)
Connect ==
  /\ radioUp /\ nextClient <= MaxClients
  /\ nextClient' = nextClient + 1
  /\ LET free == {i \in 1..Slots : wsClients[i].id = 0}
         first == CHOOSE i \in free : \A j \in free : i <= j
     IN IF free = {}
          THEN closing' = closing \union {nextClient} /\ UNCHANGED <<connected, wsClients>>
          ELSE /\ wsClients' = [wsClients EXCEPT ![first] = [id |-> nextClient, stalled |-> 0]]
               /\ connected' = connected \union {nextClient}
               /\ UNCHANGED closing
  /\ UNCHANGED <<apVars, askVars, full, sweepVars, wiped, radioUp, webPc, switches>>

(* noteWsClientDisconnected(), for a client that leaves or was told to. *)
\* Mutant: only the first slot is looked at.
WithoutClient_FirstSlot(c) ==
  [i \in 1..Slots |-> IF i = 1 /\ wsClients[i].id = c THEN Free ELSE wsClients[i]]

WithoutClient(c) == [i \in 1..Slots |-> IF wsClients[i].id = c THEN Free ELSE wsClients[i]]

Disconnect(c) ==
  /\ c \in connected \union closing
  /\ connected' = connected \ {c} /\ closing' = closing \ {c} /\ full' = full \ {c}
  /\ wsClients' = WithoutClient(c)
  /\ UNCHANGED <<apVars, askVars, nextClient, sweepVars, wiped, radioUp, webPc, switches>>

(* A client's queue fills up, or empties. *)
Congestion ==
  /\ \E c \in connected : full' = IF c \in full THEN full \ {c} ELSE full \union {c}
  /\ UNCHANGED <<apVars, askVars, connected, closing, nextClient, sweepVars, tableVars,
                 radioUp, webPc, switches>>

-----------------------------------------------------------------------------
(* The application's wishes: a command or a button, or a settings update, which
   also puts a start off and stops an access point that runs. *)
SwitchAp ==
  /\ switches < MaxSwitches /\ switches' = switches + 1
  /\ apEnabled' = ~apEnabled
  /\ UNCHANGED <<apVars, nextApStartRetry, deferredApStop, deferredApStart, clientVars,
                 sweepVars, tableVars, radioUp, webPc>>

ChangeSettings ==
  /\ switches < MaxSwitches /\ switches' = switches + 1
  /\ apEnabled' \in BOOLEAN
  /\ nextApStartRetry' = IF apEnabled' THEN "later" ELSE "now"
  /\ deferredApStop' = (deferredApStop \/ apRunning)
  /\ webPc = "ask"
  /\ UNCHANGED <<apVars, deferredApStart, clientVars, sweepVars, tableVars, radioUp, webPc>>

ApAsk ==
  /\ webPc = "ask" /\ webPc' = "defer"
  /\ AskStart("mine") \/ AskNothing \/ AskStop \/ (connected = {} /\ AutoOff)
  /\ UNCHANGED <<apVars, clientVars, sweepVars, tableVars, radioUp, switches>>

-----------------------------------------------------------------------------
(* stopAp(): every client is told to go, then the table is cleared. *)
CloseAll ==
  /\ webPc = "defer" /\ deferredApStop /\ apRunning
  /\ webPc' = "stopping"
  /\ closing' = closing \union connected /\ connected' = {} /\ full' = {}
  /\ UNCHANGED <<apVars, askVars, nextClient, sweepVars, tableVars, radioUp, switches>>

ClearTable == wsClients' = EmptyTable /\ wiped' = wiped \union (Held \intersect connected)

FinishStop ==
  /\ webPc = "stopping" /\ webPc' = "frame"
  /\ StopAp
  /\ ClearTable
  /\ radioUp' = FALSE
  /\ UNCHANGED <<apEnabled, clientVars, sweepVars, switches>>

(* startAp(): stations can connect from the start of the radio on; the table is
   cleared at the end. *)
StartRadio ==
  /\ webPc = "defer" /\ ~deferredApStop /\ deferredApStart # Nothing /\ ~apRunning
  /\ ~apRestartGuard
  /\ webPc' = "starting"
  /\ radioUp' = TRUE
  /\ UNCHANGED <<apVars, askVars, clientVars, sweepVars, tableVars, switches>>

FinishStart ==
  /\ webPc = "starting" /\ webPc' = "frame"
  /\ StartAp
  /\ ClearTable
  /\ UNCHANGED <<apEnabled, clientVars, sweepVars, radioUp, switches>>

NothingToDo ==
  /\ webPc = "defer" /\ webPc' = "frame"
  /\ StartRefused \/ RadioFails \/ NoApJob \/ (~apRunning /\ StopAp)
  /\ UNCHANGED <<apEnabled, clientVars, sweepVars, tableVars, radioUp, switches>>

-----------------------------------------------------------------------------
(* broadcastDeferred() *)

NoFrame ==
  /\ webPc = "frame" /\ webPc' = "ask"
  /\ UNCHANGED <<apVars, askVars, clientVars, sweepVars, tableVars, radioUp, switches>>

Oldest(clients) == CHOOSE c \in clients : \A d \in clients : c <= d

(* The library keeps no more clients than there are slots: the oldest has to go. *)
CleanupClients ==
  LET over == IF Cardinality(connected) > Slots THEN {Oldest(connected)} ELSE {}
  IN /\ connected' = connected \ over /\ full' = full \ over
     /\ closing' = closing \union over

BeginSweep ==
  /\ webPc = "frame" /\ apRunning /\ connected # {}
  /\ webPc' = "check"
  /\ sweep' \in {"prune", "first"} /\ slot' = 1 /\ seen' = 0 /\ verdict' = "none"
  /\ CleanupClients \/ UNCHANGED <<connected, full, closing>>
  /\ UNCHANGED <<apVars, askVars, nextClient, tableVars, radioUp, switches>>

(* What becomes of a client the loop finds in a slot. *)
Verdicts(c) ==
  IF c = 0 THEN {"none"}
  ELSE IF c \notin connected THEN {"gone"}
  ELSE IF sweep # "send" THEN {"none"}
  ELSE IF c \in full THEN {"stalled"} ELSE {"sent", "stalled"}

CheckSlot ==
  /\ webPc = "check" /\ webPc' = "write"
  /\ seen' = wsClients[slot].id
  /\ verdict' \in Verdicts(seen')
  /\ UNCHANGED <<apVars, askVars, clientVars, slot, sweep, tableVars, radioUp, switches>>

(* The slot is written whoever is in it by now; a client that has stalled too
   often is told to go. *)
\* Mutant: a stalled frame does not add to the ones before it.
SlotAfter_ForgetsStalls(s) ==
  CASE verdict = "none" -> s
    [] verdict = "gone" -> Free
    [] verdict = "sent" -> [s EXCEPT !.stalled = 0]
    [] verdict = "stalled" -> [s EXCEPT !.stalled = 1]

SlotAfter(s) ==
  CASE verdict = "none" -> s
    [] verdict = "gone" -> Free
    [] verdict = "sent" -> [s EXCEPT !.stalled = 0]
    [] verdict = "stalled" -> IF s.stalled + 1 >= MaxStalled THEN Free
                              ELSE [s EXCEPT !.stalled = @ + 1]

WriteSlot ==
  /\ webPc = "write"
  /\ LET s == wsClients[slot]
         out == SlotAfter(s) = Free
         told == IF verdict = "stalled" /\ out THEN {s.id} \intersect connected ELSE {}
     IN /\ wsClients' = [wsClients EXCEPT ![slot] = SlotAfter(s)]
        /\ connected' = connected \ told /\ full' = full \ told
        /\ closing' = closing \union told
        /\ wiped' = wiped \union (IF out THEN ({s.id} \intersect connected) \ told ELSE {})
  /\ webPc' = IF slot < Slots THEN "check" ELSE "swept"
  /\ slot' = IF slot < Slots THEN slot + 1 ELSE slot
  /\ UNCHANGED <<apVars, askVars, nextClient, seen, verdict, sweep, radioUp, switches>>

(* After the table is pruned a frame is sent, if one is due and the status could be read. *)
SendFrame ==
  /\ webPc = "swept" /\ sweep = "first"
  /\ webPc' = "check" /\ sweep' = "send" /\ slot' = 1
  /\ UNCHANGED <<apVars, askVars, clientVars, seen, verdict, tableVars, radioUp, switches>>

EndSweep ==
  /\ webPc = "swept" /\ sweep # "first"
  /\ webPc' = "ask"
  /\ slot' = 1 /\ seen' = 0 /\ verdict' = "none" /\ sweep' = "prune"
  /\ UNCHANGED <<apVars, askVars, clientVars, tableVars, radioUp, switches>>

ApTime(Passes) ==
  /\ Passes
  /\ UNCHANGED <<clientVars, sweepVars, tableVars, radioUp, webPc, switches>>

-----------------------------------------------------------------------------
WebLoop ==
  \/ ApAsk \/ CloseAll \/ FinishStop \/ StartRadio \/ FinishStart \/ NothingToDo
  \/ NoFrame \/ BeginSweep \/ CheckSlot \/ WriteSlot \/ SendFrame \/ EndSweep

WebNext ==
  \/ WebLoop \/ ApTime(GuardEnds) \/ ApTime(RetryDue)
  \/ SwitchAp \/ ChangeSettings
  \/ Connect \/ Congestion
  \/ \E c \in ClientIds : Disconnect(c)

(* The main loop runs for ever and the clock moves on; not every start fails, and a
   frame is due again and again; a client that was told to go is reported gone. *)
WebFairness ==
  /\ WF_webVars(WebLoop) /\ WF_webVars(ApTime(GuardEnds)) /\ WF_webVars(ApTime(RetryDue))
  /\ SF_webVars(StartRadio) /\ SF_webVars(BeginSweep /\ sweep' = "first")
  /\ \A c \in ClientIds : WF_webVars(c \in closing /\ Disconnect(c))

WebSpec == WebInit /\ [][WebNext]_webVars /\ WebFairness

-----------------------------------------------------------------------------
(* Properties *)

(* The table and the library agree although two tasks write it: a client is in one
   slot at most; a client in the table is connected or on its way out; and a
   connected client is in the table, unless the main loop took it out unasked,
   which it does when the access point starts while the client connects, or when
   a slot changes hands between the look and the write of broadcastDeferred(). *)
ClientsHaveSlots ==
  /\ \A i, j \in 1..Slots : wsClients[i].id = wsClients[j].id /\ wsClients[i].id # 0 => i = j
  /\ Held \subseteq connected \union closing
  /\ connected \subseteq Held \union wiped

(* The access point follows the application's wish: up when it stays wanted, through
   guard time, retry delay and failed starts, and down when it does not. *)
ApFollowsRequest ==
  /\ []<>(apEnabled => apRunning)
  /\ []<>(apRunning => apEnabled)

(* A client that takes no frame any more does not keep its slot while the access
   point runs. *)
StalledClientGoes ==
  \A c \in ClientIds : []<>~(c \in full /\ c \in Held /\ apRunning)
=============================================================================
