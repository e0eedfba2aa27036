--------------------------------- MODULE App ---------------------------------
(***************************************************************************)
(* The application facade: the command queue and the clients that fill it  *)
(* (web handlers, serial console, stress mode), the settings transaction,   *)
(* the button, the deferred start and stop of the access point and the      *)
(* deferred save to NVS.                                                    *)
(*                                                                          *)
(* One round of the main loop is: the button, a bounded number of queued    *)
(* commands, the access point's requests, the console, then the two         *)
(* deferred jobs.  Web handlers run in a task of their own, between any     *)
(* two of these steps.  The state lock is tried with a timeout, so every    *)
(* reader of the settings may come back without them.                       *)
(***************************************************************************)
EXTENDS Integers, Sequences, AccessPoint

CONSTANTS
  Networks,       \* names and passwords of the access point a user can choose
  QueueCap,       \* capacity of commandQueue
  DrainPerTick,   \* commandDrainPerTick
  MaxBlind,       \* bound: defaulted snapshots that are acted on, per start
  MaxRestarts,    \* bound: restarts of the firmware
  MaxCommands     \* bound: commands the clients issue

ASSUME QueueAssumption == QueueCap \in Nat /\ DrainPerTick \in Nat
ASSUME BoundAssumption == {MaxBlind, MaxRestarts, MaxCommands} \subseteq Nat
ASSUME NetworksAssumption == "blank" \notin Networks /\ "factory" \notin Networks

VARIABLES
  pc,                \* where the main loop is in its round
  drained,           \* commands taken in this round
  commandQueue,      \* accepted commands, oldest first
  web,               \* the change a web handler has prepared but not queued
  settings,          \* _settings
  stored,            \* the blob in NVS, or Nothing when it cannot be used
  nvsSave,           \* nvsSavePayload, or Nothing when no save is pending
  blind,             \* history: how often a defaulted snapshot was acted on
  promised,          \* history: the record whose storing was promised last
  broken,            \* history: "none", or how that promise was broken
  restarts, issued   \* bounds

loopVars  == <<pc, drained>>
queueVars == <<commandQueue, web, issued>>
storeVars == <<settings, stored, nvsSave>>
promiseVars == <<promised, broken>>
vars == <<loopVars, queueVars, storeVars, promiseVars, apVars, askVars, blind, restarts>>

Names    == Networks \union {"blank", "factory"}
Records  == [wifi : BOOLEAN, network : Names]

(* RuntimeSettings{} still carries the template of the network's name; the
   defaults applied at boot have it replaced by this device's name. *)
Blank    == [wifi |-> FALSE, network |-> "blank"]
WithName(r) == IF r.network = "blank" THEN [r EXCEPT !.network = "factory"] ELSE r
Booted(blob) == WithName(IF blob = Nothing THEN Blank ELSE blob)

Applies  == [kind : {"apply"}, record : Records, persist : BOOLEAN]
Commands == Applies \union [kind : {"ap"}, on : BOOLEAN] \union [kind : {"device"}]
Apply(r, persist) == [kind |-> "apply", record |-> r, persist |-> persist]
SetAp(on) == [kind |-> "ap", on |-> on]

(* A probe, recovery, remount, scan, clock setting or reset of statistics: what it
   does to its device is the business of that device's module. *)
Device == [kind |-> "device"]

ASSUME NothingAssumption == Nothing \notin Records \union Applies

Init ==
  /\ pc = "button" /\ drained = 0
  /\ commandQueue = <<>> /\ web = Nothing /\ issued = 0
  /\ stored \in Records \union {Nothing}
  /\ settings = Booted(stored)
  /\ nvsSave = Nothing
  /\ promised = Nothing /\ broken = "none"
  /\ ApInit(settings.wifi)
  /\ blind = 0 /\ restarts = 0

-----------------------------------------------------------------------------
(* Clients *)

(* The defaults a client puts back carry the template of the name (the public
   factoryResetSettings(), which would replace it, is not what they call). *)
FactoryReset(persist) == <<Apply(Blank, persist)>>

(* getSettings(): the record in use, or defaults when the lock timed out. *)
GetSettings == {settings} \union (IF blind < MaxBlind THEN {Blank} ELSE {})
Believed(read) == blind + (IF read = settings THEN 0 ELSE 1)

(* "set" changes one setting. *)
Edits(r) == {[r EXCEPT !.wifi = w] : w \in BOOLEAN}
              \union {[r EXCEPT !.network = n] : n \in Networks}

(* One request of a web page may change every setting; what it does not name, the
   password included, stays as the snapshot has it. *)
WebEdits(r) == [wifi : BOOLEAN, network : Networks \union {r.network}]

(* A command that has its record stored, and the last such place of a queue. *)
Stores(c) == c.kind = "apply" /\ c.persist
LastToStore(q) ==
  {i \in DOMAIN q : Stores(q[i]) /\ \A j \in DOMAIN q : j > i => ~Stores(q[j])}
NoneToStore(q) == \A i \in DOMAIN q : ~Stores(q[i])

(* enqueueCommand(): a full queue refuses.  With the command that it accepts, the
   client is told that the record will be stored. *)
Accepted(commands) ==
  LET room == QueueCap - Len(commandQueue)
  IN SubSeq(commands, 1, IF Len(commands) < room THEN Len(commands) ELSE room)

Enqueue(commands) ==
  /\ commandQueue' = commandQueue \o Accepted(commands)
  /\ \/ NoneToStore(Accepted(commands)) /\ UNCHANGED promiseVars
     \/ \E i \in LastToStore(Accepted(commands)) :
          promised' = Accepted(commands)[i].record /\ broken' = "none"

Issue == issued < MaxCommands /\ issued' = issued + 1

(* POST /api/settings works on a snapshot of the whole record ... *)
WebPrepare ==
  /\ web = Nothing /\ Issue
  /\ \E r \in WebEdits(settings), persist \in BOOLEAN : web' = Apply(r, persist)
  /\ UNCHANGED <<loopVars, commandQueue, storeVars, promiseVars, apVars, askVars,
                 blind, restarts>>

(* ... and queues the whole record later. *)
WebEnqueue ==
  /\ web # Nothing
  /\ Enqueue(<<web>>)
  /\ web' = Nothing
  /\ UNCHANGED <<loopVars, issued, storeVars, apVars, askVars, blind, restarts>>

(* POST /api/settings/reset reads nothing before it queues. *)
WebReset ==
  /\ Issue
  /\ \E persist \in BOOLEAN : Enqueue(FactoryReset(persist))
  /\ UNCHANGED <<loopVars, web, storeVars, apVars, askVars, blind, restarts>>

(* POST /api/device/... *)
WebDevice ==
  /\ Issue
  /\ Enqueue(<<Device>>)
  /\ UNCHANGED <<loopVars, web, storeVars, apVars, askVars, blind, restarts>>

(* The console's "wifi on|off": an update when the setting changes or is to be
   stored, a plain command for the access point when it does not change. *)
QueueWifiSet(on, persist) ==
  (IF settings.wifi # on \/ persist
     THEN <<Apply([settings EXCEPT !.wifi = on], persist)>> ELSE <<>>)
  \o (IF settings.wifi = on THEN <<SetAp(on)>> ELSE <<>>)

(* "set": a value that is in use already is not queued, not even to be stored. *)
QueueSet(r, persist) == IF r = settings THEN <<>> ELSE <<Apply(r, persist)>>

(* "preset" changes none of the settings told apart here, and always queues. *)
ApplyPreset(persist) == <<Apply(settings, persist)>>

(* "device ... probe|recover|remount" *)
ConsoleDevice == <<Device>>

(* Stress mode writes back what getSettings() returned. *)
StressApply(r) == <<Apply(r, FALSE)>>

Console ==
  /\ pc = "cli"
  /\ pc' = "defer"
  /\ \/ UNCHANGED <<commandQueue, promiseVars, issued, blind>>
     \/ /\ Issue
        /\ \E persist \in BOOLEAN :
             \/ \E on \in BOOLEAN : Enqueue(QueueWifiSet(on, persist))
             \/ \E r \in Edits(settings) : Enqueue(QueueSet(r, persist))
             \/ Enqueue(ApplyPreset(persist))
             \/ Enqueue(FactoryReset(persist))
             \/ Enqueue(ConsoleDevice)
        /\ UNCHANGED blind
     \/ /\ Issue
        /\ \E r \in GetSettings : Enqueue(StressApply(r)) /\ blind' = Believed(r)
  /\ UNCHANGED <<drained, web, storeVars, apVars, askVars, restarts>>

-----------------------------------------------------------------------------
(* The settings transaction *)

\* Mutant: an access point that runs is not started again.
UpdateSettings_NoRestart(new, persist, previous) ==
  LET changed == previous # new
  IN /\ settings' = new
     /\ nvsSave' = IF persist THEN new ELSE nvsSave
     /\ apEnabled' = IF changed THEN new.wifi ELSE apEnabled
     /\ nextApStartRetry' = IF ~changed THEN nextApStartRetry
                            ELSE IF new.wifi THEN "later" ELSE "now"
     /\ UNCHANGED <<stored, deferredApStart, deferredApStop>>

\* Mutant: an update that is not to be stored takes back the save that is pending.
UpdateSettings_DropsSave(new, persist, previous) ==
  LET changed == previous # new
  IN /\ settings' = new
     /\ nvsSave' = IF persist THEN new ELSE Nothing
     /\ apEnabled' = IF changed THEN new.wifi ELSE apEnabled
     /\ nextApStartRetry' = IF ~changed THEN nextApStartRetry
                            ELSE IF new.wifi THEN "later" ELSE "now"
     /\ deferredApStop' = (deferredApStop \/ (changed /\ apRunning))
     /\ UNCHANGED <<stored, deferredApStart>>

(* updateSettings() once it has the lock; previous is what getSettings() said. *)
UpdateSettings(new, persist, previous) ==
  LET changed == previous # new
  IN /\ settings' = new
     /\ nvsSave' = IF persist THEN new ELSE nvsSave
     /\ apEnabled' = IF changed THEN new.wifi ELSE apEnabled
     /\ nextApStartRetry' = IF ~changed THEN nextApStartRetry
                            ELSE IF new.wifi THEN "later" ELSE "now"
     /\ deferredApStop' = (deferredApStop \/ (changed /\ apRunning))
     /\ UNCHANGED <<stored, deferredApStart>>

(* The record is to be stored at once; one that waits in the queue comes after it. *)
PromiseNow ==
  IF NoneToStore(commandQueue) THEN promised' = settings' /\ broken' = "none"
                               ELSE UNCHANGED promiseVars

(* The button: a multi-press puts the factory network back and stores it, a
   short press asks for the access point, a long press for its end. *)
MultiPress ==
  /\ pc = "button"
  /\ pc' = "drain"
  /\ \E r \in GetSettings, previous \in GetSettings :
       /\ UpdateSettings([r EXCEPT !.network = "factory"], TRUE, previous)
       /\ blind' = Believed(IF r = settings THEN previous ELSE r)
  /\ PromiseNow
  /\ UNCHANGED <<drained, queueVars, apVars, restarts>>

(* No multi-press, or its update found the state lock taken. *)
Press ==
  /\ pc = "button"
  /\ pc' = "drain"
  /\ apEnabled' \in {apEnabled, apEnabled \/ ~apRunning, FALSE}
  /\ UNCHANGED <<drained, queueVars, storeVars, promiseVars, apVars, nextApStartRetry,
                 deferredApStop, deferredApStart, blind, restarts>>

(* One command of the round. *)
Take ==
  /\ pc = "drain" /\ commandQueue # <<>> /\ drained < DrainPerTick
  /\ drained' = drained + 1
  /\ commandQueue' = Tail(commandQueue)

DrainApply ==
  /\ Take
  /\ Head(commandQueue).kind = "apply"
  /\ \E previous \in GetSettings :
       /\ UpdateSettings(Head(commandQueue).record, Head(commandQueue).persist, previous)
       /\ blind' = Believed(previous)
  /\ UNCHANGED <<pc, web, issued, promiseVars, apVars, restarts>>

(* updateSettings() does not get the lock: the command is gone, and its error is the
   last command's status. *)
DrainBusy ==
  /\ Take
  /\ Head(commandQueue).kind = "apply"
  /\ broken' = IF 1 \in LastToStore(commandQueue) THEN "reported" ELSE broken
  /\ UNCHANGED promised
  /\ UNCHANGED <<pc, web, issued, storeVars, apVars, askVars, blind, restarts>>

DrainAp ==
  /\ Take
  /\ Head(commandQueue).kind = "ap"
  /\ apEnabled' = Head(commandQueue).on
  /\ UNCHANGED <<pc, web, issued, storeVars, promiseVars, apVars, nextApStartRetry,
                 deferredApStop, deferredApStart, blind, restarts>>

(* Devices answer later, through their own modules. *)
DrainDevice ==
  /\ Take
  /\ Head(commandQueue).kind = "device"
  /\ UNCHANGED <<pc, web, issued, storeVars, promiseVars, apVars, askVars, blind, restarts>>

DrainDone ==
  /\ pc = "drain" /\ (commandQueue = <<>> \/ drained = DrainPerTick)
  /\ pc' = "ap" /\ drained' = 0
  /\ UNCHANGED <<queueVars, storeVars, promiseVars, apVars, askVars, blind, restarts>>

-----------------------------------------------------------------------------
(* The access point *)

(* A start takes the settings that tick() read, which may be defaults. *)
ApRequests ==
  /\ pc = "ap"
  /\ pc' = "cli"
  /\ \/ \E r \in GetSettings : AskStart(r.network) /\ blind' = Believed(r)
     \/ (AskNothing \/ AskStop \/ AutoOff) /\ UNCHANGED blind
  /\ UNCHANGED <<drained, queueVars, storeVars, promiseVars, apVars, restarts>>

(* Only the asking and the starting look at the clock, once in a round. *)
ApClock ==
  /\ pc = "button"
  /\ GuardEnds \/ RetryDue
  /\ UNCHANGED <<loopVars, queueVars, storeVars, promiseVars, blind, restarts>>

-----------------------------------------------------------------------------
(* The store *)

SaveOk ==
  /\ nvsSave # Nothing
  /\ stored' = nvsSave /\ nvsSave' = Nothing
  /\ UNCHANGED promiseVars

\* Mutant: the old record is erased before the new one is written.
SaveFails_Erases ==
  /\ nvsSave # Nothing
  /\ nvsSave' = Nothing
  /\ stored' = Nothing
  /\ broken' = IF NoneToStore(commandQueue) THEN "reported" ELSE broken
  /\ UNCHANGED promised

(* A save that fails is reported as the last command's error and not tried again. *)
SaveFails ==
  /\ nvsSave # Nothing
  /\ nvsSave' = Nothing
  /\ broken' = IF NoneToStore(commandQueue) THEN "reported" ELSE broken
  /\ UNCHANGED <<stored, promised>>

NoSave == nvsSave = Nothing /\ UNCHANGED <<stored, nvsSave, promiseVars>>

(* processDeferred(): the job of the access point, then the save. *)
ProcessDeferred(ApJob) ==
  /\ pc = "defer"
  /\ pc' = "button"
  /\ ApJob
  /\ SaveOk \/ SaveFails \/ NoSave
  /\ UNCHANGED <<drained, settings, queueVars, apEnabled, blind, restarts>>

(* A record that a restart loses: it is queued, or its save is pending. *)
OnItsWay == nvsSave # Nothing \/ ~NoneToStore(commandQueue)

(* A restart at any moment, perhaps in the middle of a write; begin() takes what
   the store holds if size, magic, version and checksum agree. *)
Restart ==
  /\ restarts < MaxRestarts /\ restarts' = restarts + 1
  /\ stored' \in {stored} \union (IF pc = "defer" /\ nvsSave # Nothing
                                    THEN {nvsSave, Nothing} ELSE {})
  /\ settings' = Booted(stored')
  /\ nvsSave' = Nothing
  /\ broken' = IF OnItsWay /\ stored' # promised THEN "cut" ELSE broken
  /\ ApRestarted(settings'.wifi)
  /\ pc' = "button" /\ drained' = 0
  /\ commandQueue' = <<>> /\ web' = Nothing
  /\ blind' = 0
  /\ UNCHANGED <<issued, promised>>

-----------------------------------------------------------------------------
Loop ==
  \/ MultiPress \/ Press
  \/ DrainApply \/ DrainBusy \/ DrainAp \/ DrainDevice \/ DrainDone
  \/ ApRequests \/ Console
  \/ ProcessDeferred(StopAp) \/ ProcessDeferred(StartAp)
  \/ ProcessDeferred(StartRefused) \/ ProcessDeferred(RadioFails)
  \/ ProcessDeferred(NoApJob)

Next == Loop \/ WebPrepare \/ WebEnqueue \/ WebReset \/ WebDevice \/ ApClock \/ Restart

Spec == Init /\ [][Next]_vars

-----------------------------------------------------------------------------
(* Properties *)

(* Types of the facade's state. *)
QueueTypes == commandQueue \in Seq(Commands) /\ web \in Applies \union {Nothing}
StoreTypes ==
  /\ settings \in Records
  /\ stored \in Records \union {Nothing}
  /\ nvsSave \in Records \union {Nothing}
PromiseTypes ==
  promised \in Records \union {Nothing} /\ broken \in {"none", "reported", "cut"}
ApTypes ==
  /\ apEnabled \in BOOLEAN /\ apRunning \in BOOLEAN /\ apRestartGuard \in BOOLEAN
  /\ nextApStartRetry \in {"now", "later"} /\ apNetwork \in Names
  /\ deferredApStop \in BOOLEAN /\ deferredApStart \in Names \union {Nothing}
TypeOK ==
  /\ pc \in {"button", "drain", "ap", "cli", "defer"} /\ drained \in 0..DrainPerTick
  /\ QueueTypes /\ StoreTypes /\ PromiseTypes /\ ApTypes
  /\ blind \in 0..MaxBlind /\ restarts \in 0..MaxRestarts /\ issued \in 0..MaxCommands

(* A running access point serves the network of the settings in use, unless its
   stop is already asked for.  updateSettings() compares with what it read
   before, and tick() hands processDeferred() a copy: between the three the
   record can change.  A reader that came back with defaults breaks it. *)
ApNetworkCurrent ==
  apRunning /\ ~deferredApStop /\ blind = 0 => apNetwork = settings.network

(* A start that has been asked for is served in the same round, is still wanted then,
   and carries the network in use. *)
StartIsWanted == deferredApStart # Nothing => pc \in {"cli", "defer"} /\ apEnabled
StartIsCurrent ==
  deferredApStart # Nothing /\ blind = 0 => deferredApStart = settings.network

(* The promise is made when enqueueApplySettings() tells the client that the command
   is accepted, or when the button's update succeeds.  The record promised last is
   the last one of the queue to be stored; then, and until it is written, the one that
   waits to be saved; then, through every unstored change, older command and restart,
   the one in the store.  Only what the user can see excuses it: a reported error (the
   state lock or the save failed), or a restart that finds the record still on its
   way.  Once written, no restart excuses it. *)
PromiseKept ==
  broken = "none" /\ promised # Nothing =>
    /\ \A i \in LastToStore(commandQueue) : commandQueue[i].record = promised
    /\ NoneToStore(commandQueue) =>
         promised = IF nvsSave # Nothing THEN nvsSave ELSE stored

(* No access point comes up that nobody wants any more: a command, a long press or
   an update that switches it off takes effect before the deferred start. *)
NoStartWhileDisabled == [][apRunning' /\ ~apRunning => apEnabled]_vars

(* The facade implements the durable settings. *)
Durable == INSTANCE DurableSettings WITH live <- settings, owed <- nvsSave, saved <- stored
ImplementsDurable == Durable!Spec
=============================================================================
