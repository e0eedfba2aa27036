------------------------------ MODULE AppProofs ------------------------------
(***************************************************************************)
(* What the facade promises about settings and access point, for any        *)
(* capacity, any networks and any number of commands, restarts and          *)
(* timeouts of the lock.                                                    *)
(***************************************************************************)
EXTENDS App, SequenceTheorems, TLAPS

-----------------------------------------------------------------------------
(* Records and readers *)

\* Defaults, edits and what the store is booted from are records.
LEMMA RecordFacts ==
  /\ Blank \in Records
  /\ \A r \in Records, w \in BOOLEAN : [r EXCEPT !.wifi = w] \in Records
  /\ \A r \in Records, n \in Names : [r EXCEPT !.network = n] \in Records
  /\ \A blob \in Records \union {Nothing} : Booted(blob) \in Records
<1>1. Blank \in Records
  BY DEF Blank, Records, Names
<1>2. \A r \in Records, w \in BOOLEAN : [r EXCEPT !.wifi = w] \in Records
  BY DEF Records
<1>3. \A r \in Records, n \in Names : [r EXCEPT !.network = n] \in Records
  BY DEF Records
<1>4. \A r \in Records : WithName(r) \in Records
  BY <1>3 DEF WithName, Names
<1> QED BY <1>1, <1>2, <1>3, <1>4 DEF Booted

\* A reader gets a record, and counts as deceived unless it is the one in use.
LEMMA ReaderFacts ==
  ASSUME settings \in Records, blind \in 0..MaxBlind, NEW r \in GetSettings
  PROVE  /\ r \in Records
         /\ Believed(r) \in 0..MaxBlind
         /\ Believed(r) = 0 => blind = 0 /\ r = settings
<1>1. MaxBlind \in Nat
  BY BoundAssumption
<1>2. r = settings \/ (r = Blank /\ blind < MaxBlind)
  BY DEF GetSettings
<1>3. r \in Records
  BY <1>2, RecordFacts
<1>4. Believed(r) = IF r = settings THEN blind ELSE blind + 1
  BY DEF Believed
<1> QED BY <1>1, <1>2, <1>3, <1>4

-----------------------------------------------------------------------------
(* Clients *)

\* What is accepted of some commands is a first part of them.
LEMMA AcceptedTyped ==
  ASSUME commandQueue \in Seq(Commands), NEW c \in Seq(Commands)
  PROVE  Accepted(c) \in Seq(Commands)
<1> DEFINE room == QueueCap - Len(commandQueue)
           kept == IF Len(c) < room THEN Len(c) ELSE room
<1>1. Len(c) \in Nat /\ Len(commandQueue) \in Nat
  OBVIOUS
<1>2. kept \in Int /\ kept <= Len(c)
  BY <1>1, QueueAssumption
<1>3. \A i \in 1..kept : c[i] \in Commands
  BY <1>1, <1>2
<1>4. Accepted(c) = SubSeq(c, 1, kept)
  BY DEF Accepted
<1> HIDE DEF kept
<1> QED BY <1>2, <1>3, <1>4, SubSeqProperties

\* The commands that are to be stored carry records.
LEMMA StoresFacts ==
  ASSUME NEW q \in Seq(Commands), NEW i \in DOMAIN q, Stores(q[i])
  PROVE  q[i].record \in Records
<1>1. q[i] \in Commands
  OBVIOUS
<1> QED BY <1>1 DEF Stores, Commands, Applies

\* Whatever is queued, the queue holds commands, and the promise is a record.
LEMMA EnqueueTyped ==
  ASSUME commandQueue \in Seq(Commands), PromiseTypes, NEW c \in Seq(Commands), Enqueue(c)
  PROVE  commandQueue' \in Seq(Commands) /\ PromiseTypes'
<1>1. Accepted(c) \in Seq(Commands)
  BY AcceptedTyped
<1>2. commandQueue' \in Seq(Commands)
  BY <1>1 DEF Enqueue
<1>3. CASE UNCHANGED promiseVars
  BY <1>2, <1>3 DEF promiseVars, PromiseTypes
<1>4. CASE \E i \in LastToStore(Accepted(c)) :
             promised' = Accepted(c)[i].record /\ broken' = "none"
  <2>1. promised' \in Records
    BY <1>1, <1>4, StoresFacts DEF LastToStore
  <2> QED BY <1>2, <1>4, <2>1 DEF PromiseTypes
<1> QED BY <1>3, <1>4 DEF Enqueue

\* The commands of the clients are commands.
LEMMA CommandFacts ==
  ASSUME settings \in Records
  PROVE  /\ \A r \in Records, p \in BOOLEAN :
               Apply(r, p) \in Applies /\ <<Apply(r, p)>> \in Seq(Commands)
         /\ <<Device>> \in Seq(Commands)
         /\ \A on \in BOOLEAN, p \in BOOLEAN : QueueWifiSet(on, p) \in Seq(Commands)
         /\ \A r \in Edits(settings), p \in BOOLEAN : QueueSet(r, p) \in Seq(Commands)
         /\ \A p \in BOOLEAN : ApplyPreset(p) \in Seq(Commands)
         /\ \A p \in BOOLEAN : FactoryReset(p) \in Seq(Commands)
<1>1. \A r \in Records, p \in BOOLEAN : Apply(r, p) \in Applies
  BY DEF Apply, Applies
<1>2. \A r \in Records, p \in BOOLEAN : <<Apply(r, p)>> \in Seq(Commands)
  BY <1>1 DEF Commands
<1>3. <<Device>> \in Seq(Commands)
  BY DEF Device, Commands
<1>4. \A on \in BOOLEAN : <<SetAp(on)>> \in Seq(Commands)
  BY DEF SetAp, Commands
<1>5. ASSUME NEW on \in BOOLEAN, NEW p \in BOOLEAN
      PROVE  QueueWifiSet(on, p) \in Seq(Commands)
  <2> DEFINE update == IF settings.wifi # on \/ p
                         THEN <<Apply([settings EXCEPT !.wifi = on], p)>> ELSE <<>>
             plain == IF settings.wifi = on THEN <<SetAp(on)>> ELSE <<>>
  <2>1. update \in Seq(Commands)
    BY <1>2, RecordFacts
  <2>2. plain \in Seq(Commands)
    BY <1>4
  <2>3. QueueWifiSet(on, p) = update \o plain
    BY DEF QueueWifiSet
  <2> HIDE DEF update, plain
  <2> QED BY <2>1, <2>2, <2>3
<1>6. \A r \in Edits(settings) : r \in Records
  BY RecordFacts DEF Edits, Names
<1>7. \A r \in Edits(settings), p \in BOOLEAN : QueueSet(r, p) \in Seq(Commands)
  BY <1>2, <1>6 DEF QueueSet
<1>8. \A p \in BOOLEAN : ApplyPreset(p) \in Seq(Commands) /\ FactoryReset(p) \in Seq(Commands)
  BY <1>2, RecordFacts DEF ApplyPreset, FactoryReset
<1> QED BY <1>1, <1>2, <1>3, <1>5, <1>7, <1>8

\* Counting a command keeps the bound.
LEMMA IssueTyped ==
  ASSUME issued \in 0..MaxCommands, Issue
  PROVE  issued' \in 0..MaxCommands
BY BoundAssumption DEF Issue

-----------------------------------------------------------------------------
(* Types *)

\* A settings transaction keeps the types of store and access point.
LEMMA UpdateTyped ==
  ASSUME StoreTypes, ApTypes, NEW new \in Records, NEW persist \in BOOLEAN, NEW previous,
         UpdateSettings(new, persist, previous), UNCHANGED apVars
  PROVE  StoreTypes' /\ ApTypes'
<1>1. new.wifi \in BOOLEAN
  BY DEF Records
<1>2. StoreTypes'
  BY DEF StoreTypes, UpdateSettings
<1>3. ApTypes'
  BY <1>1 DEF ApTypes, UpdateSettings, apVars
<1> QED BY <1>2, <1>3

\* What is taken from the queue is a command, and the rest are commands.
LEMMA TakeTyped ==
  ASSUME TypeOK, Take
  PROVE  /\ drained' \in 0..DrainPerTick
         /\ commandQueue' \in Seq(Commands)
         /\ Head(commandQueue) \in Commands
BY QueueAssumption DEF TypeOK, QueueTypes, Take

\* What an "apply" command carries.
LEMMA ApplyFields ==
  ASSUME NEW c \in Commands
  PROVE  /\ c.kind = "apply" => c.record \in Records /\ c.persist \in BOOLEAN
         /\ c.kind = "ap" => c.on \in BOOLEAN
BY DEF Commands, Applies

\* The state at power-on is typed.
LEMMA InitTyped ==
  ASSUME Init PROVE TypeOK
<1>1. settings \in Records
  BY RecordFacts DEF Init
<1>2. settings.wifi \in BOOLEAN
  BY <1>1 DEF Records
<1>3. QueueTypes
  BY DEF Init, QueueTypes
<1>4. StoreTypes
  BY <1>1 DEF Init, StoreTypes
<1>5. ApTypes
  BY <1>2 DEF Init, ApInit, ApTypes, Names
<1>6. PromiseTypes
  BY DEF Init, PromiseTypes
<1> QED BY <1>3, <1>4, <1>5, <1>6, QueueAssumption, BoundAssumption DEF Init, TypeOK

\* The clients' steps keep the types.
LEMMA ClientsTyped ==
  ASSUME TypeOK, WebPrepare \/ WebEnqueue \/ WebReset \/ WebDevice \/ Console
  PROVE  TypeOK'
<1> USE DEF TypeOK, QueueTypes
<1>1. settings \in Records
  BY DEF StoreTypes
<1>2. CASE WebPrepare
  <2>1. \A r \in WebEdits(settings) : r \in Records
    BY <1>1 DEF WebEdits, Records, Names
  <2>2. web' \in Applies
    BY <1>1, <1>2, <2>1, CommandFacts DEF WebPrepare
  <2> QED BY <1>2, <2>2, IssueTyped
       DEF WebPrepare, loopVars, storeVars, promiseVars, apVars, askVars, StoreTypes,
           PromiseTypes, ApTypes
<1>3. CASE WebEnqueue
  <2>1. <<web>> \in Seq(Commands)
    BY <1>3 DEF WebEnqueue, Commands
  <2>2. commandQueue' \in Seq(Commands) /\ PromiseTypes'
    BY <1>3, <2>1, EnqueueTyped DEF WebEnqueue
  <2> QED BY <1>3, <2>2
       DEF WebEnqueue, loopVars, storeVars, apVars, askVars, StoreTypes, ApTypes
<1>4. CASE WebReset
  <2>1. commandQueue' \in Seq(Commands) /\ PromiseTypes'
    BY <1>1, <1>4, CommandFacts, EnqueueTyped DEF WebReset
  <2> QED BY <1>4, <2>1, IssueTyped
       DEF WebReset, loopVars, storeVars, apVars, askVars, StoreTypes, ApTypes
<1>5. CASE WebDevice
  <2>1. commandQueue' \in Seq(Commands) /\ PromiseTypes'
    BY <1>1, <1>5, CommandFacts, EnqueueTyped DEF WebDevice
  <2> QED BY <1>5, <2>1, IssueTyped
       DEF WebDevice, loopVars, storeVars, apVars, askVars, StoreTypes, ApTypes
<1>6. CASE Console
  <2>1. \A r \in GetSettings : StressApply(r) \in Seq(Commands) /\ Believed(r) \in 0..MaxBlind
    BY <1>1, ReaderFacts, CommandFacts DEF StressApply
  <2>2. commandQueue' \in Seq(Commands) /\ PromiseTypes'
    <3>1. \/ UNCHANGED <<commandQueue, promiseVars>>
          \/ \E c \in Seq(Commands) : Enqueue(c)
      BY <1>1, <1>6, <2>1, CommandFacts DEF Console, ConsoleDevice
    <3> QED BY <3>1, EnqueueTyped DEF promiseVars, PromiseTypes
  <2>3. issued' \in 0..MaxCommands /\ blind' \in 0..MaxBlind
    BY <1>6, <2>1, IssueTyped DEF Console
  <2>4. pc' = "defer"
    BY <1>6 DEF Console
  <2> QED BY <1>6, <2>2, <2>3, <2>4
       DEF Console, storeVars, apVars, askVars, StoreTypes, ApTypes
<1> QED BY <1>2, <1>3, <1>4, <1>5, <1>6

\* Button and commands keep the types.
LEMMA CommandsTyped ==
  ASSUME TypeOK,
         MultiPress \/ Press \/ DrainApply \/ DrainBusy \/ DrainAp \/ DrainDevice \/ DrainDone
  PROVE  TypeOK'
<1> USE DEF TypeOK
<1>1. settings \in Records
  BY DEF StoreTypes
<1>2. CASE MultiPress
  <2>1. PICK r \in GetSettings, previous \in GetSettings :
          /\ UpdateSettings([r EXCEPT !.network = "factory"], TRUE, previous)
          /\ blind' = Believed(IF r = settings THEN previous ELSE r)
    BY <1>2 DEF MultiPress
  <2>2. [r EXCEPT !.network = "factory"] \in Records
    BY <1>1, ReaderFacts, RecordFacts DEF Names
  <2>3. StoreTypes' /\ ApTypes'
    BY <1>2, <2>1, <2>2, UpdateTyped DEF MultiPress
  <2>4. blind' \in 0..MaxBlind
    BY <1>1, <2>1, ReaderFacts
  <2>5. PromiseTypes'
    <3>1. settings' \in Records
      BY <2>3 DEF StoreTypes
    <3>2. \/ promised' = settings' /\ broken' = "none"
          \/ promised' = promised /\ broken' = broken
      BY <1>2, Zenon DEF MultiPress, PromiseNow, promiseVars
    <3> QED BY <3>1, <3>2 DEF PromiseTypes
  <2> QED BY <1>2, <2>3, <2>4, <2>5 DEF MultiPress, queueVars, QueueTypes
<1>3. CASE Press
  <2>1. apEnabled' \in BOOLEAN
    BY <1>3 DEF Press, ApTypes
  <2>2. ApTypes'
    BY <1>3, <2>1 DEF Press, apVars, ApTypes
  <2>3. QueueTypes' /\ StoreTypes' /\ PromiseTypes'
    BY <1>3 DEF Press, queueVars, storeVars, promiseVars, QueueTypes, StoreTypes, PromiseTypes
  <2>4. pc' = "drain" /\ UNCHANGED <<drained, blind, restarts, issued>>
    BY <1>3 DEF Press, queueVars
  <2> QED BY <2>2, <2>3, <2>4
<1>4. CASE DrainApply
  <2>1. PICK previous \in GetSettings :
          /\ UpdateSettings(Head(commandQueue).record, Head(commandQueue).persist, previous)
          /\ blind' = Believed(previous)
    BY <1>4 DEF DrainApply
  <2>2. Head(commandQueue).record \in Records /\ Head(commandQueue).persist \in BOOLEAN
    BY <1>4, TakeTyped, ApplyFields DEF DrainApply
  <2>3. StoreTypes' /\ ApTypes'
    BY <1>4, <2>1, <2>2, UpdateTyped DEF DrainApply
  <2>4. blind' \in 0..MaxBlind
    BY <1>1, <2>1, ReaderFacts
  <2> QED BY <1>4, <2>3, <2>4, TakeTyped DEF DrainApply, QueueTypes, promiseVars, PromiseTypes
<1>5. CASE DrainBusy \/ DrainDevice
  <2>1. PromiseTypes'
    BY <1>5 DEF DrainBusy, DrainDevice, promiseVars, PromiseTypes
  <2> QED BY <1>5, <2>1, TakeTyped
       DEF DrainBusy, DrainDevice, storeVars, apVars, askVars, QueueTypes, StoreTypes, ApTypes
<1>6. CASE DrainAp
  <2>1. Head(commandQueue).on \in BOOLEAN
    BY <1>6, TakeTyped, ApplyFields DEF DrainAp
  <2> QED BY <1>6, <2>1, TakeTyped
       DEF DrainAp, storeVars, promiseVars, apVars, QueueTypes, StoreTypes, PromiseTypes,
           ApTypes
<1>7. CASE DrainDone
  BY <1>7, QueueAssumption
    DEF DrainDone, queueVars, storeVars, promiseVars, apVars, askVars, QueueTypes,
        StoreTypes, PromiseTypes, ApTypes
<1> QED BY <1>2, <1>3, <1>4, <1>5, <1>6, <1>7

\* Access point, store and restart keep the types.
LEMMA DevicesTyped ==
  ASSUME TypeOK,
         \/ ApRequests \/ ApClock \/ Restart
         \/ ProcessDeferred(StopAp \/ StartAp \/ StartRefused \/ RadioFails \/ NoApJob)
  PROVE  TypeOK'
<1> USE DEF TypeOK
<1>1. settings \in Records
  BY DEF StoreTypes
<1>2. CASE ApRequests
  <2>1. \A r \in GetSettings : r.network \in Names /\ Believed(r) \in 0..MaxBlind
    BY <1>1, ReaderFacts DEF Records
  <2>2. ApTypes' /\ blind' \in 0..MaxBlind
    BY <1>2, <2>1
      DEF ApRequests, AskStart, AskNothing, AskStop, AutoOff, ApTypes, apVars, askVars
  <2> QED BY <1>2, <2>2 DEF ApRequests, queueVars, storeVars, promiseVars, QueueTypes,
       StoreTypes, PromiseTypes
<1>3. CASE ApClock
  BY <1>3 DEF ApClock, GuardEnds, RetryDue, loopVars, queueVars, storeVars, promiseVars,
              apVars, askVars, QueueTypes, StoreTypes, PromiseTypes, ApTypes
<1>4. CASE Restart
  <2>1. stored' \in Records \union {Nothing}
    BY <1>4 DEF Restart, StoreTypes
  <2>2. settings' \in Records
    BY <1>4, <2>1, RecordFacts DEF Restart
  <2>3. settings'.wifi \in BOOLEAN
    BY <2>2 DEF Records
  <2>4. StoreTypes'
    BY <1>4, <2>1, <2>2 DEF Restart, StoreTypes
  <2>5. ApTypes'
    BY <1>4, <2>3 DEF Restart, ApRestarted, ApTypes, Names
  <2>6. QueueTypes'
    BY <1>4 DEF Restart, QueueTypes
  <2>7. restarts' \in 0..MaxRestarts /\ drained' \in 0..DrainPerTick /\ blind' \in 0..MaxBlind
    BY <1>4, QueueAssumption, BoundAssumption DEF Restart
  <2>8. PromiseTypes'
    BY <1>4 DEF Restart, PromiseTypes
  <2> QED BY <1>4, <2>4, <2>5, <2>6, <2>7, <2>8 DEF Restart
<1>5. CASE ProcessDeferred(StopAp \/ StartAp \/ StartRefused \/ RadioFails \/ NoApJob)
  <2>1. ApTypes'
    BY <1>5 DEF ProcessDeferred, StopAp, StartAp, StartRefused, RadioFails, NoApJob,
                ApTypes, apVars, Names
  <2>2. StoreTypes'
    BY <1>5 DEF ProcessDeferred, SaveOk, SaveFails, NoSave, StoreTypes
  <2>3. PromiseTypes'
    BY <1>5 DEF ProcessDeferred, SaveOk, SaveFails, NoSave, promiseVars, PromiseTypes
  <2> QED BY <1>5, <2>1, <2>2, <2>3 DEF ProcessDeferred, queueVars, QueueTypes
<1> QED BY <1>2, <1>3, <1>4, <1>5


\* The jobs of processDeferred(), as one.
LEMMA DeferredStep ==
  ASSUME \/ ProcessDeferred(StopAp) \/ ProcessDeferred(StartAp)
         \/ ProcessDeferred(StartRefused) \/ ProcessDeferred(RadioFails)
         \/ ProcessDeferred(NoApJob)
  PROVE  ProcessDeferred(StopAp \/ StartAp \/ StartRefused \/ RadioFails \/ NoApJob)
BY DEF ProcessDeferred

\* Every step keeps the types.
LEMMA NextTyped ==
  ASSUME TypeOK, [Next]_vars PROVE TypeOK'
<1>1. CASE UNCHANGED vars
  BY <1>1 DEF vars, loopVars, queueVars, storeVars, promiseVars, apVars, askVars,
              TypeOK, QueueTypes, StoreTypes, PromiseTypes, ApTypes
<1>2. CASE Next
  BY <1>2, ClientsTyped, CommandsTyped, DevicesTyped, DeferredStep DEF Next, Loop
<1> QED BY <1>1, <1>2

\* The facade's state keeps its types: the queue (commandQueue of TFLunaControl.cpp)
\* holds commands only, settings, store and pending save hold records, and what the
\* access point is asked for is a network.
THEOREM FacadeTypeCorrect == Spec => []TypeOK
<1>1. Init => TypeOK
  BY InitTyped
<1>2. TypeOK /\ [Next]_vars => TypeOK'
  BY NextTyped
<1> QED BY <1>1, <1>2, PTL DEF Spec

-----------------------------------------------------------------------------
(* The access point.  A running access point is only current because a start    *)
(* that is under way is: it is asked for and served in one round, during which   *)
(* the settings stay; and it is wanted, for whatever could end the wish comes     *)
(* before the asking.                                                          *)
ApInv == StartIsWanted /\ StartIsCurrent /\ ApNetworkCurrent

\* A settings transaction that was not deceived asks the access point to stop, or
\* keeps the network.
LEMMA UpdateKeepsAp ==
  ASSUME ApInv, deferredApStart = Nothing, NEW new, NEW persist, NEW previous,
         UpdateSettings(new, persist, previous), UNCHANGED apVars,
         blind' = 0 => blind = 0 /\ previous = settings
  PROVE  ApInv'
<1>1. deferredApStart' = Nothing
  BY DEF UpdateSettings
<1>2. ApNetworkCurrent'
  <2>1. SUFFICES ASSUME apRunning', ~deferredApStop', blind' = 0
                 PROVE  apNetwork' = settings'.network
    BY DEF ApNetworkCurrent
  <2>2. blind = 0 /\ previous = settings /\ apRunning
    BY <2>1 DEF apVars
  <2>3. previous = new /\ ~deferredApStop
    BY <2>1, <2>2 DEF UpdateSettings
  <2> QED BY <2>2, <2>3 DEF UpdateSettings, apVars, ApInv, ApNetworkCurrent
<1> QED BY <1>1, <1>2 DEF ApInv, StartIsWanted, StartIsCurrent

\* A step that leaves access point and settings alone, and does not end the round,
\* keeps what is known of the access point.
LEMMA QuietKeepsAp ==
  ASSUME ApInv, UNCHANGED <<apVars, deferredApStart, deferredApStop, settings>>,
         blind' = 0 => blind = 0,
         deferredApStart # Nothing => pc' \in {"cli", "defer"} /\ apEnabled'
  PROVE  ApInv'
BY DEF ApInv, StartIsWanted, StartIsCurrent, ApNetworkCurrent, apVars

\* Every step keeps it.
LEMMA ApStep ==
  ASSUME TypeOK, ApInv, [Next]_vars PROVE ApInv'
<1>1. settings \in Records /\ blind \in 0..MaxBlind
  BY DEF TypeOK, StoreTypes
<1>2. CASE UNCHANGED vars
  BY <1>2, QuietKeepsAp
    DEF vars, loopVars, storeVars, apVars, askVars, ApInv, StartIsWanted
<1>3. CASE WebPrepare \/ WebEnqueue \/ WebReset \/ WebDevice
  BY <1>3, QuietKeepsAp
    DEF WebPrepare, WebEnqueue, WebReset, WebDevice, loopVars, storeVars, askVars,
        ApInv, StartIsWanted
<1>4. CASE Console
  <2>1. blind' = 0 => blind = 0
    BY <1>1, <1>4, ReaderFacts DEF Console
  <2> QED BY <1>4, <2>1, QuietKeepsAp DEF Console, storeVars, askVars, ApInv, StartIsWanted
<1>5. pc \in {"button", "drain", "ap"} => deferredApStart = Nothing
  BY DEF ApInv, StartIsWanted
<1>6. CASE MultiPress
  <2>1. PICK r \in GetSettings, previous \in GetSettings :
          /\ UpdateSettings([r EXCEPT !.network = "factory"], TRUE, previous)
          /\ blind' = Believed(IF r = settings THEN previous ELSE r)
    BY <1>6 DEF MultiPress
  <2>2. blind' = 0 => blind = 0 /\ previous = settings
    BY <1>1, <2>1, ReaderFacts
  <2> QED BY <1>5, <1>6, <2>1, <2>2, UpdateKeepsAp DEF MultiPress
<1>7. CASE DrainApply
  <2>1. PICK previous \in GetSettings :
          /\ UpdateSettings(Head(commandQueue).record, Head(commandQueue).persist, previous)
          /\ blind' = Believed(previous)
    BY <1>7 DEF DrainApply
  <2>2. blind' = 0 => blind = 0 /\ previous = settings
    BY <1>1, <2>1, ReaderFacts
  <2> QED BY <1>5, <1>7, <2>1, <2>2, UpdateKeepsAp DEF DrainApply, Take
<1>8. CASE Press \/ DrainBusy \/ DrainAp \/ DrainDevice \/ DrainDone
  BY <1>5, <1>8, QuietKeepsAp
    DEF Press, DrainBusy, DrainAp, DrainDevice, DrainDone, Take, storeVars, askVars
<1>9. CASE ApRequests
  <2>1. CASE \E r \in GetSettings : AskStart(r.network) /\ blind' = Believed(r)
    <3>1. PICK r \in GetSettings : AskStart(r.network) /\ blind' = Believed(r)
      BY <2>1
    <3>2. blind' = 0 => blind = 0 /\ r = settings
      BY <1>1, <3>1, ReaderFacts
    <3> QED BY <1>9, <3>1, <3>2
         DEF ApRequests, AskStart, storeVars, apVars, ApInv, StartIsWanted, StartIsCurrent,
             ApNetworkCurrent
  <2>2. CASE (AskNothing \/ AskStop \/ AutoOff) /\ UNCHANGED blind
    <3>1. deferredApStart' = Nothing
      BY <1>5, <1>9, <2>2 DEF ApRequests, AskNothing, AskStop, AutoOff, askVars
    <3>2. deferredApStop => deferredApStop'
      BY <2>2, Zenon DEF AskNothing, AskStop, AutoOff, askVars
    <3> QED BY <1>9, <2>2, <3>1, <3>2
         DEF ApRequests, storeVars, apVars, ApInv, StartIsWanted, StartIsCurrent,
             ApNetworkCurrent
  <2> QED BY <1>9, <2>1, <2>2 DEF ApRequests
<1>10. CASE ApClock
  BY <1>5, <1>10
    DEF ApClock, GuardEnds, RetryDue, storeVars, apVars, askVars, ApInv, StartIsWanted,
        StartIsCurrent, ApNetworkCurrent
<1>11. CASE ProcessDeferred(StopAp \/ StartAp \/ StartRefused \/ RadioFails \/ NoApJob)
  <2>1. deferredApStart' = Nothing
    BY <1>11 DEF ProcessDeferred, StopAp, StartAp, StartRefused, RadioFails, NoApJob
  <2>2. ApNetworkCurrent'
    BY <1>11 DEF ProcessDeferred, StopAp, StartAp, StartRefused, RadioFails, NoApJob,
                 ApInv, StartIsCurrent, ApNetworkCurrent
  <2> QED BY <2>1, <2>2 DEF ApInv, StartIsWanted, StartIsCurrent
<1>12. CASE Restart
  BY <1>12 DEF Restart, ApRestarted, ApInv, StartIsWanted, StartIsCurrent, ApNetworkCurrent
<1> QED BY <1>2, <1>3, <1>4, <1>6, <1>7, <1>8, <1>9, <1>10, <1>11, <1>12, DeferredStep
     DEF Next, Loop

\* It holds at power-on.
LEMMA ApStart ==
  ASSUME Init PROVE ApInv
BY DEF Init, ApInit, ApInv, StartIsWanted, StartIsCurrent, ApNetworkCurrent

\* Unless a reader of the settings was turned away at the state lock and went on with
\* defaults, a running access point serves the network of the settings in use, or its
\* stop is asked for: updateSettings(), tick() and processDeferred() agree.
THEOREM ApAlwaysCurrent == Spec => []ApNetworkCurrent
<1>1. Init => TypeOK /\ ApInv
  BY InitTyped, ApStart
<1>2. TypeOK /\ ApInv /\ [Next]_vars => TypeOK' /\ ApInv'
  BY NextTyped, ApStep
<1>3. ApInv => ApNetworkCurrent
  BY DEF ApInv
<1> QED BY <1>1, <1>2, <1>3, PTL DEF Spec

\* No access point comes up that is not wanted at that moment: what switches it off
\* comes before the round's asking, and the start is served in that round.
THEOREM NeverStartsDisabled == Spec => NoStartWhileDisabled
<1>1. Init => TypeOK /\ ApInv
  BY InitTyped, ApStart
<1>2. TypeOK /\ ApInv /\ [Next]_vars => TypeOK' /\ ApInv'
  BY NextTyped, ApStep
<1>3. ASSUME ApInv, [Next]_vars, apRunning', ~apRunning
      PROVE  apEnabled
  <2>1. ProcessDeferred(StartAp)
    BY <1>3
      DEF Next, Loop, vars, loopVars, queueVars, storeVars, apVars, askVars,
          WebPrepare, WebEnqueue, WebReset, WebDevice, Console, MultiPress, Press,
          DrainApply, DrainBusy, DrainAp, DrainDevice, DrainDone, ApRequests, ApClock,
          GuardEnds, RetryDue, ProcessDeferred, StopAp, StartRefused, RadioFails, NoApJob,
          Restart, ApRestarted
  <2> QED BY <1>3, <2>1 DEF ProcessDeferred, StartAp, ApInv, StartIsWanted
<1>4. ApInv /\ [Next]_vars => [apRunning' /\ ~apRunning => apEnabled]_vars
  BY <1>3
<1> QED BY <1>1, <1>2, <1>4, PTL DEF Spec, NoStartWhileDisabled

-----------------------------------------------------------------------------
(* The store *)

\* What a transaction, the save and a restart do to the three records.
LEMMA StoreStep ==
  ASSUME TypeOK, [Next]_vars
  PROVE  \/ UNCHANGED storeVars
         \/ settings' \in Records /\ UNCHANGED stored /\ nvsSave' \in {nvsSave, settings'}
         \/ UNCHANGED settings /\ (SaveOk \/ SaveFails)
         \/ Restart
<1>1. settings \in Records
  BY DEF TypeOK, StoreTypes
<1>2. CASE MultiPress
  <2>1. PICK r \in GetSettings, previous \in GetSettings :
          UpdateSettings([r EXCEPT !.network = "factory"], TRUE, previous)
    BY <1>2 DEF MultiPress
  <2>2. [r EXCEPT !.network = "factory"] \in Records
    BY <1>1, ReaderFacts, RecordFacts DEF Names, TypeOK
  <2> QED BY <2>1, <2>2 DEF UpdateSettings
<1>3. CASE DrainApply
  <2>1. PICK previous \in GetSettings :
          UpdateSettings(Head(commandQueue).record, Head(commandQueue).persist, previous)
    BY <1>3 DEF DrainApply
  <2>2. Head(commandQueue).record \in Records
    BY <1>3, TakeTyped, ApplyFields DEF DrainApply
  <2> QED BY <2>1, <2>2 DEF UpdateSettings
<1>4. CASE ProcessDeferred(StopAp \/ StartAp \/ StartRefused \/ RadioFails \/ NoApJob)
  BY <1>4 DEF ProcessDeferred, NoSave, storeVars
<1>5. CASE \/ UNCHANGED vars \/ WebPrepare \/ WebEnqueue \/ WebReset \/ WebDevice \/ Console
           \/ Press \/ DrainBusy \/ DrainAp \/ DrainDevice \/ DrainDone
           \/ ApRequests \/ ApClock
  BY <1>5 DEF vars, WebPrepare, WebEnqueue, WebReset, WebDevice, Console, Press, DrainBusy,
              DrainAp, DrainDevice, DrainDone, ApRequests, ApClock
<1> QED BY <1>2, <1>3, <1>4, <1>5, DeferredStep DEF Next, Loop

\* The last command to be stored, when a queue grows: it is the last of what is added,
\* or what is added stores nothing.
LEMMA LastOfGrown ==
  ASSUME NEW q \in Seq(Commands), NEW a \in Seq(Commands)
  PROVE  /\ NoneToStore(a) => \A k \in LastToStore(q \o a) :
              k \in LastToStore(q) /\ (q \o a)[k] = q[k]
         /\ NoneToStore(q \o a) => NoneToStore(q)
         /\ \A i \in LastToStore(a) :
              /\ ~NoneToStore(q \o a)
              /\ \A k \in LastToStore(q \o a) : (q \o a)[k] = a[i]
<1> DEFINE n == Len(q)
<1>1. n \in Nat /\ Len(a) \in Nat /\ DOMAIN q = 1..n /\ DOMAIN a = 1..Len(a)
  OBVIOUS
<1>2. DOMAIN (q \o a) = 1..(n + Len(a))
  BY <1>1
<1>3. \A k \in 1..n : (q \o a)[k] = q[k]
  BY <1>1
<1>4. \A i \in 1..Len(a) : (q \o a)[n + i] = a[i]
  BY <1>1
<1> HIDE DEF n
<1>5. NoneToStore(q \o a) => NoneToStore(q)
  BY <1>1, <1>2, <1>3 DEF NoneToStore
<1>6. ASSUME NoneToStore(a), NEW k \in LastToStore(q \o a)
      PROVE  k \in LastToStore(q) /\ (q \o a)[k] = q[k]
  <2>1. k \in 1..(n + Len(a)) /\ Stores((q \o a)[k])
    BY <1>2, <1>6 DEF LastToStore
  <2>2. k <= n
    <3>1. SUFFICES ASSUME k > n PROVE FALSE
      BY <1>1, <2>1
    <3>2. k - n \in 1..Len(a) /\ k = n + (k - n)
      BY <1>1, <2>1, <3>1
    <3>3. Stores(a[k - n])
      BY <1>4, <2>1, <3>2
    <3> QED BY <1>1, <1>6, <3>2, <3>3 DEF NoneToStore
  <2>3. k \in 1..n
    BY <1>1, <2>1, <2>2
  <2>4. \A j \in 1..n : j > k => ~Stores(q[j])
    BY <1>1, <1>2, <1>3, <1>6 DEF LastToStore
  <2> QED BY <1>1, <1>3, <2>1, <2>3, <2>4 DEF LastToStore
<1>7. ASSUME NEW i \in LastToStore(a)
      PROVE  /\ ~NoneToStore(q \o a)
             /\ \A k \in LastToStore(q \o a) : (q \o a)[k] = a[i]
  <2>1. i \in 1..Len(a) /\ Stores(a[i])
    BY <1>1, <1>7 DEF LastToStore
  <2>2. n + i \in 1..(n + Len(a)) /\ Stores((q \o a)[n + i])
    BY <1>1, <1>4, <2>1
  <2>3. ASSUME NEW k \in LastToStore(q \o a) PROVE k = n + i
    <3>1. k \in 1..(n + Len(a)) /\ Stores((q \o a)[k])
      BY <1>2, <2>3 DEF LastToStore
    <3>2. ~(n + i > k)
      BY <1>2, <2>2, <2>3 DEF LastToStore
    <3>3. SUFFICES ASSUME k > n + i PROVE FALSE
      BY <1>1, <2>1, <3>1, <3>2
    <3>4. k - n \in 1..Len(a) /\ k = n + (k - n) /\ k - n > i
      BY <1>1, <2>1, <3>1, <3>3
    <3>5. Stores(a[k - n])
      BY <1>4, <3>1, <3>4
    <3> QED BY <1>1, <1>7, <3>4, <3>5 DEF LastToStore
  <2>4. (q \o a)[n + i] = a[i]
    BY <1>4, <2>1
  <2> QED BY <1>2, <2>2, <2>3, <2>4 DEF NoneToStore
<1> QED BY <1>5, <1>6, <1>7

\* The last command to be stored, when one is taken: it was the last before, or it is
\* the one taken, and none is left.
LEMMA LastOfTaken ==
  ASSUME NEW q \in Seq(Commands), q # <<>>
  PROVE  /\ \A k \in LastToStore(Tail(q)) : k + 1 \in LastToStore(q) /\ Tail(q)[k] = q[k + 1]
         /\ NoneToStore(Tail(q)) =>
              (Stores(Head(q)) => 1 \in LastToStore(q)) /\ (~Stores(Head(q)) => NoneToStore(q))
         /\ 1 \in LastToStore(q) => NoneToStore(Tail(q)) /\ q[1] = Head(q)
<1> DEFINE n == Len(q)
           t == Tail(q)
<1>1. n \in Nat /\ n > 0 /\ DOMAIN q = 1..n /\ q[1] = Head(q)
  OBVIOUS
<1>2. DOMAIN t = 1..(n - 1)
  BY <1>1
<1>3. \A k \in 1..(n - 1) : t[k] = q[k + 1]
  BY <1>1
<1>4. \A j \in 1..n : j = 1 \/ (j - 1 \in 1..(n - 1) /\ t[j - 1] = q[j])
  BY <1>1, <1>3
<1> HIDE DEF n, t
<1>5. ASSUME NEW k \in LastToStore(t)
      PROVE  k + 1 \in LastToStore(q) /\ t[k] = q[k + 1]
  <2>1. k \in 1..(n - 1) /\ Stores(t[k])
    BY <1>2, <1>5 DEF LastToStore
  <2>2. k + 1 \in 1..n /\ Stores(q[k + 1])
    BY <1>1, <1>3, <2>1
  <2>3. ASSUME NEW j \in 1..n, j > k + 1 PROVE ~Stores(q[j])
    <3>1. j - 1 \in 1..(n - 1) /\ j - 1 > k /\ t[j - 1] = q[j]
      BY <1>1, <1>4, <2>1, <2>3
    <3> QED BY <1>2, <1>5, <3>1 DEF LastToStore
  <2> QED BY <1>1, <1>3, <2>1, <2>2, <2>3 DEF LastToStore
<1>6. ASSUME NoneToStore(t)
      PROVE  (Stores(Head(q)) => 1 \in LastToStore(q)) /\ (~Stores(Head(q)) => NoneToStore(q))
  <2>1. \A j \in 1..n : j = 1 \/ ~Stores(q[j])
    BY <1>2, <1>4, <1>6 DEF NoneToStore
  <2>2. 1 \in 1..n /\ \A j \in 1..n : j > 1 => j # 1
    BY <1>1
  <2> QED BY <1>1, <2>1, <2>2 DEF NoneToStore, LastToStore
<1>7. ASSUME 1 \in LastToStore(q) PROVE NoneToStore(t)
  <2>1. \A k \in 1..(n - 1) : k + 1 \in 1..n /\ k + 1 > 1
    BY <1>1
  <2> QED BY <1>1, <1>2, <1>3, <1>7, <2>1 DEF LastToStore, NoneToStore
<1> QED BY <1>1, <1>5, <1>6, <1>7 DEF t

\* Accepting commands keeps the promise, or makes a new one.
LEMMA EnqueueKeeps ==
  ASSUME commandQueue \in Seq(Commands), PromiseKept, NEW c \in Seq(Commands), Enqueue(c),
         UNCHANGED <<nvsSave, stored>>
  PROVE  PromiseKept'
<1>1. PICK a : a = Accepted(c)
  OBVIOUS
<1>2. a \in Seq(Commands) /\ commandQueue' = commandQueue \o a
  BY <1>1, AcceptedTyped DEF Enqueue
<1>3. PICK q : q = commandQueue
  OBVIOUS
<1>4. PICK g : g = q \o a
  OBVIOUS
<1>5. q \in Seq(Commands) /\ commandQueue' = g
  BY <1>2, <1>3, <1>4
<1>6. SUFFICES ASSUME broken' = "none", promised' # Nothing
               PROVE  /\ \A i \in LastToStore(g) : g[i].record = promised'
                      /\ NoneToStore(g) =>
                           promised' = IF nvsSave # Nothing THEN nvsSave ELSE stored
  BY <1>5 DEF PromiseKept
<1>7. CASE NoneToStore(a) /\ UNCHANGED promiseVars
  <2>1. /\ \A i \in LastToStore(q) : q[i].record = promised
        /\ NoneToStore(q) => promised = IF nvsSave # Nothing THEN nvsSave ELSE stored
    BY <1>3, <1>6, <1>7 DEF PromiseKept, promiseVars
  <2>2. /\ \A k \in LastToStore(g) : k \in LastToStore(q) /\ g[k] = q[k]
        /\ NoneToStore(g) => NoneToStore(q)
    BY <1>2, <1>4, <1>5, <1>7, LastOfGrown
  <2>3. promised' = promised
    BY <1>7 DEF promiseVars
  <2> QED BY <2>1, <2>2, <2>3
<1>8. CASE \E i \in LastToStore(a) : promised' = a[i].record /\ broken' = "none"
  <2>1. PICK i \in LastToStore(a) : promised' = a[i].record
    BY <1>8
  <2>2. \A n \in LastToStore(a) :
          ~NoneToStore(q \o a) /\ \A k \in LastToStore(q \o a) : (q \o a)[k] = a[n]
    BY <1>2, <1>5, LastOfGrown
  <2>3. ~NoneToStore(g) /\ \A k \in LastToStore(g) : g[k] = a[i]
    BY <1>4, <2>2
  <2> QED BY <2>1, <2>3
<1> QED BY <1>1, <1>7, <1>8 DEF Enqueue

\* The clients' steps leave the store alone, and queue commands or nothing.
LEMMA ClientsQueue ==
  ASSUME TypeOK, WebPrepare \/ WebEnqueue \/ WebReset \/ WebDevice \/ Console
  PROVE  /\ UNCHANGED storeVars
         /\ UNCHANGED <<commandQueue, promiseVars>> \/ \E c \in Seq(Commands) : Enqueue(c)
<1>1. settings \in Records /\ blind \in 0..MaxBlind
  BY DEF TypeOK, StoreTypes
<1>2. CASE WebPrepare
  BY <1>2 DEF WebPrepare
<1>3. CASE WebEnqueue
  <2>1. <<web>> \in Seq(Commands)
    BY <1>3 DEF WebEnqueue, Commands, TypeOK, QueueTypes
  <2> QED BY <1>3, <2>1 DEF WebEnqueue
<1>4. CASE WebReset \/ WebDevice
  BY <1>1, <1>4, CommandFacts DEF WebReset, WebDevice
<1>5. CASE Console
  <2>1. \A r \in GetSettings : StressApply(r) \in Seq(Commands)
    BY <1>1, ReaderFacts, CommandFacts DEF StressApply
  <2> QED BY <1>1, <1>5, <2>1, CommandFacts DEF Console, ConsoleDevice
<1> QED BY <1>2, <1>3, <1>4, <1>5

\* Every step keeps the promise.
LEMMA PromiseStep ==
  ASSUME TypeOK, PromiseKept, [Next]_vars PROVE PromiseKept'
<1>1. commandQueue \in Seq(Commands)
  BY DEF TypeOK, QueueTypes
<1>2. CASE WebPrepare \/ WebEnqueue \/ WebReset \/ WebDevice \/ Console
  <2>1. UNCHANGED storeVars
    BY <1>2, ClientsQueue
  <2>2. CASE UNCHANGED <<commandQueue, promiseVars>>
    BY <2>1, <2>2 DEF storeVars, promiseVars, PromiseKept
  <2>3. CASE \E c \in Seq(Commands) : Enqueue(c)
    BY <1>1, <2>1, <2>3, EnqueueKeeps DEF storeVars
  <2> QED BY <1>2, <2>2, <2>3, ClientsQueue
<1>3. CASE UNCHANGED vars \/ Press \/ DrainDone \/ ApRequests \/ ApClock
  BY <1>3 DEF vars, Press, DrainDone, ApRequests, ApClock, queueVars, storeVars, promiseVars,
              PromiseKept
<1>4. CASE MultiPress
  <2>1. settings' = nvsSave' /\ UNCHANGED <<stored, commandQueue>>
    BY <1>4 DEF MultiPress, UpdateSettings, queueVars
  <2>2. settings' # Nothing
    BY <1>4, CommandsTyped, NothingAssumption DEF TypeOK, StoreTypes
  <2>3. CASE NoneToStore(commandQueue)
    <3>1. LastToStore(commandQueue) = {}
      BY <2>3 DEF NoneToStore, LastToStore
    <3> QED BY <1>4, <2>1, <2>2, <2>3, <3>1 DEF MultiPress, PromiseNow, PromiseKept
  <2>4. CASE ~NoneToStore(commandQueue)
    BY <1>4, <2>1, <2>4 DEF MultiPress, PromiseNow, promiseVars, PromiseKept
  <2> QED BY <2>3, <2>4
<1>5. CASE DrainApply
  <2>1. commandQueue # <<>> /\ commandQueue' = Tail(commandQueue) /\ UNCHANGED promiseVars
    BY <1>5 DEF DrainApply, Take
  <2>2. /\ UNCHANGED stored
        /\ nvsSave' = IF Head(commandQueue).persist THEN Head(commandQueue).record ELSE nvsSave
    BY <1>5 DEF DrainApply, UpdateSettings
  <2>3. Stores(Head(commandQueue)) <=> Head(commandQueue).persist
    BY <1>5, TakeTyped, ApplyFields DEF DrainApply, Stores
  <2>4. Head(commandQueue).record # Nothing
    BY <1>5, TakeTyped, ApplyFields, NothingAssumption DEF DrainApply
  <2>5. SUFFICES ASSUME broken = "none", promised # Nothing
                 PROVE  /\ \A i \in LastToStore(Tail(commandQueue)) :
                             Tail(commandQueue)[i].record = promised
                        /\ NoneToStore(Tail(commandQueue)) =>
                             promised = IF nvsSave' # Nothing THEN nvsSave' ELSE stored'
    BY <2>1 DEF PromiseKept, promiseVars
  <2>6. \A i \in LastToStore(Tail(commandQueue)) : Tail(commandQueue)[i].record = promised
    BY <1>1, <2>1, <2>5, LastOfTaken DEF PromiseKept
  <2>7. ASSUME NoneToStore(Tail(commandQueue))
        PROVE  promised = IF nvsSave' # Nothing THEN nvsSave' ELSE stored'
    <3>1. CASE Stores(Head(commandQueue))
      <4>1. 1 \in LastToStore(commandQueue) /\ commandQueue[1] = Head(commandQueue)
        BY <1>1, <2>1, <2>7, <3>1, LastOfTaken
      <4>2. Head(commandQueue).record = promised
        BY <2>5, <4>1 DEF PromiseKept
      <4> QED BY <2>2, <2>3, <2>4, <3>1, <4>2
    <3>2. CASE ~Stores(Head(commandQueue))
      <4>1. NoneToStore(commandQueue)
        BY <1>1, <2>1, <2>7, <3>2, LastOfTaken
      <4> QED BY <2>2, <2>3, <2>5, <3>2, <4>1 DEF PromiseKept
    <3> QED BY <3>1, <3>2
  <2> QED BY <2>6, <2>7
<1>6. CASE DrainBusy \/ DrainAp \/ DrainDevice
  <2>1. /\ commandQueue # <<>> /\ commandQueue' = Tail(commandQueue)
        /\ UNCHANGED <<stored, nvsSave, promised>>
    BY <1>6 DEF DrainBusy, DrainAp, DrainDevice, Take, storeVars, promiseVars
  <2>2. broken' = "none" => broken = "none"
    BY <1>6, Zenon DEF DrainBusy, DrainAp, DrainDevice, promiseVars
  <2>3. broken' = "none" /\ 1 \in LastToStore(commandQueue) => ~Stores(Head(commandQueue))
    BY <1>6 DEF DrainBusy, DrainAp, DrainDevice, Stores
  <2>4. SUFFICES ASSUME broken' = "none", promised # Nothing
                 PROVE  /\ \A i \in LastToStore(Tail(commandQueue)) :
                             Tail(commandQueue)[i].record = promised
                        /\ NoneToStore(Tail(commandQueue)) =>
                             promised = IF nvsSave # Nothing THEN nvsSave ELSE stored
    BY <2>1 DEF PromiseKept
  <2>5. \A i \in LastToStore(Tail(commandQueue)) : Tail(commandQueue)[i].record = promised
    BY <1>1, <2>1, <2>2, <2>4, LastOfTaken DEF PromiseKept
  <2>6. NoneToStore(Tail(commandQueue)) => NoneToStore(commandQueue)
    BY <1>1, <2>1, <2>3, <2>4, LastOfTaken
  <2> QED BY <2>2, <2>4, <2>5, <2>6 DEF PromiseKept
<1>7. CASE ProcessDeferred(StopAp \/ StartAp \/ StartRefused \/ RadioFails \/ NoApJob)
  <2>1. UNCHANGED <<commandQueue, promised>>
    BY <1>7 DEF ProcessDeferred, SaveOk, SaveFails, NoSave, queueVars, promiseVars
  <2>2. CASE SaveOk
    BY <2>1, <2>2 DEF SaveOk, promiseVars, PromiseKept
  <2>3. CASE SaveFails
    BY <2>1, <2>3 DEF SaveFails, PromiseKept
  <2>4. CASE NoSave
    BY <2>1, <2>4 DEF NoSave, promiseVars, PromiseKept
  <2> QED BY <1>7, <2>2, <2>3, <2>4 DEF ProcessDeferred
<1>8. CASE Restart
  <2>1. nvsSave' = Nothing /\ commandQueue' = <<>> /\ promised' = promised
    BY <1>8 DEF Restart
  <2>2. LastToStore(<<>>) = {}
    BY DEF LastToStore
  <2>3. ASSUME broken' = "none", promised # Nothing PROVE promised = stored'
    <3>1. CASE OnItsWay
      BY <1>8, <2>3, <3>1 DEF Restart
    <3>2. CASE ~OnItsWay
      <4>1. stored' = stored /\ broken = "none"
        BY <1>8, <2>3, <3>2 DEF Restart, OnItsWay
      <4> QED BY <2>3, <3>2, <4>1 DEF OnItsWay, PromiseKept
    <3> QED BY <3>1, <3>2
  <2> QED BY <2>1, <2>2, <2>3 DEF PromiseKept
<1> QED BY <1>2, <1>3, <1>4, <1>5, <1>6, <1>7, <1>8, DeferredStep DEF Next, Loop

\* The record whose storing was promised last, from the moment enqueueApplySettings()
\* accepts its command, is the last in the queue to be stored, then the one that waits
\* to be saved, then the one in the store: no older command, unstored change or failed
\* start displaces it, and no restart once it is written.  It is lost only with a
\* reported error, or to a restart that finds it still queued or waiting.
THEOREM PromiseAlwaysKept == Spec => []PromiseKept
<1>1. Init => TypeOK /\ PromiseKept
  BY InitTyped DEF Init, PromiseKept
<1>2. TypeOK /\ PromiseKept /\ [Next]_vars => TypeOK' /\ PromiseKept'
  BY NextTyped, PromiseStep
<1> QED BY <1>1, <1>2, PTL DEF Spec

\* Queue, button, web handlers, console, access point and restarts together do to
\* record, pending save and store what the durable settings allow.
THEOREM FacadeIsDurable == Spec => ImplementsDurable
<1>1. Init => TypeOK /\ Durable!Init
  BY InitTyped DEF Init, Durable!Init
<1>2. TypeOK /\ [Next]_vars => TypeOK'
  BY NextTyped
<1>3. ASSUME TypeOK, [Next]_vars
      PROVE  [Durable!Next]_(Durable!durableVars)
  <2>1. CASE UNCHANGED storeVars
    BY <2>1 DEF storeVars, Durable!durableVars
  <2>2. CASE settings' \in Records /\ UNCHANGED stored /\ nvsSave' \in {nvsSave, settings'}
    BY <2>2 DEF Durable!Next, Durable!Change
  <2>3. CASE UNCHANGED settings /\ (SaveOk \/ SaveFails)
    BY <2>3 DEF SaveOk, SaveFails, Durable!Next, Durable!Flush
  <2>4. CASE Restart
    BY <2>4 DEF Restart, Durable!Next, Durable!Restart
  <2> QED BY <1>3, <2>1, <2>2, <2>3, <2>4, StoreStep
<1> QED BY <1>1, <1>2, <1>3, PTL DEF Spec, ImplementsDurable, Durable!Spec
=============================================================================
