---------------------------- MODULE SdLoggerProofs ----------------------------
(***************************************************************************)
(* The SD logger's mount and its file job, for every capacity, setting and *)
(* number of faults.                                                       *)
(*                                                                         *)
(* The mount state machine and the life of the library's worker agree.  The*)
(* argument is about who waits for a mount request: at most one request    *)
(* does, only while the logger is off line, and in a tick that polls       *)
(* results only while the library is started.  Everything else a tick does *)
(* to the queue of requests makes it quieter in this respect.              *)
(*                                                                         *)
(* The logger's own state has its types; while a file job runs its records *)
(* stay at the head of their ring, and it waits for exactly one request.   *)
(***************************************************************************)
EXTENDS SdLogger, FiniteSetTheorems, WellFoundedInduction, TLAPS

Fields(D, I) == [for : Clients \cup {"gone"}, op : JobOps \cup Stages \cup Setup \cup {"info"},
                 dest : D, ids : I, res : Outcomes \cup {"todo"}]

\* A queue of requests, whatever the files and records they name.
IsQueue(s) == \E D, I : s \in Seq(Fields(D, I))

\* The requests whose answers the mount state machine waits for.
MountAsked(s) == {i \in DOMAIN s : s[i].for = "mount"}
OneMount(s)   == \A i, j \in MountAsked(s) : i = j

\* t is what is left of queue s, and perhaps requests of other clients.
Quieter(s, t) ==
  /\ IsQueue(t)
  /\ OneMount(s) => OneMount(t)
  /\ MountAsked(s) = {} => MountAsked(t) = {}

MountInv ==
  /\ IsQueue(sd) /\ OneMount(sd)
  /\ wants \subseteq {"teardown", "remount", "mount"}
  /\ WorkerAccounted
  /\ started => "teardown" \notin wants
  /\ mounted => started /\ stage = "ready"
  /\ MountAsked(sd) # {} => ~mounted /\ "remount" \notin wants /\ "mount" \notin wants
  /\ "remount" \in wants \/ "mount" \in wants => ~mounted
  /\ pc = "drain" => alive /\ (MountAsked(sd) # {} => started)

-----------------------------------------------------------------------------
(* Queues of requests. *)

LEMMA SeqGrows ==
  ASSUME NEW S, NEW T, S \subseteq T, NEW s \in Seq(S) PROVE s \in Seq(T)
<1>1. s \in [1..Len(s) -> S] /\ Len(s) \in Nat OBVIOUS
<1>2. s \in [1..Len(s) -> T] BY <1>1
<1> QED BY <1>1, <1>2

\* A longer list of files and records describes the same queue.
LEMMA QueueGrows ==
  ASSUME NEW D, NEW I, NEW s \in Seq(Fields(D, I)), NEW d, NEW ids
  PROVE  s \in Seq(Fields(D \cup {d}, I \cup {ids}))
<1>1. Fields(D, I) \subseteq Fields(D \cup {d}, I \cup {ids})
  BY DEF Fields
<1> QED BY <1>1, SeqGrows

\* Without its first request a queue is quieter, and asks for no mount if the
\* first request was the one for a mount.
LEMMA TailQuieter ==
  ASSUME NEW s, IsQueue(s), s # <<>>
  PROVE  /\ Quieter(s, Tail(s))
         /\ Head(s).for = "mount" /\ OneMount(s) => MountAsked(Tail(s)) = {}
         /\ Head(s).for = "mount" => MountAsked(s) # {}
<1>1. PICK D, I : s \in Seq(Fields(D, I)) BY DEF IsQueue
<1>2. /\ Tail(s) \in Seq(Fields(D, I)) /\ Len(s) \in Nat \ {0} /\ DOMAIN s = 1..Len(s)
      /\ DOMAIN Tail(s) = 1..(Len(s) - 1) /\ Head(s) = s[1]
      /\ \A i \in 1..(Len(s) - 1) : Tail(s)[i] = s[i + 1]
  BY <1>1
<1>3. \A i \in MountAsked(Tail(s)) : i + 1 \in MountAsked(s) /\ i \in Nat \ {0}
  BY <1>2 DEF MountAsked
<1>4. OneMount(s) => OneMount(Tail(s))
  BY <1>3 DEF OneMount
<1>5. Head(s).for = "mount" => 1 \in MountAsked(s)
  BY <1>2 DEF MountAsked
<1>6. Head(s).for = "mount" /\ OneMount(s) => MountAsked(Tail(s)) = {}
  BY <1>3, <1>5 DEF OneMount
<1>7. MountAsked(s) = {} => MountAsked(Tail(s)) = {}
  BY <1>3
<1>8. IsQueue(Tail(s)) BY <1>2 DEF IsQueue
<1> QED BY <1>4, <1>5, <1>6, <1>7, <1>8 DEF Quieter

\* Clients that forget their requests make a queue quieter.
LEMMA ForgetQuieter ==
  ASSUME NEW s, IsQueue(s), NEW C
  PROVE  /\ Quieter(s, Forget(s, C))
         /\ "mount" \in C => MountAsked(Forget(s, C)) = {}
<1>1. PICK D, I : s \in Seq(Fields(D, I)) BY DEF IsQueue
<1>2. DOMAIN s = 1..Len(s) /\ Len(s) \in Nat /\ \A i \in DOMAIN s : s[i] \in Fields(D, I)
  BY <1>1
<1>3. \A i \in DOMAIN s : [s[i] EXCEPT !.for = "gone"] \in Fields(D, I)
  BY <1>2 DEF Fields
<1>4. Forget(s, C) \in Seq(Fields(D, I)) /\ DOMAIN Forget(s, C) = DOMAIN s
  BY <1>2, <1>3 DEF Forget
<1>5. \A i \in DOMAIN s : [s[i] EXCEPT !.for = "gone"].for = "gone"
  BY <1>2 DEF Fields
<1>6. \A i \in MountAsked(Forget(s, C)) : i \in MountAsked(s) /\ "mount" \notin C
  BY <1>4, <1>5 DEF MountAsked, Forget
<1>7. IsQueue(Forget(s, C)) BY <1>4 DEF IsQueue
<1>8. OneMount(s) => OneMount(Forget(s, C)) BY <1>6 DEF OneMount
<1> QED BY <1>6, <1>7, <1>8 DEF Quieter

\* A request of another client does not make a queue louder; the request for a
\* mount is the only one of its kind if it is the first.
LEMMA AskQuieter ==
  ASSUME NEW s, IsQueue(s), NEW c \in Clients, NEW d, NEW ids,
         NEW o \in JobOps \cup Stages \cup Setup \cup {"info"}, AskFor(s, c, o, d, ids)
  PROVE  /\ c # "mount" => Quieter(s, sd')
         /\ MountAsked(s) = {} => IsQueue(sd') /\ OneMount(sd')
<1> DEFINE new == [for |-> c, op |-> o, dest |-> d, ids |-> ids, res |-> "todo"]
<1>1. PICK D, I : s \in Seq(Fields(D, I)) BY DEF IsQueue
<1>2. s \in Seq(Fields(D \cup {d}, I \cup {ids})) BY <1>1, QueueGrows
<1>3. new \in Fields(D \cup {d}, I \cup {ids}) BY DEF Fields
<1>4. sd' = Append(s, new) BY DEF AskFor
<1>5. /\ sd' \in Seq(Fields(D \cup {d}, I \cup {ids}))
      /\ DOMAIN s = 1..Len(s) /\ Len(s) \in Nat /\ DOMAIN sd' = 1..(Len(s) + 1)
      /\ sd'[Len(s) + 1] = new /\ \A i \in 1..Len(s) : sd'[i] = s[i]
  BY <1>2, <1>3, <1>4
<1>6. \A i \in MountAsked(sd') : i \in MountAsked(s) \/ (c = "mount" /\ i = Len(s) + 1)
  BY <1>5 DEF MountAsked
<1>7. IsQueue(sd') BY <1>5 DEF IsQueue
<1>8. c # "mount" /\ OneMount(s) => OneMount(sd') BY <1>6 DEF OneMount
<1>9. MountAsked(s) = {} => OneMount(sd') BY <1>6 DEF OneMount
<1> QED BY <1>6, <1>7, <1>8, <1>9 DEF Quieter

\* Quieter is transitive.
LEMMA QuieterTrans ==
  ASSUME NEW s, NEW t, NEW u, Quieter(s, t), Quieter(t, u) PROVE Quieter(s, u)
BY DEF Quieter

LEMMA QuieterSelf == ASSUME NEW s, IsQueue(s) PROVE Quieter(s, s)
BY DEF Quieter

-----------------------------------------------------------------------------
(* Three ways in which a step may touch the invariant. *)

\* A step that leaves the mount alone and makes the queue no louder.
LEMMA MountSame ==
  ASSUME MountInv, UNCHANGED <<mount, alive>>, Quieter(sd, sd'),
         pc' = "drain" => pc = "drain" \/ started
  PROVE  MountInv'
BY DEF MountInv, Quieter, mount, WorkerAccounted

\* A step that takes the logger off line after its mount request is gone.
LEMMA MountOffline ==
  ASSUME MountInv, TakeOffline, UNCHANGED alive, Quieter(sd, sd'),
         MountAsked(sd') = {}, pc' = "drain" => pc = "drain"
  PROVE  MountInv'
BY DEF MountInv, Quieter, TakeOffline, WorkerAccounted

\* markUnmounted() in any step.
LEMMA MountLost ==
  ASSUME MountInv, NEW rest, Quieter(sd, rest), Unmount(rest), UNCHANGED alive,
         pc' = "drain" => pc = "drain"
  PROVE  MountInv'
<1>1. IsQueue(rest) BY DEF Quieter
<1>2. Quieter(rest, sd') /\ MountAsked(sd') = {}
  BY <1>1, ForgetQuieter DEF Unmount, Clients
<1>3. Quieter(sd, sd') BY <1>2, QuieterTrans
<1>4. TakeOffline BY DEF Unmount, TakeOffline
<1> QED BY <1>2, <1>3, <1>4, MountOffline

-----------------------------------------------------------------------------
(* The steps. *)

LEMMA MountInit == Init => MountInv
<1> SUFFICES ASSUME Init PROVE MountInv OBVIOUS
<1>1. CASE started
  <2>1. sd = <<[for |-> "mount", op |-> "mount", dest |-> "none", ids |-> {}, res |-> "todo"]>>
    BY <1>1 DEF Init
  <2>2. [for |-> "mount", op |-> "mount", dest |-> "none", ids |-> {}, res |-> "todo"]
          \in Fields({"none"}, {{}})
    BY DEF Fields, Clients, Stages
  <2>3. sd \in Seq(Fields({"none"}, {{}})) BY <2>1, <2>2
  <2>4. IsQueue(sd) BY <2>3 DEF IsQueue
  <2>5. OneMount(sd) BY <2>1 DEF OneMount, MountAsked
  <2> QED BY <1>1, <2>4, <2>5 DEF Init, MountInv, WorkerAccounted
<1>2. CASE ~started
  <2>1. sd = <<>> BY <1>2 DEF Init
  <2>2. sd \in Seq(Fields({}, {})) BY <2>1
  <2>3. IsQueue(sd) /\ MountAsked(sd) = {} /\ OneMount(sd)
    BY <2>1, <2>2 DEF IsQueue, MountAsked, OneMount
  <2> QED BY <1>2, <2>3 DEF Init, MountInv, WorkerAccounted
<1> QED BY <1>1, <1>2

\* Calls of the application.
LEMMA MountApplication == MountInv /\ Application => MountInv'
<1> SUFFICES ASSUME MountInv, Application PROVE MountInv' OBVIOUS
<1> USE DEF loop, queues, mount, session, library
<1>0. IsQueue(sd) /\ Quieter(sd, sd) BY QuieterSelf DEF MountInv
<1>1. CASE LogSample \/ LogEvent
  BY <1>0, <1>1, MountSame DEF LogSample, LogEvent, Offer
<1>2. ASSUME NEW new \in Settings, NEW renamed \in BOOLEAN, NEW bigger \in BOOLEAN,
             ApplySettings(new, renamed, bigger)
      PROVE  MountInv'
  <2>1. UNCHANGED <<mount, alive, pc>> BY <1>2 DEF ApplySettings
  <2>2. sd' = Forget(sd, {"session"}) \/ sd' = sd BY <1>2 DEF ApplySettings
  <2>3. Quieter(sd, sd') BY <1>0, <2>2, ForgetQuieter
  <2> QED BY <2>1, <2>3, MountSame
<1>3. CASE Remount
  <2>1. Quieter(sd, sd') /\ MountAsked(sd') = {}
    BY <1>0, <1>3, ForgetQuieter DEF Remount, Clients
  <2> QED BY <1>3, <2>1 DEF Remount, MountInv, Quieter, WorkerAccounted, Calling
<1>4. CASE Probe
  <2>1. UNCHANGED <<alive, pc>> BY <1>4 DEF Probe
  <2>2. CASE Unmount(sd) BY <1>0, <2>1, <2>2, MountLost
  <2>3. CASE Ask(sd, "info", "info") /\ UNCHANGED mount
    <3>1. Quieter(sd, sd') BY <1>0, <2>3, AskQuieter DEF Ask, Clients
    <3> QED BY <2>1, <2>3, <3>1, MountSame
  <2> QED BY <1>4, <2>2, <2>3 DEF Probe
<1> QED BY <1>1, <1>2, <1>3, <1>4 DEF Application

\* A result is polled: the request leaves the queue.
LEMMA Polled ==
  ASSUME MountInv, NEW c, NEW o, Answered(c, o)
  PROVE  /\ IsQueue(sd) /\ IsQueue(Rest) /\ Quieter(sd, Rest)
         /\ c = "mount" => started /\ ~mounted /\ MountAsked(Rest) = {}
                            /\ "remount" \notin wants /\ "mount" \notin wants
         /\ pc = "drain" /\ pc' = pc /\ alive' = alive
BY TailQuieter DEF MountInv, Answered, Rest, Quieter

LEMMA MountMountResult == MountInv /\ MountResult => MountInv'
<1> SUFFICES ASSUME MountInv, MountResult PROVE MountInv' OBVIOUS
<1>1. PICK o : Answered("mount", o) BY DEF MountResult
<1>2. /\ IsQueue(Rest) /\ Quieter(sd, Rest) /\ MountAsked(Rest) = {}
      /\ started /\ ~mounted /\ "remount" \notin wants /\ "mount" \notin wants
      /\ pc = "drain" /\ pc' = pc /\ alive' = alive
  BY <1>1, Polled
<1>3. ASSUME NEW g \in {"logs", "days"}, MountGoesOn(g) PROVE MountInv'
  <2>1. CASE Ask(Rest, "mount", g) /\ stage' = g /\ UNCHANGED <<mounted, started, wants>>
    <3>1. IsQueue(sd') /\ OneMount(sd')
      BY <1>2, <2>1, AskQuieter DEF Ask, Clients, Stages
    <3> QED BY <1>2, <2>1, <3>1 DEF MountInv, WorkerAccounted
  <2>2. CASE /\ Refused(Rest) /\ stage' = "idle" /\ mounted' = FALSE
             /\ UNCHANGED <<started, wants>>
    <3>1. sd' = Rest BY <2>2 DEF Refused
    <3> QED BY <1>2, <2>2, <3>1 DEF MountInv, WorkerAccounted, Quieter
  <2> QED BY <1>3, <2>1, <2>2 DEF MountGoesOn
<1>4. CASE mounted' = TRUE /\ stage' = "ready" /\ UNCHANGED <<started, wants>> /\ sd' = Rest
  BY <1>2, <1>4 DEF MountInv, WorkerAccounted, Quieter
<1>5. CASE TakeOffline /\ sd' = Rest
  BY <1>2, <1>5, MountOffline
<1> QED BY <1>3, <1>4, <1>5 DEF MountResult

LEMMA MountInfoResult == MountInv /\ InfoResult => MountInv'
<1> SUFFICES ASSUME MountInv, InfoResult PROVE MountInv' OBVIOUS
<1>1. /\ Quieter(sd, Rest) /\ pc' = pc /\ alive' = alive
  BY Polled DEF InfoResult
<1>2. CASE Unmount(Rest) BY <1>1, <1>2, MountLost
<1>3. CASE sd' = Rest /\ UNCHANGED mount BY <1>1, <1>3, MountSame
<1> QED BY <1>2, <1>3 DEF InfoResult

\* The ways in which session setup leaves the queue.
LEMMA SetupAsks ==
  ASSUME MountInv, NEW o \in Setup, NEW s, GoesOn(o, s), Quieter(sd, Rest)
  PROVE  Quieter(sd, sd')
<1>1. IsQueue(Rest) BY DEF Quieter
<1>2. CASE Ask(Rest, "session", o)
  <2>1. Quieter(Rest, sd') BY <1>1, <1>2, AskQuieter DEF Ask, Clients
  <2> QED BY <2>1, QuieterTrans
<1>3. CASE Refused(Rest) BY <1>3 DEF Refused
<1> QED BY <1>2, <1>3 DEF GoesOn

LEMMA MountSessionResult == MountInv /\ SessionResult => MountInv'
<1> SUFFICES ASSUME MountInv, SessionResult PROVE MountInv' OBVIOUS
<1>1. PICK o : Answered("session", o)
  BY DEF SessionResult, SetupDirs, SetupResume, SetupMarker
<1>2. IsQueue(Rest) /\ Quieter(sd, Rest) /\ pc' = pc /\ alive' = alive
  BY <1>1, Polled
<1>3. CASE SetupDirs /\ UNCHANGED mount
  <2>1. (\E g \in Setup : \E s : GoesOn(g, s)) \/ sd' = Rest
    BY <1>3 DEF SetupDirs, Fails, Setup
  <2>2. Quieter(sd, sd') BY <1>2, <2>1, SetupAsks
  <2> QED BY <1>2, <1>3, <2>2, MountSame
<1>4. CASE SetupResume /\ UNCHANGED mount
  <2>1. (\E g \in Setup : \E s : GoesOn(g, s)) \/ sd' = Rest
    BY <1>4 DEF SetupResume, Fails, FallsBack, IsReady, Setup
  <2>2. Quieter(sd, sd') BY <1>2, <2>1, SetupAsks
  <2> QED BY <1>2, <1>4, <2>2, MountSame
<1>5. CASE SetupMarker
  <2>1. CASE Ask(Rest, "session", "seal") /\ UNCHANGED mount
    <3>1. Quieter(Rest, sd') BY <1>2, <2>1, AskQuieter DEF Ask, Clients, Setup
    <3>2. Quieter(sd, sd') BY <1>2, <3>1, QuieterTrans
    <3> QED BY <1>2, <2>1, <3>2, MountSame
  <2>2. CASE sd' = Rest /\ UNCHANGED mount BY <1>2, <2>2, MountSame
  <2>3. CASE FailsOffline
    <3>1. Quieter(Rest, sd') /\ MountAsked(sd') = {}
      BY <1>2, <2>3, ForgetQuieter DEF FailsOffline
    <3>2. Quieter(sd, sd') BY <1>2, <3>1, QuieterTrans
    <3> QED BY <1>2, <2>3, <3>1, <3>2, MountOffline DEF FailsOffline
  <2> QED BY <1>5, <2>1, <2>2, <2>3 DEF SetupMarker, Fails, IsReady
<1> QED BY <1>3, <1>4, <1>5 DEF SessionResult

-----------------------------------------------------------------------------
(* The file job. *)

\* A failed job leaves the queue without its request, or takes the mount with it.
LEMMA MountJobFails ==
  ASSUME MountInv, NEW rest, Quieter(sd, rest), NEW st, ApplyFailure(rest, st),
         UNCHANGED alive, pc' = "drain" => pc = "drain"
  PROVE  MountInv'
<1>1. CASE Unmount(rest) BY <1>1, MountLost
<1>2. CASE sd' = Forget(rest, {"job"}) /\ UNCHANGED mount
  <2>1. Quieter(rest, sd') BY <1>2, ForgetQuieter DEF Quieter
  <2>2. Quieter(sd, sd') BY <2>1, QuieterTrans
  <2> QED BY <1>2, <2>2, MountSame
<1> QED BY <1>1, <1>2 DEF ApplyFailure

\* So does one that closes its file first.
LEMMA MountJobHolds ==
  ASSUME MountInv, NEW rest, Quieter(sd, rest), NEW n, NEW j, NEW st,
         FailHolding(n, rest, j, st), UNCHANGED alive, pc' = "drain" => pc = "drain"
  PROVE  MountInv'
<1>1. CASE AskFor(Forget(rest, {"job"}), "job", "close", j.dest, Lines(j)) /\ UNCHANGED mount
  <2>1. Quieter(rest, Forget(rest, {"job"})) BY ForgetQuieter DEF Quieter
  <2>2. Quieter(Forget(rest, {"job"}), sd')
    BY <1>1, <2>1, AskQuieter DEF Quieter, Clients, JobOps
  <2>3. Quieter(sd, sd') BY <2>1, <2>2, QuieterTrans
  <2> QED BY <1>1, <2>3, MountSame
<1>2. CASE ApplyFailure(rest, st) BY <1>2, MountJobFails
<1> QED BY <1>1, <1>2 DEF FailHolding

LEMMA MountJobGoesOn ==
  ASSUME MountInv, NEW o \in JobOps, NEW j, JobGoesOn(j, o), Quieter(sd, Rest),
         UNCHANGED alive, pc' = "drain" => pc = "drain"
  PROVE  MountInv'
<1> DEFINE ids == IF o = "close" THEN Lines(j) ELSE {}
<1>1. CASE AskFor(Rest, "job", o, j.dest, ids) /\ UNCHANGED mount
  <2>1. Quieter(Rest, sd') BY <1>1, AskQuieter DEF Quieter, Clients
  <2>2. Quieter(sd, sd') BY <2>1, QuieterTrans
  <2> QED BY <1>1, <2>2, MountSame
<1>2. CASE FailHolding(1, Rest, j, "soft") BY <1>2, MountJobHolds
<1> QED BY <1>1, <1>2 DEF JobGoesOn

LEMMA OpensQuieter ==
  ASSUME MountInv, NEW j, Opens(j), Quieter(sd, Rest)
  PROVE  Quieter(sd, sd')
<1>1. CASE AskFor(Rest, "job", "open", j.dest, {})
  <2>1. Quieter(Rest, sd') BY <1>1, AskQuieter DEF Quieter, Clients, JobOps
  <2> QED BY <2>1, QuieterTrans
<1> QED BY <1>1 DEF Opens

LEMMA MountJobResult == MountInv /\ (StatResult \/ WriteResult \/ CloseResult) => MountInv'
<1> SUFFICES ASSUME MountInv, StatResult \/ WriteResult \/ CloseResult PROVE MountInv'
  OBVIOUS
<1>1. PICK o : Answered("job", o) BY DEF StatResult, WriteResult, CloseResult
<1>2. Quieter(sd, Rest) /\ pc' = pc /\ alive' = alive BY <1>1, Polled
<1>3. CASE StatResult
  <2>1. CASE (\E j : Opens(j)) /\ UNCHANGED mount
    <3>1. Quieter(sd, sd') BY <1>2, <2>1, OpensQuieter
    <3> QED BY <1>2, <2>1, <3>1, MountSame
  <2>2. CASE sd' = Rest /\ UNCHANGED mount BY <1>2, <2>2, MountSame
  <2>3. CASE ApplyFailure(Rest, Answer) BY <1>2, <2>3, MountJobFails
  <2> QED BY <1>3, <2>1, <2>2, <2>3 DEF StatResult, RotateAll, RotateEvent
<1>4. CASE WriteResult
  <2>1. CASE \E j : JobGoesOn(j, "header") \/ JobGoesOn(j, "line") \/ JobGoesOn(j, "close")
    BY <1>2, <2>1, MountJobGoesOn DEF JobOps
  <2>2. CASE FailHolding(0, Rest, job, Answer) BY <1>2, <2>2, MountJobHolds
  <2>3. CASE ApplyFailure(Rest, Answer) BY <1>2, <2>3, MountJobFails
  <2> QED BY <1>4, <2>1, <2>2, <2>3 DEF WriteResult
<1>5. CASE CloseResult
  <2>1. CASE ApplyFailure(Rest, FailedAs) BY <1>2, <2>1, MountJobFails
  <2>2. CASE sd' = Rest /\ UNCHANGED mount BY <1>2, <2>2, MountSame
  <2> QED BY <1>5, <2>1, <2>2 DEF CloseResult
<1> QED BY <1>3, <1>4, <1>5

-----------------------------------------------------------------------------
(* The rest of the tick, and what goes on beside it. *)

LEMMA MountIgnore == MountInv /\ Ignore => MountInv'
<1> SUFFICES ASSUME MountInv, Ignore PROVE MountInv' OBVIOUS
<1>1. Quieter(sd, Rest) /\ pc' = pc /\ alive' = alive BY Polled DEF Ignore
<1> QED BY <1>1, MountSame DEF Ignore

LEMMA MountBeginTick == MountInv /\ BeginTick => MountInv'
<1> SUFFICES ASSUME MountInv, BeginTick PROVE MountInv' OBVIOUS
<1>1. Quieter(sd, sd) /\ pc = "idle" /\ alive' = alive
  BY QuieterSelf DEF MountInv, BeginTick
<1>2. CASE Unmount(sd)
  <2>1. pc' # "drain" BY <1>2 DEF BeginTick, Unmount
  <2> QED BY <1>1, <1>2, <2>1, MountLost
<1>3. CASE UNCHANGED <<mount, session, sd, job>>
  <2>1. pc' = "drain" => started BY <1>3 DEF BeginTick, mount
  <2> QED BY <1>1, <1>3, <2>1, MountSame
<1> QED BY <1>2, <1>3 DEF BeginTick

LEMMA MountStatus == MountInv /\ Status => MountInv'
<1> SUFFICES ASSUME MountInv, Status PROVE MountInv' OBVIOUS
<1>1. Quieter(sd, sd) /\ pc = "drain" /\ pc' = "deadline" /\ alive' = alive
  BY QuieterSelf DEF MountInv, Status
<1>2. CASE UNCHANGED <<mount, session, sd, job, upsets>> BY <1>1, <1>2, MountSame
<1>3. CASE Unmount(sd) BY <1>1, <1>3, MountLost
<1>4. CASE /\ ~mounted /\ wants' = wants \cup {"teardown"} /\ started' = FALSE
           /\ UNCHANGED <<mounted, stage, session, sd, job>>
  BY <1>1, <1>4 DEF MountInv, WorkerAccounted
<1> QED BY <1>2, <1>3, <1>4 DEF Status

LEMMA MountDeadline == MountInv /\ Deadline => MountInv'
<1> SUFFICES ASSUME MountInv, Deadline PROVE MountInv' OBVIOUS
<1>1. Quieter(sd, sd) /\ pc' = "info" /\ alive' = alive
  BY QuieterSelf DEF MountInv, Deadline, Fixed
<1>2. CASE UNCHANGED <<queues, mount, session, sd, job, upsets>> BY <1>1, <1>2, MountSame
<1>3. CASE FailHolding(0, sd, job, "soft") BY <1>1, <1>3, MountJobHolds
<1>4. CASE ApplyFailure(sd, "soft") BY <1>1, <1>4, MountJobFails
<1> QED BY <1>2, <1>3, <1>4 DEF Deadline

LEMMA MountInfo == MountInv /\ Info => MountInv'
<1> SUFFICES ASSUME MountInv, Info PROVE MountInv' OBVIOUS
<1>1. Quieter(sd, sd) /\ pc' = "tail" /\ UNCHANGED <<mount, alive>>
  BY QuieterSelf DEF MountInv, Info, Fixed
<1>2. PICK lost \in BOOLEAN :
        \/ sd' = IF lost THEN Forget(sd, {"info"}) ELSE sd
        \/ AskFor(IF lost THEN Forget(sd, {"info"}) ELSE sd, "info", "info", "none", {})
  BY DEF Info
<1> DEFINE rest == IF lost THEN Forget(sd, {"info"}) ELSE sd
<1>3. Quieter(sd, rest) BY <1>1, ForgetQuieter DEF MountInv
<1>4. CASE sd' = rest BY <1>1, <1>3, <1>4, MountSame
<1>5. CASE AskFor(rest, "info", "info", "none", {})
  <2>1. Quieter(rest, sd') BY <1>3, <1>5, AskQuieter DEF Quieter, Clients
  <2>2. Quieter(sd, sd') BY <1>3, <2>1, QuieterTrans
  <2> QED BY <1>1, <2>2, MountSame
<1> QED BY <1>2, <1>4, <1>5

LEMMA MountTail ==
  MountInv /\ (WaitForMount \/ MountDue \/ EnsureSession \/ StartJob \/ NoStart) => MountInv'
<1> SUFFICES ASSUME MountInv,
                    WaitForMount \/ MountDue \/ EnsureSession \/ StartJob \/ NoStart
             PROVE  MountInv'
  OBVIOUS
<1>1. Quieter(sd, sd) BY QuieterSelf DEF MountInv
<1>2. CASE WaitForMount \/ NoStart
  BY <1>1, <1>2, MountSame DEF WaitForMount, NoStart, Fixed
<1>3. CASE MountDue
  <2>1. Quieter(sd, sd') /\ MountAsked(sd') = {}
    BY <1>3, ForgetQuieter DEF MountDue, MountInv
  <2> QED BY <1>3, <2>1 DEF MountDue, Fixed, MountInv, Quieter, WorkerAccounted
<1>4. CASE EnsureSession
  <2>1. Ask(sd, "session", "runs") => Quieter(sd, sd')
    BY AskQuieter DEF Ask, Clients, Setup, MountInv
  <2>2. Quieter(sd, sd') BY <1>1, <1>4, <2>1 DEF EnsureSession, Refused
  <2> QED BY <1>4, <2>2, MountSame DEF EnsureSession, Fixed
<1>5. CASE StartJob
  <2>1. ASSUME NEW d, AskFor(sd, "job", "stat", d, {}) PROVE Quieter(sd, sd')
    BY <2>1, AskQuieter DEF Clients, JobOps, MountInv
  <2>2. sd' = sd \/ \E d : AskFor(sd, "job", "stat", d, {})
    BY <1>5 DEF StartJob, StartDaily, StartAll, StartEvent, Starts, Refused
  <2>3. Quieter(sd, sd') BY <1>1, <2>1, <2>2
  <2> QED BY <1>5, <2>3, MountSame DEF StartJob, Fixed
<1> QED BY <1>2, <1>3, <1>4, <1>5

LEMMA EmptyQueue == IsQueue(<<>>) /\ MountAsked(<<>>) = {}
<1>1. <<>> \in Seq(Fields({}, {})) OBVIOUS
<1> QED BY <1>1 DEF IsQueue, MountAsked

LEMMA MountDeferred == MountInv /\ Deferred => MountInv'
<1> SUFFICES ASSUME MountInv, Deferred PROVE MountInv' OBVIOUS
<1>1. Quieter(sd, sd) /\ IsQueue(sd) BY QuieterSelf DEF MountInv
<1>2. CASE NothingDeferred
  BY <1>1, <1>2, MountSame DEF NothingDeferred, Deferring
<1>3. CASE Teardown
  BY <1>3, EmptyQueue DEF Teardown, End, Deferring, MountInv, WorkerAccounted, OneMount
<1>4. CASE EndToMount
  BY <1>4, EmptyQueue DEF EndToMount, End, Deferring, MountInv, WorkerAccounted, OneMount
<1>5. CASE Mount
  <2>1. mounted' = FALSE /\ pc' = "idle" /\ ~started /\ "teardown" \notin wants
    BY <1>5 DEF Mount, Deferring
  <2>2. CASE wants' = {} /\ sd' = Forget(sd, {"mount", "info", "session"})
             /\ UNCHANGED <<started, alive>>
    <3>1. Quieter(sd, sd') /\ MountAsked(sd') = {} BY <1>1, <2>2, ForgetQuieter
    <3> QED BY <2>1, <2>2, <3>1 DEF MountInv, WorkerAccounted, Quieter
  <2>3. CASE End /\ wants' = {}
    BY <2>1, <2>3, EmptyQueue DEF End, MountInv, WorkerAccounted, OneMount
  <2>4. CASE alive' = TRUE /\ Ask(<<>>, "mount", "mount") /\ started' = TRUE /\ wants' = {}
    <3>1. IsQueue(sd') /\ OneMount(sd')
      BY <2>4, EmptyQueue, AskQuieter DEF Ask, Clients, Stages
    <3> QED BY <2>1, <2>4, <3>1 DEF MountInv, WorkerAccounted
  <2>5. CASE alive' = TRUE /\ Refused(<<>>) /\ started' = FALSE /\ wants' = {"teardown"}
    BY <2>1, <2>5, EmptyQueue DEF Refused, MountInv, WorkerAccounted, OneMount
  <2> QED BY <1>5, <2>2, <2>3, <2>4, <2>5 DEF Mount
<1> QED BY <1>2, <1>3, <1>4, <1>5 DEF Deferred

\* The worker answers a request; who waits for it stays.
LEMMA MountWork == MountInv /\ Work => MountInv'
<1> SUFFICES ASSUME MountInv, Work PROVE MountInv' OBVIOUS
<1>1. UNCHANGED <<mount, alive, pc>> BY DEF Work, loop
<1>2. PICK i \in DOMAIN sd, a \in Outcomes : sd' = [sd EXCEPT ![i].res = a] BY DEF Work
<1>3. PICK D, I : sd \in Seq(Fields(D, I)) BY DEF MountInv, IsQueue
<1>4. DOMAIN sd = 1..Len(sd) /\ Len(sd) \in Nat /\ sd[i] \in Fields(D, I)
  BY <1>3
<1>5. [sd[i] EXCEPT !.res = a] \in Fields(D, I) /\ [sd[i] EXCEPT !.res = a].for = sd[i].for
  BY <1>4 DEF Fields
<1>6. sd' = [sd EXCEPT ![i] = [sd[i] EXCEPT !.res = a]] BY <1>2
<1>7. sd' \in Seq(Fields(D, I)) BY <1>3, <1>4, <1>5, <1>6
<1>8. MountAsked(sd') = MountAsked(sd) BY <1>4, <1>5, <1>6 DEF MountAsked
<1>9. Quieter(sd, sd') BY <1>7, <1>8 DEF Quieter, IsQueue, OneMount
<1> QED BY <1>1, <1>9, MountSame

LEMMA MountAside ==
  MountInv /\ (\/ RemoveCard \/ InsertCard \/ Late \/ SessionBackoffEnds \/ RecordBackoffEnds
               \/ UNCHANGED vars) => MountInv'
<1> SUFFICES ASSUME MountInv, UNCHANGED <<pc, mount, alive, sd>> PROVE MountInv'
  BY DEF RemoveCard, InsertCard, Late, SessionBackoffEnds, RecordBackoffEnds, Aside, vars,
         loop, library
<1>1. Quieter(sd, sd) BY QuieterSelf DEF MountInv
<1> QED BY <1>1, MountSame

-----------------------------------------------------------------------------
(* The theorems. *)

\* The mount, the deferred flags, the worker and the mount request always agree
\* (markUnmounted, mount, processDeferred and the mount results of tick).
THEOREM MountAlwaysConsistent == Spec => []MountInv
<1>1. MountInv /\ [Next]_vars => MountInv'
  BY MountApplication, MountIgnore, MountMountResult, MountInfoResult, MountSessionResult,
     MountJobResult, MountBeginTick, MountStatus, MountDeadline, MountInfo, MountTail,
     MountDeferred, MountWork, MountAside
  DEF Next, Tick, Result
<1> QED BY <1>1, MountInit, PTL DEF Spec

\* While the logger says that a card is mounted, the library runs and is not
\* about to be torn down.
THEOREM MountAlwaysAgrees == Spec => []MountAgrees
<1>1. MountInv => MountAgrees BY DEF MountInv, MountAgrees, WorkerAccounted
<1> QED BY <1>1, MountAlwaysConsistent, PTL

\* No worker task is ever left over: one runs only if the logger polls it or is
\* about to end it, so begin() never finds an old one.
THEOREM WorkerAlwaysAccounted == Spec => []WorkerAccounted
<1>1. MountInv => WorkerAccounted BY DEF MountInv
<1> QED BY <1>1, MountAlwaysConsistent, PTL

-----------------------------------------------------------------------------
(* Rings. *)

\* A set of numbers has a least one.
LEMMA Least ==
  ASSUME NEW S, S \subseteq Nat, S # {} PROVE \E m \in S : \A k \in S : m <= k
<1> DEFINE R == {ss \in Nat \X Nat : ss[1] < ss[2]}
<1>1. IsWellFoundedOn(R, Nat) BY NatLessThanWellFounded DEF OpToRel
<1>2. PICK m \in S : \A k \in S : <<k, m>> \notin R BY <1>1, WFMin
<1>3. \A k \in S : <<k, m>> \in Nat \X Nat /\ (k < m => <<k, m>> \in R) OBVIOUS
<1>4. \A k \in S : ~(k < m) BY <1>2, <1>3
<1> QED BY <1>4

\* Records that are done leave the head; the rest is a ring and no longer.
LEMMA TrimType ==
  ASSUME NEW q \in Seq(Record)
  PROVE  Trim(q) \in Seq(Record) /\ Len(Trim(q)) <= Len(q)
<1> DEFINE live == {i \in DOMAIN q : q[i].pend # {}}
           first == CHOOSE i \in live : \A j \in live : i <= j
<1>1. CASE live = {}
  BY <1>1 DEF Trim
<1>2. CASE live # {}
  <2>1. live \subseteq Nat /\ DOMAIN q = 1..Len(q) /\ Len(q) \in Nat OBVIOUS
  <2>2. \E i \in live : \A j \in live : i <= j BY <1>2, <2>1, Least
  <2>3. first \in 1..Len(q) BY <2>1, <2>2
  <2>4. Trim(q) = SubSeq(q, first, Len(q)) BY <1>2 DEF Trim
  <2> HIDE DEF first
  <2>5. SubSeq(q, first, Len(q)) \in Seq(Record) BY <2>1, <2>3
  <2>6. Len(SubSeq(q, first, Len(q))) = Len(q) - first + 1 BY <2>1, <2>3
  <2> QED BY <2>1, <2>3, <2>4, <2>5, <2>6
<1> QED BY <1>1, <1>2

\* Success, failure and a discarded batch leave a ring behind.
LEMMA BatchTypes ==
  ASSUME NEW q \in Seq(Record), NEW n \in Nat, NEW d \in Dests
  PROVE  /\ Written(q, n, d) \in Seq(Record) /\ Len(Written(q, n, d)) <= Len(q)
         /\ Failed(q, n, d) \in Seq(Record) /\ Len(Failed(q, n, d)) <= Len(q)
         /\ Discarded(q, n, d) \in Seq(Record) /\ Len(Discarded(q, n, d)) <= Len(q)
<1>1. \A i \in DOMAIN q : q[i] \in Record OBVIOUS
<1>2. ASSUME NEW r \in Record PROVE Cleared(r, d) \in Record
  <2>1. /\ r.tries \in [Dests -> 0..MaxRetries] /\ r.pend \in SUBSET Dests
        /\ [r.tries EXCEPT ![d] = 0] \in [Dests -> 0..MaxRetries]
    BY QueueAssumption DEF Record
  <2> QED BY <2>1 DEF Cleared, Record
<1>3. ASSUME NEW r \in Record PROVE Tried(r, d) \in Record
  <2>1. r.tries \in [Dests -> 0..MaxRetries] /\ r.pend \in SUBSET Dests BY DEF Record
  <2>2. [r.tries EXCEPT ![d] = MaxRetries] \in [Dests -> 0..MaxRetries]
    BY <2>1, QueueAssumption
  <2>3. ~GivesUp(r, d) => [r.tries EXCEPT ![d] = @ + 1] \in [Dests -> 0..MaxRetries]
    BY <2>1, QueueAssumption DEF GivesUp
  <2> QED BY <2>1, <2>2, <2>3 DEF Tried, Record
<1>4. \A r \in Record : [r EXCEPT !.pend = @ \ {d}] \in Record
  BY DEF Record
<1>5. Written(q, n, d) \in Seq(Record) /\ Len(Written(q, n, d)) <= Len(q)
  <2> DEFINE f == [i \in DOMAIN q |-> IF i <= n THEN Cleared(q[i], d) ELSE q[i]]
  <2>1. f \in Seq(Record) /\ Len(f) = Len(q) BY <1>1, <1>2
  <2> QED BY <2>1, TrimType DEF Written
<1>6. Failed(q, n, d) \in Seq(Record) /\ Len(Failed(q, n, d)) <= Len(q)
  <2> DEFINE f == [i \in DOMAIN q |-> IF i <= n THEN Tried(q[i], d) ELSE q[i]]
  <2>1. f \in Seq(Record) /\ Len(f) = Len(q) BY <1>1, <1>3
  <2> QED BY <2>1, TrimType DEF Failed
<1>7. Discarded(q, n, d) \in Seq(Record) /\ Len(Discarded(q, n, d)) <= Len(q)
  <2> DEFINE f == [i \in DOMAIN q |-> IF i <= n THEN [q[i] EXCEPT !.pend = @ \ {d}] ELSE q[i]]
  <2>1. f \in Seq(Record) /\ Len(f) = Len(q) BY <1>1, <1>4
  <2> QED BY <2>1, TrimType DEF Discarded
<1> QED BY <1>5, <1>6, <1>7

\* The records given up are so many.
LEMMA GivenUpType ==
  ASSUME NEW q, NEW n \in Nat, NEW d PROVE GivenUp(q, n, d) \in Nat
<1> DEFINE T == {i \in 1..n : GivesUp(q[i], d)}
<1>1. IsFiniteSet(1..n) BY FS_Interval
<1>2. T \in SUBSET (1..n) OBVIOUS
<1>3. IsFiniteSet(T) BY <1>1, <1>2, FS_Subset
<1> QED BY <1>3, FS_CardinalityType DEF GivenUp

-----------------------------------------------------------------------------
(* The invariant. *)

\* The requests the file job waits for.
JobAsked(s) == {i \in DOMAIN s : s[i].for = "job"}

\* What the library may say of a write.
Plain == {"todo", "ok", "soft", "media"}
Writes == {"header", "line"}

\* They are one at most, and it is for what the job does now.
JobRequest(s, j) ==
  /\ \A i, k \in JobAsked(s) : i = k
  /\ \A i \in JobAsked(s) : s[i].op = j.op /\ (s[i].op \in Writes => s[i].res \in Plain)
  /\ JobAsked(s) # {} => j # NoJob

\* How far a job may be at each of its operations.
JobWell(j) ==
  j # NoJob => /\ j.dest \in Dests /\ j.op \in JobOps
               /\ j.op \notin {"line", "close"} => j.at = 0
               /\ j.op = "line" => j.at < j.batch
               /\ j.at <= j.batch

LoggerType == LoopType /\ RingType /\ JobType /\ MountType /\ SessionType

JobInv ==
  /\ LoggerType /\ offered \in [Rings -> Nat]
  /\ JobWell(job) /\ JobHoldsHead
  /\ JobRequest(sd, job)
  /\ job # NoJob /\ mounted => JobAsked(sd) # {}
  /\ job # NoJob => mounted \/ ~started
  /\ ~alive => sd = <<>>
  /\ pc = "start" => mounted
  /\ pc \in {"drain", "deadline"} => alive

-----------------------------------------------------------------------------
(* Types, action by action. *)

LEMMA RingOfRing == \A d : RingOf(d) \in Rings
BY DEF RingOf, Rings

LEMMA NoJobType == NoJob \in [dest : Dests \cup {"none"}, op : JobOps \cup {"none"},
          batch : 0..MaxBatch, at : 0..MaxBatch, header : BOOLEAN,
          fail : {"none", "soft", "media"}, late : BOOLEAN, here : BOOLEAN]
BY QueueAssumption DEF NoJob

Sessions == [stage : Setup \cup {"idle"}, ready : BOOLEAN, fresh : BOOLEAN,
             named : BOOLEAN, marked : BOOLEAN, wait : BOOLEAN]

LEMMA ResetTypes ==
  ASSUME NEW s \in Sessions, NEW b \in BOOLEAN, ResetSession(b, s), capped' \in BOOLEAN
  PROVE  SessionType'
<1>1. sess' \in Sessions BY DEF ResetSession, Sessions
<1>2. part' \in [Rings -> 1..PartMax] /\ rows' \in Nat /\ filed' \in Nat
  BY LoggerAssumption DEF ResetSession
<1> QED BY <1>1, <1>2 DEF SessionType, Sessions

LEMMA UnmountTypes ==
  ASSUME MountType, SessionType, NEW rest, Unmount(rest)
  PROVE  MountType' /\ SessionType'
<1> DEFINE s == [sess EXCEPT !.fresh = Fresh, !.wait = TRUE]
<1>0. Fresh \in BOOLEAN /\ (~KeepsIdentity) \in BOOLEAN BY DEF Fresh
<1>1. s \in Sessions BY <1>0 DEF SessionType, Sessions
<1>2. ResetSession(~KeepsIdentity, s) BY DEF Unmount
<1>3. capped' \in BOOLEAN BY DEF Unmount, SessionType
<1>4. SessionType' BY <1>0, <1>1, <1>2, <1>3, ResetTypes
<1>5. MountType' BY DEF Unmount, MountType, Stages
<1> QED BY <1>4, <1>5

LEMMA FailBatchTypes ==
  ASSUME RingType, JobType, job.dest \in Dests, FailBatch
  PROVE  RingType' /\ JobType'
<1> DEFINE k == RingOf(job.dest)
           q == Failed(ring[k], job.batch, job.dest)
           n == GivenUp(ring[k], job.batch, job.dest)
<1>1. k \in Rings /\ ring[k] \in Seq(Record) /\ job.batch \in Nat /\ Len(ring[k]) \in Nat
  BY RingOfRing, QueueAssumption DEF RingType, JobType
<1>2. q \in Seq(Record) /\ Len(q) <= Len(ring[k]) BY <1>1, BatchTypes
<1>3. n \in Nat BY <1>1, GivenUpType
<1>4. ring' = [ring EXCEPT ![k] = q] /\ dropped' = [dropped EXCEPT ![k] = @ + n]
  BY DEF FailBatch
<1> HIDE DEF k, q, n
<1>5. RingType'
  <2>1. ring' \in [Rings -> Seq(Record)] BY <1>1, <1>2, <1>4 DEF RingType
  <2>2. dropped' \in [Rings -> Nat] BY <1>1, <1>3, <1>4 DEF RingType
  <2>3. ASSUME NEW r \in Rings PROVE Len(ring'[r]) <= Capacity[r]
    <3>1. /\ ring[r] \in Seq(Record) /\ Len(ring[r]) <= Capacity[r]
          /\ ring'[r] = IF r = k THEN q ELSE ring[r]
      BY <1>1, <1>4 DEF RingType
    <3>2. Capacity[r] \in Nat BY LoggerAssumption
    <3>3. Len(q) \in Nat /\ Len(ring[r]) \in Nat BY <1>2, <3>1
    <3> QED BY <1>2, <3>1, <3>2, <3>3
  <2> QED BY <2>1, <2>2, <2>3 DEF RingType
<1>6. JobType' BY NoJobType DEF FailBatch, JobType
<1> QED BY <1>5, <1>6

-----------------------------------------------------------------------------
(* The job's request in the queue. *)

\* t has the job's request if s has it, and no other.
Kept(s, t) ==
  /\ (\A i, k \in JobAsked(s) : i = k) => \A i, k \in JobAsked(t) : i = k
  /\ \A k \in JobAsked(t) : \E i \in JobAsked(s) : s[i].op = t[k].op /\ s[i].res = t[k].res
  /\ JobAsked(s) # {} => JobAsked(t) # {}

\* Polling another client's result keeps the job's request; polling its own
\* leaves it none.
LEMMA TailKeeps ==
  ASSUME NEW s, IsQueue(s), s # <<>>
  PROVE  /\ IsQueue(Tail(s))
         /\ Head(s).for # "job" => Kept(s, Tail(s))
         /\ Head(s).for = "job" =>
              /\ JobAsked(s) # {}
              /\ \A j : JobRequest(s, j) =>
                    /\ j # NoJob /\ Head(s).op = j.op /\ JobAsked(Tail(s)) = {}
                    /\ Head(s).op \in Writes => Head(s).res \in Plain
<1>1. PICK D, I : s \in Seq(Fields(D, I)) BY DEF IsQueue
<1>2. /\ Tail(s) \in Seq(Fields(D, I)) /\ Len(s) \in Nat \ {0} /\ DOMAIN s = 1..Len(s)
      /\ DOMAIN Tail(s) = 1..(Len(s) - 1) /\ Head(s) = s[1]
      /\ \A i \in 1..(Len(s) - 1) : Tail(s)[i] = s[i + 1]
  BY <1>1
<1>3. \A i \in JobAsked(Tail(s)) :
        i \in Nat \ {0} /\ i + 1 \in JobAsked(s) /\ s[i + 1] = Tail(s)[i]
  BY <1>2 DEF JobAsked
<1>4. Head(s).for = "job" => 1 \in JobAsked(s) BY <1>2 DEF JobAsked
<1>5. ASSUME Head(s).for # "job", JobAsked(s) # {} PROVE JobAsked(Tail(s)) # {}
  <2>1. PICK i \in JobAsked(s) : TRUE BY <1>5
  <2>2. i \in 1..Len(s) /\ i # 1 BY <1>2, <1>5, <2>1 DEF JobAsked
  <2>3. i - 1 \in 1..(Len(s) - 1) /\ (i - 1) + 1 = i BY <1>2, <2>2
  <2>4. i - 1 \in JobAsked(Tail(s)) BY <1>2, <2>1, <2>3 DEF JobAsked
  <2> QED BY <2>4
<1>6. Head(s).for # "job" => Kept(s, Tail(s))
  <2>1. ASSUME \A i, k \in JobAsked(s) : i = k, NEW i \in JobAsked(Tail(s)),
               NEW k \in JobAsked(Tail(s))
        PROVE  i = k
    <3>1. i + 1 = k + 1 /\ i \in Nat /\ k \in Nat BY <1>3, <2>1
    <3> QED BY <3>1
  <2>2. \A k \in JobAsked(Tail(s)) :
          \E i \in JobAsked(s) : s[i].op = Tail(s)[k].op /\ s[i].res = Tail(s)[k].res
    BY <1>3
  <2> QED BY <1>5, <2>1, <2>2 DEF Kept
<1>7. ASSUME Head(s).for = "job", NEW j, JobRequest(s, j)
      PROVE  /\ j # NoJob /\ Head(s).op = j.op /\ JobAsked(Tail(s)) = {}
             /\ Head(s).op \in Writes => Head(s).res \in Plain
  <2>1. /\ j # NoJob /\ Head(s).op = j.op
        /\ Head(s).op \in Writes => Head(s).res \in Plain
    BY <1>2, <1>4, <1>7 DEF JobRequest
  <2>2. JobAsked(Tail(s)) = {} BY <1>3, <1>4, <1>7 DEF JobRequest
  <2> QED BY <2>1, <2>2
<1>8. IsQueue(Tail(s)) BY <1>2 DEF IsQueue
<1> QED BY <1>4, <1>6, <1>7, <1>8

\* The job's request stays unless the job is among those that forget.
LEMMA ForgetKeeps ==
  ASSUME NEW s, IsQueue(s), NEW C
  PROVE  /\ IsQueue(Forget(s, C))
         /\ "job" \notin C => Kept(s, Forget(s, C))
         /\ "job" \in C => JobAsked(Forget(s, C)) = {}
<1>1. PICK D, I : s \in Seq(Fields(D, I)) BY DEF IsQueue
<1>2. DOMAIN s = 1..Len(s) /\ \A i \in DOMAIN s : s[i] \in Fields(D, I) BY <1>1
<1>3. \A i \in DOMAIN s : [s[i] EXCEPT !.for = "gone"].for = "gone" BY <1>2 DEF Fields
<1>4. DOMAIN Forget(s, C) = DOMAIN s
      /\ \A i \in DOMAIN s : Forget(s, C)[i] = IF s[i].for \in C
                                                THEN [s[i] EXCEPT !.for = "gone"] ELSE s[i]
  BY DEF Forget
<1>5. \A i \in JobAsked(Forget(s, C)) :
        "job" \notin C /\ i \in JobAsked(s) /\ Forget(s, C)[i] = s[i]
  BY <1>3, <1>4 DEF JobAsked
<1>6. \A i \in JobAsked(s) : "job" \notin C => i \in JobAsked(Forget(s, C))
  BY <1>4 DEF JobAsked
<1>7. IsQueue(Forget(s, C)) BY ForgetQuieter DEF Quieter
<1>8. "job" \notin C => Kept(s, Forget(s, C)) BY <1>5, <1>6 DEF Kept
<1> QED BY <1>5, <1>7, <1>8

\* Another client's request does not touch the job's; the job's own is the one.
LEMMA AskKeeps ==
  ASSUME NEW s, IsQueue(s), NEW c \in Clients, NEW d, NEW ids,
         NEW o \in JobOps \cup Stages \cup Setup \cup {"info"}, AskFor(s, c, o, d, ids)
  PROVE  /\ IsQueue(sd')
         /\ c # "job" => Kept(s, sd')
         /\ c = "job" /\ JobAsked(s) = {} =>
              /\ JobAsked(sd') # {}
              /\ \A j : j # NoJob /\ j.op = o => JobRequest(sd', j)
<1> DEFINE new == [for |-> c, op |-> o, dest |-> d, ids |-> ids, res |-> "todo"]
<1>1. PICK D, I : s \in Seq(Fields(D, I)) BY DEF IsQueue
<1>2. s \in Seq(Fields(D \cup {d}, I \cup {ids})) BY <1>1, QueueGrows
<1>3. new \in Fields(D \cup {d}, I \cup {ids}) BY DEF Fields
<1>4. sd' = Append(s, new) BY DEF AskFor
<1>5. /\ sd' \in Seq(Fields(D \cup {d}, I \cup {ids}))
      /\ DOMAIN s = 1..Len(s) /\ Len(s) \in Nat /\ DOMAIN sd' = 1..(Len(s) + 1)
      /\ sd'[Len(s) + 1] = new /\ \A i \in 1..Len(s) : sd'[i] = s[i]
  BY <1>2, <1>3, <1>4
<1>6. \A i \in JobAsked(sd') :
        \/ i \in JobAsked(s) /\ sd'[i] = s[i]
        \/ c = "job" /\ i = Len(s) + 1 /\ sd'[i].op = o /\ sd'[i].res = "todo"
  BY <1>5 DEF JobAsked
<1>7. \A i \in JobAsked(s) : i \in JobAsked(sd') BY <1>5 DEF JobAsked
<1>8. c = "job" => Len(s) + 1 \in JobAsked(sd') BY <1>5 DEF JobAsked
<1>9. IsQueue(sd') BY <1>5 DEF IsQueue
<1>10. c # "job" => Kept(s, sd') BY <1>6, <1>7 DEF Kept
<1>11. ASSUME c = "job", JobAsked(s) = {}, NEW j, j # NoJob, j.op = o
       PROVE  JobRequest(sd', j)
  BY <1>6, <1>11 DEF JobRequest, Plain
<1> QED BY <1>8, <1>9, <1>10, <1>11

LEMMA ForgetEmpty == ASSUME NEW C PROVE Forget(<<>>, C) = <<>>
<1> DEFINE t == Forget(<<>>, C)
<1>1. t \in Seq({}) /\ Len(t) = 0 BY DEF Forget
<1> QED BY <1>1

LEMMA KeptTrans == ASSUME NEW s, NEW t, NEW u, Kept(s, t), Kept(t, u) PROVE Kept(s, u)
BY DEF Kept

LEMMA KeptSelf == ASSUME NEW s PROVE Kept(s, s)
BY DEF Kept

LEMMA KeptNone == ASSUME NEW s, NEW t, Kept(s, t), JobAsked(s) = {} PROVE JobAsked(t) = {}
BY DEF Kept

-----------------------------------------------------------------------------
(* Four ways in which a step may touch the invariant. *)

\* The records a job points at stay where they are, pending for what they were.
RingGrows ==
  \A k \in Rings :
    /\ Len(ring[k]) <= Len(ring'[k])
    /\ \A i \in 1..Len(ring[k]) : ring'[k][i].pend = ring[k][i].pend

\* The parts of the invariant that do not speak of the job.
Around ==
  /\ LoggerType /\ offered \in [Rings -> Nat]
  /\ ~alive => sd = <<>>
  /\ pc = "start" => mounted
  /\ pc \in {"drain", "deadline"} => alive

\* A job goes on as before.
SameJob ==
  /\ job' = NoJob <=> job = NoJob
  /\ job'.dest = job.dest /\ job'.op = job.op /\ job'.batch = job.batch /\ job'.at = job.at

LEMMA HeadStays ==
  ASSUME JobInv, RingGrows, job # NoJob, job'.dest = job.dest, job'.batch = job.batch,
         RingType'
  PROVE  JobHoldsHead'
<1> DEFINE k == RingOf(job.dest)
<1>1. k \in Rings BY RingOfRing
<1>2. /\ job.batch \in 1..Len(ring[k])
      /\ \A i \in 1..job.batch : job.dest \in ring[k][i].pend
  BY DEF JobInv, JobHoldsHead
<1>3. ring[k] \in Seq(Record) /\ ring'[k] \in Seq(Record)
  BY <1>1 DEF JobInv, LoggerType, RingType
<1>4. Len(ring[k]) \in Nat /\ Len(ring'[k]) \in Nat BY <1>3
<1>5. /\ Len(ring[k]) <= Len(ring'[k])
      /\ \A i \in 1..Len(ring[k]) : ring'[k][i].pend = ring[k][i].pend
  BY <1>1 DEF RingGrows
<1>6. job.batch \in 1..Len(ring'[k]) BY <1>2, <1>4, <1>5
<1>7. \A i \in 1..job.batch : job.dest \in ring'[k][i].pend BY <1>2, <1>4, <1>5
<1> QED BY <1>6, <1>7 DEF JobHoldsHead

LEMMA JobSame ==
  ASSUME JobInv, Around', SameJob, Kept(sd, sd'), RingGrows,
         UNCHANGED <<mounted, started>> \/ (~started' /\ (mounted' => mounted))
  PROVE  JobInv'
<1>1. JobWell(job') BY DEF JobInv, JobWell, SameJob
<1>2. JobHoldsHead'
  BY HeadStays DEF SameJob, Around, LoggerType, JobHoldsHead
<1>3. JobRequest(sd', job') BY DEF Kept, JobInv, JobRequest, SameJob
<1>4. job' # NoJob /\ mounted' => JobAsked(sd') # {}
  BY DEF Kept, JobInv, SameJob
<1>5. job' # NoJob => mounted' \/ ~started' BY DEF JobInv, SameJob
<1> QED BY <1>1, <1>2, <1>3, <1>4, <1>5 DEF JobInv, Around

\* A job ends, or there is none.
LEMMA JobEnds ==
  ASSUME Around', job' = NoJob, JobAsked(sd') = {} PROVE JobInv'
BY DEF JobInv, Around, JobWell, JobHoldsHead, JobRequest

\* A job goes on to its next operation.
LEMMA JobNext ==
  ASSUME JobInv, Around', job # NoJob, job' # NoJob, job'.dest = job.dest,
         job'.batch = job.batch, ring' = ring, JobWell(job'),
         JobRequest(sd', job'), JobAsked(sd') # {}, UNCHANGED <<mounted, started>>
  PROVE  JobInv'
<1>1. RingGrows /\ RingType'
  <2>1. \A k \in Rings : ring[k] \in Seq(Record) BY DEF JobInv, LoggerType, RingType
  <2>2. \A k \in Rings : Len(ring[k]) \in Nat BY <2>1
  <2> QED BY <2>2 DEF RingGrows, Around, LoggerType
<1>2. JobHoldsHead' BY <1>1, HeadStays
<1> QED BY <1>2 DEF JobInv, Around

-----------------------------------------------------------------------------
(* The steps: calls of the application. *)

LEMMA JobInit == Init => JobInv
<1> SUFFICES ASSUME Init PROVE JobInv OBVIOUS
<1>1. LoopType BY LoggerAssumption DEF Init, LoopType
<1>2. RingType BY LoggerAssumption DEF Init, RingType
<1>3. JobType BY NoJobType DEF Init, JobType
<1>4. MountType BY DEF Init, MountType, Stages, CardSeen
<1>5. SessionType
  <2> DEFINE b == "all" \in cfg
  <2>1. b \in BOOLEAN OBVIOUS
  <2>2. sess = [NoSession EXCEPT !.fresh = b] BY DEF Init
  <2> HIDE DEF b
  <2>3. sess \in Sessions BY <2>1, <2>2 DEF NoSession, Sessions
  <2>4. part = [k \in Rings |-> 1] /\ capped = FALSE /\ rows = 0 /\ filed = 0 BY DEF Init
  <2>5. part \in [Rings -> 1..PartMax] BY <2>4, LoggerAssumption
  <2> QED BY <2>3, <2>4, <2>5 DEF SessionType, Sessions
<1>6. JobAsked(sd) = {} BY DEF Init, JobAsked
<1>7. LoggerType /\ offered \in [Rings -> Nat]
  BY <1>1, <1>2, <1>3, <1>4, <1>5 DEF LoggerType, Init
<1>8. job = NoJob /\ pc = "idle" /\ (~alive => sd = <<>>) BY DEF Init
<1> QED BY <1>6, <1>7, <1>8 DEF JobInv, JobWell, JobHoldsHead, JobRequest

LEMMA RingsGrow ==
  ASSUME RingType, ring' = ring PROVE RingGrows
<1>1. \A k \in Rings : Len(ring[k]) \in Nat BY DEF RingType
<1> QED BY <1>1 DEF RingGrows

LEMMA JobOffer ==
  ASSUME JobInv, NEW k \in Rings, NEW dests \in SUBSET Dests, Offer(k, dests)
  PROVE  JobInv'
<1> USE DEF loop, mount, session, library
<1>1. /\ UNCHANGED <<pc, drained, cfg, job, mounted, stage, started, wants, sess, part,
                     capped, rows, filed, alive, sd>>
      /\ offered' = [offered EXCEPT ![k] = @ + 1] /\ pc = "idle"
  BY DEF Offer, Calling
<1>2. LoopType' /\ JobType' /\ MountType' /\ SessionType'
  BY <1>1 DEF JobInv, LoggerType, LoopType, JobType, MountType, SessionType
<1>3. offered' \in [Rings -> Nat] BY <1>1 DEF JobInv
<1>4. RingType BY DEF JobInv, LoggerType
<1>5. RingType' /\ RingGrows
  <2>1. CASE HasRoom(k) /\ UNCHANGED dropped
             /\ ring' = [ring EXCEPT ![k] = Append(@, NewRecord(offered[k] + 1, dests))]
    <3> DEFINE r == NewRecord(offered[k] + 1, dests)
    <3>1. r \in Record
      BY QueueAssumption DEF NewRecord, Record, JobInv
    <3>2. ring' = [ring EXCEPT ![k] = Append(@, r)] BY <2>1
    <3> HIDE DEF r
    <3>3. ring[k] \in Seq(Record) /\ ring'[k] = Append(ring[k], r) BY <1>4, <3>2 DEF RingType
    <3>4. /\ ring'[k] \in Seq(Record) /\ Len(ring'[k]) = Len(ring[k]) + 1
          /\ \A i \in 1..Len(ring[k]) : ring'[k][i] = ring[k][i]
          /\ Len(ring[k]) \in Nat
      BY <3>1, <3>3
    <3>5. Len(ring[k]) < Capacity[k] /\ Capacity[k] \in Nat
      BY <2>1, LoggerAssumption DEF HasRoom
    <3>6. \A j \in Rings : ring[j] \in Seq(Record) /\ Len(ring[j]) \in Nat
                          /\ (j # k => ring'[j] = ring[j])
      BY <1>4, <3>2 DEF RingType
    <3>7. RingGrows BY <3>4, <3>6 DEF RingGrows
    <3>8. ASSUME NEW j \in Rings PROVE Len(ring'[j]) <= Capacity[j]
      <4>1. CASE j = k BY <3>4, <3>5, <4>1
      <4>2. CASE j # k BY <1>4, <3>6, <4>2 DEF RingType
      <4> QED BY <4>1, <4>2
    <3>9. ring' \in [Rings -> Seq(Record)] BY <1>4, <3>2, <3>3, <3>4 DEF RingType
    <3> QED BY <1>4, <2>1, <3>7, <3>8, <3>9 DEF RingType
  <2>2. CASE dropped' = [dropped EXCEPT ![k] = @ + 1] /\ UNCHANGED ring
    BY <1>4, <2>2, RingsGrow DEF RingType
  <2> QED BY <2>1, <2>2 DEF Offer
<1>6. Around' BY <1>1, <1>2, <1>3, <1>5 DEF Around, LoggerType, JobInv
<1> QED BY <1>1, <1>5, <1>6, KeptSelf, JobSame DEF SameJob

\* A settings change keeps the job; it only notes that its file is an old one.
LEMMA JobSettings ==
  ASSUME JobInv, MountInv, NEW new \in Settings, NEW renamed \in BOOLEAN,
         NEW bigger \in BOOLEAN, ApplySettings(new, renamed, bigger)
  PROVE  JobInv'
<1> USE DEF loop, queues, mount
<1>1. /\ UNCHANGED <<pc, drained, ring, dropped, mounted, stage, started, wants, alive, offered>>
      /\ cfg' = new /\ pc = "idle"
  BY DEF ApplySettings, offers, Calling
<1>2. LoopType' /\ RingType' /\ MountType'
  BY <1>1, LoggerAssumption DEF JobInv, LoggerType, LoopType, RingType, MountType
<1>3. job' = job \/ (job.dest = "all" /\ job' = [job EXCEPT !.here = FALSE])
  BY DEF ApplySettings
<1>4. JobType' /\ SameJob
  <2>1. JobType BY DEF JobInv, LoggerType
  <2>2. CASE job' = job BY <2>1, <2>2 DEF JobType, SameJob
  <2>3. CASE job.dest = "all" /\ job' = [job EXCEPT !.here = FALSE]
    <3>1. job'.dest = "all" /\ NoJob.dest = "none" BY <2>1, <2>3 DEF JobType, NoJob
    <3>2. job # NoJob /\ job' # NoJob BY <2>3, <3>1
    <3> QED BY <2>1, <2>3, <3>2 DEF JobType, SameJob
  <2> QED BY <1>3, <2>2, <2>3
<1>5. SessionType'
  <2>1. capped' \in BOOLEAN BY DEF ApplySettings
  <2>2. SessionType BY DEF JobInv, LoggerType
  <2>3. CASE ResetSession(TRUE, [sess EXCEPT !.fresh = TRUE, !.wait = FALSE])
    <3> DEFINE s == [sess EXCEPT !.fresh = TRUE, !.wait = FALSE]
    <3>1. s \in Sessions BY <2>2 DEF SessionType, Sessions
    <3>2. ResetSession(TRUE, s) BY <2>3
    <3> QED BY <2>1, <3>1, <3>2, ResetTypes
  <2>4. CASE /\ \/ sess' = sess
                \/ sess' = [sess EXCEPT !.stage = "idle", !.ready = FALSE, !.fresh = TRUE,
                                         !.wait = FALSE]
             /\ UNCHANGED <<part, rows, filed>>
    BY <2>1, <2>2, <2>4 DEF SessionType
  <2> QED BY <2>3, <2>4 DEF ApplySettings
<1>6. Kept(sd, sd')
  <2>1. sd' = sd \/ sd' = Forget(sd, {"session"}) BY DEF ApplySettings
  <2> QED BY <2>1, KeptSelf, ForgetKeeps DEF MountInv
<1>7. ~alive' => sd' = <<>>
  BY <1>1, ForgetEmpty DEF ApplySettings, JobInv
<1>8. Around' BY <1>1, <1>2, <1>4, <1>5, <1>7 DEF Around, LoggerType, JobInv
<1> QED BY <1>1, <1>4, <1>6, <1>8, JobSame, RingsGrow DEF JobInv, LoggerType

LEMMA JobRemount == JobInv /\ MountInv /\ Remount => JobInv'
<1> SUFFICES ASSUME JobInv, MountInv, Remount PROVE JobInv' OBVIOUS
<1> USE DEF loop, queues, mount
<1>1. /\ UNCHANGED <<pc, drained, cfg, ring, dropped, started, alive, offered>>
      /\ pc = "idle" /\ mounted' = FALSE /\ stage' = "idle" /\ capped' = FALSE /\ job' = NoJob
      /\ sd' = Forget(sd, Clients) /\ wants' = (wants \cup {"remount"}) \ {"mount"}
  BY DEF Remount, offers, Calling
<1>2. LoopType' /\ RingType' /\ MountType' /\ JobType'
  BY <1>1, NoJobType DEF JobInv, LoggerType, LoopType, RingType, MountType, JobType, Stages
<1>3. SessionType'
  <2> DEFINE s == [sess EXCEPT !.fresh = Fresh, !.wait = FALSE]
  <2>0. Fresh \in BOOLEAN /\ (~KeepsIdentity) \in BOOLEAN BY DEF Fresh
  <2>1. s \in Sessions BY <2>0 DEF JobInv, LoggerType, SessionType, Sessions
  <2>2. ResetSession(~KeepsIdentity, s) BY DEF Remount
  <2> QED BY <1>1, <2>0, <2>1, <2>2, ResetTypes
<1>4. JobAsked(sd') = {} BY <1>1, ForgetKeeps DEF MountInv, Clients
<1>5. ~alive' => sd' = <<>> BY <1>1, ForgetEmpty DEF JobInv
<1>6. Around' BY <1>1, <1>2, <1>3, <1>5 DEF Around, LoggerType, JobInv
<1> QED BY <1>1, <1>4, <1>6, JobEnds

\* markUnmounted() with the job dropped.
LEMMA JobUnmounted ==
  ASSUME JobInv, NEW rest, IsQueue(rest), (~alive => rest = <<>>), Unmount(rest),
         job' = NoJob, UNCHANGED <<ring, dropped, cfg, alive, offered>>, LoopType',
         pc' # "start", pc' \in {"drain", "deadline"} => alive
  PROVE  JobInv'
<1>1. RingType' /\ JobType'
  BY NoJobType DEF JobInv, LoggerType, RingType, JobType
<1>2. MountType' /\ SessionType' BY UnmountTypes DEF JobInv, LoggerType
<1>3. sd' = Forget(rest, Clients) BY DEF Unmount
<1>4. JobAsked(sd') = {} /\ (~alive' => sd' = <<>>)
  BY <1>3, ForgetKeeps, ForgetEmpty DEF Clients
<1>5. Around' BY <1>1, <1>2, <1>4 DEF Around, LoggerType, JobInv
<1> QED BY <1>4, <1>5, JobEnds

LEMMA JobApplication == JobInv /\ MountInv /\ Application => JobInv'
<1> SUFFICES ASSUME JobInv, MountInv, Application PROVE JobInv' OBVIOUS
<1> USE DEF loop, queues, mount, session
<1>1. CASE LogSample
  <2>1. SampleDests \in SUBSET Dests /\ "sample" \in Rings
    BY DEF SampleDests, JobInv, LoggerType, LoopType, Dests, Rings
  <2> QED BY <1>1, <2>1, JobOffer DEF LogSample
<1>2. CASE LogEvent
  BY <1>2, JobOffer DEF LogEvent, Dests, Rings
<1>3. CASE Probe
  <2>1. UNCHANGED <<pc, drained, ring, dropped, cfg, alive, offered>> /\ pc = "idle"
    BY <1>3 DEF Probe, offers, Calling
  <2>2. CASE Unmount(sd) /\ job' = NoJob
    <3>1. LoopType' BY <2>1 DEF JobInv, LoggerType, LoopType
    <3>2. IsQueue(sd) /\ (~alive => sd = <<>>) BY DEF MountInv, JobInv
    <3> QED BY <2>1, <2>2, <3>1, <3>2, JobUnmounted
  <2>3. CASE Ask(sd, "info", "info") /\ UNCHANGED <<mount, session, job>> /\ mounted
    <3>1. Kept(sd, sd') BY <2>3, AskKeeps DEF Ask, Clients, MountInv
    <3>2. alive' BY <2>1, <2>3 DEF MountInv, WorkerAccounted
    <3>3. LoggerType'
      BY <2>1, <2>3 DEF JobInv, LoggerType, LoopType, RingType, JobType, MountType, SessionType
    <3>4. Around' BY <2>1, <2>3, <3>2, <3>3 DEF Around, JobInv
    <3>5. RingGrows /\ SameJob
      BY <2>1, <2>3, RingsGrow DEF JobInv, LoggerType, SameJob
    <3> QED BY <2>3, <3>1, <3>4, <3>5, JobSame
  <2> QED BY <1>3, <2>2, <2>3 DEF Probe
<1> QED BY <1>1, <1>2, <1>3, JobSettings, JobRemount DEF Application

-----------------------------------------------------------------------------
(* The steps: results of other clients. *)

\* What polling a result tells of the job.
LEMMA JobPolled ==
  ASSUME JobInv, MountInv, NEW c, NEW o, Answered(c, o)
  PROVE  /\ IsQueue(Rest) /\ LoopType' /\ pc' = "drain" /\ pc = "drain" /\ alive
         /\ UNCHANGED <<alive, cfg, offered>>
         /\ c # "job" => Kept(sd, Rest)
         /\ c = "job" => JobAsked(Rest) = {} /\ job # NoJob /\ job.op = o
         /\ c = "job" /\ o \in Writes => Answer \in Plain
<1>1. IsQueue(sd) /\ sd # <<>> /\ Head(sd).for = c /\ Head(sd).op = o
  BY DEF Answered, MountInv
<1>2. /\ UNCHANGED <<alive, cfg, offered>> /\ pc' = "drain" /\ pc = "drain" /\ alive
      /\ LoopType'
  BY DEF Answered, offers, JobInv, LoggerType, LoopType
<1>3. JobRequest(sd, job) BY DEF JobInv
<1> QED BY <1>1, <1>2, <1>3, TailKeeps DEF Rest, Answer

\* A step of another client that leaves job, rings and mount alone.
LEMMA JobBystander ==
  ASSUME JobInv, Kept(sd, sd'), alive', LoopType', SessionType', MountType',
         UNCHANGED <<queues, job, offered>>, pc' = "start" => mounted',
         UNCHANGED <<mounted, started>> \/ (~started' /\ (mounted' => mounted))
  PROVE  JobInv'
<1>1. RingType' /\ JobType' /\ offered' \in [Rings -> Nat]
  BY DEF JobInv, LoggerType, RingType, JobType, queues
<1>2. Around' BY <1>1 DEF Around, LoggerType
<1>3. RingGrows /\ SameJob
  BY RingsGrow DEF JobInv, LoggerType, SameJob, queues
<1> QED BY <1>2, <1>3, JobSame

LEMMA JobIgnore == JobInv /\ MountInv /\ Ignore => JobInv'
<1> SUFFICES ASSUME JobInv, MountInv, Ignore PROVE JobInv' OBVIOUS
<1>1. PICK o : Answered("gone", o) BY DEF Ignore
<1>2. Kept(sd, sd') /\ alive' /\ LoopType' /\ UNCHANGED offered /\ pc' = "drain"
  BY <1>1, JobPolled DEF Ignore
<1>3. SessionType' /\ MountType'
  BY DEF Ignore, JobInv, LoggerType, SessionType, MountType, mount, session
<1> QED BY <1>2, <1>3, JobBystander DEF Ignore, mount

\* No job is in progress while a mount is.
LEMMA JobMountResult == JobInv /\ MountInv /\ MountResult => JobInv'
<1> SUFFICES ASSUME JobInv, MountInv, MountResult PROVE JobInv' OBVIOUS
<1>1. PICK o : Answered("mount", o) BY DEF MountResult
<1>2. /\ IsQueue(Rest) /\ Kept(sd, Rest) /\ alive' /\ LoopType' /\ UNCHANGED offered
      /\ pc' = "drain" /\ started /\ ~mounted
  BY <1>1, JobPolled, Polled
<1>3. UNCHANGED <<queues, job, session>> BY DEF MountResult
<1>4. job = NoJob /\ job' = NoJob /\ JobAsked(sd) = {}
  BY <1>2, <1>3 DEF JobInv, JobRequest
<1>5. JobAsked(Rest) = {} BY <1>2, <1>4, KeptNone
<1>6. JobAsked(sd') = {} /\ MountType'
  <2>1. ASSUME NEW g \in {"logs", "days"}, MountGoesOn(g)
        PROVE  JobAsked(sd') = {} /\ MountType'
    <3>1. CASE Ask(Rest, "mount", g) /\ stage' = g /\ UNCHANGED <<mounted, started, wants>>
      <4>1. Kept(Rest, sd') BY <1>2, <3>1, AskKeeps DEF Ask, Clients, Stages
      <4> QED BY <1>5, <3>1, <4>1, KeptNone DEF MountType, JobInv, LoggerType, Stages
    <3>2. CASE /\ Refused(Rest) /\ stage' = "idle" /\ mounted' = FALSE
               /\ UNCHANGED <<started, wants>>
      BY <1>5, <3>2 DEF Refused, MountType, JobInv, LoggerType, Stages
    <3> QED BY <2>1, <3>1, <3>2 DEF MountGoesOn
  <2>2. CASE /\ mounted' = TRUE /\ stage' = "ready" /\ UNCHANGED <<started, wants>>
             /\ sd' = Rest
    BY <1>5, <2>2 DEF MountType, JobInv, LoggerType, Stages
  <2>3. CASE TakeOffline /\ sd' = Rest
    BY <1>5, <2>3 DEF TakeOffline, MountType, JobInv, LoggerType, Stages
  <2> QED BY <2>1, <2>2, <2>3 DEF MountResult
<1>7. RingType' /\ JobType' /\ SessionType' /\ offered' \in [Rings -> Nat]
  BY <1>2, <1>3 DEF JobInv, LoggerType, RingType, JobType, SessionType, queues, session
<1>8. Around' BY <1>2, <1>6, <1>7 DEF Around, LoggerType
<1> QED BY <1>4, <1>6, <1>8, JobEnds

LEMMA JobInfoResult == JobInv /\ MountInv /\ InfoResult => JobInv'
<1> SUFFICES ASSUME JobInv, MountInv, InfoResult PROVE JobInv' OBVIOUS
<1>1. /\ IsQueue(Rest) /\ Kept(sd, Rest) /\ alive /\ alive' /\ LoopType'
      /\ UNCHANGED <<alive, cfg, offered>> /\ pc' = "drain"
  BY JobPolled DEF InfoResult
<1>2. CASE Unmount(Rest) /\ job' = NoJob
  BY <1>1, <1>2, JobUnmounted DEF InfoResult, queues
<1>3. CASE sd' = Rest /\ UNCHANGED <<mount, session, job>>
  <2>1. SessionType' /\ MountType'
    BY <1>3 DEF JobInv, LoggerType, SessionType, MountType, mount, session
  <2> QED BY <1>1, <1>3, <2>1, JobBystander DEF InfoResult, mount
<1> QED BY <1>2, <1>3 DEF InfoResult

-----------------------------------------------------------------------------
(* The steps: results of session setup. *)

LEMMA SetupTypes ==
  ASSUME sess' \in Sessions, part' \in [Rings -> 1..PartMax], rows' \in Nat, filed' \in Nat,
         capped' \in BOOLEAN
  PROVE  SessionType'
BY DEF SessionType, Sessions

LEMMA FailedTypes == \A s \in Sessions : SetupFailed(s) \in Sessions
BY DEF SetupFailed, Sessions, Setup

\* The ways in which session setup goes on.
LEMMA SetupGoesOn ==
  ASSUME NEW o \in Setup, NEW s \in Sessions, GoesOn(o, s), IsQueue(Rest)
  PROVE  sess' \in Sessions /\ Kept(Rest, sd')
<1>1. CASE Ask(Rest, "session", o) /\ sess' = [s EXCEPT !.stage = o]
  <2>1. Kept(Rest, sd') BY <1>1, AskKeeps DEF Ask, Clients
  <2> QED BY <1>1, <2>1 DEF Sessions
<1>2. CASE Refused(Rest) /\ sess' = SetupFailed(s)
  BY <1>2, FailedTypes, KeptSelf DEF Refused
<1> QED BY <1>1, <1>2 DEF GoesOn

LEMMA SetupStops ==
  ASSUME sess \in Sessions, Fails \/ IsReady
  PROVE  sess' \in Sessions /\ Kept(Rest, sd')
<1>1. CASE Fails BY <1>1, FailedTypes, KeptSelf DEF Fails
<1>2. CASE IsReady BY <1>2, KeptSelf DEF IsReady, Sessions, Setup
<1> QED BY <1>1, <1>2

LEMMA SetupFallsBack ==
  ASSUME SessionType, NEW b \in BOOLEAN, FallsBack(b), UNCHANGED capped
  PROVE  SessionType' /\ Kept(Rest, sd')
<1> DEFINE s == [sess EXCEPT !.fresh = TRUE, !.wait = b]
<1>1. s \in Sessions /\ capped' \in BOOLEAN BY DEF SessionType, Sessions
<1>2. ResetSession(TRUE, s) BY DEF FallsBack
<1> QED BY <1>1, <1>2, ResetTypes, KeptSelf DEF FallsBack

LEMMA JobSetupDirs ==
  ASSUME SessionType, IsQueue(Rest), SetupDirs, UNCHANGED capped
  PROVE  SessionType' /\ Kept(Rest, sd')
<1>1. sess \in Sessions /\ SameFiles BY DEF SessionType, Sessions, SetupDirs
<1>2. [sess EXCEPT !.named = TRUE] \in Sessions /\ [sess EXCEPT !.marked = TRUE] \in Sessions
  BY <1>1 DEF Sessions
<1>3. \/ \E o \in Setup : \E s \in Sessions : GoesOn(o, s)
      \/ Fails
  BY <1>1, <1>2 DEF SetupDirs, Setup
<1>4. sess' \in Sessions /\ Kept(Rest, sd') BY <1>1, <1>3, SetupGoesOn, SetupStops
<1> QED BY <1>1, <1>4, SetupTypes DEF SameFiles, SessionType

LEMMA JobSetupResume ==
  ASSUME SessionType, IsQueue(Rest), SetupResume, UNCHANGED capped
  PROVE  SessionType' /\ Kept(Rest, sd')
<1>1. sess \in Sessions BY DEF SessionType, Sessions
<1>2. CASE \E b \in BOOLEAN : FallsBack(b) BY <1>2, SetupFallsBack
<1>3. CASE /\ Fails \/ IsReady \/ \E o \in Setup : GoesOn(o, sess)
           /\ part' \in [Rings -> 1..PartMax] /\ rows' \in Nat /\ filed' \in Nat
  <2>1. sess' \in Sessions /\ Kept(Rest, sd') BY <1>1, <1>3, SetupGoesOn, SetupStops
  <2> QED BY <1>3, <2>1, SetupTypes DEF SessionType
<1>4. ASSUME NEW k \in Rings, SkipPart(k) PROVE part' \in [Rings -> 1..PartMax]
  BY <1>4, LoggerAssumption DEF SkipPart, SessionType
<1>5. SameFiles => part' \in [Rings -> 1..PartMax] /\ rows' \in Nat /\ filed' \in Nat
  BY DEF SameFiles, SessionType
<1>6. UNCHANGED <<rows, filed>> => rows' \in Nat /\ filed' \in Nat BY DEF SessionType
<1>7. UNCHANGED part => part' \in [Rings -> 1..PartMax] BY DEF SessionType
<1>8. {"statData", "statEvents"} \subseteq Setup /\ {"sample", "event"} \subseteq Rings
      /\ (Answer = "soft") \in BOOLEAN
  BY DEF Setup, Rings
<1>9. CASE /\ \/ Answer # "ok" /\ FallsBack(Answer = "soft")
              \/ /\ Answer = "ok" /\ GoesOn("statData", sess)
                 /\ part' \in [Rings -> 1..PartMax]
                 /\ IF part'["sample"] = part["sample"] THEN UNCHANGED <<rows, filed>>
                    ELSE rows' = 0 /\ filed' = 0
  <2>1. CASE FallsBack(Answer = "soft") BY <1>2, <1>8, <2>1
  <2>2. CASE /\ GoesOn("statData", sess) /\ part' \in [Rings -> 1..PartMax]
             /\ IF part'["sample"] = part["sample"] THEN UNCHANGED <<rows, filed>>
                ELSE rows' = 0 /\ filed' = 0
    BY <1>3, <1>6, <1>8, <2>2
  <2> QED BY <1>9, <2>1, <2>2
<1>10. CASE \/ Answer = "taken" /\ FallsBack(FALSE)
            \/ Answer = "soft" /\ Fails /\ SameFiles
            \/ Answer = "ok" /\ GoesOn("statEvents", sess) /\ SameFiles
            \/ /\ Answer = "missing" /\ GoesOn("statEvents", sess)
               /\ rows' = 0 /\ filed' = 0 /\ UNCHANGED part
            \/ /\ Answer = "short" /\ SkipPart("sample") /\ GoesOn("statEvents", sess)
               /\ rows' = 0 /\ filed' = 0
            \/ Answer = "short" /\ part["sample"] = PartMax /\ Fails /\ SameFiles
  <2>1. CASE FallsBack(FALSE) BY <1>2, <2>1
  <2>2. CASE Fails /\ SameFiles BY <1>3, <1>5, <2>2
  <2>3. CASE GoesOn("statEvents", sess) /\ SameFiles BY <1>3, <1>5, <1>8, <2>3
  <2>4. CASE GoesOn("statEvents", sess) /\ rows' = 0 /\ filed' = 0 /\ UNCHANGED part
    BY <1>3, <1>7, <1>8, <2>4
  <2>5. CASE SkipPart("sample") /\ GoesOn("statEvents", sess) /\ rows' = 0 /\ filed' = 0
    BY <1>3, <1>4, <1>8, <2>5
  <2> QED BY <1>10, <2>1, <2>2, <2>3, <2>4, <2>5
<1>11. CASE \/ Answer = "taken" /\ FallsBack(FALSE)
            \/ Answer = "soft" /\ Fails /\ SameFiles
            \/ Answer \in {"ok", "missing"} /\ IsReady /\ SameFiles
            \/ Answer = "short" /\ SkipPart("event") /\ IsReady /\ UNCHANGED <<rows, filed>>
            \/ Answer = "short" /\ part["event"] = PartMax /\ Fails /\ SameFiles
  <2>1. CASE FallsBack(FALSE) BY <1>2, <2>1
  <2>2. CASE (Fails \/ IsReady) /\ SameFiles BY <1>3, <1>5, <2>2
  <2>3. CASE SkipPart("event") /\ IsReady /\ UNCHANGED <<rows, filed>>
    BY <1>3, <1>4, <1>6, <1>8, <2>3
  <2> QED BY <1>11, <2>1, <2>2, <2>3
<1> QED BY <1>9, <1>10, <1>11 DEF SetupResume

LEMMA JobSessionResult == JobInv /\ MountInv /\ SessionResult => JobInv'
<1> SUFFICES ASSUME JobInv, MountInv, SessionResult PROVE JobInv' OBVIOUS
<1>1. PICK o : Answered("session", o)
  BY DEF SessionResult, SetupDirs, SetupResume, SetupMarker
<1>2. /\ IsQueue(Rest) /\ Kept(sd, Rest) /\ alive' /\ LoopType' /\ UNCHANGED offered
      /\ pc' = "drain"
  BY <1>1, JobPolled
<1>3. SessionType /\ MountType /\ sess \in Sessions
  BY DEF JobInv, LoggerType, SessionType, Sessions
<1>4. UNCHANGED <<queues, job, capped>> BY DEF SessionResult
<1>5. ASSUME UNCHANGED mount, SessionType', Kept(Rest, sd') PROVE JobInv'
  <2>1. Kept(sd, sd') BY <1>2, <1>5, KeptTrans
  <2>2. MountType' BY <1>3, <1>5 DEF MountType, mount
  <2> QED BY <1>2, <1>4, <1>5, <2>1, <2>2, JobBystander DEF mount
<1>6. CASE (SetupDirs \/ SetupResume) /\ UNCHANGED mount
  BY <1>2, <1>3, <1>4, <1>5, <1>6, JobSetupDirs, JobSetupResume
<1>7. CASE SetupMarker
  <2>1. SameFiles BY <1>7 DEF SetupMarker
  <2>2. sess' \in Sessions => SessionType'
    BY <1>3, <1>4, <2>1, SetupTypes DEF SameFiles, SessionType
  <2>3. CASE (Fails \/ IsReady) /\ UNCHANGED mount BY <1>3, <1>5, <2>2, <2>3, SetupStops
  <2>4. CASE /\ Ask(Rest, "session", "seal") /\ UNCHANGED mount
             /\ sess' = [sess EXCEPT !.stage = "seal"]
    <3>1. Kept(Rest, sd') BY <1>2, <2>4, AskKeeps DEF Ask, Clients, Setup
    <3>2. "seal" \in Setup \cup {"idle"} BY DEF Setup
    <3>3. sess' \in Sessions BY <1>3, <2>4, <3>2 DEF Sessions
    <3> QED BY <1>5, <2>2, <2>4, <3>1, <3>3
  <2>5. CASE FailsOffline
    <3>1. Kept(Rest, sd') BY <1>2, <2>5, ForgetKeeps DEF FailsOffline
    <3>2. Kept(sd, sd') BY <1>2, <3>1, KeptTrans
    <3>3. SessionType' BY <1>3, <2>2, <2>5, FailedTypes DEF FailsOffline
    <3>4. MountType' /\ ~started' /\ ~mounted'
      BY <1>3, <2>5 DEF FailsOffline, TakeOffline, MountType, Stages
    <3> QED BY <1>2, <1>4, <3>2, <3>3, <3>4, JobBystander
  <2> QED BY <1>7, <2>3, <2>4, <2>5 DEF SetupMarker
<1> QED BY <1>6, <1>7 DEF SessionResult

-----------------------------------------------------------------------------
(* The steps: results of the file job. *)

Jobs == [dest : Dests \cup {"none"}, op : JobOps \cup {"none"}, batch : 0..MaxBatch,
         at : 0..MaxBatch, header : BOOLEAN, fail : {"none", "soft", "media"},
         late : BOOLEAN, here : BOOLEAN]

\* j is the job in progress, at another operation.
JobNow(j) == /\ j \in Jobs /\ j.dest = job.dest /\ j.batch = job.batch
             /\ j.dest \in Dests /\ j.at <= j.batch

\* What a step of the job may assume: it is in progress, and rest, the queue
\* that the step starts from, has lost nothing but the job's own request.
JobStep(rest) ==
  /\ JobInv /\ job # NoJob /\ alive /\ IsQueue(rest)
  /\ alive' = alive /\ offered' = offered /\ LoopType' /\ pc' # "start"

LEMMA JobThere ==
  ASSUME JobInv, job # NoJob
  PROVE  JobNow(job) /\ JobWell(job) /\ job \in Jobs
BY DEF JobInv, LoggerType, JobType, JobWell, JobNow, Jobs

LEMMA JobNotNone == \A j \in Jobs : j.dest \in Dests => j # NoJob
BY DEF Jobs, NoJob, Dests

\* The batch has failed: the job ends.
LEMMA JobBatchFails ==
  ASSUME NEW rest, JobStep(rest), FailBatch, MountType', SessionType', JobAsked(sd') = {}
  PROVE  JobInv'
<1>1. RingType' /\ JobType'
  BY JobThere, FailBatchTypes DEF JobStep, JobInv, LoggerType, JobNow
<1>2. Around' BY <1>1 DEF Around, LoggerType, JobStep, JobInv
<1>3. job' = NoJob BY DEF FailBatch
<1> QED BY <1>2, <1>3, JobEnds

LEMMA JobFails ==
  ASSUME NEW rest, JobStep(rest), NEW st, ApplyFailure(rest, st) PROVE JobInv'
<1>1. MountType /\ SessionType BY DEF JobStep, JobInv, LoggerType
<1>2. CASE Unmount(rest)
  <2>1. JobAsked(sd') = {} BY <1>2, ForgetKeeps DEF Unmount, Clients, JobStep
  <2> QED BY <1>1, <1>2, <2>1, UnmountTypes, JobBatchFails DEF ApplyFailure
<1>3. CASE sd' = Forget(rest, {"job"}) /\ UNCHANGED <<mount, session>>
  <2>1. JobAsked(sd') = {} BY <1>3, ForgetKeeps DEF JobStep
  <2>2. MountType' /\ SessionType'
    BY <1>1, <1>3 DEF MountType, SessionType, mount, session
  <2> QED BY <2>1, <2>2, JobBatchFails DEF ApplyFailure
<1> QED BY <1>2, <1>3 DEF ApplyFailure

\* The job asks for its next operation.
LEMMA JobAsks ==
  ASSUME NEW rest, JobStep(rest), JobAsked(rest) = {}, NEW ids,
         JobNow(job'), job'.op \in JobOps, JobWell(job'),
         AskFor(rest, "job", job'.op, job'.dest, ids), ring' = ring, dropped' = dropped,
         MountType', SessionType', UNCHANGED <<mounted, started>>
  PROVE  JobInv'
<1>1. job' # NoJob /\ job'.dest = job.dest /\ job'.batch = job.batch
  BY JobNotNone DEF JobNow
<1>2. JobRequest(sd', job') /\ JobAsked(sd') # {}
  BY <1>1, AskKeeps DEF JobStep, Clients
<1>3. RingType' /\ JobType' /\ offered' \in [Rings -> Nat]
  BY DEF JobNow, Jobs, JobStep, JobInv, LoggerType, JobType, RingType
<1>4. Around' BY <1>3 DEF Around, LoggerType, JobStep
<1> QED BY <1>1, <1>2, <1>4, JobNext DEF JobStep

\* A job that fails with its file open, which is closed first.
LEMMA JobHolds ==
  ASSUME NEW rest, JobStep(rest), NEW n, NEW j, JobNow(j), NEW st \in {"soft", "media"},
         FailHolding(n, rest, j, st)
  PROVE  JobInv'
<1>1. CASE /\ AskFor(Forget(rest, {"job"}), "job", "close", j.dest, Lines(j))
           /\ job' = [j EXCEPT !.op = "close", !.fail = st]
           /\ UNCHANGED <<queues, mount, session>>
  <2> DEFINE t == Forget(rest, {"job"})
  <2>1. IsQueue(t) /\ JobAsked(t) = {} BY ForgetKeeps DEF JobStep
  <2>2. JobStep(t) BY <2>1 DEF JobStep
  <2> HIDE DEF t
  <2>3. job' \in Jobs /\ job'.op = "close" /\ job'.dest = j.dest /\ job'.batch = j.batch
        /\ job'.at = j.at
    BY <1>1 DEF JobNow, Jobs, JobOps
  <2>4. JobNow(job') /\ JobWell(job') BY <2>3 DEF JobNow, JobWell, JobOps
  <2>5. MountType' /\ SessionType'
    BY <1>1 DEF JobStep, JobInv, LoggerType, MountType, SessionType, mount, session
  <2>6. AskFor(t, "job", job'.op, job'.dest, Lines(j)) BY <1>1, <2>3 DEF t
  <2> QED BY <1>1, <2>1, <2>2, <2>3, <2>4, <2>5, <2>6, JobAsks DEF queues, mount, JobOps
<1>2. CASE ApplyFailure(rest, st) BY <1>2, JobFails
<1> QED BY <1>1, <1>2 DEF FailHolding

LEMMA JobProceeds ==
  ASSUME JobStep(Rest), JobAsked(Rest) = {}, NEW j, JobNow(j), NEW o \in JobOps,
         JobGoesOn(j, o), o # "line" => o = "close" \/ j.at = 0, o = "line" => j.at < j.batch
  PROVE  JobInv'
<1> DEFINE ids == IF o = "close" THEN Lines(j) ELSE {}
<1>1. CASE /\ AskFor(Rest, "job", o, j.dest, ids) /\ job' = [j EXCEPT !.op = o]
           /\ UNCHANGED <<queues, mount, session, upsets>>
  <2>1. job' \in Jobs /\ job'.op = o /\ job'.dest = j.dest /\ job'.batch = j.batch
        /\ job'.at = j.at
    BY <1>1 DEF JobNow, Jobs
  <2>2. JobNow(job') /\ JobWell(job') BY <2>1 DEF JobNow, JobWell
  <2>3. MountType' /\ SessionType'
    BY <1>1 DEF JobStep, JobInv, LoggerType, MountType, SessionType, mount, session
  <2>4. AskFor(Rest, "job", job'.op, job'.dest, ids) BY <1>1, <2>1
  <2> QED BY <1>1, <2>1, <2>2, <2>3, <2>4, JobAsks DEF queues, mount
<1>2. CASE FailHolding(1, Rest, j, "soft") BY <1>2, JobHolds
<1> QED BY <1>1, <1>2 DEF JobGoesOn

LEMMA JobOpens ==
  ASSUME JobStep(Rest), JobAsked(Rest) = {}, NEW j, JobNow(j), j.at = 0, Opens(j),
         MountType', SessionType', UNCHANGED <<mounted, started>>
  PROVE  JobInv'
<1>1. CASE /\ AskFor(Rest, "job", "open", j.dest, {}) /\ UNCHANGED <<queues, upsets>>
           /\ job' = [j EXCEPT !.op = "open"]
  <2>1. job' \in Jobs /\ job'.op = "open" /\ job'.dest = j.dest /\ job'.batch = j.batch
        /\ job'.at = 0
    BY <1>1 DEF JobNow, Jobs, JobOps
  <2>2. JobNow(job') /\ JobWell(job') BY <2>1 DEF JobNow, JobWell, JobOps
  <2>3. AskFor(Rest, "job", job'.op, job'.dest, {}) BY <1>1, <2>1
  <2> QED BY <1>1, <2>1, <2>2, <2>3, JobAsks DEF queues, JobOps
<1>2. CASE FailBatch /\ sd' = Rest BY <1>2, JobBatchFails
<1> QED BY <1>1, <1>2 DEF Opens

\* A full session file: the next part, or the end of the stream.
LEMMA JobRotateAll ==
  ASSUME JobStep(Rest), JobAsked(Rest) = {}, job.op = "stat", job.dest = "all", RotateAll,
         UNCHANGED mount
  PROVE  JobInv'
<1>1. RingType /\ JobType /\ MountType' /\ SessionType
  BY DEF JobStep, JobInv, LoggerType, MountType, mount
<1>2. JobNow(job) /\ job.at = 0 BY JobThere DEF JobStep, JobWell
<1>3. CASE /\ part' = [part EXCEPT !["sample"] = @ + 1] /\ rows' = 0 /\ filed' = 0
           /\ part["sample"] < PartMax
           /\ Opens([job EXCEPT !.header = TRUE, !.here = TRUE])
           /\ UNCHANGED <<off, capped, sess>>
  <2> DEFINE j == [job EXCEPT !.header = TRUE, !.here = TRUE]
  <2>1. JobNow(j) /\ j.at = 0 BY <1>2 DEF JobNow, Jobs
  <2>2. part' \in [Rings -> 1..PartMax]
    BY <1>1, <1>3, LoggerAssumption DEF SessionType, Rings
  <2>3. SessionType' BY <1>1, <1>3, <2>2 DEF SessionType
  <2> HIDE DEF j
  <2>4. Opens(j) BY <1>3 DEF j
  <2> QED BY <1>1, <2>1, <2>3, <2>4, JobOpens DEF mount
<1>4. CASE /\ part' = [part EXCEPT !["sample"] = IF @ = PartMax THEN @ ELSE @ + 1]
           /\ capped' = TRUE
           /\ ring' = [ring EXCEPT !["sample"] = Discarded(@, job.batch, "all")]
           /\ job' = NoJob /\ sd' = Rest /\ UNCHANGED <<dropped, sess, rows, filed, upsets>>
  <2> DEFINE q == Discarded(ring["sample"], job.batch, "all")
  <2>1. ring["sample"] \in Seq(Record) /\ job.batch \in Nat /\ "sample" \in Rings
    BY <1>1, QueueAssumption DEF RingType, JobType, Rings
  <2>2. q \in Seq(Record) /\ Len(q) <= Len(ring["sample"])
    BY <2>1, BatchTypes DEF Dests
  <2>3. ring' = [ring EXCEPT !["sample"] = q] BY <1>4
  <2> HIDE DEF q
  <2>4. ASSUME NEW k \in Rings PROVE Len(ring'[k]) <= Capacity[k]
    <3>1. /\ ring[k] \in Seq(Record) /\ Len(ring[k]) <= Capacity[k] /\ Capacity[k] \in Nat
          /\ ring'[k] = IF k = "sample" THEN q ELSE ring[k]
      BY <1>1, <2>3, LoggerAssumption DEF RingType
    <3>2. Len(q) \in Nat /\ Len(ring[k]) \in Nat BY <2>2, <3>1
    <3> QED BY <2>2, <3>1, <3>2
  <2>5. RingType' BY <1>1, <1>4, <2>2, <2>3, <2>4 DEF RingType
  <2>6. part' \in [Rings -> 1..PartMax]
    BY <1>1, <1>4, LoggerAssumption DEF SessionType, Rings
  <2>7. SessionType' BY <1>1, <1>4, <2>6 DEF SessionType
  <2>8. JobType' BY <1>4, NoJobType DEF JobType
  <2>9. Around' BY <1>1, <2>5, <2>7, <2>8 DEF Around, LoggerType, JobStep, JobInv
  <2> QED BY <1>4, <2>9, JobEnds
<1> QED BY <1>3, <1>4 DEF RotateAll

LEMMA JobRotateEvent ==
  ASSUME JobStep(Rest), JobAsked(Rest) = {}, job.op = "stat", RotateEvent, UNCHANGED mount
  PROVE  JobInv'
<1>1. MountType' /\ SessionType
  BY DEF JobStep, JobInv, LoggerType, MountType, mount
<1>2. JobNow(job) /\ job.at = 0 BY JobThere DEF JobStep, JobWell
<1>3. UNCHANGED <<capped, sess, rows, filed>> BY DEF RotateEvent
<1>4. CASE FailBatch /\ sd' = Rest /\ UNCHANGED <<part, upsets>>
  <2>1. SessionType' BY <1>1, <1>3, <1>4 DEF SessionType
  <2> QED BY <1>1, <1>4, <2>1, JobBatchFails
<1>5. CASE /\ part["event"] < PartMax /\ part' = [part EXCEPT !["event"] = @ + 1]
           /\ Opens([job EXCEPT !.header = TRUE])
  <2> DEFINE j == [job EXCEPT !.header = TRUE]
  <2>1. JobNow(j) /\ j.at = 0 BY <1>2 DEF JobNow, Jobs
  <2>2. part' \in [Rings -> 1..PartMax]
    BY <1>1, <1>5, LoggerAssumption DEF SessionType, Rings
  <2>3. SessionType' BY <1>1, <1>3, <2>2 DEF SessionType
  <2> HIDE DEF j
  <2>4. Opens(j) BY <1>5 DEF j
  <2> QED BY <1>1, <2>1, <2>3, <2>4, JobOpens DEF mount
<1> QED BY <1>4, <1>5 DEF RotateEvent

LEMMA JobStatResult == JobInv /\ MountInv /\ StatResult => JobInv'
<1> SUFFICES ASSUME JobInv, MountInv, StatResult PROVE JobInv' OBVIOUS
<1>0. Answered("job", "stat") BY DEF StatResult
<1>1. JobStep(Rest) /\ JobAsked(Rest) = {} /\ job.op = "stat"
  BY <1>0, JobPolled DEF JobStep
<1>2. JobNow(job) /\ job.at = 0 BY <1>1, JobThere DEF JobStep, JobWell
<1>3. CASE /\ Opens([job EXCEPT !.header = Answer = "empty"])
           /\ UNCHANGED <<mount, session, off>>
  <2> DEFINE h == Answer = "empty"
             j == [job EXCEPT !.header = h]
  <2>1. h \in BOOLEAN OBVIOUS
  <2> HIDE DEF h
  <2>2. JobNow(j) /\ j.at = 0 BY <1>2, <2>1 DEF JobNow, Jobs
  <2>3. MountType' /\ SessionType' /\ UNCHANGED <<mounted, started>>
    BY <1>3 DEF JobInv, LoggerType, MountType, SessionType, mount, session
  <2>4. Opens(j) BY <1>3 DEF h
  <2> QED BY <1>1, <2>2, <2>3, <2>4, JobOpens
<1>4. CASE ApplyFailure(Rest, Answer) BY <1>1, <1>4, JobFails
<1> QED BY <1>1, <1>3, <1>4, JobRotateAll, JobRotateEvent DEF StatResult

LEMMA JobWriteResult == JobInv /\ MountInv /\ WriteResult => JobInv'
<1> SUFFICES ASSUME JobInv, MountInv, WriteResult PROVE JobInv' OBVIOUS
<1>1. PICK o : /\ o \in {"open", "header", "line"} /\ Answered("job", o)
               /\ \/ /\ o = "open"
                     /\ IF Answer = "ok"
                        THEN JobGoesOn(job, IF job.header THEN "header" ELSE "line")
                        ELSE ApplyFailure(Rest, Answer) /\ UNCHANGED upsets
                  \/ /\ o = "header"
                     /\ IF Answer = "ok" THEN JobGoesOn(job, "line")
                        ELSE FailHolding(0, Rest, job, Answer)
                  \/ /\ o = "line"
                     /\ IF Answer = "ok"
                        THEN JobGoesOn([job EXCEPT !.at = @ + 1],
                                       IF job.at + 1 < job.batch THEN "line" ELSE "close")
                        ELSE FailHolding(0, Rest, job, Answer)
  BY DEF WriteResult
<1>2. /\ JobStep(Rest) /\ JobAsked(Rest) = {} /\ job.op = o
      /\ o \in Writes => Answer \in Plain
  <2>1. Answered("job", o) BY <1>1
  <2> QED BY <2>1, JobPolled DEF JobStep
<1>3. JobNow(job) /\ JobWell(job) /\ job # NoJob BY <1>2, JobThere DEF JobStep
<1>4. Answer # "todo" BY <1>1 DEF Answered, Answer
<1>5. o \in Writes /\ Answer # "ok" => Answer \in {"soft", "media"}
  BY <1>2, <1>4 DEF Plain
<1>6. job.batch \in 1..MaxBatch /\ job.at \in 0..MaxBatch /\ MaxBatch \in Nat
  BY <1>3, QueueAssumption DEF JobInv, JobHoldsHead, JobNow, Jobs
<1>7. CASE ApplyFailure(Rest, Answer) BY <1>2, <1>7, JobFails
<1>8. CASE o \in Writes /\ Answer # "ok" /\ FailHolding(0, Rest, job, Answer)
  BY <1>2, <1>3, <1>5, <1>8, JobHolds
<1>9. ASSUME o # "line", NEW g \in {"header", "line"}, JobGoesOn(job, g) PROVE JobInv'
  <2>1. job.at = 0 BY <1>1, <1>2, <1>3, <1>9 DEF JobWell
  <2> QED BY <1>2, <1>3, <1>6, <1>9, <2>1, JobProceeds DEF JobOps
<1>10. CASE /\ o = "line"
            /\ JobGoesOn([job EXCEPT !.at = @ + 1],
                         IF job.at + 1 < job.batch THEN "line" ELSE "close")
  <2> DEFINE j == [job EXCEPT !.at = @ + 1]
             g == IF job.at + 1 < job.batch THEN "line" ELSE "close"
  <2>1. job.at < job.batch BY <1>2, <1>3, <1>10 DEF JobWell
  <2>2. j \in Jobs /\ j.at = job.at + 1 /\ j.dest = job.dest /\ j.batch = job.batch
    BY <1>3, <1>6, <2>1 DEF JobNow, Jobs
  <2>3. JobNow(j) BY <1>3, <1>6, <2>1, <2>2 DEF JobNow
  <2>4. g \in JobOps /\ (g # "line" => g = "close") /\ (g = "line" => j.at < j.batch)
    BY <2>2 DEF JobOps
  <2>5. JobGoesOn(j, g) BY <1>10
  <2> HIDE DEF j, g
  <2> QED BY <1>2, <2>3, <2>4, <2>5, JobProceeds
<1>11. CASE o = "open"
  <2>1. CASE Answer = "ok" /\ JobGoesOn(job, IF job.header THEN "header" ELSE "line")
    BY <1>9, <1>11, <2>1
  <2> QED BY <1>1, <1>7, <1>11, <2>1
<1>12. CASE o = "header"
  <2>1. CASE Answer = "ok" /\ JobGoesOn(job, "line") BY <1>9, <1>12, <2>1
  <2> QED BY <1>1, <1>8, <1>12, <2>1 DEF Writes
<1>13. CASE o = "line"
  <2>1. Answer = "ok" \/ FailHolding(0, Rest, job, Answer) BY <1>1, <1>13
  <2> QED BY <1>1, <1>8, <1>10, <1>13, <2>1 DEF Writes
<1> QED BY <1>1, <1>11, <1>12, <1>13

LEMMA JobCloseResult == JobInv /\ MountInv /\ CloseResult => JobInv'
<1> SUFFICES ASSUME JobInv, MountInv, CloseResult PROVE JobInv' OBVIOUS
<1>1. JobStep(Rest) /\ JobAsked(Rest) = {}
  <2>1. Answered("job", "close") BY DEF CloseResult
  <2> QED BY <2>1, JobPolled DEF JobStep
<1>2. CASE ApplyFailure(Rest, FailedAs) BY <1>1, <1>2, JobFails
<1>3. CASE /\ ring' = [ring EXCEPT ![RingOf(job.dest)] = Written(@, job.batch, job.dest)]
           /\ rows' = IF job.dest = "all" THEN rows + job.batch ELSE rows
           /\ filed' = IF job.dest = "all" /\ job.here THEN filed + job.batch ELSE filed
           /\ job' = NoJob /\ sd' = Rest /\ UNCHANGED <<dropped, mount, sess, part, capped>>
  <2> DEFINE r == RingOf(job.dest)
             q == Written(ring[r], job.batch, job.dest)
  <2>1. RingType /\ SessionType /\ MountType /\ job.dest \in Dests /\ job.batch \in Nat
    BY <1>1, JobThere, QueueAssumption DEF JobStep, JobInv, LoggerType, JobNow, Jobs
  <2>2. r \in Rings /\ ring[r] \in Seq(Record) BY <2>1, RingOfRing DEF RingType
  <2>3. q \in Seq(Record) /\ Len(q) <= Len(ring[r]) BY <2>1, <2>2, BatchTypes
  <2>4. ring' = [ring EXCEPT ![r] = q] BY <1>3
  <2> HIDE DEF q, r
  <2>5. ASSUME NEW k \in Rings PROVE Len(ring'[k]) <= Capacity[k]
    <3>1. /\ ring[k] \in Seq(Record) /\ Len(ring[k]) <= Capacity[k] /\ Capacity[k] \in Nat
          /\ ring'[k] = IF k = r THEN q ELSE ring[k]
      BY <2>1, <2>2, <2>4, LoggerAssumption DEF RingType
    <3>2. Len(q) \in Nat /\ Len(ring[k]) \in Nat BY <2>3, <3>1
    <3> QED BY <2>3, <3>1, <3>2
  <2>6. RingType' BY <1>3, <2>1, <2>2, <2>3, <2>4, <2>5 DEF RingType
  <2>7. SessionType' BY <1>3, <2>1 DEF SessionType
  <2>8. JobType' /\ MountType' BY <1>3, <2>1, NoJobType DEF JobType, MountType, mount
  <2>9. Around' BY <1>1, <2>6, <2>7, <2>8 DEF Around, LoggerType, JobStep, JobInv
  <2> QED BY <1>1, <1>3, <2>9, JobEnds
<1> QED BY <1>2, <1>3 DEF CloseResult

-----------------------------------------------------------------------------
(* The steps: the rest of the tick. *)

\* A step that touches neither the queues, the job nor the mount.
LEMMA JobIdle ==
  ASSUME JobInv, UNCHANGED <<queues, job, mount, session, sd, alive, offered>>, LoopType',
         pc' = "start" => mounted, pc' \in {"drain", "deadline"} => alive
  PROVE  JobInv'
<1>1. RingType' /\ JobType' /\ MountType' /\ SessionType' /\ offered' \in [Rings -> Nat]
  BY DEF JobInv, LoggerType, RingType, JobType, MountType, SessionType, queues, mount,
         session
<1>2. Around' BY <1>1 DEF Around, LoggerType, JobInv, mount
<1>3. RingGrows /\ SameJob BY RingsGrow DEF JobInv, LoggerType, SameJob, queues
<1> QED BY <1>2, <1>3, KeptSelf, JobSame DEF mount

LEMMA JobBeginTick == JobInv /\ MountInv /\ BeginTick => JobInv'
<1> SUFFICES ASSUME JobInv, MountInv, BeginTick PROVE JobInv' OBVIOUS
<1>1. /\ UNCHANGED <<cfg, queues, alive, offered>> /\ drained' = FALSE
      /\ pc' = IF started' THEN "drain" ELSE "tail"
  BY DEF BeginTick, offers
<1>2. LoopType' BY <1>1 DEF JobInv, LoggerType, LoopType
<1>3. CASE Unmount(sd) /\ job' = NoJob
  <2>1. pc' = "tail" BY <1>1, <1>3 DEF Unmount
  <2>2. IsQueue(sd) /\ (~alive => sd = <<>>) BY DEF JobInv, MountInv
  <2> QED BY <1>1, <1>2, <1>3, <2>1, <2>2, JobUnmounted DEF queues
<1>4. CASE UNCHANGED <<mount, session, sd, job>>
  <2>1. started' => alive BY <1>4 DEF MountInv, WorkerAccounted, mount
  <2> QED BY <1>1, <1>2, <1>4, <2>1, JobIdle
<1> QED BY <1>3, <1>4 DEF BeginTick

LEMMA JobStatus == JobInv /\ MountInv /\ Status => JobInv'
<1> SUFFICES ASSUME JobInv, MountInv, Status PROVE JobInv' OBVIOUS
<1>1. /\ UNCHANGED <<cfg, queues, alive, offered>> /\ drained' = FALSE
      /\ pc' = "deadline" /\ alive /\ IsQueue(sd)
  BY DEF Status, offers, JobInv, MountInv
<1>2. LoopType' BY <1>1 DEF JobInv, LoggerType, LoopType
<1>3. CASE UNCHANGED <<mount, session, sd, job, upsets>>
  BY <1>1, <1>2, <1>3, JobIdle
<1>4. CASE Unmount(sd) /\ job' = NoJob
  BY <1>1, <1>2, <1>4, JobUnmounted DEF queues
<1>5. CASE /\ ~mounted /\ wants' = wants \cup {"teardown"} /\ started' = FALSE
           /\ UNCHANGED <<mounted, stage, session, sd, job>>
  <2>1. MountType' /\ SessionType'
    BY <1>5 DEF JobInv, LoggerType, MountType, SessionType, session
  <2> QED BY <1>1, <1>2, <1>5, <2>1, KeptSelf, JobBystander
<1> QED BY <1>3, <1>4, <1>5 DEF Status

LEMMA JobDeadline == JobInv /\ MountInv /\ Deadline => JobInv'
<1> SUFFICES ASSUME JobInv, MountInv, Deadline PROVE JobInv' OBVIOUS
<1>1. UNCHANGED <<cfg, alive, offered, drained>> /\ pc' = "info" /\ alive /\ IsQueue(sd)
  BY DEF Deadline, Fixed, offers, JobInv, MountInv
<1>2. LoopType' BY <1>1 DEF JobInv, LoggerType, LoopType
<1>3. job.late => JobStep(sd) BY <1>1, <1>2 DEF JobStep, NoJob
<1>4. CASE UNCHANGED <<queues, mount, session, sd, job, upsets>>
  BY <1>1, <1>2, <1>4, JobIdle
<1>5. CASE job.late /\ FailHolding(0, sd, job, "soft")
  <2>1. JobNow(job) BY <1>3, <1>5, JobThere DEF JobStep
  <2> QED BY <1>3, <1>5, <2>1, JobHolds
<1>6. CASE job.late /\ ApplyFailure(sd, "soft") BY <1>3, <1>6, JobFails
<1> QED BY <1>4, <1>5, <1>6 DEF Deadline

\* A step that asks for or forgets other clients' requests, and perhaps changes
\* the session or what is deferred.
LEMMA JobAside ==
  ASSUME JobInv, Kept(sd, sd'), ~alive => sd' = <<>>, LoopType', SessionType', MountType',
         UNCHANGED <<queues, job, offered, alive, mounted, started>>,
         pc' = "start" => mounted, pc' \notin {"drain", "deadline"}
  PROVE  JobInv'
<1>1. RingType' /\ JobType' /\ offered' \in [Rings -> Nat]
  BY DEF JobInv, LoggerType, RingType, JobType, queues
<1>2. Around' BY <1>1 DEF Around, LoggerType
<1>3. RingGrows /\ SameJob BY RingsGrow DEF JobInv, LoggerType, SameJob, queues
<1> QED BY <1>2, <1>3, JobSame

LEMMA JobInfo == JobInv /\ MountInv /\ Info => JobInv'
<1> SUFFICES ASSUME JobInv, MountInv, Info PROVE JobInv' OBVIOUS
<1>1. /\ UNCHANGED <<cfg, drained, queues, mount, session, job, alive, offered>>
      /\ pc' = "tail" /\ IsQueue(sd) /\ (~alive => sd = <<>>)
  BY DEF Info, Fixed, offers, JobInv, MountInv
<1>2. LoopType' /\ MountType' /\ SessionType'
  BY <1>1 DEF JobInv, LoggerType, LoopType, MountType, SessionType, mount, session
<1>3. PICK lost \in BOOLEAN :
        LET rest == IF lost THEN Forget(sd, {"info"}) ELSE sd IN
        sd' = rest \/ (mounted /\ AskFor(rest, "info", "info", "none", {}))
  BY DEF Info
<1> DEFINE rest == IF lost THEN Forget(sd, {"info"}) ELSE sd
<1>4. Kept(sd, rest) /\ IsQueue(rest) /\ (~alive => rest = <<>>)
  BY <1>1, ForgetKeeps, KeptSelf, ForgetEmpty
<1> HIDE DEF rest
<1>5. CASE sd' = rest BY <1>1, <1>2, <1>4, <1>5, JobAside DEF mount
<1>6. CASE mounted /\ AskFor(rest, "info", "info", "none", {})
  <2>1. Kept(rest, sd') BY <1>4, <1>6, AskKeeps DEF Clients
  <2>2. Kept(sd, sd') BY <1>4, <2>1, KeptTrans
  <2>3. alive BY <1>6 DEF MountInv, WorkerAccounted
  <2> QED BY <1>1, <1>2, <2>2, <2>3, JobAside DEF mount
<1> QED BY <1>3, <1>5, <1>6 DEF rest

LEMMA JobMountDue == JobInv /\ MountInv /\ MountDue => JobInv'
<1> SUFFICES ASSUME JobInv, MountInv, MountDue PROVE JobInv' OBVIOUS
<1>1. /\ UNCHANGED <<cfg, drained, queues, mounted, started, session, job, alive, offered>>
      /\ pc' = "deferred" /\ stage' = "idle" /\ wants' = wants \cup {"mount"}
      /\ sd' = Forget(sd, {"mount"}) /\ IsQueue(sd)
  BY DEF MountDue, Fixed, offers, MountInv
<1>2. LoopType' /\ MountType' /\ SessionType'
  BY <1>1 DEF JobInv, LoggerType, LoopType, MountType, SessionType, session, Stages
<1>3. Kept(sd, sd') /\ (~alive => sd' = <<>>)
  BY <1>1, ForgetKeeps, ForgetEmpty DEF JobInv
<1> QED BY <1>1, <1>2, <1>3, JobAside

LEMMA JobEnsureSession == JobInv /\ MountInv /\ EnsureSession => JobInv'
<1> SUFFICES ASSUME JobInv, MountInv, EnsureSession PROVE JobInv' OBVIOUS
<1>1. /\ UNCHANGED <<cfg, drained, queues, mount, part, capped, rows, filed, job, alive,
                     offered>>
      /\ pc' = "start" /\ mounted /\ IsQueue(sd) /\ alive
  BY DEF EnsureSession, Fixed, offers, MountInv, WorkerAccounted
<1>2. LoopType' /\ MountType' /\ sess \in Sessions
  BY <1>1 DEF JobInv, LoggerType, LoopType, MountType, SessionType, mount, Sessions
<1>3. sess' \in Sessions /\ Kept(sd, sd')
  <2>1. CASE Ask(sd, "session", "runs") /\ sess' = [sess EXCEPT !.stage = "runs"]
    <3>1. Kept(sd, sd') BY <1>1, <2>1, AskKeeps DEF Ask, Clients, Setup
    <3>2. "runs" \in Setup \cup {"idle"} BY DEF Setup
    <3>3. sess' \in Sessions BY <1>2, <2>1, <3>2 DEF Sessions
    <3> QED BY <3>1, <3>3
  <2>2. CASE Refused(sd) /\ sess' = [sess EXCEPT !.wait = TRUE]
    BY <1>2, <2>2, KeptSelf DEF Refused, Sessions
  <2>3. CASE UNCHANGED <<sess, sd, upsets>> BY <1>2, <2>3, KeptSelf
  <2> QED BY <2>1, <2>2, <2>3 DEF EnsureSession
<1>4. SessionType'
  BY <1>1, <1>3, SetupTypes DEF JobInv, LoggerType, SessionType
<1> QED BY <1>1, <1>2, <1>3, <1>4, JobAside DEF mount

\* What startFileJob() is called with: no job, a mounted card, typed rings.
Starting ==
  /\ JobInv /\ job = NoJob /\ alive /\ IsQueue(sd) /\ mounted
  /\ UNCHANGED <<mount, session, alive, offered>>
  /\ LoopType' /\ RingType' /\ pc' = "deferred"

LEMMA StartingAround == Starting /\ JobType' => Around'
<1> SUFFICES ASSUME Starting, JobType' PROVE Around' OBVIOUS
<1>1. MountType' /\ SessionType' /\ offered' \in [Rings -> Nat]
  BY DEF Starting, JobInv, LoggerType, MountType, SessionType, mount, session
<1> QED BY <1>1 DEF Starting, Around, LoggerType

LEMMA JobNotStarted ==
  ASSUME Starting, UNCHANGED <<sd, job>> PROVE JobInv'
<1>1. job' = NoJob /\ JobType' BY NoJobType DEF Starting, JobType
<1>2. JobAsked(sd') = {} BY DEF Starting, JobInv, JobRequest
<1> QED BY <1>1, <1>2, StartingAround, JobEnds

\* startFileJob(): the batch is at the head of its ring.
LEMMA JobStarts ==
  ASSUME Starting, NEW d \in Dests, Starts(d) PROVE JobInv'
<1> DEFINE k == RingOf(d)
<1>1. CASE /\ \E n \in Batches(ring'[k], d) :
                job' = [NoJob EXCEPT !.dest = d, !.op = "stat", !.batch = n]
           /\ AskFor(sd, "job", "stat", d, {})
  <2>1. PICK n \in Batches(ring'[k], d) :
               job' = [NoJob EXCEPT !.dest = d, !.op = "stat", !.batch = n]
    BY <1>1
  <2>2. k \in Rings /\ ring'[k] \in Seq(Record)
    BY RingOfRing DEF Starting, RingType
  <2>3. n \in 1..Len(ring'[k]) /\ n \in 1..MaxBatch /\ \A i \in 1..n : d \in ring'[k][i].pend
    BY <2>1, <2>2, QueueAssumption DEF Batches, Fits
  <2>4. /\ job'.dest = d /\ job'.op = "stat" /\ job'.batch = n /\ job'.at = 0
        /\ job' \in Jobs
    <3>1. NoJob \in Jobs /\ NoJob.at = 0 BY NoJobType DEF Jobs, NoJob
    <3>2. n \in 0..MaxBatch BY <2>3
    <3> QED BY <2>1, <3>1, <3>2 DEF Jobs, JobOps
  <2>5. job' # NoJob BY <2>4, JobNotNone
  <2>6. JobType' BY <2>4 DEF JobType, Jobs
  <2>7. JobWell(job') BY <2>3, <2>4 DEF JobWell, JobOps
  <2>8. JobHoldsHead' BY <2>3, <2>4 DEF JobHoldsHead
  <2>9. JobAsked(sd) = {} BY DEF Starting, JobInv, JobRequest
  <2>10. JobRequest(sd', job') /\ JobAsked(sd') # {}
    <3>1. "job" \in Clients /\ "stat" \in JobOps BY DEF Clients, JobOps
    <3>2. IsQueue(sd) BY DEF Starting
    <3> QED BY <1>1, <2>4, <2>5, <2>9, <3>1, <3>2, AskKeeps
  <2>11. Around' BY <2>6, StartingAround
  <2>12. mounted' BY DEF Starting, mount
  <2> QED BY <2>5, <2>7, <2>8, <2>10, <2>11, <2>12 DEF JobInv, Around
<1>2. CASE Refused(sd) /\ UNCHANGED job BY <1>2, JobNotStarted DEF Refused
<1> QED BY <1>1, <1>2 DEF Starts

\* Sweeping the oldest sample leaves a ring behind.
LEMMA SweepTypes ==
  ASSUME RingType, NEW q \in Seq(Record), Len(q) <= Len(ring["sample"]), Sweep(q),
         UNCHANGED dropped
  PROVE  RingType'
<1>1. ring' = [ring EXCEPT !["sample"] = q] BY DEF Sweep
<1>2. ASSUME NEW k \in Rings PROVE Len(ring'[k]) <= Capacity[k]
  <2>1. /\ ring[k] \in Seq(Record) /\ Len(ring[k]) <= Capacity[k] /\ Capacity[k] \in Nat
        /\ ring'[k] = IF k = "sample" THEN q ELSE ring[k]
    BY <1>1, LoggerAssumption DEF RingType
  <2>2. Len(q) \in Nat /\ Len(ring[k]) \in Nat BY <2>1
  <2> QED BY <2>1, <2>2
<1> QED BY <1>1, <1>2 DEF RingType

LEMMA JobStartJob == JobInv /\ MountInv /\ StartJob => JobInv'
<1> SUFFICES ASSUME JobInv, MountInv, StartJob PROVE JobInv' OBVIOUS
<1>1. /\ UNCHANGED <<cfg, drained, dropped, mount, session, alive, offered>>
      /\ pc' = "deferred" /\ mounted /\ IsQueue(sd) /\ alive /\ job = NoJob
  BY DEF StartJob, JobFree, Fixed, offers, JobInv, MountInv, WorkerAccounted
<1>2. LoopType' BY <1>1 DEF JobInv, LoggerType, LoopType
<1>3. RingType /\ ring["sample"] \in Seq(Record) BY DEF JobInv, LoggerType, RingType, Rings
<1>4. RingType' => Starting BY <1>1, <1>2 DEF Starting
<1>5. CASE StartDaily
  <2>1. RingType' BY <1>1, <1>3, <1>5 DEF StartDaily, RingType
  <2> QED BY <1>4, <1>5, <2>1, JobStarts DEF StartDaily, Dests
<1>6. CASE StartAll
  <2> DEFINE q == [ring["sample"] EXCEPT ![1].pend = Swept]
  <2>1. ring["sample"] # <<>> /\ Sweep(q) BY <1>6 DEF StartAll, SampleDue
  <2>2. 1 \in DOMAIN ring["sample"] /\ ring["sample"][1] \in Record BY <1>3, <2>1
  <2>3. [ring["sample"][1] EXCEPT !.pend = Swept] \in Record BY <2>2 DEF Swept, Record
  <2>4. q = [ring["sample"] EXCEPT ![1] = [ring["sample"][1] EXCEPT !.pend = Swept]]
    OBVIOUS
  <2>5. q \in Seq(Record) /\ Len(q) = Len(ring["sample"]) BY <1>3, <2>2, <2>3, <2>4
  <2>6. Len(q) <= Len(ring["sample"]) BY <1>3, <2>5
  <2> HIDE DEF q
  <2>7. RingType' BY <1>1, <1>3, <2>1, <2>5, <2>6, SweepTypes
  <2> QED BY <1>4, <1>6, <2>7, JobStarts, JobNotStarted DEF StartAll, Dests
<1>7. CASE StartEvent
  <2> DEFINE q == IF SampleDue THEN Tail(ring["sample"]) ELSE ring["sample"]
  <2>1. Sweep(q) BY <1>7 DEF StartEvent
  <2>2. q \in Seq(Record) /\ Len(q) <= Len(ring["sample"])
    BY <1>3 DEF SampleDue
  <2> HIDE DEF q
  <2>3. RingType' BY <1>1, <1>3, <2>1, <2>2, SweepTypes
  <2> QED BY <1>4, <1>7, <2>3, JobStarts, JobNotStarted DEF StartEvent, Dests
<1> QED BY <1>5, <1>6, <1>7 DEF StartJob

LEMMA JobTail ==
  JobInv /\ MountInv /\ (WaitForMount \/ MountDue \/ EnsureSession \/ StartJob \/ NoStart)
    => JobInv'
<1> SUFFICES ASSUME JobInv, MountInv, WaitForMount \/ NoStart PROVE JobInv'
  BY JobMountDue, JobEnsureSession, JobStartJob
<1>1. /\ UNCHANGED <<cfg, drained, queues, mount, session, sd, job, alive, offered>>
      /\ pc' = "deferred"
  BY DEF WaitForMount, NoStart, Fixed, offers
<1>2. LoopType' BY <1>1 DEF JobInv, LoggerType, LoopType
<1> QED BY <1>1, <1>2, JobIdle

-----------------------------------------------------------------------------
(* The steps: processDeferred(). *)

\* The library is gone, and the job, if there is one, waits for nothing.
LEMMA JobLeft ==
  ASSUME JobInv, LoopType', SessionType', MountType', sd' = <<>>, ~mounted', ~started',
         UNCHANGED <<queues, job, offered>>, pc' = "idle"
  PROVE  JobInv'
<1>1. RingType' /\ JobType' /\ offered' \in [Rings -> Nat]
  BY DEF JobInv, LoggerType, RingType, JobType, queues
<1>2. JobWell(job') /\ JobHoldsHead' BY DEF JobInv, JobHoldsHead, queues
<1>3. JobRequest(sd', job') BY DEF JobRequest, JobAsked
<1> QED BY <1>1, <1>2, <1>3 DEF JobInv, LoggerType

LEMMA JobMount == JobInv /\ MountInv /\ Mount => JobInv'
<1> SUFFICES ASSUME JobInv, MountInv, Mount PROVE JobInv' OBVIOUS
<1>1. /\ UNCHANGED <<drained, cfg, queues, offered, part, capped, rows, filed>>
      /\ pc' = "idle" /\ mounted' = FALSE /\ ~started /\ "teardown" \notin wants
  BY DEF Mount, Deferring, offers
<1>2. LoopType' /\ RingType' /\ offered' \in [Rings -> Nat] /\ SessionType /\ MountType
  BY <1>1 DEF JobInv, LoggerType, LoopType, RingType, queues
<1>3. sess \in Sessions /\ (sess' \in Sessions => SessionType')
  BY <1>1, <1>2, SetupTypes DEF SessionType, Sessions
<1>4. ~alive /\ sd = <<>> BY <1>1 DEF MountInv, WorkerAccounted, JobInv
<1>5. ASSUME job' = NoJob, JobAsked(sd') = {}, ~alive' => sd' = <<>>, SessionType', MountType'
      PROVE  JobInv'
  <2>1. JobType' BY <1>5, NoJobType DEF JobType
  <2>2. Around' BY <1>1, <1>2, <1>5, <2>1 DEF Around, LoggerType
  <2> QED BY <1>5, <2>2, JobEnds
<1>6. CASE /\ job' = NoJob /\ stage' = "idle" /\ wants' = {}
           /\ sd' = Forget(sd, {"mount", "info", "session"})
           /\ UNCHANGED <<started, sess, alive, handles, upsets>>
  <2>1. sd' = <<>> BY <1>4, <1>6, ForgetEmpty
  <2>2. MountType' /\ SessionType' BY <1>1, <1>2, <1>3, <1>6 DEF MountType, Stages
  <2> QED BY <1>5, <1>6, <2>1, <2>2 DEF JobAsked
<1>7. CASE End /\ wants' = {} /\ UNCHANGED <<job, stage, sess>>
  <2>1. MountType' /\ SessionType' BY <1>1, <1>2, <1>3, <1>7 DEF MountType, End
  <2> QED BY <1>1, <1>2, <1>7, <2>1, JobLeft DEF End
<1>8. CASE /\ alive' = TRUE /\ job' = NoJob
           /\ sess' = [sess EXCEPT !.ready = FALSE, !.stage = "idle"]
           /\ \/ Ask(<<>>, "mount", "mount") /\ stage' = "mount" /\ started' = TRUE
                 /\ wants' = {}
              \/ Refused(<<>>) /\ stage' = "idle" /\ started' = FALSE
                 /\ wants' = {"teardown"}
  <2>1. sess' \in Sessions BY <1>3, <1>8 DEF Sessions
  <2>2. MountType' BY <1>1, <1>8 DEF MountType, Stages
  <2>3. IsQueue(<<>>) /\ JobAsked(<<>>) = {} BY EmptyQueue DEF JobAsked
  <2>4. Ask(<<>>, "mount", "mount") => Kept(<<>>, sd')
    BY <2>3, AskKeeps DEF Ask, Clients, Stages
  <2>5. JobAsked(sd') = {} BY <1>8, <2>3, <2>4, KeptNone DEF Refused
  <2> QED BY <1>3, <1>5, <1>8, <2>1, <2>2, <2>5
<1> QED BY <1>6, <1>7, <1>8 DEF Mount

LEMMA JobDeferred == JobInv /\ MountInv /\ Deferred => JobInv'
<1> SUFFICES ASSUME JobInv, MountInv, Deferred PROVE JobInv' OBVIOUS
<1>1. CASE NothingDeferred
  <2>1. /\ UNCHANGED <<drained, cfg, queues, mount, session, sd, job, alive, offered>>
        /\ pc' = "idle"
    BY <1>1 DEF NothingDeferred, Deferring, offers
  <2>2. LoopType' BY <2>1 DEF JobInv, LoggerType, LoopType
  <2> QED BY <2>1, <2>2, JobIdle
<1>2. CASE Teardown \/ EndToMount
  <2>1. /\ UNCHANGED <<drained, cfg, queues, job, mounted, stage, session, offered>>
        /\ pc' = "idle" /\ sd' = <<>> /\ ~started' /\ wants' \in {wants \ {"teardown"}, {"mount"}}
        /\ started' \in BOOLEAN
    BY <1>2 DEF Teardown, EndToMount, End, Deferring, offers
  <2>2. LoopType' /\ SessionType' /\ MountType'
    BY <2>1 DEF JobInv, LoggerType, LoopType, SessionType, MountType, session
  <2>3. ~mounted'
    BY <1>2, <2>1 DEF Teardown, EndToMount, MountInv
  <2> QED BY <2>1, <2>2, <2>3, JobLeft
<1> QED BY <1>1, <1>2, JobMount DEF Deferred

-----------------------------------------------------------------------------
(* What goes on beside the main loop. *)

LEMMA JobWork == JobInv /\ MountInv /\ Work => JobInv'
<1> SUFFICES ASSUME JobInv, MountInv, Work PROVE JobInv' OBVIOUS
<1>1. /\ UNCHANGED <<pc, drained, cfg, queues, job, mount, session, alive, offered>>
      /\ alive
  BY DEF Work, loop, offers
<1>2. PICK i \in DOMAIN sd, a \in Outcomes :
        /\ sd' = [sd EXCEPT ![i].res = a]
        /\ \/ a = "soft"
           \/ a \in Usual(sd[i]) \cup Trouble(sd[i]) \cup CardOut(sd[i])
  BY DEF Work
<1>3. PICK D, I : sd \in Seq(Fields(D, I)) BY DEF MountInv, IsQueue
<1>4. DOMAIN sd = 1..Len(sd) /\ sd[i] \in Fields(D, I) BY <1>3
<1>5. /\ [sd[i] EXCEPT !.res = a].for = sd[i].for /\ [sd[i] EXCEPT !.res = a].op = sd[i].op
      /\ [sd[i] EXCEPT !.res = a].res = a
  BY <1>4 DEF Fields
<1>6. sd' = [sd EXCEPT ![i] = [sd[i] EXCEPT !.res = a]] BY <1>2
<1>7. /\ DOMAIN sd' = DOMAIN sd /\ sd'[i].res = a
      /\ \A k \in DOMAIN sd : sd'[k].for = sd[k].for /\ sd'[k].op = sd[k].op
      /\ \A k \in DOMAIN sd : k # i => sd'[k].res = sd[k].res
  <2> DEFINE r == [sd[i] EXCEPT !.res = a]
  <2>1. r.for = sd[i].for /\ r.op = sd[i].op /\ r.res = a BY <1>5
  <2>2. sd' = [sd EXCEPT ![i] = r] BY <1>6
  <2> HIDE DEF r
  <2>3. DOMAIN sd' = DOMAIN sd /\ sd'[i] = r /\ \A k \in DOMAIN sd : k # i => sd'[k] = sd[k]
    BY <1>3, <2>2
  <2> QED BY <2>1, <2>3
<1>8. JobAsked(sd') = JobAsked(sd) BY <1>7 DEF JobAsked
<1>9. sd[i].op \in Writes => a \in Plain
  BY <1>2 DEF Usual, Trouble, CardOut, Writes, Plain, JobOps
<1>10. JobRequest(sd', job') BY <1>1, <1>7, <1>8, <1>9 DEF JobInv, JobRequest, JobAsked
<1>11. LoggerType' /\ offered' \in [Rings -> Nat]
  BY <1>1 DEF JobInv, LoggerType, LoopType, RingType, JobType, MountType, SessionType,
              queues, mount, session
<1>12. JobHoldsHead' BY <1>1 DEF JobInv, JobHoldsHead, queues
<1> QED BY <1>1, <1>8, <1>10, <1>11, <1>12 DEF JobInv, mount

LEMMA JobLate == JobInv /\ Late => JobInv'
<1> SUFFICES ASSUME JobInv, Late PROVE JobInv' OBVIOUS
<1>1. /\ UNCHANGED <<pc, drained, cfg, queues, mount, session, sd, alive, offered>>
      /\ job # NoJob /\ job' = [job EXCEPT !.late = TRUE]
  BY DEF Late, Aside, loop, library, offers, session
<1>2. job \in Jobs /\ job.dest \in Dests BY <1>1, JobThere DEF JobNow
<1>3. job' \in Jobs /\ SameJob
  <2>1. /\ job' \in Jobs /\ job'.dest = job.dest /\ job'.op = job.op
        /\ job'.batch = job.batch /\ job'.at = job.at
    BY <1>1, <1>2 DEF Jobs
  <2> QED BY <1>1, <1>2, <2>1, JobNotNone DEF SameJob
<1>4. LoggerType' /\ offered' \in [Rings -> Nat]
  BY <1>1, <1>3 DEF JobInv, LoggerType, LoopType, RingType, JobType, MountType, SessionType,
              queues, mount, session, Jobs
<1>5. Around' BY <1>1, <1>4 DEF Around, JobInv, mount
<1> QED BY <1>1, <1>3, <1>5, RingsGrow, KeptSelf, JobSame DEF JobInv, LoggerType, queues, mount

LEMMA JobRetryDue == JobInv /\ RecordBackoffEnds => JobInv'
<1> SUFFICES ASSUME JobInv, RecordBackoffEnds PROVE JobInv' OBVIOUS
<1>1. UNCHANGED <<pc, drained, cfg, dropped, job, mount, session, sd, alive, offered>>
  BY DEF RecordBackoffEnds, loop, library, offers
<1>2. RingType BY DEF JobInv, LoggerType
<1>3. PICK k \in Rings : \E y \in DOMAIN ring[k] : ring' = [ring EXCEPT ![k][y].wait = FALSE]
  BY DEF RecordBackoffEnds
<1>4. PICK i \in DOMAIN ring[k] : ring' = [ring EXCEPT ![k][i].wait = FALSE] BY <1>3
<1> DEFINE r == [ring[k][i] EXCEPT !.wait = FALSE]
           q == [ring[k] EXCEPT ![i] = r]
<1>5. ring[k] \in Seq(Record) /\ DOMAIN ring[k] = 1..Len(ring[k]) /\ ring[k][i] \in Record
  BY <1>2, <1>4 DEF RingType
<1>6. r \in Record /\ r.pend = ring[k][i].pend BY <1>5 DEF Record
<1>7. ring' = [ring EXCEPT ![k] = q] BY <1>4
<1> HIDE DEF r
<1>8. /\ q \in Seq(Record) /\ Len(q) = Len(ring[k])
      /\ \A x \in 1..Len(ring[k]) : q[x].pend = ring[k][x].pend
  BY <1>5, <1>6
<1> HIDE DEF q
<1>9. ASSUME NEW x \in Rings
      PROVE  /\ ring'[x] \in Seq(Record) /\ Len(ring'[x]) <= Capacity[x]
             /\ Len(ring[x]) <= Len(ring'[x])
             /\ \A y \in 1..Len(ring[x]) : ring'[x][y].pend = ring[x][y].pend
  <2>1. ring[x] \in Seq(Record) /\ Len(ring[x]) \in Nat /\ Len(ring[x]) <= Capacity[x]
    BY <1>2 DEF RingType
  <2>2. CASE x = k BY <1>2, <1>7, <1>8, <2>1, <2>2 DEF RingType
  <2>3. CASE x # k BY <1>2, <1>7, <2>1, <2>3 DEF RingType
  <2> QED BY <2>2, <2>3
<1>10. ring' \in [Rings -> Seq(Record)] BY <1>2, <1>7, <1>8 DEF RingType
<1>11. RingType' /\ RingGrows BY <1>1, <1>2, <1>9, <1>10 DEF RingType, RingGrows
<1>12. LoggerType' /\ offered' \in [Rings -> Nat]
  BY <1>1, <1>11 DEF JobInv, LoggerType, LoopType, JobType, MountType, SessionType, mount,
              session
<1>13. Around' BY <1>1, <1>12 DEF Around, JobInv, mount
<1> QED BY <1>1, <1>11, <1>13, KeptSelf, JobSame DEF SameJob, mount

LEMMA JobBeside ==
  JobInv /\ (RemoveCard \/ InsertCard \/ SessionBackoffEnds \/ UNCHANGED vars) => JobInv'
<1> SUFFICES ASSUME JobInv, RemoveCard \/ InsertCard \/ SessionBackoffEnds \/ UNCHANGED vars
             PROVE  JobInv'
  OBVIOUS
<1>1. /\ UNCHANGED <<pc, drained, cfg, queues, job, mount, part, capped, rows, filed, sd,
                     alive, offered>>
      /\ sess' = sess \/ sess' = [sess EXCEPT !.wait = FALSE]
  BY DEF RemoveCard, InsertCard, SessionBackoffEnds, Aside, vars, loop, library, offers,
         session
<1>2. LoggerType' /\ offered' \in [Rings -> Nat]
  <2>1. sess \in Sessions BY DEF JobInv, LoggerType, SessionType, Sessions
  <2>2. sess' \in Sessions BY <1>1, <2>1 DEF Sessions
  <2>3. SessionType' BY <1>1, <2>2, SetupTypes DEF JobInv, LoggerType, SessionType
  <2> QED BY <1>1, <2>3 DEF JobInv, LoggerType, LoopType, RingType, JobType, MountType,
             queues, mount
<1>3. Around' BY <1>1, <1>2 DEF Around, JobInv, mount
<1>4. RingGrows /\ SameJob BY <1>1, RingsGrow DEF JobInv, LoggerType, SameJob, queues
<1> QED BY <1>1, <1>3, <1>4, KeptSelf, JobSame DEF mount

-----------------------------------------------------------------------------
(* The theorems. *)

LEMMA JobInvariant == Spec => []JobInv
<1>1. JobInv /\ MountInv /\ [Next]_vars => JobInv'
  BY JobApplication, JobIgnore, JobMountResult, JobInfoResult, JobSessionResult,
     JobStatResult, JobWriteResult, JobCloseResult, JobBeginTick, JobStatus, JobDeadline,
     JobInfo, JobTail, JobDeferred, JobWork, JobLate, JobRetryDue, JobBeside
  DEF Next, Tick, Result
<1> QED BY <1>1, JobInit, MountAlwaysConsistent, PTL DEF Spec

\* The logger's own state has its types: no ring holds more than its capacity,
\* no job more than a batch, and no file part is beyond the last.
THEOREM LoggerTypeCorrect == Spec => []LoggerType
<1>1. JobInv => LoggerType BY DEF JobInv
<1> QED BY <1>1, JobInvariant, PTL

\* The lines a job points at stay at the head of their ring, still pending for
\* its destination, until the job ends (_job.lines, completeFileJobSuccess,
\* applyFileJobFailure).
THEOREM JobAlwaysHoldsHead == Spec => []JobHoldsHead
<1>1. JobInv => JobHoldsHead BY DEF JobInv
<1> QED BY <1>1, JobInvariant, PTL

\* A job in progress on a mounted card waits for exactly one request of the
\* library, and it is for what the job does now (_job.requestId).
THEOREM JobAlwaysHasRequest == Spec => []JobHasRequest
<1>1. JobInv => JobHasRequest
  <2> SUFFICES ASSUME JobInv, job # NoJob, mounted
               PROVE  Cardinality(JobAsked(sd)) = 1
                      /\ \E i \in DOMAIN sd : sd[i].for = "job" /\ sd[i].op = job.op
    BY DEF JobHasRequest, JobAsked
  <2>1. PICK i : i \in JobAsked(sd) BY DEF JobInv
  <2>2. JobAsked(sd) = {i} /\ sd[i].op = job.op BY <2>1 DEF JobInv, JobRequest
  <2>3. Cardinality({i}) = 1 BY FS_Singleton
  <2> QED BY <2>1, <2>2, <2>3 DEF JobAsked
<1> QED BY <1>1, JobInvariant, PTL
=============================================================================
