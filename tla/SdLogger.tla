------------------------------- MODULE SdLogger -------------------------------
(***************************************************************************)
(* The SD logger and, outside it, the AsyncSD library and the card.  The   *)
(* main loop calls logSample(), logEvent(), applySettings(), remount() and *)
(* probe(), then tick() and then processDeferred(), over and over (pc).    *)
(* The library serves one FIFO of requests on a worker task, which runs    *)
(* between any two steps of the main loop.                                 *)
(*                                                                         *)
(* A request is matched to its client by its id; here it carries the name  *)
(* of the client that still waits for it, "gone" once the logger has       *)
(* forgotten the id.  An outcome of a request is "ok", one that the code   *)
(* maps to COMM_FAILURE ("media"), any other failure ("soft"), or one the  *)
(* code singles out.  Files are known by what the logger may rely on: the  *)
(* records in closed files (disk), and whether a file has room ("full").   *)
(***************************************************************************)
EXTENDS SdQueue

CONSTANTS
  Capacity,          \* capacity of each ring, a function on Rings
  PartMax,           \* LOG_FILE_PART_MAX
  MaxOpen,           \* AppSettings::sdMaxOpenFiles
  CardDetect,        \* the board has a card-detect pin
  Settings,          \* the sets of streams that may be switched on
  MaxOffers,         \* bound: records offered to each ring, a function on Rings
  MaxChanges,        \* bound: settings changes and remounts
  MaxUpsets          \* bound: times the card, the library or time misbehaves

ASSUME LoggerAssumption ==
  /\ Capacity \in [Rings -> Nat \ {0}] /\ MaxOffers \in [Rings -> Nat]
  /\ PartMax \in Nat \ {0} /\ MaxOpen \in Nat \ {0}
  /\ CardDetect \in BOOLEAN /\ Settings \subseteq SUBSET {"daily", "all"}
  /\ MaxChanges \in Nat /\ MaxUpsets \in Nat

VARIABLES
  pc, drained,       \* where the main loop is; tick() has taken a result
  cfg,               \* streams switched on: a subset of {"daily", "all"}
  ring, dropped,     \* the two rings, _dropped and _eventDropped
  job,               \* _job
  mounted, stage, started,
  wants,             \* _deferredTeardown, _deferredRemount, _deferredMount
  sess, part, capped,\* the session, its file parts, _allCapped
  rows,              \* _sampleLinesCurrentFile
  alive, sd, handles,\* the library: worker running, requests, open files
  disk, card,        \* records in closed files, the card is in
  offered, wanted, off, filed,   \* history
  changes, upsets

loop    == <<pc, drained>>
queues  == <<ring, dropped>>
mount   == <<mounted, stage, started, wants>>
session == <<sess, part, capped, rows, filed>>
library == <<alive, sd, handles, disk>>
offers  == <<offered, wanted>>
vars == <<loop, cfg, queues, job, mount, session, library, card, offers, off,
          changes, upsets>>

Clients  == {"job", "mount", "session", "info"}
Stages   == {"idle", "mount", "logs", "days", "ready"}
Setup    == {"runs", "dir", "verify", "list", "statData", "statEvents", "mark", "seal"}
JobOps   == {"stat", "open", "header", "line", "close"}
Outcomes == {"ok", "soft", "media", "empty", "full", "exists", "missing", "taken",
             "short"}

Request == [for : Clients \cup {"gone"}, op : JobOps \cup Stages \cup Setup \cup {"info"},
            dest : Dests \cup {"none"}, ids : SUBSET Nat, res : Outcomes \cup {"todo"}]

NoJob == [dest |-> "none", op |-> "none", batch |-> 0, at |-> 0, header |-> FALSE,
          fail |-> "none", late |-> FALSE, here |-> TRUE]
NoSession == [stage |-> "idle", ready |-> FALSE, fresh |-> FALSE, named |-> FALSE,
              marked |-> FALSE, wait |-> FALSE]

LoopType == /\ pc \in {"idle", "drain", "deadline", "info", "tail", "start", "deferred"}
            /\ drained \in BOOLEAN /\ cfg \subseteq {"daily", "all"}

RingType ==
  /\ ring \in [Rings -> Seq(Record)] /\ \A k \in Rings : Len(ring[k]) <= Capacity[k]
  /\ dropped \in [Rings -> Nat]

JobType ==
  job \in [dest : Dests \cup {"none"}, op : JobOps \cup {"none"}, batch : 0..MaxBatch,
          at : 0..MaxBatch, header : BOOLEAN, fail : {"none", "soft", "media"},
          late : BOOLEAN, here : BOOLEAN]

MountType == /\ mounted \in BOOLEAN /\ stage \in Stages /\ started \in BOOLEAN
             /\ wants \subseteq {"teardown", "remount", "mount"}

SessionType ==
  /\ sess \in [stage : Setup \cup {"idle"}, ready : BOOLEAN, fresh : BOOLEAN,
               named : BOOLEAN, marked : BOOLEAN, wait : BOOLEAN]
  /\ part \in [Rings -> 1..PartMax] /\ capped \in BOOLEAN
  /\ rows \in Nat /\ filed \in Nat

LibraryType == /\ alive \in BOOLEAN /\ sd \in Seq(Request) /\ handles \in 0..MaxOpen
               /\ disk \in [Dests -> SUBSET Nat] /\ card \in BOOLEAN

HistoryType == /\ offered \in [Rings -> Nat] /\ wanted \in [Dests -> SUBSET Nat]
               /\ off \in [Dests -> SUBSET Nat]
               /\ changes \in 0..MaxChanges /\ upsets \in 0..MaxUpsets

\* Each variable of the logger and of the library has its type.
TypeOK == LoopType /\ RingType /\ JobType /\ MountType /\ SessionType /\ LibraryType
          /\ HistoryType

\* begin() calls mount(), which starts the library only if a card is in.
Init ==
  /\ pc = "idle" /\ drained = FALSE
  /\ cfg \in Settings
  /\ ring = [k \in Rings |-> <<>>] /\ dropped = [k \in Rings |-> 0]
  /\ job = NoJob /\ mounted = FALSE
  /\ wants = {} /\ card \in BOOLEAN
  /\ sess = [NoSession EXCEPT !.fresh = "all" \in cfg]
  /\ part = [k \in Rings |-> 1] /\ capped = FALSE /\ rows = 0
  /\ started = (card \/ ~CardDetect)
  /\ stage = IF started THEN "mount" ELSE "idle"
  /\ sd = IF started THEN <<[for |-> "mount", op |-> "mount", dest |-> "none",
                             ids |-> {}, res |-> "todo"]>> ELSE <<>>
  /\ alive = started /\ handles = 0 /\ disk = [d \in Dests |-> {}]
  /\ offered = [k \in Rings |-> 0] /\ wanted = [d \in Dests |-> {}]
  /\ off = [d \in Dests |-> {}] /\ filed = 0
  /\ changes = 0 /\ upsets = 0

-----------------------------------------------------------------------------
(* Talking to the library. *)

Spend(n) == upsets + n <= MaxUpsets /\ upsets' = upsets + n

\* isCardPresent()
CardSeen == card \/ ~CardDetect

\* The library may report the card gone once it is; another fault is an upset.
LibraryFault == (~card /\ UNCHANGED upsets) \/ (card /\ Spend(1))

\* A request joins the FIFO rest; Refused counts the request that does not.
AskFor(rest, c, o, d, ids) ==
  sd' = Append(rest, [for |-> c, op |-> o, dest |-> d, ids |-> ids, res |-> "todo"])
Ask(rest, c, o) == AskFor(rest, c, o, "none", {}) /\ UNCHANGED upsets
Refused(rest) == sd' = rest /\ Spend(1)

\* Fault: every client forgets.
Forget_All(rest, C) == [i \in DOMAIN rest |-> [rest[i] EXCEPT !.for = "gone"]]

\* The clients in C forget their request ids.
Forget(rest, C) ==
  [i \in DOMAIN rest |->
     IF rest[i].for \in C THEN [rest[i] EXCEPT !.for = "gone"] ELSE rest[i]]

\* tick() pops the result of request o of client c.
Answered(c, o) ==
  /\ pc = "drain" /\ sd # <<>>
  /\ Head(sd).for = c /\ Head(sd).op = o /\ Head(sd).res # "todo"
  /\ drained' = TRUE
  /\ UNCHANGED <<pc, cfg, alive, handles, disk, card, offers, changes>>
Answer == Head(sd).res
Rest == Tail(sd)

-----------------------------------------------------------------------------
(* Losing the card. *)

\* resetAllSessionState(): the parts and the rows start over.
ResetSession(clearNames, s) ==
  /\ sess' = [s EXCEPT !.stage = "idle", !.ready = FALSE,
                       !.named = IF clearNames THEN FALSE ELSE @,
                       !.marked = IF clearNames THEN FALSE ELSE @]
  /\ part' = [k \in Rings |-> 1] /\ rows' = 0 /\ filed' = 0

\* The session can be found again after a remount.
KeepsIdentity == "all" \in cfg /\ sess.named /\ sess.marked

Fresh == "all" \in cfg /\ ~KeepsIdentity

\* Fault: the worker is not torn down.
Unmount_NoTeardown(rest) ==
  /\ mounted' = FALSE /\ stage' = "idle" /\ started' = FALSE /\ UNCHANGED wants
  /\ ResetSession(~KeepsIdentity, [sess EXCEPT !.fresh = Fresh, !.wait = TRUE])
  /\ UNCHANGED capped /\ sd' = Forget(rest, Clients)

\* markUnmounted(), which also drops the job.
Unmount(rest) ==
  /\ mounted' = FALSE /\ stage' = "idle" /\ started' = FALSE
  /\ wants' = IF started THEN wants \cup {"teardown"} ELSE wants
  /\ ResetSession(~KeepsIdentity, [sess EXCEPT !.fresh = Fresh, !.wait = TRUE])
  /\ UNCHANGED capped /\ sd' = Forget(rest, Clients)

\* Fault: the logger goes on as if mounted.
TakeOffline_Mounted ==
  /\ stage' = "idle" /\ started' = FALSE /\ UNCHANGED mounted
  /\ wants' = IF started THEN wants \cup {"teardown"} ELSE wants

\* Session setup or a mount stage takes the logger off line.
TakeOffline ==
  /\ mounted' = FALSE /\ stage' = "idle" /\ started' = FALSE
  /\ wants' = IF started THEN wants \cup {"teardown"} ELSE wants

-----------------------------------------------------------------------------
(* Calls of the application between two ticks. *)

Calling == pc = "idle"

\* Fault: one record more than there is room for.
HasRoom_More(k) == Len(ring[k]) <= Capacity[k]
HasRoom(k) == Len(ring[k]) < Capacity[k]

Offer(k, dests) ==
  /\ Calling /\ offered[k] < MaxOffers[k]
  /\ offered' = [offered EXCEPT ![k] = @ + 1]
  /\ \/ /\ HasRoom(k)
        /\ ring' = [ring EXCEPT ![k] = Append(@, NewRecord(offered[k] + 1, dests))]
        /\ wanted' = [d \in Dests |->
                        IF d \in dests THEN wanted[d] \cup {offered[k] + 1} ELSE wanted[d]]
        /\ UNCHANGED dropped
     \/ /\ ~HasRoom(k)
        /\ dropped' = [dropped EXCEPT ![k] = @ + 1]
        /\ UNCHANGED <<ring, wanted>>
  /\ UNCHANGED <<loop, cfg, job, mount, session, library, card, off, changes, upsets>>

SampleDests == cfg \ (IF capped THEN {"all"} ELSE {})

LogSample == SampleDests # {} /\ Offer("sample", SampleDests)
LogEvent  == Offer("event", {"event"})

\* A settings change may rename the session and raise logAllMaxBytes.
ApplySettings(new, renamed, bigger) ==
  LET again == "all" \in new /\ "all" \notin cfg
      cleared == ~("all" \in new) \/ again \/ renamed
  IN
  /\ Calling /\ changes < MaxChanges /\ changes' = changes + 1
  /\ cfg' = new
  /\ capped' = (capped /\ "all" \in new /\ ~again /\ ~renamed /\ ~bigger)
  /\ IF again \/ renamed
     THEN /\ ResetSession(TRUE, [sess EXCEPT !.fresh = TRUE, !.wait = FALSE])
          /\ job' = IF job.dest = "all" THEN [job EXCEPT !.here = FALSE] ELSE job
     ELSE /\ sess' = IF cleared
                     THEN [sess EXCEPT !.stage = "idle", !.ready = FALSE, !.fresh = TRUE,
                                       !.wait = FALSE]
                     ELSE sess
          /\ UNCHANGED <<part, rows, filed, job>>
  /\ sd' = IF cleared THEN Forget(sd, {"session"}) ELSE sd
  /\ UNCHANGED <<loop, queues, mount, alive, handles, disk, card, offers, off, upsets>>

Remount ==
  /\ Calling /\ changes < MaxChanges /\ changes' = changes + 1
  /\ mounted' = FALSE /\ stage' = "idle" /\ capped' = FALSE
  /\ ResetSession(~KeepsIdentity, [sess EXCEPT !.fresh = Fresh, !.wait = FALSE])
  /\ job' = NoJob /\ sd' = Forget(sd, Clients)
  /\ wants' = (wants \cup {"remount"}) \ {"mount"}
  /\ UNCHANGED <<loop, cfg, queues, started, alive, handles, disk, card, offers, off,
                 upsets>>

InfoAsked == \E i \in DOMAIN sd : sd[i].for = "info"

\* probe(): looks at the card and asks for its figures.
Probe ==
  /\ Calling /\ changes < MaxChanges /\ changes' = changes + 1
  /\ \/ /\ \/ ~CardSeen /\ UNCHANGED upsets
           \/ CardSeen /\ mounted /\ started /\ LibraryFault
        /\ Unmount(sd) /\ job' = NoJob
     \/ /\ CardSeen /\ mounted /\ started /\ stage = "ready" /\ ~InfoAsked
        /\ Ask(sd, "info", "info")
        /\ UNCHANGED <<mount, session, job>>
  /\ UNCHANGED <<loop, cfg, queues, alive, handles, disk, card, offers, off>>

-----------------------------------------------------------------------------
(* tick(): the results. *)

\* A removed card is noticed first; only a started library is polled.
BeginTick ==
  /\ pc = "idle" /\ drained' = FALSE
  /\ IF mounted /\ ~CardSeen
     THEN Unmount(sd) /\ job' = NoJob
     ELSE UNCHANGED <<mount, session, sd, job>>
  /\ pc' = IF started' THEN "drain" ELSE "tail"
  /\ UNCHANGED <<cfg, queues, alive, handles, disk, card, offers, off, changes, upsets>>

\* The request is one the logger has forgotten.
Ignore ==
  /\ \E o \in JobOps \cup Stages \cup Setup \cup {"info"} : Answered("gone", o)
  /\ sd' = Rest /\ UNCHANGED <<queues, job, mount, session, off, upsets>>

\* Mounting goes on to the next of the three requests, or gives up.
MountGoesOn(o) ==
  \/ Ask(Rest, "mount", o) /\ stage' = o /\ UNCHANGED <<mounted, started, wants>>
  \/ Refused(Rest) /\ stage' = "idle" /\ mounted' = FALSE /\ UNCHANGED <<started, wants>>

MountResult ==
  /\ \/ /\ Answered("mount", "mount") /\ Answer = "ok" /\ MountGoesOn("logs")
     \/ /\ Answered("mount", "logs") /\ Answer = "ok" /\ MountGoesOn("days")
     \/ /\ Answered("mount", "days") /\ Answer = "ok"
        /\ mounted' = TRUE /\ stage' = "ready" /\ UNCHANGED <<started, wants>>
        /\ sd' = Rest /\ UNCHANGED upsets
     \/ /\ \E o \in {"mount", "logs", "days"} : Answered("mount", o)
        /\ Answer # "ok" /\ TakeOffline
        /\ sd' = Rest /\ UNCHANGED upsets
  /\ UNCHANGED <<queues, job, session, off>>

InfoResult ==
  /\ Answered("info", "info") /\ UNCHANGED <<queues, off, upsets>>
  /\ IF Answer = "media" THEN Unmount(Rest) /\ job' = NoJob
     ELSE sd' = Rest /\ UNCHANGED <<mount, session, job>>

-----------------------------------------------------------------------------
(* tick(): the results of session setup. *)

\* Fault: setup stays at the stage that failed.
SetupFailed_Stuck(s) == [s EXCEPT !.ready = FALSE, !.wait = TRUE]

SetupFailed(s) == [s EXCEPT !.stage = "idle", !.ready = FALSE, !.wait = TRUE]

SameFiles == UNCHANGED <<part, rows, filed>>

\* Setup goes on with request o, s being the session so far.
GoesOn(o, s) ==
  \/ Ask(Rest, "session", o) /\ sess' = [s EXCEPT !.stage = o]
  \/ Refused(Rest) /\ sess' = SetupFailed(s)

Fails == sess' = SetupFailed(sess) /\ sd' = Rest /\ UNCHANGED upsets

FallsBack(defer) ==
  /\ ResetSession(TRUE, [sess EXCEPT !.fresh = TRUE, !.wait = defer])
  /\ sd' = Rest /\ UNCHANGED upsets

IsReady ==
  /\ sess' = [sess EXCEPT !.stage = "idle", !.ready = TRUE, !.fresh = FALSE, !.wait = FALSE]
  /\ sd' = Rest /\ UNCHANGED upsets

\* The marker cannot be closed: setup fails and takes the card off line; a job
\* in progress is left as it is.
FailsOffline ==
  /\ TakeOffline /\ sess' = SetupFailed(sess) /\ SameFiles
  /\ sd' = Forget(Rest, {"mount", "info"})

\* A part whose file is too short to hold its header is left for the next one.
SkipPart(k) == part[k] < PartMax /\ part' = [part EXCEPT ![k] = @ + 1]

SetupDirs ==
  \/ /\ Answered("session", "runs") /\ SameFiles
     /\ IF Answer = "ok" THEN GoesOn("dir", [sess EXCEPT !.named = TRUE]) ELSE Fails
  \/ /\ Answered("session", "dir") /\ SameFiles
     /\ CASE Answer = "soft" -> Fails
          [] Answer = "exists" /\ sess.fresh -> GoesOn("dir", sess)
          [] OTHER -> GoesOn(IF sess.fresh THEN "verify" ELSE "list", sess)
  \/ /\ Answered("session", "verify") /\ SameFiles
     /\ IF Answer \in {"missing", "taken"} THEN GoesOn("dir", sess)
        ELSE GoesOn("mark", [sess EXCEPT !.marked = TRUE])

SetupResume ==
  \/ /\ Answered("session", "list")
     /\ \/ Answer # "ok" /\ FallsBack(Answer = "soft")
        \/ /\ Answer = "ok" /\ GoesOn("statData", sess)
           /\ part' \in [Rings -> 1..PartMax]
           /\ IF part'["sample"] = part["sample"] THEN UNCHANGED <<rows, filed>>
              ELSE rows' = 0 /\ filed' = 0
  \/ /\ Answered("session", "statData")
     /\ \/ Answer = "taken" /\ FallsBack(FALSE)
        \/ Answer = "soft" /\ Fails /\ SameFiles
        \/ Answer = "ok" /\ GoesOn("statEvents", sess) /\ SameFiles
        \/ /\ Answer = "missing" /\ GoesOn("statEvents", sess)
           /\ rows' = 0 /\ filed' = 0 /\ UNCHANGED part
        \/ /\ Answer = "short" /\ SkipPart("sample") /\ GoesOn("statEvents", sess)
           /\ rows' = 0 /\ filed' = 0
        \/ Answer = "short" /\ part["sample"] = PartMax /\ Fails /\ SameFiles
  \/ /\ Answered("session", "statEvents")
     /\ \/ Answer = "taken" /\ FallsBack(FALSE)
        \/ Answer = "soft" /\ Fails /\ SameFiles
        \/ Answer \in {"ok", "missing"} /\ IsReady /\ SameFiles
        \/ Answer = "short" /\ SkipPart("event") /\ IsReady /\ UNCHANGED <<rows, filed>>
        \/ Answer = "short" /\ part["event"] = PartMax /\ Fails /\ SameFiles

SetupMarker ==
  \/ /\ Answered("session", "mark") /\ SameFiles
     /\ \/ Answer # "ok" /\ Fails /\ UNCHANGED mount
        \/ /\ Answer = "ok" /\ Ask(Rest, "session", "seal")
           /\ sess' = [sess EXCEPT !.stage = "seal"] /\ UNCHANGED mount
        \/ Answer = "ok" /\ Spend(1) /\ FailsOffline
  \/ /\ Answered("session", "seal") /\ SameFiles
     /\ \/ Answer = "ok" /\ IsReady /\ UNCHANGED mount
        \/ Answer # "ok" /\ FailsOffline /\ UNCHANGED upsets

SessionResult ==
  /\ \/ (SetupDirs \/ SetupResume) /\ UNCHANGED mount
     \/ SetupMarker
  /\ UNCHANGED <<queues, job, capped, off>>

-----------------------------------------------------------------------------
(* tick(): the results of the file job. *)

\* applyFileJobFailure: every record of the batch has failed once more.
FailBatch ==
  LET k == RingOf(job.dest) IN
  /\ ring' = [ring EXCEPT ![k] = Failed(@, job.batch, job.dest)]
  /\ dropped' = [dropped EXCEPT ![k] = @ + GivenUp(ring[k], job.batch, job.dest)]
  /\ job' = NoJob

ApplyFailure(rest, st) ==
  /\ FailBatch
  /\ IF st = "media" THEN Unmount(rest)
     ELSE sd' = Forget(rest, {"job"}) /\ UNCHANGED <<mount, session>>

\* The lines of job j that have been written.
Lines(j) == Ids(ring[RingOf(j.dest)], j.at)

\* failFileJob() with a file open: it is closed first, unless that is refused.
\* n requests have been refused so far.
FailHolding(n, rest, j, st) ==
  \/ /\ AskFor(Forget(rest, {"job"}), "job", "close", j.dest, Lines(j)) /\ Spend(n)
     /\ job' = [j EXCEPT !.op = "close", !.fail = st]
     /\ UNCHANGED <<queues, mount, session>>
  \/ Spend(n + 1) /\ ApplyFailure(rest, st)

\* Job j goes on with request o on its open file.
JobGoesOn(j, o) ==
  \/ /\ AskFor(Rest, "job", o, j.dest, IF o = "close" THEN Lines(j) ELSE {})
     /\ job' = [j EXCEPT !.op = o] /\ UNCHANGED <<queues, mount, session, upsets>>
  \/ FailHolding(1, Rest, j, "soft")

\* issueOpenForCurrentJob
Opens(j) ==
  \/ /\ AskFor(Rest, "job", "open", j.dest, {}) /\ UNCHANGED <<queues, upsets>>
     /\ job' = [j EXCEPT !.op = "open"]
  \/ Spend(1) /\ FailBatch /\ sd' = Rest

\* The session file is full.  Beyond the last part, or with no session named,
\* the stream is capped and the batch discarded.
RotateAll ==
  \/ /\ part["sample"] < PartMax /\ sess.named
     /\ part' = [part EXCEPT !["sample"] = @ + 1] /\ rows' = 0 /\ filed' = 0
     /\ Opens([job EXCEPT !.header = TRUE, !.here = TRUE])
     /\ UNCHANGED <<off, capped, sess>>
  \/ /\ part["sample"] = PartMax \/ ~sess.named
     /\ part' = [part EXCEPT !["sample"] = IF @ = PartMax THEN @ ELSE @ + 1]
     /\ capped' = TRUE
     /\ ring' = [ring EXCEPT !["sample"] = Discarded(@, job.batch, "all")]
     /\ off' = [off EXCEPT !["all"] = @ \cup Ids(ring["sample"], job.batch)]
     /\ job' = NoJob /\ sd' = Rest /\ UNCHANGED <<dropped, sess, rows, filed, upsets>>

RotateEvent ==
  /\ UNCHANGED <<off, capped, sess, rows, filed>>
  /\ \/ part["event"] = PartMax /\ FailBatch /\ sd' = Rest /\ UNCHANGED <<part, upsets>>
     \/ /\ part["event"] < PartMax /\ part' = [part EXCEPT !["event"] = @ + 1]
        /\ Opens([job EXCEPT !.header = TRUE])

StatResult ==
  /\ Answered("job", "stat")
  /\ \/ /\ Answer \in {"empty", "ok"} /\ Opens([job EXCEPT !.header = Answer = "empty"])
        /\ UNCHANGED <<mount, session, off>>
     \/ Answer = "full" /\ job.dest = "all" /\ RotateAll /\ UNCHANGED mount
     \/ Answer = "full" /\ job.dest = "event" /\ RotateEvent /\ UNCHANGED mount
     \/ Answer \in {"soft", "media"} /\ ApplyFailure(Rest, Answer) /\ UNCHANGED <<off, upsets>>

WriteResult ==
  /\ UNCHANGED off
  /\ \/ /\ Answered("job", "open")
        /\ IF Answer = "ok" THEN JobGoesOn(job, IF job.header THEN "header" ELSE "line")
           ELSE ApplyFailure(Rest, Answer) /\ UNCHANGED upsets
     \/ /\ Answered("job", "header")
        /\ IF Answer = "ok" THEN JobGoesOn(job, "line") ELSE FailHolding(0, Rest, job, Answer)
     \/ /\ Answered("job", "line")
        /\ IF Answer = "ok"
           THEN JobGoesOn([job EXCEPT !.at = @ + 1],
                          IF job.at + 1 < job.batch THEN "line" ELSE "close")
           ELSE FailHolding(0, Rest, job, Answer)

\* Fault: a job that failed before it was closed counts as written.
FailedAs_Written == "none"

\* How the job ends, now that its file is closed.
FailedAs ==
  IF job.fail # "none" THEN job.fail ELSE IF Answer = "ok" THEN "none" ELSE Answer

\* WAIT_CLOSE and completeFileJobSuccess
CloseResult ==
  /\ Answered("job", "close") /\ UNCHANGED <<off, upsets>>
  /\ \/ FailedAs # "none" /\ ApplyFailure(Rest, FailedAs)
     \/ /\ FailedAs = "none"
        /\ ring' = [ring EXCEPT ![RingOf(job.dest)] = Written(@, job.batch, job.dest)]
        /\ rows' = IF job.dest = "all" THEN rows + job.batch ELSE rows
        /\ filed' = IF job.dest = "all" /\ job.here THEN filed + job.batch ELSE filed
        /\ job' = NoJob /\ sd' = Rest /\ UNCHANGED <<dropped, mount, sess, part, capped>>

Result ==
  \/ Ignore \/ MountResult \/ InfoResult \/ SessionResult
  \/ StatResult \/ WriteResult \/ CloseResult

-----------------------------------------------------------------------------
(* tick(): the rest. *)

Fixed == UNCHANGED <<cfg, alive, handles, disk, card, offers, changes, drained>>

\* The results end where there are no more, or with the tick's limits; then the
\* library may report the card gone.
Status ==
  /\ pc = "drain" /\ (sd # <<>> /\ ~drained => Head(sd).res = "todo") /\ pc' = "deadline"
  /\ \/ UNCHANGED <<mount, session, sd, job, upsets>>
     \/ mounted /\ LibraryFault /\ Unmount(sd) /\ job' = NoJob
     \/ /\ ~mounted /\ LibraryFault /\ wants' = wants \cup {"teardown"} /\ started' = FALSE
        /\ UNCHANGED <<mounted, stage, session, sd, job>>
  /\ drained' = FALSE
  /\ UNCHANGED <<cfg, queues, alive, handles, disk, card, offers, off, changes>>

\* A job that has taken too long fails, whatever it waits for.
Deadline ==
  /\ pc = "deadline" /\ pc' = "info"
  /\ \/ ~job.late /\ UNCHANGED <<queues, mount, session, sd, job, upsets>>
     \/ job.late /\ job.op \in {"header", "line"} /\ FailHolding(0, sd, job, "soft")
     \/ /\ job.late /\ job.op \in {"stat", "open", "close"} /\ ApplyFailure(sd, "soft")
        /\ UNCHANGED upsets
  /\ Fixed /\ UNCHANGED off

\* The figures asked for may be overdue; new ones may be due.
Info ==
  /\ pc = "info" /\ pc' = "tail"
  /\ \E lost \in BOOLEAN :
       LET rest == IF lost THEN Forget(sd, {"info"}) ELSE sd IN
       /\ lost => InfoAsked
       /\ Spend(IF lost THEN 1 ELSE 0)
       /\ \/ sd' = rest
          \/ /\ mounted /\ started /\ stage = "ready" /\ (InfoAsked => lost) /\ job = NoJob
             /\ AskFor(rest, "info", "info", "none", {})
  /\ Fixed /\ UNCHANGED <<queues, mount, session, job, off>>

\* Not mounted: a mount in progress has its time, then the next is asked for.
WaitForMount ==
  /\ pc = "tail" /\ ~mounted /\ pc' = "deferred"
  /\ Fixed /\ UNCHANGED <<queues, mount, session, sd, job, off, upsets>>

MountDue ==
  /\ pc = "tail" /\ ~mounted /\ pc' = "deferred"
  /\ Spend(IF stage # "idle" /\ started THEN 1 ELSE 0)
  /\ stage' = "idle" /\ sd' = Forget(sd, {"mount"}) /\ wants' = wants \cup {"mount"}
  /\ Fixed /\ UNCHANGED <<queues, mounted, started, session, job, off>>

\* ensureAllSessionReady
EnsureSession ==
  /\ pc = "tail" /\ mounted /\ pc' = "start"
  /\ IF "all" \in cfg /\ ~sess.ready /\ started /\ sess.stage = "idle" /\ ~sess.wait
     THEN \/ Ask(sd, "session", "runs") /\ sess' = [sess EXCEPT !.stage = "runs"]
          \/ Refused(sd) /\ sess' = [sess EXCEPT !.wait = TRUE]
     ELSE UNCHANGED <<sess, sd, upsets>>
  /\ Fixed /\ UNCHANGED <<queues, mount, part, capped, rows, filed, job, off>>

\* startFileJob
Starts(d) ==
  \/ /\ \E n \in Batches(ring'[RingOf(d)], d) :
          job' = [NoJob EXCEPT !.dest = d, !.op = "stat", !.batch = n]
     /\ AskFor(sd, "job", "stat", d, {}) /\ UNCHANGED upsets
  \/ Refused(sd) /\ UNCHANGED job

Switched == ({"daily", "all"} \ cfg) \cup (IF capped THEN {"all"} ELSE {})

SampleDue == ring["sample"] # <<>> /\ ~ring["sample"][1].wait
EventDue  == ring["event"] # <<>> /\ ~ring["event"][1].wait

\* The first sample without what has been switched off since it was taken.
Swept == ring["sample"][1].pend \ Switched

Sweep(samples) ==
  /\ ring' = [ring EXCEPT !["sample"] = samples]
  /\ off' = [d \in Dests |->
               IF SampleDue /\ d \in ring["sample"][1].pend \cap Switched
               THEN off[d] \cup {ring["sample"][1].id} ELSE off[d]]

StartDaily == SampleDue /\ "daily" \in Swept /\ UNCHANGED <<ring, off>> /\ Starts("daily")

\* Without a session the tick ends here, and the events are not looked at.
StartAll ==
  /\ SampleDue /\ Swept = {"all"} /\ Sweep([ring["sample"] EXCEPT ![1].pend = Swept])
  /\ IF sess.ready THEN Starts("all") ELSE UNCHANGED <<sd, job, upsets>>

\* The sample just swept may have used up the tick's time.
StartEvent ==
  /\ SampleDue => Swept = {}
  /\ Sweep(IF SampleDue THEN Tail(ring["sample"]) ELSE ring["sample"])
  /\ \/ EventDue /\ Starts("event")
     \/ (EventDue => SampleDue) /\ UNCHANGED <<sd, job, upsets>>

\* Fault: a job is started while another is in progress.
JobFree_Always == TRUE
JobFree == job = NoJob

StartJob ==
  /\ pc = "start" /\ pc' = "deferred" /\ stage = "ready" /\ JobFree
  /\ StartDaily \/ StartAll \/ StartEvent
  /\ Fixed /\ UNCHANGED <<dropped, mount, session>>

\* Nothing to do, no flush due, or the tick's time is up.
NoStart ==
  /\ pc = "start" /\ pc' = "deferred"
  /\ Fixed /\ UNCHANGED <<queues, mount, session, sd, job, off, upsets>>

-----------------------------------------------------------------------------
(* processDeferred(): one blocking step per round. *)

Deferring ==
  /\ pc = "deferred" /\ pc' = "idle"
  /\ UNCHANGED <<drained, cfg, queues, disk, card, offers, off, changes>>

NothingDeferred ==
  Deferring /\ wants = {} /\ UNCHANGED <<job, mount, session, alive, sd, handles, upsets>>

\* end()
End == alive' = FALSE /\ sd' = <<>> /\ handles' = 0 /\ started' = FALSE

Teardown ==
  /\ Deferring /\ "teardown" \in wants /\ wants' = wants \ {"teardown"} /\ End
  /\ UNCHANGED <<job, mounted, stage, session, upsets>>

\* A remount or a mount while the library runs: it is ended first.
EndToMount ==
  /\ Deferring /\ wants # {} /\ "teardown" \notin wants /\ started
  /\ End /\ wants' = {"mount"}
  /\ UNCHANGED <<job, mounted, stage, session, upsets>>

\* mount()
Mount ==
  /\ Deferring /\ wants # {} /\ "teardown" \notin wants /\ ~started
  /\ mounted' = FALSE /\ UNCHANGED <<part, capped, rows, filed>>
  /\ \/ /\ ~CardSeen /\ job' = NoJob /\ stage' = "idle" /\ wants' = {}
        /\ sd' = Forget(sd, {"mount", "info", "session"})
        /\ UNCHANGED <<started, sess, alive, handles, upsets>>
     \/ /\ CardSeen /\ LibraryFault /\ End /\ wants' = {}
        /\ UNCHANGED <<job, stage, sess>>
     \/ /\ CardSeen /\ alive' = TRUE /\ handles' = 0 /\ job' = NoJob
        /\ sess' = [sess EXCEPT !.ready = FALSE, !.stage = "idle"]
        /\ \/ /\ Ask(<<>>, "mount", "mount")
              /\ stage' = "mount" /\ started' = TRUE /\ wants' = {}
           \/ /\ Refused(<<>>)
              /\ stage' = "idle" /\ started' = FALSE /\ wants' = {"teardown"}

Deferred == NothingDeferred \/ Teardown \/ EndToMount \/ Mount

Tick ==
  \/ BeginTick \/ Result \/ Status \/ Deadline \/ Info \/ WaitForMount \/ MountDue
  \/ EnsureSession \/ StartJob \/ NoStart

-----------------------------------------------------------------------------
(* The worker, the card and time. *)

\* What request r may answer: as a rule, with trouble, and with the card out.
Usual(r) ==
  CASE r.op = "stat" -> {"empty", "ok"} \cup (IF r.dest = "daily" THEN {} ELSE {"full"})
    [] r.op \in {"list", "statData", "statEvents"} -> {"ok", "missing"}
    [] OTHER -> {"ok"}

Trouble(r) ==
  {"soft"} \cup
  CASE r.op \in JobOps \cup {"info"} -> {"media"}
    [] r.op = "dir" -> {"exists"}
    [] r.op = "verify" -> {"missing", "taken"}
    [] r.op \in {"statData", "statEvents"} -> {"taken", "short"}
    [] OTHER -> {}

\* A failed mkdir or stat may count as a success (IoError).
CardOut(r) ==
  {"soft"} \cup
  CASE r.op = "stat" -> {"media", "empty"}
    [] r.op \in JobOps \cup {"info"} -> {"media"}
    [] r.op \in {"logs", "days", "runs"} -> {"ok"}
    [] r.op = "dir" -> {"exists"}
    [] r.op \in {"statData", "statEvents"} -> {"missing"}
    [] OTHER -> {}

\* The worker serves the first request not served yet.
Work ==
  \E i \in DOMAIN sd :
    LET r == sd[i]
        open  == r.op \in {"open", "mark"}
        shut  == r.op \in {"close", "seal"}
        none  == open /\ handles = MaxOpen
    IN
    /\ alive /\ r.res = "todo" /\ \A j \in 1..(i - 1) : sd[j].res # "todo"
    /\ \E a \in Outcomes :
         /\ \/ none /\ a = "soft" /\ UNCHANGED upsets
            \/ ~none /\ card /\ a \in Usual(r) /\ UNCHANGED upsets
            \/ ~none /\ card /\ a \in Trouble(r) /\ Spend(1)
            \/ ~none /\ ~card /\ a \in CardOut(r) /\ UNCHANGED upsets
         /\ sd' = [sd EXCEPT ![i].res = a]
         /\ handles' = IF open /\ a = "ok" THEN handles + 1
                       ELSE IF shut THEN handles - 1 ELSE handles
         /\ disk' = IF r.op = "close" /\ a = "ok"
                    THEN [disk EXCEPT ![r.dest] = @ \cup r.ids] ELSE disk
    /\ UNCHANGED <<loop, cfg, queues, job, mount, session, alive, card, offers, off, changes>>

Aside == UNCHANGED <<loop, cfg, queues, mount, library, offers, off, changes, part, capped,
                     rows, filed>>

RemoveCard == card /\ card' = FALSE /\ Spend(1) /\ Aside /\ UNCHANGED <<job, sess>>
InsertCard == ~card /\ card' = TRUE /\ Aside /\ UNCHANGED <<job, sess, upsets>>

\* Ten seconds go by with a job in progress.
Late ==
  /\ pc = "idle" /\ job # NoJob /\ ~job.late /\ Spend(1)
  /\ job' = [job EXCEPT !.late = TRUE] /\ Aside /\ UNCHANGED <<card, sess>>

SessionBackoffEnds ==
  /\ pc = "idle" /\ sess.wait /\ sess' = [sess EXCEPT !.wait = FALSE]
  /\ Aside /\ UNCHANGED <<card, job, upsets>>

RecordBackoffEnds ==
  /\ pc = "idle"
  /\ \E k \in Rings : \E i \in DOMAIN ring[k] :
       ring[k][i].wait /\ ring' = [ring EXCEPT ![k][i].wait = FALSE]
  /\ UNCHANGED <<loop, cfg, dropped, job, mount, session, library, card, offers, off,
                 changes, upsets>>

Application ==
  \/ LogSample \/ LogEvent \/ Remount \/ Probe
  \/ \E new \in Settings, renamed, bigger \in BOOLEAN : ApplySettings(new, renamed, bigger)

Next ==
  \/ Application \/ Tick \/ Deferred \/ Work
  \/ RemoveCard \/ InsertCard \/ Late \/ SessionBackoffEnds \/ RecordBackoffEnds

Spec == Init /\ [][Next]_vars

-----------------------------------------------------------------------------
(* Fairness: the main loop runs, the worker serves, backoffs end, and a due    *)
(* mount or flush is not put off for ever.                                     *)

RunsMainLoop == WF_vars(Tick) /\ WF_vars(Deferred)
RunsWorker   == WF_vars(Work)
RunsClock    == SF_vars(SessionBackoffEnds) /\ SF_vars(RecordBackoffEnds)
RunsTimers   == SF_vars(MountDue) /\ SF_vars(StartJob)

FairSpec == Spec /\ RunsMainLoop /\ RunsWorker /\ RunsClock /\ RunsTimers

-----------------------------------------------------------------------------
(* Properties. *)

\* Records accepted for d that are neither pending, nor in a closed file, nor
\* given up because the stream was switched off or capped.
Lost(d) == ((wanted[d] \ Pending(ring[RingOf(d)], d)) \ disk[d]) \ off[d]

Accepted(k) == UNION {wanted[d] : d \in {e \in Dests : RingOf(e) = k}}

\* Every record that was accepted and did not reach its files is in the count of
\* dropped records (completeFileJobSuccess, applyFileJobFailure, the two pops).
NothingLost ==
  /\ Cardinality(Lost("daily")) + Cardinality(Lost("all"))
       + (offered["sample"] - Cardinality(Accepted("sample"))) <= dropped["sample"]
  /\ Cardinality(Lost("event"))
       + (offered["event"] - Cardinality(Accepted("event"))) <= dropped["event"]

\* The lines a job points at stay in the ring while it runs: they are its first
\* records, all still pending for the job's destination (_job.lines, queueIndex).
JobHoldsHead ==
  job # NoJob =>
    /\ job.batch \in 1..Len(ring[RingOf(job.dest)])
    /\ \A i \in 1..job.batch : job.dest \in ring[RingOf(job.dest)][i].pend

\* While the logger says that a card is mounted, the library runs and is not
\* about to be torn down (isMounted, _sdStarted, _deferredTeardown).
MountAgrees == mounted => started /\ alive /\ stage = "ready" /\ "teardown" \notin wants

\* A worker task runs only if the logger polls it or is about to end it, so that
\* begin() never finds one left over (markUnmounted, processDeferred).
WorkerAccounted == alive <=> started \/ "teardown" \in wants

\* A job in progress on a mounted card waits for a request the library holds;
\* it is never left with an id that nothing answers (_job.requestId).
JobHasRequest ==
  job # NoJob /\ mounted =>
    Cardinality({i \in DOMAIN sd : sd[i].for = "job"}) = 1
    /\ \E i \in DOMAIN sd : sd[i].for = "job" /\ sd[i].op = job.op

\* If the card stays in from some time on, every record leaves its ring, written
\* or dropped after its retries.
EveryRecordLeaves ==
  <>[]card =>
    \A k \in Rings : \A id \in 1..MaxOffers[k] :
      []<>(id \notin Ids(ring[k], Len(ring[k])))

\* Health.h: the count of lines is of those in the active sample file.
RowsInActiveFile == rows <= filed
=============================================================================
