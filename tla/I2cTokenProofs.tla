----------------------------- MODULE I2cTokenProofs -----------------------------
(***************************************************************************)
(* What matching results by token promises, once the orchestrator's        *)
(* counter has passed every token of the task's own counter                *)
(* (MaxApply <= TokenBase; the run TokenAlias shows what happens before).  *)
(***************************************************************************)
EXTENDS I2cPipelineProofs, FiniteSetTheorems

Items == ToSet(reqQ) \cup current \cup ToSet(resQ)

\* Every token that one of the orchestrator's clients or its items carries was taken
\* from its counter before, so the next one is carried by none of them.
TokensIssued ==
  /\ \A k \in Tracked : active[k] < nextToken
  /\ \A x \in Items : x.kind # "setFreq" => x.token < nextToken

\* Tokens of the orchestrator and of the task lie apart, and an item that carries
\* a client's active token is that client's.
TokenInv ==
  /\ \A k \in Tracked : active[k] # 0 => active[k] > TokenBase
  /\ \A x \in Items : x.kind = "setFreq" => x.token <= TokenBase
  /\ \A x \in Items : \A k \in Tracked : active[k] # 0 /\ active[k] = x.token => x.kind = k
  /\ \A j, k \in Tracked : active[j] # 0 /\ active[j] = active[k] => j = k

\* The raw operation in flight is in one place at most: waiting, executing or
\* answered.  The bus has said nothing of it before it is answered, and its answer
\* is what the bus said, or that time is up.
RunOnce ==
  active["raw"] # 0 =>
    /\ \A i \in DOMAIN reqQ : reqQ[i].token = active["raw"] =>
          /\ ranRaw = "none"
          /\ \A j \in DOMAIN reqQ : reqQ[j].token = active["raw"] => i = j
    /\ \A q \in current : q.token = active["raw"] =>
          /\ ranRaw = "none"
          /\ \A i \in DOMAIN reqQ : reqQ[i].token # active["raw"]
    /\ \A i \in DOMAIN resQ : resQ[i].token = active["raw"] =>
          /\ \A q \in current : q.token # active["raw"]
          /\ \A j \in DOMAIN reqQ : reqQ[j].token # active["raw"]
          /\ resQ[i].status \in {"timeout", ranRaw}

-----------------------------------------------------------------------------
(* Queues as sets of items. *)

\* An item of a queue's tail is an item of the queue, and so is its head.
LEMMA ToSetTail ==
  ASSUME NEW S, NEW q \in Seq(S), q # <<>>
  PROVE  Head(q) \in ToSet(q) /\ ToSet(Tail(q)) \subseteq ToSet(q)
<1>1. Head(q) = q[1] /\ 1 \in DOMAIN q
  OBVIOUS
<1>2. \A i \in DOMAIN Tail(q) : Tail(q)[i] = q[i + 1] /\ i + 1 \in DOMAIN q
  OBVIOUS
<1> QED BY <1>1, <1>2 DEF ToSet

\* Appending adds one item.
LEMMA ToSetAppend ==
  ASSUME NEW S, NEW q \in Seq(S), NEW e \in S
  PROVE  \A x \in ToSet(Append(q, e)) : x \in ToSet(q) \/ x = e
<1>1. \A i \in DOMAIN Append(q, e) :
         Append(q, e)[i] = e \/ (i \in DOMAIN q /\ Append(q, e)[i] = q[i])
  OBVIOUS
<1> QED BY <1>1 DEF ToSet

\* The next token belongs to no client in flight and to no item but SET_FREQ's.
LEMMA FreshIsFree ==
  ASSUME TypeOK, TokensIssued
  PROVE  /\ \A k \in Tracked : active[k] # nextToken
         /\ \A x \in Items : x.kind # "setFreq" => x.token # nextToken
<1>1. nextToken \in Nat
  BY DEF TypeOK, LoopType
<1> QED BY <1>1 DEF TokensIssued

-----------------------------------------------------------------------------
(* TokenInv is inductive. *)

\* A step that only moves items and ends requests keeps tokens apart.
LEMMA TokensMove ==
  ASSUME TokenInv,
         \A k \in Tracked : active'[k] = 0 \/ active'[k] = active[k],
         \A x \in Items' : \E y \in Items : y.kind = x.kind /\ y.token = x.token
  PROVE  TokenInv'
<1>1. \A k \in Tracked : active'[k] # 0 => active'[k] > TokenBase
  BY DEF TokenInv
<1>2. \A x \in Items' : x.kind = "setFreq" => x.token <= TokenBase
  BY DEF TokenInv
<1>3. \A x \in Items' : \A k \in Tracked :
        active'[k] # 0 /\ active'[k] = x.token => x.kind = k
  BY DEF TokenInv
<1>4. \A j, k \in Tracked : active'[j] # 0 /\ active'[j] = active'[k] => j = k
  BY DEF TokenInv
<1> QED BY <1>1, <1>2, <1>3, <1>4 DEF TokenInv

\* A queued result is the only new item of the result queue.
LEMMA QueueResultItems ==
  ASSUME TypeOK, NEW res \in Result, QueueResult(res)
  PROVE  \A x \in ToSet(resQ') : x \in ToSet(resQ) \/ x = res
<1>1. resQ \in Seq(Result)
  BY DEF TypeOK, QueueType
<1>2. \A x \in ToSet(Append(resQ, res)) : x \in ToSet(resQ) \/ x = res
  BY <1>1, ToSetAppend
<1> QED BY <1>2 DEF QueueResult

\* What the task queues carries the request's kind and token, and the bus's word
\* unless that comes too late; what it read is what the chip held.
LEMMA CompleteFacts ==
  ASSUME TypeOK, Complete
  PROVE  \E q \in current : \E st \in Outcomes(q.kind) : \E res \in Result :
           /\ QueueResult(res) /\ res.kind = q.kind /\ res.token = q.token
           /\ res.val = IF q.kind = "rtcRead" THEN chip ELSE q.val
           /\ res.status \in {"timeout", st} /\ st \in Status /\ st # "timeout"
           /\ current' = {} /\ chip' \in ChipAfter(q, st)
           /\ UNCHANGED <<active, reqQ, pending, raw, scan, rtcVars>>
           /\ ranRaw' = IF q.kind = "raw" /\ q.token = active["raw"] THEN st ELSE ranRaw
           /\ acked' = IF q.kind = "scan" /\ q.token = active["scan"] /\ st = "ok"
                       THEN acked \cup {q.val} ELSE acked
           /\ chipTimes' = chipTimes \cup {chip'} /\ nextToken' = nextToken
<1>1. PICK q \in current : \E st \in Outcomes(q.kind) : Completes(q, st)
  BY DEF Complete
<1>2. PICK st \in Outcomes(q.kind) : Completes(q, st)
  BY <1>1
<1> DEFINE late == KeyOf(q) \in expired
           v    == IF q.kind = "rtcRead" THEN chip ELSE q.val
           s    == IF late /\ st = "ok" THEN "timeout" ELSE st
           res  == [kind |-> q.kind, token |-> q.token, val |-> v, status |-> s, late |-> late]
<1>3. q \in Request /\ st \in Status /\ st # "timeout"
  BY DEF TypeOK, QueueType, Outcomes, Status
<1>4. v \in Nat /\ s \in Status /\ late \in BOOLEAN
  BY <1>3 DEF Request, Status, TypeOK, BusType
<1>5. s \in {"timeout", st}
  OBVIOUS
<1>6. QueueResult(res)
  BY <1>2 DEF Completes
<1>7. /\ current' = {} /\ chip' \in ChipAfter(q, st)
      /\ UNCHANGED <<active, reqQ, pending, raw, scan, rtcVars>>
      /\ ranRaw' = IF q.kind = "raw" /\ q.token = active["raw"] THEN st ELSE ranRaw
      /\ acked' = IF q.kind = "scan" /\ q.token = active["scan"] /\ st = "ok"
                  THEN acked \cup {q.val} ELSE acked
      /\ chipTimes' = chipTimes \cup {chip'} /\ nextToken' = nextToken
  BY <1>2 DEF Completes, snapshots, loopVars
<1>8. v = IF q.kind = "rtcRead" THEN chip ELSE q.val
  OBVIOUS
<1> HIDE DEF late, v, s
<1>9. /\ res \in Result
      /\ res.kind = q.kind /\ res.token = q.token /\ res.val = v /\ res.status = s
  BY <1>3, <1>4 DEF Request, Result
<1> HIDE DEF res
<1> QED BY <1>3, <1>5, <1>6, <1>7, <1>8, <1>9

\* Expired at the head of the request queue: answered without being executed.
LEMMA FetchExpiredFacts ==
  ASSUME TypeOK, FetchExpired
  PROVE  /\ Head(reqQ) \in Request /\ Head(reqQ) \in ToSet(reqQ)
         /\ ToSet(Tail(reqQ)) \subseteq ToSet(reqQ)
         /\ \E res \in Result : /\ QueueResult(res) /\ res.status = "timeout"
                               /\ res.kind = Head(reqQ).kind /\ res.token = Head(reqQ).token
<1>1. reqQ \in Seq(Request) /\ reqQ # <<>>
  BY DEF FetchExpired, TypeOK, QueueType
<1>2. Head(reqQ) \in Request /\ Head(reqQ) \in ToSet(reqQ)
      /\ ToSet(Tail(reqQ)) \subseteq ToSet(reqQ)
  BY <1>1, QueueTail, ToSetTail
<1> DEFINE res == [kind |-> Head(reqQ).kind, token |-> Head(reqQ).token,
                   val |-> 0, status |-> "timeout", late |-> TRUE]
<1>3. res \in Result
  BY <1>2 DEF Request, Result, Status
<1>4. QueueResult(res)
  BY DEF FetchExpired
<1>5. /\ res.status = "timeout" /\ res.kind = Head(reqQ).kind
      /\ res.token = Head(reqQ).token
  OBVIOUS
<1> HIDE DEF res
<1> QED BY <1>2, <1>3, <1>4, <1>5

\* Settling only ends requests.
LEMMA SettleEnds ==
  ASSUME NEW K, NEW st, NEW val, Settle(K, st, val)
  PROVE  \A k \in Tracked : active'[k] = 0 \/ active'[k] = active[k]
  BY DEF Settle

\* A step that takes no token and brings no item of its own.
Quiet ==
  \/ QueueRaw \/ QueueRtcSet \/ QueueBusRecover \/ QueueBusScan
  \/ ProcessResult \/ ProcessLateResult \/ HandleExpiredInFlight
  \/ EndTick \/ Task \/ PassDeadline \/ UNCHANGED vars

\* Such a step moves items from place to place and ends requests.
LEMMA QuietMoves ==
  ASSUME TypeOK, Quiet
  PROVE  /\ nextToken' = nextToken
         /\ \A k \in Tracked : active'[k] = 0 \/ active'[k] = active[k]
         /\ \A x \in Items' : \E y \in Items : y.kind = x.kind /\ y.token = x.token
<1> USE DEF taskVars, settings, history, loopVars
<1>0. CASE QueueRaw \/ QueueRtcSet \/ QueueBusRecover \/ QueueBusScan
  <2>1. Items' = Items /\ active' = active /\ nextToken' = nextToken
    BY <1>0 DEF QueueRaw, QueueRtcSet, QueueBusRecover, QueueBusScan, Items
  <2> QED BY <2>1
<1>1. ASSUME TakesResult, Drained PROVE Items' \subseteq Items /\ nextToken' = nextToken
  <2>1. resQ \in Seq(Result) /\ resQ # <<>>
    BY <1>1 DEF TypeOK, QueueType, TakesResult
  <2>2. ToSet(Tail(resQ)) \subseteq ToSet(resQ)
    BY <2>1, ToSetTail
  <2> QED BY <1>1, <2>2 DEF Drained, Items
<1>2. CASE ProcessResult
  BY <1>1, <1>2, SettleEnds DEF ProcessResult
<1>3. CASE ProcessLateResult
  BY <1>1, <1>3, SettleEnds DEF ProcessLateResult
<1>4. CASE HandleExpiredInFlight
  <2>1. Items' = Items
    BY <1>4 DEF HandleExpiredInFlight, Items
  <2> QED BY <1>4, <2>1, SettleEnds DEF HandleExpiredInFlight
<1>5. CASE EndTick
  <2>1. Items' = Items /\ active' = active /\ nextToken' = nextToken
    BY <1>5 DEF EndTick, Items
  <2> QED BY <2>1
<1>6. CASE PassDeadline
  <2>1. Items' = Items /\ active' = active /\ nextToken' = nextToken
    BY <1>6 DEF PassDeadline, PassDeadlineOf, Items
  <2> QED BY <2>1
<1>7. CASE UNCHANGED vars
  <2>1. Items' = Items /\ active' = active /\ nextToken' = nextToken
    BY <1>7 DEF vars, Items
  <2> QED BY <2>1
<1>8. CASE FetchExpired
  <2>1. reqQ' = Tail(reqQ) /\ UNCHANGED <<current, active, nextToken>>
    BY <1>8 DEF FetchExpired
  <2>2. \A x \in Items' : \E y \in Items : y.kind = x.kind /\ y.token = x.token
    BY <1>8, <2>1, FetchExpiredFacts, QueueResultItems DEF Items
  <2> QED BY <2>1, <2>2
<1>9. CASE Fetch
  <2>1. reqQ \in Seq(Request) /\ reqQ # <<>>
    BY <1>9 DEF TypeOK, QueueType, Fetch
  <2>2. Items' \subseteq Items
    BY <1>9, <2>1, ToSetTail DEF Fetch, Items
  <2> QED BY <1>9, <2>2 DEF Fetch
<1>10. CASE Complete
  <2>1. active' = active /\ reqQ' = reqQ /\ current' = {} /\ nextToken' = nextToken
    BY <1>10, CompleteFacts
  <2>2. \A x \in Items' : \E y \in Items : y.kind = x.kind /\ y.token = x.token
    BY <1>10, <2>1, CompleteFacts, QueueResultItems DEF Items
  <2> QED BY <2>1, <2>2
<1> QED BY <1>0, <1>2, <1>3, <1>4, <1>5, <1>6, <1>7, <1>8, <1>9, <1>10 DEF Task, Quiet

\* What is still used stays behind the counter.
LEMMA IssuedQuiet == TypeOK /\ TokensIssued /\ Quiet => TokensIssued'
<1> SUFFICES ASSUME TypeOK, TokensIssued, Quiet PROVE TokensIssued'
  OBVIOUS
<1>1. nextToken \in Nat /\ nextToken > 0
  BY PipelineAssumption DEF TypeOK, LoopType
<1> QED BY <1>1, QuietMoves DEF TokensIssued

\* Such a step keeps tokens apart.
LEMMA TokenQuiet == TypeOK /\ TokenInv /\ Quiet => TokenInv'
  BY QuietMoves, TokensMove

\* Where the request of a settings change goes: it joins the request queue, if that
\* is not full.
LEMMA SettingsFacts ==
  ASSUME TypeOK, ApplySettings, NEW f,
         f = [kind |-> "setFreq", token |-> cfg + 1, val |-> 0]
  PROVE  /\ f \in Request /\ f.kind = "setFreq" /\ f.token <= MaxApply
         /\ \A x \in Items' : x \in Items \/ x = f
         /\ UNCHANGED <<active, nextToken>>
<1>1. reqQ \in Seq(Request) /\ f \in Request /\ f.kind = "setFreq" /\ f.token <= MaxApply
  BY PipelineAssumption
  DEF ApplySettings, TypeOK, QueueType, SensorType, Request, Kinds
<1>2. reqQ' = Append(reqQ, f) \/ reqQ' = reqQ
  BY DEF ApplySettings
<1>3. \A x \in Items' : x \in Items \/ x = f
  BY <1>1, <1>2, ToSetAppend DEF ApplySettings, Items, taskVars
<1> QED BY <1>1, <1>3 DEF ApplySettings, loopVars

\* SET_FREQ brings its own, low, token.
LEMMA TokenSettings ==
  ASSUME MaxApply <= TokenBase, TypeOK, TokenInv, ApplySettings
  PROVE  TokenInv'
<1>0. PICK f : f = [kind |-> "setFreq", token |-> cfg + 1, val |-> 0]
  OBVIOUS
<1>1. /\ f \in Request /\ f.kind = "setFreq" /\ f.token <= TokenBase
      /\ \A x \in Items' : x \in Items \/ x = f
      /\ active' = active
  BY <1>0, SettingsFacts, PipelineAssumption DEF Request
<1>2. \A k \in Tracked : active[k] \in Nat /\ (active[k] # 0 => active[k] > TokenBase)
  BY DEF TypeOK, ClientType, TokenInv
<1>3. \A x \in Items' : x.kind = "setFreq" => x.token <= TokenBase
  BY <1>1 DEF TokenInv
<1>4. f.token \in Nat /\ \A k \in Tracked : active[k] # 0 => active[k] # f.token
  BY <1>1, <1>2, PipelineAssumption DEF Request
<1>5. \A x \in Items' : \A k \in Tracked :
        active'[k] # 0 /\ active'[k] = x.token => x.kind = k
  BY <1>1, <1>4 DEF TokenInv
<1> QED BY <1>1, <1>2, <1>3, <1>5 DEF TokenInv

\* What a slot asks for, client by client: a command it was given, the time that is
\* to be set, the address the scan has come to.
Asks(k, v) ==
  /\ k = "raw" => "raw" \in pending
  /\ k = "rtcSet" => v = rtcSetPendingValue
  /\ k = "scan" => ScheduleScan /\ v = scan'.addr /\ scan' = ScanStarted

\* What a slot does to tokens: it takes the next one, for a request of its client that
\* is queued last, or for nothing.
LEMMA ScheduleFacts ==
  ASSUME TypeOK, Schedule
  PROVE  /\ UNCHANGED <<current, resQ, ranRaw, chipTimes>>
         /\ nextToken' = TokenAfter(nextToken)
         /\ \/ UNCHANGED <<reqQ, active>>
            \/ \E k \in Clients : \E v \in Nat :
                 /\ Asks(k, v)
                 /\ reqQ' = Append(reqQ, [kind |-> k, token |-> nextToken, val |-> v])
                 /\ active' = IF k \in Tracked THEN [active EXCEPT ![k] = nextToken] ELSE active
<1>1. rtcSetPendingValue \in Nat /\ envAddr \in Nat /\ ScanStarted.addr \in Nat /\ 0 \in Nat
  BY PipelineAssumption DEF TypeOK, SensorType, SnapshotType, ScanStarted
<1>2. UNCHANGED <<current, resQ, ranRaw, chipTimes>>
  BY DEF Schedule, ScheduleRecover, ScheduleRaw, ScheduleRtcSet, ScheduleEnvRead,
     ScheduleRtcRead, ScheduleEnvTrigger, ScheduleDisplay, ScheduleScan, Turn, taskVars, history
<1>3. ScheduleRaw => "raw" \in pending
  BY TurnFacts DEF ScheduleRaw, Eligible, Clients
<1>4. QueueFull \/ \E k \in Clients, v \in Nat : Send(k, v) /\ Asks(k, v)
  BY <1>1, <1>3 DEF Schedule, ScheduleRecover, ScheduleRaw, ScheduleRtcSet, ScheduleEnvRead,
     ScheduleRtcRead, ScheduleEnvTrigger, ScheduleDisplay, ScheduleScan, Clients, Asks
<1>5. nextToken' = TokenAfter(nextToken)
  BY <1>4 DEF QueueFull, Send
<1> QED BY <1>2, <1>4, <1>5 DEF QueueFull, Send

\* A slot adds at most one token, and nothing else carries it.
LEMMA TokenSchedule ==
  ASSUME TypeOK, TokensIssued, TokenInv, Schedule
  PROVE  TokenInv'
<1>1. CASE UNCHANGED <<reqQ, active>>
  <2>1. Items' = Items
    BY <1>1, ScheduleFacts DEF Items
  <2> QED BY <1>1, <2>1, TokensMove
<1>2. CASE \E k \in Clients : \E v \in Nat :
             /\ reqQ' = Append(reqQ, [kind |-> k, token |-> nextToken, val |-> v])
             /\ active' = IF k \in Tracked THEN [active EXCEPT ![k] = nextToken] ELSE active
  <2>1. PICK k \in Clients, v \in Nat :
          /\ reqQ' = Append(reqQ, [kind |-> k, token |-> nextToken, val |-> v])
          /\ active' = IF k \in Tracked THEN [active EXCEPT ![k] = nextToken] ELSE active
    BY <1>2
  <2>0. PICK e : e = [kind |-> k, token |-> nextToken, val |-> v]
    OBVIOUS
  <2>2. nextToken \in Nat \ {0} /\ nextToken > TokenBase
    BY NextTokenFacts DEF TypeOK
  <2>3. k # "setFreq"
    BY DEF Clients
  <2>4. e \in Request /\ e.kind = k /\ e.token = nextToken
    BY <2>0, <2>2 DEF Request, Kinds
  <2>5. reqQ' = Append(reqQ, e)
    BY <2>0, <2>1
  <2>6. \A x \in Items' : x \in Items \/ x = e
    BY <2>4, <2>5, ToSetAppend, ScheduleFacts DEF Items, TypeOK, QueueType
  <2>7. \A j \in Tracked : active'[j] = IF j = k THEN nextToken ELSE active[j]
    BY <2>1 DEF TypeOK, ClientType
  <2>8. \A j \in Tracked : active'[j] # 0 => active'[j] > TokenBase
    BY <2>2, <2>7 DEF TokenInv
  <2>9. \A x \in Items' : x.kind = "setFreq" => x.token <= TokenBase
    BY <2>3, <2>4, <2>6 DEF TokenInv
  <2>10. \A x \in Items : x.token # nextToken
    <3>1. ASSUME NEW x \in Items, x.token = nextToken PROVE FALSE
      <4>1. x.kind = "setFreq"
        BY <3>1, FreshIsFree
      <4> QED BY <2>2, <3>1, <4>1, PipelineAssumption DEF TokenInv
    <3> QED BY <3>1
  <2>11. \A j \in Tracked : active[j] # nextToken
    BY FreshIsFree
  <2>12. \A x \in Items' : \A j \in Tracked :
           active'[j] # 0 /\ active'[j] = x.token => x.kind = j
    BY <2>4, <2>6, <2>7, <2>10, <2>11 DEF TokenInv
  <2>13. \A i, j \in Tracked : active'[i] # 0 /\ active'[i] = active'[j] => i = j
    BY <2>7, <2>11 DEF TokenInv
  <2> QED BY <2>8, <2>9, <2>12, <2>13 DEF TokenInv
<1> QED BY <1>1, <1>2, ScheduleFacts

\* A slot takes the next token and leaves the counter behind it.
LEMMA IssuedSchedule == TypeOK /\ TokensIssued /\ Schedule => TokensIssued'
<1> SUFFICES ASSUME TypeOK, TokensIssued, Schedule PROVE TokensIssued'
  OBVIOUS
<1>1. /\ nextToken \in Nat \ {0} /\ nextToken' \in Nat /\ nextToken < nextToken'
      /\ \A k \in Tracked : active[k] \in Nat
  BY ScheduleFacts, NextTokenFacts DEF TypeOK, ClientType
<1>2. \A x \in Items : x.token \in Nat
  <2>1. reqQ \in Seq(Request) /\ resQ \in Seq(Result) /\ current \subseteq Request
    BY DEF TypeOK, QueueType
  <2>2. ToSet(reqQ) \subseteq Request /\ ToSet(resQ) \subseteq Result
    BY <2>1 DEF ToSet
  <2> QED BY <2>1, <2>2 DEF Items, Request, Result
<1>3. CASE UNCHANGED <<reqQ, active>>
  <2>1. Items' = Items
    BY <1>3, ScheduleFacts DEF Items
  <2> QED BY <1>1, <1>2, <1>3, <2>1 DEF TokensIssued
<1>4. CASE \E k \in Clients : \E v \in Nat :
             /\ reqQ' = Append(reqQ, [kind |-> k, token |-> nextToken, val |-> v])
             /\ active' = IF k \in Tracked THEN [active EXCEPT ![k] = nextToken] ELSE active
  <2>1. PICK k \in Clients, v \in Nat :
          /\ reqQ' = Append(reqQ, [kind |-> k, token |-> nextToken, val |-> v])
          /\ active' = IF k \in Tracked THEN [active EXCEPT ![k] = nextToken] ELSE active
    BY <1>4
  <2>2. PICK e : e = [kind |-> k, token |-> nextToken, val |-> v]
    OBVIOUS
  <2>3. e \in Request /\ e.token = nextToken /\ reqQ' = Append(reqQ, e)
    BY <1>1, <2>1, <2>2 DEF Request, Kinds
  <2>4. \A x \in Items' : x \in Items \/ x = e
    BY <2>3, ToSetAppend, ScheduleFacts DEF Items, TypeOK, QueueType
  <2>5. \A j \in Tracked : active'[j] \in {active[j], nextToken}
    BY <2>1 DEF TypeOK, ClientType
  <2> QED BY <1>1, <1>2, <2>3, <2>4, <2>5 DEF TokensIssued
<1> QED BY <1>3, <1>4, ScheduleFacts

\* The counter is ahead of every token the orchestrator still uses, wherever it began.
LEMMA TokensAlwaysIssued == Spec => []TokensIssued
<1>1. Init => TokensIssued
  <2> SUFFICES ASSUME Init PROVE TokensIssued
    OBVIOUS
  <2>1. Items = {} /\ nextToken = TokenBase + 1 /\ \A k \in Tracked : active[k] = 0
    BY DEF Init, Items, ToSet
  <2> QED BY <2>1, PipelineAssumption DEF TokensIssued
<1>2. TypeOK /\ TokensIssued /\ ApplySettings => TokensIssued'
  <2> SUFFICES ASSUME TypeOK, TokensIssued, ApplySettings PROVE TokensIssued'
    OBVIOUS
  <2>1. PICK f : f = [kind |-> "setFreq", token |-> cfg + 1, val |-> 0]
    OBVIOUS
  <2> QED BY <2>1, SettingsFacts DEF TokensIssued
<1>3. TypeOK /\ TokensIssued /\ [Next]_vars => TokensIssued'
  BY <1>2, IssuedQuiet, IssuedSchedule DEF Next, Tick, Command, Quiet
<1> QED BY <1>1, <1>3, TypeCorrect, PTL DEF Spec

\* Nothing is in flight at the start.
LEMMA TokenInit == Init => TokenInv
<1> SUFFICES ASSUME Init PROVE TokenInv
  OBVIOUS
<1>1. Items = {}
  BY DEF Init, Items, ToSet
<1>2. \A k \in Tracked : active[k] = 0
  BY DEF Init
<1> QED BY <1>1, <1>2 DEF TokenInv

\* Two counters that both start at 1, and one matching by token: once the orchestrator
\* has taken as many tokens as settings can be changed, no in-flight clients share a
\* token and nothing left over from one client, SET_FREQ included, carries another's.
THEOREM TokensAlwaysTellClients ==
  ASSUME MaxApply <= TokenBase
  PROVE  Spec => [](TokenInv /\ TokensTellClients)
<1>1. TypeOK /\ TokensIssued /\ TokenInv /\ [Next]_vars => TokenInv'
  BY TokenSettings, TokenSchedule, TokenQuiet DEF Next, Tick, Command, Quiet
<1>2. TokenInv => TokensTellClients
  <2>1. \A key \in InSystem : \E x \in Items : key = <<x.kind, x.token>>
    BY DEF InSystem, KeyOf, Items
  <2> QED BY <2>1 DEF TokenInv, TokensTellClients
<1> QED BY TokenInit, TypeCorrect, TokensAlwaysIssued, <1>1, <1>2, PTL DEF Spec

-----------------------------------------------------------------------------
(* The raw operation runs once and its answer is its own. *)

\* Between the command and its request the bus has said nothing of the operation.
RawSilent ==
  /\ raw.queued => ranRaw = "none"
  /\ ranRaw \in {"none"} \cup RawVerdicts

RawInv == RunOnce /\ RawTruthful /\ RawSilent

\* Queues that are only shortened, under an active token that is kept or dropped,
\* keep the operation in one place.
LEMMA RunOnceKept ==
  ASSUME RunOnce, active'["raw"] = 0 \/ active'["raw"] = active["raw"],
         UNCHANGED <<reqQ, current, ranRaw>>,
         \A i \in DOMAIN resQ' : \E j \in DOMAIN resQ : resQ'[i] = resQ[j]
  PROVE  RunOnce'
  BY DEF RunOnce

\* Results and deadlines: only the operation's own answer can make it read "ok".
LEMMA RawResults ==
  ASSUME TypeOK, TokenInv, RawInv,
         ProcessResult \/ ProcessLateResult \/ HandleExpiredInFlight
  PROVE  RawInv'
<1> USE DEF taskVars, settings, history
<1>1. "raw" \in Tracked
  BY DEF Tracked, Clients
<1>2. ASSUME TakesResult, Drained
      PROVE  /\ \A i \in DOMAIN resQ' : \E j \in DOMAIN resQ : resQ'[i] = resQ[j]
             /\ UNCHANGED <<reqQ, current, ranRaw>>
             /\ Head(resQ) \in Result /\ Head(resQ) = resQ[1] /\ 1 \in DOMAIN resQ
  <2>1. resQ \in Seq(Result) /\ resQ # <<>> /\ resQ' = Tail(resQ)
    BY <1>2 DEF TypeOK, QueueType, TakesResult, Drained
  <2>2. \A i \in DOMAIN Tail(resQ) : Tail(resQ)[i] = resQ[i + 1] /\ i + 1 \in DOMAIN resQ
    BY <2>1
  <2>3. Head(resQ) \in Result /\ Head(resQ) = resQ[1] /\ 1 \in DOMAIN resQ
    BY <2>1
  <2> QED BY <1>2, <2>1, <2>2, <2>3 DEF Drained
<1>3. ASSUME NEW K, NEW st, NEW val, Settle(K, st, val), UNCHANGED ranRaw,
             "raw" \in K /\ st = "ok" => ranRaw = "ok"
      PROVE  RawTruthful' /\ RawSilent'
  BY <1>3 DEF Settle, RawAfter, RawInv, RawTruthful, RawSilent
<1>4. CASE ProcessResult
  <2> DEFINE r == Head(resQ)
  <2>1. TakesResult /\ Drained /\ Settle(Owners(r), r.status, r.val)
    BY <1>4 DEF ProcessResult
  <2>2. "raw" \in Owners(r) => active["raw"] # 0 /\ active["raw"] = r.token
    <3>1. r \in Result
      BY <1>2, <2>1
    <3> QED BY <3>1 DEF Owners, Rtc, Env, Result
  <2>3. "raw" \in Owners(r) /\ r.status = "ok" => ranRaw = "ok"
    BY <1>2, <2>1, <2>2 DEF RawInv, RunOnce
  <2>4. RawTruthful' /\ RawSilent'
    BY <1>2, <1>3, <2>1, <2>3
  <2>5. RunOnce'
    BY <1>1, <1>2, <2>1, RunOnceKept, SettleEnds DEF RawInv
  <2> QED BY <2>4, <2>5 DEF RawInv
<1>5. CASE ProcessLateResult
  <2>1. TakesResult /\ Drained /\ Settle(LateOwners(Head(resQ)), "timeout", 0)
    BY <1>5 DEF ProcessLateResult
  <2>2. RawTruthful' /\ RawSilent'
    BY <1>2, <1>3, <2>1
  <2>3. RunOnce'
    BY <1>1, <1>2, <2>1, RunOnceKept, SettleEnds DEF RawInv
  <2> QED BY <2>2, <2>3 DEF RawInv
<1>6. CASE HandleExpiredInFlight
  <2>1. Settle(ExpiredInFlight, "timeout", 0) /\ UNCHANGED <<reqQ, resQ, current, ranRaw>>
    BY <1>6 DEF HandleExpiredInFlight
  <2>2. RawTruthful' /\ RawSilent'
    BY <1>3, <2>1
  <2>3. RunOnce'
    BY <1>1, <2>1, RunOnceKept, SettleEnds DEF RawInv
  <2> QED BY <2>2, <2>3 DEF RawInv
<1> QED BY <1>4, <1>5, <1>6

\* A slot may queue the operation, under a token that nothing else carries.
LEMMA RawSchedule ==
  ASSUME MaxApply <= TokenBase, TypeOK, TokensIssued, TokenInv, TokenInv', RawFlagsAgree,
         RawInv, Schedule
  PROVE  RawInv'
<1>1. "raw" \in Tracked
  BY DEF Tracked, Clients
<1>2. RawTruthful' /\ RawSilent'
  <2>1. ranRaw' = ranRaw
    BY ScheduleFacts
  <2>2. CASE ScheduleRaw
    <3>1. ~raw'.complete
      BY <2>2 DEF ScheduleRaw
    <3>2. "raw" \in pending
      BY <2>2, TurnFacts DEF ScheduleRaw, Eligible, Clients
    <3> QED BY <2>1, <3>1, <3>2 DEF RawTruthful, RawInv, RawSilent, RawFlagsAgree
  <2>3. CASE ~ScheduleRaw
    <3>1. raw' = raw
      BY <2>3 DEF Schedule, ScheduleRecover, ScheduleRtcSet, ScheduleEnvRead, ScheduleRtcRead,
         ScheduleEnvTrigger, ScheduleDisplay, ScheduleScan, snapshots
    <3> QED BY <2>1, <3>1 DEF RawInv, RawTruthful, RawSilent
  <2> QED BY <2>2, <2>3
<1>3. CASE UNCHANGED <<reqQ, active>>
  <2>1. UNCHANGED <<current, resQ, ranRaw>>
    BY ScheduleFacts
  <2>2. RunOnce'
    BY <1>3, <2>1 DEF RawInv, RunOnce
  <2> QED BY <1>2, <2>2 DEF RawInv
<1>4. CASE \E k \in Clients : \E v \in Nat :
             /\ Asks(k, v)
             /\ reqQ' = Append(reqQ, [kind |-> k, token |-> nextToken, val |-> v])
             /\ active' = IF k \in Tracked THEN [active EXCEPT ![k] = nextToken] ELSE active
  <2>1. PICK k \in Clients, v \in Nat :
          /\ Asks(k, v)
          /\ reqQ' = Append(reqQ, [kind |-> k, token |-> nextToken, val |-> v])
          /\ active' = IF k \in Tracked THEN [active EXCEPT ![k] = nextToken] ELSE active
    BY <1>4
  <2>0. PICK e : e = [kind |-> k, token |-> nextToken, val |-> v]
    OBVIOUS
  <2>2. nextToken \in Nat \ {0} /\ nextToken > TokenBase
    BY NextTokenFacts DEF TypeOK
  <2>3. e \in Request /\ e.token = nextToken
    BY <2>0, <2>2 DEF Request, Kinds
  <2>4. reqQ' = Append(reqQ, e)
    BY <2>0, <2>1
  <2>5. reqQ \in Seq(Request) /\ resQ \in Seq(Result)
    BY DEF TypeOK, QueueType
  <2>6. /\ DOMAIN reqQ' = 1..(Len(reqQ) + 1) /\ reqQ'[Len(reqQ) + 1].token = nextToken
        /\ \A i \in 1..Len(reqQ) : reqQ'[i] = reqQ[i]
        /\ DOMAIN reqQ = 1..Len(reqQ) /\ Len(reqQ) \in Nat
    BY <2>3, <2>4, <2>5
  <2>7. \A x \in Items : x.token # nextToken
    <3>1. ASSUME NEW x \in Items, x.token = nextToken PROVE FALSE
      <4>1. x.kind = "setFreq"
        BY <3>1, FreshIsFree
      <4> QED BY <2>2, <3>1, <4>1, PipelineAssumption DEF TokenInv
    <3> QED BY <3>1
  <2>8. /\ \A i \in DOMAIN reqQ : reqQ[i].token # nextToken
        /\ \A q \in current : q.token # nextToken
        /\ \A i \in DOMAIN resQ : resQ[i].token # nextToken
    BY <2>7 DEF Items, ToSet
  <2>9. UNCHANGED <<current, resQ, ranRaw>>
    BY ScheduleFacts
  <2>10. CASE k = "raw"
    <3>1. active'["raw"] = nextToken
      BY <1>1, <2>1, <2>10 DEF TypeOK, ClientType
    <3>2. ranRaw = "none"
      BY <2>1, <2>10 DEF Asks, RawFlagsAgree, RawInv, RawSilent
    <3>3. RunOnce'
      BY <2>6, <2>8, <2>9, <3>1, <3>2 DEF RunOnce
    <3> QED BY <1>2, <3>3 DEF RawInv
  <2>11. CASE k # "raw"
    <3>1. active'["raw"] = active["raw"] /\ active["raw"] # nextToken
      BY <1>1, <2>1, <2>11, FreshIsFree DEF TypeOK, ClientType
    <3>2. \A i \in DOMAIN reqQ' : reqQ'[i].token = active["raw"] =>
             i \in DOMAIN reqQ /\ reqQ[i].token = active["raw"]
      BY <2>6, <3>1
    <3>3. RunOnce'
      BY <2>9, <3>1, <3>2 DEF RawInv, RunOnce
    <3> QED BY <1>2, <3>3 DEF RawInv
  <2> QED BY <2>10, <2>11
<1> QED BY <1>3, <1>4, ScheduleFacts

\* The task moves the operation from place to place and records the bus's word
\* before it answers.
LEMMA RawTask ==
  ASSUME TypeOK, TokenInv, RawFlagsAgree, RawInv, Task
  PROVE  RawInv'
<1> USE DEF taskVars, history, snapshots
<1>1. "raw" \in Tracked /\ reqQ \in Seq(Request) /\ resQ \in Seq(Result)
  BY DEF Tracked, Clients, TypeOK, QueueType
<1>2. ASSUME reqQ # <<>>, reqQ' = Tail(reqQ)
      PROVE  /\ Head(reqQ) = reqQ[1] /\ 1 \in DOMAIN reqQ
             /\ \A i \in DOMAIN reqQ' :
                   i + 1 \in DOMAIN reqQ /\ reqQ'[i] = reqQ[i + 1] /\ i + 1 # 1
  BY <1>1, <1>2
<1>3. ASSUME NEW res \in Result, QueueResult(res)
      PROVE  \A i \in DOMAIN resQ' :
               resQ'[i] = res \/ (i \in DOMAIN resQ /\ resQ'[i] = resQ[i])
  BY <1>1, <1>3 DEF QueueResult
<1>4. CASE FetchExpired
  <2>1. PICK res \in Result : /\ QueueResult(res) /\ res.status = "timeout"
                             /\ res.token = Head(reqQ).token
    BY <1>4, FetchExpiredFacts
  <2>2. /\ current = {} /\ reqQ # <<>> /\ reqQ' = Tail(reqQ)
        /\ UNCHANGED <<current, active, raw, ranRaw>>
    BY <1>4 DEF FetchExpired
  <2>3. \A i \in DOMAIN resQ' :
          resQ'[i] = res \/ (i \in DOMAIN resQ /\ resQ'[i] = resQ[i])
    BY <1>3, <2>1
  <2>4. RunOnce'
    BY <1>2, <2>1, <2>2, <2>3 DEF RawInv, RunOnce
  <2> QED BY <2>2, <2>4 DEF RawInv, RawTruthful, RawSilent
<1>5. CASE Fetch
  <2>1. /\ current' = {Head(reqQ)} /\ reqQ # <<>> /\ reqQ' = Tail(reqQ)
        /\ UNCHANGED <<resQ, active, raw, ranRaw>>
    BY <1>5 DEF Fetch
  <2>2. RunOnce'
    BY <1>2, <2>1 DEF RawInv, RunOnce
  <2> QED BY <2>1, <2>2 DEF RawInv, RawTruthful, RawSilent
<1>6. CASE Complete
  <2>1. PICK q \in current : \E st \in Outcomes(q.kind), res \in Result :
          /\ QueueResult(res) /\ res.kind = q.kind /\ res.token = q.token
          /\ res.status \in {"timeout", st}
          /\ current' = {} /\ UNCHANGED <<active, reqQ, pending, raw>>
          /\ ranRaw' = IF q.kind = "raw" /\ q.token = active["raw"] THEN st ELSE ranRaw
    BY <1>6, CompleteFacts
  <2>1a. PICK st \in Outcomes(q.kind), res \in Result :
          /\ QueueResult(res) /\ res.kind = q.kind /\ res.token = q.token
          /\ res.status \in {"timeout", st}
          /\ current' = {} /\ UNCHANGED <<active, reqQ, pending, raw>>
          /\ ranRaw' = IF q.kind = "raw" /\ q.token = active["raw"] THEN st ELSE ranRaw
    BY <2>1
  <2>2. \A i \in DOMAIN resQ' :
          resQ'[i] = res \/ (i \in DOMAIN resQ /\ resQ'[i] = resQ[i])
    BY <1>3, <2>1a
  <2>3. active["raw"] # 0 /\ q.token = active["raw"] => q.kind = "raw"
    BY <1>1 DEF TokenInv, Items
  <2>4. RunOnce'
    <3>1. CASE q.token = active["raw"]
      BY <2>1a, <2>2, <2>3, <3>1 DEF RawInv, RunOnce
    <3>2. CASE q.token # active["raw"]
      BY <2>1a, <2>2, <3>2 DEF RawInv, RunOnce
    <3> QED BY <3>1, <3>2
  <2>5. q.token # 0
    BY DEF TypeOK, QueueType, Request
  <2>6. RawTruthful'
    BY <2>1a, <2>5 DEF RawInv, RawTruthful, RawFlagsAgree
  <2>7. q.kind = "raw" => st \in RawVerdicts
    BY <2>1a DEF Outcomes, Env, RawVerdicts
  <2>8. RawSilent'
    BY <2>1a, <2>5, <2>7 DEF RawInv, RawSilent, RawFlagsAgree
  <2> QED BY <2>4, <2>6, <2>8 DEF RawInv
<1> QED BY <1>4, <1>5, <1>6 DEF Task

\* Commands: a new operation starts with nothing in flight, and SET_FREQ cannot be
\* mistaken for it.
LEMMA RawCommand ==
  ASSUME MaxApply <= TokenBase, TypeOK, TokenInv, RawInv, Command
  PROVE  RawInv'
<1> USE DEF taskVars, history, snapshots
<1>1. CASE QueueRaw
  BY <1>1 DEF QueueRaw, Idle, RawInv, RunOnce, RawTruthful, RawSilent
<1>2. CASE QueueRtcSet \/ QueueBusRecover \/ QueueBusScan
  <2>1. UNCHANGED <<reqQ, resQ, current, active, raw, ranRaw>>
    BY <1>2 DEF QueueRtcSet, QueueBusRecover, QueueBusScan
  <2> QED BY <2>1 DEF RawInv, RunOnce, RawTruthful, RawSilent
<1>3. CASE ApplySettings
  <2> DEFINE f == [kind |-> "setFreq", token |-> cfg + 1, val |-> 0]
  <2>1. UNCHANGED <<resQ, current, active, raw, ranRaw>>
    BY <1>3 DEF ApplySettings
  <2>2. f.token <= TokenBase /\ f.token \in Nat /\ f \in Request
    BY <1>3, PipelineAssumption
    DEF ApplySettings, TypeOK, SensorType, Request, Kinds
  <2>3. reqQ' = Append(reqQ, f) \/ reqQ' = reqQ
    BY <1>3 DEF ApplySettings
  <2>4. active["raw"] # 0 => active["raw"] > TokenBase /\ active["raw"] \in Nat
    BY DEF TokenInv, Tracked, Clients, TypeOK, ClientType
  <2>5. active["raw"] # 0 => f.token # active["raw"]
    BY <2>2, <2>4, PipelineAssumption
  <2> HIDE DEF f
  <2>6. \A i \in DOMAIN reqQ' : reqQ'[i] = f \/ (i \in DOMAIN reqQ /\ reqQ'[i] = reqQ[i])
    BY <2>2, <2>3 DEF TypeOK, QueueType
  <2>7. RunOnce'
    BY <2>1, <2>5, <2>6 DEF RawInv, RunOnce
  <2> QED BY <2>1, <2>7 DEF RawInv, RawTruthful, RawSilent
<1> QED BY <1>1, <1>2, <1>3 DEF Command

\* The end of an iteration and the clock touch none of it.
LEMMA RawOthers ==
  RawInv /\ (EndTick \/ PassDeadline \/ UNCHANGED vars) => RawInv'
<1>1. EndTick \/ PassDeadline \/ UNCHANGED vars
        => UNCHANGED <<reqQ, resQ, current, active, raw, ranRaw>>
  BY DEF EndTick, PassDeadline, PassDeadlineOf, vars, snapshots, taskVars, history
<1>2. RawInv /\ UNCHANGED <<reqQ, resQ, current, active, raw, ranRaw>> => RawInv'
  BY DEF RawInv, RunOnce, RawTruthful, RawSilent
<1> QED BY <1>1, <1>2

\* The raw operation in flight is in one place, and its answer is its own.
LEMMA RawAlwaysInvariant ==
  ASSUME MaxApply <= TokenBase
  PROVE  Spec => []RawInv
<1>1. Init => RawInv
  BY DEF Init, RawInv, RunOnce, RawTruthful, RawSilent, Tracked, Clients
<1>2. TypeOK /\ TokensIssued /\ TokenInv /\ TokenInv' /\ RawFlagsAgree /\ RawInv /\ [Next]_vars => RawInv'
  BY RawCommand, RawResults, RawSchedule, RawTask, RawOthers DEF Next, Tick
<1> QED BY TypeCorrect, TokensAlwaysIssued, TokensAlwaysTellClients, RawFlagsAlwaysAgree, <1>1, <1>2, PTL DEF Spec

\* A raw operation reads "ok" only if the bus completed this very operation, for
\* any capacities, limits and interleavings, once the counters lie apart.
THEOREM RawAlwaysTruthful ==
  ASSUME MaxApply <= TokenBase
  PROVE  Spec => []RawTruthful
<1>1. RawInv => RawTruthful
  BY DEF RawInv
<1> QED BY RawAlwaysInvariant, <1>1, PTL

-----------------------------------------------------------------------------
(* Queues as sequences: what the places of a queue hold after a step. *)

\* The places of a tail are those of the queue, one further on.
LEMMA TailPlaces ==
  ASSUME NEW S, NEW q \in Seq(S), q # <<>>
  PROVE  /\ Head(q) = q[1] /\ 1 \in DOMAIN q /\ DOMAIN q \subseteq Nat
         /\ DOMAIN Tail(q) \subseteq Nat
         /\ \A i \in DOMAIN Tail(q) : i + 1 \in DOMAIN q /\ 1 < i + 1 /\ Tail(q)[i] = q[i + 1]
         /\ \A i, j \in DOMAIN Tail(q) : i < j => i + 1 < j + 1
  OBVIOUS

\* The places of a queue that is appended to, and the last place, for the new item.
LEMMA AppendPlaces ==
  ASSUME NEW S, NEW q \in Seq(S), NEW e \in S
  PROVE  /\ \A i \in DOMAIN Append(q, e) :
              \/ i \in DOMAIN q /\ Append(q, e)[i] = q[i]
              \/ i \notin DOMAIN q /\ Append(q, e)[i] = e
         /\ \A i, j \in DOMAIN Append(q, e) : i \notin DOMAIN q => ~(i < j)
         /\ \A i \in DOMAIN q : Append(q, e)[i] = q[i]
  OBVIOUS

\* The places of the request queue when a request joins it.
LEMMA RequestPlaces ==
  ASSUME TypeOK, NEW e \in Request, reqQ' = Append(reqQ, e)
  PROVE  /\ \A i \in DOMAIN reqQ' :
              (i \in DOMAIN reqQ /\ reqQ'[i] = reqQ[i]) \/ (i \notin DOMAIN reqQ /\ reqQ'[i] = e)
         /\ \A i, j \in DOMAIN reqQ' : i \notin DOMAIN reqQ => ~(i < j)
         /\ \A i \in DOMAIN reqQ : reqQ'[i] = reqQ[i]
<1>1. reqQ \in Seq(Request)
  BY DEF TypeOK, QueueType
<1> QED BY <1>1, AppendPlaces

\* The two ways in which the task's answer leaves the result queue.
LEMMA ResultPlaces ==
  ASSUME TypeOK, NEW res \in Result, QueueResult(res)
  PROVE  /\ \A i \in DOMAIN resQ' :
              \/ i \in DOMAIN resQ /\ resQ'[i] = resQ[i]
              \/ i \notin DOMAIN resQ /\ resQ'[i] = res
         /\ \A i, j \in DOMAIN resQ' : i \notin DOMAIN resQ => ~(i < j)
<1>1. resQ \in Seq(Result)
  BY DEF TypeOK, QueueType
<1>2. CASE resQ' = resQ
  BY <1>2
<1>3. CASE resQ' = Append(resQ, res)
  BY <1>1, <1>3, AppendPlaces
<1> QED BY <1>2, <1>3 DEF QueueResult

-----------------------------------------------------------------------------
(* The time of the RTC. *)

IsSet(r)     == r.kind = "rtcSet"
Publishes(r) == r.kind \in Rtc /\ r.status = "ok"

\* A set that waits asks for a time no older than the chip's, and no younger than
\* the last one asked for; the one in flight asks for that one.
SetInLine(r) ==
  /\ chip <= r.val /\ r.val <= rtcSetPendingValue
  /\ r.token = active["rtcSet"] => r.val = rtcSetPendingValue

\* Sets reach the chip in the order they were asked for.
SetsInOrder ==
  /\ chip <= rtcSetPendingValue
  /\ \A i \in DOMAIN reqQ : IsSet(reqQ[i]) =>
        /\ SetInLine(reqQ[i])
        /\ \A j \in DOMAIN reqQ : i < j /\ IsSet(reqQ[j]) => reqQ[i].val <= reqQ[j].val
  /\ \A q \in current : IsSet(q) =>
        /\ SetInLine(q)
        /\ \A j \in DOMAIN reqQ : IsSet(reqQ[j]) => q.val <= reqQ[j].val

\* The answers that will be published lie between the time published last and the
\* chip's, in the order they were given, and the chip has held each of them.
AnswersInOrder ==
  /\ rtcTime <= chip
  /\ rtcTime \in chipTimes /\ chip \in chipTimes
  /\ \A i \in DOMAIN resQ : Publishes(resQ[i]) =>
        /\ rtcTime <= resQ[i].val /\ resQ[i].val <= chip
        /\ resQ[i].val \in chipTimes
        /\ IsSet(resQ[i]) /\ resQ[i].token = active["rtcSet"]
             => resQ[i].val = rtcSetPendingValue
        /\ \A j \in DOMAIN resQ : i < j /\ Publishes(resQ[j]) => resQ[i].val <= resQ[j].val

\* The invariant: times keep their order on their way from the command through the
\* chip to the snapshot.
RtcInv == SetsInOrder /\ AnswersInOrder

\* The state RtcInv speaks of, apart from the tokens.
rtcLine == <<reqQ, resQ, current, chip, chipTimes, rtcTime, rtcSetPendingValue>>

\* What the items of both queues are numbers of.
LEMMA ItemTypes ==
  ASSUME TypeOK
  PROVE  /\ \A i \in DOMAIN reqQ : reqQ[i] \in Request /\ reqQ[i].token # 0 /\ reqQ[i].val \in Nat
         /\ \A i \in DOMAIN resQ : resQ[i] \in Result /\ resQ[i].token # 0 /\ resQ[i].val \in Nat
         /\ \A q \in current : q \in Request /\ q.token # 0 /\ q.val \in Nat
         /\ DOMAIN reqQ \subseteq Nat /\ DOMAIN resQ \subseteq Nat
         /\ chip \in Nat /\ rtcTime \in Nat /\ rtcSetPendingValue \in Nat
<1>1. reqQ \in Seq(Request) /\ resQ \in Seq(Result) /\ current \subseteq Request
  BY DEF TypeOK, QueueType
<1>2. /\ \A i \in DOMAIN reqQ : reqQ[i] \in Request
      /\ \A i \in DOMAIN resQ : resQ[i] \in Result
      /\ DOMAIN reqQ \subseteq Nat /\ DOMAIN resQ \subseteq Nat
  BY <1>1
<1>3. \A r \in Request \cup Result : r.token # 0 /\ r.val \in Nat
  BY DEF Request, Result
<1> QED BY <1>1, <1>2, <1>3 DEF TypeOK, SensorType, BusType

\* A step that leaves the line alone and at most ends the set in flight.
LEMMA RtcQuiet ==
  ASSUME TypeOK, RtcInv, UNCHANGED rtcLine, active'["rtcSet"] \in {0, active["rtcSet"]}
  PROVE  RtcInv'
<1>1. SetsInOrder'
  BY ItemTypes DEF RtcInv, SetsInOrder, SetInLine, IsSet, rtcLine
<1>2. AnswersInOrder'
  BY ItemTypes DEF RtcInv, AnswersInOrder, IsSet, Publishes, rtcLine
<1> QED BY <1>1, <1>2 DEF RtcInv

\* A new time to be set is younger than all before it; nothing of it is on its way.
LEMMA RtcCommand ==
  ASSUME TypeOK, RtcInv, Command
  PROVE  RtcInv'
<1> USE DEF taskVars, rtcVars, history
<1>1. CASE QueueRtcSet
  <2>1. /\ active["rtcSet"] = 0 /\ rtcSetPendingValue' = rtcSetPendingValue + 1
        /\ UNCHANGED <<active, reqQ, resQ, current, chip, chipTimes, rtcTime>>
    BY <1>1 DEF QueueRtcSet, Idle
  <2>2. SetsInOrder'
    BY <2>1, ItemTypes DEF RtcInv, SetsInOrder, SetInLine, IsSet
  <2>3. AnswersInOrder'
    BY <2>1, ItemTypes DEF RtcInv, AnswersInOrder, Publishes, IsSet
  <2> QED BY <2>2, <2>3 DEF RtcInv
<1>2. CASE QueueRaw \/ QueueBusRecover \/ QueueBusScan
  BY <1>2, RtcQuiet DEF QueueRaw, QueueBusRecover, QueueBusScan, rtcLine
<1>3. CASE ApplySettings
  <2> DEFINE f == [kind |-> "setFreq", token |-> cfg + 1, val |-> 0]
  <2>1. UNCHANGED <<active, resQ, current, chip, chipTimes, rtcTime, rtcSetPendingValue>>
    BY <1>3 DEF ApplySettings
  <2>2. f \in Request /\ ~IsSet(f)
    BY DEF Request, Kinds, TypeOK, SensorType, IsSet
  <2>3. reqQ' = Append(reqQ, f) \/ reqQ' = reqQ
    BY <1>3 DEF ApplySettings
  <2> HIDE DEF f
  <2>4. \A i \in DOMAIN reqQ' : IsSet(reqQ'[i]) => i \in DOMAIN reqQ /\ reqQ'[i] = reqQ[i]
    BY <2>2, <2>3, AppendPlaces DEF TypeOK, QueueType
  <2>5. SetsInOrder'
    BY <2>1, <2>4 DEF RtcInv, SetsInOrder, SetInLine, IsSet
  <2>6. AnswersInOrder'
    BY <2>1 DEF RtcInv, AnswersInOrder, Publishes, IsSet
  <2> QED BY <2>5, <2>6 DEF RtcInv
<1> QED BY <1>1, <1>2, <1>3 DEF Command

\* A set that is sent joins the end of the line under a token nothing else carries.
LEMMA RtcSchedule ==
  ASSUME TypeOK, TokensIssued, RtcInv, Schedule
  PROVE  RtcInv'
<1>1. "rtcSet" \in Tracked /\ active \in [Tracked -> Nat]
  BY DEF Tracked, Clients, TypeOK, ClientType
<1>2. UNCHANGED <<resQ, current, chip, chipTimes, rtcTime, rtcSetPendingValue>>
  BY DEF Schedule, ScheduleRecover, ScheduleRaw, ScheduleRtcSet, ScheduleEnvRead,
     ScheduleRtcRead, ScheduleEnvTrigger, ScheduleDisplay, ScheduleScan, Turn, taskVars, rtcVars, history
<1>3. CASE UNCHANGED <<reqQ, active>>
  BY <1>2, <1>3, RtcQuiet DEF rtcLine
<1>4. CASE \E k \in Clients : \E v \in Nat :
             /\ Asks(k, v)
             /\ reqQ' = Append(reqQ, [kind |-> k, token |-> nextToken, val |-> v])
             /\ active' = IF k \in Tracked THEN [active EXCEPT ![k] = nextToken] ELSE active
  <2>1. PICK k \in Clients, v \in Nat :
          /\ Asks(k, v)
          /\ reqQ' = Append(reqQ, [kind |-> k, token |-> nextToken, val |-> v])
          /\ active' = IF k \in Tracked THEN [active EXCEPT ![k] = nextToken] ELSE active
    BY <1>4
  <2>0. PICK e : e = [kind |-> k, token |-> nextToken, val |-> v]
    OBVIOUS
  <2>2. e \in Request /\ e.kind = k /\ e.token = nextToken /\ e.val = v /\ reqQ' = Append(reqQ, e)
    BY <2>0, <2>1, NextTokenFacts DEF TypeOK, Request, Kinds
  <2>3. /\ \A i \in DOMAIN reqQ' :
             (i \in DOMAIN reqQ /\ reqQ'[i] = reqQ[i]) \/ (i \notin DOMAIN reqQ /\ reqQ'[i] = e)
        /\ \A i, j \in DOMAIN reqQ' : i \notin DOMAIN reqQ => ~(i < j)
        /\ \A i \in DOMAIN reqQ : reqQ'[i] = reqQ[i]
    BY <2>2, RequestPlaces
  <2>4. CASE k # "rtcSet"
    <3>1. active'["rtcSet"] = active["rtcSet"] /\ ~IsSet(e)
      BY <1>1, <2>1, <2>2, <2>4 DEF IsSet
    <3>2. SetsInOrder'
      BY <1>2, <2>3, <3>1 DEF RtcInv, SetsInOrder, SetInLine, IsSet
    <3>3. AnswersInOrder'
      BY <1>2, <3>1 DEF RtcInv, AnswersInOrder, Publishes, IsSet
    <3> QED BY <3>2, <3>3 DEF RtcInv
  <2>5. CASE k = "rtcSet"
    <3>1. active'["rtcSet"] = nextToken /\ e.val = rtcSetPendingValue
      BY <1>1, <2>1, <2>2, <2>5 DEF Asks
    <3>2. /\ \A i \in DOMAIN reqQ : IsSet(reqQ[i]) => reqQ[i].token # nextToken
          /\ \A i \in DOMAIN resQ : IsSet(resQ[i]) => resQ[i].token # nextToken
          /\ \A q \in current : IsSet(q) => q.token # nextToken
      BY FreshIsFree DEF Items, ToSet, IsSet
    <3>3. SetInLine(e)'
      BY <1>2, <3>1, ItemTypes DEF SetInLine, RtcInv, SetsInOrder
    <3>4. \A i \in DOMAIN reqQ : IsSet(reqQ[i]) =>
            SetInLine(reqQ[i])' /\ reqQ[i].val <= rtcSetPendingValue
      BY <1>2, <2>3, <3>1, <3>2 DEF SetInLine, RtcInv, SetsInOrder
    <3>5. \A q \in current : IsSet(q) => SetInLine(q)' /\ q.val <= rtcSetPendingValue
      BY <1>2, <3>1, <3>2 DEF SetInLine, RtcInv, SetsInOrder
    <3>6. SetsInOrder'
      BY <1>2, <2>3, <3>1, <3>3, <3>4, <3>5 DEF RtcInv, SetsInOrder
    <3>7. AnswersInOrder'
      BY <1>2, <3>1, <3>2 DEF RtcInv, AnswersInOrder, Publishes
    <3> QED BY <3>6, <3>7 DEF RtcInv
  <2> QED BY <2>4, <2>5
<1> QED BY <1>3, <1>4, ScheduleFacts

\* A result is taken: if it is published, it is the next in order.
LEMMA RtcTaken ==
  ASSUME TypeOK, RtcInv, resQ # <<>>, resQ' = Tail(resQ),
         UNCHANGED <<reqQ, current, chip, chipTimes, rtcSetPendingValue>>,
         active'["rtcSet"] \in {0, active["rtcSet"]},
         rtcTime' = rtcTime \/ (Publishes(Head(resQ)) /\ rtcTime' = Head(resQ).val)
  PROVE  RtcInv' /\ rtcTime <= rtcTime'
<1>1. resQ \in Seq(Result)
  BY DEF TypeOK, QueueType
<1>2. /\ Head(resQ) = resQ[1] /\ 1 \in DOMAIN resQ
      /\ \A i \in DOMAIN resQ' : i + 1 \in DOMAIN resQ /\ 1 < i + 1 /\ resQ'[i] = resQ[i + 1]
      /\ \A i, j \in DOMAIN resQ' : i < j => i + 1 < j + 1
  BY <1>1, TailPlaces
<1>3. /\ rtcTime <= rtcTime' /\ rtcTime' <= chip
      /\ rtcTime' \in chipTimes /\ chip \in chipTimes
      /\ \A i \in DOMAIN resQ : Publishes(resQ[i]) /\ 1 < i => rtcTime' <= resQ[i].val
  BY <1>2, ItemTypes DEF RtcInv, AnswersInOrder
<1>4. SetsInOrder'
  BY ItemTypes DEF RtcInv, SetsInOrder, SetInLine, IsSet
<1>5. AnswersInOrder'
  <2>1. \A i \in DOMAIN resQ' : Publishes(resQ'[i]) =>
          /\ rtcTime' <= resQ'[i].val /\ resQ'[i].val <= chip
          /\ resQ'[i].val \in chipTimes
          /\ IsSet(resQ'[i]) /\ resQ'[i].token = active'["rtcSet"]
               => resQ'[i].val = rtcSetPendingValue
    BY <1>2, <1>3, ItemTypes DEF RtcInv, AnswersInOrder
  <2>2. \A i, j \in DOMAIN resQ' :
          Publishes(resQ'[i]) /\ i < j /\ Publishes(resQ'[j]) => resQ'[i].val <= resQ'[j].val
    BY <1>2 DEF RtcInv, AnswersInOrder
  <2> QED BY <1>3, <2>1, <2>2 DEF AnswersInOrder, IsSet, Publishes
<1> QED BY <1>3, <1>4, <1>5 DEF RtcInv

\* Results and deadlines publish no time but that of the next answer.
LEMMA RtcResults ==
  ASSUME TypeOK, RtcInv, ProcessResult \/ ProcessLateResult \/ HandleExpiredInFlight
  PROVE  RtcInv' /\ rtcTime <= rtcTime'
<1> USE DEF taskVars, history
<1>1. "rtcSet" \in Tracked
  BY DEF Tracked, Clients
<1>2. ASSUME NEW K, NEW st, NEW val, Settle(K, st, val)
      PROVE  /\ active'["rtcSet"] \in {0, active["rtcSet"]}
             /\ rtcSetPendingValue' = rtcSetPendingValue
             /\ rtcTime' = RtcTimeAfter(K, st, val)
  BY <1>1, <1>2, SettleEnds DEF Settle
<1>3. ASSUME TakesResult, Drained
      PROVE  /\ resQ # <<>> /\ resQ' = Tail(resQ) /\ UNCHANGED <<reqQ, current, chip, chipTimes>>
             /\ Head(resQ) = resQ[1] /\ 1 \in DOMAIN resQ
  <2>1. resQ \in Seq(Result) /\ resQ # <<>>
    BY <1>3 DEF TypeOK, QueueType, TakesResult
  <2> QED BY <1>3, <2>1, TailPlaces DEF Drained
<1>4. CASE ProcessResult
  <2> DEFINE r == Head(resQ)
  <2>1. TakesResult /\ Drained /\ Settle(Owners(r), r.status, r.val)
    BY <1>4 DEF ProcessResult
  <2>2. \A k \in Rtc : k \in Owners(r) => k = r.kind /\ active[k] = r.token
    BY DEF Owners, Rtc
  <2>3. "rtcSet" \in Rtc /\ "rtcRead" \in Rtc
    BY DEF Rtc
  <2>4. rtcTime' = RtcTimeAfter(Owners(r), r.status, r.val)
    BY <1>2, <2>1
  <2>5. CASE r.status = "ok" /\ "rtcSet" \in Owners(r)
    <3>1. Publishes(r) /\ IsSet(r) /\ r.token = active["rtcSet"]
      BY <2>2, <2>3, <2>5 DEF Publishes, IsSet
    <3>2. rtcTime' = rtcSetPendingValue /\ r.val = rtcSetPendingValue
      BY <1>3, <2>1, <2>4, <2>5, <3>1 DEF RtcTimeAfter, RtcInv, AnswersInOrder
    <3> QED BY <1>2, <1>3, <2>1, <3>1, <3>2, RtcTaken
  <2>6. CASE r.status = "ok" /\ "rtcSet" \notin Owners(r) /\ "rtcRead" \in Owners(r)
    <3>1. Publishes(r) /\ rtcTime' = r.val
      BY <2>2, <2>3, <2>4, <2>6 DEF Publishes, RtcTimeAfter
    <3> QED BY <1>2, <1>3, <2>1, <3>1, RtcTaken
  <2>7. CASE ~(r.status = "ok" /\ ("rtcSet" \in Owners(r) \/ "rtcRead" \in Owners(r)))
    <3>1. rtcTime' = rtcTime
      BY <2>4, <2>7 DEF RtcTimeAfter
    <3> QED BY <1>2, <1>3, <2>1, <3>1, RtcTaken
  <2> QED BY <2>5, <2>6, <2>7
<1>5. CASE ProcessLateResult
  <2>1. TakesResult /\ Drained /\ Settle(LateOwners(Head(resQ)), "timeout", 0)
    BY <1>5 DEF ProcessLateResult
  <2>2. rtcTime' = rtcTime
    BY <1>2, <2>1 DEF RtcTimeAfter
  <2> QED BY <1>2, <1>3, <2>1, <2>2, RtcTaken
<1>6. CASE HandleExpiredInFlight
  <2>1. Settle(ExpiredInFlight, "timeout", 0) /\ UNCHANGED <<reqQ, resQ, current, chip, chipTimes>>
    BY <1>6 DEF HandleExpiredInFlight
  <2>2. rtcTime' = rtcTime
    BY <1>2, <2>1 DEF RtcTimeAfter
  <2> QED BY <1>2, <2>1, <2>2, RtcQuiet, ItemTypes DEF rtcLine
<1> QED BY <1>4, <1>5, <1>6

\* The task executes sets in line, and what it reads is at least as young as all it
\* has answered.
LEMMA RtcTask ==
  ASSUME TypeOK, RtcInv, Task
  PROVE  RtcInv'
<1> USE DEF rtcVars, taskVars, history
<1>1. reqQ \in Seq(Request) /\ resQ \in Seq(Result)
  BY DEF TypeOK, QueueType
<1>2. ASSUME reqQ # <<>>, reqQ' = Tail(reqQ)
      PROVE  /\ Head(reqQ) = reqQ[1] /\ 1 \in DOMAIN reqQ
             /\ \A i \in DOMAIN reqQ' : i + 1 \in DOMAIN reqQ /\ 1 < i + 1 /\ reqQ'[i] = reqQ[i + 1]
             /\ \A i, j \in DOMAIN reqQ' : i < j => i + 1 < j + 1
  BY <1>1, <1>2, TailPlaces
<1>3. CASE FetchExpired
  <2>1. PICK res \in Result : QueueResult(res) /\ res.status = "timeout"
    BY <1>3, FetchExpiredFacts
  <2>2. /\ reqQ # <<>> /\ reqQ' = Tail(reqQ)
        /\ UNCHANGED <<current, active, chip, chipTimes, rtcTime, rtcSetPendingValue>>
    BY <1>3 DEF FetchExpired
  <2>3. SetsInOrder'
    BY <1>2, <2>2 DEF RtcInv, SetsInOrder, SetInLine, IsSet
  <2>4. ~Publishes(res)
    BY <2>1 DEF Publishes
  <2>5. \A i \in DOMAIN resQ' : Publishes(resQ'[i]) => i \in DOMAIN resQ /\ resQ'[i] = resQ[i]
    BY <2>1, <2>4, ResultPlaces
  <2>6. AnswersInOrder'
    BY <2>2, <2>5 DEF RtcInv, AnswersInOrder, IsSet, Publishes
  <2> QED BY <2>3, <2>6 DEF RtcInv
<1>4. CASE Fetch
  <2>1. /\ reqQ # <<>> /\ reqQ' = Tail(reqQ) /\ current' = {Head(reqQ)}
        /\ UNCHANGED <<resQ, active, chip, chipTimes, rtcTime, rtcSetPendingValue>>
    BY <1>4 DEF Fetch
  <2>2. SetsInOrder'
    BY <1>2, <2>1 DEF RtcInv, SetsInOrder, SetInLine, IsSet
  <2>3. AnswersInOrder'
    BY <2>1 DEF RtcInv, AnswersInOrder, IsSet, Publishes
  <2> QED BY <2>2, <2>3 DEF RtcInv
<1>5. CASE Complete
  <2>1. PICK q \in current : \E st \in Outcomes(q.kind), res \in Result :
          /\ QueueResult(res) /\ res.kind = q.kind /\ res.token = q.token
          /\ res.val = IF q.kind = "rtcRead" THEN chip ELSE q.val
          /\ res.status \in {"timeout", st}
          /\ current' = {} /\ chip' \in ChipAfter(q, st)
          /\ chipTimes' = chipTimes \cup {chip'}
          /\ UNCHANGED <<active, reqQ, rtcTime, rtcSetPendingValue>>
    BY <1>5, CompleteFacts
  <2>2. PICK st \in Outcomes(q.kind), res \in Result :
          /\ QueueResult(res) /\ res.kind = q.kind /\ res.token = q.token
          /\ res.val = IF q.kind = "rtcRead" THEN chip ELSE q.val
          /\ res.status \in {"timeout", st}
          /\ current' = {} /\ chip' \in ChipAfter(q, st)
          /\ chipTimes' = chipTimes \cup {chip'}
          /\ UNCHANGED <<active, reqQ, rtcTime, rtcSetPendingValue>>
    BY <2>1
  <2>3. /\ chip <= chip' /\ chip' <= rtcSetPendingValue /\ chip' \in Nat
        /\ \A i \in DOMAIN reqQ : IsSet(reqQ[i]) => chip' <= reqQ[i].val
    BY <2>2, ItemTypes DEF ChipAfter, IsSet, RtcInv, SetsInOrder, SetInLine
  <2>4. Publishes(res) =>
          /\ res.val = chip'
          /\ IsSet(res) /\ res.token = active["rtcSet"] => res.val = rtcSetPendingValue
    BY <2>2 DEF Publishes, Rtc, IsSet, ChipAfter, RtcInv, SetsInOrder, SetInLine
  <2>5. SetsInOrder'
    BY <2>2, <2>3 DEF RtcInv, SetsInOrder, SetInLine, IsSet
  <2>6. /\ \A i \in DOMAIN resQ' :
              (i \in DOMAIN resQ /\ resQ'[i] = resQ[i]) \/ (i \notin DOMAIN resQ /\ resQ'[i] = res)
        /\ \A i, j \in DOMAIN resQ' : i \notin DOMAIN resQ => ~(i < j)
    BY <2>2, ResultPlaces
  <2>7. \A i \in DOMAIN resQ : Publishes(resQ[i]) => rtcTime <= resQ[i].val /\ resQ[i].val <= chip'
    BY <2>3, ItemTypes DEF RtcInv, AnswersInOrder
  <2>8. rtcTime <= chip'
    BY <2>3, ItemTypes DEF RtcInv, AnswersInOrder
  <2>9. \A i \in DOMAIN resQ' : Publishes(resQ'[i]) =>
          /\ rtcTime <= resQ'[i].val /\ resQ'[i].val <= chip'
          /\ IsSet(resQ'[i]) /\ resQ'[i].token = active["rtcSet"]
               => resQ'[i].val = rtcSetPendingValue
    BY <2>3, <2>4, <2>6, <2>7, <2>8 DEF RtcInv, AnswersInOrder
  <2>10. \A i, j \in DOMAIN resQ' :
           Publishes(resQ'[i]) /\ i < j /\ Publishes(resQ'[j]) => resQ'[i].val <= resQ'[j].val
    BY <2>4, <2>6, <2>7 DEF RtcInv, AnswersInOrder
  <2>11. /\ rtcTime \in chipTimes' /\ chip' \in chipTimes'
         /\ \A i \in DOMAIN resQ' : Publishes(resQ'[i]) => resQ'[i].val \in chipTimes'
    BY <2>2, <2>4, <2>6 DEF RtcInv, AnswersInOrder
  <2>12. AnswersInOrder'
    BY <2>2, <2>8, <2>9, <2>10, <2>11 DEF AnswersInOrder, IsSet, Publishes
  <2> QED BY <2>5, <2>12 DEF RtcInv
<1> QED BY <1>3, <1>4, <1>5 DEF Task

\* The end of an iteration and the clock touch none of it.
LEMMA RtcOthers ==
  ASSUME TypeOK, RtcInv, EndTick \/ PassDeadline \/ UNCHANGED vars
  PROVE  RtcInv'
<1>1. UNCHANGED rtcLine /\ UNCHANGED active
  BY DEF EndTick, PassDeadline, PassDeadlineOf, vars, taskVars, rtcVars, history, rtcLine
<1> QED BY <1>1, RtcQuiet

\* Nothing is on its way at the start.
LEMMA RtcInit == Init => RtcInv
  BY DEF Init, RtcInv, SetsInOrder, AnswersInOrder

\* Every step keeps the order of the times.
LEMMA RtcStep == TypeOK /\ TokensIssued /\ RtcInv /\ [Next]_vars => RtcInv'
  BY RtcCommand, RtcSchedule, RtcResults, RtcTask, RtcOthers DEF Next, Tick

\* The published RTC time is one the chip has held, for any number of sets and any
\* capacities, whatever is late, lost or given up on the way.
THEOREM RtcTimeAlwaysFromChip == Spec => []RtcTimeWasOnChip
<1>1. RtcInv => RtcTimeWasOnChip
  BY DEF RtcInv, AnswersInOrder, RtcTimeWasOnChip
<1> QED BY RtcInit, TypeCorrect, TokensAlwaysIssued, RtcStep, <1>1, PTL DEF Spec

\* The published RTC time never goes back to one asked for before: a set that was
\* given up cannot overtake, nor a read from before it, the set that followed.
THEOREM RtcTimeNeverGoesBack == Spec => RtcNeverGoesBack
<1>1. TypeOK /\ RtcInv /\ [Next]_vars => rtcTime' >= rtcTime
  <2> SUFFICES ASSUME TypeOK, RtcInv, [Next]_vars PROVE rtcTime' >= rtcTime
    OBVIOUS
  <2>1. CASE ProcessResult \/ ProcessLateResult \/ HandleExpiredInFlight
    <3>1. rtcTime <= rtcTime' /\ rtcTime \in Nat
      BY <2>1, RtcResults, ItemTypes
    <3>2. rtcTime' \in Nat
      BY <2>1, TypeResults DEF TypeOK, SensorType
    <3> QED BY <3>1, <3>2
  <2>2. CASE ~(ProcessResult \/ ProcessLateResult \/ HandleExpiredInFlight)
    <3>1. rtcTime' = rtcTime
      BY <2>2 DEF Next, Tick, Command, QueueRaw, QueueRtcSet, QueueBusRecover, QueueBusScan,
         ApplySettings, Schedule, ScheduleRecover, ScheduleRaw, ScheduleRtcSet,
         ScheduleEnvRead, ScheduleRtcRead, ScheduleEnvTrigger, ScheduleDisplay, ScheduleScan,
         EndTick, Task, FetchExpired, Fetch, Complete, Completes, PassDeadline,
         PassDeadlineOf, vars, rtcVars
    <3> QED BY <3>1, ItemTypes
  <2> QED BY <2>1, <2>2
<1>2. (TypeOK /\ RtcInv) /\ (TypeOK /\ RtcInv)' /\ [Next]_vars => [rtcTime' >= rtcTime]_vars
  BY <1>1
<1>3. Spec => [](TypeOK /\ RtcInv)
  BY RtcInit, TypeCorrect, TokensAlwaysIssued, RtcStep, PTL DEF Spec
<1> QED BY <1>2, <1>3, PTL DEF Spec, RtcNeverGoesBack

-----------------------------------------------------------------------------
(* What a scan lists. *)

\* A probe of the scan in progress, or its answer.
Probe(r) == r.kind = "scan" /\ r.token = active["scan"]

\* The probe in flight is in one place at most: waiting, executing or answered.
ProbeOnce ==
  /\ \A i, j \in DOMAIN reqQ : Probe(reqQ[i]) /\ Probe(reqQ[j]) => i = j
  /\ \A q \in current : Probe(q) => \A i \in DOMAIN reqQ : ~Probe(reqQ[i])
  /\ \A i \in DOMAIN resQ : Probe(resQ[i]) =>
        /\ \A q \in current : ~Probe(q)
        /\ \A j \in DOMAIN reqQ : ~Probe(reqQ[j])

\* A probe that has not been executed asks for the address the scan has come to, which
\* has not answered yet.
ProbesAhead ==
  /\ \A i \in DOMAIN reqQ : Probe(reqQ[i]) =>
        reqQ[i].val = scan.addr /\ scan.addr \notin acked
  /\ \A q \in current : Probe(q) => q.val = scan.addr /\ scan.addr \notin acked
  /\ scan.active /\ active["scan"] = 0 => scan.addr \notin acked

\* The answer to a probe, unless it is a timeout or an error, says whether the address
\* was there.
ProbesAnswered ==
  scan.active /\ ~scan.flawed =>
    \A i \in DOMAIN resQ : Probe(resQ[i]) /\ resQ[i].status \notin Flaws =>
      /\ resQ[i].val = scan.addr
      /\ resQ[i].status = "ok" <=> scan.addr \in acked

\* What answered lies between the start of the range and where the scan has come to.
AckedInRange ==
  /\ "scan" \in pending => acked = {}
  /\ scan.active \/ scan.complete => acked \subseteq FirstAddr..scan.addr

\* The list holds members of S in ascending order, all of them or as many as it can.
Lists(found, S) ==
  /\ ToSet(found) \subseteq S
  /\ \A i, j \in DOMAIN found : i < j => found[i] < found[j]
  /\ Len(found) = Saturated(Cardinality(S), MaxFound)

\* The list of a scan without flaws: what answered so far, and the probe in flight is
\* not counted before it is settled.
ListKept ==
  ~scan.flawed =>
    /\ scan.active => Lists(scan.found, acked \ {scan.addr})
    /\ scan.complete => Lists(scan.found, acked)

\* The invariant of the scan.
ScanInv == ProbeOnce /\ ProbesAhead /\ ProbesAnswered /\ AckedInRange /\ ListKept

\* The state of the scan that a step of another client leaves alone.
scanLine == <<scan, acked, "scan" \in pending, active["scan"]>>

\* A larger address that answered joins the list, or finds it full.
LEMMA ListGrows ==
  ASSUME NEW found \in Seq(Nat), NEW S \in SUBSET Nat, IsFiniteSet(S), Lists(found, S),
         NEW a \in Nat, \A x \in S : x < a
  PROVE  Lists(IF Len(found) < MaxFound THEN Append(found, a) ELSE found, S \cup {a})
<1>1. Cardinality(S) \in Nat /\ Cardinality(S \cup {a}) = Cardinality(S) + 1
  BY FS_CardinalityType, FS_AddElement
<1>2. MaxFound \in Nat /\ Len(found) \in Nat
  BY PipelineAssumption
<1>3. CASE Len(found) < MaxFound
  <2>1. /\ \A i \in DOMAIN Append(found, a) :
             \/ i \in DOMAIN found /\ Append(found, a)[i] = found[i]
             \/ i \notin DOMAIN found /\ Append(found, a)[i] = a
        /\ \A i, j \in DOMAIN Append(found, a) : i \notin DOMAIN found => ~(i < j)
    BY AppendPlaces
  <2>2. \A x \in ToSet(Append(found, a)) : x \in ToSet(found) \/ x = a
    BY ToSetAppend
  <2>3. \A i \in DOMAIN found : found[i] \in S
    BY DEF Lists, ToSet
  <2>4. ToSet(Append(found, a)) \subseteq S \cup {a}
    BY <2>2 DEF Lists
  <2>5. \A i, j \in DOMAIN Append(found, a) : i < j => Append(found, a)[i] < Append(found, a)[j]
    BY <2>1, <2>3 DEF Lists
  <2>6. Len(Append(found, a)) = Saturated(Cardinality(S \cup {a}), MaxFound)
    BY <1>1, <1>2, <1>3 DEF Lists, Saturated
  <2> QED BY <1>3, <2>4, <2>5, <2>6 DEF Lists
<1>4. CASE ~(Len(found) < MaxFound)
  BY <1>1, <1>2, <1>4 DEF Lists, Saturated
<1> QED BY <1>3, <1>4

\* Shorter queues and a scan left alone.
LEMMA ScanQuiet ==
  ASSUME ScanInv, UNCHANGED <<scanLine, reqQ, current>>,
         \A i \in DOMAIN resQ' : \E j \in DOMAIN resQ : resQ'[i] = resQ[j]
  PROVE  ScanInv'
<1> USE DEF scanLine
<1>1. ProbeOnce'
  BY DEF ScanInv, ProbeOnce, Probe
<1>2. ProbesAhead'
  BY DEF ScanInv, ProbesAhead, Probe
<1>3. ProbesAnswered'
  BY DEF ScanInv, ProbesAnswered, Probe
<1>4. AckedInRange'
  BY DEF ScanInv, AckedInRange
<1>5. ListKept'
  BY DEF ScanInv, ListKept, Lists
<1> QED BY <1>1, <1>2, <1>3, <1>4, <1>5 DEF ScanInv

\* A verdict for the probe in flight: the address is counted, and the list keeps up
\* with what answered.
LEMMA ScanSettled ==
  ASSUME TypeOK, ScanAccounting, ScanInv, NEW K, NEW st, NEW val, Settle(K, st, val),
         "scan" \in K, active["scan"] # 0, UNCHANGED <<reqQ, current, pending, acked>>,
         DOMAIN resQ' \subseteq Nat, \A i \in DOMAIN resQ' : resQ'[i].token # 0,
         st \notin Flaws =>
           scan.flawed \/ (val = scan.addr /\ (st = "ok" <=> scan.addr \in acked))
  PROVE  ScanInv'
<1>1. active'["scan"] = 0
  BY DEF Settle, Tracked, Clients
<1>2. /\ scan.active /\ "scan" \notin pending /\ scan.addr \in Nat /\ scan.addr <= LastAddr
      /\ scan.found \in Seq(Nat) /\ scan.flawed \in BOOLEAN
      /\ FirstAddr \in Nat /\ LastAddr \in Nat
  BY PipelineAssumption DEF ScanAccounting, TypeOK, SnapshotType
<1>3. /\ scan'.active = ~LastProbe /\ scan'.complete = LastProbe
      /\ scan'.flawed = (scan.flawed \/ st \in Flaws)
      /\ scan'.addr = (IF LastProbe THEN scan.addr ELSE scan.addr + 1)
      /\ scan'.found = (IF st = "ok" /\ Len(scan.found) < MaxFound
                        THEN Append(scan.found, val) ELSE scan.found)
  BY DEF Settle, ScanAfter
<1>4. acked \subseteq FirstAddr..scan.addr
  BY <1>2 DEF ScanInv, AckedInRange
<1>5. ProbeOnce'
  <2>1. /\ \A i \in DOMAIN reqQ' : reqQ'[i].token # 0
        /\ \A q \in current' : q.token # 0
    BY ItemTypes
  <2> QED BY <1>1, <2>1 DEF ProbeOnce, Probe
<1>6. ProbesAhead'
  <2>1. /\ \A i \in DOMAIN reqQ' : reqQ'[i].token # 0
        /\ \A q \in current' : q.token # 0
    BY ItemTypes
  <2>2. scan'.active => scan'.addr \notin acked
    <3>1. scan.addr + 1 \notin acked
      BY <1>2, <1>4
    <3> QED BY <1>3, <3>1
  <2> QED BY <1>1, <2>1, <2>2 DEF ProbesAhead, Probe
<1>7. ProbesAnswered'
  BY <1>1 DEF ProbesAnswered, Probe
<1>8. AckedInRange'
  BY <1>2, <1>3, <1>4 DEF AckedInRange
<1>9. ListKept'
  <2> SUFFICES ASSUME ~scan'.flawed PROVE ListKept'
    BY DEF ListKept
  <2> DEFINE Behind == acked \ {scan.addr}
  <2>1. /\ ~scan.flawed /\ st \notin Flaws /\ (st = "ok" <=> scan.addr \in acked)
        /\ st = "ok" => val = scan.addr
    BY <1>3
  <2>2. Lists(scan.found, Behind)
    BY <1>2, <2>1 DEF ScanInv, ListKept
  <2>3. IsFiniteSet(Behind) /\ Behind \in SUBSET Nat /\ \A x \in Behind : x < scan.addr
    <3>1. IsFiniteSet(FirstAddr..scan.addr)
      BY <1>2, FS_Interval
    <3>2. IsFiniteSet(Behind)
      BY <1>4, <3>1, FS_Subset
    <3>3. \A x \in acked : x \in Nat /\ x <= scan.addr
      BY <1>2, <1>4
    <3>4. \A x \in Behind : x \in Nat /\ x < scan.addr
      BY <1>2, <3>3
    <3> QED BY <3>2, <3>4
  <2> HIDE DEF Behind
  <2>4. Lists(scan'.found, acked)
    <3>1. CASE st = "ok"
      <4>1. acked = Behind \cup {scan.addr}
        BY <2>1, <3>1 DEF Behind
      <4>2. Lists(IF Len(scan.found) < MaxFound THEN Append(scan.found, scan.addr)
                  ELSE scan.found, Behind \cup {scan.addr})
        BY <1>2, <2>2, <2>3, ListGrows
      <4>3. scan'.found = (IF Len(scan.found) < MaxFound THEN Append(scan.found, scan.addr)
                           ELSE scan.found)
        BY <1>3, <2>1, <3>1
      <4> QED BY <4>1, <4>2, <4>3
    <3>2. CASE st # "ok"
      BY <1>3, <2>1, <2>2, <3>2 DEF Behind
    <3> QED BY <3>1, <3>2
  <2>5. scan'.active => acked \ {scan'.addr} = acked
    <3>1. scan.addr + 1 \notin acked
      BY <1>2, <1>4
    <3> QED BY <1>3, <3>1
  <2>6. (scan'.active => Lists(scan'.found, acked \ {scan'.addr}))
        /\ (scan'.complete => Lists(scan'.found, acked))
    BY <2>4, <2>5
  <2> QED BY <2>6 DEF ListKept, Lists
<1> QED BY <1>5, <1>6, <1>7, <1>8, <1>9 DEF ScanInv

\* Results and deadlines: a probe's own answer is believed, a deadline flaws the scan.
LEMMA ScanResults ==
  ASSUME TypeOK, TypeOK', ScanAccounting, ScanInv,
         ProcessResult \/ ProcessLateResult \/ HandleExpiredInFlight
  PROVE  ScanInv'
<1> USE DEF taskVars, settings, history
<1>0. "scan" \in Tracked /\ "scan" \notin Env
  BY DEF Tracked, Clients, Env
<1>1. ASSUME TakesResult, Drained
      PROVE  /\ \A i \in DOMAIN resQ' : \E j \in DOMAIN resQ : resQ'[i] = resQ[j]
             /\ UNCHANGED <<reqQ, current, pending, acked>>
             /\ Head(resQ) \in Result /\ Head(resQ) = resQ[1] /\ 1 \in DOMAIN resQ
  <2>1. resQ \in Seq(Result) /\ resQ # <<>> /\ resQ' = Tail(resQ)
    BY <1>1 DEF TypeOK, QueueType, TakesResult, Drained
  <2> QED BY <1>1, <2>1, TailPlaces DEF Drained
<1>2. DOMAIN resQ' \subseteq Nat /\ \A i \in DOMAIN resQ' : resQ'[i].token # 0
  <2>1. resQ' \in Seq(Result)
    BY DEF TypeOK, QueueType
  <2>2. DOMAIN resQ' \subseteq Nat /\ \A i \in DOMAIN resQ' : resQ'[i] \in Result
    BY <2>1
  <2> QED BY <2>2 DEF Result
<1>3. ASSUME NEW K, NEW st, NEW val, Settle(K, st, val), "scan" \notin K,
             UNCHANGED <<reqQ, current, pending, acked>>,
             \A i \in DOMAIN resQ' : \E j \in DOMAIN resQ : resQ'[i] = resQ[j]
      PROVE  ScanInv'
  <2>1. UNCHANGED scanLine
    BY <1>0, <1>3 DEF Settle, ScanAfter, scanLine
  <2> QED BY <1>3, <2>1, ScanQuiet
<1>4. ASSUME NEW K, Settle(K, "timeout", 0), "scan" \in K => active["scan"] # 0,
             UNCHANGED <<reqQ, current, pending, acked>>,
             \A i \in DOMAIN resQ' : \E j \in DOMAIN resQ : resQ'[i] = resQ[j]
      PROVE  ScanInv'
  <2>1. "timeout" \in Flaws
    BY DEF Flaws
  <2> QED BY <1>2, <1>3, <1>4, <2>1, ScanSettled
<1>5. CASE ProcessResult
  <2> DEFINE r == Head(resQ)
  <2>1. TakesResult /\ Drained /\ Settle(Owners(r), r.status, r.val)
    BY <1>5 DEF ProcessResult
  <2>2. CASE "scan" \notin Owners(r)
    BY <1>1, <1>3, <2>1, <2>2
  <2>3. CASE "scan" \in Owners(r)
    <3>1. Probe(r) /\ r.token # 0
      BY <1>1, <2>1, <2>3 DEF Owners, Rtc, Env, Probe, Result
    <3>2. active["scan"] # 0 /\ scan.active
      BY <3>1 DEF Probe, ScanAccounting
    <3>3. r.status \notin Flaws =>
            scan.flawed \/ (r.val = scan.addr /\ (r.status = "ok" <=> scan.addr \in acked))
      BY <1>1, <2>1, <3>1, <3>2 DEF ScanInv, ProbesAnswered
    <3> HIDE DEF r
    <3> QED BY <1>1, <1>2, <2>1, <2>3, <3>2, <3>3, ScanSettled
  <2> QED BY <2>2, <2>3
<1>6. CASE ProcessLateResult
  <2>1. TakesResult /\ Drained /\ Settle(LateOwners(Head(resQ)), "timeout", 0)
    BY <1>6 DEF ProcessLateResult
  <2>2. "scan" \notin LateOwners(Head(resQ))
    BY DEF LateOwners, Rtc, Env
  <2> QED BY <1>1, <1>4, <2>1, <2>2
<1>7. CASE HandleExpiredInFlight
  <2>1. Settle(ExpiredInFlight, "timeout", 0)
        /\ UNCHANGED <<reqQ, resQ, current, pending, acked>>
    BY <1>7 DEF HandleExpiredInFlight
  <2>2. "scan" \in ExpiredInFlight => active["scan"] # 0
    BY DEF ExpiredInFlight
  <2> QED BY <1>4, <2>1, <2>2
<1> QED BY <1>5, <1>6, <1>7

\* A request queue whose probes are those it had, and a scan left alone.
LEMMA ScanRequests ==
  ASSUME ScanInv, UNCHANGED <<scanLine, resQ, current>>,
         \A i \in DOMAIN reqQ' : Probe(reqQ'[i]) => i \in DOMAIN reqQ /\ reqQ'[i] = reqQ[i]
  PROVE  ScanInv'
<1> USE DEF scanLine
<1>1. ProbeOnce'
  BY DEF ScanInv, ProbeOnce, Probe
<1>2. ProbesAhead'
  BY DEF ScanInv, ProbesAhead, Probe
<1>3. ProbesAnswered'
  BY DEF ScanInv, ProbesAnswered, Probe
<1>4. AckedInRange'
  BY DEF ScanInv, AckedInRange
<1>5. ListKept'
  BY DEF ScanInv, ListKept, Lists
<1> QED BY <1>1, <1>2, <1>3, <1>4, <1>5 DEF ScanInv

\* A scan is accepted when none is in flight, and starts with an empty list.
LEMMA ScanCommand ==
  ASSUME TypeOK, ScanInv, Command
  PROVE  ScanInv'
<1> USE DEF taskVars, history, snapshots
<1>1. CASE QueueBusScan
  <2>1. /\ active["scan"] = 0 /\ UNCHANGED <<active, reqQ, resQ, current>>
        /\ ~scan'.active /\ ~scan'.complete /\ acked' = {}
    BY <1>1 DEF QueueBusScan, Idle
  <2>2. ProbeOnce' /\ ProbesAhead'
    BY <2>1, ItemTypes DEF ProbeOnce, ProbesAhead, Probe
  <2>3. ProbesAnswered' /\ AckedInRange' /\ ListKept'
    BY <2>1 DEF ProbesAnswered, AckedInRange, ListKept
  <2> QED BY <2>2, <2>3 DEF ScanInv
<1>2. CASE QueueRaw \/ QueueRtcSet \/ QueueBusRecover
  BY <1>2, ScanQuiet DEF QueueRaw, QueueRtcSet, QueueBusRecover, scanLine
<1>3. CASE ApplySettings
  <2> DEFINE f == [kind |-> "setFreq", token |-> cfg + 1, val |-> 0]
  <2>1. UNCHANGED <<scanLine, resQ, current>> /\ active' = active
    BY <1>3 DEF ApplySettings, scanLine
  <2>2. f \in Request /\ f.kind # "scan"
    BY DEF Request, Kinds, TypeOK, SensorType
  <2>3. reqQ' = Append(reqQ, f) \/ reqQ' = reqQ
    BY <1>3 DEF ApplySettings
  <2> HIDE DEF f
  <2>4. \A i \in DOMAIN reqQ' : Probe(reqQ'[i]) => i \in DOMAIN reqQ /\ reqQ'[i] = reqQ[i]
    BY <2>2, <2>3, AppendPlaces DEF TypeOK, QueueType, Probe
  <2> QED BY <2>1, <2>4, ScanRequests
<1> QED BY <1>1, <1>2, <1>3 DEF Command

\* What a slot makes of the scan: it starts with the empty list, or goes on; a queue
\* that is full flaws it.
LEMMA ScanSlot ==
  ASSUME TypeOK, ScanAccounting, ScanInv, ScheduleScan
  PROVE  /\ active["scan"] = 0 /\ "scan" \notin pending' /\ acked' = acked
         /\ scan'.active /\ ~scan'.complete /\ scan'.addr \notin acked /\ scan'.addr \in Nat
         /\ acked \subseteq FirstAddr..scan'.addr
         /\ ~scan'.flawed => Lists(scan'.found, acked)
         /\ scan' = ScanStarted \/ scan'.flawed
<1>1. active["scan"] = 0 /\ ("scan" \in pending \/ scan.active)
  BY TurnFacts DEF ScheduleScan, Eligible, Clients, Tracked
<1>2. "scan" \notin pending' /\ acked' = acked
  BY DEF ScheduleScan, history
<1>3. ScanStarted \in [active : BOOLEAN, complete : BOOLEAN, flawed : BOOLEAN,
                       addr : Nat, total : Nat, found : Seq(Nat)]
  BY PipelineAssumption DEF ScanStarted, TypeOK, SnapshotType
<1>4. /\ scan' = ScanStarted \/ scan'.flawed
      /\ scan'.active = ScanStarted.active /\ scan'.complete = ScanStarted.complete
      /\ scan'.addr = ScanStarted.addr /\ ScanStarted.addr \in Nat
      /\ ~scan'.flawed => ~ScanStarted.flawed /\ scan'.found = ScanStarted.found
  BY <1>3 DEF ScheduleScan
<1>5. CASE "scan" \in pending
  <2>1. /\ ScanStarted.active /\ ~ScanStarted.complete /\ acked = {}
        /\ ScanStarted.found = <<>>
    BY <1>5 DEF ScanStarted, ScanInv, AckedInRange
  <2>2. Lists(<<>>, {})
    BY FS_EmptySet, PipelineAssumption DEF Lists, ToSet, Saturated
  <2> QED BY <1>1, <1>2, <1>4, <2>1, <2>2
<1>6. CASE "scan" \notin pending
  <2>1. ScanStarted = scan /\ scan.active /\ ~scan.complete
    BY <1>1, <1>6 DEF ScanStarted, ScanAccounting
  <2>2. scan.addr \notin acked /\ acked \subseteq FirstAddr..scan.addr
    BY <1>1, <2>1 DEF ScanInv, ProbesAhead, AckedInRange
  <2>3. ~scan.flawed => Lists(scan.found, acked \ {scan.addr})
    BY <2>1 DEF ScanInv, ListKept
  <2>4. acked \ {scan.addr} = acked
    BY <2>2
  <2> QED BY <1>1, <1>2, <1>4, <2>1, <2>2, <2>3, <2>4
<1> QED BY <1>5, <1>6

\* A queue that is appended to has one new place.
LEMMA LastPlace ==
  ASSUME TypeOK, NEW e \in Request, reqQ' = Append(reqQ, e)
  PROVE  \A i, j \in DOMAIN reqQ' : i \notin DOMAIN reqQ /\ j \notin DOMAIN reqQ => i = j
<1>1. reqQ \in Seq(Request)
  BY DEF TypeOK, QueueType
<1> QED BY <1>1

\* A probe joins the request queue under a token nothing else carries, and asks for an
\* address that has not answered.
LEMMA ScanSchedule ==
  ASSUME TypeOK, TokensIssued, ScanAccounting, ScanInv, Schedule
  PROVE  ScanInv'
<1>1. "scan" \in Tracked /\ active \in [Tracked -> Nat]
  BY DEF Tracked, Clients, TypeOK, ClientType
<1>2. UNCHANGED <<resQ, current>>
  BY ScheduleFacts
<1>3. CASE ScheduleScan
  <2>1. CASE UNCHANGED <<reqQ, active>>
    <3>1. ProbeOnce'
      BY <1>2, <2>1 DEF ScanInv, ProbeOnce, Probe
    <3>2. ProbesAhead'
      BY <1>2, <1>3, <2>1, ScanSlot, ItemTypes DEF ProbesAhead, Probe
    <3>3. ProbesAnswered'
      BY <1>2, <1>3, <2>1, ScanSlot, ItemTypes DEF ProbesAnswered, Probe
    <3>4. AckedInRange' /\ ListKept'
      <4>1. scan'.active => acked \ {scan'.addr} = acked
        BY <1>3, ScanSlot
      <4> QED BY <1>3, <4>1, ScanSlot DEF AckedInRange, ListKept, Lists
    <3> QED BY <3>1, <3>2, <3>3, <3>4 DEF ScanInv
  <2>2. CASE ~UNCHANGED <<reqQ, active>>
    <3>1. /\ reqQ' = Append(reqQ, [kind |-> "scan", token |-> nextToken, val |-> scan'.addr])
          /\ active' = [active EXCEPT !["scan"] = nextToken]
      BY <1>1, <1>3, <2>2 DEF ScheduleScan, Send, QueueFull
    <3>0. PICK e : e = [kind |-> "scan", token |-> nextToken, val |-> scan'.addr]
      OBVIOUS
    <3>2. /\ e \in Request /\ e.kind = "scan" /\ e.token = nextToken /\ e.val = scan'.addr
          /\ reqQ' = Append(reqQ, e)
      BY <3>0, <1>3, <3>1, ScanSlot, NextTokenFacts DEF TypeOK, Request, Kinds, Clients
    <3>3. active'["scan"] = nextToken
      BY <1>1, <3>1
    <3>4. /\ \A i \in DOMAIN reqQ' :
               \/ i \in DOMAIN reqQ /\ reqQ'[i] = reqQ[i]
               \/ i \notin DOMAIN reqQ /\ reqQ'[i] = e
          /\ \A i, j \in DOMAIN reqQ' : i \notin DOMAIN reqQ => ~(i < j)
      BY <3>2, RequestPlaces
    <3>5. /\ \A i \in DOMAIN reqQ : reqQ[i].kind = "scan" => reqQ[i].token # nextToken
          /\ \A i \in DOMAIN resQ : resQ[i].kind = "scan" => resQ[i].token # nextToken
          /\ \A q \in current : q.kind = "scan" => q.token # nextToken
      BY FreshIsFree DEF Items, ToSet
    <3>6. /\ \A i \in DOMAIN resQ' : ~Probe(resQ[i])'
          /\ \A q \in current' : ~Probe(q)'
      BY <1>2, <3>3, <3>5 DEF Probe
    <3>7. \A i \in DOMAIN reqQ' : Probe(reqQ[i])' => i \notin DOMAIN reqQ /\ reqQ'[i] = e
      BY <3>3, <3>4, <3>5 DEF Probe
    <3>8. \A i, j \in DOMAIN reqQ' : i \notin DOMAIN reqQ /\ j \notin DOMAIN reqQ => i = j
      BY <3>2, LastPlace
    <3>9. ProbeOnce'
      BY <3>6, <3>7, <3>8 DEF ProbeOnce, Probe
    <3>10. ProbesAhead'
      BY <1>3, <3>1, <3>2, <3>3, <3>6, <3>7, ScanSlot, NextTokenFacts DEF TypeOK, ProbesAhead, Probe
    <3>11. ProbesAnswered'
      BY <3>6 DEF ProbesAnswered, Probe
    <3>12. AckedInRange' /\ ListKept'
      <4>1. scan'.active => acked \ {scan'.addr} = acked
        BY <1>3, ScanSlot
      <4> QED BY <1>3, <4>1, ScanSlot DEF AckedInRange, ListKept, Lists
    <3> QED BY <3>9, <3>10, <3>11, <3>12 DEF ScanInv
  <2> QED BY <2>1, <2>2
<1>4. CASE ~ScheduleScan
  <2>1. UNCHANGED <<scan, acked, "scan" \in pending>>
    <3>1. UNCHANGED <<scan, acked>>
      BY <1>4 DEF Schedule, ScheduleRecover, ScheduleRaw, ScheduleRtcSet, ScheduleEnvRead,
         ScheduleRtcRead, ScheduleEnvTrigger, ScheduleDisplay, snapshots, history
    <3>2. pending' = pending \/ \E k \in Clients \ {"scan"} : pending' = pending \ {k}
      BY <1>4 DEF Schedule, ScheduleRecover, ScheduleRaw, ScheduleRtcSet, ScheduleEnvRead,
         ScheduleRtcRead, ScheduleEnvTrigger, ScheduleDisplay, Clients
    <3>3. ("scan" \in pending') = ("scan" \in pending)
      BY <3>2
    <3> QED BY <3>1, <3>3
  <2>2. CASE UNCHANGED <<reqQ, active>>
    BY <1>2, <2>1, <2>2, ScanQuiet DEF scanLine
  <2>3. CASE \E k \in Clients : \E v \in Nat :
               /\ Asks(k, v)
               /\ reqQ' = Append(reqQ, [kind |-> k, token |-> nextToken, val |-> v])
               /\ active' = IF k \in Tracked THEN [active EXCEPT ![k] = nextToken] ELSE active
    <3>1. PICK k \in Clients, v \in Nat :
            /\ Asks(k, v)
            /\ reqQ' = Append(reqQ, [kind |-> k, token |-> nextToken, val |-> v])
            /\ active' = IF k \in Tracked THEN [active EXCEPT ![k] = nextToken] ELSE active
      BY <2>3
    <3>0. PICK e : e = [kind |-> k, token |-> nextToken, val |-> v]
      OBVIOUS
    <3>2. e \in Request /\ e.kind = k /\ reqQ' = Append(reqQ, e)
      BY <3>0, <3>1, NextTokenFacts DEF TypeOK, Request, Kinds
    <3>3. k # "scan" /\ active'["scan"] = active["scan"]
      BY <1>1, <1>4, <3>1 DEF Asks
    <3>4. \A i \in DOMAIN reqQ' :
            (i \in DOMAIN reqQ /\ reqQ'[i] = reqQ[i]) \/ (i \notin DOMAIN reqQ /\ reqQ'[i] = e)
      BY <3>2, RequestPlaces
    <3>5. \A i \in DOMAIN reqQ' : Probe(reqQ'[i]) => i \in DOMAIN reqQ /\ reqQ'[i] = reqQ[i]
      BY <3>2, <3>3, <3>4 DEF Probe
    <3> QED BY <1>2, <2>1, <3>3, <3>5, ScanRequests DEF scanLine
  <2> QED BY <2>2, <2>3, ScheduleFacts
<1> QED BY <1>3, <1>4

\* The task moves the probe from place to place; its answer and what answered on the bus
\* come in one step.
LEMMA ScanTask ==
  ASSUME TypeOK, ScanAccounting, ScanInv, Task
  PROVE  ScanInv'
<1> USE DEF taskVars, history, snapshots
<1>1. reqQ \in Seq(Request) /\ resQ \in Seq(Result)
  BY DEF TypeOK, QueueType
<1>2. ASSUME reqQ # <<>>, reqQ' = Tail(reqQ)
      PROVE  /\ Head(reqQ) = reqQ[1] /\ 1 \in DOMAIN reqQ /\ DOMAIN reqQ' \subseteq Nat
             /\ \A i \in DOMAIN reqQ' : i + 1 \in DOMAIN reqQ /\ i + 1 # 1 /\ reqQ'[i] = reqQ[i + 1]
             /\ \A i, j \in DOMAIN reqQ' : i + 1 = j + 1 => i = j
  BY <1>1, <1>2
<1>3. CASE FetchExpired
  <2>1. PICK res \in Result : /\ QueueResult(res) /\ res.status = "timeout"
                             /\ res.kind = Head(reqQ).kind /\ res.token = Head(reqQ).token
    BY <1>3, FetchExpiredFacts
  <2>2. /\ current = {} /\ reqQ # <<>> /\ reqQ' = Tail(reqQ)
        /\ UNCHANGED <<current, active, pending, scan, acked>>
    BY <1>3 DEF FetchExpired
  <2>3. /\ \A i \in DOMAIN resQ' :
             (i \in DOMAIN resQ /\ resQ'[i] = resQ[i]) \/ (i \notin DOMAIN resQ /\ resQ'[i] = res)
    BY <2>1, ResultPlaces
  <2>4. Probe(res) <=> Probe(reqQ[1])
    BY <1>2, <2>1, <2>2 DEF Probe
  <2>5. ProbeOnce'
    BY <1>2, <2>2, <2>3, <2>4 DEF ScanInv, ProbeOnce, Probe
  <2>6. ProbesAhead'
    BY <1>2, <2>2 DEF ScanInv, ProbesAhead, Probe
  <2>7. ProbesAnswered'
    BY <2>1, <2>2, <2>3 DEF ScanInv, ProbesAnswered, Probe, Flaws
  <2>8. AckedInRange' /\ ListKept'
    BY <2>2 DEF ScanInv, AckedInRange, ListKept, Lists
  <2> QED BY <2>5, <2>6, <2>7, <2>8 DEF ScanInv
<1>4. CASE Fetch
  <2>1. /\ current = {} /\ current' = {Head(reqQ)} /\ reqQ # <<>> /\ reqQ' = Tail(reqQ)
        /\ UNCHANGED <<resQ, active, pending, scan, acked>>
    BY <1>4 DEF Fetch
  <2>2. ProbeOnce'
    BY <1>2, <2>1 DEF ScanInv, ProbeOnce, Probe
  <2>3. ProbesAhead'
    BY <1>2, <2>1 DEF ScanInv, ProbesAhead, Probe
  <2>4. ProbesAnswered'
    BY <2>1 DEF ScanInv, ProbesAnswered, Probe
  <2>5. AckedInRange' /\ ListKept'
    BY <2>1 DEF ScanInv, AckedInRange, ListKept, Lists
  <2> QED BY <2>2, <2>3, <2>4, <2>5 DEF ScanInv
<1>5. CASE Complete
  <2>1. PICK q \in current : \E st \in Outcomes(q.kind), res \in Result :
          /\ QueueResult(res) /\ res.kind = q.kind /\ res.token = q.token
          /\ res.val = IF q.kind = "rtcRead" THEN chip ELSE q.val
          /\ res.status \in {"timeout", st}
          /\ current' = {} /\ UNCHANGED <<active, reqQ, pending, scan>>
          /\ acked' = IF q.kind = "scan" /\ q.token = active["scan"] /\ st = "ok"
                      THEN acked \cup {q.val} ELSE acked
    BY <1>5, CompleteFacts
  <2>2. PICK st \in Outcomes(q.kind), res \in Result :
          /\ QueueResult(res) /\ res.kind = q.kind /\ res.token = q.token
          /\ res.val = IF q.kind = "rtcRead" THEN chip ELSE q.val
          /\ res.status \in {"timeout", st}
          /\ current' = {} /\ UNCHANGED <<active, reqQ, pending, scan>>
          /\ acked' = IF q.kind = "scan" /\ q.token = active["scan"] /\ st = "ok"
                      THEN acked \cup {q.val} ELSE acked
    BY <2>1
  <2>3. /\ \A i \in DOMAIN resQ' :
             (i \in DOMAIN resQ /\ resQ'[i] = resQ[i]) \/ (i \notin DOMAIN resQ /\ resQ'[i] = res)
    BY <2>2, ResultPlaces
  <2>4. Probe(res) <=> Probe(q)
    BY <2>2 DEF Probe
  <2>5. ProbeOnce'
    BY <2>2, <2>3, <2>4 DEF ScanInv, ProbeOnce, Probe
  <2>6. CASE ~Probe(q)
    <3>1. acked' = acked
      BY <2>2, <2>6 DEF Probe
    <3>2. ProbesAhead'
      BY <2>2, <3>1 DEF ScanInv, ProbesAhead, Probe
    <3>3. ProbesAnswered'
      BY <2>2, <2>3, <2>4, <2>6, <3>1 DEF ScanInv, ProbesAnswered, Probe
    <3>4. AckedInRange' /\ ListKept'
      BY <2>2, <3>1 DEF ScanInv, AckedInRange, ListKept, Lists
    <3> QED BY <2>5, <3>2, <3>3, <3>4 DEF ScanInv
  <2>7. CASE Probe(q)
    <3>1. /\ q.kind = "scan" /\ active["scan"] # 0 /\ scan.active /\ ~scan.complete
          /\ "scan" \notin pending
      BY <2>7, ItemTypes DEF Probe, ScanAccounting
    <3>2. /\ \A i \in DOMAIN reqQ : ~Probe(reqQ[i])
          /\ \A i \in DOMAIN resQ : ~Probe(resQ[i])
          /\ q.val = scan.addr /\ scan.addr \notin acked
      BY <2>7 DEF ScanInv, ProbeOnce, ProbesAhead
    <3>3. acked' = IF st = "ok" THEN acked \cup {scan.addr} ELSE acked
      BY <2>2, <2>7, <3>2 DEF Probe
    <3>4. ProbesAhead'
      BY <2>2, <3>1, <3>2 DEF ProbesAhead, Probe
    <3>5. res.val = scan.addr /\ (res.status \notin Flaws => (res.status = "ok" <=> st = "ok"))
      BY <2>2, <3>1, <3>2 DEF Flaws
    <3>6. ProbesAnswered'
      BY <2>2, <2>3, <3>2, <3>3, <3>5 DEF ProbesAnswered, Probe
    <3>7. AckedInRange'
      <4>1. acked \subseteq FirstAddr..scan.addr /\ FirstAddr <= scan.addr
            /\ scan.addr \in Nat /\ FirstAddr \in Nat
        BY <3>1, PipelineAssumption DEF ScanInv, AckedInRange, ScanAccounting, TypeOK, SnapshotType
      <4>2. scan.addr \in FirstAddr..scan.addr
        BY <4>1
      <4>3. acked' \subseteq FirstAddr..scan.addr
        BY <3>3, <4>1, <4>2
      <4> QED BY <2>2, <3>1, <4>3 DEF AckedInRange
    <3>8. ListKept'
      <4>1. acked' \ {scan.addr} = acked \ {scan.addr}
        BY <3>3
      <4> QED BY <2>2, <3>1, <4>1 DEF ScanInv, ListKept, Lists
    <3> QED BY <2>5, <3>4, <3>6, <3>7, <3>8 DEF ScanInv
  <2> QED BY <2>6, <2>7
<1> QED BY <1>3, <1>4, <1>5 DEF Task

\* Nothing has been asked for at the start.
LEMMA ScanInit == Init => ScanInv
<1> SUFFICES ASSUME Init PROVE ScanInv
  OBVIOUS
<1>1. /\ reqQ = <<>> /\ resQ = <<>> /\ current = {} /\ acked = {} /\ pending = {}
      /\ ~scan.active /\ ~scan.complete
  BY DEF Init
<1> QED BY <1>1 DEF ScanInv, ProbeOnce, ProbesAhead, ProbesAnswered, AckedInRange, ListKept

\* A complete scan without timeouts or errors lists exactly the addresses that answered,
\* in order, up to the capacity of the snapshot, for any range, capacities and
\* interleavings, whatever results are late, lost or of an earlier scan.
THEOREM ScanAlwaysHonest == Spec => []ScanHonest
<1>1. TypeOK /\ TokensIssued /\ TypeOK' /\ ScanAccounting /\ ScanInv /\ [Next]_vars => ScanInv'
  <2> SUFFICES ASSUME TypeOK, TokensIssued, TypeOK', ScanAccounting, ScanInv, [Next]_vars
               PROVE  ScanInv'
    OBVIOUS
  <2>1. CASE EndTick \/ PassDeadline \/ UNCHANGED vars
    <3>1. UNCHANGED <<scan, acked, pending, active, reqQ, resQ, current>>
      BY <2>1 DEF EndTick, PassDeadline, PassDeadlineOf, vars, snapshots, taskVars, history
    <3> QED BY <3>1, ScanQuiet DEF scanLine
  <2> QED BY <2>1, ScanCommand, ScanResults, ScanSchedule, ScanTask DEF Next, Tick
<1>2. ScanInv => ScanHonest
  BY DEF ScanInv, ListKept, Lists, ScanHonest
<1> QED BY ScanInit, TypeCorrect, TokensAlwaysIssued, ScanAlwaysAccounted, <1>1, <1>2, PTL DEF Spec

-----------------------------------------------------------------------------
(* The raw snapshot takes the steps of a one-shot operation. *)

\* What the snapshot shows of an operation depends on these only.
LEMMA ShownStutter ==
  UNCHANGED <<raw, ranRaw>> => UNCHANGED OneShotRaw!vars
  BY DEF OneShotRaw!vars, RawPhase

\* The phase each flag stands for.
LEMMA ShownPhase ==
  ASSUME RawFlagsAgree
  PROVE  /\ "raw" \in pending => RawPhase = "queued"
         /\ active["raw"] # 0 => RawPhase = "inflight"
         /\ "raw" \notin pending /\ active["raw"] = 0 => RawPhase \in {"idle", "done"}
  BY DEF RawFlagsAgree, RawPhase

\* A verdict for the operation answers it, and with the bus's own word unless time is up.
LEMMA ShownVerdict ==
  ASSUME RawFlagsAgree, NEW K, NEW st \in Status, NEW val, Settle(K, st, val),
         UNCHANGED ranRaw, "raw" \in K => active["raw"] # 0 /\ st \in {"timeout", ranRaw}
  PROVE  [OneShotRaw!Next]_(OneShotRaw!vars)
<1>1. CASE "raw" \notin K
  <2>1. raw' = raw
    BY <1>1 DEF Settle, RawAfter
  <2> QED BY <2>1, ShownStutter
<1>2. CASE "raw" \in K
  <2>1. RawPhase = "inflight" /\ st \in {"timeout", ranRaw} \ {"none"}
    BY <1>2, ShownPhase DEF Status
  <2>2. ~raw'.queued /\ ~raw'.active /\ raw'.complete /\ raw'.status = st
    BY <1>2 DEF Settle, RawAfter
  <2>3. RawPhase' = "done"
    BY <2>2 DEF RawPhase
  <2>4. OneShotRaw!Answer
    BY <2>1, <2>2, <2>3 DEF OneShotRaw!Answer
  <2> QED BY <2>4 DEF OneShotRaw!Next
<1> QED BY <1>1, <1>2

\* Every step of the pipeline is a step of the one-shot operation or a stutter.
LEMMA ShownStep ==
  ASSUME TypeOK, RawFlagsAgree, RawInv, [Next]_vars
  PROVE  [OneShotRaw!Next]_(OneShotRaw!vars)
<1> USE DEF snapshots, history, taskVars
<1>1. CASE QueueRaw
  <2>1. /\ RawPhase \in {"idle", "done"}
        /\ raw'.queued /\ ranRaw' = "none"
    BY <1>1, ShownPhase DEF QueueRaw, Idle
  <2>2. RawPhase' = "queued"
    BY <2>1 DEF RawPhase
  <2>3. OneShotRaw!Ask
    BY <2>1, <2>2 DEF OneShotRaw!Ask
  <2> QED BY <2>3 DEF OneShotRaw!Next
<1>2. CASE ScheduleRaw
  <2>1. RawPhase = "queued" /\ ranRaw' = ranRaw
    BY <1>2, TurnFacts, ShownPhase DEF ScheduleRaw, Eligible, Clients
  <2>2. CASE raw'.queued
    <3>1. RawPhase' = "queued"
      BY <2>2 DEF RawPhase
    <3> QED BY <2>1, <3>1 DEF OneShotRaw!vars
  <2>3. CASE ~raw'.queued
    <3>1. raw'.active
      BY <1>2, <2>3 DEF ScheduleRaw
    <3>2. RawPhase' = "inflight"
      BY <2>3, <3>1 DEF RawPhase
    <3>3. OneShotRaw!Send
      BY <2>1, <3>2 DEF OneShotRaw!Send
    <3> QED BY <3>3 DEF OneShotRaw!Next
  <2> QED BY <2>2, <2>3
<1>3. CASE Complete
  <2>1. PICK q \in current : \E st \in Outcomes(q.kind) :
          /\ UNCHANGED raw
          /\ ranRaw' = IF q.kind = "raw" /\ q.token = active["raw"] THEN st ELSE ranRaw
    BY <1>3 DEF Complete, Completes
  <2>2. PICK st \in Outcomes(q.kind) :
          /\ UNCHANGED raw
          /\ ranRaw' = IF q.kind = "raw" /\ q.token = active["raw"] THEN st ELSE ranRaw
    BY <2>1
  <2>3. CASE q.kind = "raw" /\ q.token = active["raw"]
    <3>1. active["raw"] # 0
      BY <2>3, ItemTypes
    <3>2. RawPhase = "inflight" /\ ranRaw = "none"
      BY <2>3, <3>1, ShownPhase DEF RawInv, RunOnce
    <3>3. ranRaw' \in RawVerdicts
      BY <2>2, <2>3 DEF Outcomes, Env, RawVerdicts
    <3>4. RawPhase' = RawPhase
      BY <2>2 DEF RawPhase
    <3>5. OneShotRaw!Run
      BY <2>2, <3>2, <3>3, <3>4 DEF OneShotRaw!Run
    <3> QED BY <3>5 DEF OneShotRaw!Next
  <2>4. CASE ~(q.kind = "raw" /\ q.token = active["raw"])
    BY <2>2, <2>4, ShownStutter
  <2> QED BY <2>3, <2>4
<1>4. ASSUME TakesResult
      PROVE  /\ Head(resQ) \in Result /\ Head(resQ) = resQ[1] /\ 1 \in DOMAIN resQ
             /\ Head(resQ).status \in Status /\ Head(resQ).token # 0
  <2>1. resQ \in Seq(Result) /\ resQ # <<>>
    BY <1>4 DEF TypeOK, QueueType, TakesResult
  <2>2. Head(resQ) \in Result /\ Head(resQ) = resQ[1] /\ 1 \in DOMAIN resQ
    BY <2>1, TailPlaces
  <2> QED BY <2>2 DEF Result
<1>5. "timeout" \in Status
  BY DEF Status
<1>6. CASE ProcessResult
  <2> DEFINE r == Head(resQ)
  <2>1. TakesResult /\ UNCHANGED ranRaw /\ Settle(Owners(r), r.status, r.val)
    BY <1>6 DEF ProcessResult, Drained
  <2>2. "raw" \in Owners(r) => active["raw"] # 0 /\ r.token = active["raw"]
    BY <1>4, <2>1 DEF Owners, Rtc, Env
  <2>3. "raw" \in Owners(r) => r.status \in {"timeout", ranRaw}
    BY <1>4, <2>1, <2>2 DEF RawInv, RunOnce
  <2> QED BY <1>4, <2>1, <2>2, <2>3, ShownVerdict
<1>7. CASE ProcessLateResult
  <2>1. TakesResult /\ UNCHANGED ranRaw /\ Settle(LateOwners(Head(resQ)), "timeout", 0)
    BY <1>7 DEF ProcessLateResult, Drained
  <2>2. "raw" \in LateOwners(Head(resQ)) => active["raw"] # 0
    BY <1>4, <2>1, SettledInFlight
  <2> QED BY <1>5, <2>1, <2>2, ShownVerdict
<1>8. CASE HandleExpiredInFlight
  <2>1. UNCHANGED ranRaw /\ Settle(ExpiredInFlight, "timeout", 0)
    BY <1>8 DEF HandleExpiredInFlight
  <2>2. "raw" \in ExpiredInFlight => active["raw"] # 0
    BY SettledInFlight
  <2> QED BY <1>5, <2>1, <2>2, ShownVerdict
<1>9. CASE ~(QueueRaw \/ ScheduleRaw \/ Complete \/ ProcessResult \/ ProcessLateResult
             \/ HandleExpiredInFlight)
  <2>1. UNCHANGED <<raw, ranRaw>>
    BY <1>9 DEF Next, Tick, Command, QueueRtcSet, QueueBusRecover, QueueBusScan,
       ApplySettings, Schedule, ScheduleRecover, ScheduleRtcSet, ScheduleEnvRead,
       ScheduleRtcRead, ScheduleEnvTrigger, ScheduleDisplay, ScheduleScan, EndTick, Task,
       FetchExpired, Fetch, PassDeadline, PassDeadlineOf, vars
  <2> QED BY <2>1, ShownStutter
<1> QED BY <1>1, <1>2, <1>3, <1>6, <1>7, <1>8, <1>9

\* Whatever is late, lost or refused, the raw snapshot goes queued, in flight, done: it
\* is run at most once and answered with the bus's own word, or with a timeout.  That an
\* operation in flight is answered at all is the other half of ImplementsOneShot.
THEOREM RawIsOneShot ==
  ASSUME MaxApply <= TokenBase
  PROVE  Spec => OneShotRaw!SafeSpec
<1>1. Init => OneShotRaw!Init
  BY DEF Init, OneShotRaw!Init, RawPhase
<1>2. TypeOK /\ RawFlagsAgree /\ RawInv /\ [Next]_vars => [OneShotRaw!Next]_(OneShotRaw!vars)
  BY ShownStep
<1> QED BY <1>1, <1>2, TypeCorrect, RawFlagsAlwaysAgree, RawAlwaysInvariant, PTL
    DEF Spec, OneShotRaw!SafeSpec
=============================================================================
