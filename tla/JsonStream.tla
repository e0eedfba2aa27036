------------------------------ MODULE JsonStream ------------------------------
(***************************************************************************)
(* The graph and event answers of the web server.  One scratch copy and one *)
(* stream serve every request: the handler takes the scratch lock and       *)
(* copies the samples or events, callbacks of the connection write the      *)
(* answer piece by piece, and the last piece or the end of the connection   *)
(* releases stream and lock.  All of it runs in the network task, callback  *)
(* by callback, over several connections.                                   *)
(*                                                                          *)
(* Neither the piece-writing callback nor the one at the end of a           *)
(* connection asks whose stream it is.                                      *)
(***************************************************************************)
EXTENDS Naturals, Sequences

CONSTANTS
  Requests,      \* graph and event requests, each on a connection of its own
  Nobody,        \* no request
  MaxItems       \* bound: items of one answer

ASSUME JsonStreamAssumption == Nobody \notin Requests /\ MaxItems \in Nat

VARIABLES
  scratchMutex,  \* the request whose handler took the scratch lock, or Nobody
  scratch,       \* the request whose items the scratch holds
  jsonStream,    \* owner, phase, itemIndex and totalItems; owner Nobody when not active
  connection,    \* of each request: "new", "answering", "answered", "refused" or "closed"
  body,          \* what each request has been sent
  asked,         \* history: the items each request was to get
  met,           \* history: requests answered while another stream's connection was open
  cut            \* history: requests whose items could not all be written

jsonVars == <<scratchMutex, scratch, jsonStream, connection, body, asked, met, cut>>

Idle == [owner |-> Nobody, phase |-> "done", itemIndex |-> 0, totalItems |-> 0]
Active == jsonStream.owner # Nobody

JsonInit ==
  /\ scratchMutex = Nobody /\ scratch = Nobody /\ jsonStream = Idle
  /\ connection = [r \in Requests |-> "new"]
  /\ body = [r \in Requests |-> <<>>] /\ asked = [r \in Requests |-> 0]
  /\ met = {} /\ cut = {}

-----------------------------------------------------------------------------
(* The handlers of /api/graph and /api/events *)

(* The lock is taken, or the application's lock is, or there is no memory. *)
RefuseRequest(r) ==
  /\ connection[r] = "new"
  /\ connection' = [connection EXCEPT ![r] = "refused"]
  /\ UNCHANGED <<scratchMutex, jsonStream, body, asked, met, cut>>
  /\ \/ UNCHANGED scratch
     \/ scratchMutex = Nobody /\ scratch' = r

Answering == {s \in Requests : connection[s] = "answering"}
Open      == {s \in Requests : connection[s] \in {"answering", "answered"}}

BeginStream(r) ==
  /\ connection[r] = "new"
  /\ scratchMutex = Nobody /\ ~Active
  /\ scratchMutex' = r
  /\ scratch' = r
  /\ \E n \in 0..MaxItems :
       /\ jsonStream' = [owner |-> r, phase |-> "prefix", itemIndex |-> 0, totalItems |-> n]
       /\ asked' = [asked EXCEPT ![r] = n]
  /\ connection' = [connection EXCEPT ![r] = "answering"]
  /\ met' = met \union (IF Open = {} THEN {} ELSE {r} \union Answering)
  /\ UNCHANGED <<body, cut>>

-----------------------------------------------------------------------------
(* releaseJsonStream(): whoever calls it. *)
Release ==
  /\ jsonStream' = Idle
  /\ scratchMutex' = IF Active THEN Nobody ELSE scratchMutex

(* fillJsonStream(), one piece at a time: the piece belongs to the stream. *)
Piece(part) == [of |-> jsonStream.owner, part |-> part]
Send(r, part) == body' = [body EXCEPT ![r] = Append(@, Piece(part))]
NextPhase(p) == jsonStream' = [jsonStream EXCEPT !.phase = p]

FillPrefix(r) ==
  /\ jsonStream.phase = "prefix"
  /\ Send(r, "prefix")
  /\ NextPhase(IF jsonStream.totalItems > 0 THEN "item" ELSE "suffix")
  /\ UNCHANGED <<scratchMutex, connection, cut>>

\* Mutant: one comma too many.
FillItem_TrailingComma(r) ==
  /\ jsonStream.phase = "item"
  /\ Send(r, jsonStream.itemIndex)
  /\ jsonStream' = [jsonStream EXCEPT
       !.itemIndex = @ + 1,
       !.phase = IF jsonStream.itemIndex <= jsonStream.totalItems THEN "comma" ELSE "suffix"]
  /\ UNCHANGED <<scratchMutex, connection, cut>>

FillItem(r) ==
  /\ jsonStream.phase = "item"
  /\ Send(r, jsonStream.itemIndex)
  /\ jsonStream' = [jsonStream EXCEPT
       !.itemIndex = @ + 1,
       !.phase = IF jsonStream.itemIndex + 1 < jsonStream.totalItems THEN "comma" ELSE "suffix"]
  /\ UNCHANGED <<scratchMutex, connection, cut>>

(* An item that does not fit its buffer ends the list. *)
CutItems(r) ==
  /\ jsonStream.phase = "item"
  /\ jsonStream' = [jsonStream EXCEPT !.totalItems = jsonStream.itemIndex, !.phase = "suffix"]
  /\ cut' = cut \union {jsonStream.owner}
  /\ UNCHANGED <<scratchMutex, connection, body>>

FillComma(r) ==
  /\ jsonStream.phase = "comma"
  /\ Send(r, "comma")
  /\ NextPhase("item")
  /\ UNCHANGED <<scratchMutex, connection, cut>>

(* The stream is released at once when the buffer has room left after the last piece. *)
FillSuffix(r) ==
  /\ jsonStream.phase = "suffix"
  /\ Send(r, "suffix")
  /\ Release \/ (NextPhase("done") /\ UNCHANGED scratchMutex)
  /\ UNCHANGED <<connection, cut>>

(* A call that writes nothing ends the answer. *)
EndAnswer(r) ==
  /\ jsonStream.phase = "done"
  /\ Release
  /\ connection' = [connection EXCEPT ![r] = "answered"]
  /\ UNCHANGED <<body, cut>>

Fill(r) ==
  /\ connection[r] = "answering"
  /\ \/ FillPrefix(r) \/ FillItem(r) \/ CutItems(r) \/ FillComma(r) \/ FillSuffix(r)
     \/ EndAnswer(r)
  /\ UNCHANGED <<scratch, asked, met>>

\* Mutant: the end of the connection releases nothing.
CloseConnection_NoRelease(r) ==
  /\ connection[r] \in {"answering", "answered"}
  /\ connection' = [connection EXCEPT ![r] = "closed"]
  /\ UNCHANGED <<scratchMutex, jsonStream, scratch, body, asked, met, cut>>

(* onDisconnect: at the end of an answer, or before it. *)
CloseConnection(r) ==
  /\ connection[r] \in {"answering", "answered"}
  /\ connection' = [connection EXCEPT ![r] = "closed"]
  /\ Release
  /\ UNCHANGED <<scratch, body, asked, met, cut>>

-----------------------------------------------------------------------------
JsonNext ==
  \E r \in Requests : RefuseRequest(r) \/ BeginStream(r) \/ Fill(r) \/ CloseConnection(r)

(* The network library goes on with every open connection or closes it. *)
JsonFairness == \A r \in Requests : WF_jsonVars(Fill(r) \/ CloseConnection(r))

JsonSpec == JsonInit /\ [][JsonNext]_jsonVars /\ JsonFairness

-----------------------------------------------------------------------------
(* Properties *)

(* The scratch lock is held exactly while a stream is active, by the request that
   began it, and the scratch holds that request's items: no callback of another
   connection leaves the lock behind or lets a copy in under a stream. *)
ScratchHeldByStream ==
  /\ scratchMutex = jsonStream.owner
  /\ Active => scratch = jsonStream.owner

Whole(r) ==
  LET list == [i \in 1..(IF asked[r] = 0 THEN 0 ELSE 2 * asked[r] - 1) |->
                 [of |-> r, part |-> IF i % 2 = 1 THEN (i - 1) \div 2 ELSE "comma"]]
  IN <<[of |-> r, part |-> "prefix"]>> \o list \o <<[of |-> r, part |-> "suffix"]>>

(* An answer is whole and holds only its own pieces if no other stream's connection
   was open between its begin and its end and every item could be written.
   Without the first condition the end of an older connection cuts the answer off,
   and an older answer that has not ended yet takes pieces of it. *)
AloneIsWhole ==
  \A r \in Requests :
    connection[r] = "answered" /\ r \notin met \union cut => body[r] = Whole(r)

(* The stream does not stay with a request: it ends or its connection does, and the
   next request can have the scratch. *)
ScratchComesFree == []<>(scratchMutex = Nobody)
=============================================================================
