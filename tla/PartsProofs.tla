------------------------------ MODULE PartsProofs ------------------------------
(***************************************************************************)
(* Parts that share nothing with each other, for all values of their       *)
(* constants: who holds the scratch copy of the graph and event answers and *)
(* when an answer is whole; that the table of WebSocket clients agrees with *)
(* the library; that a multiple press of the button is a quick series.      *)
(***************************************************************************)
EXTENDS WebClients, JsonStream, Button, SequenceTheorems, WellFoundedInduction, TLAPS

-----------------------------------------------------------------------------
(* The scratch copy *)

Phases == {"prefix", "item", "comma", "suffix", "done"}
StreamStates == [owner : Requests \union {Nobody},
                 phase : Phases,
                 itemIndex : Nat, totalItems : Nat]

ConnectionStates == {"new", "answering", "answered", "refused", "closed"}

(* What is known of the stream: it is active only for a request that is being
   answered, and the scratch lock is held for it. *)
StreamInv ==
  /\ jsonStream \in StreamStates
  /\ connection \in [Requests -> ConnectionStates]
  /\ asked \in [Requests -> Nat]
  /\ Active => jsonStream.owner \in Requests /\ connection[jsonStream.owner] = "answering"
  /\ ScratchHeldByStream

\* Updates of the stream's state.
LEMMA StreamUpdates ==
  \A s \in StreamStates :
    /\ \A p \in Phases :
         /\ [s EXCEPT !.phase = p] \in StreamStates
         /\ [s EXCEPT !.phase = p].owner = s.owner
         /\ [s EXCEPT !.phase = p].phase = p
         /\ [s EXCEPT !.phase = p].itemIndex = s.itemIndex
         /\ [s EXCEPT !.phase = p].totalItems = s.totalItems
    /\ \A p \in Phases, i \in Nat :
         /\ [s EXCEPT !.itemIndex = i, !.phase = p] \in StreamStates
         /\ [s EXCEPT !.itemIndex = i, !.phase = p].owner = s.owner
         /\ [s EXCEPT !.itemIndex = i, !.phase = p].phase = p
         /\ [s EXCEPT !.itemIndex = i, !.phase = p].itemIndex = i
         /\ [s EXCEPT !.itemIndex = i, !.phase = p].totalItems = s.totalItems
    /\ \A p \in Phases, n \in Nat :
         /\ [s EXCEPT !.totalItems = n, !.phase = p] \in StreamStates
         /\ [s EXCEPT !.totalItems = n, !.phase = p].owner = s.owner
BY DEF StreamStates

\* The step from one item to the next.
LEMMA NextItem ==
  ASSUME jsonStream \in StreamStates, NEW p \in Phases, NEW k \in Nat,
         jsonStream' = [jsonStream EXCEPT !.itemIndex = k, !.phase = p]
  PROVE  /\ jsonStream' \in StreamStates
         /\ jsonStream'.owner = jsonStream.owner /\ jsonStream'.phase = p
         /\ jsonStream'.itemIndex = k /\ jsonStream'.totalItems = jsonStream.totalItems
BY DEF StreamStates

\* Without a stream nobody is the owner.
LEMMA IdleFacts == Idle \in StreamStates /\ Idle.owner = Nobody /\ Idle.phase = "done"
BY DEF Idle, StreamStates, Phases

\* What a piece does to stream and lock: it stays with its owner, or both are free.
LEMMA FillStep ==
  ASSUME StreamInv, NEW r \in Requests, Fill(r)
  PROVE  /\ jsonStream' \in StreamStates
         /\ \/ /\ jsonStream' = Idle
               /\ scratchMutex' = IF Active THEN Nobody ELSE scratchMutex
            \/ jsonStream'.owner = jsonStream.owner /\ scratchMutex' = scratchMutex
         /\ \/ connection' = connection
            \/ jsonStream' = Idle /\ connection' = [connection EXCEPT ![r] = "answered"]
         /\ UNCHANGED <<scratch, asked, met>>
<1>1. jsonStream \in StreamStates
  BY DEF StreamInv
<1>2. jsonStream.itemIndex \in Nat /\ jsonStream.itemIndex + 1 \in Nat
  BY <1>1 DEF StreamStates
<1>3. UNCHANGED <<scratch, asked, met>>
  BY DEF Fill
<1>4. CASE FillPrefix(r)
  <2>1. PICK p \in Phases : jsonStream' = [jsonStream EXCEPT !.phase = p]
    BY <1>4, Zenon DEF FillPrefix, NextPhase, Phases
  <2>2. jsonStream' \in StreamStates /\ jsonStream'.owner = jsonStream.owner
    BY <1>1, <2>1, StreamUpdates, Zenon
  <2> QED BY <1>3, <1>4, <2>2 DEF FillPrefix
<1>5. CASE FillItem(r)
  <2>1. PICK p \in Phases, i \in Nat :
          jsonStream' = [jsonStream EXCEPT !.itemIndex = i, !.phase = p]
    BY <1>2, <1>5, Zenon DEF FillItem, Phases
  <2>2. jsonStream' \in StreamStates /\ jsonStream'.owner = jsonStream.owner
    BY <1>1, <2>1, StreamUpdates, Zenon
  <2> QED BY <1>3, <1>5, <2>2 DEF FillItem
<1>6. CASE CutItems(r)
  <2>1. PICK p \in Phases, n \in Nat :
          jsonStream' = [jsonStream EXCEPT !.totalItems = n, !.phase = p]
    BY <1>2, <1>6, Zenon DEF CutItems, Phases
  <2>2. jsonStream' \in StreamStates /\ jsonStream'.owner = jsonStream.owner
    BY <1>1, <2>1, StreamUpdates, Zenon
  <2> QED BY <1>3, <1>6, <2>2 DEF CutItems
<1>7. CASE FillComma(r)
  <2>1. jsonStream' = [jsonStream EXCEPT !.phase = "item"]
        /\ UNCHANGED <<scratchMutex, connection>>
    BY <1>7 DEF FillComma, NextPhase
  <2>2. "item" \in Phases
    BY DEF Phases
  <2> QED BY <1>1, <1>3, <2>1, <2>2, StreamUpdates, Zenon
<1>8. CASE FillSuffix(r)
  <2>1. connection' = connection
    BY <1>8 DEF FillSuffix
  <2>2. CASE Release
    BY <1>3, <2>1, <2>2, IdleFacts DEF Release
  <2>3. CASE NextPhase("done") /\ UNCHANGED scratchMutex
    <3>1. "done" \in Phases
      BY DEF Phases
    <3> QED BY <1>1, <1>3, <2>1, <2>3, <3>1, StreamUpdates, Zenon DEF NextPhase
  <2> QED BY <1>8, <2>2, <2>3 DEF FillSuffix
<1>9. CASE EndAnswer(r)
  BY <1>3, <1>9, IdleFacts DEF EndAnswer, Release
<1> QED BY <1>4, <1>5, <1>6, <1>7, <1>8, <1>9 DEF Fill

\* Every step keeps it, whatever connection's callback runs.
LEMMA StreamStep ==
  ASSUME StreamInv, [JsonNext]_jsonVars PROVE StreamInv'
<1> USE DEF StreamInv, ScratchHeldByStream
<1>1. CASE UNCHANGED jsonVars
  BY <1>1 DEF jsonVars, Active
<1>2. ASSUME NEW r \in Requests, RefuseRequest(r)
      PROVE  StreamInv'
  BY <1>2 DEF RefuseRequest, ConnectionStates, Active
<1>3. ASSUME NEW r \in Requests, BeginStream(r)
      PROVE  StreamInv'
  <2>1. PICK n \in 0..MaxItems :
          /\ jsonStream' = [owner |-> r, phase |-> "prefix", itemIndex |-> 0, totalItems |-> n]
          /\ asked' = [asked EXCEPT ![r] = n]
    BY <1>3 DEF BeginStream
  <2>2. n \in Nat
    BY JsonStreamAssumption
  <2>3. jsonStream' \in StreamStates /\ jsonStream'.owner = r
    BY <2>1, <2>2 DEF StreamStates, Phases
  <2>4. asked' \in [Requests -> Nat]
    BY <2>1, <2>2
  <2>5. connection' = [connection EXCEPT ![r] = "answering"] /\ scratchMutex' = r /\ scratch' = r
    BY <1>3 DEF BeginStream
  <2>6. connection' \in [Requests -> ConnectionStates] /\ connection'[r] = "answering"
    BY <2>5 DEF ConnectionStates
  <2> QED BY <2>3, <2>4, <2>5, <2>6
<1>4. ASSUME NEW r \in Requests, Fill(r)
      PROVE  StreamInv'
  <2>1. connection' \in [Requests -> ConnectionStates]
    BY <1>4, FillStep DEF ConnectionStates
  <2>2. CASE jsonStream' = Idle
    BY <1>4, <2>1, <2>2, FillStep, IdleFacts DEF Active
  <2>3. CASE jsonStream' # Idle
    <3>1. jsonStream'.owner = jsonStream.owner /\ connection' = connection
      BY <1>4, <2>3, FillStep
    <3> QED BY <1>4, <2>1, <2>3, <3>1, FillStep DEF Active
  <2> QED BY <2>2, <2>3
<1>5. ASSUME NEW r \in Requests, CloseConnection(r)
      PROVE  StreamInv'
  <2>1. connection' \in [Requests -> ConnectionStates]
    BY <1>5 DEF CloseConnection, ConnectionStates
  <2> QED BY <1>5, <2>1, IdleFacts DEF CloseConnection, Release, Active
<1> QED BY <1>1, <1>2, <1>3, <1>4, <1>5 DEF JsonNext

\* It holds before the first request.
LEMMA StreamStart ==
  ASSUME JsonInit PROVE StreamInv
BY IdleFacts DEF JsonInit, StreamInv, ScratchHeldByStream, Active, ConnectionStates

\* The scratch lock (scratchMutex of WebServer.cpp) is held exactly while a stream
\* is active, by the request that began it, and the scratch holds that request's items,
\* although any connection's callback may release it.
THEOREM ScratchIsHeldByStream == JsonSpec => []ScratchHeldByStream
<1>1. StreamInv /\ [JsonNext]_jsonVars => StreamInv'
  BY StreamStep
<1>2. JsonInit => StreamInv
  BY StreamStart
<1>3. StreamInv => ScratchHeldByStream
  BY DEF StreamInv
<1> QED BY <1>1, <1>2, <1>3, PTL DEF JsonSpec

-----------------------------------------------------------------------------
(* Whole answers *)

Pieces == [of : Requests \union {Nobody}, part : Nat \union {"prefix", "comma", "suffix"}]

(* Items and commas of a list with n items. *)
ListPieces(n) == IF n = 0 THEN 0 ELSE 2 * n - 1

\* What a whole answer consists of, piece by piece.
LEMMA WholeFacts ==
  ASSUME NEW r \in Requests, asked[r] \in Nat
  PROVE  /\ Whole(r) \in Seq(Pieces)
         /\ Len(Whole(r)) = 2 + ListPieces(asked[r])
         /\ Whole(r)[1] = [of |-> r, part |-> "prefix"]
         /\ \A i \in Nat : i < asked[r] => Whole(r)[2 * i + 2] = [of |-> r, part |-> i]
         /\ \A i \in Nat : 0 < i /\ i < asked[r]
                             => Whole(r)[2 * i + 1] = [of |-> r, part |-> "comma"]
         /\ Whole(r)[2 + ListPieces(asked[r])] = [of |-> r, part |-> "suffix"]
<1> DEFINE n == ListPieces(asked[r])
           e(i) == [of |-> r, part |-> IF i % 2 = 1 THEN (i - 1) \div 2 ELSE "comma"]
           list == [i \in 1..n |-> e(i)]
           first == <<[of |-> r, part |-> "prefix"]>>
           last == <<[of |-> r, part |-> "suffix"]>>
<1>1. n \in Nat
  BY DEF ListPieces
<1>2. \A i \in Nat : i % 2 = 1 => (i - 1) \div 2 \in Nat
  OBVIOUS
<1>3. \A i \in 1..n : e(i) \in Pieces
  BY <1>1, <1>2 DEF Pieces
<1>4. list \in Seq(Pieces) /\ Len(list) = n /\ \A i \in 1..n : list[i] = e(i)
  <2> HIDE DEF n, e
  <2> QED BY <1>1, <1>3
<1>5. first \in Seq(Pieces) /\ Len(first) = 1 /\ first[1] = [of |-> r, part |-> "prefix"]
  BY DEF Pieces
<1>6. last \in Seq(Pieces) /\ Len(last) = 1 /\ last[1] = [of |-> r, part |-> "suffix"]
  BY DEF Pieces
<1>7. Whole(r) = (first \o list) \o last
  BY DEF Whole, ListPieces
<1>8. \A i \in Nat : i < asked[r] => 2 * i + 1 \in 1..n /\ e(2 * i + 1) = [of |-> r, part |-> i]
  BY DEF ListPieces
<1>9. \A i \in Nat : 0 < i /\ i < asked[r]
                       => 2 * i \in 1..n /\ e(2 * i) = [of |-> r, part |-> "comma"]
  BY DEF ListPieces
<1> HIDE DEF n, e, list, first, last
<1>10. /\ first \o list \in Seq(Pieces) /\ Len(first \o list) = n + 1
       /\ (first \o list)[1] = first[1]
       /\ \A i \in 1..n : (first \o list)[i + 1] = list[i]
  BY <1>1, <1>4, <1>5, ConcatProperties
<1>11. /\ Whole(r) \in Seq(Pieces) /\ Len(Whole(r)) = n + 2
       /\ Whole(r)[1] = first[1]
       /\ \A i \in 1..n : Whole(r)[i + 1] = list[i]
       /\ Whole(r)[n + 2] = last[1]
  <2> DEFINE front == first \o list
  <2>1. Whole(r) = front \o last /\ front \in Seq(Pieces) /\ Len(front) = n + 1
    BY <1>7, <1>10
  <2>2. front[1] = first[1] /\ \A i \in 1..n : front[i + 1] = list[i]
    BY <1>10
  <2> HIDE DEF front
  <2>3. /\ front \o last \in Seq(Pieces) /\ Len(front \o last) = n + 2
        /\ \A j \in 1..(n + 2) :
             (front \o last)[j] = IF j <= n + 1 THEN front[j] ELSE last[j - (n + 1)]
    <3>1. /\ front \o last \in Seq(Pieces) /\ Len(front \o last) = Len(front) + Len(last)
          /\ \A j \in 1..(Len(front) + Len(last)) :
               (front \o last)[j] = IF j <= Len(front) THEN front[j] ELSE last[j - Len(front)]
      BY <1>6, <2>1, ConcatProperties, Zenon
    <3>2. Len(front) + Len(last) = n + 2 /\ Len(front) = n + 1
      BY <1>1, <1>6, <2>1
    <3> QED BY <3>1, <3>2
  <2>4. /\ 1 \in 1..(n + 2) /\ n + 2 \in 1..(n + 2) /\ (n + 2) - (n + 1) = 1
        /\ 1 <= n + 1 /\ ~(n + 2 <= n + 1)
    BY <1>1
  <2>5. \A i \in 1..n : i + 1 \in 1..(n + 2) /\ i + 1 <= n + 1
    BY <1>1
  <2> QED BY <2>1, <2>2, <2>3, <2>4, <2>5
<1>12. \A i \in Nat : i < asked[r] => Whole(r)[2 * i + 2] = [of |-> r, part |-> i]
  <2>1. SUFFICES ASSUME NEW i \in Nat, i < asked[r]
                 PROVE  Whole(r)[2 * i + 2] = [of |-> r, part |-> i]
    OBVIOUS
  <2>2. 2 * i + 1 \in 1..n /\ e(2 * i + 1) = [of |-> r, part |-> i]
    BY <1>8, <2>1, Zenon
  <2>3. (2 * i + 1) + 1 = 2 * i + 2
    OBVIOUS
  <2>4. Whole(r)[(2 * i + 1) + 1] = list[2 * i + 1] /\ list[2 * i + 1] = e(2 * i + 1)
    BY <1>4, <1>11, <2>2, Zenon
  <2> QED BY <2>2, <2>3, <2>4, Zenon
<1>13. \A i \in Nat : 0 < i /\ i < asked[r]
                        => Whole(r)[2 * i + 1] = [of |-> r, part |-> "comma"]
  BY <1>4, <1>9, <1>11
<1> QED BY <1>1, <1>5, <1>6, <1>11, <1>12, <1>13 DEF n

\* A beginning of a sequence, and the next element, are a longer beginning.
LEMMA Longer ==
  ASSUME NEW S, NEW w \in Seq(S), NEW k \in 0..(Len(w) - 1)
  PROVE  Append(SubSeq(w, 1, k), w[k + 1]) = SubSeq(w, 1, k + 1)
<1>1. SubSeq(w, 1, k) \in Seq(S) /\ w[k + 1] \in S
  BY SubSeqProperties
<1>2. Append(SubSeq(w, 1, k), w[k + 1]) = SubSeq(w, 1, k) \o <<w[k + 1]>>
  BY <1>1
<1>3. k + 1 \in 1..Len(w) /\ (k + 1) - 1 = k
  OBVIOUS
<1> QED BY <1>2, <1>3, SubSeqRecursiveSecond

\* Counting pieces.
LEMMA ListArithmetic ==
  /\ ListPieces(0) = 0
  /\ \A n \in Nat : ListPieces(n) \in Nat
  /\ \A i, n \in Nat : i < n => 2 * i + 1 < 2 + ListPieces(n) /\ 2 * i < 2 + ListPieces(n)
  /\ \A i, n \in Nat : i < n /\ ~(i + 1 < n) => 1 + ListPieces(n) = 2 * i + 2
BY DEF ListPieces

(* How many pieces a stream has written in its phase. *)
Written(s) ==
  CASE s.phase = "prefix" -> 0
    [] s.phase = "item" -> 2 * s.itemIndex + 1
    [] s.phase = "comma" -> 2 * s.itemIndex
    [] s.phase = "suffix" -> 1 + ListPieces(s.totalItems)
    [] s.phase = "done" -> 2 + ListPieces(s.totalItems)

\* The phases, one by one.
LEMMA WrittenFacts ==
  ASSUME NEW s \in StreamStates
  PROVE  /\ s.phase = "prefix" => Written(s) = 0
         /\ s.phase = "item" => Written(s) = 2 * s.itemIndex + 1
         /\ s.phase = "comma" => Written(s) = 2 * s.itemIndex
         /\ s.phase = "suffix" => Written(s) = 1 + ListPieces(s.totalItems)
         /\ s.phase = "done" => Written(s) = 2 + ListPieces(s.totalItems)
BY DEF Written

(* The stream is the request's, and what was written is a beginning of the answer; or
   the stream is released, and the answer is written. *)
InStep(r) ==
  IF Active
    THEN /\ jsonStream.owner = r /\ jsonStream.totalItems = asked[r]
         /\ jsonStream.phase = "prefix" => jsonStream.itemIndex = 0
         /\ jsonStream.phase \in {"item", "comma"} => jsonStream.itemIndex < asked[r]
         /\ jsonStream.phase = "comma" => jsonStream.itemIndex > 0
         /\ body[r] = SubSeq(Whole(r), 1, Written(jsonStream))
    ELSE body[r] = Whole(r)

(* An answer that meets no other is in step; while it is written no other connection
   is open. *)
AnswerInv ==
  /\ body \in [Requests -> Seq(Pieces)]
  /\ ~Active => jsonStream.phase = "done"
  /\ \A r \in Requests : connection[r] = "new" => body[r] = <<>>
  /\ \A r, s \in Requests :
       /\ r \notin met /\ connection[r] = "answering"
       /\ connection[s] \in {"answering", "answered"}
       => s = r
  /\ \A r \in Requests : r \notin met \union cut /\ connection[r] = "answering" => InStep(r)
  /\ AloneIsWhole

\* A step of one answer does not touch another request's connection or answer.
LEMMA FillOthers ==
  ASSUME StreamInv, AnswerInv, NEW r \in Requests, Fill(r)
  PROVE  /\ body' \in [Requests -> Seq(Pieces)]
         /\ \A s \in Requests \ {r} : body'[s] = body[s] /\ connection'[s] = connection[s]
         /\ connection[r] = "answering" /\ connection'[r] \in {"answering", "answered"}
         /\ cut \subseteq cut' /\ met' = met
         /\ ~Active' => jsonStream'.phase = "done"
<1>1. \A p \in Nat \union {"prefix", "comma", "suffix"} : Piece(p) \in Pieces
  BY DEF Piece, Pieces, StreamInv, StreamStates
<1>2. jsonStream.itemIndex \in Nat
  BY DEF StreamInv, StreamStates
<1>3. \/ body' = body
      \/ \E p \in Nat \union {"prefix", "comma", "suffix"} : Send(r, p)
  BY <1>2, Zenon
    DEF Fill, FillPrefix, FillItem, CutItems, FillComma, FillSuffix, EndAnswer
<1>4. body' \in [Requests -> Seq(Pieces)] /\ \A s \in Requests \ {r} : body'[s] = body[s]
  <2>1. CASE body' = body
    BY <2>1 DEF AnswerInv
  <2>2. CASE \E p \in Nat \union {"prefix", "comma", "suffix"} : Send(r, p)
    <3>1. PICK p \in Nat \union {"prefix", "comma", "suffix"} : Send(r, p)
      BY <2>2
    <3>2. body' = [body EXCEPT ![r] = Append(body[r], Piece(p))]
      BY <3>1 DEF Send
    <3>3. Append(body[r], Piece(p)) \in Seq(Pieces)
      BY <1>1, <3>1 DEF AnswerInv
    <3> QED BY <3>2, <3>3 DEF AnswerInv
  <2> QED BY <1>3, <2>1, <2>2
<1>5. connection[r] = "answering" /\ met' = met
  BY DEF Fill
<1>6. \/ connection' = connection
      \/ connection' = [connection EXCEPT ![r] = "answered"]
  BY FillStep
<1>7. cut \subseteq cut'
  BY DEF Fill, FillPrefix, FillItem, CutItems, FillComma, FillSuffix, EndAnswer
<1>8. ~Active' => jsonStream'.phase = "done"
  <2>1. CASE jsonStream' = Idle
    BY <2>1, IdleFacts
  <2>2. CASE jsonStream' # Idle
    <3>1. jsonStream.phase # "done"
      BY <2>2 DEF Fill, FillPrefix, FillItem, CutItems, FillComma, FillSuffix, EndAnswer, Release
    <3>2. jsonStream'.owner = jsonStream.owner
      BY <2>2, FillStep
    <3> QED BY <3>1, <3>2 DEF AnswerInv, Active
  <2> QED BY <2>1, <2>2
<1> QED BY <1>4, <1>5, <1>6, <1>7, <1>8 DEF StreamInv

\* One piece more of an answer that meets no other: it stays in step, and its end is
\* the end of the answer.
LEMMA FillWhole ==
  ASSUME StreamInv, AnswerInv, NEW r \in Requests, Fill(r),
         r \notin met, r \notin cut, r \notin cut'
  PROVE  /\ connection'[r] = "answering" => InStep(r)'
         /\ connection'[r] = "answered" => body'[r] = Whole(r)'
<1> DEFINE W == Whole(r)
           n == asked[r]
           i == jsonStream.itemIndex
<1>1. /\ jsonStream \in StreamStates /\ n \in Nat /\ i \in Nat
      /\ jsonStream.phase \in Phases
  BY DEF StreamInv, StreamStates
<1>2. asked' = asked /\ Whole(r)' = W
  BY DEF Fill, Whole
<1>3. connection[r] = "answering" /\ InStep(r)
  BY DEF Fill, AnswerInv
<1>4. /\ W \in Seq(Pieces) /\ Len(W) = 2 + ListPieces(n)
      /\ W[1] = [of |-> r, part |-> "prefix"]
      /\ \A j \in Nat : j < n => W[2 * j + 2] = [of |-> r, part |-> j]
      /\ \A j \in Nat : 0 < j /\ j < n => W[2 * j + 1] = [of |-> r, part |-> "comma"]
      /\ W[2 + ListPieces(n)] = [of |-> r, part |-> "suffix"]
  BY <1>1, WholeFacts
<1>5. ASSUME NEW k \in Nat, k < Len(W), NEW p, W[k + 1] = [of |-> r, part |-> p],
             body[r] = SubSeq(W, 1, k), Active, Send(r, p)
      PROVE  body'[r] = SubSeq(W, 1, k + 1)
  <2>1. body'[r] = Append(body[r], Piece(p))
    BY <1>5 DEF Send, AnswerInv
  <2>2. Piece(p) = W[k + 1]
    BY <1>3, <1>5 DEF Piece, InStep
  <2>3. k \in 0..(Len(W) - 1)
    BY <1>4, <1>5
  <2> HIDE DEF W
  <2> QED BY <1>4, <1>5, <2>1, <2>2, <2>3, Longer
<1>6. jsonStream.phase # "done" => Active
  BY DEF AnswerInv
<1>7. SubSeq(W, 1, Len(W)) = W
  BY <1>4, SubSeqFull
<1>8. Active => jsonStream.owner = r /\ r # Nobody
  BY <1>3, JsonStreamAssumption DEF InStep
<1>15. Active => body[r] = SubSeq(W, 1, Written(jsonStream)) /\ jsonStream.totalItems = n
  BY <1>3 DEF InStep
<1>16. Len(W) = 2 + ListPieces(n)
  BY <1>4
<1>17. i < n => /\ 2 * i + 1 \in Nat /\ 2 * i + 1 < Len(W) /\ (2 * i + 1) + 1 = 2 * i + 2
                /\ 2 * i \in Nat /\ 2 * i < Len(W)
  <2>1. i < n => 2 * i + 1 < 2 + ListPieces(n) /\ 2 * i < 2 + ListPieces(n)
    BY <1>1, ListArithmetic, Zenon
  <2>2. 2 * i + 1 \in Nat /\ (2 * i + 1) + 1 = 2 * i + 2 /\ 2 * i \in Nat
    BY <1>1
  <2> QED BY <1>16, <2>1, <2>2
<1> HIDE DEF W
<1>9. CASE FillPrefix(r)
  <2>1. jsonStream.phase = "prefix" /\ Active /\ i = 0 /\ jsonStream.totalItems = n
        /\ body[r] = SubSeq(W, 1, 0)
    <3>1. jsonStream.phase = "prefix" /\ Active
      BY <1>6, <1>9 DEF FillPrefix
    <3>2. i = 0
      BY <1>3, <3>1 DEF InStep
    <3> QED BY <1>1, <1>15, <3>1, <3>2, WrittenFacts
  <2>2. body'[r] = SubSeq(W, 1, 1)
    <3>1. Send(r, "prefix") /\ W[0 + 1] = [of |-> r, part |-> "prefix"] /\ 0 + 1 = 1
      BY <1>4, <1>9 DEF FillPrefix
    <3>2. 0 \in Nat /\ 0 < Len(W)
      BY <1>1, <1>4, ListArithmetic
    <3>3. body'[r] = SubSeq(W, 1, 0 + 1)
      BY <1>5, <2>1, <3>1, <3>2, Zenon
    <3> QED BY <3>1, <3>3
  <2>3. PICK p \in Phases : /\ p = (IF n > 0 THEN "item" ELSE "suffix")
                            /\ jsonStream' = [jsonStream EXCEPT !.phase = p]
    BY <1>9, <2>1 DEF FillPrefix, NextPhase, Phases
  <2>4. /\ jsonStream' \in StreamStates
        /\ jsonStream'.owner = jsonStream.owner /\ jsonStream'.phase = p
        /\ jsonStream'.itemIndex = i /\ jsonStream'.totalItems = jsonStream.totalItems
    BY <1>1, <2>3, StreamUpdates, Zenon
  <2>5. Written(jsonStream') = 1
    <3>1. CASE n > 0
      <4>1. jsonStream'.phase = "item"
        BY <2>3, <2>4, <3>1
      <4>2. Written(jsonStream') = 2 * jsonStream'.itemIndex + 1
        BY <2>4, <4>1, WrittenFacts, Zenon
      <4> QED BY <2>1, <2>4, <4>2
    <3>2. CASE ~(n > 0)
      <4>1. jsonStream'.phase = "suffix" /\ n = 0
        BY <1>1, <2>3, <2>4, <3>2
      <4>2. Written(jsonStream') = 1 + ListPieces(jsonStream'.totalItems)
        BY <2>4, <4>1, WrittenFacts, Zenon
      <4> QED BY <2>1, <2>4, <4>1, <4>2, ListArithmetic
    <3> QED BY <3>1, <3>2
  <2>6. InStep(r)'
    BY <1>1, <1>2, <1>8, <2>1, <2>2, <2>3, <2>4, <2>5 DEF InStep, Active, W
  <2> QED BY <1>3, <1>9, <2>6 DEF FillPrefix
<1>10. CASE FillItem(r)
  <2>1. jsonStream.phase = "item" /\ Active /\ i < n /\ jsonStream.totalItems = n
        /\ body[r] = SubSeq(W, 1, 2 * i + 1)
    <3>1. jsonStream.phase = "item" /\ Active
      BY <1>6, <1>10 DEF FillItem
    <3>2. i < n
      BY <1>3, <3>1 DEF InStep
    <3> QED BY <1>1, <1>15, <3>1, <3>2, WrittenFacts
  <2>2. 2 * i + 1 \in Nat /\ 2 * i + 1 < Len(W) /\ (2 * i + 1) + 1 = 2 * i + 2
    BY <1>17, <2>1
  <2>3. body'[r] = SubSeq(W, 1, 2 * i + 2)
    <3>1. Send(r, i) /\ W[(2 * i + 1) + 1] = [of |-> r, part |-> i]
      BY <1>1, <1>4, <1>10, <2>1, <2>2 DEF FillItem
    <3> QED BY <1>5, <2>1, <2>2, <3>1
  <2>4. PICK p \in Phases, j \in Nat :
          /\ p = (IF i + 1 < n THEN "comma" ELSE "suffix") /\ j = i + 1
          /\ jsonStream' = [jsonStream EXCEPT !.itemIndex = j, !.phase = p]
    <3>1. jsonStream' = [jsonStream EXCEPT !.itemIndex = i + 1,
                            !.phase = IF i + 1 < n THEN "comma" ELSE "suffix"]
      BY <1>10, <2>1, Zenon DEF FillItem
    <3>2. i + 1 \in Nat /\ (IF i + 1 < n THEN "comma" ELSE "suffix") \in Phases
      BY <1>1 DEF Phases
    <3> QED BY <3>1, <3>2, Zenon
  <2>5. /\ jsonStream' \in StreamStates
        /\ jsonStream'.owner = jsonStream.owner /\ jsonStream'.phase = p
        /\ jsonStream'.itemIndex = j /\ jsonStream'.totalItems = jsonStream.totalItems
    <3>1. jsonStream' = [jsonStream EXCEPT !.itemIndex = j, !.phase = p]
      BY <2>4
    <3> QED BY <1>1, <3>1, NextItem
  <2>6. Written(jsonStream') = 2 * i + 2
    <3>1. CASE i + 1 < n
      <4>1. jsonStream'.phase = "comma"
        BY <2>4, <2>5, <3>1
      <4>2. Written(jsonStream') = 2 * jsonStream'.itemIndex
        BY <2>5, <4>1, WrittenFacts, Zenon
      <4> QED BY <1>1, <2>4, <2>5, <4>2
    <3>2. CASE ~(i + 1 < n)
      <4>1. jsonStream'.phase = "suffix"
        BY <2>4, <2>5, <3>2
      <4>2. Written(jsonStream') = 1 + ListPieces(jsonStream'.totalItems)
        BY <2>5, <4>1, WrittenFacts, Zenon
      <4> QED BY <1>1, <2>1, <2>5, <3>2, <4>2, ListArithmetic
    <3> QED BY <3>1, <3>2
  <2>7. InStep(r)'
    BY <1>1, <1>2, <1>8, <2>1, <2>3, <2>4, <2>5, <2>6 DEF InStep, Active, W
  <2> QED BY <1>3, <1>10, <2>7 DEF FillItem
<1>11. CASE CutItems(r)
  <2>1. Active /\ cut' = cut \union {jsonStream.owner}
    BY <1>6, <1>11 DEF CutItems
  <2> QED BY <1>8, <2>1
<1>12. CASE FillComma(r)
  <2>1. jsonStream.phase = "comma" /\ Active /\ 0 < i /\ i < n /\ jsonStream.totalItems = n
        /\ body[r] = SubSeq(W, 1, 2 * i)
    <3>1. jsonStream.phase = "comma" /\ Active
      BY <1>6, <1>12 DEF FillComma
    <3>2. 0 < i /\ i < n
      BY <1>1, <1>3, <3>1 DEF InStep
    <3> QED BY <1>1, <1>15, <3>1, <3>2, WrittenFacts
  <2>2. 2 * i \in Nat /\ 2 * i < Len(W)
    BY <1>17, <2>1
  <2>3. body'[r] = SubSeq(W, 1, 2 * i + 1)
    <3>1. Send(r, "comma") /\ W[2 * i + 1] = [of |-> r, part |-> "comma"]
      BY <1>1, <1>4, <1>12, <2>1 DEF FillComma
    <3> QED BY <1>5, <2>1, <2>2, <3>1
  <2>4. PICK p \in Phases : p = "item" /\ jsonStream' = [jsonStream EXCEPT !.phase = p]
    BY <1>12 DEF FillComma, NextPhase, Phases
  <2>5. /\ jsonStream' \in StreamStates
        /\ jsonStream'.owner = jsonStream.owner /\ jsonStream'.phase = "item"
        /\ jsonStream'.itemIndex = i /\ jsonStream'.totalItems = jsonStream.totalItems
    BY <1>1, <2>4, StreamUpdates, Zenon
  <2>6. Written(jsonStream') = 2 * i + 1
    BY <1>1, <2>5, WrittenFacts
  <2>7. InStep(r)'
    BY <1>1, <1>2, <1>8, <2>1, <2>3, <2>5, <2>6 DEF InStep, Active, W
  <2> QED BY <1>3, <1>12, <2>7 DEF FillComma
<1>13. CASE FillSuffix(r)
  <2>1. jsonStream.phase = "suffix" /\ Active /\ jsonStream.totalItems = n
        /\ body[r] = SubSeq(W, 1, 1 + ListPieces(n))
    <3>1. jsonStream.phase = "suffix" /\ Active
      BY <1>6, <1>13 DEF FillSuffix
    <3> QED BY <1>1, <1>15, <3>1, WrittenFacts
  <2>2. 1 + ListPieces(n) \in Nat /\ 1 + ListPieces(n) < Len(W)
        /\ (1 + ListPieces(n)) + 1 = Len(W) /\ Len(W) = 2 + ListPieces(n)
    <3>1. n \in Nat
      BY <1>1
    <3>2. ListPieces(n) \in Nat
      BY <3>1, ListArithmetic
    <3> QED BY <1>16, <3>2
  <2>3. body'[r] = W
    <3>1. Send(r, "suffix") /\ W[(1 + ListPieces(n)) + 1] = [of |-> r, part |-> "suffix"]
      BY <1>4, <1>13, <2>2 DEF FillSuffix
    <3> QED BY <1>5, <1>7, <2>1, <2>2, <3>1
  <2>4. CASE Release
    BY <1>2, <1>3, <1>13, <2>3, <2>4, IdleFacts
      DEF Release, FillSuffix, InStep, Active, W
  <2>5. CASE NextPhase("done") /\ UNCHANGED scratchMutex
    <3>1. PICK p \in Phases : p = "done" /\ jsonStream' = [jsonStream EXCEPT !.phase = p]
      BY <2>5 DEF NextPhase, Phases
    <3>2. /\ jsonStream'.owner = r /\ jsonStream'.phase = "done" /\ jsonStream'.totalItems = n
      BY <1>1, <1>8, <2>1, <3>1, StreamUpdates
    <3>3. Written(jsonStream') = Len(W)
      <4>1. jsonStream' \in StreamStates
        BY <1>1, <3>1, StreamUpdates, Zenon
      <4> QED BY <2>2, <3>2, <4>1, WrittenFacts
    <3>4. InStep(r)'
      BY <1>2, <1>7, <2>3, <3>2, <3>3 DEF InStep, Active, W
    <3> QED BY <1>3, <1>13, <3>4 DEF FillSuffix
  <2> QED BY <1>13, <2>4, <2>5 DEF FillSuffix
<1>14. CASE EndAnswer(r)
  <2>1. connection'[r] = "answered" /\ body' = body /\ jsonStream.phase = "done"
    BY <1>14 DEF EndAnswer, StreamInv
  <2>2. body[r] = W
    <3>1. CASE Active
      BY <1>1, <1>4, <1>7, <1>15, <2>1, <3>1, WrittenFacts
    <3>2. CASE ~Active
      BY <1>3, <3>2 DEF InStep, Active, W
    <3> QED BY <3>1, <3>2
  <2> QED BY <1>2, <2>1, <2>2 DEF W
<1> QED BY <1>9, <1>10, <1>11, <1>12, <1>13, <1>14 DEF Fill

\* A step that leaves stream and answers alone keeps what is known of them.
LEMMA AnswerQuiet ==
  ASSUME StreamInv, AnswerInv, UNCHANGED <<jsonStream, body, asked, met, cut, connection>>
  PROVE  AnswerInv'
<1>1. \A r \in Requests : Whole(r)' = Whole(r) /\ InStep(r)' = InStep(r)
  BY DEF Whole, InStep, Active
<1> QED BY <1>1 DEF AnswerInv, AloneIsWhole, Active

\* Every step keeps it.
LEMMA AnswerStep ==
  ASSUME StreamInv, AnswerInv, [JsonNext]_jsonVars
  PROVE  AnswerInv'
<1>1. CASE UNCHANGED jsonVars
  BY <1>1, AnswerQuiet DEF jsonVars
<1>2. ASSUME NEW q \in Requests, RefuseRequest(q)
      PROVE  AnswerInv'
  <2>1. UNCHANGED <<jsonStream, body, asked, met, cut>>
        /\ connection' = [connection EXCEPT ![q] = "refused"] /\ connection[q] = "new"
    BY <1>2 DEF RefuseRequest
  <2>2. connection'[q] = "refused"
        /\ \A r \in Requests \ {q} : connection'[r] = connection[r]
    BY <2>1 DEF StreamInv
  <2>3. \A r \in Requests : Whole(r)' = Whole(r) /\ InStep(r)' = InStep(r)
    BY <2>1 DEF Whole, InStep, Active
  <2> QED BY <2>1, <2>2, <2>3 DEF AnswerInv, AloneIsWhole, Active
<1>3. ASSUME NEW q \in Requests, BeginStream(q)
      PROVE  AnswerInv'
  <2>1. PICK n \in 0..MaxItems :
          /\ jsonStream' = [owner |-> q, phase |-> "prefix", itemIndex |-> 0, totalItems |-> n]
          /\ asked' = [asked EXCEPT ![q] = n]
    BY <1>3 DEF BeginStream
  <2>2. /\ connection[q] = "new" /\ connection' = [connection EXCEPT ![q] = "answering"]
        /\ met' = met \union (IF Open = {} THEN {} ELSE {q} \union Answering)
        /\ UNCHANGED <<body, cut>>
    BY <1>3 DEF BeginStream
  <2>3. n \in Nat
    BY JsonStreamAssumption
  <2>4. /\ connection'[q] = "answering"
        /\ \A r \in Requests \ {q} : connection'[r] = connection[r]
        /\ asked'[q] = n /\ \A r \in Requests \ {q} : asked'[r] = asked[r]
    BY <2>1, <2>2 DEF StreamInv
  <2>5. \A r \in Requests \ {q} : connection[r] = "answering" => r \in met'
    BY <2>2 DEF Open, Answering
  <2>6. q \notin met' => \A r \in Requests : connection[r] \notin {"answering", "answered"}
    BY <2>2 DEF Open
  <2>7. InStep(q)'
    <3>1. jsonStream'.owner = q /\ q # Nobody /\ jsonStream'.phase = "prefix"
          /\ jsonStream'.itemIndex = 0 /\ jsonStream'.totalItems = n
      BY <2>1, JsonStreamAssumption
    <3>2. Written(jsonStream') = 0
      BY <3>1, Zenon DEF Written
    <3>3. body'[q] = <<>>
      BY <2>2 DEF AnswerInv
    <3>4. SubSeq(Whole(q)', 1, 0) = <<>>
      BY SubSeqEmpty
    <3> QED BY <2>4, <3>1, <3>2, <3>3, <3>4 DEF InStep, Active
  <2>8. \A r \in Requests \ {q} : Whole(r)' = Whole(r)
    BY <2>4 DEF Whole
  <2>9. met \subseteq met'
    BY <2>2
  <2>10. \A r, s \in Requests :
           r \notin met' /\ connection'[r] = "answering"
             /\ connection'[s] \in {"answering", "answered"} => s = r
    BY <2>4, <2>5, <2>6
  <2>11. \A r \in Requests :
           r \notin met' \union cut' /\ connection'[r] = "answering" => InStep(r)'
    BY <2>4, <2>5, <2>7
  <2>12. AloneIsWhole'
    BY <2>2, <2>4, <2>8, <2>9 DEF AnswerInv, AloneIsWhole
  <2>13. Active'
    BY <2>1, JsonStreamAssumption DEF Active
  <2>14. \A r \in Requests : connection'[r] = "new" => body'[r] = <<>>
    BY <2>2, <2>4 DEF AnswerInv
  <2> QED BY <2>2, <2>10, <2>11, <2>12, <2>13, <2>14 DEF AnswerInv
<1>4. ASSUME NEW q \in Requests, Fill(q)
      PROVE  AnswerInv'
  <2>1. /\ body' \in [Requests -> Seq(Pieces)]
        /\ \A s \in Requests \ {q} : body'[s] = body[s] /\ connection'[s] = connection[s]
        /\ connection[q] = "answering" /\ connection'[q] \in {"answering", "answered"}
        /\ cut \subseteq cut' /\ met' = met
        /\ ~Active' => jsonStream'.phase = "done"
    BY <1>4, FillOthers
  <2>2. \A r \in Requests : Whole(r)' = Whole(r)
    BY <1>4 DEF Fill, Whole
  <2>3. \A r \in Requests \ {q} : connection[r] = "answering" => r \in met
    BY <2>1 DEF AnswerInv
  <2>4. q \notin met \union cut' =>
          /\ connection'[q] = "answering" => InStep(q)'
          /\ connection'[q] = "answered" => body'[q] = Whole(q)'
    BY <1>4, <2>1, FillWhole
  <2>5. \A r, s \in Requests :
          r \notin met' /\ connection'[r] = "answering"
            /\ connection'[s] \in {"answering", "answered"} => s = r
    BY <2>1 DEF AnswerInv
  <2>6. \A r \in Requests :
          r \notin met' \union cut' /\ connection'[r] = "answering" => InStep(r)'
    BY <2>1, <2>3, <2>4
  <2>7. AloneIsWhole'
    BY <2>1, <2>2, <2>4 DEF AnswerInv, AloneIsWhole
  <2>8. \A r \in Requests : connection'[r] = "new" => body'[r] = <<>>
    BY <2>1 DEF AnswerInv
  <2> QED BY <2>1, <2>5, <2>6, <2>7, <2>8 DEF AnswerInv
<1>5. ASSUME NEW q \in Requests, CloseConnection(q)
      PROVE  AnswerInv'
  <2>1. /\ connection[q] \in {"answering", "answered"}
        /\ connection' = [connection EXCEPT ![q] = "closed"] /\ jsonStream' = Idle
        /\ UNCHANGED <<body, asked, met, cut>>
    BY <1>5 DEF CloseConnection, Release
  <2>2. connection'[q] = "closed" /\ \A r \in Requests \ {q} : connection'[r] = connection[r]
    BY <2>1 DEF StreamInv
  <2>3. \A r \in Requests : Whole(r)' = Whole(r)
    BY <2>1 DEF Whole
  <2>4. \A r \in Requests \ {q} : connection[r] = "answering" => r \in met
    BY <2>1 DEF AnswerInv
  <2>5. \A r \in Requests : connection'[r] = "answering" => r \in met'
    BY <2>1, <2>2, <2>4
  <2>6. AloneIsWhole'
    BY <2>1, <2>2, <2>3 DEF AnswerInv, AloneIsWhole
  <2>7. jsonStream'.phase = "done"
    BY <2>1, IdleFacts
  <2> QED BY <2>1, <2>2, <2>5, <2>6, <2>7 DEF AnswerInv
<1> QED BY <1>1, <1>2, <1>3, <1>4, <1>5 DEF JsonNext

\* It holds before the first request.
LEMMA AnswerStart ==
  ASSUME JsonInit PROVE AnswerInv
<1>1. jsonStream.phase = "done"
  BY IdleFacts DEF JsonInit
<1>2. \A r \in Requests : connection[r] = "new" /\ body[r] = <<>>
  BY DEF JsonInit
<1>3. body \in [Requests -> Seq(Pieces)]
  BY DEF JsonInit
<1> QED BY <1>1, <1>2, <1>3 DEF AnswerInv, AloneIsWhole

\* The graph and event answers (fillJsonStream() in WebServer.cpp) are whole and hold
\* only their own pieces, with commas between items and none after the last, if no
\* other stream's connection was open meanwhile and every item could be written.
THEOREM AloneIsAlwaysWhole == JsonSpec => []AloneIsWhole
<1>1. JsonInit => StreamInv /\ AnswerInv
  BY StreamStart, AnswerStart
<1>2. StreamInv /\ AnswerInv /\ [JsonNext]_jsonVars => StreamInv' /\ AnswerInv'
  BY StreamStep, AnswerStep
<1>3. AnswerInv => AloneIsWhole
  BY DEF AnswerInv
<1> QED BY <1>1, <1>2, <1>3, PTL DEF JsonSpec

-----------------------------------------------------------------------------
(* The table of WebSocket clients *)

Entries == [id : Nat, stalled : Nat]

(* What is known of the clients: the library has numbered those below nextClient. *)
ClientInv ==
  /\ wsClients \in [1..Slots -> Entries]
  /\ nextClient \in Nat \ {0} /\ slot \in 1..Slots
  /\ verdict \in {"none", "gone", "sent", "stalled"}
  /\ connected \subseteq Nat \ {0}
  /\ \A c \in connected \union closing : c < nextClient
  /\ closing \subseteq Nat
  /\ ClientsHaveSlots

\* A set of numbers that is not empty has a least one.
LEMMA LeastNumber ==
  ASSUME NEW S \in SUBSET Nat, S # {}
  PROVE  \E m \in S : \A k \in S : m <= k
<1> DEFINE R == {p \in Nat \X Nat : p[1] < p[2]}
<1>1. IsWellFoundedOn(R, Nat) BY NatLessThanWellFounded DEF OpToRel
<1>2. PICK m \in S : \A k \in S : <<k, m>> \notin R BY <1>1, WFMin
<1>3. \A k \in S : ~(k < m) BY <1>2
<1>4. \A k \in S : m <= k BY <1>3
<1> QED BY <1>4

\* Who is held, slot by slot.
LEMMA HeldMeans ==
  \A c : c \in Held <=> c # 0 /\ \E i \in 1..Slots : wsClients[i].id = c
BY DEF Held

\* The same for the next state.
LEMMA HeldMeansNext ==
  \A c : c \in Held' <=> c # 0 /\ \E i \in 1..Slots : wsClients'[i].id = c
BY DEF Held

\* A step that leaves the table and its clients alone keeps what is known of them.
LEMMA ClientsKept ==
  ASSUME ClientInv, UNCHANGED <<connected, closing, nextClient, wsClients, wiped>>,
         slot' \in 1..Slots, verdict' \in {"none", "gone", "sent", "stalled"}
  PROVE  ClientInv'
BY DEF ClientInv, ClientsHaveSlots, Held

\* Clients that are told to go, but keep their slots, are still accounted for.
LEMMA ClientsTold ==
  ASSUME ClientInv, NEW told \in SUBSET connected,
         connected' = connected \ told, closing' = closing \union told,
         UNCHANGED <<nextClient, wsClients, wiped>>,
         slot' \in 1..Slots, verdict' \in {"none", "gone", "sent", "stalled"}
  PROVE  ClientInv'
<1>1. Held' = Held BY DEF Held
<1>2. ClientsHaveSlots' BY <1>1 DEF ClientInv, ClientsHaveSlots
<1> QED BY <1>2 DEF ClientInv

\* Clearing the table takes out whoever is in it.
LEMMA TableCleared ==
  ASSUME ClientInv, ClearTable, UNCHANGED <<clientVars, sweepVars>>
  PROVE  ClientInv'
<1>1. wsClients' \in [1..Slots -> Entries] /\ \A i \in 1..Slots : wsClients'[i].id = 0
  BY DEF ClearTable, EmptyTable, Free, Entries
<1>2. Held' = {} BY <1>1, HeldMeansNext
<1>3. connected \subseteq Held \union wiped BY DEF ClientInv, ClientsHaveSlots
<1>4. connected' \subseteq wiped' BY <1>3 DEF ClearTable, clientVars
<1>5. ClientsHaveSlots' BY <1>1, <1>2, <1>4 DEF ClientsHaveSlots
<1> QED BY <1>1, <1>5 DEF ClientInv, clientVars, sweepVars

\* A new client gets a slot of its own or is told to go.
LEMMA ConnectKeeps ==
  ASSUME ClientInv, Connect PROVE ClientInv'
<1> DEFINE free == {i \in 1..Slots : wsClients[i].id = 0}
           first == CHOOSE i \in free : \A j \in free : i <= j
<1>1. /\ nextClient' = nextClient + 1 /\ UNCHANGED <<slot, verdict, wiped>>
  BY DEF Connect, sweepVars
<1>2. CASE free = {}
  <2>1. closing' = closing \union {nextClient} /\ UNCHANGED <<connected, wsClients>>
    BY <1>2 DEF Connect
  <2>2. Held' = Held BY <2>1 DEF Held
  <2>3. ClientsHaveSlots' BY <1>1, <2>1, <2>2 DEF ClientInv, ClientsHaveSlots
  <2>4. \A c \in connected \union closing : c < nextClient /\ c \in Nat BY DEF ClientInv
  <2>5. \A c \in connected' \union closing' : c < nextClient'
    BY <1>1, <2>1, <2>4 DEF ClientInv
  <2> QED BY <1>1, <2>1, <2>3, <2>5 DEF ClientInv
<1>3. CASE free # {}
  <2>1. first \in free
    <3>1. Slots \in Nat BY WebClientsAssumption
    <3>2. free \in SUBSET Nat
      BY <3>1
    <3> HIDE DEF free
    <3>3. \E m \in free : \A k \in free : m <= k
      BY <1>3, <3>2, LeastNumber
    <3> QED BY <3>3
  <2> HIDE DEF first
  <2>2. /\ wsClients' = [wsClients EXCEPT ![first] = [id |-> nextClient, stalled |-> 0]]
        /\ connected' = connected \union {nextClient} /\ closing' = closing
    BY <1>3 DEF Connect, first
  <2>3. /\ wsClients' \in [1..Slots -> Entries]
        /\ wsClients'[first].id = nextClient
        /\ \A i \in 1..Slots \ {first} : wsClients'[i] = wsClients[i]
        /\ wsClients[first].id = 0 /\ first \in 1..Slots
    BY <2>1, <2>2 DEF ClientInv, Entries
  <2>4. \A c \in connected \union closing : c < nextClient /\ c \in Nat BY DEF ClientInv
  <2>5. \A c \in Held : c < nextClient /\ c \in Nat
    BY <2>4 DEF ClientInv, ClientsHaveSlots
  <2>6. \A i \in 1..Slots : wsClients[i].id # nextClient
    BY <2>5, HeldMeans DEF ClientInv
  <2>7. Held' = Held \union {nextClient}
    BY <2>3, HeldMeans, HeldMeansNext DEF ClientInv
  <2>8. \A i, j \in 1..Slots :
          wsClients'[i].id = wsClients'[j].id /\ wsClients'[i].id # 0 => i = j
    BY <2>3, <2>6 DEF ClientInv, ClientsHaveSlots
  <2>9. Held' \subseteq connected' \union closing' /\ connected' \subseteq Held' \union wiped'
    BY <1>1, <2>2, <2>7 DEF ClientInv, ClientsHaveSlots
  <2>10. \A c \in connected' \union closing' : c < nextClient'
    BY <1>1, <2>2, <2>4 DEF ClientInv
  <2> QED BY <1>1, <2>2, <2>3, <2>8, <2>9, <2>10 DEF ClientInv, ClientsHaveSlots
<1> QED BY <1>2, <1>3

\* A client that is gone leaves its slot.
LEMMA DisconnectKeeps ==
  ASSUME ClientInv, NEW c \in ClientIds, Disconnect(c) PROVE ClientInv'
<1>1. /\ connected' = connected \ {c} /\ closing' = closing \ {c}
      /\ wsClients' = WithoutClient(c)
      /\ UNCHANGED <<nextClient, slot, verdict, wiped>>
  BY DEF Disconnect, sweepVars
<1>2. /\ wsClients' \in [1..Slots -> Entries]
      /\ \A i \in 1..Slots :
           wsClients'[i].id = IF wsClients[i].id = c THEN 0 ELSE wsClients[i].id
  BY <1>1 DEF WithoutClient, Free, Entries, ClientInv
<1>3. Held' = Held \ {c} BY <1>2, HeldMeans, HeldMeansNext
<1>4. ClientsHaveSlots' BY <1>1, <1>2, <1>3 DEF ClientInv, ClientsHaveSlots
<1> QED BY <1>1, <1>2, <1>4 DEF ClientInv

\* The main loop writes the slot it looked at: the client in it stays or leaves it.
LEMMA WriteKeeps ==
  ASSUME ClientInv, WriteSlot PROVE ClientInv'
<1> DEFINE s == wsClients[slot]
           out == SlotAfter(s) = Free
           told == IF verdict = "stalled" /\ out THEN {s.id} \intersect connected ELSE {}
<1>1. /\ wsClients' = [wsClients EXCEPT ![slot] = SlotAfter(s)]
      /\ connected' = connected \ told /\ closing' = closing \union told
      /\ wiped' = wiped \union (IF out THEN ({s.id} \intersect connected) \ told ELSE {})
      /\ UNCHANGED <<nextClient, verdict>>
  BY DEF WriteSlot
<1>2. slot' \in 1..Slots
  BY WebClientsAssumption DEF WriteSlot, ClientInv
<1>3. s \in Entries /\ slot \in 1..Slots BY DEF ClientInv
<1>4. /\ SlotAfter(s) \in Entries
      /\ SlotAfter(s).id \in {0, s.id}
      /\ ~out => SlotAfter(s).id = s.id
  BY <1>3, WebClientsAssumption DEF SlotAfter, Free, Entries, ClientInv
<1>5. out => SlotAfter(s).id = 0 BY DEF Free
<1> HIDE DEF s, out, told
<1>6. /\ wsClients' \in [1..Slots -> Entries]
      /\ wsClients'[slot] = SlotAfter(s)
      /\ \A i \in 1..Slots \ {slot} : wsClients'[i] = wsClients[i]
  BY <1>1, <1>3, <1>4 DEF ClientInv
<1>7. \A i \in 1..Slots : wsClients'[i].id \in {0, wsClients[i].id}
  BY <1>4, <1>6 DEF s
<1>8. Held' \subseteq Held BY <1>7, HeldMeans, HeldMeansNext
<1>9. \A c \in Held \ Held' : c = s.id /\ out
  BY <1>4, <1>6, HeldMeans, HeldMeansNext DEF s
<1>10. told \subseteq connected BY DEF told
<1>11. connected' \subseteq Held' \union wiped'
  BY <1>1, <1>9 DEF ClientInv, ClientsHaveSlots
<1>12. Held' \subseteq connected' \union closing'
  BY <1>1, <1>8, <1>10 DEF ClientInv, ClientsHaveSlots
<1>13. \A i, j \in 1..Slots :
         wsClients'[i].id = wsClients'[j].id /\ wsClients'[i].id # 0 => i = j
  BY <1>7 DEF ClientInv, ClientsHaveSlots
<1>14. connected' \subseteq connected /\ connected' \union closing' \subseteq connected \union closing
  BY <1>1, <1>10
<1>15. /\ connected' \subseteq Nat \ {0} /\ closing' \subseteq Nat
       /\ \A c \in connected' \union closing' : c < nextClient'
  BY <1>1, <1>14 DEF ClientInv
<1> QED BY <1>1, <1>2, <1>6, <1>11, <1>12, <1>13, <1>15 DEF ClientInv, ClientsHaveSlots

\* Every step keeps what is known of the clients.
LEMMA ClientStep ==
  ASSUME ClientInv, [WebNext]_webVars PROVE ClientInv'
<1> DEFINE Same == UNCHANGED <<connected, closing, nextClient, wsClients, wiped>>
<1>1. ASSUME Same, UNCHANGED <<slot, verdict>> PROVE ClientInv'
  BY <1>1, ClientsKept DEF ClientInv
<1>2. CASE UNCHANGED webVars
  BY <1>1, <1>2 DEF webVars, clientVars, sweepVars, tableVars
<1>3. CASE Connect
  BY <1>3, ConnectKeeps
<1>4. CASE \E c \in ClientIds : Disconnect(c)
  BY <1>4, DisconnectKeeps
<1>5. CASE WriteSlot
  BY <1>5, WriteKeeps
<1>6. CASE FinishStop \/ FinishStart
  BY <1>6, TableCleared DEF FinishStop, FinishStart
<1>7. CASE CloseAll
  <2>1. /\ connected' = connected \ connected /\ closing' = closing \union connected
        /\ UNCHANGED <<nextClient, wsClients, wiped, slot, verdict>>
    BY <1>7 DEF CloseAll, sweepVars, tableVars
  <2>2. slot' \in 1..Slots /\ verdict' \in {"none", "gone", "sent", "stalled"}
    BY <2>1 DEF ClientInv
  <2> QED BY <2>1, <2>2, ClientsTold
<1>8. CASE BeginSweep
  <2>1. slot' \in 1..Slots /\ verdict' \in {"none", "gone", "sent", "stalled"}
    BY <1>8, WebClientsAssumption DEF BeginSweep
  <2>2. CASE CleanupClients
    <3>1. CASE Cardinality(connected) > Slots
      <4> DEFINE told == {Oldest(connected)} \intersect connected
      <4>1. PICK c : /\ connected' = connected \ {c} /\ closing' = closing \union {c}
                     /\ c = Oldest(connected)
        BY <2>2, <3>1 DEF CleanupClients
      <4>2. Oldest(connected) \in connected
        <5>1. connected # {} /\ connected \in SUBSET Nat BY <1>8 DEF BeginSweep, ClientInv
        <5>2. \E m \in connected : \A k \in connected : m <= k BY <5>1, LeastNumber
        <5> QED BY <5>2 DEF Oldest
      <4>3. {c} \in SUBSET connected BY <4>1, <4>2
      <4>4. UNCHANGED <<nextClient, wsClients, wiped>> BY <1>8 DEF BeginSweep, tableVars
      <4> QED BY <2>1, <4>1, <4>3, <4>4, ClientsTold
    <3>2. CASE ~(Cardinality(connected) > Slots)
      <4>1. connected' = connected /\ closing' = closing
        BY <2>2, <3>2 DEF CleanupClients
      <4> QED BY <1>8, <2>1, <4>1, ClientsKept DEF BeginSweep, tableVars
    <3> QED BY <3>1, <3>2
  <2>3. CASE UNCHANGED <<connected, full, closing>>
    BY <1>8, <2>1, <2>3, ClientsKept DEF BeginSweep, tableVars
  <2> QED BY <1>8, <2>2, <2>3 DEF BeginSweep
<1>9. CASE CheckSlot
  <2>1. Same /\ slot' = slot /\ verdict' \in Verdicts(seen')
    BY <1>9 DEF CheckSlot, clientVars, tableVars
  <2>2. verdict' \in {"none", "gone", "sent", "stalled"}
    BY <2>1 DEF Verdicts
  <2> QED BY <2>1, <2>2, ClientsKept DEF ClientInv
<1>10. CASE SendFrame \/ EndSweep
  <2>1. Same /\ slot' = 1 /\ verdict' \in {verdict, "none"}
    BY <1>10 DEF SendFrame, EndSweep, clientVars, tableVars
  <2> QED BY <2>1, ClientsKept, WebClientsAssumption DEF ClientInv
<1>11. CASE ApAsk \/ StartRadio \/ NothingToDo \/ NoFrame
  <2>1. Same /\ UNCHANGED <<slot, verdict>>
    BY <1>11 DEF ApAsk, StartRadio, NothingToDo, NoFrame, clientVars, sweepVars, tableVars
  <2> QED BY <1>1, <2>1
<1>12. CASE ApTime(GuardEnds) \/ ApTime(RetryDue) \/ SwitchAp \/ ChangeSettings \/ Congestion
  <2>1. Same /\ UNCHANGED <<slot, verdict>>
    BY <1>12 DEF ApTime, SwitchAp, ChangeSettings, Congestion, clientVars, sweepVars, tableVars
  <2> QED BY <1>1, <2>1
<1> QED BY <1>2, <1>3, <1>4, <1>5, <1>6, <1>7, <1>8, <1>9, <1>10, <1>11, <1>12
        DEF WebNext, WebLoop

\* It holds before the first client.
LEMMA ClientStart ==
  ASSUME WebInit PROVE ClientInv
<1>1. wsClients \in [1..Slots -> Entries] /\ \A i \in 1..Slots : wsClients[i].id = 0
  BY DEF WebInit, EmptyTable, Free, Entries
<1>2. Held = {} BY <1>1, HeldMeans
<1>3. /\ connected = {} /\ closing = {} /\ nextClient = 1 /\ slot = 1 /\ verdict = "none"
  BY DEF WebInit
<1> QED BY <1>1, <1>2, <1>3, WebClientsAssumption DEF ClientInv, ClientsHaveSlots

\* The table of WebSocket clients and the library agree although two tasks write the
\* table without a lock (noteWsClientConnected() and noteWsClientDisconnected() against
\* pruneWsClients() and broadcastDeferred() in WebServer.cpp): a client has one slot, a
\* slot no client that is gone, and a connected client without a slot was taken out by
\* the main loop.
THEOREM ClientsAlwaysHaveSlots == WebSpec => []ClientsHaveSlots
<1>1. WebInit => ClientInv BY ClientStart
<1>2. ClientInv /\ [WebNext]_webVars => ClientInv' BY ClientStep
<1>3. ClientInv => ClientsHaveSlots BY DEF ClientInv
<1> QED BY <1>1, <1>2, <1>3, PTL DEF WebSpec

-----------------------------------------------------------------------------
(* The button *)

(* What is known of a series: its presses are the newest of the history, none older
   than the first of them is said to be, and they are fewer than wanted. *)
SeriesInv ==
  /\ shorts \in Seq(Nat) /\ pressCount \in Nat /\ firstAge \in Nat
  /\ pressCount < PressTarget /\ pressCount <= Len(shorts)
  /\ \A i \in 1..pressCount : shorts[i] <= firstAge
  /\ "multi" \in event => pressCount = 0
  /\ MultiIsQuickSeries

\* Everything in the history gets older together, up to the cap.
LEMMA AgedFacts ==
  ASSUME NEW list \in Seq(Nat)
  PROVE  /\ Aged(list) \in Seq(Nat) /\ Len(Aged(list)) = Len(list)
         /\ \A i \in 1..Len(list), n \in Nat :
              list[i] <= n => Aged(list)[i] <= UpTo(n + 1, Cap)
<1>1. \A i \in 1..Len(list) : list[i] \in Nat OBVIOUS
<1>2. \A n \in Nat : UpTo(n + 1, Cap) \in Nat
  BY ButtonAssumption DEF UpTo, Cap
<1>3. Aged(list) \in [1..Len(list) -> Nat]
  BY <1>1, <1>2 DEF Aged
<1>4. Len(list) \in Nat OBVIOUS
<1>5. Aged(list) \in Seq(Nat) /\ Len(Aged(list)) = Len(list)
  BY <1>3, <1>4 DEF Aged
<1>6. ASSUME NEW i \in 1..Len(list), NEW n \in Nat, list[i] <= n
      PROVE  Aged(list)[i] <= UpTo(n + 1, Cap)
  <2>1. Aged(list)[i] = UpTo(list[i] + 1, Cap) BY DEF Aged
  <2> QED BY <1>1, <1>6, <2>1, ButtonAssumption DEF UpTo, Cap
<1> QED BY <1>5, <1>6

\* The newest presses, as many as are wanted, at the place they had.
LEMMA NewestFacts ==
  ASSUME NEW list \in Seq(Nat)
  PROVE  /\ Newest(list) \in Seq(Nat)
         /\ \A n \in Nat : n <= Len(list) /\ n <= PressTarget =>
              /\ n <= Len(Newest(list))
              /\ \A i \in 1..n : Newest(list)[i] = list[i]
<1>1. UpTo(Len(list), PressTarget) \in 0..Len(list)
  BY ButtonAssumption DEF UpTo
<1>2. /\ Newest(list) \in Seq(Nat)
      /\ Len(Newest(list)) = UpTo(Len(list), PressTarget)
      /\ \A i \in 1..UpTo(Len(list), PressTarget) : Newest(list)[i] = list[i]
  BY <1>1, SubSeqProperties DEF Newest
<1> QED BY <1>1, <1>2, ButtonAssumption DEF UpTo

\* A press in front of the history.
LEMMA PressInFront ==
  ASSUME NEW list \in Seq(Nat)
  PROVE  /\ <<0>> \o list \in Seq(Nat) /\ Len(<<0>> \o list) = Len(list) + 1
         /\ (<<0>> \o list)[1] = 0
         /\ \A i \in 2..(Len(list) + 1) : (<<0>> \o list)[i] = list[i - 1]
OBVIOUS

\* Every tick keeps what is known of a series.
LEMMA SeriesStep ==
  ASSUME SeriesInv, [ButtonNext]_buttonVars PROVE SeriesInv'
<1>1. CASE UNCHANGED buttonVars
  BY <1>1 DEF buttonVars, SeriesInv, MultiIsQuickSeries
<1>2. ASSUME NEW raw \in BOOLEAN, TickButton(raw) PROVE SeriesInv'
  <2> DEFINE short == Released(raw) /\ ~longPressFired
             held  == IF Pressed(raw) THEN 0 ELSE UpTo(pressAge + 1, LongPress)
             fired == longPressFired /\ ~Pressed(raw)
             long  == (stablePressed \/ Pressed(raw)) /\ ~Released(raw) /\ ~fired
                        /\ held >= LongPress
             first == IF short /\ pressCount = 0 THEN 0 ELSE UpTo(firstAge + 1, Cap)
             count == pressCount + (IF short THEN 1 ELSE 0)
             multi == short /\ first <= Window /\ count >= PressTarget
             over  == multi \/ long \/ first > Window
             past  == IF "multi" \in event THEN <<>> ELSE Aged(shorts)
  <2>1. /\ pressCount' = IF over THEN 0 ELSE count
        /\ firstAge' = IF over \/ count = 0 THEN 0 ELSE first
        /\ event' = (IF short THEN {"short"} ELSE {}) \union (IF long THEN {"long"} ELSE {})
                      \union (IF multi THEN {"multi"} ELSE {})
        /\ shorts' = IF long THEN <<>>
                     ELSE IF short THEN Newest(<<0>> \o past) ELSE past
    BY <1>2 DEF TickButton, SeriesOver
  <2>2. short => ~long
    OBVIOUS
  <2>3. pressCount \in Nat /\ firstAge \in Nat /\ shorts \in Seq(Nat)
    BY DEF SeriesInv
  <2>4. first \in Nat /\ (pressCount > 0 => first = UpTo(firstAge + 1, Cap))
    BY <2>3, ButtonAssumption DEF UpTo, Cap
  <2>5. /\ past \in Seq(Nat) /\ pressCount <= Len(past)
        /\ \A i \in 1..pressCount : past[i] <= first
    <3>1. CASE "multi" \in event
      BY <3>1 DEF SeriesInv
    <3>2. CASE "multi" \notin event
      <4>1. \A i \in 1..pressCount : i \in 1..Len(shorts) /\ shorts[i] <= firstAge
        BY <2>3 DEF SeriesInv
      <4>2. \A i \in 1..pressCount : Aged(shorts)[i] <= UpTo(firstAge + 1, Cap)
        BY <2>3, <4>1, AgedFacts
      <4>3. pressCount <= Len(Aged(shorts)) /\ Aged(shorts) \in Seq(Nat)
        BY <2>3, AgedFacts DEF SeriesInv
      <4> QED BY <2>3, <2>4, <3>2, <4>2, <4>3
    <3> QED BY <3>1, <3>2
  <2>6. count \in Nat /\ count <= PressTarget /\ (~short => count = pressCount)
          /\ (short => count = pressCount + 1)
    BY <2>3, ButtonAssumption DEF SeriesInv
  <2>7. multi <=> "multi" \in event'
    BY <2>1
  <2>8. over <=> multi \/ long \/ first > Window
    OBVIOUS
  <2>9. multi <=> short /\ first <= Window /\ count >= PressTarget
    OBVIOUS
  <2>10. pressCount < PressTarget
    BY DEF SeriesInv
  <2> HIDE DEF short, long, first, count, multi, over, past
  <2>11. CASE short
    <3>1. /\ <<0>> \o past \in Seq(Nat) /\ count <= Len(<<0>> \o past)
          /\ \A i \in 1..count : (<<0>> \o past)[i] <= first
      <4>1. \A i \in 2..count : i \in 2..(Len(past) + 1) /\ i - 1 \in 1..pressCount
        BY <2>3, <2>5, <2>6, <2>11
      <4>2. \A i \in 2..count : (<<0>> \o past)[i] <= first
        BY <2>5, <4>1, PressInFront
      <4>3. (<<0>> \o past)[1] <= first
        BY <2>4, <2>5, PressInFront
      <4>4. \A i \in 1..count : i = 1 \/ i \in 2..count
        BY <2>6
      <4>5. Len(<<0>> \o past) = Len(past) + 1 /\ <<0>> \o past \in Seq(Nat)
        BY <2>5, PressInFront
      <4> QED BY <2>3, <2>5, <2>6, <2>11, <4>2, <4>3, <4>4, <4>5
    <3>2. shorts' = Newest(<<0>> \o past)
      BY <2>1, <2>2, <2>11
    <3>3. /\ shorts' \in Seq(Nat) /\ count <= Len(shorts')
          /\ \A i \in 1..count : shorts'[i] <= first
      BY <2>6, <3>1, <3>2, NewestFacts
    <3>4. ~over => count < PressTarget
      BY <2>4, <2>6, <2>8, <2>9, <2>11, ButtonAssumption
    <3>5. /\ pressCount' \in Nat /\ firstAge' \in Nat /\ pressCount' < PressTarget
          /\ pressCount' <= Len(shorts') /\ (multi => pressCount' = 0)
      BY <2>1, <2>4, <2>6, <2>8, <3>3, <3>4, ButtonAssumption
    <3>6. \A i \in 1..pressCount' : shorts'[i] <= firstAge'
      BY <2>1, <2>6, <2>11, <3>3
    <3>7. multi => count = PressTarget /\ first <= Window
      BY <2>6, <2>9, ButtonAssumption
    <3>8. \A i \in 1..count : shorts'[i] \in Nat
      BY <2>6, <3>3
    <3>9. MultiIsQuickSeries'
      BY <2>4, <2>6, <2>7, <3>3, <3>7, <3>8, ButtonAssumption DEF MultiIsQuickSeries
    <3> QED BY <2>7, <3>3, <3>5, <3>6, <3>9 DEF SeriesInv
  <2>12. CASE ~short
    <3>1. ~multi /\ count = pressCount
      BY <2>6, <2>9, <2>12
    <3>2. "multi" \notin event'
      BY <2>7, <3>1
    <3>3. shorts' \in Seq(Nat) /\ (~long => shorts' = past)
      BY <2>1, <2>5, <2>12
    <3>4. long => pressCount' = 0
      BY <2>1, <2>8
    <3>5. pressCount' \in {0, pressCount} /\ firstAge' \in Nat /\ Len(shorts') \in Nat
      BY <2>1, <2>4, <3>1, <3>3
    <3>6. pressCount' <= Len(shorts') /\ pressCount' < PressTarget
      BY <2>3, <2>5, <2>10, <3>3, <3>4, <3>5, ButtonAssumption
    <3>7. \A i \in 1..pressCount' : shorts'[i] <= firstAge'
      BY <2>1, <2>3, <2>5, <3>1, <3>3, <3>4, <3>5
    <3> QED BY <2>3, <3>2, <3>3, <3>5, <3>6, <3>7 DEF SeriesInv, MultiIsQuickSeries
  <2> QED BY <2>11, <2>12
<1> QED BY <1>1, <1>2 DEF ButtonNext

\* It holds before the first press.
LEMMA SeriesStart ==
  ASSUME ButtonInit PROVE SeriesInv
BY ButtonAssumption DEF ButtonInit, SeriesInv, MultiIsQuickSeries

\* A multiple press (ButtonManager.cpp) is the wanted number of short presses, each
\* released within the window of the first, with no long press among them, whatever
\* the debounce time, the window, the wanted number and the order of levels read.
THEOREM MultiIsAlwaysQuick == ButtonSpec => []MultiIsQuickSeries
<1>1. ButtonInit => SeriesInv BY SeriesStart
<1>2. SeriesInv /\ [ButtonNext]_buttonVars => SeriesInv' BY SeriesStep
<1>3. SeriesInv => MultiIsQuickSeries BY DEF SeriesInv
<1> QED BY <1>1, <1>2, <1>3, PTL DEF ButtonSpec
=============================================================================
