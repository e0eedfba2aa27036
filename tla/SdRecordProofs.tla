---------------------------- MODULE SdRecordProofs ----------------------------
(***************************************************************************)
(* No record of the SD logger is lost uncounted, for every capacity, size  *)
(* of batch, number of retries, setting and number of faults.              *)
(*                                                                         *)
(* A record accepted for a destination is safe while it is pending in its  *)
(* ring, once it is in a closed file, and once its stream was switched     *)
(* off.  Only a step that counts a record as dropped may take it from      *)
(* there.  The one step that could break this is the success of a job: it  *)
(* clears the whole batch, so the batch must be in the file by then.  That *)
(* is what the answer "ok" to a close means if, since the last line was    *)
(* written, the records at the head of the ring are still the same ones.   *)
(***************************************************************************)
EXTENDS SdLoggerProofs

Safe(d) == Pending(ring[RingOf(d)], d) \cup disk[d] \cup off[d]

\* Records are numbered as they are offered.
Accounts ==
  /\ \A d \in Dests : wanted[d] \subseteq 1..offered[RingOf(d)]
  /\ DOMAIN disk = Dests /\ DOMAIN off = Dests /\ DOMAIN wanted = Dests

\* The records of the job in progress.
Batch == Ids(ring[RingOf(job.dest)], job.batch)

\* A job that has written all its lines closes its file for the whole batch, and
\* the batch is in the file once the close has succeeded.
CloseInv ==
  job.op = "close" /\ job.fail = "none" =>
    \A i \in JobAsked(sd) :
      /\ sd[i].dest = job.dest /\ Batch \subseteq sd[i].ids
      /\ sd[i].res = "ok" => Batch \subseteq disk[job.dest]

RecordInv == Accounts /\ CloseInv /\ NothingLost

-----------------------------------------------------------------------------
(* Counting. *)

LEMMA Countable ==
  ASSUME NEW n \in Nat, NEW S, S \subseteq 1..n
  PROVE  IsFiniteSet(S) /\ Cardinality(S) \in Nat
<1>1. IsFiniteSet(1..n) BY FS_Interval
<1>2. IsFiniteSet(S) BY <1>1, FS_Subset
<1> QED BY <1>2, FS_CardinalityType

LEMMA NoMore ==
  ASSUME NEW S, NEW T, T \subseteq S, IsFiniteSet(S)
  PROVE  IsFiniteSet(T) /\ Cardinality(T) <= Cardinality(S)
BY FS_Subset

\* At most g more elements.
LEMMA FewMore ==
  ASSUME NEW S, NEW G, NEW T, IsFiniteSet(S), IsFiniteSet(G), T \subseteq S \cup G
  PROVE  Cardinality(T) <= Cardinality(S) + Cardinality(G)
<1>1. /\ IsFiniteSet(S \cup G)
      /\ Cardinality(S \cup G) = Cardinality(S) + Cardinality(G) - Cardinality(S \cap G)
  BY FS_Union
<1>2. IsFiniteSet(S \cap G) BY FS_Subset
<1>3. /\ Cardinality(S) \in Nat /\ Cardinality(G) \in Nat /\ Cardinality(S \cap G) \in Nat
      /\ Cardinality(S \cup G) \in Nat
  BY <1>1, <1>2, FS_CardinalityType
<1>4. IsFiniteSet(T) /\ Cardinality(T) <= Cardinality(S \cup G) BY <1>1, NoMore
<1>5. Cardinality(T) \in Nat BY <1>4, FS_CardinalityType
<1> QED BY <1>1, <1>3, <1>4, <1>5

-----------------------------------------------------------------------------
(* Records that stay pending. *)

\* Trimming takes nothing that is pending.
LEMMA TrimKeepsPending ==
  ASSUME NEW q \in Seq(Record), NEW d PROVE Pending(q, d) \subseteq Pending(Trim(q), d)
<1> DEFINE live == {i \in DOMAIN q : q[i].pend # {}}
           first == CHOOSE i \in live : \A j \in live : i <= j
<1>0. DOMAIN q = 1..Len(q) /\ Len(q) \in Nat OBVIOUS
<1> SUFFICES ASSUME NEW i \in DOMAIN q, d \in q[i].pend
             PROVE  q[i].id \in Pending(Trim(q), d)
  BY DEF Pending
<1>1. i \in live OBVIOUS
<1>2. live \subseteq Nat BY <1>0
<1>3. \E m \in live : \A j \in live : m <= j BY <1>1, <1>2, Least
<1>4. first \in 1..Len(q) /\ first <= i BY <1>0, <1>1, <1>3
<1>5. Trim(q) = SubSeq(q, first, Len(q)) BY <1>1 DEF Trim
<1> HIDE DEF first, live
<1> DEFINE t == SubSeq(q, first, Len(q))
<1>6. Len(t) = Len(q) - first + 1 /\ \A x \in 1..(Len(q) - first + 1) : t[x] = q[x + first - 1]
  BY <1>0, <1>4
<1>7. DOMAIN t = 1..(Len(q) - first + 1)
  BY <1>0, <1>4
<1> HIDE DEF t
<1>8. i - first + 1 \in 1..(Len(q) - first + 1) /\ (i - first + 1) + first - 1 = i
  BY <1>0, <1>4
<1>9. i - first + 1 \in DOMAIN t /\ t[i - first + 1] = q[i] BY <1>6, <1>7, <1>8
<1>10. q[i].id \in Pending(t, d) BY <1>9 DEF Pending
<1> QED BY <1>5, <1>10 DEF t

\* t is ring q with some records no longer pending for d: only those in G.
LEMMA PendingOrIn ==
  ASSUME NEW q \in Seq(Record), NEW t \in Seq(Record), DOMAIN t = DOMAIN q, NEW d, NEW G,
         \A i \in DOMAIN q : t[i].id = q[i].id
                             /\ (d \in q[i].pend => d \in t[i].pend \/ q[i].id \in G)
  PROVE  Pending(q, d) \subseteq Pending(Trim(t), d) \cup G
<1>1. Pending(q, d) \subseteq Pending(t, d) \cup G BY DEF Pending
<1> QED BY <1>1, TrimKeepsPending

-----------------------------------------------------------------------------
(* What the end of a job takes from the rings. *)

\* The records given up by a failure of the batch.
GaveUp(q, n, d) == {q[i].id : i \in {j \in 1..n : GivesUp(q[j], d)}}

\* They are no more than the failures counted.
LEMMA GaveUpCounted ==
  ASSUME NEW q, NEW n \in Nat, NEW d
  PROVE  IsFiniteSet(GaveUp(q, n, d)) /\ Cardinality(GaveUp(q, n, d)) <= GivenUp(q, n, d)
<1> DEFINE S == {j \in 1..n : GivesUp(q[j], d)}
           T == GaveUp(q, n, d)
           f == [i \in S |-> q[i].id]
<1>1. IsFiniteSet(1..n) BY FS_Interval
<1>2. S \in SUBSET (1..n) OBVIOUS
<1>3. IsFiniteSet(S) BY <1>1, <1>2, FS_Subset
<1>4. f \in [S -> T] /\ \A t \in T : \E s \in S : f[s] = t BY DEF GaveUp
<1> HIDE DEF S, T, f
<1>5. f \in Surjection(S, T) BY <1>4 DEF Surjection
<1>6. IsFiniteSet(T) /\ Cardinality(T) <= Cardinality(S) BY <1>3, <1>5, FS_Surjection
<1> QED BY <1>6 DEF GivenUp, S, T

\* Success takes the batch from the destination, and nothing from another.
LEMMA WrittenPending ==
  ASSUME NEW q \in Seq(Record), NEW n \in Nat, NEW e \in Dests, NEW d \in Dests
  PROVE  Pending(q, d) \subseteq Pending(Written(q, n, e), d)
                                  \cup (IF d = e THEN Ids(q, n) ELSE {})
<1> DEFINE t == [i \in DOMAIN q |-> IF i <= n THEN Cleared(q[i], e) ELSE q[i]]
           G == IF d = e THEN Ids(q, n) ELSE {}
<1>1. DOMAIN q = 1..Len(q) /\ Len(q) \in Nat /\ \A i \in DOMAIN q : q[i] \in Record OBVIOUS
<1>2. ASSUME NEW r \in Record
      PROVE  /\ Cleared(r, e) \in Record /\ Cleared(r, e).id = r.id
             /\ Cleared(r, e).pend = r.pend \ {e}
  <2>1. /\ r.tries \in [Dests -> 0..MaxRetries] /\ r.pend \in SUBSET Dests
        /\ [r.tries EXCEPT ![e] = 0] \in [Dests -> 0..MaxRetries]
    BY QueueAssumption DEF Record
  <2> QED BY <2>1 DEF Cleared, Record
<1>3. t \in Seq(Record) /\ DOMAIN t = DOMAIN q BY <1>1, <1>2
<1>4. ASSUME NEW i \in DOMAIN q
      PROVE  t[i].id = q[i].id /\ (d \in q[i].pend => d \in t[i].pend \/ q[i].id \in G)
  <2>1. q[i] \in Record /\ i \in Nat /\ i >= 1 BY <1>1
  <2>2. CASE i <= n
    <3>1. t[i].id = q[i].id /\ t[i].pend = q[i].pend \ {e} BY <1>2, <2>1, <2>2
    <3>2. d = e => q[i].id \in G BY <2>1, <2>2 DEF Ids
    <3> QED BY <3>1, <3>2
  <2>3. CASE ~(i <= n) BY <2>3
  <2> QED BY <2>2, <2>3
<1>5. Written(q, n, e) = Trim(t) BY DEF Written
<1> HIDE DEF t, G
<1>6. Pending(q, d) \subseteq Pending(Trim(t), d) \cup G BY <1>3, <1>4, PendingOrIn
<1> QED BY <1>5, <1>6 DEF G

\* So does a rotation that discards it.
LEMMA DiscardedPending ==
  ASSUME NEW q \in Seq(Record), NEW n \in Nat, NEW e \in Dests, NEW d \in Dests
  PROVE  Pending(q, d) \subseteq Pending(Discarded(q, n, e), d)
                                  \cup (IF d = e THEN Ids(q, n) ELSE {})
<1> DEFINE t == [i \in DOMAIN q |-> IF i <= n THEN [q[i] EXCEPT !.pend = @ \ {e}] ELSE q[i]]
           G == IF d = e THEN Ids(q, n) ELSE {}
<1>1. DOMAIN q = 1..Len(q) /\ Len(q) \in Nat /\ \A i \in DOMAIN q : q[i] \in Record OBVIOUS
<1>2. ASSUME NEW r \in Record
      PROVE  /\ [r EXCEPT !.pend = @ \ {e}] \in Record /\ [r EXCEPT !.pend = @ \ {e}].id = r.id
             /\ [r EXCEPT !.pend = @ \ {e}].pend = r.pend \ {e}
  BY DEF Record
<1>3. t \in Seq(Record) /\ DOMAIN t = DOMAIN q BY <1>1, <1>2
<1>4. ASSUME NEW i \in DOMAIN q
      PROVE  t[i].id = q[i].id /\ (d \in q[i].pend => d \in t[i].pend \/ q[i].id \in G)
  <2>1. q[i] \in Record /\ i \in Nat /\ i >= 1 BY <1>1
  <2>2. CASE i <= n
    <3>1. t[i].id = q[i].id /\ t[i].pend = q[i].pend \ {e} BY <1>2, <2>1, <2>2
    <3>2. d = e => q[i].id \in G BY <2>1, <2>2 DEF Ids
    <3> QED BY <3>1, <3>2
  <2>3. CASE ~(i <= n) BY <2>3
  <2> QED BY <2>2, <2>3
<1>5. Discarded(q, n, e) = Trim(t) BY DEF Discarded
<1> HIDE DEF t, G
<1>6. Pending(q, d) \subseteq Pending(Trim(t), d) \cup G BY <1>3, <1>4, PendingOrIn
<1> QED BY <1>5, <1>6 DEF G

\* A failure takes the records it gives up, and nothing from another destination.
LEMMA FailedPending ==
  ASSUME NEW q \in Seq(Record), NEW n \in Nat, NEW e \in Dests, NEW d \in Dests
  PROVE  Pending(q, d) \subseteq Pending(Failed(q, n, e), d)
                                  \cup (IF d = e THEN GaveUp(q, n, e) ELSE {})
<1> DEFINE t == [i \in DOMAIN q |-> IF i <= n THEN Tried(q[i], e) ELSE q[i]]
           G == IF d = e THEN GaveUp(q, n, e) ELSE {}
<1>1. DOMAIN q = 1..Len(q) /\ Len(q) \in Nat /\ \A i \in DOMAIN q : q[i] \in Record OBVIOUS
<1>2. ASSUME NEW r \in Record
      PROVE  /\ Tried(r, e) \in Record /\ Tried(r, e).id = r.id
             /\ Tried(r, e).pend = r.pend \/ (GivesUp(r, e) /\ Tried(r, e).pend = r.pend \ {e})
  <2>1. r.tries \in [Dests -> 0..MaxRetries] /\ r.pend \in SUBSET Dests BY DEF Record
  <2>2. [r.tries EXCEPT ![e] = MaxRetries] \in [Dests -> 0..MaxRetries]
    BY <2>1, QueueAssumption
  <2>3. ~GivesUp(r, e) => [r.tries EXCEPT ![e] = @ + 1] \in [Dests -> 0..MaxRetries]
    BY <2>1, QueueAssumption DEF GivesUp
  <2>4. CASE GivesUp(r, e) BY <2>1, <2>2, <2>4 DEF Tried, Record
  <2>5. CASE ~GivesUp(r, e) BY <2>1, <2>3, <2>5 DEF Tried, Record
  <2> QED BY <2>4, <2>5
<1>3. t \in Seq(Record) /\ DOMAIN t = DOMAIN q BY <1>1, <1>2
<1>4. ASSUME NEW i \in DOMAIN q
      PROVE  t[i].id = q[i].id /\ (d \in q[i].pend => d \in t[i].pend \/ q[i].id \in G)
  <2>1. q[i] \in Record /\ i \in Nat /\ i >= 1 BY <1>1
  <2>2. CASE i <= n
    <3>1. /\ t[i].id = q[i].id
          /\ t[i].pend = q[i].pend \/ (GivesUp(q[i], e) /\ t[i].pend = q[i].pend \ {e})
      BY <1>2, <2>1, <2>2
    <3>2. d = e /\ GivesUp(q[i], e) => q[i].id \in G BY <2>1, <2>2 DEF GaveUp
    <3> QED BY <3>1, <3>2
  <2>3. CASE ~(i <= n) BY <2>3
  <2> QED BY <2>2, <2>3
<1>5. Failed(q, n, e) = Trim(t) BY DEF Failed
<1> HIDE DEF t, G
<1>6. Pending(q, d) \subseteq Pending(Trim(t), d) \cup G BY <1>3, <1>4, PendingOrIn
<1> QED BY <1>5, <1>6 DEF G

-----------------------------------------------------------------------------
(* The account of a step that offers nothing. *)

LEMMA LostIsUnsafe == \A d : Lost(d) = wanted[d] \ Safe(d)
BY DEF Lost, Safe

LEMMA Books ==
  ASSUME Accounts, offered \in [Rings -> Nat]
  PROVE  /\ \A d \in Dests : IsFiniteSet(wanted[d])
         /\ \A d \in Dests : IsFiniteSet(Lost(d)) /\ Cardinality(Lost(d)) \in Nat
         /\ \A k \in Rings : /\ Accepted(k) \subseteq 1..offered[k] /\ IsFiniteSet(Accepted(k))
                             /\ Cardinality(Accepted(k)) \in Nat
<1>1. ASSUME NEW d \in Dests
      PROVE  /\ IsFiniteSet(wanted[d])
             /\ IsFiniteSet(Lost(d)) /\ Cardinality(Lost(d)) \in Nat
  <2>1. offered[RingOf(d)] \in Nat /\ wanted[d] \subseteq 1..offered[RingOf(d)]
    BY RingOfRing DEF Accounts
  <2>2. Lost(d) \subseteq 1..offered[RingOf(d)] BY <2>1 DEF Lost
  <2> QED BY <2>1, <2>2, Countable
<1>2. ASSUME NEW k \in Rings
      PROVE  /\ Accepted(k) \subseteq 1..offered[k] /\ IsFiniteSet(Accepted(k))
             /\ Cardinality(Accepted(k)) \in Nat
  <2>1. offered[k] \in Nat /\ Accepted(k) \subseteq 1..offered[k] BY DEF Accounts, Accepted
  <2> QED BY <2>1, Countable
<1> QED BY <1>1, <1>2

\* The balance holds if destination e loses g records at most and they are counted.
LEMMA Balanced ==
  ASSUME Accounts, NothingLost, offered \in [Rings -> Nat], dropped \in [Rings -> Nat],
         UNCHANGED offers, NEW e \in Dests, NEW g \in Nat,
         \A d \in Dests : /\ IsFiniteSet(Lost(d)')
                          /\ Cardinality(Lost(d)')
                               <= Cardinality(Lost(d)) + (IF d = e THEN g ELSE 0),
         \A k \in Rings : dropped'[k] = dropped[k] + (IF k = RingOf(e) THEN g ELSE 0)
  PROVE  NothingLost'
<1> DEFINE n(d) == Cardinality(Lost(d))
           m(d) == Cardinality(Lost(d)')
           a(k) == Cardinality(Accepted(k))
<1>1. \A d \in Dests : n(d) \in Nat /\ m(d) \in Nat BY Books, FS_CardinalityType
<1>2. \A k \in Rings : a(k) \in Nat /\ offered[k] \in Nat /\ dropped[k] \in Nat BY Books
<1>3. \A d \in Dests : m(d) <= n(d) + (IF d = e THEN g ELSE 0) OBVIOUS
<1>4. /\ n("daily") + n("all") + (offered["sample"] - a("sample")) <= dropped["sample"]
      /\ n("event") + (offered["event"] - a("event")) <= dropped["event"]
  BY DEF NothingLost
<1>5. offered' = offered BY DEF offers
<1>6. \A k : Accepted(k)' = Accepted(k) BY DEF offers, Accepted
<1>7. NothingLost' <=>
        /\ m("daily") + m("all") + (offered["sample"] - a("sample")) <= dropped'["sample"]
        /\ m("event") + (offered["event"] - a("event")) <= dropped'["event"]
  BY <1>5, <1>6 DEF NothingLost
<1>8. {"daily", "all", "event"} = Dests /\ {"sample", "event"} = Rings
  BY DEF Dests, Rings
<1> HIDE DEF n, m, a
<1>9. CASE e = "event"
  <2>1. /\ dropped'["sample"] = dropped["sample"] /\ dropped'["event"] = dropped["event"] + g
        /\ m("daily") <= n("daily") /\ m("all") <= n("all") /\ m("event") <= n("event") + g
    BY <1>1, <1>2, <1>3, <1>8, <1>9 DEF RingOf
  <2> QED BY <1>1, <1>2, <1>4, <1>7, <1>8, <2>1
<1>10. CASE e # "event"
  <2>1. dropped'["sample"] = dropped["sample"] + g /\ dropped'["event"] = dropped["event"]
    BY <1>2, <1>8, <1>10 DEF RingOf
  <2>2. \/ m("daily") <= n("daily") + g /\ m("all") <= n("all")
        \/ m("daily") <= n("daily") /\ m("all") <= n("all") + g
    BY <1>1, <1>3, <1>8, <1>10
  <2>3. m("event") <= n("event") BY <1>1, <1>3, <1>8, <1>10
  <2> QED BY <1>1, <1>2, <1>4, <1>7, <1>8, <2>1, <2>2, <2>3
<1> QED BY <1>9, <1>10

LEMMA AccountsStay ==
  ASSUME Accounts, UNCHANGED offers, DOMAIN disk' = Dests, DOMAIN off' = Dests
  PROVE  Accounts'
BY DEF Accounts, offers

\* The balance holds if what is safe stays so.
LEMMA SafeBalanced ==
  ASSUME Accounts, NothingLost, offered \in [Rings -> Nat], dropped \in [Rings -> Nat],
         UNCHANGED offers, UNCHANGED dropped,
         \A d \in Dests : Safe(d) \subseteq Safe(d)'
  PROVE  NothingLost'
<1>1. wanted' = wanted BY DEF offers
<1>2. ASSUME NEW d \in Dests
      PROVE  /\ IsFiniteSet(Lost(d)')
             /\ Cardinality(Lost(d)') <= Cardinality(Lost(d)) + (IF d = "daily" THEN 0 ELSE 0)
  <2>1. Lost(d)' = wanted[d] \ (Safe(d)') BY <1>1 DEF Lost, Safe
  <2>2. Lost(d)' \subseteq Lost(d) BY <2>1, LostIsUnsafe
  <2>3. IsFiniteSet(Lost(d)) /\ Cardinality(Lost(d)) \in Nat BY Books
  <2>4. IsFiniteSet(Lost(d)') /\ Cardinality(Lost(d)') <= Cardinality(Lost(d))
    BY <2>2, <2>3, NoMore
  <2> QED BY <2>3, <2>4
<1>3. \A k \in Rings : dropped'[k] = dropped[k] + (IF k = RingOf("daily") THEN 0 ELSE 0)
  OBVIOUS
<1>4. "daily" \in Dests BY DEF Dests
<1> QED BY <1>2, <1>3, <1>4, Balanced

-----------------------------------------------------------------------------
(* The job's close in the queue. *)

\* What t holds of the job's requests is in s.
Inherits(s, t) == \A k \in JobAsked(t) : \E i \in JobAsked(s) : t[k] = s[i]

LEMMA InheritsSelf == ASSUME NEW s PROVE Inherits(s, s)
BY DEF Inherits

LEMMA InheritsTrans ==
  ASSUME NEW s, NEW t, NEW u, Inherits(s, t), Inherits(t, u) PROVE Inherits(s, u)
BY DEF Inherits

LEMMA InheritsNone == ASSUME NEW s, NEW t, JobAsked(t) = {} PROVE Inherits(s, t)
BY DEF Inherits

LEMMA InheritsTail ==
  ASSUME NEW s, IsQueue(s), s # <<>> PROVE Inherits(s, Tail(s))
<1>1. PICK D, I : s \in Seq(Fields(D, I)) BY DEF IsQueue
<1>2. /\ Len(s) \in Nat /\ DOMAIN s = 1..Len(s) /\ DOMAIN Tail(s) = 1..(Len(s) - 1)
      /\ \A i \in 1..(Len(s) - 1) : Tail(s)[i] = s[i + 1]
  BY <1>1
<1>3. \A i \in JobAsked(Tail(s)) : i + 1 \in JobAsked(s) /\ s[i + 1] = Tail(s)[i]
  BY <1>2 DEF JobAsked
<1> QED BY <1>3 DEF Inherits

LEMMA InheritsForget ==
  ASSUME NEW s, IsQueue(s), NEW C PROVE Inherits(s, Forget(s, C))
<1>1. PICK D, I : s \in Seq(Fields(D, I)) BY DEF IsQueue
<1>2. \A i \in DOMAIN s : s[i] \in Fields(D, I) BY <1>1
<1>3. \A i \in DOMAIN s : [s[i] EXCEPT !.for = "gone"].for = "gone" BY <1>2 DEF Fields
<1>4. DOMAIN Forget(s, C) = DOMAIN s
      /\ \A i \in DOMAIN s : Forget(s, C)[i] = IF s[i].for \in C
                                                THEN [s[i] EXCEPT !.for = "gone"] ELSE s[i]
  BY DEF Forget
<1>5. \A i \in JobAsked(Forget(s, C)) : i \in JobAsked(s) /\ Forget(s, C)[i] = s[i]
  BY <1>3, <1>4 DEF JobAsked
<1> QED BY <1>5 DEF Inherits

\* A request of another client is not the job's; the job's own is what it asked for.
LEMMA InheritsAsk ==
  ASSUME NEW s, IsQueue(s), NEW c \in Clients, NEW o, NEW d, NEW ids, AskFor(s, c, o, d, ids)
  PROVE  /\ c # "job" => Inherits(s, sd')
         /\ JobAsked(s) = {} =>
              \A i \in JobAsked(sd') :
                sd'[i].dest = d /\ sd'[i].ids = ids /\ sd'[i].res = "todo"
<1> DEFINE new == [for |-> c, op |-> o, dest |-> d, ids |-> ids, res |-> "todo"]
<1>1. PICK D, I : s \in Seq(Fields(D, I)) BY DEF IsQueue
<1>2. sd' = Append(s, new) BY DEF AskFor
<1>3. /\ DOMAIN s = 1..Len(s) /\ Len(s) \in Nat /\ DOMAIN sd' = 1..(Len(s) + 1)
      /\ sd'[Len(s) + 1] = new /\ \A i \in 1..Len(s) : sd'[i] = s[i]
  BY <1>1, <1>2
<1>4. \A i \in JobAsked(sd') :
        \/ i \in JobAsked(s) /\ sd'[i] = s[i]
        \/ c = "job" /\ sd'[i] = new
  BY <1>3 DEF JobAsked
<1>5. new.dest = d /\ new.ids = ids /\ new.res = "todo" OBVIOUS
<1> HIDE DEF new
<1> QED BY <1>4, <1>5 DEF Inherits

-----------------------------------------------------------------------------
(* Three ways in which a step may touch the invariant. *)

\* The job is not closing a file whose lines are all written.
NotClosing == job.op # "close" \/ job.fail # "none"

\* A job goes on as before.
JobStays ==
  job'.dest = job.dest /\ job'.op = job.op /\ job'.batch = job.batch /\ job'.fail = job.fail

\* The records keep their places in the rings, and the closed files their records.
RecordsStay ==
  /\ \A k \in Rings : \A i \in 1..Len(ring[k]) : ring'[k][i].id = ring[k][i].id
  /\ \A d \in Dests : disk[d] \subseteq disk'[d]

LEMMA CloseStays ==
  ASSUME JobInv, CloseInv, JobStays, Inherits(sd, sd'), RecordsStay
  PROVE  CloseInv'
<1> SUFFICES ASSUME job'.op = "close", job'.fail = "none", NEW k \in JobAsked(sd)'
             PROVE  /\ sd'[k].dest = job'.dest /\ Batch' \subseteq sd'[k].ids
                    /\ sd'[k].res = "ok" => Batch' \subseteq disk'[job'.dest]
  BY DEF CloseInv
<1>1. job.op = "close" /\ job.fail = "none" BY DEF JobStays
<1>2. PICK i \in JobAsked(sd) : sd'[k] = sd[i] BY DEF Inherits, JobAsked
<1>3. /\ sd[i].dest = job.dest /\ Batch \subseteq sd[i].ids
      /\ sd[i].res = "ok" => Batch \subseteq disk[job.dest]
  BY <1>1, <1>2 DEF CloseInv
<1>4. job # NoJob BY <1>1 DEF NoJob
<1>5. job.dest \in Dests /\ RingOf(job.dest) \in Rings
  BY <1>4, RingOfRing DEF JobInv, JobWell
<1>6. job.batch \in 1..Len(ring[RingOf(job.dest)]) BY <1>4 DEF JobInv, JobHoldsHead
<1>7. ring[RingOf(job.dest)] \in Seq(Record) BY <1>5 DEF JobInv, LoggerType, RingType
<1>8. \A x \in 1..job.batch : x \in 1..Len(ring[RingOf(job.dest)]) BY <1>6, <1>7
<1>9. Batch' = Batch
  <2>1. \A x \in 1..job.batch :
          ring'[RingOf(job.dest)][x].id = ring[RingOf(job.dest)][x].id
    BY <1>5, <1>8 DEF RecordsStay
  <2> QED BY <2>1 DEF Batch, Ids, JobStays
<1> QED BY <1>2, <1>3, <1>5, <1>9 DEF JobStays, RecordsStay

LEMMA CloseOver == ASSUME NotClosing' PROVE CloseInv'
BY DEF NotClosing, CloseInv

\* A step that leaves records and counts alone.
Quiet == /\ UNCHANGED <<queues, disk, offers, off>>
         /\ NotClosing' \/ (JobStays /\ Inherits(sd, sd'))

LEMMA RecordsQuiet == ASSUME JobInv, RecordInv, Quiet PROVE RecordInv'
<1>1. UNCHANGED <<ring, dropped, disk, offers, off>> BY DEF Quiet, queues
<1>2. Accounts' BY <1>1, AccountsStay DEF RecordInv, Accounts
<1>3. \A d \in Dests : Safe(d) \subseteq Safe(d)' BY <1>1 DEF Safe
<1>4. dropped \in [Rings -> Nat] /\ offered \in [Rings -> Nat]
  BY DEF JobInv, LoggerType, RingType
<1>5. NothingLost' BY <1>1, <1>3, <1>4, SafeBalanced DEF RecordInv
<1>6. RecordsStay BY <1>1 DEF RecordsStay
<1>7. CloseInv' BY <1>6, CloseStays, CloseOver DEF Quiet, RecordInv
<1> QED BY <1>2, <1>5, <1>7 DEF RecordInv

LEMMA NoJobCloses == ASSUME job' = NoJob PROVE NotClosing'
BY DEF NotClosing, NoJob

\* The batch fails once more; what is given up is counted.
LEMMA RecordsFail ==
  ASSUME JobInv, RecordInv, job # NoJob, FailBatch, UNCHANGED <<disk, offers, off>>
  PROVE  RecordInv'
<1> PICK e : e = job.dest OBVIOUS
<1> DEFINE k == RingOf(e)
           n == job.batch
           g == GivenUp(ring[k], n, e)
           G == GaveUp(ring[k], n, e)
<1>1. e \in Dests /\ k \in Rings /\ n \in Nat /\ ring[k] \in Seq(Record)
  BY RingOfRing, QueueAssumption
  DEF JobInv, JobWell, JobHoldsHead, LoggerType, RingType, JobType
<1>2. dropped \in [Rings -> Nat] /\ offered \in [Rings -> Nat] /\ ring \in [Rings -> Seq(Record)]
  BY DEF JobInv, LoggerType, RingType
<1>3. /\ ring' = [ring EXCEPT ![k] = Failed(ring[k], n, e)]
      /\ dropped' = [dropped EXCEPT ![k] = @ + g] /\ job' = NoJob
  BY DEF FailBatch
<1>4. IsFiniteSet(G) /\ Cardinality(G) <= g /\ g \in Nat /\ Cardinality(G) \in Nat
  BY <1>1, GaveUpCounted, GivenUpType, FS_CardinalityType
<1>5. ASSUME NEW d \in Dests
      PROVE  Safe(d) \subseteq Safe(d)' \cup (IF d = e THEN G ELSE {})
  <2>1. CASE RingOf(d) = k
    <3>1. Pending(ring[k], d) \subseteq Pending(Failed(ring[k], n, e), d)
                                           \cup (IF d = e THEN G ELSE {})
      BY <1>1, FailedPending
    <3>2. ring'[RingOf(d)] = Failed(ring[k], n, e) BY <1>1, <1>2, <1>3, <2>1
    <3> QED BY <2>1, <3>1, <3>2 DEF Safe
  <2>2. CASE RingOf(d) # k
    <3>1. ring'[RingOf(d)] = ring[RingOf(d)] BY <1>2, <1>3, <2>2, RingOfRing
    <3> QED BY <3>1 DEF Safe
  <2> QED BY <2>1, <2>2
<1> HIDE DEF g, G
<1>6. wanted' = wanted BY DEF offers
<1>7. ASSUME NEW d \in Dests
      PROVE  /\ IsFiniteSet(Lost(d)')
             /\ Cardinality(Lost(d)') <= Cardinality(Lost(d)) + (IF d = e THEN g ELSE 0)
  <2>1. Lost(d)' = wanted[d] \ (Safe(d)') BY <1>6 DEF Lost, Safe
  <2>2. Lost(d)' \subseteq Lost(d) \cup (IF d = e THEN G ELSE {})
    BY <1>5, <2>1, LostIsUnsafe
  <2>3. IsFiniteSet(Lost(d)) /\ Cardinality(Lost(d)) \in Nat /\ IsFiniteSet(wanted[d])
    BY <1>2, Books DEF RecordInv
  <2>4. IsFiniteSet(Lost(d)') BY <2>1, <2>3, NoMore
  <2>5. Cardinality(Lost(d)') \in Nat BY <2>4, FS_CardinalityType
  <2>6. CASE d = e
    <3>1. Cardinality(Lost(d)') <= Cardinality(Lost(d)) + Cardinality(G)
      BY <1>4, <2>2, <2>3, <2>6, FewMore
    <3> QED BY <1>4, <2>3, <2>4, <2>5, <2>6, <3>1
  <2>7. CASE d # e
    <3>1. Cardinality(Lost(d)') <= Cardinality(Lost(d)) BY <2>2, <2>3, <2>7, NoMore
    <3> QED BY <2>3, <2>4, <2>7, <3>1
  <2> QED BY <2>6, <2>7
<1>8. \A r \in Rings : dropped'[r] = dropped[r] + (IF r = RingOf(e) THEN g ELSE 0)
  BY <1>1, <1>2, <1>3, <1>4
<1>9. NothingLost' BY <1>1, <1>2, <1>4, <1>7, <1>8, Balanced DEF RecordInv
<1>10. Accounts' BY AccountsStay DEF RecordInv, Accounts
<1>11. CloseInv' BY <1>3, NoJobCloses, CloseOver
<1> QED BY <1>9, <1>10, <1>11 DEF RecordInv

-----------------------------------------------------------------------------
(* The steps: calls of the application. *)

LEMMA RecordInit == Init => RecordInv
<1> SUFFICES ASSUME Init PROVE RecordInv OBVIOUS
<1>1. /\ offered = [k \in Rings |-> 0] /\ dropped = [k \in Rings |-> 0]
      /\ wanted = [d \in Dests |-> {}] /\ disk = [d \in Dests |-> {}]
      /\ off = [d \in Dests |-> {}] /\ job = NoJob
  BY DEF Init
<1>2. Accounts BY <1>1, RingOfRing DEF Accounts
<1>3. CloseInv BY <1>1 DEF CloseInv, NoJob
<1>4. \A d \in Dests : Lost(d) = {} BY <1>1 DEF Lost
<1>5. \A k \in Rings : Accepted(k) = {} /\ offered[k] = 0 /\ dropped[k] = 0
  BY <1>1 DEF Accepted
<1>6. NothingLost
  <2>1. Cardinality({}) = 0 BY FS_EmptySet
  <2>2. /\ Cardinality(Lost("daily")) = 0 /\ Cardinality(Lost("all")) = 0
        /\ Cardinality(Lost("event")) = 0
    BY <1>4, <2>1 DEF Dests
  <2>3. /\ Cardinality(Accepted("sample")) = 0 /\ Cardinality(Accepted("event")) = 0
        /\ offered["sample"] = 0 /\ offered["event"] = 0
        /\ dropped["sample"] = 0 /\ dropped["event"] = 0
    BY <1>5, <2>1 DEF Rings
  <2> QED BY <2>2, <2>3 DEF NothingLost
<1> QED BY <1>2, <1>3, <1>6 DEF RecordInv

\* One more record is offered, and it is accepted or dropped.
LEMMA OfferBalanced ==
  ASSUME Accounts, NothingLost, offered \in [Rings -> Nat], dropped \in [Rings -> Nat],
         NEW k \in Rings, NEW g \in {0, 1},
         \A d \in Dests : /\ Cardinality(Lost(d)') \in Nat
                          /\ Cardinality(Lost(d)') <= Cardinality(Lost(d)),
         \A r \in Rings :
           /\ offered'[r] = offered[r] + (IF r = k THEN 1 ELSE 0)
           /\ dropped'[r] = dropped[r] + (IF r = k THEN g ELSE 0)
           /\ Cardinality(Accepted(r)') = Cardinality(Accepted(r)) + (IF r = k THEN 1 - g ELSE 0)
  PROVE  NothingLost'
<1> DEFINE n(d) == Cardinality(Lost(d))
           m(d) == Cardinality(Lost(d)')
           a(r) == Cardinality(Accepted(r))
           b(r) == Cardinality(Accepted(r)')
<1>1. \A d \in Dests : n(d) \in Nat /\ m(d) \in Nat /\ m(d) <= n(d) BY Books
<1>2. \A r \in Rings : a(r) \in Nat /\ offered[r] \in Nat /\ dropped[r] \in Nat BY Books
<1>3. \A r \in Rings :
        /\ offered'[r] = offered[r] + (IF r = k THEN 1 ELSE 0)
        /\ dropped'[r] = dropped[r] + (IF r = k THEN g ELSE 0)
        /\ b(r) = a(r) + (IF r = k THEN 1 - g ELSE 0)
  OBVIOUS
<1>4. /\ n("daily") + n("all") + (offered["sample"] - a("sample")) <= dropped["sample"]
      /\ n("event") + (offered["event"] - a("event")) <= dropped["event"]
  BY DEF NothingLost
<1>5. NothingLost' <=>
        /\ m("daily") + m("all") + (offered'["sample"] - b("sample")) <= dropped'["sample"]
        /\ m("event") + (offered'["event"] - b("event")) <= dropped'["event"]
  BY DEF NothingLost
<1>6. {"daily", "all", "event"} = Dests /\ {"sample", "event"} = Rings
  BY DEF Dests, Rings
<1> HIDE DEF n, m, a, b
<1>7. ASSUME NEW r \in Rings PROVE offered'[r] - b(r) - dropped'[r] = offered[r] - a(r) - dropped[r]
  <2>1. CASE r = k BY <1>2, <1>3, <2>1
  <2>2. CASE r # k BY <1>2, <1>3, <2>2
  <2> QED BY <2>1, <2>2
<1>8. \A r \in Rings : offered'[r] \in Int /\ b(r) \in Int /\ dropped'[r] \in Int
  BY <1>2, <1>3
<1>9. m("daily") + m("all") + (offered'["sample"] - b("sample")) <= dropped'["sample"]
  BY <1>1, <1>2, <1>4, <1>6, <1>7, <1>8
<1>10. m("event") + (offered'["event"] - b("event")) <= dropped'["event"]
  BY <1>1, <1>2, <1>4, <1>6, <1>7, <1>8
<1> QED BY <1>5, <1>9, <1>10

LEMMA RecordsOffer ==
  ASSUME JobInv, RecordInv, NEW k \in Rings, NEW dests \in SUBSET Dests, dests # {},
         \A d \in dests : RingOf(d) = k, Offer(k, dests)
  PROVE  RecordInv'
<1>1. /\ UNCHANGED <<job, sd, disk, off>> /\ offered' = [offered EXCEPT ![k] = @ + 1]
  BY DEF Offer, library
<1>2. /\ dropped \in [Rings -> Nat] /\ offered \in [Rings -> Nat]
      /\ ring \in [Rings -> Seq(Record)]
  BY DEF JobInv, LoggerType, RingType
<1>3. Accounts /\ NothingLost /\ CloseInv BY DEF RecordInv
<1>4. \A r \in Rings : offered'[r] = offered[r] + (IF r = k THEN 1 ELSE 0)
                       /\ offered[r] \in Nat /\ offered'[r] \in Nat
  BY <1>1, <1>2
<1>5. CASE /\ ring' = [ring EXCEPT ![k] = Append(@, NewRecord(offered[k] + 1, dests))]
           /\ wanted' = [d \in Dests |->
                          IF d \in dests THEN wanted[d] \cup {offered[k] + 1} ELSE wanted[d]]
           /\ UNCHANGED dropped
  <2> PICK id : id = offered[k] + 1 OBVIOUS
  <2> DEFINE r == NewRecord(offered[k] + 1, dests)
  <2>1. r.id = id /\ r.pend = dests BY DEF NewRecord
  <2>2. ring' = [ring EXCEPT ![k] = Append(@, r)] BY <1>5
  <2> HIDE DEF r
  <2>3. /\ ring[k] \in Seq(Record) /\ Len(ring[k]) \in Nat /\ ring'[k] = Append(ring[k], r)
        /\ \A x \in Rings : x # k => ring'[x] = ring[x]
    BY <1>2, <2>2
  <2>4. /\ DOMAIN ring[k] = 1..Len(ring[k]) /\ DOMAIN ring'[k] = 1..(Len(ring[k]) + 1)
        /\ ring'[k][Len(ring[k]) + 1] = r
        /\ \A i \in 1..Len(ring[k]) : ring'[k][i] = ring[k][i]
    BY <2>3
  <2>5. ASSUME NEW d \in Dests, RingOf(d) = k
        PROVE  /\ Pending(ring[k], d) \subseteq Pending(ring'[k], d)
               /\ d \in dests => id \in Pending(ring'[k], d)
    <3>1. Pending(ring[k], d) \subseteq Pending(ring'[k], d) BY <2>3, <2>4 DEF Pending
    <3>2. Len(ring[k]) + 1 \in DOMAIN ring'[k] BY <2>3, <2>4
    <3>3. d \in dests => id \in Pending(ring'[k], d) BY <2>1, <2>4, <3>2 DEF Pending
    <3> QED BY <3>1, <3>3
  <2>6. ASSUME NEW d \in Dests
        PROVE  /\ Safe(d) \subseteq Safe(d)'
               /\ d \in dests => id \in Safe(d)'
               /\ wanted'[d] = wanted[d] \cup (IF d \in dests THEN {id} ELSE {})
    <3>1. wanted'[d] = wanted[d] \cup (IF d \in dests THEN {id} ELSE {}) BY <1>5
    <3>2. CASE RingOf(d) = k BY <1>1, <2>5, <3>1, <3>2 DEF Safe
    <3>3. CASE RingOf(d) # k
      <4>1. ring'[RingOf(d)] = ring[RingOf(d)] /\ d \notin dests BY <2>3, <3>3, RingOfRing
      <4> QED BY <1>1, <3>1, <4>1 DEF Safe
    <3> QED BY <3>2, <3>3
  <2>7. ASSUME NEW d \in Dests
        PROVE  Cardinality(Lost(d)') \in Nat /\ Cardinality(Lost(d)') <= Cardinality(Lost(d))
    <3>1. Lost(d)' = wanted'[d] \ (Safe(d)') BY DEF Lost, Safe
    <3>2. /\ Safe(d) \subseteq Safe(d)'
          /\ \A x \in wanted'[d] : x \in wanted[d] \/ x \in Safe(d)'
      BY <2>6
    <3>3. Lost(d) = wanted[d] \ Safe(d) BY LostIsUnsafe
    <3>4. Lost(d)' \subseteq Lost(d) BY <3>1, <3>2, <3>3
    <3>5. IsFiniteSet(Lost(d)) BY <1>2, <1>3, Books
    <3> QED BY <3>4, <3>5, NoMore, FS_CardinalityType
  <2>8. Accounts'
    <3>1. ASSUME NEW d \in Dests PROVE wanted'[d] \subseteq 1..offered'[RingOf(d)]
      <4>1. wanted[d] \subseteq 1..offered[RingOf(d)] /\ RingOf(d) \in Rings
        BY <1>3, RingOfRing DEF Accounts
      <4>2. CASE d \in dests
        <5>1. RingOf(d) = k /\ offered'[k] = id /\ id = offered[k] + 1 /\ offered[k] \in Nat
          BY <1>4, <4>2
        <5>2. 1..offered[k] \subseteq 1..id /\ id \in 1..id BY <5>1
        <5>3. wanted'[d] = wanted[d] \cup {id} BY <2>6, <4>2
        <5> QED BY <4>1, <5>1, <5>2, <5>3
      <4>3. CASE d \notin dests
        <5>1. offered[RingOf(d)] \in Nat
              /\ (offered'[RingOf(d)] = offered[RingOf(d)]
                  \/ offered'[RingOf(d)] = offered[RingOf(d)] + 1)
          BY <1>4, <4>1
        <5>2. 1..offered[RingOf(d)] \subseteq 1..offered'[RingOf(d)] BY <5>1
        <5>3. wanted'[d] = wanted[d] BY <2>6, <4>3
        <5> QED BY <4>1, <5>2, <5>3
      <4> QED BY <4>2, <4>3
    <3>2. DOMAIN disk' = Dests /\ DOMAIN off' = Dests /\ DOMAIN wanted' = Dests
      BY <1>1, <1>3, <1>5 DEF Accounts
    <3> QED BY <3>1, <3>2 DEF Accounts
  <2>9. ASSUME NEW x \in Rings
        PROVE  Cardinality(Accepted(x)') = Cardinality(Accepted(x)) + (IF x = k THEN 1 ELSE 0)
    <3>1. IsFiniteSet(Accepted(x)) /\ Accepted(x) \subseteq 1..offered[x]
          /\ Cardinality(Accepted(x)) \in Nat
      BY <1>2, <1>3, Books
    <3>2. CASE x = k
      <4>1. PICK d \in dests : d \in Dests /\ RingOf(d) = k OBVIOUS
      <4>2. Accepted(x)' = Accepted(x) \cup {id} BY <2>6, <3>2, <4>1 DEF Accepted
      <4>3. id \notin Accepted(x) BY <1>4, <3>1, <3>2
      <4> QED BY <3>1, <3>2, <4>2, <4>3, FS_AddElement
    <3>3. CASE x # k
      <4>1. \A d \in Dests : RingOf(d) = x => wanted'[d] = wanted[d] BY <2>6, <3>3
      <4>2. Accepted(x)' = Accepted(x) BY <4>1 DEF Accepted
      <4> QED BY <3>1, <3>3, <4>2
    <3> QED BY <3>2, <3>3
  <2>10. \A x \in Rings :
           /\ offered'[x] = offered[x] + (IF x = k THEN 1 ELSE 0)
           /\ dropped'[x] = dropped[x] + (IF x = k THEN 0 ELSE 0)
           /\ Cardinality(Accepted(x)') = Cardinality(Accepted(x)) + (IF x = k THEN 1 - 0 ELSE 0)
    BY <1>2, <1>4, <1>5, <2>9
  <2>11. NothingLost' BY <1>2, <1>3, <2>7, <2>10, OfferBalanced
  <2>12. RecordsStay
    <3>1. \A x \in Rings : \A i \in 1..Len(ring[x]) : ring'[x][i].id = ring[x][i].id
      BY <2>3, <2>4
    <3> QED BY <1>1, <3>1 DEF RecordsStay
  <2>13. CloseInv' BY <1>1, <1>3, <2>12, CloseStays, InheritsSelf DEF JobStays
  <2> QED BY <2>8, <2>11, <2>13 DEF RecordInv
<1>6. CASE dropped' = [dropped EXCEPT ![k] = @ + 1] /\ UNCHANGED <<ring, wanted>>
  <2>1. \A d \in Dests : Lost(d)' = Lost(d) BY <1>1, <1>6 DEF Lost
  <2>2. \A d \in Dests : /\ Cardinality(Lost(d)') \in Nat
                         /\ Cardinality(Lost(d)') <= Cardinality(Lost(d))
    BY <1>2, <1>3, <2>1, Books
  <2>3. \A x \in Rings : Accepted(x)' = Accepted(x) /\ Cardinality(Accepted(x)) \in Nat
    BY <1>2, <1>3, <1>6, Books DEF Accepted
  <2>4. \A x \in Rings :
           /\ offered'[x] = offered[x] + (IF x = k THEN 1 ELSE 0)
           /\ dropped'[x] = dropped[x] + (IF x = k THEN 1 ELSE 0)
           /\ Cardinality(Accepted(x)') = Cardinality(Accepted(x)) + (IF x = k THEN 1 - 1 ELSE 0)
    BY <1>2, <1>4, <1>6, <2>3
  <2>5. NothingLost' BY <1>2, <1>3, <2>2, <2>4, OfferBalanced
  <2>6. Accounts'
    <3>1. ASSUME NEW d \in Dests PROVE wanted[d] \subseteq 1..offered'[RingOf(d)]
      <4>1. wanted[d] \subseteq 1..offered[RingOf(d)] /\ RingOf(d) \in Rings
        BY <1>3, RingOfRing DEF Accounts
      <4>2. offered[RingOf(d)] \in Nat
            /\ (offered'[RingOf(d)] = offered[RingOf(d)]
                \/ offered'[RingOf(d)] = offered[RingOf(d)] + 1)
        BY <1>4, <4>1
      <4>3. 1..offered[RingOf(d)] \subseteq 1..offered'[RingOf(d)] BY <4>2
      <4> QED BY <4>1, <4>3
    <3> QED BY <1>1, <1>3, <1>6, <3>1 DEF Accounts
  <2>7. RecordsStay BY <1>1, <1>6 DEF RecordsStay
  <2>8. CloseInv' BY <1>1, <1>3, <2>7, CloseStays, InheritsSelf DEF JobStays
  <2> QED BY <2>5, <2>6, <2>8 DEF RecordInv
<1> QED BY <1>5, <1>6 DEF Offer

LEMMA JobStaysSelf == ASSUME UNCHANGED job PROVE JobStays
BY DEF JobStays

\* A step that leaves records, counts and the job alone.
LEMMA RecordsBystander ==
  ASSUME JobInv, RecordInv, UNCHANGED <<queues, disk, offers, off, job>>, Inherits(sd, sd')
  PROVE  RecordInv'
BY RecordsQuiet, JobStaysSelf DEF Quiet

\* A step that leaves records and counts alone, and ends the job.
LEMMA RecordsJobDropped ==
  ASSUME JobInv, RecordInv, UNCHANGED <<queues, disk, offers, off>>, job' = NoJob
  PROVE  RecordInv'
BY RecordsQuiet, NoJobCloses DEF Quiet

LEMMA RecordsApplication == JobInv /\ MountInv /\ RecordInv /\ Application => RecordInv'
<1> SUFFICES ASSUME JobInv, MountInv, RecordInv, Application PROVE RecordInv' OBVIOUS
<1>0. IsQueue(sd) BY DEF MountInv
<1>1. CASE LogSample
  <2>1. /\ SampleDests \in SUBSET Dests /\ "sample" \in Rings
        /\ \A d \in SampleDests : RingOf(d) = "sample"
    BY DEF SampleDests, JobInv, LoggerType, LoopType, Dests, Rings, RingOf
  <2> QED BY <1>1, <2>1, RecordsOffer DEF LogSample
<1>2. CASE LogEvent
  <2>1. /\ {"event"} \in SUBSET Dests /\ "event" \in Rings /\ {"event"} # {}
        /\ \A d \in {"event"} : RingOf(d) = "event"
    BY DEF Dests, Rings, RingOf
  <2> QED BY <1>2, <2>1, RecordsOffer DEF LogEvent
<1>3. ASSUME NEW new \in Settings, NEW renamed \in BOOLEAN, NEW bigger \in BOOLEAN,
             ApplySettings(new, renamed, bigger)
      PROVE  RecordInv'
  <2>1. UNCHANGED <<queues, disk, offers, off>> BY <1>3 DEF ApplySettings
  <2>2. sd' = sd \/ sd' = Forget(sd, {"session"}) BY <1>3 DEF ApplySettings
  <2>3. Inherits(sd, sd') BY <1>0, <2>2, InheritsSelf, InheritsForget
  <2>4. job' = job \/ job' = [job EXCEPT !.here = FALSE] BY <1>3 DEF ApplySettings
  <2>5. JobStays BY <2>4 DEF JobStays, JobInv, LoggerType, JobType
  <2> QED BY <2>1, <2>3, <2>5, RecordsQuiet DEF Quiet
<1>4. CASE Remount
  BY <1>4, RecordsJobDropped DEF Remount
<1>5. CASE Probe
  <2>1. UNCHANGED <<queues, disk, offers, off>> BY <1>5 DEF Probe
  <2>2. CASE job' = NoJob BY <2>1, <2>2, RecordsJobDropped
  <2>3. CASE Ask(sd, "info", "info") /\ UNCHANGED job
    <3>1. Inherits(sd, sd') BY <1>0, <2>3, InheritsAsk DEF Ask, Clients
    <3> QED BY <2>1, <2>3, <3>1, RecordsBystander
  <2> QED BY <1>5, <2>2, <2>3 DEF Probe
<1> QED BY <1>1, <1>2, <1>3, <1>4, <1>5 DEF Application

-----------------------------------------------------------------------------
(* The steps: results of other clients. *)

\* What polling a result leaves as it was.
LEMMA RecordsPolled ==
  ASSUME MountInv, NEW c, NEW o, Answered(c, o)
  PROVE  IsQueue(Rest) /\ Inherits(sd, Rest) /\ UNCHANGED <<disk, offers>>
<1>1. IsQueue(sd) /\ sd # <<>> BY DEF MountInv, Answered
<1> QED BY <1>1, InheritsTail, TailKeeps DEF Rest, Answered

LEMMA SetupInherits ==
  ASSUME NEW o, NEW s, GoesOn(o, s), IsQueue(Rest), Inherits(sd, Rest)
  PROVE  Inherits(sd, sd')
<1>1. CASE Ask(Rest, "session", o)
  <2>1. Inherits(Rest, sd') BY <1>1, InheritsAsk DEF Ask, Clients
  <2> QED BY <2>1, InheritsTrans
<1>2. CASE Refused(Rest) BY <1>2 DEF Refused
<1> QED BY <1>1, <1>2 DEF GoesOn

LEMMA RecordsOthers ==
  JobInv /\ MountInv /\ RecordInv /\ (Ignore \/ MountResult \/ InfoResult \/ SessionResult)
    => RecordInv'
<1> SUFFICES ASSUME JobInv, MountInv, RecordInv,
                    Ignore \/ MountResult \/ InfoResult \/ SessionResult
             PROVE  RecordInv'
  OBVIOUS
<1>1. CASE Ignore
  <2>1. PICK o : Answered("gone", o) BY <1>1 DEF Ignore
  <2>2. Inherits(sd, sd') /\ UNCHANGED <<disk, offers>> BY <1>1, <2>1, RecordsPolled DEF Ignore
  <2> QED BY <1>1, <2>2, RecordsBystander DEF Ignore
<1>2. CASE MountResult
  <2>1. PICK o : Answered("mount", o) BY <1>2 DEF MountResult
  <2>2. IsQueue(Rest) /\ Inherits(sd, Rest) /\ UNCHANGED <<disk, offers>>
    BY <2>1, RecordsPolled
  <2>3. sd' = Rest \/ \E g : Ask(Rest, "mount", g)
    BY <1>2 DEF MountResult, MountGoesOn, Refused
  <2>4. ASSUME NEW g, Ask(Rest, "mount", g) PROVE Inherits(sd, sd')
    <3>1. Inherits(Rest, sd') BY <2>2, <2>4, InheritsAsk DEF Ask, Clients
    <3> QED BY <2>2, <3>1, InheritsTrans
  <2>5. Inherits(sd, sd') BY <2>2, <2>3, <2>4
  <2> QED BY <1>2, <2>2, <2>5, RecordsBystander DEF MountResult
<1>3. CASE InfoResult
  <2>1. Answered("info", "info") /\ UNCHANGED <<queues, off>> BY <1>3 DEF InfoResult
  <2>2. Inherits(sd, Rest) /\ UNCHANGED <<disk, offers>> BY <2>1, RecordsPolled
  <2>3. job' = NoJob \/ (sd' = Rest /\ UNCHANGED job) BY <1>3 DEF InfoResult
  <2> QED BY <2>1, <2>2, <2>3, RecordsBystander, RecordsJobDropped
<1>4. CASE SessionResult
  <2>1. PICK o : Answered("session", o)
    BY <1>4 DEF SessionResult, SetupDirs, SetupResume, SetupMarker
  <2>2. IsQueue(Rest) /\ Inherits(sd, Rest) /\ UNCHANGED <<disk, offers>>
    BY <2>1, RecordsPolled
  <2>3. \/ sd' = Rest \/ sd' = Forget(Rest, {"mount", "info"})
        \/ Ask(Rest, "session", "seal") \/ \E g, s : GoesOn(g, s)
    <3>1. CASE SetupDirs BY <3>1 DEF SetupDirs, Fails
    <3>2. CASE SetupResume BY <3>2 DEF SetupResume, Fails, FallsBack, IsReady
    <3>3. CASE SetupMarker BY <3>3 DEF SetupMarker, Fails, IsReady, FailsOffline
    <3> QED BY <1>4, <3>1, <3>2, <3>3 DEF SessionResult
  <2>4. ASSUME Ask(Rest, "session", "seal") PROVE Inherits(sd, sd')
    <3>1. Inherits(Rest, sd') BY <2>2, <2>4, InheritsAsk DEF Ask, Clients
    <3> QED BY <2>2, <3>1, InheritsTrans
  <2>5. ASSUME sd' = Forget(Rest, {"mount", "info"}) PROVE Inherits(sd, sd')
    <3>1. Inherits(Rest, sd') BY <2>2, <2>5, InheritsForget
    <3> QED BY <2>2, <3>1, InheritsTrans
  <2>6. ASSUME NEW g, NEW s, GoesOn(g, s) PROVE Inherits(sd, sd')
    BY <2>2, <2>6, SetupInherits
  <2>7. Inherits(sd, sd') BY <2>2, <2>3, <2>4, <2>5, <2>6
  <2> QED BY <1>4, <2>2, <2>7, RecordsBystander DEF SessionResult
<1> QED BY <1>1, <1>2, <1>3, <1>4

-----------------------------------------------------------------------------
(* The steps: results of the file job. *)

\* What a step of the job may assume of the records.
RecordsNow == /\ JobInv /\ RecordInv /\ job # NoJob /\ JobNow(job)
              /\ UNCHANGED <<disk, offers>>

LEMMA RecordsJobPolled ==
  ASSUME JobInv, MountInv, RecordInv, NEW o, Answered("job", o)
  PROVE  /\ RecordsNow /\ IsQueue(Rest) /\ JobAsked(Rest) = {} /\ job.op = o
         /\ Answer \in Outcomes
<1>1. IsQueue(Rest) /\ JobAsked(Rest) = {} /\ job # NoJob /\ job.op = o BY JobPolled
<1>2. UNCHANGED <<disk, offers>> BY DEF Answered
<1>3. PICK D, I : sd \in Seq(Fields(D, I)) BY DEF MountInv, IsQueue
<1>4. sd # <<>> /\ Head(sd).res # "todo" BY DEF Answered
<1>5. Head(sd) \in Fields(D, I) BY <1>3, <1>4
<1>6. Answer \in Outcomes BY <1>4, <1>5 DEF Answer, Fields
<1> QED BY <1>1, <1>2, <1>6, JobThere DEF RecordsNow

\* A job that fails with its file open closes it as one that failed.
LEMMA RecordsHold ==
  ASSUME RecordsNow, UNCHANGED off, NEW n, NEW rest, NEW j, JobNow(j), NEW st, st # "none",
         FailHolding(n, rest, j, st)
  PROVE  RecordInv'
<1>1. CASE job' = [j EXCEPT !.op = "close", !.fail = st] /\ UNCHANGED queues
  <2>1. job'.fail = st BY <1>1 DEF JobNow, Jobs
  <2>2. NotClosing' BY <2>1 DEF NotClosing
  <2> QED BY <1>1, <2>2, RecordsQuiet DEF RecordsNow, Quiet
<1>2. CASE ApplyFailure(rest, st)
  BY <1>2, RecordsFail DEF ApplyFailure, RecordsNow
<1> QED BY <1>1, <1>2 DEF FailHolding

\* A job goes on; if it closes its file, all its lines are written.
LEMMA RecordsGoOn ==
  ASSUME RecordsNow, UNCHANGED off, IsQueue(Rest), JobAsked(Rest) = {}, NEW j, JobNow(j),
         NEW o, JobGoesOn(j, o), o = "close" => j.at = j.batch
  PROVE  RecordInv'
<1>1. CASE /\ AskFor(Rest, "job", o, j.dest, IF o = "close" THEN Lines(j) ELSE {})
           /\ job' = [j EXCEPT !.op = o] /\ UNCHANGED queues
  <2>1. job'.op = o /\ job'.dest = j.dest /\ job'.batch = j.batch
    BY <1>1 DEF JobNow, Jobs
  <2>2. UNCHANGED <<ring, dropped, disk, offers, off>> BY <1>1 DEF queues, RecordsNow
  <2>3. CASE o # "close"
    <3>1. NotClosing' BY <2>1, <2>3 DEF NotClosing
    <3> QED BY <1>1, <2>2, <3>1, RecordsQuiet DEF RecordsNow, Quiet
  <2>4. CASE o = "close"
    <3>1. AskFor(Rest, "job", o, j.dest, Lines(j)) BY <1>1, <2>4
    <3>2. \A i \in JobAsked(sd') :
            sd'[i].dest = j.dest /\ sd'[i].ids = Lines(j) /\ sd'[i].res = "todo"
      BY <3>1, InheritsAsk DEF Clients
    <3>3. Batch' = Lines(j) BY <2>1, <2>2, <2>4 DEF Batch, Lines
    <3>4. CloseInv' BY <2>1, <3>2, <3>3 DEF CloseInv, JobAsked
    <3>5. Accounts' BY <2>2, AccountsStay DEF RecordsNow, RecordInv, Accounts
    <3>6. NothingLost'
      <4>1. \A d \in Dests : Safe(d) \subseteq Safe(d)' BY <2>2 DEF Safe
      <4>2. dropped \in [Rings -> Nat] /\ offered \in [Rings -> Nat]
        BY DEF RecordsNow, JobInv, LoggerType, RingType
      <4> QED BY <2>2, <4>1, <4>2, SafeBalanced DEF RecordsNow, RecordInv
    <3> QED BY <3>4, <3>5, <3>6 DEF RecordInv
  <2> QED BY <2>3, <2>4
<1>2. CASE FailHolding(1, Rest, j, "soft") BY <1>2, RecordsHold
<1> QED BY <1>1, <1>2 DEF JobGoesOn

LEMMA RecordsOpen ==
  ASSUME RecordsNow, UNCHANGED off, NEW j, JobNow(j), Opens(j) PROVE RecordInv'
<1>1. CASE job' = [j EXCEPT !.op = "open"] /\ UNCHANGED queues
  <2>1. job'.op = "open" BY <1>1 DEF JobNow, Jobs
  <2>2. NotClosing' BY <2>1 DEF NotClosing
  <2> QED BY <1>1, <2>2, RecordsQuiet DEF RecordsNow, Quiet
<1>2. CASE FailBatch BY <1>2, RecordsFail DEF RecordsNow
<1> QED BY <1>1, <1>2 DEF Opens

\* The job ends; ring q stands for that of its records.  What leaves the ring is
\* in a closed file or set aside.
LEMMA RecordsEnd ==
  ASSUME RecordsNow, job' = NoJob, UNCHANGED dropped, NEW q,
         ring' = [ring EXCEPT ![RingOf(job.dest)] = q],
         \A d \in Dests : off[d] \subseteq off'[d], DOMAIN off' = Dests,
         \A d \in Dests : RingOf(d) = RingOf(job.dest) =>
           Pending(ring[RingOf(d)], d) \subseteq Pending(q, d) \cup disk[d] \cup off'[d]
  PROVE  RecordInv'
<1>1. dropped \in [Rings -> Nat] /\ offered \in [Rings -> Nat] /\ ring \in [Rings -> Seq(Record)]
  BY DEF RecordsNow, JobInv, LoggerType, RingType
<1>2. ASSUME NEW d \in Dests PROVE Safe(d) \subseteq Safe(d)'
  <2>1. RingOf(d) \in Rings /\ disk' = disk /\ off[d] \subseteq off'[d]
    BY RingOfRing DEF RecordsNow
  <2>2. CASE RingOf(d) = RingOf(job.dest)
    <3>1. ring'[RingOf(d)] = q BY <1>1, <2>1, <2>2
    <3> QED BY <2>1, <2>2, <3>1 DEF Safe
  <2>3. CASE RingOf(d) # RingOf(job.dest)
    <3>1. ring'[RingOf(d)] = ring[RingOf(d)] BY <1>1, <2>1, <2>3
    <3> QED BY <2>1, <3>1 DEF Safe
  <2> QED BY <2>2, <2>3
<1>3. NothingLost' BY <1>1, <1>2, SafeBalanced DEF RecordsNow, RecordInv
<1>4. Accounts' BY AccountsStay DEF RecordsNow, RecordInv, Accounts
<1>5. CloseInv' BY NoJobCloses, CloseOver
<1> QED BY <1>3, <1>4, <1>5 DEF RecordInv

LEMMA RecordsStatResult == JobInv /\ MountInv /\ RecordInv /\ StatResult => RecordInv'
<1> SUFFICES ASSUME JobInv, MountInv, RecordInv, StatResult PROVE RecordInv' OBVIOUS
<1>0. Answered("job", "stat") BY DEF StatResult
<1>1. RecordsNow /\ IsQueue(Rest) /\ JobAsked(Rest) = {} BY <1>0, RecordsJobPolled
<1>2. JobNow(job) BY <1>1 DEF RecordsNow
<1>3. CASE Opens([job EXCEPT !.header = Answer = "empty"]) /\ UNCHANGED off
  <2> DEFINE h == Answer = "empty"
             j == [job EXCEPT !.header = h]
  <2>1. h \in BOOLEAN OBVIOUS
  <2> HIDE DEF h
  <2>2. JobNow(j) BY <1>2, <2>1 DEF JobNow, Jobs
  <2>3. Opens(j) BY <1>3 DEF h
  <2> QED BY <1>1, <1>3, <2>2, <2>3, RecordsOpen
<1>4. CASE RotateEvent
  <2>1. UNCHANGED off BY <1>4 DEF RotateEvent
  <2>2. CASE FailBatch BY <1>1, <2>1, <2>2, RecordsFail DEF RecordsNow
  <2>3. CASE Opens([job EXCEPT !.header = TRUE])
    <3>1. JobNow([job EXCEPT !.header = TRUE]) BY <1>2 DEF JobNow, Jobs
    <3> QED BY <1>1, <2>1, <2>3, <3>1, RecordsOpen
  <2> QED BY <1>4, <2>2, <2>3 DEF RotateEvent
<1>5. CASE ApplyFailure(Rest, Answer) /\ UNCHANGED off
  BY <1>1, <1>5, RecordsFail DEF ApplyFailure, RecordsNow
<1>6. CASE RotateAll /\ job.dest = "all"
  <2>1. CASE Opens([job EXCEPT !.header = TRUE, !.here = TRUE]) /\ UNCHANGED off
    <3>1. JobNow([job EXCEPT !.header = TRUE, !.here = TRUE]) BY <1>2 DEF JobNow, Jobs
    <3> QED BY <1>1, <2>1, <3>1, RecordsOpen
  <2>2. CASE /\ ring' = [ring EXCEPT !["sample"] = Discarded(@, job.batch, "all")]
             /\ off' = [off EXCEPT !["all"] = @ \cup Ids(ring["sample"], job.batch)]
             /\ job' = NoJob /\ UNCHANGED dropped
    <3> DEFINE q == Discarded(ring["sample"], job.batch, "all")
    <3>1. /\ RingOf(job.dest) = "sample" /\ "sample" \in Rings /\ "all" \in Dests
          /\ job.batch \in Nat /\ ring["sample"] \in Seq(Record)
      BY <1>2, <1>6, QueueAssumption
      DEF RingOf, Rings, Dests, JobNow, Jobs, JobInv, LoggerType, RingType
    <3>2. ring' = [ring EXCEPT ![RingOf(job.dest)] = q] BY <2>2, <3>1
    <3>3. DOMAIN off = Dests BY DEF RecordInv, Accounts
    <3>4. DOMAIN off' = Dests /\ \A d \in Dests : off[d] \subseteq off'[d]
      BY <2>2, <3>3
    <3>5. off'["all"] = off["all"] \cup Ids(ring["sample"], job.batch)
      BY <2>2, <3>1, <3>3
    <3>6. ASSUME NEW d \in Dests, RingOf(d) = RingOf(job.dest)
          PROVE  Pending(ring[RingOf(d)], d) \subseteq Pending(q, d) \cup disk[d] \cup off'[d]
      <4>1. Pending(ring["sample"], d)
              \subseteq Pending(q, d) \cup (IF d = "all" THEN Ids(ring["sample"], job.batch)
                                            ELSE {})
        BY <3>1, DiscardedPending
      <4>2. CASE d = "all" BY <3>1, <3>5, <3>6, <4>1, <4>2
      <4>3. CASE d # "all" BY <3>1, <3>6, <4>1, <4>3
      <4> QED BY <4>2, <4>3
    <3> HIDE DEF q
    <3> QED BY <1>1, <2>2, <3>2, <3>4, <3>6, RecordsEnd
  <2> QED BY <1>6, <2>1, <2>2 DEF RotateAll
<1> QED BY <1>3, <1>4, <1>5, <1>6 DEF StatResult

LEMMA RecordsWriteResult == JobInv /\ MountInv /\ RecordInv /\ WriteResult => RecordInv'
<1> SUFFICES ASSUME JobInv, MountInv, RecordInv, WriteResult PROVE RecordInv' OBVIOUS
<1>0. UNCHANGED off BY DEF WriteResult
<1>1. PICK o : Answered("job", o) BY DEF WriteResult
<1>2. /\ RecordsNow /\ IsQueue(Rest) /\ JobAsked(Rest) = {} /\ job.op = o
      /\ Answer \in Outcomes
  BY <1>1, RecordsJobPolled
<1>3. JobNow(job) /\ JobWell(job) BY <1>2, JobThere DEF RecordsNow
<1>4. Answer # "none" BY <1>2 DEF Outcomes
<1>5. CASE ApplyFailure(Rest, Answer)
  BY <1>0, <1>2, <1>5, RecordsFail DEF ApplyFailure, RecordsNow
<1>6. CASE FailHolding(0, Rest, job, Answer)
  BY <1>0, <1>2, <1>3, <1>4, <1>6, RecordsHold
<1>7. CASE \E g : g # "close" /\ JobGoesOn(job, g)
  BY <1>0, <1>2, <1>3, <1>7, RecordsGoOn
<1>8. CASE /\ Answered("job", "line")
           /\ JobGoesOn([job EXCEPT !.at = @ + 1],
                        IF job.at + 1 < job.batch THEN "line" ELSE "close")
  <2> DEFINE j == [job EXCEPT !.at = @ + 1]
             g == IF job.at + 1 < job.batch THEN "line" ELSE "close"
  <2>1. job.op = "line" BY <1>1, <1>2, <1>8 DEF Answered
  <2>2. job.at < job.batch /\ job.batch \in 0..MaxBatch /\ job.at \in 0..MaxBatch
        /\ MaxBatch \in Nat
    BY <1>2, <1>3, <2>1, QueueAssumption DEF JobWell, JobNow, Jobs, RecordsNow
  <2>3. j \in Jobs /\ j.at = job.at + 1 /\ j.dest = job.dest /\ j.batch = job.batch
    BY <1>3, <2>2 DEF JobNow, Jobs
  <2>4. JobNow(j) BY <1>3, <2>2, <2>3 DEF JobNow
  <2>5. g = "close" => j.at = j.batch BY <2>2, <2>3
  <2>6. JobGoesOn(j, g) BY <1>8
  <2> HIDE DEF j, g
  <2> QED BY <1>0, <1>2, <2>4, <2>5, <2>6, RecordsGoOn
<1>9. CASE /\ Answered("job", "open")
           /\ IF Answer = "ok" THEN JobGoesOn(job, IF job.header THEN "header" ELSE "line")
              ELSE ApplyFailure(Rest, Answer) /\ UNCHANGED upsets
  <2>1. CASE JobGoesOn(job, IF job.header THEN "header" ELSE "line")
    <3>1. (IF job.header THEN "header" ELSE "line") # "close" OBVIOUS
    <3> QED BY <1>7, <2>1, <3>1
  <2> QED BY <1>5, <1>9, <2>1
<1>10. CASE /\ Answered("job", "header")
            /\ IF Answer = "ok" THEN JobGoesOn(job, "line")
               ELSE FailHolding(0, Rest, job, Answer)
  <2>1. CASE JobGoesOn(job, "line")
    <3>1. "line" # "close" OBVIOUS
    <3> QED BY <1>7, <2>1, <3>1
  <2> QED BY <1>6, <1>10, <2>1
<1>11. CASE /\ Answered("job", "line")
            /\ IF Answer = "ok"
               THEN JobGoesOn([job EXCEPT !.at = @ + 1],
                              IF job.at + 1 < job.batch THEN "line" ELSE "close")
               ELSE FailHolding(0, Rest, job, Answer)
  BY <1>6, <1>8, <1>11
<1> QED BY <1>9, <1>10, <1>11 DEF WriteResult

\* A job ends well only if its records are in the file that was closed.
LEMMA RecordsCloseResult == JobInv /\ MountInv /\ RecordInv /\ CloseResult => RecordInv'
<1> SUFFICES ASSUME JobInv, MountInv, RecordInv, CloseResult PROVE RecordInv' OBVIOUS
<1>0. Answered("job", "close") /\ UNCHANGED off BY DEF CloseResult
<1>1. RecordsNow /\ job.op = "close" BY <1>0, RecordsJobPolled
<1>2. CASE ApplyFailure(Rest, FailedAs)
  BY <1>0, <1>1, <1>2, RecordsFail DEF ApplyFailure, RecordsNow
<1>3. CASE /\ FailedAs = "none" /\ job' = NoJob /\ UNCHANGED dropped
           /\ ring' = [ring EXCEPT ![RingOf(job.dest)] = Written(@, job.batch, job.dest)]
  <2> PICK e : e = job.dest OBVIOUS
  <2> DEFINE q == Written(ring[RingOf(e)], job.batch, e)
  <2>1. e \in Dests /\ RingOf(e) \in Rings /\ job.batch \in Nat
        /\ ring[RingOf(e)] \in Seq(Record)
    BY <1>1, RingOfRing, QueueAssumption
    DEF RecordsNow, JobNow, Jobs, JobInv, LoggerType, RingType
  <2>2. Answer \in Outcomes BY <1>0, RecordsJobPolled
  <2>3. job.fail = "none" /\ Answer = "ok" BY <1>3, <2>2 DEF FailedAs, Outcomes
  <2>4. 1 \in JobAsked(sd) /\ sd[1].res = "ok"
    <3>1. PICK D, I : sd \in Seq(Fields(D, I)) BY DEF MountInv, IsQueue
    <3>2. sd # <<>> /\ Head(sd).for = "job" BY <1>0 DEF Answered
    <3>3. 1 \in DOMAIN sd /\ Head(sd) = sd[1] BY <3>1, <3>2
    <3> QED BY <2>3, <3>2, <3>3 DEF JobAsked, Answer
  <2>5. Batch \subseteq disk[e] BY <1>1, <2>3, <2>4 DEF RecordInv, CloseInv
  <2>6. ASSUME NEW d \in Dests, RingOf(d) = RingOf(job.dest)
        PROVE  Pending(ring[RingOf(d)], d) \subseteq Pending(q, d) \cup disk[d] \cup off'[d]
    <3>1. Pending(ring[RingOf(e)], d)
            \subseteq Pending(q, d) \cup (IF d = e THEN Ids(ring[RingOf(e)], job.batch) ELSE {})
      BY <2>1, WrittenPending
    <3>2. CASE d = e BY <2>5, <3>1, <3>2 DEF Batch
    <3>3. CASE d # e BY <2>6, <3>1, <3>3
    <3> QED BY <3>2, <3>3
  <2>7. ring' = [ring EXCEPT ![RingOf(job.dest)] = q] BY <1>3
  <2>8. DOMAIN off' = Dests /\ \A d \in Dests : off[d] \subseteq off'[d]
    BY <1>0 DEF RecordInv, Accounts
  <2> HIDE DEF q
  <2> QED BY <1>1, <1>3, <2>6, <2>7, <2>8, RecordsEnd
<1> QED BY <1>2, <1>3 DEF CloseResult

-----------------------------------------------------------------------------
(* The steps: the rest of the tick. *)

LEMMA RecordsTick ==
  JobInv /\ MountInv /\ RecordInv
    /\ (BeginTick \/ Status \/ Info \/ WaitForMount \/ MountDue \/ EnsureSession \/ NoStart)
    => RecordInv'
<1> SUFFICES ASSUME JobInv, MountInv, RecordInv,
                    \/ BeginTick \/ Status \/ Info \/ WaitForMount \/ MountDue
                    \/ EnsureSession \/ NoStart
             PROVE  RecordInv'
  OBVIOUS
<1>0. IsQueue(sd) /\ Inherits(sd, sd) BY InheritsSelf DEF MountInv
<1>1. CASE BeginTick
  <2>1. UNCHANGED <<queues, disk, offers, off>> BY <1>1 DEF BeginTick
  <2>2. job' = NoJob \/ UNCHANGED <<sd, job>> BY <1>1 DEF BeginTick
  <2> QED BY <1>0, <2>1, <2>2, RecordsBystander, RecordsJobDropped
<1>2. CASE Status
  <2>1. UNCHANGED <<queues, disk, offers, off>> BY <1>2 DEF Status
  <2>2. job' = NoJob \/ UNCHANGED <<sd, job>> BY <1>2 DEF Status
  <2> QED BY <1>0, <2>1, <2>2, RecordsBystander, RecordsJobDropped
<1>3. CASE Info
  <2>1. UNCHANGED <<queues, disk, offers, off, job>> BY <1>3 DEF Info, Fixed
  <2>2. PICK lost \in BOOLEAN :
          LET rest == IF lost THEN Forget(sd, {"info"}) ELSE sd IN
          sd' = rest \/ AskFor(rest, "info", "info", "none", {})
    BY <1>3 DEF Info
  <2> DEFINE rest == IF lost THEN Forget(sd, {"info"}) ELSE sd
  <2>3. IsQueue(rest) /\ Inherits(sd, rest) BY <1>0, ForgetKeeps, InheritsForget
  <2> HIDE DEF rest
  <2>4. CASE sd' = rest BY <2>1, <2>3, <2>4, RecordsBystander
  <2>5. CASE AskFor(rest, "info", "info", "none", {})
    <3>1. Inherits(rest, sd') BY <2>3, <2>5, InheritsAsk DEF Clients
    <3>2. Inherits(sd, sd') BY <2>3, <3>1, InheritsTrans
    <3> QED BY <2>1, <3>2, RecordsBystander
  <2> QED BY <2>2, <2>4, <2>5 DEF rest
<1>4. CASE WaitForMount \/ NoStart
  BY <1>0, <1>4, RecordsBystander DEF WaitForMount, NoStart, Fixed
<1>5. CASE MountDue
  BY <1>0, <1>5, RecordsBystander, InheritsForget DEF MountDue, Fixed
<1>6. CASE EnsureSession
  <2>1. UNCHANGED <<queues, disk, offers, off, job>> BY <1>6 DEF EnsureSession, Fixed
  <2>2. sd' = sd \/ Ask(sd, "session", "runs") BY <1>6 DEF EnsureSession, Refused
  <2>3. Ask(sd, "session", "runs") => Inherits(sd, sd')
    BY <1>0, InheritsAsk DEF Ask, Clients
  <2> QED BY <1>0, <2>1, <2>2, <2>3, RecordsBystander
<1> QED BY <1>1, <1>2, <1>3, <1>4, <1>5, <1>6

LEMMA RecordsDeadline == JobInv /\ MountInv /\ RecordInv /\ Deadline => RecordInv'
<1> SUFFICES ASSUME JobInv, MountInv, RecordInv, Deadline PROVE RecordInv' OBVIOUS
<1>1. UNCHANGED <<disk, offers, off>> BY DEF Deadline, Fixed
<1>2. job.late => RecordsNow
  <2>1. job.late => job # NoJob BY DEF NoJob
  <2> QED BY <1>1, <2>1, JobThere DEF RecordsNow
<1>3. CASE UNCHANGED <<queues, mount, session, sd, job, upsets>>
  BY <1>1, <1>3, RecordsBystander, InheritsSelf
<1>4. CASE job.late /\ FailHolding(0, sd, job, "soft")
  <2>1. RecordsNow /\ JobNow(job) BY <1>2, <1>4 DEF RecordsNow
  <2>2. "soft" # "none" OBVIOUS
  <2> QED BY <1>1, <1>4, <2>1, <2>2, RecordsHold
<1>5. CASE job.late /\ ApplyFailure(sd, "soft")
  BY <1>1, <1>2, <1>5, RecordsFail DEF ApplyFailure, RecordsNow
<1> QED BY <1>3, <1>4, <1>5 DEF Deadline

\* A sweep sets aside what it takes from the oldest sample.
LEMMA RecordsSwept ==
  ASSUME JobInv, RecordInv, UNCHANGED <<disk, offers, dropped>>, NotClosing', NEW q, Sweep(q),
         \A d \in Dests : RingOf(d) = "sample" =>
           Pending(ring["sample"], d) \subseteq Pending(q, d) \cup off'[d]
  PROVE  RecordInv'
<1>1. /\ ring' = [ring EXCEPT !["sample"] = q] /\ DOMAIN off' = Dests
      /\ \A d \in Dests : off[d] \subseteq off'[d]
  BY DEF Sweep
<1>2. dropped \in [Rings -> Nat] /\ offered \in [Rings -> Nat] /\ ring \in [Rings -> Seq(Record)]
  BY DEF JobInv, LoggerType, RingType
<1>3. ASSUME NEW d \in Dests PROVE Safe(d) \subseteq Safe(d)'
  <2>1. CASE RingOf(d) = "sample"
    <3>1. ring'[RingOf(d)] = q BY <1>1, <1>2, <2>1 DEF Rings
    <3> QED BY <1>1, <2>1, <3>1 DEF Safe
  <2>2. CASE RingOf(d) # "sample"
    <3>1. ring'[RingOf(d)] = ring[RingOf(d)] BY <1>1, <1>2, <2>2, RingOfRing
    <3> QED BY <1>1, <3>1 DEF Safe
  <2> QED BY <2>1, <2>2
<1>4. NothingLost' BY <1>2, <1>3, SafeBalanced DEF RecordInv
<1>5. Accounts' BY <1>1, AccountsStay DEF RecordInv, Accounts
<1>6. CloseInv' BY CloseOver
<1> QED BY <1>4, <1>5, <1>6 DEF RecordInv

LEMMA StartsNotClosing ==
  ASSUME JobInv, job = NoJob, NEW d \in Dests, Starts(d) \/ UNCHANGED job
  PROVE  NotClosing'
<1>1. NoJob.op = "none" BY DEF NoJob
<1>2. CASE UNCHANGED job BY <1>1, <1>2 DEF NotClosing
<1>3. CASE \E n : job' = [NoJob EXCEPT !.dest = d, !.op = "stat", !.batch = n]
  <2>1. job'.op = "stat" BY <1>3 DEF NoJob
  <2> QED BY <2>1 DEF NotClosing
<1> QED BY <1>2, <1>3 DEF Starts

LEMMA RecordsStartJob == JobInv /\ MountInv /\ RecordInv /\ StartJob => RecordInv'
<1> SUFFICES ASSUME JobInv, MountInv, RecordInv, StartJob PROVE RecordInv' OBVIOUS
<1>1. UNCHANGED <<disk, offers, dropped>> /\ job = NoJob BY DEF StartJob, Fixed, JobFree
<1>2. ring["sample"] \in Seq(Record) BY DEF JobInv, LoggerType, RingType, Rings
<1>3. SampleDue => 1 \in DOMAIN ring["sample"] /\ ring["sample"][1] \in Record
  BY <1>2 DEF SampleDue
<1>4. {"daily", "all", "event"} \subseteq Dests BY DEF Dests
<1>5. CASE StartDaily
  <2>1. UNCHANGED <<ring, off>> /\ Starts("daily") BY <1>5 DEF StartDaily
  <2>2. NotClosing' BY <1>1, <1>4, <2>1, StartsNotClosing
  <2>3. UNCHANGED queues BY <1>1, <2>1 DEF queues
  <2> QED BY <1>1, <2>1, <2>2, <2>3, RecordsQuiet DEF Quiet
<1>6. CASE StartAll
  <2> DEFINE r == [ring["sample"][1] EXCEPT !.pend = Swept]
             q == [ring["sample"] EXCEPT ![1] = r]
  <2>1. SampleDue /\ Sweep(q) BY <1>6 DEF StartAll
  <2>2. r.id = ring["sample"][1].id /\ r.pend = Swept BY <1>3, <2>1 DEF Record
  <2>3. Starts("all") \/ UNCHANGED job BY <1>6 DEF StartAll
  <2>4. NotClosing' BY <1>1, <1>4, <2>3, StartsNotClosing
  <2> HIDE DEF r
  <2>5. DOMAIN q = DOMAIN ring["sample"] /\ q[1] = r
        /\ \A i \in DOMAIN ring["sample"] : i # 1 => q[i] = ring["sample"][i]
    BY <1>3, <2>1
  <2> HIDE DEF q
  <2>6. ASSUME NEW d \in Dests, NEW i \in DOMAIN ring["sample"], d \in ring["sample"][i].pend
        PROVE  ring["sample"][i].id \in Pending(q, d) \cup off'[d]
    <3>1. CASE i = 1 /\ d \in Switched
      <4>1. off'[d] = off[d] \cup {ring["sample"][1].id}
        BY <2>1, <2>6, <3>1 DEF Sweep
      <4> QED BY <3>1, <4>1
    <3>2. CASE i = 1 /\ d \notin Switched
      <4>1. d \in q[1].pend /\ q[1].id = ring["sample"][1].id
        BY <2>2, <2>5, <2>6, <3>2 DEF Swept
      <4> QED BY <2>5, <2>6, <3>2, <4>1 DEF Pending
    <3>3. CASE i # 1 BY <2>5, <2>6, <3>3 DEF Pending
    <3> QED BY <3>1, <3>2, <3>3
  <2>7. \A d \in Dests : Pending(ring["sample"], d) \subseteq Pending(q, d) \cup off'[d]
    BY <2>6 DEF Pending
  <2> QED BY <1>1, <2>1, <2>4, <2>7, RecordsSwept
<1>7. CASE StartEvent
  <2>1. NotClosing'
    <3>1. Starts("event") \/ UNCHANGED job BY <1>7 DEF StartEvent
    <3> QED BY <1>1, <1>4, <3>1, StartsNotClosing
  <2>2. CASE SampleDue
    <3> DEFINE q == Tail(ring["sample"])
    <3>1. Sweep(q) /\ Swept = {} BY <1>7, <2>2 DEF StartEvent
    <3>2. ring["sample"] # <<>> BY <2>2 DEF SampleDue
    <3>3. /\ DOMAIN ring["sample"] = 1..Len(ring["sample"]) /\ Len(ring["sample"]) \in Nat
          /\ DOMAIN q = 1..(Len(ring["sample"]) - 1)
          /\ \A i \in 1..(Len(ring["sample"]) - 1) : q[i] = ring["sample"][i + 1]
      BY <1>2, <3>2
    <3> HIDE DEF q
    <3>4. ASSUME NEW d \in Dests, NEW i \in DOMAIN ring["sample"],
                 d \in ring["sample"][i].pend
          PROVE  ring["sample"][i].id \in Pending(q, d) \cup off'[d]
      <4>1. CASE i = 1
        <5>1. d \in Switched BY <3>1, <3>4, <4>1 DEF Swept
        <5>2. off'[d] = off[d] \cup {ring["sample"][1].id}
          BY <2>2, <3>1, <3>4, <4>1, <5>1 DEF Sweep
        <5> QED BY <4>1, <5>2
      <4>2. CASE i # 1
        <5>1. i - 1 \in 1..(Len(ring["sample"]) - 1) /\ (i - 1) + 1 = i BY <3>3, <4>2
        <5>2. i - 1 \in DOMAIN q /\ q[i - 1] = ring["sample"][i] BY <3>3, <5>1
        <5> QED BY <3>4, <5>2 DEF Pending
      <4> QED BY <4>1, <4>2
    <3>5. \A d \in Dests : Pending(ring["sample"], d) \subseteq Pending(q, d) \cup off'[d]
      BY <3>4 DEF Pending
    <3> QED BY <1>1, <2>1, <3>1, <3>5, RecordsSwept
  <2>3. CASE ~SampleDue
    <3>1. Sweep(ring["sample"]) BY <1>7, <2>3 DEF StartEvent
    <3> QED BY <1>1, <2>1, <3>1, RecordsSwept
  <2> QED BY <2>2, <2>3
<1> QED BY <1>5, <1>6, <1>7 DEF StartJob

-----------------------------------------------------------------------------
(* The steps: processDeferred(), and what goes on beside the main loop. *)

LEMMA RecordsDeferred == JobInv /\ MountInv /\ RecordInv /\ Deferred => RecordInv'
<1> SUFFICES ASSUME JobInv, MountInv, RecordInv, Deferred PROVE RecordInv' OBVIOUS
<1>1. UNCHANGED <<queues, disk, offers, off>>
  BY DEF Deferred, NothingDeferred, Teardown, EndToMount, Mount, Deferring
<1>2. \/ job' = NoJob \/ UNCHANGED <<sd, job>> \/ (sd' = <<>> /\ UNCHANGED job)
  BY DEF Deferred, NothingDeferred, Teardown, EndToMount, Mount, End
<1>3. JobAsked(<<>>) = {} BY DEF JobAsked
<1> QED BY <1>1, <1>2, <1>3, RecordsBystander, RecordsJobDropped, InheritsSelf, InheritsNone

\* A close that succeeds puts the lines it was asked for into the file.
LEMMA RecordsWork == JobInv /\ MountInv /\ RecordInv /\ Work => RecordInv'
<1> SUFFICES ASSUME JobInv, MountInv, RecordInv, Work PROVE RecordInv' OBVIOUS
<1>1. UNCHANGED <<ring, dropped, job, offers, off>> BY DEF Work, queues
<1>2. PICK i \in DOMAIN sd, a \in Outcomes :
        /\ sd' = [sd EXCEPT ![i].res = a]
        /\ disk' = IF sd[i].op = "close" /\ a = "ok"
                   THEN [disk EXCEPT ![sd[i].dest] = @ \cup sd[i].ids] ELSE disk
  BY DEF Work
<1>3. DOMAIN disk = Dests /\ DOMAIN off = Dests /\ Accounts BY DEF RecordInv, Accounts
<1>4. DOMAIN disk' = Dests /\ \A d \in Dests : disk[d] \subseteq disk'[d] BY <1>2, <1>3
<1>5. Accounts' BY <1>1, <1>3, <1>4, AccountsStay
<1>6. NothingLost'
  <2>1. \A d \in Dests : Safe(d) \subseteq Safe(d)' BY <1>1, <1>4 DEF Safe
  <2>2. dropped \in [Rings -> Nat] /\ offered \in [Rings -> Nat]
    BY DEF JobInv, LoggerType, RingType
  <2> QED BY <1>1, <2>1, <2>2, SafeBalanced DEF RecordInv
<1>7. PICK D, I : sd \in Seq(Fields(D, I)) BY DEF MountInv, IsQueue
<1>8. /\ DOMAIN sd' = DOMAIN sd /\ sd'[i].for = sd[i].for /\ sd'[i].op = sd[i].op
      /\ sd'[i].dest = sd[i].dest /\ sd'[i].ids = sd[i].ids /\ sd'[i].res = a
      /\ \A k \in DOMAIN sd : k # i => sd'[k] = sd[k]
  <2> DEFINE r == [sd[i] EXCEPT !.res = a]
  <2>1. sd[i] \in Fields(D, I) BY <1>7
  <2>2. /\ r.for = sd[i].for /\ r.op = sd[i].op /\ r.dest = sd[i].dest /\ r.ids = sd[i].ids
        /\ r.res = a
    BY <2>1 DEF Fields
  <2>3. sd' = [sd EXCEPT ![i] = r] BY <1>2
  <2> HIDE DEF r
  <2>4. DOMAIN sd' = DOMAIN sd /\ sd'[i] = r /\ \A k \in DOMAIN sd : k # i => sd'[k] = sd[k]
    BY <1>7, <2>3
  <2> QED BY <2>2, <2>4
<1>9. CloseInv'
  <2> SUFFICES ASSUME job.op = "close", job.fail = "none", NEW k \in JobAsked(sd)'
               PROVE  /\ sd'[k].dest = job.dest /\ Batch \subseteq sd'[k].ids
                      /\ sd'[k].res = "ok" => Batch \subseteq disk'[job.dest]
    BY <1>1 DEF CloseInv, Batch
  <2>1. k \in JobAsked(sd) BY <1>8 DEF JobAsked
  <2>2. /\ sd[k].dest = job.dest /\ Batch \subseteq sd[k].ids
        /\ sd[k].res = "ok" => Batch \subseteq disk[job.dest]
    BY <2>1 DEF RecordInv, CloseInv
  <2>3. job.dest \in Dests
    <3>1. job # NoJob BY DEF NoJob
    <3> QED BY <3>1 DEF JobInv, JobWell
  <2>4. CASE k # i BY <1>4, <1>8, <2>1, <2>2, <2>3, <2>4 DEF JobAsked
  <2>5. CASE k = i
    <3>1. sd[i].op = "close" BY <2>1, <2>5 DEF JobInv, JobRequest
    <3>2. a = "ok" => disk'[job.dest] = disk[job.dest] \cup sd[i].ids
      BY <1>2, <1>3, <2>2, <2>3, <2>5, <3>1
    <3> QED BY <1>8, <2>2, <2>5, <3>2
  <2> QED BY <2>4, <2>5
<1> QED BY <1>5, <1>6, <1>9 DEF RecordInv

LEMMA RecordsBeside ==
  JobInv /\ RecordInv /\ (RemoveCard \/ InsertCard \/ SessionBackoffEnds \/ Late \/ UNCHANGED vars)
    => RecordInv'
<1> SUFFICES ASSUME JobInv, RecordInv,
                    RemoveCard \/ InsertCard \/ SessionBackoffEnds \/ Late \/ UNCHANGED vars
             PROVE  RecordInv'
  OBVIOUS
<1>1. UNCHANGED <<queues, disk, offers, off, sd>>
  BY DEF RemoveCard, InsertCard, SessionBackoffEnds, Late, Aside, vars, library
<1>2. JobStays
  <2>1. job' = job \/ job' = [job EXCEPT !.late = TRUE]
    BY DEF RemoveCard, InsertCard, SessionBackoffEnds, Late, vars
  <2> QED BY <2>1 DEF JobStays, JobInv, LoggerType, JobType
<1> QED BY <1>1, <1>2, RecordsQuiet, InheritsSelf DEF Quiet

LEMMA RecordsRetryDue == JobInv /\ RecordInv /\ RecordBackoffEnds => RecordInv'
<1> SUFFICES ASSUME JobInv, RecordInv, RecordBackoffEnds PROVE RecordInv' OBVIOUS
<1>1. UNCHANGED <<dropped, job, sd, disk, offers, off>> BY DEF RecordBackoffEnds, library
<1>2. ring \in [Rings -> Seq(Record)] /\ dropped \in [Rings -> Nat] /\ offered \in [Rings -> Nat]
  BY DEF JobInv, LoggerType, RingType
<1>3. PICK k \in Rings : \E y \in DOMAIN ring[k] : ring' = [ring EXCEPT ![k][y].wait = FALSE]
  BY DEF RecordBackoffEnds
<1>4. PICK i \in DOMAIN ring[k] : ring' = [ring EXCEPT ![k][i].wait = FALSE] BY <1>3
<1> DEFINE r == [ring[k][i] EXCEPT !.wait = FALSE]
           q == [ring[k] EXCEPT ![i] = r]
<1>5. DOMAIN ring[k] = 1..Len(ring[k]) /\ ring[k][i] \in Record BY <1>2, <1>4
<1>6. r.id = ring[k][i].id /\ r.pend = ring[k][i].pend BY <1>5 DEF Record
<1>7. ring' = [ring EXCEPT ![k] = q] BY <1>4
<1> HIDE DEF r
<1>8. /\ DOMAIN q = DOMAIN ring[k]
      /\ \A x \in DOMAIN ring[k] : q[x].id = ring[k][x].id /\ q[x].pend = ring[k][x].pend
  BY <1>6
<1> HIDE DEF q
<1>9. ring'[k] = q /\ \A x \in Rings : x # k => ring'[x] = ring[x] BY <1>2, <1>7
<1>10. \A d \in Dests : Safe(d) \subseteq Safe(d)'
  <2>1. ASSUME NEW d \in Dests
        PROVE  Pending(ring[RingOf(d)], d) \subseteq Pending(ring'[RingOf(d)], d)
    <3>1. CASE RingOf(d) = k BY <1>8, <1>9, <3>1 DEF Pending
    <3>2. CASE RingOf(d) # k BY <1>9, <3>2, RingOfRing
    <3> QED BY <3>1, <3>2
  <2> QED BY <1>1, <2>1 DEF Safe
<1>11. NothingLost' BY <1>1, <1>2, <1>10, SafeBalanced DEF RecordInv
<1>12. Accounts' BY <1>1, AccountsStay DEF RecordInv, Accounts
<1>13. RecordsStay
  <2>1. ASSUME NEW x \in Rings, NEW y \in 1..Len(ring[x]) PROVE ring'[x][y].id = ring[x][y].id
    <3>1. CASE x = k BY <1>5, <1>8, <1>9, <2>1, <3>1
    <3>2. CASE x # k BY <1>9, <3>2
    <3> QED BY <3>1, <3>2
  <2> QED BY <1>1, <2>1 DEF RecordsStay
<1>14. CloseInv'
  BY <1>1, <1>13, CloseStays, InheritsSelf, JobStaysSelf DEF RecordInv
<1> QED BY <1>11, <1>12, <1>14 DEF RecordInv

-----------------------------------------------------------------------------
(* The theorem. *)

LEMMA RecordInvariant == Spec => []RecordInv
<1>1. JobInv /\ MountInv /\ RecordInv /\ [Next]_vars => RecordInv'
  BY RecordsApplication, RecordsOthers, RecordsStatResult, RecordsWriteResult,
     RecordsCloseResult, RecordsTick, RecordsDeadline, RecordsStartJob, RecordsDeferred,
     RecordsWork, RecordsBeside, RecordsRetryDue
  DEF Next, Tick, Result
<1> QED BY <1>1, RecordInit, JobInvariant, MountAlwaysConsistent, PTL DEF Spec

\* Every record that was accepted is pending, in a closed file, set aside with
\* its stream, or in the count of dropped records: none is lost uncounted
\* (completeFileJobSuccess, applyFileJobFailure, the pops and the rotations).
THEOREM NothingEverLost == Spec => []NothingLost
<1>1. RecordInv => NothingLost BY DEF RecordInv
<1> QED BY <1>1, RecordInvariant, PTL
=============================================================================
