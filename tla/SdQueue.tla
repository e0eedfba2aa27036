-------------------------------- MODULE SdQueue --------------------------------
(***************************************************************************)
(* The records of the SD logger's two ring buffers and what a file job     *)
(* does to them.  A ring is the sequence of its valid records, oldest      *)
(* first.  A sample may be pending for the daily file and for the session  *)
(* file, an event for the event file; a record with nothing left pending   *)
(* leaves the ring as soon as it is the oldest.  A job always takes the    *)
(* first n records, all pending for its destination.                       *)
(***************************************************************************)
EXTENDS Integers, Sequences, FiniteSets

CONSTANTS
  MaxBatch,       \* FileJob::MAX_BATCH_LINES
  MaxRetries      \* RuntimeSettings::logMaxWriteRetries

ASSUME QueueAssumption == MaxBatch \in Nat \ {0} /\ MaxRetries \in Nat \ {0}

Dests == {"daily", "all", "event"}
Rings == {"sample", "event"}
RingOf(d) == IF d = "event" THEN "event" ELSE "sample"

\* wait: nextAttemptMs lies ahead.  One deadline serves both destinations.
Record == [id : Nat, pend : SUBSET Dests, tries : [Dests -> 0..MaxRetries],
           wait : BOOLEAN]

NewRecord(id, dests) ==
  [id |-> id, pend |-> dests, tries |-> [d \in Dests |-> 0], wait |-> FALSE]

\* The first n records may go to d in one job.
Fits(q, n, d) ==
  /\ n \in 1..Len(q) /\ n <= MaxBatch
  /\ \A i \in 1..n : d \in q[i].pend /\ (i > 1 => ~q[i].wait)

\* The longest batch; the day of a sample is left open, so a change of day may
\* cut a daily batch anywhere.
Batches(q, d) ==
  {n \in 1..Len(q) : Fits(q, n, d) /\ (d = "daily" \/ ~Fits(q, n + 1, d))}

\* popCompletedSampleHeadRecords, popInvalidEventHeadRecords.
Trim(q) ==
  LET live == {i \in DOMAIN q : q[i].pend # {}}
      first == CHOOSE i \in live : \A j \in live : i <= j
  IN IF live = {} THEN <<>> ELSE SubSeq(q, first, Len(q))

Cleared(r, d) ==
  [r EXCEPT !.pend = @ \ {d}, !.tries[d] = 0, !.wait = FALSE]

\* completeFileJobSuccess
Written(q, n, d) ==
  Trim([i \in DOMAIN q |-> IF i <= n THEN Cleared(q[i], d) ELSE q[i]])

\* This failure is the record's last.
GivesUp(r, d) == r.tries[d] + 1 >= MaxRetries

Tried(r, d) ==
  IF GivesUp(r, d)
  THEN [r EXCEPT !.pend = @ \ {d}, !.tries[d] = MaxRetries, !.wait = FALSE]
  ELSE [r EXCEPT !.tries[d] = @ + 1, !.wait = TRUE]

\* applyFileJobFailure
Failed(q, n, d) ==
  Trim([i \in DOMAIN q |-> IF i <= n THEN Tried(q[i], d) ELSE q[i]])

\* Fault: the records given up are not counted.
GivenUp_Silent(q, n, d) == 0
GivenUp(q, n, d) == Cardinality({i \in 1..n : GivesUp(q[i], d)})

\* A rotation that fails discards the batch: not a failure, no retry.
Discarded(q, n, d) ==
  Trim([i \in DOMAIN q |-> IF i <= n THEN [q[i] EXCEPT !.pend = @ \ {d}] ELSE q[i]])

\* Lines of the first n records; records still pending for d.
Ids(q, n)   == {q[i].id : i \in 1..n}
Pending(q, d) == {q[i].id : i \in {j \in DOMAIN q : d \in q[j].pend}}
=============================================================================
