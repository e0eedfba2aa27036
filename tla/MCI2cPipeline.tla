----------------------------- MODULE MCI2cPipeline -----------------------------
(***************************************************************************)
(* Instances of the pipeline for TLC; the constants are in the .cfg files. *)
(* The code only ever compares tokens for equality, so two states that     *)
(* differ by a renaming of the orchestrator's tokens behave alike.  The    *)
(* view Renamed numbers them by their first use along the result queue,    *)
(* the task, the request queue and the clients.                            *)
(***************************************************************************)
EXTENDS I2cPipeline

TokensInOrder ==
  [i \in DOMAIN resQ |-> resQ[i].token] \o
  SetToSeq({q.token : q \in current}) \o
  [i \in DOMAIN reqQ |-> reqQ[i].token] \o
  <<active["raw"], active["recover"], active["rtcSet"], active["rtcRead"],
    active["envTrig"], active["envRead"], active["scan"]>>

Renamed ==
  LET order == TokensInOrder
      rank == [t \in ToSet(order) |->
                 IF t <= TokenBase THEN t
                 ELSE TokenBase + (CHOOSE i \in DOMAIN order :
                        order[i] = t /\ \A j \in 1..(i - 1) : order[j] # t)]
      ranked(r) == [r EXCEPT !.token = rank[r.token]]
      rankedKeys(K) == {<<e[1], rank[e[2]]>> : e \in {x \in K : x \in Live}}
  IN <<pc, slot, budget, drained, due, pending, snapshots, envVars, rtcVars,
       settings, busCfg, chip, history,
       [k \in Tracked |-> rank[active[k]]],
       [i \in DOMAIN reqQ |-> ranked(reqQ[i])],
       [i \in DOMAIN resQ |-> ranked(resQ[i])],
       {ranked(q) : q \in current}, rankedKeys(expired), rankedKeys(seen)>>
=============================================================================
