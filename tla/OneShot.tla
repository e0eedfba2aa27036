-------------------------------- MODULE OneShot --------------------------------
(***************************************************************************)
(* What the raw-I2C snapshot promises its readers (web API and serial      *)
(* CLI): one operation at a time goes queued -> in flight -> done, it is   *)
(* run on the bus at most once, "ok" is reported only for an operation the *)
(* bus really completed with that verdict, and an operation that is in     *)
(* flight is eventually reported done whatever the bus task does.          *)
(***************************************************************************)
CONSTANT Verdicts          \* what the bus can say of an operation, never "none"

VARIABLES phase,           \* "idle", "queued", "inflight" or "done"
          outcome,         \* what the snapshot says once done, else "none"
          ran              \* what the bus said of this very operation

vars == <<phase, outcome, ran>>

Init == phase = "idle" /\ outcome = "none" /\ ran = "none"

Ask ==
  /\ phase \in {"idle", "done"}
  /\ phase' = "queued" /\ outcome' = "none" /\ ran' = "none"

Send ==
  /\ phase = "queued"
  /\ phase' = "inflight" /\ UNCHANGED <<outcome, ran>>

Run ==
  /\ phase = "inflight" /\ ran = "none"
  /\ ran' \in Verdicts /\ UNCHANGED <<phase, outcome>>

\* Giving up is always allowed; any other answer is the bus's own verdict.
Answer ==
  /\ phase = "inflight"
  /\ outcome' \in {"timeout"} \cup ({ran} \ {"none"})
  /\ phase' = "done" /\ UNCHANGED ran

Next == Ask \/ Send \/ Run \/ Answer

\* What holds of any stretch of behaviour, and that an operation in flight is answered.
SafeSpec == Init /\ [][Next]_vars
Spec == SafeSpec /\ WF_vars(Answer)
=============================================================================
