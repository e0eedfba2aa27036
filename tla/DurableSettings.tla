--------------------------- MODULE DurableSettings ---------------------------
(***************************************************************************)
(* What the settings of the logger promise, without queue, button or       *)
(* radio: the record in use, the record owed to the store, and the stored   *)
(* one.  A change may promise to be stored; only what is owed is stored;    *)
(* a restart takes what the store holds, and the store can be spoiled only  *)
(* while it is being written.                                               *)
(***************************************************************************)
CONSTANTS
  Records,      \* the settings records
  Nothing,      \* no record: nothing owed, or nothing usable stored
  Booted(_)     \* the record in use after a start with this store

VARIABLES live, owed, saved

durableVars == <<live, owed, saved>>

Init ==
  /\ saved \in Records \union {Nothing}
  /\ live = Booted(saved)
  /\ owed = Nothing

(* A change of the record in use, which may be owed to the store. *)
Change ==
  /\ live' \in Records
  /\ owed' \in {owed, live'}
  /\ UNCHANGED saved

(* What is owed is stored, or the store keeps what it had. *)
Flush ==
  /\ owed # Nothing
  /\ owed' = Nothing
  /\ saved' \in {owed, saved}
  /\ UNCHANGED live

(* A restart, perhaps in the middle of a write. *)
Restart ==
  /\ saved' \in {saved} \union (IF owed = Nothing THEN {} ELSE {owed, Nothing})
  /\ live' = Booted(saved')
  /\ owed' = Nothing

Next == Change \/ Flush \/ Restart

Spec == Init /\ [][Next]_durableVars
=============================================================================
