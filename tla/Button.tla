-------------------------------- MODULE Button --------------------------------
(***************************************************************************)
(* The button: debouncing, and what counts as a short, a long and a multiple *)
(* press.  The main loop calls tick() once per unit of time and takes the    *)
(* events at once.  Times are kept as ages, counted up to a cap.             *)
(***************************************************************************)
EXTENDS Naturals, Sequences

CONSTANTS
  Debounce,       \* _debounceMs, in ticks
  LongPress,      \* _longPressMs
  Window,         \* _multiPressWindowMs
  PressTarget     \* _multiPressCountTarget

ASSUME ButtonAssumption ==
  {Debounce, LongPress, Window, PressTarget} \subseteq Nat \ {0} /\ PressTarget > 1

VARIABLES
  lastRaw,        \* the level read last
  changeAge,      \* ticks since it changed
  stablePressed,  \* _stable
  pressAge,       \* ticks since the press
  longPressFired,
  pressCount,     \* short presses of this series
  firstAge,       \* ticks since the first of them was released
  event,          \* what this tick found: a set of "short", "long", "multi"
  shorts          \* history: ages of the short presses, newest first, that no long or
                  \* multiple press has followed

buttonVars == <<lastRaw, changeAge, stablePressed, pressAge, longPressFired, pressCount,
                firstAge, event, shorts>>

UpTo(n, cap) == IF n > cap THEN cap ELSE n
Cap == Window + 1

ButtonInit ==
  /\ lastRaw = FALSE /\ changeAge = 0 /\ stablePressed = FALSE
  /\ pressAge = 0 /\ longPressFired = FALSE
  /\ pressCount = 0 /\ firstAge = 0
  /\ event = {} /\ shorts = <<>>

-----------------------------------------------------------------------------
(* The debounced level changes when the raw one has not for the debounce time. *)
RawAge(raw)  == IF raw # lastRaw THEN 0 ELSE UpTo(changeAge + 1, Debounce)
Settles(raw) == RawAge(raw) >= Debounce
Pressed(raw)  == Settles(raw) /\ raw /\ ~stablePressed
Released(raw) == Settles(raw) /\ ~raw /\ stablePressed

Aged(list) == [i \in 1..Len(list) |-> UpTo(list[i] + 1, Cap)]
Newest(list) == SubSeq(list, 1, UpTo(Len(list), PressTarget))

\* Mutant: a long press does not end a series.
SeriesOver_LongGoesOn(multi, long, first) == multi \/ first > Window

(* A series ends with its event, with a long press, or when it is too slow. *)
SeriesOver(multi, long, first) == multi \/ long \/ first > Window

(* A long press is found while the button is held, a short one when it is released,
   the last of a quick series with it. *)
TickButton(raw) ==
  LET short == Released(raw) /\ ~longPressFired
      held  == IF Pressed(raw) THEN 0 ELSE UpTo(pressAge + 1, LongPress)
      fired == longPressFired /\ ~Pressed(raw)
      long  == (stablePressed \/ Pressed(raw)) /\ ~Released(raw) /\ ~fired /\ held >= LongPress
      first == IF short /\ pressCount = 0 THEN 0 ELSE UpTo(firstAge + 1, Cap)
      count == pressCount + (IF short THEN 1 ELSE 0)
      multi == short /\ first <= Window /\ count >= PressTarget
      over  == SeriesOver(multi, long, first)
  IN /\ lastRaw' = raw /\ changeAge' = RawAge(raw)
     /\ stablePressed' = IF Settles(raw) THEN raw ELSE stablePressed
     /\ pressAge' = held
     /\ longPressFired' = (fired \/ long)
     /\ pressCount' = IF over THEN 0 ELSE count
     /\ firstAge' = IF over \/ count = 0 THEN 0 ELSE first
     /\ event' = (IF short THEN {"short"} ELSE {}) \union (IF long THEN {"long"} ELSE {})
                   \union (IF multi THEN {"multi"} ELSE {})
     /\ shorts' = IF long THEN <<>>
                  ELSE IF short
                    THEN Newest(<<0>> \o (IF "multi" \in event THEN <<>> ELSE Aged(shorts)))
                  ELSE IF "multi" \in event THEN <<>> ELSE Aged(shorts)

ButtonNext == \E raw \in BOOLEAN : TickButton(raw)

ButtonSpec == ButtonInit /\ [][ButtonNext]_buttonVars

-----------------------------------------------------------------------------
(* Properties *)

(* A multiple press is reported only for the wanted number of short presses, each
   released within the time window of the first, with no long press and no other
   multiple press among them: the factory network is not put back by a slow or a
   mixed series. *)
MultiIsQuickSeries ==
  "multi" \in event =>
    /\ Len(shorts) >= PressTarget
    /\ \A i \in 1..PressTarget : shorts[i] <= Window
=============================================================================
