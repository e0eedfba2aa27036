------------------------------ MODULE DeviceProofs ------------------------------
(***************************************************************************)
(* What the main loop shows of its devices, for all debounce times, frame   *)
(* lengths, budgets and stalls: when the health light changes, when the     *)
(* LiDAR's parser is in step with its line, and how old a measurement is    *)
(* that a healthy adapter holds.                                            *)
(***************************************************************************)
EXTENDS DeviceHealth, LidarFrames, LidarLink, SequenceTheorems, TLAPS

-----------------------------------------------------------------------------
(* The health light *)

\* A level that the light has not taken over yet has been the system's health for as long
\* as it is pending, and for the tick it came up in; in the tick that shows it, for one
\* tick more, if it is the system's health still.
PendingAgrees ==
  ledHealthDebounce.pending # ledHealthDebounce.stable =>
    IF phase = "show"
    THEN ledHealthDebounce.pending = sysHealth =>
           agreed >= ledHealthDebounce.since + 2 \/ agreed > HealthDebounce
    ELSE /\ ledHealthDebounce.pending = sysHealth
         /\ agreed >= ledHealthDebounce.since + 1 \/ agreed > HealthDebounce

Shades == Levels \union {"UNKNOWN", "none"}
Lights == [stable : Shades, pending : Shades, since : Nat]

LightInv ==
  /\ phase \in {"commands", "sample", "evaluate", "show"}
  /\ agreed \in Nat /\ sysHealth \in Shades /\ ledHealthDebounce \in Lights
  /\ phase = "show" => agreed >= 1
  /\ ~initComplete => ledHealthDebounce.pending = ledHealthDebounce.stable
  /\ PendingAgrees

\* The light shows h, waits to show p, and has waited for n ticks.
IsLight(d, h, p, n) == d \in Lights /\ d.stable = h /\ d.pending = p /\ d.since = n

\* Updates of the light's state.
LEMMA LightUpdates ==
  ASSUME NEW d \in Lights, NEW h \in Shades, NEW n \in Nat
  PROVE  /\ IsLight([d EXCEPT !.pending = h, !.since = n], d.stable, h, n)
         /\ IsLight([d EXCEPT !.stable = h, !.since = n], h, d.pending, n)
         /\ IsLight([d EXCEPT !.since = n], d.stable, d.pending, n)
         /\ IsLight(Settled(h), h, h, 0)
<1>1. IsLight([d EXCEPT !.pending = h, !.since = n], d.stable, h, n)
  BY DEF Lights, IsLight
<1>2. IsLight([d EXCEPT !.stable = h, !.since = n], h, d.pending, n)
  BY DEF Lights, IsLight
<1>3. IsLight([d EXCEPT !.since = n], d.stable, d.pending, n)
  BY DEF Lights, IsLight
<1>4. IsLight(Settled(h), h, h, 0)
  BY DEF Settled, Lights, IsLight
<1> QED BY <1>1, <1>2, <1>3, <1>4

\* What the light does in a tick: it takes the health over at once, begins to wait, takes
\* it over at last, or goes on waiting.
LEMMA LightSteps ==
  ASSUME LightInv
  PROVE  LET now == ledHealthDebounce
             new == Debounced(sysHealth)
         IN /\ sysHealth = "FAULT" => IsLight(new, "FAULT", "FAULT", 0)
            /\ \/ /\ IsLight(new, sysHealth, sysHealth, 0)
                  /\ now.stable = "none" \/ sysHealth = "FAULT" \/ sysHealth = now.stable
               \/ IsLight(new, now.stable, sysHealth, 0)
               \/ /\ IsLight(new, sysHealth, now.pending, HealthDebounce)
                  /\ now.since + 1 >= HealthDebounce
                  /\ now.pending = sysHealth /\ sysHealth # now.stable
               \/ /\ IsLight(new, now.stable, now.pending, now.since + 1)
                  /\ now.pending = sysHealth /\ sysHealth # now.stable
<1> DEFINE now == ledHealthDebounce
<1>1. now \in Lights /\ sysHealth \in Shades /\ HealthDebounce \in Nat
      /\ now.since + 1 \in Nat /\ 0 \in Nat
  BY DeviceHealthAssumption DEF LightInv, Lights
<1>2. CASE now.stable = "none" \/ sysHealth = "FAULT" \/ sysHealth = now.stable
  <2>1. Debounced(sysHealth) = Settled(sysHealth)
    BY <1>2 DEF Debounced
  <2> QED BY <1>1, <1>2, <2>1, LightUpdates
<1>3. CASE ~(now.stable = "none" \/ sysHealth = "FAULT" \/ sysHealth = now.stable)
  <2>1. CASE sysHealth # now.pending
    <3>1. Debounced(sysHealth) = [now EXCEPT !.pending = sysHealth, !.since = 0]
      BY <1>3, <2>1 DEF Debounced
    <3>2. IsLight(Debounced(sysHealth), now.stable, sysHealth, 0)
      BY <1>1, <3>1, LightUpdates
    <3> QED BY <1>3, <3>2
  <2>2. CASE sysHealth = now.pending /\ now.since + 1 >= HealthDebounce
    <3>1. Debounced(sysHealth) = [now EXCEPT !.stable = sysHealth, !.since = HealthDebounce]
      BY <1>3, <2>2 DEF Debounced
    <3>2. IsLight(Debounced(sysHealth), sysHealth, now.pending, HealthDebounce)
      BY <1>1, <3>1, LightUpdates
    <3> QED BY <1>3, <2>2, <3>2
  <2>3. CASE sysHealth = now.pending /\ ~(now.since + 1 >= HealthDebounce)
    <3>1. Debounced(sysHealth) = [now EXCEPT !.since = now.since + 1]
      BY <1>3, <2>3 DEF Debounced
    <3>2. IsLight(Debounced(sysHealth), now.stable, now.pending, now.since + 1)
      BY <1>1, <3>1, LightUpdates
    <3> QED BY <1>3, <2>3, <3>2
  <2> QED BY <2>1, <2>2, <2>3
<1> QED BY <1>2, <1>3

\* Showing the health keeps what is pending in agreement with it.
LEMMA LightShown ==
  ASSUME LightInv, ShowHealth
  PROVE  LightInv'
<1>1. /\ phase = "show" /\ phase' = "commands" /\ UNCHANGED <<sysHealth, agreed>>
      /\ sysHealth \in Shades /\ agreed \in Nat /\ agreed >= 1 /\ HealthDebounce \in Nat
      /\ ledHealthDebounce \in Lights
  BY DeviceHealthAssumption DEF LightInv, ShowHealth
<1>2. CASE ~initComplete
  <2>1. ledHealthDebounce' = ledHealthDebounce /\ initComplete' = initComplete
        /\ ledHealthDebounce.pending = ledHealthDebounce.stable
    BY <1>2 DEF LightInv, ShowHealth
  <2> QED BY <1>1, <1>2, <2>1 DEF LightInv, PendingAgrees
<1>3. CASE initComplete
  <2> DEFINE now == ledHealthDebounce
             new == ledHealthDebounce'
  <2>1. new = Debounced(sysHealth) /\ initComplete' = initComplete
    BY <1>3 DEF ShowHealth
  <2>2. now.stable \in Shades /\ now.pending \in Shades /\ now.since \in Nat
    BY <1>1 DEF Lights
  <2>3. CASE \/ IsLight(new, sysHealth, sysHealth, 0)
             \/ /\ IsLight(new, sysHealth, now.pending, HealthDebounce)
                /\ now.pending = sysHealth
    <3>1. new \in Lights /\ new.pending = new.stable
      BY <2>3 DEF IsLight
    <3> QED BY <1>1, <1>3, <2>1, <3>1 DEF LightInv, PendingAgrees
  <2>4. CASE IsLight(new, now.stable, sysHealth, 0)
    <3>1. new \in Lights /\ new.pending = sysHealth /\ new.since = 0
      BY <2>4 DEF IsLight
    <3> QED BY <1>1, <1>3, <2>1, <3>1 DEF LightInv, PendingAgrees
  <2>5. CASE /\ IsLight(new, now.stable, now.pending, now.since + 1)
             /\ now.pending = sysHealth /\ sysHealth # now.stable
    <3>1. new \in Lights /\ new.pending = sysHealth /\ new.since = now.since + 1
      BY <2>5 DEF IsLight
    <3>2. agreed >= now.since + 2 \/ agreed > HealthDebounce
      BY <1>1, <2>5 DEF LightInv, PendingAgrees
    <3>3. agreed >= new.since + 1 \/ agreed > HealthDebounce
      BY <1>1, <2>2, <3>1, <3>2
    <3> QED BY <1>1, <1>3, <2>1, <3>1, <3>3 DEF LightInv, PendingAgrees
  <2> QED BY <2>1, <2>3, <2>4, <2>5, LightSteps
<1> QED BY <1>2, <1>3

\* The other steps of the tick: evaluation counts for how long the health is the same.
LEMMA LightKept ==
  ASSUME LightInv, RunCommands \/ TakeSample \/ EvaluateDevices \/ InitTimeEnds
                   \/ UNCHANGED healthVars
  PROVE  LightInv'
<1>1. /\ agreed \in Nat /\ HealthDebounce \in Nat /\ sysHealth \in Shades
      /\ ledHealthDebounce \in Lights /\ ledHealthDebounce.since \in Nat
  BY DeviceHealthAssumption DEF LightInv, Lights
<1>2. CASE EvaluateDevices
  <2>1. /\ phase = "evaluate" /\ phase' = "show" /\ UNCHANGED <<ledHealthDebounce, initComplete>>
        /\ agreed' = IF sysHealth' # sysHealth THEN 1
                     ELSE IF agreed = HealthDebounce + 1 THEN agreed ELSE agreed + 1
        /\ sysHealth' \in Shades
    BY <1>2 DEF EvaluateDevices, WorstHealth, Shades, Levels
  <2>2. agreed' \in Nat /\ agreed' >= 1
    BY <1>1, <2>1
  <2>3. PendingAgrees'
    BY <1>1, <2>1 DEF LightInv, PendingAgrees
  <2> QED BY <1>1, <2>1, <2>2, <2>3 DEF LightInv
<1>3. CASE RunCommands \/ TakeSample
  <2>1. /\ phase # "show" /\ phase' \in {"sample", "evaluate"}
        /\ UNCHANGED <<sysHealth, agreed, ledHealthDebounce, initComplete>>
    BY <1>3 DEF RunCommands, TakeSample
  <2> QED BY <2>1 DEF LightInv, PendingAgrees
<1>4. CASE InitTimeEnds \/ UNCHANGED healthVars
  <2>1. /\ UNCHANGED <<phase, sysHealth, agreed, ledHealthDebounce>>
        /\ initComplete' \/ UNCHANGED initComplete
    BY <1>4 DEF InitTimeEnds, healthVars
  <2> QED BY <2>1 DEF LightInv, PendingAgrees
<1> QED BY <1>2, <1>3, <1>4

\* The light shows a fault in the tick that finds it, and changes to anything else only
\* after the system's health has been the same for the debounce time, whatever the time.
THEOREM LedAlwaysDebounced == HealthSpec => LedDebounced
<1> DEFINE Lit == phase = "show" /\ initComplete =>
                    /\ sysHealth = "FAULT" => Shown' = "FAULT"
                    /\ Shown' # Shown /\ Shown # "none" /\ Shown' # "FAULT"
                         => agreed > HealthDebounce
<1>1. HealthInit => LightInv
  BY DEF HealthInit, LightInv, PendingAgrees, Shades, Lights
<1>2. LightInv /\ [HealthNext]_healthVars => LightInv'
  BY LightShown, LightKept DEF HealthNext, Tick
<1>3. LightInv /\ [HealthNext]_healthVars => [Lit]_healthVars
  <2> SUFFICES ASSUME LightInv, HealthNext, phase = "show", initComplete
               PROVE  /\ sysHealth = "FAULT" => Shown' = "FAULT"
                      /\ Shown' # Shown /\ Shown # "none" /\ Shown' # "FAULT"
                           => agreed > HealthDebounce
    OBVIOUS
  <2>1. ShowHealth
    BY DEF HealthNext, Tick, RunCommands, TakeSample, EvaluateDevices, InitTimeEnds
  <2>2. ledHealthDebounce' = Debounced(sysHealth)
    BY <2>1 DEF ShowHealth
  <2>3. /\ agreed \in Nat /\ HealthDebounce \in Nat /\ ledHealthDebounce.since \in Nat
    BY DeviceHealthAssumption DEF LightInv, Lights
  <2>4. sysHealth = "FAULT" => Shown' = "FAULT"
    BY <2>2, LightSteps DEF Shown, IsLight
  <2>5. ASSUME Shown' # Shown, Shown # "none", Shown' # "FAULT" PROVE agreed > HealthDebounce
    <3>1. /\ ledHealthDebounce.since + 1 >= HealthDebounce
          /\ ledHealthDebounce.pending = sysHealth /\ sysHealth # ledHealthDebounce.stable
      BY <2>2, <2>5, LightSteps DEF Shown, IsLight
    <3>2. agreed >= ledHealthDebounce.since + 2 \/ agreed > HealthDebounce
      BY <3>1 DEF LightInv, PendingAgrees
    <3> QED BY <2>3, <3>1, <3>2
  <2> QED BY <2>4, <2>5
<1> HIDE DEF Lit
<1>4. HealthSpec => [][Lit]_healthVars
  BY <1>1, <1>2, <1>3, PTL DEF HealthSpec
<1> QED BY <1>4 DEF LedDebounced, Lit

-----------------------------------------------------------------------------
(* The LiDAR's parser *)

\* What can be on the line: bytes, and what the sensor sends as a checksum.
LineBytes == Bytes \union {Checksum(Body(p)) : p \in Payloads}

ParserInv ==
  \/ parser = [state |-> "header1", frame |-> <<>>]
  \/ parser = [state |-> "header2", frame |-> <<Header>>]
  \/ /\ parser = [state |-> "payload", frame |-> parser.frame]
     /\ parser.frame \in Seq(LineBytes) /\ Len(parser.frame) \in 2..(FrameBytes - 1)

\* The bytes of the frame on the line that have left it.
Sent == FrameBytes - Len(sending)

\* The line holds the rest of the frame.
LineInv ==
  sending # <<>> =>
    /\ payload \in Payloads /\ Sent \in 0..(FrameBytes - 1)
    /\ sending = SubSeq(Frame(payload), Sent + 1, FrameBytes)

\* The parser holds the first n bytes of the frame.
InStep(n) ==
  \/ n = 0 /\ parser = [state |-> "header1", frame |-> <<>>]
  \/ n = 1 /\ parser = [state |-> "header2", frame |-> <<Header>>]
  \/ n >= 2 /\ parser = [state |-> "payload", frame |-> SubSeq(Frame(payload), 1, n)]

\* Or it holds more bytes than the frame has sent, and cannot end with it; or it waits for
\* a header that does not come any more.
OutOfStep(n) ==
  \/ parser.state = "payload" /\ Len(parser.frame) > n
  \/ parser.state = "header2" /\ n <= 2
  \/ parser.state = "header1" /\ (n = 0 \/ n >= 3)

\* A frame without further header bytes ends with the parser looking for the next frame;
\* from then on it is in step.
StepInv ==
  /\ plain \in 0..2
  /\ sending # <<>> /\ ~disturbed /\ HeaderFree => InStep(Sent) \/ OutOfStep(Sent)
  /\ plain > 0 => /\ sending = <<>> => parser = [state |-> "header1", frame |-> <<>>]
                  /\ sending # <<>> => InStep(Sent) /\ parsed = <<>> /\ ~disturbed

FramesInv == ParserInv /\ LineInv /\ StepInv /\ Resynchronises

\* A beginning of a sequence, and the next element, are a longer beginning.
LEMMA LongerBeginning ==
  ASSUME NEW S, NEW w \in Seq(S), NEW k \in 0..(Len(w) - 1)
  PROVE  Append(SubSeq(w, 1, k), w[k + 1]) = SubSeq(w, 1, k + 1)
<1>1. SubSeq(w, 1, k) \in Seq(S) /\ w[k + 1] \in S
  BY SubSeqProperties
<1>2. Append(SubSeq(w, 1, k), w[k + 1]) = SubSeq(w, 1, k) \o <<w[k + 1]>>
  BY <1>1
<1>3. k + 1 \in 1..Len(w) /\ (k + 1) - 1 = k
  OBVIOUS
<1> QED BY <1>2, <1>3, SubSeqRecursiveSecond

\* A sequence without its first k elements.
LEMMA WithoutFirst ==
  ASSUME NEW S, NEW w \in Seq(S), NEW k \in 0..Len(w)
  PROVE  /\ SubSeq(w, k + 1, Len(w)) \in Seq(S)
         /\ Len(SubSeq(w, k + 1, Len(w))) = Len(w) - k
         /\ \A i \in 1..(Len(w) - k) : SubSeq(w, k + 1, Len(w))[i] = w[i + k]
<1> DEFINE m == k + 1
           n == Len(w)
<1>1. m \in Int /\ n \in Int /\ \A i \in m..n : w[i] \in S
  OBVIOUS
<1>2. (m <= n <=> k < n) /\ k <= n /\ k \in Nat /\ n \in Nat
  OBVIOUS
<1>3. m = k + 1
  OBVIOUS
<1> HIDE DEF m, n
<1>4. /\ SubSeq(w, m, n) \in Seq(S) /\ Len(SubSeq(w, m, n)) = IF m <= n THEN n - m + 1 ELSE 0
      /\ \A i \in 1..(n - m + 1) : SubSeq(w, m, n)[i] = w[m + i - 1]
  BY <1>1, SubSeqProperties
<1>5. \A i \in 1..(n - k) : SubSeq(w, m, n)[i] = w[i + k]
  <2> SUFFICES ASSUME NEW i \in 1..(n - k) PROVE SubSeq(w, m, n)[i] = w[i + k]
    OBVIOUS
  <2>1. i \in 1..(n - m + 1) /\ m + i - 1 = i + k
    BY <1>2, <1>3
  <2> QED BY <1>4, <2>1
<1>6. Len(SubSeq(w, m, n)) = n - k
  BY <1>2, <1>3, <1>4
<1> QED BY <1>4, <1>5, <1>6 DEF m, n

\* Two elements, one after the other.
LEMMA TwoElements ==
  ASSUME NEW S, NEW x \in S
  PROVE  Append(<<x>>, x) = <<x, x>>
<1> DEFINE a == Append(<<x>>, x)
<1>1. <<x>> \in Seq(S) /\ Len(<<x>>) = 1 /\ <<x>>[1] = x
  OBVIOUS
<1>2. <<x, x>> \in Seq(S) /\ Len(<<x, x>>) = 2 /\ <<x, x>>[1] = x /\ <<x, x>>[2] = x
  OBVIOUS
<1>3. a \in Seq(S) /\ Len(a) = 2 /\ a[1] = x /\ a[2] = x
  BY <1>1
<1> HIDE DEF a
<1>4. a = <<x, x>>
  BY <1>2, <1>3
<1> QED BY <1>4 DEF a

\* The first two elements.
LEMMA FirstTwo ==
  ASSUME NEW S, NEW w \in Seq(S), Len(w) >= 2, NEW x, w[1] = x, NEW y, w[2] = y
  PROVE  SubSeq(w, 1, 2) = <<x, y>>
<1> DEFINE m == 1
           n == 2
           s == SubSeq(w, m, n)
           t == <<x, y>>
<1>1. x \in S /\ y \in S
  OBVIOUS
<1>2. t \in Seq(S) /\ Len(t) = 2 /\ t[1] = w[1] /\ t[2] = w[2]
  BY <1>1
<1>3. m \in Int /\ n \in Int /\ (\A i \in m..n : w[i] \in S) /\ m = 1 /\ n = 2
  OBVIOUS
<1> HIDE DEF m, n
<1>4. /\ SubSeq(w, m, n) \in Seq(S)
      /\ Len(SubSeq(w, m, n)) = IF m <= n THEN n - m + 1 ELSE 0
      /\ \A i \in 1..(n - m + 1) : SubSeq(w, m, n)[i] = w[m + i - 1]
  BY <1>3, SubSeqProperties
<1> HIDE DEF s, t
<1>5. s \in Seq(S) /\ Len(s) = 2 /\ s[1] = w[1] /\ s[2] = w[2]
  BY <1>3, <1>4 DEF s
<1>6. s = t
  BY <1>2, <1>5
<1> QED BY <1>6 DEF m, n, s, t

\* A frame: two header bytes, the payload, and the checksum of both.
LEMMA FrameFacts ==
  ASSUME NEW p \in Payloads
  PROVE  /\ PayloadBytes \in Nat \ {0} /\ FrameBytes = PayloadBytes + 3
         /\ Frame(p) \in Seq(LineBytes) /\ Len(Frame(p)) = FrameBytes
         /\ Frame(p)[1] = Header /\ Frame(p)[2] = Header
         /\ SubSeq(Frame(p), 3, FrameBytes - 1) = p
         /\ Matches(Frame(p))
<1> DEFINE w == Frame(p)
           b == Body(p)
           q == [i \in 1..PayloadBytes |-> p[i]]
           h == <<Header, Header>>
<1>1. PayloadBytes \in Nat \ {0} /\ FrameBytes = PayloadBytes + 3 /\ Header \in LineBytes
  BY LidarFramesAssumption DEF FrameBytes, LineBytes, Bytes
<1>2. q = p /\ q \in Seq(LineBytes) /\ Len(q) = PayloadBytes
  BY <1>1 DEF Payloads, LineBytes
<1>3. h \in Seq(LineBytes) /\ Len(h) = 2 /\ h[1] = Header /\ h[2] = Header
  BY <1>1
<1>4. b = h \o q
  BY DEF Body
<1> HIDE DEF q, h
<1>5. /\ b \in Seq(LineBytes) /\ Len(b) = PayloadBytes + 2
      /\ \A i \in 1..2 : b[i] = h[i]
      /\ \A i \in 3..(PayloadBytes + 2) : b[i] = q[i - 2]
  <2> DEFINE c == h \o q
  <2>1. /\ c \in Seq(LineBytes) /\ Len(c) = Len(h) + Len(q)
        /\ \A i \in 1..(Len(h) + Len(q)) : c[i] = IF i <= Len(h) THEN h[i] ELSE q[i - Len(h)]
    BY <1>2, <1>3, ConcatProperties, Zenon
  <2>2. b \in Seq(LineBytes) /\ Len(b) = Len(h) + Len(q)
        /\ \A i \in 1..(Len(h) + Len(q)) : b[i] = IF i <= Len(h) THEN h[i] ELSE q[i - Len(h)]
    BY <1>4, <2>1, Zenon
  <2> HIDE DEF b
  <2>3. Len(b) = PayloadBytes + 2
    BY <1>1, <1>2, <1>3, <2>2
  <2>4. \A i \in 1..2 : b[i] = h[i]
    BY <1>1, <1>2, <1>3, <2>2
  <2>5. \A i \in 3..(PayloadBytes + 2) : b[i] = q[i - 2]
    BY <1>1, <1>2, <1>3, <2>2
  <2> QED BY <2>2, <2>3, <2>4, <2>5
<1>6. Checksum(b) \in LineBytes
  BY DEF LineBytes
<1>7. w = Append(b, Checksum(b))
  BY DEF Frame
<1> HIDE DEF b, w
<1>8. /\ w \in Seq(LineBytes) /\ Len(w) = FrameBytes /\ w[FrameBytes] = Checksum(b)
      /\ \A i \in 1..(FrameBytes - 1) : w[i] = b[i]
  BY <1>1, <1>5, <1>6, <1>7, AppendProperties
<1>9. w[1] = Header /\ w[2] = Header
  BY <1>1, <1>3, <1>5, <1>8
<1>10. SubSeq(w, 3, FrameBytes - 1) = q
  <2> DEFINE s == SubSeq(w, 3, FrameBytes - 1)
  <2>1. \A i \in 3..(FrameBytes - 1) : w[i] \in LineBytes
    BY <1>1, <1>8
  <2>2. s \in Seq(LineBytes) /\ Len(s) = PayloadBytes
        /\ \A i \in 1..PayloadBytes : s[i] = w[i + 2]
    BY <1>1, <2>1, SubSeqProperties
  <2>3. \A i \in 1..PayloadBytes : w[i + 2] = q[i]
    BY <1>1, <1>5, <1>8
  <2> HIDE DEF s
  <2>4. s = q
    BY <1>2, <2>2, <2>3
  <2> QED BY <2>4 DEF s
<1>11. SubSeq(w, 1, FrameBytes - 1) = b
  <2> DEFINE s == SubSeq(w, 1, FrameBytes - 1)
  <2>1. \A i \in 1..(FrameBytes - 1) : w[i] \in LineBytes
    BY <1>1, <1>8
  <2>2. s \in Seq(LineBytes) /\ Len(s) = FrameBytes - 1
        /\ \A i \in 1..(FrameBytes - 1) : s[i] = w[i]
    BY <1>1, <2>1, SubSeqProperties
  <2> HIDE DEF s
  <2>4. s = b
    BY <1>1, <1>5, <1>8, <2>2
  <2> QED BY <2>4 DEF s
<1>12. Matches(w)
  BY <1>8, <1>11 DEF Matches
<1> QED BY <1>1, <1>2, <1>8, <1>9, <1>10, <1>12 DEF w

\* What the parser does with a byte, by what it holds.
LEMMA ParserTakes ==
  ASSUME ParserInv, NEW byte \in LineBytes, PushByte(byte)
  PROVE  /\ parser.state = "header1" =>
              /\ parser = [state |-> "header1", frame |-> <<>>]
              /\ parser' = Searching(byte) /\ Delivered(byte) = <<>>
         /\ parser.state = "header2" =>
              /\ parser = [state |-> "header2", frame |-> <<Header>>]
              /\ parser' = IF byte = Header
                           THEN [state |-> "payload", frame |-> <<Header, Header>>]
                           ELSE Searching(byte)
              /\ Delivered(byte) = <<>>
         /\ parser.state \in {"header1", "header2", "payload"}
         /\ parser.state = "payload" =>
              /\ parser.frame \in Seq(LineBytes) /\ Len(parser.frame) \in 2..(FrameBytes - 1)
              /\ Collect(byte) \in Seq(LineBytes)
              /\ Len(Collect(byte)) = Len(parser.frame) + 1
              /\ Len(parser.frame) + 1 = FrameBytes =>
                   /\ parser' = Searching(byte)
                   /\ Matches(Collect(byte)) =>
                        Delivered(byte) = <<SubSeq(Collect(byte), 3, FrameBytes - 1)>>
              /\ Len(parser.frame) + 1 # FrameBytes =>
                   /\ parser' = [state |-> "payload", frame |-> Collect(byte)]
                   /\ Delivered(byte) = <<>>
<1>1. CASE parser = [state |-> "header1", frame |-> <<>>]
  <2>1. parser.state = "header1" /\ ~Complete(byte)
    BY <1>1 DEF Complete
  <2>2. parser' = Searching(byte) /\ Delivered(byte) = <<>>
    BY <2>1 DEF PushByte, Delivered
  <2> QED BY <1>1, <2>1, <2>2
<1>2. CASE parser = [state |-> "header2", frame |-> <<Header>>]
  <2>1. parser.state = "header2" /\ parser.frame = <<Header>> /\ ~Complete(byte)
    BY <1>2 DEF Complete
  <2>2. byte = Header => Collect(byte) = <<Header, Header>>
    <3>1. Append(<<Header>>, Header) = <<Header, Header>>
      BY TwoElements
    <3> QED BY <2>1, <3>1 DEF Collect
  <2>3. parser' = IF byte = Header THEN [state |-> "payload", frame |-> Collect(byte)]
                  ELSE Searching(byte)
    BY <2>1 DEF PushByte
  <2>4. Delivered(byte) = <<>>
    BY <2>1 DEF Delivered
  <2> QED BY <1>2, <2>1, <2>2, <2>3, <2>4
<1>3. CASE /\ parser = [state |-> "payload", frame |-> parser.frame]
           /\ parser.frame \in Seq(LineBytes) /\ Len(parser.frame) \in 2..(FrameBytes - 1)
  <2>1. parser.state = "payload"
    BY <1>3
  <2>2. Collect(byte) \in Seq(LineBytes) /\ Len(Collect(byte)) = Len(parser.frame) + 1
    BY <1>3 DEF Collect
  <2>3. Complete(byte) <=> Len(parser.frame) + 1 = FrameBytes
    BY <2>1, <2>2 DEF Complete
  <2>4. CASE Complete(byte)
    <3>1. parser' = Searching(byte)
      BY <2>1, <2>4 DEF PushByte
    <3>2. Matches(Collect(byte)) =>
            Delivered(byte) = <<SubSeq(Collect(byte), 3, FrameBytes - 1)>>
      BY <2>4 DEF Delivered
    <3> QED BY <1>3, <2>1, <2>2, <2>3, <2>4, <3>1, <3>2
  <2>5. CASE ~Complete(byte)
    <3>1. parser' = [parser EXCEPT !.frame = Collect(byte)]
      BY <2>1, <2>5 DEF PushByte
    <3>2. parser' = [state |-> "payload", frame |-> Collect(byte)]
      BY <1>3, <3>1
    <3>3. Delivered(byte) = <<>>
      BY <2>5 DEF Delivered
    <3> QED BY <1>3, <2>1, <2>2, <2>3, <2>5, <3>2, <3>3
  <2> QED BY <2>4, <2>5
<1> QED BY <1>1, <1>2, <1>3 DEF ParserInv

\* The parser's frame is a beginning of one, whatever byte it takes.
LEMMA ParserKept ==
  ASSUME ParserInv, NEW byte \in LineBytes, PushByte(byte)
  PROVE  ParserInv'
<1>1. PayloadBytes \in Nat \ {0} /\ FrameBytes = PayloadBytes + 3 /\ Header \in LineBytes
  BY LidarFramesAssumption DEF FrameBytes, LineBytes, Bytes
<1>2. CASE parser' = Searching(byte)
  BY <1>2 DEF Searching, ParserInv
<1>3. CASE parser' = [state |-> "payload", frame |-> <<Header, Header>>]
  <2>1. parser'.frame = <<Header, Header>>
    BY <1>3
  <2>2. parser'.frame \in Seq(LineBytes) /\ Len(parser'.frame) \in 2..(FrameBytes - 1)
    BY <1>1, <2>1
  <2> QED BY <1>3, <2>1, <2>2 DEF ParserInv, FrameBytes
<1>4. CASE /\ parser.state = "payload" /\ Len(parser.frame) + 1 # FrameBytes
           /\ parser' = [state |-> "payload", frame |-> Collect(byte)]
  <2>1. parser'.frame = Collect(byte)
    BY <1>4
  <2>2. parser'.frame \in Seq(LineBytes) /\ Len(parser'.frame) \in 2..(FrameBytes - 1)
    BY <1>1, <1>4, <2>1, ParserTakes
  <2> QED BY <1>4, <2>1, <2>2 DEF ParserInv, FrameBytes
<1> QED BY <1>2, <1>3, <1>4, ParserTakes

\* The next byte of the frame, and what is left behind it.
LEMMA LineByte ==
  ASSUME LineInv, sending # <<>>
  PROVE  /\ payload \in Payloads /\ Sent \in 0..(FrameBytes - 1)
         /\ Head(sending) = Frame(payload)[Sent + 1] /\ Head(sending) \in LineBytes
         /\ Tail(sending) = SubSeq(Frame(payload), (Sent + 1) + 1, FrameBytes)
         /\ FrameBytes - Len(Tail(sending)) = Sent + 1
         /\ Tail(sending) = <<>> <=> Sent + 1 = FrameBytes
<1> DEFINE w == Frame(payload)
<1>1. /\ payload \in Payloads /\ Sent \in 0..(FrameBytes - 1)
      /\ sending = SubSeq(w, Sent + 1, FrameBytes)
  BY DEF LineInv
<1>2. w \in Seq(LineBytes) /\ Len(w) = FrameBytes /\ FrameBytes \in Nat
  BY <1>1, FrameFacts
<1> HIDE DEF w
<1>3. Head(sending) = w[Sent + 1] /\ Tail(sending) = SubSeq(w, (Sent + 1) + 1, FrameBytes)
  BY <1>1, <1>2, HeadTailOfSubSeq
<1>4. w[Sent + 1] \in LineBytes
  BY <1>1, <1>2
<1>5. Sent + 1 \in 0..FrameBytes /\ Sent + 1 \in Nat
  BY <1>1, <1>2
<1>6. Tail(sending) \in Seq(LineBytes) /\ Len(Tail(sending)) = FrameBytes - (Sent + 1)
  BY <1>2, <1>3, <1>5, WithoutFirst, Zenon
<1>7. Tail(sending) = <<>> <=> Len(Tail(sending)) = 0
  BY <1>6, EmptySeq, Zenon
<1>8. FrameBytes - Len(Tail(sending)) = Sent + 1
  <2>1. \A f, k \in Nat : f - (f - k) = k
    OBVIOUS
  <2> QED BY <1>2, <1>5, <1>6, <2>1
<1>9. Len(Tail(sending)) = 0 <=> Sent + 1 = FrameBytes
  <2>1. \A f, k \in Nat : f - k = 0 <=> k = f
    OBVIOUS
  <2> QED BY <1>2, <1>5, <1>6, <2>1
<1> QED BY <1>1, <1>3, <1>4, <1>7, <1>8, <1>9 DEF w

\* A byte of the frame leaves the line.
LEMMA ByteSent ==
  ASSUME LineInv, SendByte \/ LoseByte
  PROVE  /\ payload \in Payloads /\ payload' = payload /\ Sent \in 0..(FrameBytes - 1)
         /\ Head(sending) = Frame(payload)[Sent + 1] /\ Head(sending) \in LineBytes
         /\ Sent' = Sent + 1 /\ (sending' = <<>> <=> Sent + 1 = FrameBytes)
         /\ LineInv'
<1>1. sending # <<>> /\ sending' = Tail(sending) /\ payload' = payload
  BY DEF SendByte, LoseByte
<1>2. Sent' = FrameBytes - Len(sending')
  BY DEF Sent, FrameBytes
<1>3. Sent' = Sent + 1 /\ (sending' = <<>> <=> Sent + 1 = FrameBytes)
  BY <1>1, <1>2, LineByte
<1>4. payload \in Payloads /\ Sent \in 0..(FrameBytes - 1) /\ FrameBytes \in Nat
  BY <1>1, LineByte, FrameFacts
<1>5. ASSUME sending' # <<>> PROVE Sent' \in 0..(FrameBytes - 1)
  BY <1>3, <1>4, <1>5
<1>6. sending' = SubSeq(Frame(payload'), Sent' + 1, FrameBytes)
  BY <1>1, <1>3, LineByte
<1>7. LineInv'
  BY <1>1, <1>4, <1>5, <1>6 DEF LineInv, FrameBytes, Payloads, Bytes, Frame, Body, Checksum
<1> QED BY <1>1, <1>3, <1>4, <1>7, LineByte

\* In step, the parser takes byte after byte of the frame and delivers its payload.
LEMMA StaysInStep ==
  ASSUME ParserInv, LineInv, SendByte, InStep(Sent)
  PROVE  IF Sent + 1 = FrameBytes
         THEN /\ parser' = Searching(Head(sending))
              /\ Delivered(Head(sending)) = <<payload>>
         ELSE InStep(Sent)' /\ Delivered(Head(sending)) = <<>>
<1> DEFINE w == Frame(payload)
           n == Sent
           b == Head(sending)
<1>1. /\ payload \in Payloads /\ payload' = payload /\ n \in 0..(FrameBytes - 1)
      /\ b = w[n + 1] /\ b \in LineBytes /\ Sent' = n + 1
  BY ByteSent
<1>2. /\ w \in Seq(LineBytes) /\ Len(w) = FrameBytes /\ w[1] = Header /\ w[2] = Header
      /\ FrameBytes \in Nat /\ FrameBytes >= 4 /\ Matches(w)
      /\ SubSeq(w, 3, FrameBytes - 1) = payload
  BY <1>1, FrameFacts
<1>3. PushByte(b)
  BY DEF SendByte
<1>4. InStep(Sent)' <=>
        \/ n + 1 = 0 /\ parser' = [state |-> "header1", frame |-> <<>>]
        \/ n + 1 = 1 /\ parser' = [state |-> "header2", frame |-> <<Header>>]
        \/ n + 1 >= 2 /\ parser' = [state |-> "payload", frame |-> SubSeq(w, 1, n + 1)]
  BY <1>1 DEF InStep
<1> HIDE DEF w, n, b
<1>5. CASE n = 0 /\ parser = [state |-> "header1", frame |-> <<>>]
  <2>1. parser' = Searching(b) /\ Delivered(b) = <<>> /\ b = Header
    BY <1>1, <1>2, <1>3, <1>5, ParserTakes
  <2>2. parser' = [state |-> "header2", frame |-> <<Header>>]
    BY <2>1 DEF Searching
  <2> QED BY <1>2, <1>4, <1>5, <2>1, <2>2 DEF n, b
<1>6. CASE n = 1 /\ parser = [state |-> "header2", frame |-> <<Header>>]
  <2>1. /\ parser' = [state |-> "payload", frame |-> <<Header, Header>>]
        /\ Delivered(b) = <<>> /\ b = Header
    BY <1>1, <1>2, <1>3, <1>6, ParserTakes
  <2>2. SubSeq(w, 1, 2) = <<Header, Header>>
    <3>1. Len(w) >= 2
      BY <1>2
    <3> QED BY <1>2, <3>1, FirstTwo
  <2>3. n + 1 = 2 /\ n + 1 >= 2 /\ n + 1 # FrameBytes
    BY <1>2, <1>6
  <2>4. parser' = [state |-> "payload", frame |-> SubSeq(w, 1, 2)]
    BY <2>1, <2>2, Zenon
  <2>5. InStep(Sent)'
    BY <1>4, <2>3, <2>4, Zenon
  <2> QED BY <2>1, <2>3, <2>5 DEF n, b
<1>7. CASE n >= 2 /\ parser = [state |-> "payload", frame |-> SubSeq(w, 1, n)]
  <2>1. parser.state = "payload" /\ parser.frame = SubSeq(w, 1, n)
    BY <1>7
  <2>2. Collect(b) = SubSeq(w, 1, n + 1)
    BY <1>1, <1>2, <2>1, LongerBeginning DEF Collect
  <2>3. Len(parser.frame) = n
    <3>1. Len(SubSeq(w, 1, n)) = n
      BY <1>1, <1>2
    <3> QED BY <2>1, <3>1
  <2>4. CASE n + 1 = FrameBytes
    <3>1. Collect(b) = w
      BY <1>2, <2>2, <2>4, SubSeqFull
    <3>2. parser' = Searching(b) /\ Delivered(b) = <<payload>>
      BY <1>1, <1>2, <1>3, <2>1, <2>3, <2>4, <3>1, ParserTakes
    <3> QED BY <2>4, <3>2 DEF n, b
  <2>5. CASE n + 1 # FrameBytes
    <3>1. parser' = [state |-> "payload", frame |-> SubSeq(w, 1, n + 1)] /\ Delivered(b) = <<>>
      BY <1>1, <1>3, <2>1, <2>2, <2>3, <2>5, ParserTakes
    <3> QED BY <1>1, <1>4, <1>7, <2>5, <3>1 DEF n, b
  <2> QED BY <2>4, <2>5
<1> QED BY <1>5, <1>6, <1>7 DEF InStep, w, n

\* Out of step in a frame without further header bytes, the parser comes into step with
\* its second byte, or has nothing left of what it held when the frame ends.
LEMMA StaysOutOfStep ==
  ASSUME ParserInv, LineInv, SendByte, OutOfStep(Sent), HeaderFree
  PROVE  IF Sent + 1 = FrameBytes THEN parser' = [state |-> "header1", frame |-> <<>>]
         ELSE InStep(Sent)' \/ OutOfStep(Sent)'
<1> DEFINE w == Frame(payload)
           n == Sent
           b == Head(sending)
           nothing == [state |-> "header1", frame |-> <<>>]
<1>1. /\ payload \in Payloads /\ payload' = payload /\ n \in 0..(FrameBytes - 1)
      /\ b = w[n + 1] /\ b \in LineBytes /\ Sent' = n + 1
  BY ByteSent
<1>2. w[1] = Header /\ w[2] = Header /\ FrameBytes \in Nat /\ FrameBytes >= 4
  BY <1>1, FrameFacts
<1>3. PushByte(b)
  BY DEF SendByte
<1>4. n >= 2 => b # Header
  <2> SUFFICES ASSUME n >= 2 PROVE b # Header
    OBVIOUS
  <2>1. n + 1 \in 3..FrameBytes
    BY <1>1, <1>2
  <2> QED BY <1>1, <2>1 DEF HeaderFree
<1>5. n < 2 => b = Header
  <2>1. n < 2 => n + 1 = 1 \/ n + 1 = 2
    BY <1>1
  <2> QED BY <1>1, <1>2, <2>1
<1>6. /\ b = Header => Searching(b) = [state |-> "header2", frame |-> <<Header>>]
      /\ b # Header => Searching(b) = nothing
  BY DEF Searching
<1>7. OutOfStep(Sent)' <=>
        \/ parser'.state = "payload" /\ Len(parser'.frame) > n + 1
        \/ parser'.state = "header2" /\ n + 1 <= 2
        \/ parser'.state = "header1" /\ (n + 1 = 0 \/ n + 1 >= 3)
  BY <1>1 DEF OutOfStep
<1>8. n + 1 = FrameBytes => n >= 3
  BY <1>1, <1>2
<1>9. n \in Nat
  BY <1>1, <1>2
<1>10. /\ n = Sent /\ b = Head(sending)
  OBVIOUS
<1> HIDE DEF w, n, b
<1>11. ASSUME parser' = Searching(b), n >= 2 PROVE parser' = nothing /\ OutOfStep(Sent)'
  <2>1. parser' = nothing
    BY <1>4, <1>6, <1>11
  <2>2. parser'.state = "header1" /\ n + 1 >= 3
    BY <1>9, <1>11, <2>1
  <2> QED BY <1>7, <2>1, <2>2, Zenon
<1>12. ASSUME parser' = Searching(b), n < 2 PROVE OutOfStep(Sent)'
  <2>1. parser'.state = "header2" /\ n + 1 <= 2
    BY <1>5, <1>6, <1>9, <1>12
  <2> QED BY <1>7, <2>1, Zenon
<1>13. CASE parser.state = "header1" /\ (n = 0 \/ n >= 3)
  <2>1. parser' = Searching(b)
    BY <1>1, <1>3, <1>13, ParserTakes
  <2>2. CASE n = 0
    BY <1>8, <1>10, <1>12, <2>1, <2>2
  <2>3. CASE n >= 3
    BY <1>9, <1>10, <1>11, <2>1, <2>3
  <2> QED BY <1>13, <2>2, <2>3
<1>14. CASE parser.state = "header2" /\ n <= 2
  <2>1. /\ parser = [state |-> "header2", frame |-> <<Header>>]
        /\ parser' = IF b = Header THEN [state |-> "payload", frame |-> <<Header, Header>>]
                     ELSE Searching(b)
    BY <1>1, <1>3, <1>14, ParserTakes
  <2>2. CASE n = 0
    <3>1. b = Header /\ n + 1 = 1
      BY <1>5, <2>2
    <3>2. parser'.state = "payload" /\ parser'.frame = <<Header, Header>>
      BY <2>1, <3>1
    <3>3. Len(parser'.frame) > n + 1
      BY <3>1, <3>2
    <3>4. OutOfStep(Sent)'
      BY <1>7, <3>2, <3>3, Zenon
    <3> QED BY <1>8, <1>10, <2>2, <3>4
  <2>3. CASE n = 1
    <3>1. InStep(Sent)
      BY <1>10, <2>1, <2>3 DEF InStep
    <3>2. Sent + 1 # FrameBytes
      BY <1>8, <1>10, <2>3
    <3> QED BY <3>1, <3>2, StaysInStep
  <2>4. CASE n = 2
    <3>1. parser' = Searching(b) /\ n >= 2 /\ n + 1 # FrameBytes
      BY <1>4, <1>8, <2>1, <2>4
    <3> QED BY <1>10, <1>11, <3>1
  <2> QED BY <1>9, <1>14, <2>2, <2>3, <2>4
<1>15. CASE parser.state = "payload" /\ Len(parser.frame) > n
  <2>1. Len(parser.frame) \in 2..(FrameBytes - 1) /\ Len(Collect(b)) = Len(parser.frame) + 1
    BY <1>1, <1>3, <1>15, ParserTakes
  <2>2. n + 1 # FrameBytes
    BY <1>2, <1>9, <1>15, <2>1
  <2>3. CASE Len(parser.frame) + 1 = FrameBytes
    <3>1. parser' = Searching(b)
      BY <1>1, <1>3, <1>15, <2>3, ParserTakes
    <3>2. n >= 2 \/ n < 2
      BY <1>9
    <3> QED BY <1>10, <1>11, <1>12, <2>2, <3>1, <3>2
  <2>4. CASE Len(parser.frame) + 1 # FrameBytes
    <3>1. parser' = [state |-> "payload", frame |-> Collect(b)]
      BY <1>1, <1>3, <1>15, <2>4, ParserTakes
    <3>2. parser'.state = "payload" /\ parser'.frame = Collect(b)
      BY <3>1
    <3>3. Len(parser'.frame) > n + 1
      BY <1>2, <1>9, <1>15, <2>1, <3>2
    <3>4. OutOfStep(Sent)'
      BY <1>7, <3>2, <3>3, Zenon
    <3> QED BY <1>10, <2>2, <3>4
  <2> QED BY <2>3, <2>4
<1> QED BY <1>10, <1>13, <1>14, <1>15 DEF OutOfStep

\* The sensor's next byte, parsed.
LEMMA SendKeepsStep ==
  ASSUME FramesInv, SendByte
  PROVE  FramesInv'
<1> DEFINE b == Head(sending)
           nothing == [state |-> "header1", frame |-> <<>>]
<1>1. ParserInv /\ LineInv /\ StepInv /\ Resynchronises
  BY DEF FramesInv
<1>2. /\ payload' = payload /\ b \in LineBytes /\ Sent' = Sent + 1 /\ LineInv'
      /\ sending' = <<>> <=> Sent + 1 = FrameBytes
      /\ payload \in Payloads /\ Sent \in 0..(FrameBytes - 1)
  BY <1>1, ByteSent
<1>3. /\ sending # <<>> /\ PushByte(b) /\ parsed' = parsed \o Delivered(b)
      /\ plain' = IF sending' = <<>> THEN PlainAfter ELSE plain
      /\ disturbed' = disturbed
  BY DEF SendByte
<1>4. ParserInv'
  BY <1>1, <1>2, <1>3, ParserKept
<1>5. HeaderFree' = HeaderFree
  BY <1>2 DEF HeaderFree, FrameBytes, Frame, Body, Checksum
<1> HIDE DEF b
<1>6. /\ plain \in 0..2 /\ (~disturbed /\ HeaderFree => InStep(Sent) \/ OutOfStep(Sent))
      /\ plain > 0 => InStep(Sent) /\ parsed = <<>> /\ ~disturbed
  BY <1>1, <1>3 DEF StepInv
<1>7. CASE sending' # <<>>
  <2>1. plain' = plain /\ Sent + 1 # FrameBytes
    BY <1>2, <1>3, <1>7
  <2>2. ~disturbed /\ HeaderFree => InStep(Sent)' \/ OutOfStep(Sent)'
    BY <1>1, <1>6, <2>1, StaysInStep, StaysOutOfStep
  <2>3. ASSUME plain > 0 PROVE InStep(Sent)' /\ parsed' = <<>>
    <3>1. InStep(Sent)' /\ Delivered(b) = <<>>
      BY <1>1, <1>6, <2>1, <2>3, StaysInStep DEF b
    <3> QED BY <1>3, <1>6, <2>3, <3>1
  <2>4. StepInv'
    BY <1>3, <1>5, <1>6, <1>7, <2>1, <2>2, <2>3 DEF StepInv
  <2> QED BY <1>2, <1>4, <1>7, <2>4 DEF FramesInv, Resynchronises
<1>8. CASE sending' = <<>>
  <2>1. plain' = PlainAfter /\ Sent + 1 = FrameBytes
    BY <1>2, <1>3, <1>8
  <2>2. plain' \in 0..2 /\ (plain' > 0 => ~disturbed /\ HeaderFree)
        /\ (plain' = 2 => plain > 0)
    BY <1>6, <2>1 DEF PlainAfter
  <2>3. ASSUME plain' > 0 PROVE parser' = nothing
    <3>1. CASE InStep(Sent)
      <4>1. parser' = Searching(b)
        BY <1>1, <2>1, <3>1, StaysInStep DEF b
      <4>2. b # Header
        <5>1. b = Frame(payload)[FrameBytes] /\ FrameBytes \in Nat /\ FrameBytes >= 4
          BY <1>1, <2>1, ByteSent, FrameFacts DEF b
        <5>2. FrameBytes \in 3..FrameBytes
          BY <5>1
        <5> QED BY <2>2, <2>3, <5>1, <5>2 DEF HeaderFree
      <4> QED BY <4>1, <4>2 DEF Searching
    <3>2. CASE OutOfStep(Sent)
      BY <1>1, <2>1, <2>2, <2>3, <3>2, StaysOutOfStep
    <3> QED BY <1>6, <2>2, <2>3, <3>1, <3>2
  <2>4. ASSUME plain' = 2 PROVE parsed' = <<payload'>>
    <3>1. InStep(Sent) /\ parsed = <<>>
      BY <1>6, <2>2, <2>4
    <3>2. Delivered(b) = <<payload>>
      BY <1>1, <2>1, <3>1, StaysInStep DEF b
    <3> QED BY <1>2, <1>3, <3>1, <3>2
  <2>5. StepInv'
    BY <1>8, <2>2, <2>3 DEF StepInv
  <2>6. Resynchronises'
    BY <2>4 DEF Resynchronises
  <2> QED BY <1>2, <1>4, <2>5, <2>6 DEF FramesInv
<1> QED BY <1>7, <1>8

\* A new frame begins with the parser in step, or out of step.
LEMMA BeginKeepsStep ==
  ASSUME FramesInv, BeginFrame
  PROVE  FramesInv'
<1>1. /\ ParserInv /\ StepInv /\ sending = <<>>
      /\ parsed' = <<>> /\ disturbed' = FALSE /\ UNCHANGED <<parser, plain, noise>>
  BY DEF FramesInv, BeginFrame
<1>2. PICK p \in Payloads : payload' = [i \in 1..PayloadBytes |-> p[i]] /\ sending' = Frame(p)
  BY DEF BeginFrame
<1>3. payload' = p
  BY <1>2 DEF Payloads
<1>4. /\ Frame(p) \in Seq(LineBytes) /\ Len(Frame(p)) = FrameBytes
      /\ FrameBytes \in Nat /\ FrameBytes >= 4
  BY FrameFacts
<1>5. sending' # <<>> /\ Sent' = 0
  <2>1. Len(sending') = FrameBytes
    BY <1>2, <1>4
  <2>2. Sent' = FrameBytes - Len(sending')
    BY DEF Sent, FrameBytes
  <2> QED BY <1>4, <2>1, <2>2
<1>6. ParserInv'
  BY <1>1 DEF ParserInv, FrameBytes, LineBytes, Bytes, Payloads, Body, Checksum
<1>7. LineInv'
  <2>1. Frame(p) = SubSeq(Frame(p), 0 + 1, FrameBytes)
    BY <1>4, SubSeqFull
  <2>2. 0 \in 0..(FrameBytes - 1)
    BY <1>4
  <2>3. payload' \in Payloads /\ Sent' \in 0..(FrameBytes - 1)
        /\ sending' = SubSeq(Frame(payload'), Sent' + 1, FrameBytes)
    BY <1>2, <1>3, <1>5, <2>1, <2>2
  <2> QED BY <2>3 DEF LineInv, FrameBytes, Payloads, Bytes, Frame, Body, Checksum
<1>8. StepInv'
  <2>1. InStep(Sent)' \/ OutOfStep(Sent)'
    <3>1. CASE parser = [state |-> "header1", frame |-> <<>>]
      BY <1>1, <1>5, <3>1 DEF InStep
    <3>2. CASE parser = [state |-> "header2", frame |-> <<Header>>]
      <4>1. parser'.state = "header2" /\ Sent' <= 2
        BY <1>1, <1>5, <3>2
      <4> QED BY <4>1 DEF OutOfStep
    <3>3. CASE /\ parser = [state |-> "payload", frame |-> parser.frame]
               /\ Len(parser.frame) \in 2..(FrameBytes - 1)
      <4>1. parser'.state = "payload"
        BY <1>1, <3>3
      <4>2. Len(parser'.frame) > Sent'
        BY <1>1, <1>4, <1>5, <3>3
      <4> QED BY <4>1, <4>2 DEF OutOfStep
    <3> QED BY <1>1, <3>1, <3>2, <3>3 DEF ParserInv
  <2>2. plain > 0 => InStep(Sent)'
    BY <1>1, <1>5 DEF StepInv, InStep
  <2> QED BY <1>1, <1>5, <2>1, <2>2 DEF StepInv
<1>9. Resynchronises'
  BY <1>5 DEF Resynchronises
<1> QED BY <1>6, <1>7, <1>8, <1>9 DEF FramesInv

\* Bytes the line loses or adds: the parser has to find a frame again.
LEMMA DisturbKeepsStep ==
  ASSUME FramesInv, LoseByte \/ AddByte
  PROVE  FramesInv'
<1>1. ParserInv /\ LineInv
  BY DEF FramesInv
<1>2. disturbed' = TRUE /\ plain' = 0
  BY DEF LoseByte, AddByte, Disturb
<1>3. StepInv' /\ Resynchronises'
  BY <1>2 DEF StepInv, Resynchronises
<1>4. CASE LoseByte
  <2>1. ParserInv'
    BY <1>1, <1>4 DEF LoseByte, ParserInv, FrameBytes, LineBytes, Bytes, Payloads, Body, Checksum
  <2> QED BY <1>1, <1>3, <1>4, <2>1, ByteSent DEF FramesInv
<1>5. CASE AddByte
  <2>1. PICK byte \in Bytes : PushByte(byte)
    BY <1>5 DEF AddByte
  <2>2. ParserInv'
    BY <1>1, <2>1, ParserKept DEF LineBytes
  <2>3. UNCHANGED <<sending, payload>>
    BY <1>5 DEF AddByte
  <2>4. LineInv'
    BY <1>1, <2>3 DEF LineInv, Sent, FrameBytes, Payloads, Bytes, Frame, Body, Checksum
  <2> QED BY <1>3, <2>2, <2>4 DEF FramesInv
<1> QED BY <1>4, <1>5

\* Whatever the line loses or adds, and however long a frame is, the second undisturbed
\* frame without further header bytes is delivered, once and as it was sent.
THEOREM ParserAlwaysResynchronises == FramesSpec => []Resynchronises
<1>1. FramesInit => FramesInv
  BY DEF FramesInit, FramesInv, ParserInv, LineInv, StepInv, Resynchronises
<1>2. FramesInv /\ UNCHANGED frameVars => FramesInv'
  <2> SUFFICES ASSUME FramesInv, UNCHANGED frameVars PROVE FramesInv'
    OBVIOUS
  <2>1. UNCHANGED <<parser, sending, payload, parsed, plain, disturbed>>
    BY DEF frameVars
  <2>2. Sent' = Sent /\ (InStep(Sent)' <=> InStep(Sent)) /\ (OutOfStep(Sent)' <=> OutOfStep(Sent))
    BY <2>1 DEF Sent, InStep, OutOfStep
  <2>3. HeaderFree' <=> HeaderFree
    BY <2>1 DEF HeaderFree
  <2>4. (ParserInv' <=> ParserInv) /\ (LineInv' <=> LineInv)
    BY <2>1, <2>2 DEF ParserInv, LineInv
  <2>5. (StepInv' <=> StepInv) /\ (Resynchronises' <=> Resynchronises)
    BY <2>1, <2>2, <2>3 DEF StepInv, Resynchronises
  <2> QED BY <2>4, <2>5 DEF FramesInv
<1>3. FramesInv /\ [FramesNext]_frameVars => FramesInv'
  BY <1>2, BeginKeepsStep, SendKeepsStep, DisturbKeepsStep DEF FramesNext
<1>4. FramesInv => Resynchronises
  BY DEF FramesInv
<1> QED BY <1>1, <1>3, <1>4, PTL DEF FramesSpec

-----------------------------------------------------------------------------
(* The age of a measurement *)

Waiting == [born : 0..Old, signalOk : BOOLEAN]
Measurements == [born : 0..Old, captured : 0..Old, signalOk : BOOLEAN]

\* The frame at place i has seen j services go by, no more than the buffer has room for,
\* and came in the time before the first of them.
Waited(i) ==
  \E j \in Nat : /\ i + j * BudgetFrames <= BufferFrames
                 /\ fifo[i].born < j * Period + sinceService

\* A measurement had waited in the buffer for some services when it was stamped; one that
\* was judged healthy was not stale then.
LinkInv ==
  /\ sinceService \in 0..Period /\ lag \in Nat /\ lag <= sinceService /\ lag <= MaxStall
  /\ fifo \in Seq(Waiting) /\ Len(fifo) <= BufferFrames
  /\ latest \subseteq Measurements /\ \A x, y \in latest : x = y
  /\ \A i \in 1..Len(fifo) : Waited(i)
  /\ \A m \in latest : m.born < m.captured + Services * Period
  /\ linkHealth = "OK" => \A m \in latest : m.captured <= FrameStale + sinceService

\* Products of natural numbers.
LEMMA Products ==
  /\ \A x, y \in Nat : x * y \in Nat
  /\ \A x, y, z \in Nat : x <= y => x * z <= y * z
  /\ \A x, z \in Nat : (x + 1) * z = x * z + z
<1>1. \A x, y \in Nat : x * y \in Nat
  OBVIOUS
<1>2. \A x, y, z \in Nat : x <= y => x * z <= y * z
  <2> SUFFICES ASSUME NEW x \in Nat, NEW y \in Nat, NEW z \in Nat, x <= y
               PROVE  x * z <= y * z
    OBVIOUS
  <2> DEFINE d == y - x
  <2>1. d \in Nat /\ y = x + d
    OBVIOUS
  <2> HIDE DEF d
  <2>2. (x + d) * z = x * z + d * z
    BY <2>1
  <2>3. x * z \in Nat /\ d * z \in Nat
    BY <2>1
  <2> QED BY <2>1, <2>2, <2>3
<1>3. \A x, z \in Nat : (x + 1) * z = x * z + z
  OBVIOUS
<1> QED BY <1>1, <1>2, <1>3

\* The constants: a full buffer is read in Services services, and a frame that is read has
\* seen fewer go by.
LEMMA LinkConstants ==
  /\ BufferFrames \in Nat /\ BudgetFrames \in Nat /\ BudgetFrames >= 1 /\ BufferFrames >= 1
  /\ ServiceEvery \in Nat /\ FrameStale \in Nat
  /\ Period \in Nat /\ Period >= 1 /\ ServiceEvery <= Period
  /\ Services \in Nat /\ Services * Period \in Nat /\ Services * Period >= 1
  /\ Old \in Nat /\ MaxStall \in Nat /\ Period = ServiceEvery + MaxStall /\ Period <= Old
  /\ (Services + 1) * Period = Services * Period + Period
  /\ \A j \in Nat : 1 + j * BudgetFrames <= BufferFrames => j + 1 <= Services
<1>1. /\ BufferFrames \in Nat /\ BudgetFrames \in Nat /\ BudgetFrames >= 1 /\ BufferFrames >= 1
      /\ ServiceEvery \in Nat /\ ServiceEvery >= 1 /\ FrameStale \in Nat /\ MaxStall \in Nat
  BY LidarLinkAssumption
<1>2. Period \in Nat /\ Period >= 1 /\ ServiceEvery <= Period
  BY <1>1 DEF Period
<1> DEFINE b == BufferFrames + BudgetFrames - 1
<1>3. b \in Nat /\ b = BufferFrames + BudgetFrames - 1
  BY <1>1
<1> HIDE DEF b
<1>4. Services = b \div BudgetFrames
  BY DEF Services, b
<1>5. \A q \in Nat : q * BudgetFrames <= b => q <= b \div BudgetFrames
  BY <1>1, <1>3
<1>6. Services \in Nat
  BY <1>1, <1>3, <1>4
<1>7. \A j \in Nat : 1 + j * BudgetFrames <= BufferFrames => j + 1 <= Services
  <2> SUFFICES ASSUME NEW j \in Nat, 1 + j * BudgetFrames <= BufferFrames
               PROVE  j + 1 <= Services
    OBVIOUS
  <2>1. (j + 1) * BudgetFrames = j * BudgetFrames + BudgetFrames /\ j * BudgetFrames \in Nat
    BY <1>1, Products
  <2>2. (j + 1) * BudgetFrames <= b
    BY <1>1, <1>3, <2>1
  <2> QED BY <1>4, <1>5, <2>2
<1>8. Services >= 1
  <2>1. 0 * BudgetFrames = 0
    BY <1>1
  <2> QED BY <1>1, <1>6, <1>7, <2>1
<1>9. Services * Period \in Nat /\ Services * Period >= 1
  <2>1. 1 * Period <= Services * Period /\ 1 * Period = Period
    BY <1>2, <1>6, <1>8, Products
  <2> QED BY <1>2, <1>6, <2>1, Products
<1>10. (Services + 1) * Period = Services * Period + Period
  BY <1>2, <1>6, Products
<1>11. Old \in Nat /\ Period <= Old
  <2> DEFINE y == Services * Period
  <2>1. y \in Nat /\ Old = 4 * FrameStale + (y + Period) + 1
    BY <1>9, <1>10 DEF Old
  <2> HIDE DEF y
  <2> QED BY <1>1, <1>2, <2>1
<1>12. MaxStall \in Nat /\ Period = ServiceEvery + MaxStall
  BY <1>1 DEF Period
<1> QED BY <1>1, <1>2, <1>6, <1>7, <1>9, <1>10, <1>11, <1>12

\* What they are.
LEMMA LinkNumbers ==
  /\ BufferFrames \in Nat /\ BudgetFrames \in Nat /\ BudgetFrames >= 1 /\ BufferFrames >= 1
  /\ ServiceEvery \in Nat /\ ServiceEvery <= Period /\ FrameStale \in Nat
  /\ Period \in Nat /\ Period >= 1 /\ Services \in Nat /\ Old \in Nat
  /\ MaxStall \in Nat /\ Period = ServiceEvery + MaxStall /\ Period <= Old
BY LinkConstants

\* Frames and measurements get older.
LEMMA Ageing ==
  /\ \A a \in 0..Old : Later(a) \in 0..Old /\ Later(a) <= a + 1 /\ (a < Old => Later(a) = a + 1)
  /\ \A f \in Waiting : LET g == [f EXCEPT !.born = Later(@)]
                        IN g \in Waiting /\ g.born = Later(f.born)
  /\ \A m \in Measurements : LET n == [m EXCEPT !.born = Later(@), !.captured = Later(@)]
                             IN /\ n \in Measurements
                                /\ n.born = Later(m.born) /\ n.captured = Later(m.captured)
<1>1. \A a \in 0..Old : Later(a) \in 0..Old /\ Later(a) <= a + 1 /\ (a < Old => Later(a) = a + 1)
  BY LinkConstants DEF Later
<1>2. \A f \in Waiting : LET g == [f EXCEPT !.born = Later(@)]
                         IN g \in Waiting /\ g.born = Later(f.born)
  BY <1>1 DEF Waiting
<1>3. \A m \in Measurements : LET n == [m EXCEPT !.born = Later(@), !.captured = Later(@)]
                              IN /\ n \in Measurements
                                 /\ n.born = Later(m.born) /\ n.captured = Later(m.captured)
  BY <1>1 DEF Measurements
<1> QED BY <1>1, <1>2, <1>3

\* A healthy measurement was not stale at the time the loop had read.
LEMMA HealthyIsFresh ==
  ASSUME lag \in Nat, latest' \subseteq Measurements, \A x, y \in latest' : x = y,
         linkHealth' = HealthOf(latest')
  PROVE  linkHealth' = "OK" => \A m \in latest' : m.captured <= FrameStale + lag
<1> SUFFICES ASSUME linkHealth' = "OK", NEW m \in latest' PROVE m.captured <= FrameStale + lag
  OBVIOUS
<1> DEFINE l == latest'
           c == CHOOSE x \in l : TRUE
<1>1. c = m
  <2>1. \E x \in l : TRUE
    OBVIOUS
  <2>2. c \in l
    BY <2>1, Zenon
  <2> QED BY <2>2
<1>2. HealthOf(l) = IF l = {} THEN "DEGRADED"
                    ELSE IF c.captured > 4 * FrameStale + lag THEN "FAULT"
                         ELSE IF c.captured > FrameStale + lag \/ ~c.signalOk
                                THEN "DEGRADED" ELSE "OK"
  BY DEF HealthOf
<1>3. m.captured \in Nat /\ FrameStale \in Nat
  BY LinkNumbers DEF Measurements
<1> HIDE DEF c
<1>4. ~(m.captured > FrameStale + lag)
  BY <1>1, <1>2
<1> QED BY <1>3, <1>4

\* The first frame of the buffer has seen no more services than a full buffer takes.
LEMMA ReadInTime ==
  ASSUME LinkInv, NEW k \in 1..Len(fifo)
  PROVE  fifo[k].born < Services * Period
<1>1. PICK j \in Nat : k + j * BudgetFrames <= BufferFrames
                       /\ fifo[k].born < j * Period + sinceService
  BY DEF LinkInv, Waited
<1>2. k \in Nat /\ k >= 1 /\ sinceService \in Nat /\ sinceService <= Period
  BY LinkNumbers DEF LinkInv
<1>3. fifo[k].born \in Nat
  <2>1. fifo[k] \in Waiting
    BY DEF LinkInv
  <2> QED BY <2>1, LinkNumbers DEF Waiting
<1>4. j * BudgetFrames \in Nat /\ j * Period \in Nat
  BY LinkNumbers, Products
<1>5. 1 + j * BudgetFrames <= BufferFrames
  <2> DEFINE w == j * BudgetFrames
  <2>1. w \in Nat /\ k + w <= BufferFrames
    BY <1>1, <1>4
  <2> HIDE DEF w
  <2>2. 1 + w <= BufferFrames
    BY <1>2, <2>1, LinkNumbers
  <2> QED BY <2>2 DEF w
<1>6. j + 1 <= Services
  BY <1>5, LinkConstants
<1>7. (j + 1) * Period <= Services * Period /\ (j + 1) * Period = j * Period + Period
      /\ Services * Period \in Nat
  BY <1>6, LinkNumbers, Products
<1> DEFINE x == j * Period
           y == Services * Period
<1>8. /\ x \in Nat /\ y \in Nat /\ x + Period <= y /\ fifo[k].born < x + sinceService
  BY <1>1, <1>4, <1>7
<1> HIDE DEF x, y
<1>9. fifo[k].born < y
  BY <1>2, <1>3, <1>8, LinkNumbers
<1> QED BY <1>9 DEF y

\* A unit of time passes and a frame may come.
LEMMA TimeKeepsAges ==
  ASSUME LinkInv, LinkTime
  PROVE  LinkInv'
<1> DEFINE older == [i \in DOMAIN fifo |-> [fifo[i] EXCEPT !.born = Later(@)]]
<1>1. sinceService < Period /\ sinceService' = sinceService + 1 /\ linkHealth' = linkHealth
  BY DEF LinkTime
<1>2. PICK arrived \in {<<>>} \union {<<[born |-> 0, signalOk |-> ok]>> : ok \in BOOLEAN} :
        fifo' = older \o (IF Len(fifo) < BufferFrames THEN arrived ELSE <<>>)
  BY DEF LinkTime
<1>3. /\ sinceService \in Nat /\ fifo \in Seq(Waiting) /\ Len(fifo) <= BufferFrames
      /\ latest \subseteq Measurements
  BY LinkNumbers DEF LinkInv
<1>4. /\ sinceService' \in 0..Period /\ sinceService' \in Nat /\ sinceService' >= 1
      /\ lag' \in Nat /\ lag' <= sinceService' /\ lag' <= MaxStall
  <2>1. lag' = lag + 1 /\ lag < MaxStall /\ lag \in Nat /\ lag <= sinceService
    BY DEF LinkTime, LinkInv
  <2> QED BY <1>1, <1>3, <2>1, LinkNumbers
<1>5. /\ older \in Seq(Waiting) /\ Len(older) = Len(fifo)
      /\ \A i \in 1..Len(fifo) : older[i].born = Later(fifo[i].born)
  <2> DEFINE g(i) == [fifo[i] EXCEPT !.born = Later(@)]
  <2>1. ASSUME NEW i \in 1..Len(fifo) PROVE g(i) \in Waiting /\ g(i).born = Later(fifo[i].born)
    <3>1. fifo[i] \in Waiting
      BY <1>3
    <3> QED BY <3>1, Ageing
  <2>2. DOMAIN fifo = 1..Len(fifo) /\ Len(fifo) \in Nat
    BY <1>3
  <2>3. older = [i \in 1..Len(fifo) |-> g(i)]
    BY <2>2
  <2> HIDE DEF g, older
  <2> QED BY <2>1, <2>2, <2>3
<1> HIDE DEF older
<1>6. /\ fifo' \in Seq(Waiting) /\ Len(fifo') <= BufferFrames
      /\ Len(fifo') = Len(fifo) \/ Len(fifo') = Len(fifo) + 1
      /\ \A i \in 1..Len(fifo) : fifo'[i] = older[i]
      /\ Len(fifo') = Len(fifo) + 1 => fifo'[Len(fifo) + 1].born = 0
  <2> DEFINE new == IF Len(fifo) < BufferFrames THEN arrived ELSE <<>>
  <2>1. CASE new = <<>>
    <3>1. fifo' = older
      BY <1>2, <1>5, <2>1
    <3> QED BY <1>3, <1>5, <3>1
  <2>2. CASE new # <<>>
    <3>1. Len(fifo) < BufferFrames /\ new = arrived
      BY <2>2
    <3>2. PICK ok \in BOOLEAN : new = <<[born |-> 0, signalOk |-> ok]>>
      BY <2>2, <3>1
    <3> DEFINE f == [born |-> 0, signalOk |-> ok]
    <3>3. f \in Waiting /\ f.born = 0
      BY LinkNumbers DEF Waiting
    <3>4. fifo' = older \o <<f>>
      BY <1>2, <3>2
    <3> HIDE DEF f
    <3>5. fifo' = Append(older, f)
      BY <1>5, <3>3, <3>4, AppendIsConcat
    <3>6. /\ fifo' \in Seq(Waiting) /\ Len(fifo') = Len(fifo) + 1
          /\ \A i \in 1..Len(fifo) : fifo'[i] = older[i]
          /\ fifo'[Len(fifo) + 1] = f
      BY <1>5, <3>3, <3>5, AppendProperties
    <3>7. Len(fifo) + 1 <= BufferFrames
      BY <1>3, <3>1, LinkNumbers
    <3> QED BY <3>3, <3>6, <3>7
  <2> QED BY <2>1, <2>2
<1>7. latest' = {[m EXCEPT !.born = Later(@), !.captured = Later(@)] : m \in latest}
  BY DEF LinkTime
<1>8. ASSUME NEW i \in 1..Len(fifo') PROVE Waited(i)'
  <2> DEFINE d == sinceService'
             new == fifo'[i].born
             old == fifo[i].born
  <2>1. SUFFICES \E j \in Nat : i + j * BudgetFrames <= BufferFrames /\ new < j * Period + d
    BY DEF Waited, Period
  <2>2. CASE i \in 1..Len(fifo)
    <3>1. Waited(i) /\ fifo[i] \in Waiting
      BY <1>3, <2>2 DEF LinkInv
    <3>2. PICK j \in Nat : i + j * BudgetFrames <= BufferFrames /\ old < j * Period + sinceService
      BY <3>1 DEF Waited
    <3>3. old \in 0..Old /\ new = Later(old)
      BY <1>5, <1>6, <2>2, <3>1 DEF Waiting
    <3>4. new \in 0..Old /\ new <= old + 1
      BY <3>3, Ageing
    <3> DEFINE x == j * Period
    <3>5. x \in Nat /\ old < x + sinceService /\ d = sinceService + 1
      BY <1>1, <3>2, LinkNumbers, Products
    <3> HIDE DEF x, new, old, d
    <3>6. new < x + d
      BY <1>3, <3>3, <3>4, <3>5, LinkNumbers
    <3> QED BY <3>2, <3>6 DEF x
  <2>3. CASE i \notin 1..Len(fifo)
    <3>1. i = Len(fifo) + 1 /\ Len(fifo') = Len(fifo) + 1
      BY <1>3, <1>6, <2>3
    <3>2. new = 0 /\ i <= BufferFrames /\ i \in Nat /\ d \in Nat /\ d >= 1
      BY <1>3, <1>4, <1>6, <3>1
    <3> HIDE DEF new, d
    <3>3. 0 * BudgetFrames = 0 /\ 0 * Period = 0 /\ i + 0 <= BufferFrames /\ new < 0 + d
      BY <3>2, LinkNumbers
    <3> QED BY <3>3
  <2> QED BY <2>2, <2>3
<1>9. latest' \subseteq Measurements /\ \A x, y \in latest' : x = y
  <2>1. latest' \subseteq Measurements
    BY <1>3, <1>7, Ageing
  <2>2. \A x, y \in latest : x = y
    BY DEF LinkInv
  <2> QED BY <1>7, <2>1, <2>2
<1>10. ASSUME NEW n \in latest'
       PROVE  /\ n.born < n.captured + Services * Period
              /\ linkHealth' = "OK" => n.captured <= FrameStale + sinceService'
  <2>1. PICK m \in latest : n = [m EXCEPT !.born = Later(@), !.captured = Later(@)]
    BY <1>7
  <2>2. /\ m \in Measurements /\ n \in Measurements
        /\ n.born = Later(m.born) /\ n.captured = Later(m.captured)
    BY <1>3, <2>1, Ageing
  <2> DEFINE mb == m.born
             mc == m.captured
             nb == n.born
             nc == n.captured
             y == Services * Period
  <2>3. mb \in 0..Old /\ mc \in 0..Old /\ nb \in 0..Old /\ nc \in 0..Old
    BY <2>2 DEF Measurements
  <2>4. nb <= mb + 1 /\ nc <= mc + 1 /\ (mc < Old => nc = mc + 1)
    BY <2>2, <2>3, Ageing
  <2>5. mc = Old => nc = Old
    BY <2>2 DEF Later
  <2>6. mb < mc + y /\ (linkHealth = "OK" => mc <= FrameStale + sinceService)
    BY DEF LinkInv
  <2>7. y \in Nat /\ y >= 1
    BY LinkConstants
  <2> HIDE DEF mb, mc, nb, nc, y
  <2>8. nb < nc + y
    <3>1. CASE mc < Old
      BY <2>3, <2>4, <2>6, <2>7, <3>1, LinkNumbers
    <3>2. CASE mc = Old
      BY <2>3, <2>5, <2>7, <3>2, LinkNumbers
    <3> QED BY <2>3, <3>1, <3>2, LinkNumbers
  <2>9. linkHealth' = "OK" => nc <= FrameStale + sinceService'
    BY <1>1, <1>3, <2>3, <2>4, <2>6, LinkNumbers
  <2> QED BY <2>8, <2>9 DEF nb, nc, y
<1> QED BY <1>4, <1>6, <1>8, <1>9, <1>10 DEF LinkInv, Waiting, Measurements, Old, Services, Period

\* What is measured now had waited for some services, and no longer.
LEMMA MeasuredInTime ==
  ASSUME LinkInv, NEW k \in 1..Len(fifo), NEW ok \in BOOLEAN
  PROVE  /\ Measured(fifo[k], ok) \subseteq Measurements
         /\ \A x, y \in Measured(fifo[k], ok) : x = y
         /\ \A m \in Measured(fifo[k], ok) :
              m.captured = lag /\ m.born < m.captured + Services * Period
<1> DEFINE m == [born |-> fifo[k].born, captured |-> lag, signalOk |-> ok]
           y == Services * Period
<1>1. fifo[k] \in Waiting /\ fifo[k].born < y
  BY ReadInTime DEF LinkInv
<1>2. lag \in 0..Old
  BY LinkNumbers DEF LinkInv
<1>3. m \in Measurements /\ m.captured = lag /\ m.born = fifo[k].born /\ m.born \in Nat
  BY <1>1, <1>2, LinkNumbers DEF Waiting, Measurements
<1>4. Measured(fifo[k], ok) = {m}
  BY DEF Measured
<1>5. y \in Nat /\ lag \in Nat
  BY LinkConstants DEF LinkInv
<1> HIDE DEF m, y
<1>6. m.born < m.captured + y
  BY <1>1, <1>3, <1>5
<1> QED BY <1>3, <1>4, <1>6 DEF y

\* A service takes the oldest frames from the buffer; the others have seen one more.
LEMMA ServiceKeepsWaiting ==
  ASSUME LinkInv, TickLidar
  PROVE  /\ fifo' \in Seq(Waiting) /\ Len(fifo') <= BufferFrames
         /\ \A i \in 1..Len(fifo') : Waited(i)'
<1> DEFINE t == Taken
<1>1. sinceService' = lag /\ fifo' = SubSeq(fifo, t + 1, Len(fifo)) /\ lag \in Nat
  BY DEF TickLidar, LinkInv
<1>2. fifo \in Seq(Waiting) /\ Len(fifo) <= BufferFrames /\ Len(fifo) \in Nat
  BY DEF LinkInv
<1>3. t \in 0..Len(fifo) /\ t \in Nat /\ (t = Len(fifo) \/ t = BudgetFrames)
  BY <1>2, LinkNumbers DEF Taken
<1> HIDE DEF t
<1>4. /\ fifo' \in Seq(Waiting) /\ Len(fifo') = Len(fifo) - t
      /\ \A i \in 1..(Len(fifo) - t) : fifo'[i] = fifo[i + t]
  BY <1>1, <1>2, <1>3, WithoutFirst
<1>5. Len(fifo') <= BufferFrames
  BY <1>2, <1>3, <1>4, LinkNumbers
<1>6. ASSUME NEW i \in 1..Len(fifo') PROVE Waited(i)'
  <2>1. t = BudgetFrames /\ i \in Nat /\ i + t \in 1..Len(fifo) /\ fifo'[i] = fifo[i + t]
    BY <1>2, <1>3, <1>4
  <2>2. Waited(i + t) /\ fifo[i + t] \in Waiting
    BY <1>2, <2>1 DEF LinkInv
  <2>3. PICK j \in Nat : /\ (i + t) + j * BudgetFrames <= BufferFrames
                         /\ fifo[i + t].born < j * Period + sinceService
    BY <2>2 DEF Waited
  <2> DEFINE new == fifo'[i].born
             x == j * Period
             w == j * BudgetFrames
  <2>4. new \in Nat
    BY <2>1, <2>2, LinkNumbers DEF Waiting
  <2>5. x \in Nat /\ w \in Nat
    BY LinkNumbers, Products
  <2>6. (j + 1) * BudgetFrames = w + BudgetFrames /\ (j + 1) * Period = x + Period
    BY LinkNumbers, Products
  <2>7. (i + t) + w <= BufferFrames /\ new < x + sinceService
    BY <2>1, <2>3
  <2>8. sinceService \in Nat /\ sinceService <= Period
    BY LinkNumbers DEF LinkInv
  <2> HIDE DEF new, x, w
  <2>9. i + (w + BudgetFrames) <= BufferFrames /\ new < (x + Period) + lag
    BY <1>1, <2>1, <2>4, <2>5, <2>7, <2>8, LinkNumbers
  <2>10. /\ i + (j + 1) * BudgetFrames <= BufferFrames
         /\ new < (j + 1) * Period + sinceService'
    BY <1>1, <2>6, <2>9
  <2>11. j + 1 \in Nat
    OBVIOUS
  <2> QED BY <2>10, <2>11 DEF Waited, Period, new
<1> QED BY <1>4, <1>5, <1>6

\* A service measures in time.
LEMMA ServiceKeepsAges ==
  ASSUME LinkInv, TickLidar
  PROVE  LinkInv'
<1>1. sinceService' = lag /\ lag' = lag /\ linkHealth' = HealthOf(latest') /\ lag \in Nat
  BY DEF TickLidar, LinkInv
<1>2. sinceService' \in 0..Period /\ lag' \in Nat /\ lag' <= sinceService' /\ lag' <= MaxStall
  BY <1>1, LinkNumbers DEF LinkInv
<1>3. latest' \subseteq Measurements /\ (\A x, y \in latest' : x = y)
      /\ \A m \in latest' : m.born < m.captured + Services * Period
  <2>1. Len(fifo) \in Nat /\ Taken <= Len(fifo) /\ Taken \in Nat
    <3>1. Len(fifo) \in Nat
      BY DEF LinkInv
    <3> QED BY <3>1, LinkNumbers DEF Taken
  <2>2. PICK k \in 0..Taken :
          latest' = IF k = 0 THEN latest ELSE Measured(fifo[k], fifo[k].signalOk)
    BY DEF TickLidar
  <2>3. CASE k = 0
    BY <2>2, <2>3 DEF LinkInv
  <2>4. CASE k # 0
    <3>1. k \in 1..Len(fifo)
      BY <2>1, <2>4
    <3>2. fifo[k].signalOk \in BOOLEAN
      <4>1. fifo[k] \in Waiting
        BY <3>1 DEF LinkInv
      <4> QED BY <4>1 DEF Waiting
    <3> QED BY <2>2, <2>4, <3>1, <3>2, MeasuredInTime
  <2> QED BY <2>3, <2>4
<1>4. linkHealth' = "OK" => \A m \in latest' : m.captured <= FrameStale + sinceService'
  BY <1>1, <1>3, HealthyIsFresh
<1> QED BY <1>2, <1>3, <1>4, ServiceKeepsWaiting
        DEF LinkInv, Waiting, Measurements, Old, Services, Period

\* A part of the buffer read outside the services: what is left has waited as before.
LEMMA RestKeepsWaiting ==
  ASSUME LinkInv, NEW t \in 0..Len(fifo), fifo' = SubSeq(fifo, t + 1, Len(fifo)),
         sinceService' = sinceService
  PROVE  /\ fifo' \in Seq(Waiting) /\ Len(fifo') <= BufferFrames
         /\ \A i \in 1..Len(fifo') : Waited(i)'
<1>1. fifo \in Seq(Waiting) /\ Len(fifo) <= BufferFrames /\ Len(fifo) \in Nat /\ t \in Nat
  BY DEF LinkInv
<1>2. /\ fifo' \in Seq(Waiting) /\ Len(fifo') = Len(fifo) - t
      /\ \A i \in 1..(Len(fifo) - t) : fifo'[i] = fifo[i + t]
  BY <1>1, WithoutFirst
<1>3. Len(fifo') <= BufferFrames
  BY <1>1, <1>2, LinkNumbers
<1>4. ASSUME NEW i \in 1..Len(fifo') PROVE Waited(i)'
  <2>1. i \in Nat /\ i + t \in 1..Len(fifo) /\ fifo'[i] = fifo[i + t]
    BY <1>1, <1>2
  <2>2. PICK j \in Nat : /\ (i + t) + j * BudgetFrames <= BufferFrames
                         /\ fifo[i + t].born < j * Period + sinceService
    BY <2>1 DEF LinkInv, Waited
  <2> DEFINE w == j * BudgetFrames
  <2>3. w \in Nat /\ (i + t) + w <= BufferFrames
    BY <2>2, LinkNumbers, Products
  <2> HIDE DEF w
  <2>4. i + w <= BufferFrames
    BY <1>1, <2>1, <2>3, LinkNumbers
  <2>5. i + j * BudgetFrames <= BufferFrames /\ fifo'[i].born < j * Period + sinceService'
    BY <2>1, <2>2, <2>4 DEF w
  <2> QED BY <2>5 DEF Waited, Period
<1> QED BY <1>2, <1>3, <1>4

\* A probe takes frames at any time: the one it measures had waited no longer than one
\* that a service reads, and it is stamped with a time that lies before the reading.
LEMMA ProbeKeepsAges ==
  ASSUME LinkInv, ProbeFails \/ ProbeReads
  PROVE  LinkInv'
<1>1. sinceService' = sinceService /\ lag' = lag
  BY DEF ProbeFails, ProbeReads
<1>2. sinceService' \in 0..Period /\ lag' \in Nat /\ lag' <= sinceService' /\ lag' <= MaxStall
  BY <1>1 DEF LinkInv, Period
<1>3. CASE ProbeFails
  <2>1. PICK gone \in 0..Len(fifo) : fifo' = SubSeq(fifo, gone + 1, Len(fifo))
    BY <1>3 DEF ProbeFails
  <2>2. latest' = latest /\ linkHealth' = "DEGRADED"
    BY <1>3 DEF ProbeFails
  <2>3. /\ fifo' \in Seq(Waiting) /\ Len(fifo') <= BufferFrames
        /\ \A i \in 1..Len(fifo') : Waited(i)'
    BY <1>1, <2>1, RestKeepsWaiting
  <2>4. /\ latest' \subseteq Measurements /\ \A x, y \in latest' : x = y
        /\ \A m \in latest' : m.born < m.captured + Services * Period
    BY <2>2 DEF LinkInv
  <2> QED BY <1>2, <2>2, <2>3, <2>4 DEF LinkInv, Waiting, Measurements, Old, Services, Period
<1>4. CASE ProbeReads
  <2>1. PICK k \in 1..Len(fifo), ok \in BOOLEAN :
          fifo' = SubSeq(fifo, k + 1, Len(fifo)) /\ latest' = Measured(fifo[k], ok)
    BY <1>4 DEF ProbeReads
  <2>2. k \in 0..Len(fifo)
    BY <2>1 DEF LinkInv
  <2>3. /\ fifo' \in Seq(Waiting) /\ Len(fifo') <= BufferFrames
        /\ \A i \in 1..Len(fifo') : Waited(i)'
    BY <1>1, <2>1, <2>2, RestKeepsWaiting
  <2>4. /\ latest' \subseteq Measurements /\ \A x, y \in latest' : x = y
        /\ \A m \in latest' : m.captured = lag /\ m.born < m.captured + Services * Period
    BY <2>1, MeasuredInTime
  <2>5. lag <= FrameStale + sinceService'
    BY <1>1, <1>2, LinkNumbers
  <2> QED BY <1>2, <2>3, <2>4, <2>5 DEF LinkInv, Waiting, Measurements, Old, Services, Period
<1> QED BY <1>3, <1>4

\* A reading between services judges what was measured; starting again forgets it; a new
\* round, or a probe that begins, changes none of it.
LEMMA JudgingKeepsAges ==
  ASSUME LinkInv,
         ReadOnce \/ ForceRecover \/ ReadClock \/ ProbeBegins \/ UNCHANGED linkVars
  PROVE  LinkInv'
<1>1. CASE ReadOnce
  <2>1. UNCHANGED <<fifo, latest, sinceService, lag>> /\ linkHealth' = HealthOf(latest')
    BY <1>1 DEF ReadOnce
  <2>2. latest' \subseteq Measurements /\ \A x, y \in latest' : x = y
    BY <2>1 DEF LinkInv
  <2>3. linkHealth' = "OK" => \A m \in latest' : m.captured <= FrameStale + lag
    BY <2>1, <2>2, HealthyIsFresh DEF LinkInv
  <2>4. linkHealth' = "OK" => \A m \in latest' : m.captured <= FrameStale + sinceService'
    <3> SUFFICES ASSUME linkHealth' = "OK", NEW m \in latest'
                 PROVE  m.captured <= FrameStale + sinceService'
      OBVIOUS
    <3>1. m.captured \in Nat
      BY <2>2, LinkNumbers DEF Measurements
    <3>2. sinceService' \in Nat /\ lag \in Nat /\ lag <= sinceService'
      BY <2>1, LinkNumbers DEF LinkInv
    <3> QED BY <2>3, <3>1, <3>2, LinkNumbers
  <2>5. \A i \in 1..Len(fifo') : Waited(i)'
    BY <2>1 DEF LinkInv, Waited
  <2> QED BY <2>1, <2>2, <2>4, <2>5 DEF LinkInv
<1>2. CASE ForceRecover
  <2>1. /\ fifo' = <<>> /\ latest' = {} /\ linkHealth' = "DEGRADED"
        /\ sinceService' = ServiceEvery + lag /\ lag' = lag
    BY <1>2 DEF ForceRecover
  <2>2. /\ sinceService' \in 0..Period /\ lag' \in Nat
        /\ lag' <= sinceService' /\ lag' <= MaxStall
    BY <2>1, LinkNumbers DEF LinkInv
  <2> QED BY <2>1, <2>2, LinkNumbers DEF LinkInv
<1>3. CASE ReadClock \/ ProbeBegins \/ UNCHANGED linkVars
  <2>1. UNCHANGED <<fifo, latest, linkHealth, sinceService>> /\ lag' \in {0, lag}
    BY <1>3 DEF linkVars, ReadClock, ProbeBegins
  <2>2. lag' \in Nat /\ lag' <= sinceService' /\ lag' <= MaxStall
    BY <2>1, LinkNumbers DEF LinkInv
  <2>3. \A i \in 1..Len(fifo') : Waited(i)'
    BY <2>1 DEF LinkInv, Waited
  <2> QED BY <2>1, <2>2, <2>3 DEF LinkInv
<1> QED BY <1>1, <1>2, <1>3

\* However long the buffer, however late the services and however long a probe holds the
\* loop up, what a healthy adapter holds, read by a service or by a probe, is no older
\* than the stale time and the services a full buffer takes, and one more.
THEOREM HealthyAlwaysRecent == LinkSpec => []HealthyIsRecent
<1>1. LinkInit => LinkInv
  <2>1. ASSUME LinkInit PROVE LinkInv
    <3>1. /\ fifo = <<>> /\ latest = {} /\ linkHealth = "DEGRADED"
          /\ sinceService = ServiceEvery /\ lag = 0
      BY <2>1 DEF LinkInit
    <3> QED BY <3>1, LinkNumbers DEF LinkInv
  <2> QED BY <2>1
<1>2. LinkInv /\ [LinkNext]_linkVars => LinkInv'
  BY TimeKeepsAges, ServiceKeepsAges, ProbeKeepsAges, JudgingKeepsAges DEF LinkNext
<1>3. LinkInv => HealthyIsRecent
  <2> SUFFICES ASSUME LinkInv, linkHealth = "OK", NEW m \in latest
               PROVE  m.born < FrameStale + (Services + 1) * Period
    BY DEF HealthyIsRecent
  <2> DEFINE y == Services * Period
             b == m.born
             c == m.captured
  <2>1. m \in Measurements /\ b < c + y /\ c <= FrameStale + sinceService
    BY DEF LinkInv
  <2>2. b \in Nat /\ c \in Nat
    BY <2>1, LinkNumbers DEF Measurements
  <2>3. y \in Nat /\ (Services + 1) * Period = y + Period
    BY LinkConstants
  <2>4. sinceService \in Nat /\ sinceService <= Period
    BY LinkNumbers DEF LinkInv
  <2> HIDE DEF y, b, c
  <2>5. b < FrameStale + (y + Period)
    BY <2>1, <2>2, <2>3, <2>4, LinkNumbers
  <2> QED BY <2>3, <2>5 DEF b
<1> QED BY <1>1, <1>2, <1>3, PTL DEF LinkSpec
=============================================================================
