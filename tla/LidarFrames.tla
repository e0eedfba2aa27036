------------------------------ MODULE LidarFrames ------------------------------
(***************************************************************************)
(* The parser of the LiDAR's serial stream.  The sensor sends frames of two  *)
(* header bytes, a payload and a checksum; the parser takes byte after byte. *)
(* The line may lose bytes or add some.                                      *)
(***************************************************************************)
EXTENDS Naturals, Sequences

CONSTANTS
  Base,           \* bytes are below Base (256 in the code)
  Header,         \* the header byte (0x59)
  PayloadBytes,   \* 6 in the code
  MaxNoise        \* bound: bytes lost or added

ASSUME LidarFramesAssumption ==
  Base \in Nat \ {0} /\ Header \in 0..(Base - 1) /\ PayloadBytes \in Nat \ {0}

VARIABLES
  parser,         \* _state and the bytes in _frame, _index of them
  sending,        \* the bytes of the frame on the line that are still to come
  payload,        \* history: the payload of that frame
  parsed,         \* history: what the parser delivered during that frame
  plain,          \* history: frames sent in full, without a header byte in payload or
                  \* checksum, since the last other frame or disturbance, counted to 2
  disturbed,      \* history: the frame on the line was disturbed
  noise           \* bound

frameVars == <<parser, sending, payload, parsed, plain, disturbed, noise>>

Bytes == 0..(Base - 1)
Payloads == [1..PayloadBytes -> Bytes]

Checksum(bytes) ==
  LET sum[n \in 0..Len(bytes)] == IF n = 0 THEN 0 ELSE bytes[n] + sum[n - 1]
  IN sum[Len(bytes)] % Base

Body(p)  == <<Header, Header>> \o [i \in 1..PayloadBytes |-> p[i]]
Frame(p) == Append(Body(p), Checksum(Body(p)))
FrameBytes == PayloadBytes + 3

\* Mutant: any byte passes for the first header byte.
Searching_AnyByte(byte) == [state |-> "header2", frame |-> <<Header>>]

Searching(byte) == IF byte = Header THEN [state |-> "header2", frame |-> <<Header>>]
                   ELSE [state |-> "header1", frame |-> <<>>]

FramesInit ==
  /\ parser = [state |-> "header1", frame |-> <<>>]
  /\ sending = <<>> /\ payload = <<>> /\ parsed = <<>>
  /\ plain = 0 /\ disturbed = FALSE /\ noise = 0

-----------------------------------------------------------------------------
(* pushByte(): a full frame is delivered if its checksum matches, and its last byte
   may be the first header byte of the next one. *)
Collect(byte) == Append(parser.frame, byte)
Complete(byte) == parser.state = "payload" /\ Len(Collect(byte)) = FrameBytes
Matches(frame) == Checksum(SubSeq(frame, 1, FrameBytes - 1)) = frame[FrameBytes]

PushByte(byte) ==
  parser' = CASE parser.state = "header1" -> Searching(byte)
              [] parser.state = "header2" ->
                   IF byte = Header THEN [state |-> "payload", frame |-> Collect(byte)]
                   ELSE Searching(byte)
              [] Complete(byte) -> Searching(byte)
              [] OTHER -> [parser EXCEPT !.frame = Collect(byte)]

Delivered(byte) ==
  IF Complete(byte) /\ Matches(Collect(byte))
    THEN <<SubSeq(Collect(byte), 3, FrameBytes - 1)>> ELSE <<>>

(* The sensor begins a frame with a new measurement. *)
BeginFrame ==
  /\ sending = <<>>
  /\ \E p \in Payloads :
       /\ payload' = [i \in 1..PayloadBytes |-> p[i]]
       /\ sending' = Frame(p)
  /\ parsed' = <<>> /\ disturbed' = FALSE
  /\ UNCHANGED <<parser, plain, noise>>

HeaderFree == \A i \in 3..FrameBytes : Frame(payload)[i] # Header
PlainAfter == IF disturbed \/ ~HeaderFree THEN 0 ELSE IF plain = 2 THEN 2 ELSE plain + 1

SendByte ==
  /\ sending # <<>>
  /\ PushByte(Head(sending))
  /\ parsed' = parsed \o Delivered(Head(sending))
  /\ sending' = Tail(sending)
  /\ plain' = IF sending' = <<>> THEN PlainAfter ELSE plain
  /\ UNCHANGED <<payload, disturbed, noise>>

Disturb == noise < MaxNoise /\ noise' = noise + 1 /\ disturbed' = TRUE /\ plain' = 0

LoseByte ==
  /\ sending # <<>>
  /\ Disturb
  /\ sending' = Tail(sending)
  /\ UNCHANGED <<parser, payload, parsed>>

AddByte ==
  /\ Disturb
  /\ \E byte \in Bytes : PushByte(byte) /\ parsed' = parsed \o Delivered(byte)
  /\ UNCHANGED <<sending, payload>>

FramesNext == BeginFrame \/ SendByte \/ LoseByte \/ AddByte

FramesSpec == FramesInit /\ [][FramesNext]_frameVars

-----------------------------------------------------------------------------
(* Properties *)

(* Out of step for whatever reason, the parser is in step again by the second frame
   that is sent undisturbed and holds no header byte behind its header: that frame
   is delivered, once and as it was sent. *)
Resynchronises == sending = <<>> /\ plain = 2 => parsed = <<payload>>
=============================================================================
