------------------------------ MODULE Framing ------------------------------
(***************************************************************************)
(* How the two servers cut the byte stream of a connection into frames:    *)
(* base stations' streams by decode_messages (protocol.py), one read at a  *)
(* time; Application Centers' by decode_frames (scaci_protocol.py) over a  *)
(* buffer, which _remaining_buf (SCAServer.py) shortens afterwards.        *)
(*                                                                         *)
(* A frame is an identifier of 8 bytes, a length of 4 and a payload.  A    *)
(* stream is given by its units: frames with one message ("good"), with    *)
(* two ("double": both decoders take all objects of a payload) or with a   *)
(* payload that holds none ("bad"), and other bytes ("junk"), which never  *)
(* hold an identifier.  A position counts bytes from the start.            *)
(***************************************************************************)
EXTENDS Integers, Sequences, SequencesExt, FiniteSetsExt

CONSTANTS
  Sizes,       (* sizes of a payload, or of junk                           *)
  MaxUnits     (* bound: units of a stream                                 *)

ASSUME FramingAssumption == Sizes \subseteq Nat \ {0} /\ MaxUnits \in Nat

VARIABLES
  protocol,    (* "bssci" or "scaci"                                       *)
  stream,      (* the units that are sent                                  *)
  from,        (* where the buffer starts                                  *)
  to,          (* where the last read ended                                *)
  handled,     (* the units whose message was handled, in order            *)
  open,        (* the handler runs                                         *)
  inStep       (* history: every read has ended where a unit does          *)

framingVars == <<protocol, stream, from, to, handled, open, inStep>>

Header == 12
(* A message takes at least a byte.                                        *)
Units ==
  {u \in [kind : {"good", "double", "bad", "junk"}, size : Sizes] :
     u.kind = "double" => u.size >= 2}

FramingInit ==
  /\ protocol \in {"bssci", "scaci"}
  /\ stream \in SeqOf(Units, MaxUnits)
  /\ from = 0
  /\ to = 0
  /\ handled = <<>>
  /\ open = TRUE
  /\ inStep = TRUE

-----------------------------------------------------------------------------
(* Where a unit starts.                                                    *)
Extent(u) == u.size + (IF u.kind = "junk" THEN 0 ELSE Header)

Start(n) == FoldSeq(+, 0, [i \in 1 .. n - 1 |-> Extent(stream[i])])

End(n) == Start(n) + Extent(stream[n])

StreamEnd == Start(Len(stream) + 1)

(* The frame that starts at a position, in a set of at most one.           *)
FrameAt(p) ==
  {n \in DOMAIN stream : Start(n) = p /\ stream[n].kind # "junk"}

(* The length read at a position: the frame's, or whatever g the bytes     *)
(* elsewhere happen to make.                                               *)
LengthAt(p, g) ==
  IF FrameAt(p) = {} THEN g ELSE stream[Max(FrameAt(p))].size

Objects == [good |-> 1, double |-> 2, bad |-> 0]

(* The messages in the frame at a position, each given by its unit.        *)
Messages(p) ==
  LET n == Max(FrameAt(p))
  IN  IF FrameAt(p) = {} THEN <<>>
      ELSE [i \in 1 .. Objects[stream[n].kind] |-> n]

-----------------------------------------------------------------------------
(***************************************************************************)
(* Base stations                                                           *)
(***************************************************************************)

(* What the unpacker makes of l bytes at a position: a message, nothing,   *)
(* or of bytes that are no frame's an object that is none.                 *)
NoMessage == 0

IsMessage(n) == n # NoMessage

Handle(h, n) == IF IsMessage(n) THEN Append(h, n) ELSE h

Payload(p, l, b) ==
  IF FrameAt(p) = {} THEN (IF l > 0 THEN <<NoMessage>> ELSE <<>>)
  ELSE IF p + Header + l > b THEN <<>> ELSE Messages(p)

(* Mutant: the data is advanced by 8, as the test before it has it.        *)
DecodeMessagesShort(a, b, g) ==
  LET decode[p \in a .. b] ==
        LET l == LengthAt(p, g)
        IN  IF b - p <= Header \/ l + 8 > b - p THEN <<>>
            ELSE Payload(p, l, b) \o decode[Min({p + 8 + l, b})]
  IN  decode[a]

(* decode_messages of the bytes from a to b, which may end in a payload    *)
(* that is cut off.                                                        *)
DecodeMessages(a, b, g) ==
  LET decode[p \in a .. b] ==
        LET l == LengthAt(p, g)
        IN  IF b - p <= Header \/ l + 8 > b - p THEN <<>>
            ELSE Payload(p, l, b) \o decode[Min({p + Header + l, b})]
  IN  decode[a]

(* One read.  Handling an object that is no dict ends the connection.  The *)
(* length made by other bytes is nothing, small, or more than a read.      *)
ReadMessages ==
  /\ protocol = "bssci"
  /\ open
  /\ \E b \in to + 1 .. StreamEnd, g \in {0, 1, StreamEnd} :
       LET objects == DecodeMessages(to, b, g)
       IN  /\ to' = b
           /\ from' = b
           /\ \/ /\ handled' = FoldLeft(Handle, handled, objects)
                 /\ UNCHANGED open
              \/ \E i \in DOMAIN objects :
                   /\ ~IsMessage(objects[i])
                   /\ open' = FALSE
                   /\ handled' = FoldLeft(Handle, handled,
                                         SubSeq(objects, 1, i))
           /\ inStep' = (inStep /\ \E n \in DOMAIN stream : End(n) = b)
  /\ UNCHANGED <<protocol, stream>>

-----------------------------------------------------------------------------
(***************************************************************************)
(* Application Centers                                                     *)
(***************************************************************************)

(* decode_frames of the bytes from a to b.                                 *)
DecodeFrames(a, b) ==
  LET decode[p \in a .. b] ==
        IF b - p < Header THEN <<>>
        ELSE IF FrameAt(p) = {} THEN decode[p + 1]
        ELSE LET l == LengthAt(p, 0)
             IN  IF Header + l > b - p THEN <<>>
                 ELSE Messages(p) \o decode[p + Header + l]
  IN  decode[a]

(* Mutant: the buffer is emptied after every read.                         *)
RemainingNone(a, b, k) == b

(* _remaining_buf: as many lengths are skipped as there were messages.  A  *)
(* length read elsewhere is made of the identifier, and more than there is.*)
Remaining(a, b, k) ==
  LET rest[i \in 0 .. k] ==
        IF i = 0 THEN a
        ELSE LET p == rest[i - 1]
             IN  IF b - p < Header THEN p
                 ELSE Min({p + Header + LengthAt(p, StreamEnd), b})
  IN  rest[k]

ReadFrames ==
  /\ protocol = "scaci"
  /\ \E b \in to + 1 .. StreamEnd :
       LET frames == DecodeFrames(from, b)
       IN  /\ to' = b
           /\ from' = Remaining(from, b, Len(frames))
           /\ handled' = handled \o frames
           /\ inStep' = (inStep /\ \E n \in DOMAIN stream : End(n) = b)
  /\ UNCHANGED <<protocol, stream, open>>

-----------------------------------------------------------------------------
FramingNext == ReadMessages \/ ReadFrames

FramingSpec == FramingInit /\ [][FramingNext]_framingVars

-----------------------------------------------------------------------------
(***************************************************************************)
(* Properties                                                              *)
(***************************************************************************)

(* The messages that have arrived.                                         *)
Arrived == {n \in DOMAIN stream : stream[n].kind = "good" /\ End(n) <= to}

(* Each at most once, and in the order they were sent.                     *)
HandledInOrder == \A i, j \in DOMAIN handled : i < j => handled[i] < handled[j]

Kinds == {stream[n].kind : n \in DOMAIN stream}

(* A base station's messages, one in a frame, are handled once and in      *)
(* order, whatever the reads cut through and whatever the bytes behind a   *)
(* cut are taken for; and all of them are, as long as every read ends      *)
(* where a frame does.  A frame cut by a read is lost.                     *)
StationMessagesInStep ==
  protocol = "bssci" /\ "double" \notin Kinds =>
    /\ HandledInOrder
    /\ inStep /\ "junk" \notin Kinds => Range(handled) = Arrived

(* An Application Center's messages are all handled, however the stream is *)
(* cut into reads; each once and in order if every frame holds a message.  *)
(* A frame that does not makes _remaining_buf skip one frame too few, and  *)
(* one with two messages one too many, which may not have arrived in full: *)
(* of streams with such frames nothing is said.                            *)
CenterMessagesComplete ==
  protocol = "scaci" /\ {"junk", "double"} \cap Kinds = {} =>
    /\ Range(handled) = Arrived
    /\ "bad" \notin Kinds => HandledInOrder
=============================================================================
