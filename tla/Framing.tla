------------------------------ MODULE Framing ------------------------------
(***************************************************************************)
(* Frames on a byte stream: src/protocol/frame.rs, message.rs, encoder.rs, *)
(* decoder.rs and io.rs.  One end writes messages, the other reads them;   *)
(* bytes arrive one by one, in the pieces the network makes of them, and   *)
(* the stream may end anywhere.  This is what Wire takes for granted: that *)
(* frames arrive whole and in order.                                       *)
(***************************************************************************)
EXTENDS Payloads

CONSTANTS Versions  \* of the writing and of the reading end: pairs of 2 and 3

VARIABLES
    ends,    \* the versions the writer and the reader speak
    outbox,  \* the messages to write
    sent,    \* the messages that were written
    writer,  \* "open", "failed" if a message was refused, or "closed"
    pipe,    \* the bytes on their way
    buffer,  \* the bytes of the frame that is being read
    reader,  \* what is being read: "header", "payload"; or "failed", "ended"
    got      \* the messages that were read

framingVars == <<ends, outbox, sent, writer, pipe, buffer, reader, got>>

(* The types of MessageType, in the order of their codes. *)
MessageTypes ==
    << "HELLO", "HELLO_ACK", "OFFER", "ACCEPT", "REJECT", "RESUME", "RESTART",
       "CHUNK_HASHES", "CHUNK_START", "DATA", "COMPLETE", "VERIFIED", "CANCEL",
       "DISCOVER", "ANNOUNCE", "ERROR" >>

ASSUME FramingAssumption ==
    /\ Versions \subseteq {2, 3} \X {2, 3}
    /\ Len(MessageTypes) < Radix

Code(type) == CHOOSE n \in DOMAIN MessageTypes : MessageTypes[n] = type

(* is_allowed_in_version *)
IsAllowed(type, version) ==
    version = 2 => type \notin {"CHUNK_HASHES", "CHUNK_START"}

(* from_wire *)
FromWire(version, code) ==
    {MessageTypes[n] : n \in {m \in DOMAIN MessageTypes \cap {code} : IsAllowed(MessageTypes[m], version)}}

(* magic, version, type, flags, payload length *)
Magic == << 5, 3 >>
HeaderLength == Len(Magic) + 2 + ShortLength + CountLength

Header(version, type, length) ==
    Magic \o << version, Code(type) >> \o Digits(0, ShortLength) \o Digits(length, CountLength)

EncodeFrameAnySize(version, type, payload) ==
    {Header(version, type, Len(payload)) \o payload :
        ok \in {Len(payload)} \cap 0 .. MaxPayload}

(* encode_frame, of a frame that new_for_version has made *)
EncodeFrame(version, type, payload) ==
    {Header(version, type, Len(payload)) \o payload :
        ok \in {n \in {Len(payload)} \cap 0 .. MaxPayload :
                   /\ IsAllowed(type, version)
                   /\ type = "DATA" => n <= MaxData}}

(* validate_frame_header *)
ValidHeader(bytes, expected) ==
    LET place == Len(Magic)
        flags == Short(bytes, place + 2)
        length == Value(Field(bytes, place + 2 + ShortLength, CountLength))
    IN {[type |-> type, length |-> length] :
          type \in {t \in FromWire(expected, bytes[place + 2]) :
                       /\ Field(bytes, 0, place) = Magic
                       /\ bytes[place + 1] = expected
                       /\ flags = 0
                       /\ length <= MaxPayload
                       /\ t = "DATA" => length <= MaxData}}

(* decode_frame_for_version *)
DecodeFrame(bytes, version) ==
    {[type |-> h.type, payload |-> Rest(bytes, HeaderLength)] :
        h \in {k \in ValidHeader(bytes, version) : Len(bytes) = HeaderLength + k.length}}

-----------------------------------------------------------------------------
(* write_frame: the whole frame, or nothing when it is refused. *)
WriteFrame ==
    /\ writer = "open" /\ outbox # <<>>
    /\ LET m == Head(outbox)
           bytes == UNION {EncodeFrame(ends[1], m.type, p) : p \in Encode(ends[1], m.type, m.body)}
       IN IF bytes = {} THEN writer' = "failed" /\ UNCHANGED <<outbox, sent, pipe>>
          ELSE /\ \E b \in bytes : pipe' = pipe \o b
               /\ sent' = Append(sent, m)
               /\ outbox' = Tail(outbox)
               /\ UNCHANGED writer
    /\ UNCHANGED <<ends, buffer, reader, got>>

CloseWriter ==
    /\ writer = "open" /\ outbox = <<>>
    /\ writer' = "closed"
    /\ UNCHANGED <<ends, outbox, sent, pipe, buffer, reader, got>>

(* The stream breaks: what has not arrived may be lost from any byte on. *)
Break ==
    /\ writer # "closed"
    /\ writer' = "closed"
    /\ \E n \in 0 .. Len(pipe) : pipe' = SubSeq(pipe, 1, n)
    /\ UNCHANGED <<ends, outbox, sent, buffer, reader, got>>

(* A frame that is complete, and the message it carries; the frame is      *)
(* checked once more as a whole.                                           *)
Deliver(bytes) ==
    LET messages == UNION {{[type |-> f.type, body |-> b] : b \in Decode(ends[2], f.type, f.payload)} :
                              f \in DecodeFrame(bytes, ends[2])}
    IN IF messages = {} THEN reader' = "failed" /\ UNCHANGED <<buffer, got>>
       ELSE /\ \E m \in messages : got' = Append(got, m)
            /\ buffer' = <<>>
            /\ reader' = "header"

(* read_frame_for_version: read_exact of the header, and of the payload if *)
(* there is one; the next byte arrives.                                    *)
ReadByte ==
    /\ reader \in {"header", "payload"} /\ pipe # <<>>
    /\ pipe' = Tail(pipe)
    /\ LET bytes == Append(buffer, Head(pipe))
           header == ValidHeader(SubSeq(bytes, 1, HeaderLength), ends[2])
           more == buffer' = bytes /\ UNCHANGED got
       IN IF Len(bytes) < HeaderLength THEN more /\ UNCHANGED reader
          ELSE IF header = {} THEN reader' = "failed" /\ UNCHANGED <<buffer, got>>
          ELSE IF \E h \in header : Len(bytes) = HeaderLength + h.length THEN Deliver(bytes)
          ELSE more /\ reader' = "payload"
    /\ UNCHANGED <<ends, outbox, sent, writer>>

(* read_exact meets the end of the stream. *)
ReadEnd ==
    /\ reader \in {"header", "payload"} /\ pipe = <<>> /\ writer # "open"
    /\ reader' = "ended"
    /\ UNCHANGED <<ends, outbox, sent, writer, pipe, buffer, got>>

FramingInit(versions, messages) ==
    /\ ends = versions
    /\ outbox = messages
    /\ sent = <<>> /\ writer = "open" /\ pipe = <<>>
    /\ buffer = <<>> /\ reader = "header" /\ got = <<>>

FramingNext == WriteFrame \/ CloseWriter \/ Break \/ ReadByte \/ ReadEnd

-----------------------------------------------------------------------------
(* However the bytes arrive and wherever the stream ends, what is read is  *)
(* what was written, message for message, and nothing that was written is  *)
(* refused: the two ends agree on every limit and field.  A reader of the  *)
(* other version reads nothing at all.                                     *)
MessagesArriveWhole ==
    /\ Len(got) <= Len(sent)
    /\ \A n \in DOMAIN got : got[n].type = sent[n].type /\ got[n].body = sent[n].body
    /\ reader = "failed" => ends[1] # ends[2]
    /\ ends[1] # ends[2] => got = <<>>
=============================================================================
