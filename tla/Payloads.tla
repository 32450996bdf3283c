------------------------------ MODULE Payloads ------------------------------
(***************************************************************************)
(* The payloads of the frames, src/protocol/: offer.rs, reject.rs,         *)
(* resume.rs, v03.rs and discovery.rs.  A byte is a number below Radix,    *)
(* and the fields have the order and the relative places they have in the  *)
(* code; their widths are parameters.                                      *)
(*                                                                         *)
(* An operator that may refuse its argument returns the set of what it     *)
(* accepts: one element, or none.                                          *)
(***************************************************************************)
EXTENDS Integers, Sequences, SequencesExt

CONSTANTS
    Radix,        \* values of a byte
    ShortLength,  \* bytes of a u16
    CountLength,  \* bytes of a u32
    LongLength,   \* bytes of a u64
    IdLength,     \* bytes of a Transfer ID
    HashLength,   \* bytes of a digest
    MaxPayload,   \* MAX_PAYLOAD_LENGTH
    MaxData,      \* MAX_DATA_PAYLOAD_LENGTH
    NotUtf8,      \* bytes that no text contains
    RejectCodes   \* the codes of RejectCode

ASSUME PayloadsAssumption ==
    /\ Radix \in Nat \ {0, 1}
    /\ {ShortLength, CountLength, LongLength, IdLength, HashLength} \subseteq Nat \ {0}
    /\ LongLength < MaxData /\ MaxData <= MaxPayload
    /\ MaxPayload < Radix ^ CountLength
    /\ NotUtf8 \subseteq 0 .. Radix - 1

Byte == 0 .. Radix - 1
MaxShort == Radix ^ ShortLength - 1
MaxLong == Radix ^ LongLength - 1
RecordLength == LongLength + HashLength

(* to_be_bytes and from_be_bytes *)
Digits(n, width) == [k \in 1 .. width |-> (n \div Radix ^ (width - k)) % Radix]
Value(bytes) == FoldLeft(LAMBDA n, byte : n * Radix + byte, 0, bytes)

(* "length" bytes after the first "start", and all after them *)
Field(bytes, start, length) == SubSeq(bytes, start + 1, start + length)
Short(bytes, start) == Value(Field(bytes, start, ShortLength))
Long(bytes, start) == Value(Field(bytes, start, LongLength))
Rest(bytes, start) == SubSeq(bytes, start + 1, Len(bytes))

IsText(bytes) == ToSet(bytes) \cap NotUtf8 = {}

Sized(text) == Digits(Len(text), ShortLength) \o text

-----------------------------------------------------------------------------
EncodeOffer(offer) ==
    {offer.id \o Sized(offer.filename) \o Digits(offer.size, LongLength) :
        ok \in {Len(offer.filename)} \cap 1 .. MaxShort}

DecodeOffer(payload) ==
    LET minimum == IdLength + ShortLength + LongLength
        length == Short(payload, IdLength)
        filename == Field(payload, IdLength + ShortLength, length)
    IN IF Len(payload) < minimum \/ length = 0 \/ Len(payload) # minimum + length
          \/ ~IsText(filename) THEN {}
       ELSE {[id |-> Field(payload, 0, IdLength), filename |-> filename,
              size |-> Long(payload, IdLength + ShortLength + length)]}

EncodeOfferV03(offer) ==
    {offer.id \o Sized(offer.filename) \o Digits(offer.size, LongLength)
              \o Digits(offer.chunkSize, LongLength) :
        ok \in {n \in {Len(offer.filename)} \cap 1 .. MaxShort : offer.chunkSize # 0}}

DecodeOfferV03(payload) ==
    LET minimum == IdLength + ShortLength + 2 * LongLength
        length == Short(payload, IdLength)
        filename == Field(payload, IdLength + ShortLength, length)
        size == IdLength + ShortLength + length
    IN IF Len(payload) < minimum \/ length = 0 \/ Len(payload) # minimum + length
          \/ ~IsText(filename) \/ Long(payload, size + LongLength) = 0 THEN {}
       ELSE {[id |-> Field(payload, 0, IdLength), filename |-> filename,
              size |-> Long(payload, size), chunkSize |-> Long(payload, size + LongLength)]}

EncodeReject(reject) ==
    {Digits(reject.code, ShortLength) \o Sized(reject.message) :
        ok \in {Len(reject.message)} \cap 0 .. MaxShort}

DecodeReject(payload) ==
    LET header == 2 * ShortLength
        message == Rest(payload, header)
    IN IF Len(payload) < header \/ Short(payload, 0) \notin RejectCodes
          \/ Len(message) # Short(payload, ShortLength) \/ ~IsText(message) THEN {}
       ELSE {[code |-> Short(payload, 0), message |-> message]}

(* 0.2: how much of the file the receiver has, and its digest *)
EncodeResume(resume) == {Digits(resume.offset, LongLength) \o resume.hash}

DecodeResume(payload) ==
    IF Len(payload) # LongLength + HashLength THEN {}
    ELSE {[offset |-> Long(payload, 0), hash |-> Rest(payload, LongLength)]}

(* 0.3: the number of chunk records that follow *)
EncodeResumeV03(resume) == {Digits(resume.count, LongLength)}

DecodeResumeV03(payload) ==
    IF Len(payload) # LongLength THEN {} ELSE {[count |-> Long(payload, 0)]}

EncodeRecord(record) == Digits(record.index, LongLength) \o record.hash

EncodeChunkHashes(records) ==
    {Digits(Len(records), CountLength) \o FlattenSeq([n \in DOMAIN records |-> EncodeRecord(records[n])]) :
        ok \in {CountLength + RecordLength * Len(records)} \cap 0 .. MaxPayload}

DecodeRecord(bytes) == [index |-> Long(bytes, 0), hash |-> Rest(bytes, LongLength)]

DecodeChunkHashes(payload) ==
    LET count == Value(Field(payload, 0, CountLength))
    IN IF Len(payload) < CountLength \/ Len(payload) > MaxPayload
          \/ Len(payload) # CountLength + RecordLength * count THEN {}
       ELSE {[n \in 1 .. count |->
                DecodeRecord(Field(payload, CountLength + RecordLength * (n - 1), RecordLength))]}

EncodeChunkStart(record) == {EncodeRecord(record)}

DecodeChunkStart(payload) ==
    IF Len(payload) # RecordLength THEN {} ELSE {DecodeRecord(payload)}

EncodeDataV03(chunk) ==
    {Digits(chunk.offset, LongLength) \o chunk.bytes :
        ok \in {LongLength + Len(chunk.bytes)} \cap LongLength + 1 .. MaxData}

DecodeDataV03(payload) ==
    IF Len(payload) > MaxData \/ Len(payload) <= LongLength THEN {}
    ELSE {[offset |-> Long(payload, 0), bytes |-> Rest(payload, LongLength)]}

EncodeAnnouncement(device) ==
    {Sized(device.name) \o Digits(device.port, ShortLength) :
        ok \in {n \in {Len(device.name)} \cap 1 .. MaxShort : device.port # 0}}

DecodeAnnouncement(payload) ==
    LET length == Short(payload, 0)
        name == Field(payload, ShortLength, length)
        port == Short(payload, ShortLength + length)
    IN IF Len(payload) < 2 * ShortLength \/ length = 0
          \/ Len(payload) # 2 * ShortLength + length \/ ~IsText(name) \/ port = 0 THEN {}
       ELSE {[name |-> name, port |-> port]}

-----------------------------------------------------------------------------
(* What the programs put into and take out of a frame of each type; HELLO, *)
(* DATA of 0.2 and COMPLETE carry bytes as they are.                       *)
Encode(version, type, body) ==
    CASE type = "OFFER" -> IF version = 2 THEN EncodeOffer(body) ELSE EncodeOfferV03(body)
      [] type = "REJECT" -> EncodeReject(body)
      [] type = "RESUME" -> IF version = 2 THEN EncodeResume(body) ELSE EncodeResumeV03(body)
      [] type = "CHUNK_HASHES" -> EncodeChunkHashes(body)
      [] type = "CHUNK_START" -> EncodeChunkStart(body)
      [] type = "DATA" /\ version = 3 -> EncodeDataV03(body)
      [] type = "ANNOUNCE" -> EncodeAnnouncement(body)
      [] OTHER -> {body}

Decode(version, type, payload) ==
    CASE type = "OFFER" -> IF version = 2 THEN DecodeOffer(payload) ELSE DecodeOfferV03(payload)
      [] type = "REJECT" -> DecodeReject(payload)
      [] type = "RESUME" -> IF version = 2 THEN DecodeResume(payload) ELSE DecodeResumeV03(payload)
      [] type = "CHUNK_HASHES" -> DecodeChunkHashes(payload)
      [] type = "CHUNK_START" -> DecodeChunkStart(payload)
      [] type = "DATA" /\ version = 3 -> DecodeDataV03(payload)
      [] type = "ANNOUNCE" -> DecodeAnnouncement(payload)
      [] OTHER -> {payload}
=============================================================================
