------------------------------- MODULE Chunks -------------------------------
(***************************************************************************)
(* Chunk layout, chunk records and the frames of WFP/0.3: src/chunk.rs,    *)
(* the records of src/chunk_state.rs, and src/protocol/v03.rs.  A file is  *)
(* divided into chunks of ChunkSize blocks, the last one may be shorter.   *)
(* A chunk's digest is the chunk, as in Wire.                              *)
(***************************************************************************)
EXTENDS Wire, FiniteSets

CONSTANTS
    ChunkSize,  \* blocks in a chunk
    MaxBatch,   \* records that fit in one CHUNK_HASHES frame
    Zero        \* the block that a file extended by set_len reads as

ASSUME ChunksAssumption ==
    /\ ChunkSize \in Nat \ {0}
    /\ MaxBatch \in Nat \ {0}
    /\ Zero \in Blocks

(* ChunkLayout::chunk_count and ChunkLayout::range *)
ChunkCount(size) ==
    IF size % ChunkSize = 0 THEN size \div ChunkSize ELSE size \div ChunkSize + 1

ChunkStart(i) == i * ChunkSize
ChunkEnd(i, size) ==
    IF ChunkStart(i) + ChunkSize <= size THEN ChunkStart(i) + ChunkSize ELSE size

(* The bytes of a chunk, in a file that reaches its end. *)
Covers(file, i, size) == ChunkEnd(i, size) <= Len(file)
ChunkOf(file, i, size) == SubSeq(file, ChunkStart(i) + 1, ChunkEnd(i, size))

-----------------------------------------------------------------------------
(* A ChunkState: the chunks that are recorded, each with its digest. *)
Record == [index : Nat, hash : Content]

ASSUME RecordAssumption == None \notin Record

(* The file has the bytes a record stands for. *)
Holds(file, size, record) ==
    Covers(file, record.index, size) /\ ChunkOf(file, record.index, size) = record.hash

Recorded(records, record) ==
    {r \in records : r.index # record.index} \cup {record}

(* The records in the order of their chunks (there is one such order), and *)
(* the CHUNK_HASHES frames they are cut into.                              *)
InOrder(records) ==
    {s \in [1 .. Cardinality(records) -> records] :
        \A m, n \in DOMAIN s : m < n => s[m].index < s[n].index}

HashBatches(all) ==
    LET first(b) == (b - 1) * MaxBatch + 1
        last(b) == IF b * MaxBatch <= Len(all) THEN b * MaxBatch ELSE Len(all)
    IN  [b \in 1 .. (Len(all) + MaxBatch - 1) \div MaxBatch |->
            [type |-> "CHUNK_HASHES", records |-> SubSeq(all, first(b), last(b))]]

Inventory(all) == << [type |-> "RESUME", count |-> Len(all)] >> \o HashBatches(all)

(* The frames of a chunk that is transmitted. *)
ChunkFrames(i, chunk) ==
    << [type |-> "CHUNK_START", index |-> i, hash |-> chunk] >>
    \o [k \in 1 .. Len(chunk) |->
          [type |-> "DATA", offset |-> ChunkStart(i) + k - 1, block |-> chunk[k]]]

Frames03 ==
    {Bare(type) : type \in {"HELLO", "HELLO_ACK", "ACCEPT", "VERIFIED"}}
    \cup [type : {"OFFER"}, body : {<<>>}, size : Nat]
    \cup [type : {"RESUME"}, count : Nat]
    \cup [type : {"CHUNK_HASHES"}, records : Seq(Record)]
    \cup [type : {"CHUNK_START"}, index : Nat, hash : Content]
    \cup [type : {"DATA"}, offset : Nat, block : Blocks]
    \cup [type : {"COMPLETE"}, body : Content, size : {0}]

(* Several frames are written one after the other. *)
UpAll(n, c, frames) ==
    IF ReceiverGone(c) THEN n ELSE [n EXCEPT ![c].up = @ \o frames]
DownAll(n, c, frames) ==
    IF SenderGone(c) THEN n ELSE [n EXCEPT ![c].down = @ \o frames]
=============================================================================
