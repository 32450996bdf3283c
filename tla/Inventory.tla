------------------------------ MODULE Inventory ------------------------------
(***************************************************************************)
(* What a receiver keeps in writing, from the frames it is about to the    *)
(* frames it goes out in.  The inventory of verified chunks of WFP/0.3:    *)
(* the layout of a file in chunks with the widths the code computes in     *)
(* (src/chunk.rs), the chunk state, its document and what of it is         *)
(* accepted again (src/chunk_state.rs), and the CHUNK_HASHES frames it is  *)
(* announced in (src/receiver_v03.rs) and read from (src/sender_v03.rs).   *)
(* And the job of an OFFER, in transfer metadata and in a receipt.         *)
(***************************************************************************)
EXTENDS Framing, Documents

CONSTANTS
    FileSizes, ChunkSizes,  \* of the offer
    Hashes,                 \* digests of chunks
    MaxIndex,               \* chunk numbers that are tried
    None,                   \* no document
    Messages                \* what is sent otherwise: [{2, 3} -> sequences of messages]

ASSUME InventoryAssumption ==
    /\ FileSizes \cup ChunkSizes \subseteq 0 .. MaxLong
    /\ Hashes \subseteq [1 .. HashLength -> Byte]
    /\ MaxIndex \in Nat

VARIABLES
    layout,     \* [size, chunk], of the offer
    book,       \* the chunk state: a sequence of records
    stored,     \* the document that was saved: [kind, document], or None
    announced   \* the inventory is on its way

vars == <<framingVars, layout, book, stored, announced>>

-----------------------------------------------------------------------------
(* ChunkLayout::new *)
IsLayout(l) == l.chunk # 0

ChunkCountRoundedUp(l) == ((l.size + l.chunk - 1) % (MaxLong + 1)) \div l.chunk

(* chunk_count: rounding up without adding first *)
ChunkCount(l) ==
    IF l.size % l.chunk = 0 THEN l.size \div l.chunk ELSE l.size \div l.chunk + 1

(* range: none behind the last chunk, or if the offset overflows *)
ChunkRange(l, index) ==
    {[offset |-> index * l.chunk, length |-> IF l.chunk < remaining THEN l.chunk ELSE remaining] :
        remaining \in {r \in {l.size - index * l.chunk} :
                          index < ChunkCount(l) /\ index * l.chunk <= MaxLong /\ r >= 0}}

HasChunk(l, index) == ChunkRange(l, index) # {}

(* record_verified_chunk: replaced where it is, inserted in its order *)
Recorded(records, index, hash) ==
    LET new == [index |-> index, hash |-> hash]
        before == SelectSeq(records, LAMBDA r : r.index < index)
        after == SelectSeq(records, LAMBDA r : r.index > index)
    IN before \o << new >> \o after

(* validate_recorded_chunks *)
IsBook(l, records) ==
    /\ \A n \in DOMAIN records : HasChunk(l, records[n].index)
    /\ \A m, n \in DOMAIN records : m < n => records[m].index < records[n].index

EncodeChunkState(l, records) ==
    [format |-> FormatVersion, size |-> l.size, chunk |-> l.chunk,
     chunks |-> [n \in DOMAIN records |->
                    [index |-> records[n].index, hash |-> EncodeChunkHash(records[n].hash)]]]

(* A chunk of a document, if it is one *)
IsRecord(r) == r.index # Junk /\ ParseChunkHash(r.hash) # {}
DecodedRecord(r) == [index |-> r.index, hash |-> CHOOSE h \in ParseChunkHash(r.hash) : TRUE]

(* decode_chunk_state; what it refuses is no chunk state *)
DecodeChunkState(document) ==
    LET wellFormed(d) ==
            /\ d # Junk
            /\ d.format = FormatVersion
            /\ d.size # Junk /\ d.chunk # Junk /\ d.chunks # Junk
            /\ IsLayout(d)
            /\ \A n \in DOMAIN d.chunks : IsRecord(d.chunks[n])
        states == {[size |-> d.size, chunk |-> d.chunk,
                    records |-> [n \in DOMAIN d.chunks |-> DecodedRecord(d.chunks[n])]] :
                      d \in {e \in {document} : wellFormed(e)}}
    IN {s \in states : IsBook(s, s.records)}

-----------------------------------------------------------------------------
(* Until the next session a chunk may be verified, in any order.            *)
RecordVerifiedChunk(index, hash) ==
    /\ ~announced
    /\ book' = IF HasChunk(layout, index) THEN Recorded(book, index, hash) ELSE book
    /\ UNCHANGED <<framingVars, layout, stored, announced>>

Saved(kind, document) == [kind |-> kind, document |-> document]

Save(kind, document) ==
    /\ ~announced
    /\ stored' = Saved(kind, document)
    /\ UNCHANGED <<framingVars, layout, book, announced>>

WriteChunkState ==
    /\ outbox = <<>> /\ sent = <<>>
    /\ Save("chunks", EncodeChunkState(layout, book))

(* The job of the OFFER that was read, once the session is over; 0.2 keeps *)
(* it while it is partial, both versions when the digest has come.         *)
Over == reader \in {"ended", "failed"}
Offered == IF got = <<>> THEN FALSE ELSE got[1].type = "OFFER"
Job == [id |-> got[1].body.id, filename |-> got[1].body.filename, size |-> got[1].body.size]

WriteTransferMetadata ==
    /\ Over /\ Offered /\ ends[2] = 2 /\ stored = None
    /\ Save("metadata", EncodeTransferMetadata(Job))

WriteCompletionReceipt ==
    /\ Over /\ Offered /\ Len(got) = 2 /\ stored = None
    /\ Save("receipt", EncodeCompletionReceipt(Job, got[2].body))

(* What this program wrote last, if it was of this kind *)
Written(kind) ==
    CASE kind = "chunks" -> EncodeChunkState(layout, book)
      [] kind = "metadata" -> EncodeTransferMetadata(Job)
      [] kind = "receipt" -> EncodeCompletionReceipt(Job, got[2].body)

(* Another program or version left a document that says something else:    *)
(* one field, or the order of the chunks; or hexadecimal text in upper     *)
(* case, which is the same.                                                *)
UpperCase(text) ==
    [n \in DOMAIN text |-> IF text[n] >= FirstLetter THEN text[n] + HexRadix ELSE text[n]]

AlteredHex(text) ==
    {Junk, Tail(text), UpperCase(text)}
    \cup {[text EXCEPT ![2] = c] : c \in {2 * HexRadix, (text[2] + 1) % HexRadix}}

AlteredJob(d) ==
    {[d EXCEPT !.id = t] : t \in AlteredHex(d.id)}
    \cup {[d EXCEPT !.filename = f] : f \in {Junk, <<>>, d.filename \o <<1>>}}

AlteredChunks(d) ==
    {[d EXCEPT !.chunk = n] : n \in {Junk, 0} \cup ChunkSizes}
    \cup {[d EXCEPT !.chunks = c] : c \in {Junk, Reverse(d.chunks), d.chunks \o d.chunks}}
    \cup UNION {{[d EXCEPT !.chunks[n].index = i] : i \in {Junk} \cup 0 .. MaxIndex} : n \in DOMAIN d.chunks}
    \cup UNION {{[d EXCEPT !.chunks[n].hash = t] : t \in AlteredHex(d.chunks[n].hash)} : n \in DOMAIN d.chunks}

Altered(kind, d) ==
    {Junk}
    \cup {[d EXCEPT !.format = f] : f \in {Junk, FormatVersion + 1}}
    \cup {[d EXCEPT !.size = n] : n \in {Junk} \cup FileSizes}
    \cup CASE kind = "chunks" -> AlteredChunks(d)
           [] kind = "metadata" -> AlteredJob(d) \cup {[d EXCEPT !.state = s] : s \in {Junk, "complete"}}
           [] kind = "receipt" -> AlteredJob(d) \cup {[d EXCEPT !.hash = t] : t \in AlteredHex(d.hash)}

AlterDocument ==
    /\ ~announced /\ stored # None /\ stored.document = Written(stored.kind)
    /\ \E d \in Altered(stored.kind, stored.document) : stored' = Saved(stored.kind, d)
    /\ UNCHANGED <<framingVars, layout, book, announced>>

(* prepare_chunk_inventory: no document, one that is no chunk state and    *)
(* one of another layout are an empty book.                                *)
Prepared ==
    IF stored = None THEN <<>>
    ELSE LET known == {s \in DecodeChunkState(stored.document) :
                          s.size = layout.size /\ s.chunk = layout.chunk}
         IN IF known = {} THEN <<>> ELSE (CHOOSE s \in known : TRUE).records

MaximumRecordsNoCount == MaxPayload \div RecordLength

(* maximum_chunk_hash_records_per_batch *)
MaximumRecords == (MaxPayload - CountLength) \div RecordLength

(* chunk_hash_batches: slices of the book, the last one may be shorter *)
Batches(records) ==
    [b \in 1 .. (Len(records) + MaximumRecords - 1) \div MaximumRecords |->
        SubSeq(records, (b - 1) * MaximumRecords + 1,
               IF b * MaximumRecords <= Len(records) THEN b * MaximumRecords ELSE Len(records))]

(* negotiate_inventory: RESUME with the number of records, and the records *)
InventoryMessages(records) ==
    << [type |-> "RESUME", body |-> [count |-> Len(records)]] >>
    \o [b \in DOMAIN Batches(records) |-> [type |-> "CHUNK_HASHES", body |-> Batches(records)[b]]]

(* A new session: the book is the document's, without the chunks the .part *)
(* does not hold any more (Receiver03 says which), and it is announced.    *)
(* What becomes of the document then is Receiver03's as well.              *)
Announce ==
    /\ ~announced /\ outbox = <<>> /\ sent = <<>> /\ ends = <<3, 3>>
    /\ announced' = TRUE
    /\ \E lost \in SUBSET {r.index : r \in ToSet(Prepared)} :
          book' = SelectSeq(Prepared, LAMBDA r : r.index \notin lost)
    /\ outbox' = InventoryMessages(book')
    /\ stored' = None
    /\ UNCHANGED <<ends, sent, writer, pipe, buffer, reader, got, layout>>

-----------------------------------------------------------------------------
(* receive_inventory_and_accept: what the sender holds of the inventory    *)
(* after the frames it has read, or why it gave up.                        *)
Received(messages) == FlattenSeq([n \in 1 .. Len(messages) - 1 |-> messages[n + 1].body])

IsInventory(messages) ==
    LET declared == Head(messages).body.count
        records == Received(messages)
    IN /\ Head(messages).type = "RESUME"
       /\ declared <= ChunkCount(layout)
       /\ \A n \in 2 .. Len(messages) : messages[n].type = "CHUNK_HASHES" /\ messages[n].body # <<>>
       /\ Len(records) <= declared
       /\ IsBook(layout, records)

Accepts(messages) ==
    messages # <<>> /\ IsInventory(messages) /\ Len(Received(messages)) = Head(messages).body.count

-----------------------------------------------------------------------------
Init ==
    /\ layout \in [size : FileSizes, chunk : ChunkSizes \ {0}]
    /\ book = <<>>
    /\ stored = None
    /\ announced = FALSE
    /\ \/ FramingInit(<<3, 3>>, <<>>)
       \/ /\ layout.size = 0
          /\ \E v \in Versions : \E messages \in Messages[v[1]] : FramingInit(v, messages)

Next ==
    \/ \E index \in 0 .. MaxIndex, hash \in Hashes : RecordVerifiedChunk(index, hash)
    \/ WriteChunkState \/ WriteTransferMetadata \/ WriteCompletionReceipt
    \/ AlterDocument
    \/ Announce
    \/ FramingNext /\ UNCHANGED <<layout, book, stored, announced>>

Spec == Init /\ [][Next]_vars

-----------------------------------------------------------------------------
(* Whatever was recorded in whatever order, saved, altered and read again, *)
(* the inventory is one the sender accepts, every batch of it fits into a  *)
(* frame and none is empty, and the sender answers exactly when it has     *)
(* read all of the receiver's book.                                        *)
InventoryArrives ==
    announced =>
        /\ writer # "failed"
        /\ got # <<>> => IsInventory(got)
        /\ Accepts(got) <=> got = InventoryMessages(book)
        /\ Accepts(got) => Received(got) = book

(* The chunks of a file lie side by side and fill it, none is empty, and   *)
(* no computation of a chunk of the file overflows, whatever sizes were    *)
(* offered.                                                                *)
RangesPartition ==
    LET count == ChunkCount(layout)
        range(i) == CHOOSE r \in ChunkRange(layout, i) : TRUE
        end(i) == range(i).offset + range(i).length
    IN /\ \A i \in 0 .. count - 1 : HasChunk(layout, i) /\ range(i).length \in 1 .. layout.chunk
       /\ \A i \in 0 .. count - 2 : range(i + 1).offset = end(i)
       /\ IF count = 0 THEN layout.size = 0 ELSE range(0).offset = 0 /\ end(count - 1) = layout.size
       /\ ~HasChunk(layout, count)

(* What was saved is read again as it was, in either case of the letters.  *)
(* Whatever else is found there is refused, or says what is read of it:    *)
(* nothing is filled in, cut off or taken for another job's, or for chunks *)
(* of another layout.                                                      *)
SavedReadsBack ==
    stored # None =>
        LET d == stored.document
            written == Written(stored.kind)
            SameHex(t, u) == t = u \/ t = UpperCase(u)
        IN CASE stored.kind = "chunks" ->
                  /\ d = written => Prepared = book
                  /\ Prepared # <<>> => d.size = layout.size /\ d.chunk = layout.chunk
                  /\ \A s \in DecodeChunkState(d) :
                        LET e == EncodeChunkState(s, s.records)
                        IN /\ [d EXCEPT !.chunks = e.chunks] = e
                           /\ DOMAIN d.chunks = DOMAIN e.chunks
                           /\ \A n \in DOMAIN e.chunks :
                                 /\ d.chunks[n].index = e.chunks[n].index
                                 /\ SameHex(d.chunks[n].hash, e.chunks[n].hash)
             [] stored.kind = "metadata" ->
                  /\ d = written => DecodeTransferMetadata(d) = {Job}
                  /\ \A job \in DecodeTransferMetadata(d) :
                        LET e == EncodeTransferMetadata(job)
                        IN SameHex(d.id, e.id) /\ [d EXCEPT !.id = e.id] = e
             [] stored.kind = "receipt" ->
                  /\ d = written => ReadCompletionReceipt(d, Job.id) # {}
                  /\ \A r \in ReadCompletionReceipt(d, Job.id) :
                        LET e == EncodeCompletionReceipt(r, r.hash)
                        IN /\ SameHex(d.id, Written("receipt").id) /\ SameHex(d.hash, e.hash)
                           /\ [d EXCEPT !.id = e.id, !.hash = e.hash] = e
=============================================================================
