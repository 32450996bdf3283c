# WarpFile: models, checks and proofs

TLA+ models of WarpFile's transfer protocols, TLC configurations that check
them on small instances, and TLAPS proofs of their main safety properties.
Sources are named relative to the repository.

## The system

WarpFile sends one file per run of the sender to a receiver that keeps running.
The two speak WFP/0.2 (the whole file as a stream, resumable from a prefix) or
WFP/0.3 (chunks, resumable from an inventory of verified chunks) over one TCP
connection per attempt. The receiver keeps four kinds of files per transfer:

| file | written by | says |
|---|---|---|
| `received/<name>` | the commit | the delivered file |
| `.warpfile/partials/<name>.part` | DATA | what was received so far |
| `.../<name>.part.warpmeta`, `.warpchunks` | preparation, chunk progress | which transfer the `.part` belongs to; which chunks of it were verified |
| `.warpfile/receipts/<id>.json` | the commit | these size and digest were verified for this Transfer ID |

### Inventory

| component | state | operations | hard behaviour |
|---|---|---|---|
| 0.2 sender (`src/sender.rs`) | attempt, size and Transfer ID fixed at start, hasher | `run_sender`, `send_once`, `negotiate_resume`, `wait_for_restart_accept` | retries after losses anywhere, edits of the source between and during attempts, cancel |
| 0.2 receiver (`src/receiver.rs`) | current connection, hasher, the files above | `receive_connection`, `reconcile_completed_transfer`, `prepare_transfer`, `receive_file_data`, commit, `discard_partial_state` | crash between any two writes, failing writes, jobs that share a filename, one connection at a time |
| 0.3 sender (`src/sender_v03.rs`) | manifest scanner, inventory cursor | `receive_inventory`, `send_source_chunks`, `complete_and_verify`, retry kinds | inventory matched against a source that changed, retry classification |
| 0.3 receiver (`src/receiver_v03.rs`) | chunk coverage, persisted records, current chunk | `negotiate_inventory`, `begin`, `write_data`, `persist`, `finalize`, `reconcile_v03` | data before record, in-place writes, no-clobber promotion with hard links |
| chunk state, metadata, receipts (`src/chunk_state.rs`, `src/transfer_metadata.rs`, `src/completion_receipt.rs`) | one record file each | write through a temporary file, read and validate, remove | crash or power failure between temporary file, removal and rename; two publishers of a receipt; documents of another hand |
| storage (`src/receiver_storage.rs`) | the file system | open without following links, rename, no-replace rename, link | what remains when a step fails; entries that are not files; handles on Windows, names on Linux |
| layout, manifest, framing (`src/chunk.rs`, `src/chunk_manifest.rs`, `src/protocol/`) | none | arithmetic and encodings, frames on a stream | overflow, last chunk, limits; a stream that ends inside a frame; the other version |
| discovery (`src/discovery.rs`, `src/destination.rs`, `src/tailscale.rs`) | devices found | broadcast, tailnet peers, collect, resolve a name | lost, duplicated and late answers, ambiguous names, end of the receiver on a socket error |
| command line, progress (`src/main.rs`, `src/progress.rs`) | none | parsing in two passes, output | the passes must agree which argument is a flag's |

The receiver's components share the file system only; the sender and the
receiver share the connection only. `run_receiver` races the discovery
responder with the receive loop, so that an error of the first ends the second.

What makes each correct: the receiver never shows or confirms a file that is
not what its sender hashed, never loses a file it has a receipt for, never
writes a destination twice, and goes on after every failure; the sender
succeeds only on VERIFIED, sends nothing twice after the commit and ends after
a bounded number of attempts; a record file is, after any crash or power
failure, an old or a new record or none, and says what was written or is refused;
an inventory of any length arrives as it was recorded; a search ends, finds what can
be reached, and never picks one of two devices of a name.

## Modules

| module | models |
|---|---|
| `Wire` | connections, frames, losses (external: TCP as the two programs use it) |
| `Sender02` | the 0.2 sender, one job per run of the program |
| `Receiver02` | the 0.2 receiver and its files |
| `Wfp02` | both together; properties, fairness, the inductive invariant |
| `Delivery` | the abstract promise of a transfer |
| `Chunks` | chunk layout, records and frames of 0.3, on top of `Wire` |
| `Sender03` | the 0.3 sender |
| `Receiver03` | the 0.3 receiver and its files |
| `Wfp03` | both together; properties and fairness |
| `Storage` | file operations on names, files and handles, with power failure, on Linux and Windows |
| `Records` | how metadata, chunk state and receipt are written, published and removed, on top of `Storage` |
| `Commands` | the command line |
| `Discovery` | responder, search, tailnet and destination, on top of `Commands` |
| `Payloads` | the payload of every frame |
| `Framing` | header, validation, and frames on a stream of bytes, on top of `Payloads` |
| `Documents` | the text of the three record files and what is accepted of it |
| `Inventory` | layout with widths, chunk state, its document and its frames, jobs in metadata and receipts, on top of `Framing` and `Documents` |
| `MCWfp02`, `MCWfp03`, `MCRecords`, `MCDiscovery`, `MCInventory` | instances for TLC |
| `WireProofs` | lemmas about sequences and connections |
| `Wfp02Proofs`, `Wfp03Proofs`, `RecordsProofs`, `DiscoveryProofs`, `InventoryProofs` | theorems about the module each is named after, and the lemmas they rest on |
| `Wfp03SessionProofs` | theorems about `Wfp03` that relate what was received to the files |
| `Wfp03OrderProofs` | the theorem about `Wfp03` that each frame is one its reader takes |

The levels rest on each other. `Framing` shows what `Wire` takes for granted, that
frames arrive whole and in order or not at all. `Records` shows what `Receiver02` and
`Receiver03` take for granted of metadata, chunk state and receipts: that a record is
replaced by a whole one or is gone, and that a receipt is never replaced. `Inventory`
and `Documents` show that what is written is what is read again.

### Sender02 and Receiver02

A sender action is one turn of `send_once` from one frame read to the next
write (`SendOffer` reads HELLO_ACK and writes OFFER); its `pc` is the read it
waits in. A receiver action is either a read, or one change of the disk: between
any two of them a crash or a failed file operation can fall. `StorageFails`
sends each step where its error path goes (REJECT, close, or a warning only),
`LoseSender(preserve)` is the two ways a failed read ends (`should_preserve_partial`
keeps the `.part` on an end of stream or a reset, discards it on a time-out),
and `Crash` is the end of the process: nothing written is lost except a block
that tokio may not have written yet (`dirty`), since `receive_file_data` only
flushes before COMPLETE is acted on.

Choices of abstraction:

* Every job offers the same filename. Jobs with different filenames share
  nothing but the accept loop, so this is the case with the most interaction.
* A file is a sequence of blocks, a DATA frame carries one, and a digest is the
  sequence it was computed from: BLAKE3 is taken to be collision-free.
* The source is read again by every attempt, and can be edited at any time
  (`EditSource`), also while it is being sent.
* A file's metadata are the job they name. Absent, unreadable and other
  metadata lead to the same decision in `prepare_transfer`; removal of the old
  before the rename of the new is therefore one step with it.
* HELLO versions match, filenames are safe and frames are well formed: a
  WarpFile sender produces no others.
* A connection is cut for both ends, each of which keeps a prefix of what was
  under way to it. An end that never learns of the loss is not modelled: no
  read of the code has a time-out, and such a receiver serves nobody
  (docs/ARCHITECTURE.md lists it as a limitation).
* Nobody else writes `.part`, receipts or the destination.

### Sender03 and Receiver03

The same conventions. What is new:

* The sender looks at the source's size after connecting and at its contents while
  it scans: `ScanChunk` is one turn of `send_source_chunks_v03` (read a chunk, compare
  it with the inventory, send its frames if the receiver lacks it). A frame that the
  receiver or the sender would refuse has no action; `FramesAdmissible` shows that
  none ever comes to be read.
* `.part` is written in place (`WritePart`), and `linked` says that it and the
  destination are two names of one file, in which case both change. `Unlinks` is the
  platform: `promote_link` removes the first name on Windows and keeps it on Linux.
* `prior` is the content of `.part` before the last write as long as tokio may not
  have performed it; a crash or a failed write may fall back to it
  (`WriteSettles`), until `persist_verified_chunk` has flushed.
* `.warpchunks` holds the layout's size and a set of records. Replacing it is two
  steps (`ForgetChunks`, `RecordChunk`), as the old file is removed before the new
  one is renamed.
* The receiver has no REJECT: each error ends the session (`close`), which the sender
  cannot tell from a loss and retries.
* A hole reads as the block `Zero`; chunk contents in the instances may be equal to a
  hole.

### Storage and Records

A behaviour follows one record (`kind`) from file operation to file operation; a
process can be killed and restarted, any operation can fail and the power can go
between any two. `tree` is what the processes see, `disk` what a power failure leaves
of it; a file that was not synced may come back without its contents. A process that
writes a record holds the temporary file's handle (`pinned`) until it has validated the
publication. The two platforms differ in what a second process can do meanwhile: Linux
renames a name, whoever made it; Windows renames the handle and lets nobody else open
the file. Any of the names may hold something that is not a regular file (`Foreign`)
from the start; it does not change during a behaviour. Metadata and chunk state have
one writer, the receipt has two, as `publish_completion_receipt` is written for that.

### Discovery and Commands

One command line is read (`ReadLine`) and one search runs, on a host that may itself
run a receiver. `Serves` is the version of each host's receiver: `run_receiver` has a
responder (`Responders`), `run_receiver_v03` has none, so a datagram to its port is
`Unheard`, as docs/PROTOCOL_V03.md:700 has it; the version of `send` has no influence on the
search. An IPv4 address is the set of its one bits, so that broadcast
addresses and networks are computed as the code does. Datagrams are a set: each may be
lost, delivered, or delivered and kept (a duplicate), in any order. `Tick` is the
passing of time; what is still on its way when the window closes is late. `resets` are
the hosts whose next `recv_from` reports that an earlier answer met no listener; only
the hosts in `Reporting` do so. `disturbed` remembers that something was lost, late or
could not be sent. An interface whose own address is the last of its network (that of a
/32, or of one end of a /31) is not searched: the 0.2 receiver at the other end of such a
/31 is missed, although docs/PROTOCOL.md:1610-1614 excepts only /32, and `Reachable` leaves
exactly this network out. A search for "discover" lists what it finds, one for "send" resolves
the name. The `tailscale` program is taken to answer; it is called without a time-out.

### Payloads, Framing, Documents and Inventory

An operator that may refuse its argument returns the set of what it accepts: one
element, or none. Widths are parameters, so that a limit is reached by a handful of
values: a byte has 25 of them, lengths one byte, counts and sizes two. `Framing` has a
writer, a stream of bytes that may break at any of them, and a reader that takes one
byte after the other, as `read_exact` does. In a behaviour of `Inventory` either chunks
are recorded in any order, saved, the document altered or not, and announced in a new
session; or a message of any type, with values at and beyond its limits, is written and
read by ends of equal or different versions, and the job it offered is saved as
metadata or as a receipt and read again. `AlterDocument` is what another program or
version may have left: one field missing, of another kind or with another value, chunks
out of order or twice, hexadecimal text with a letter that is none, cut, or in upper
case. JSON itself is serde's and external: a document is its fields, or `Junk`.

### Properties

For 0.2. Safety: `ReceiptAttested`, `FinalHasReceipt`, `SuccessIsDelivered`,
`StreamAgreement`, `NoRetransmission`, `MetadataNamesWriter`,
`CompletePartKept`, the action property `WrittenOnce`, and the refinement
`Delivers`. Liveness: `JobsEnd`, `LossIsSurvived`. Each is stated with its
meaning in `Wfp02.tla`.

For 0.3 (`Wfp03.tla`). Safety: `FramesAdmissible`, `AssemblyAgreement`,
`KnownChunksHeld`, `AssembledIsAttested`, `VerifiedIsTrue`, `SuccessIsDelivered`,
and the refinement `Delivers`. Liveness: `JobsEnd`, `LossIsSurvived`.
`FinalHasReceipt` and `ConflictsArePermanent` say what the documentation says and
are violated.

For the records (`Records.tla`): `VisibleIsWhole`, `HandlesExclude`,
`AcknowledgedStays`, and the action properties `ReceiptWrittenOnce`, `OldKeptForNew`,
`ForeignKept`. For discovery (`Discovery.tla`): `UndisturbedFindsAll`,
`NoSilentChoice`, `LineReadsAlike`, the action property `EndsOnReportOnly` and the
liveness property `SearchEnds`; `RemainsDiscoverable` says what the documentation says
and is violated. For encodings (`Framing.tla`, `Inventory.tla`):
`MessagesArriveWhole`, `InventoryArrives`, `RangesPartition`, `SavedReadsBack`.

`attested` is a history variable: the contents a job sent a COMPLETE digest of.

## Runs

| run | instance | shows |
|---|---|---|
| `one` | 1 job, 3 attempts, 2 faults, 1 edit, files of 0 to 2 blocks | the two ends agree on the stream and the files, and fewer losses than attempts are survived; 407 thousand states |
| `two` | 2 jobs, 2 attempts each, 2 faults, files of one length that differ | the commit, the inductive invariant and the refinement when jobs collide; 1.86 million states |
| `live` | 2 jobs, 2 attempts, 1 fault, prefixes of each other | every started job ends; 399 thousand states |
| `other` | 2 jobs, 2 attempts, 1 fault, files of one length that differ | **violated**: another job destroys the complete `.part` of an interrupted commit |
| `chunks` | 1 job, 3 attempts, 2 faults, 1 edit, chunks of 2 blocks, files of 0, 1 and 3 blocks | inventory, assembly and commit of a 0.3 transfer; it ends, and losses are survived; 781 thousand states |
| `shared` | 2 jobs, 2 attempts each, 2 cuts, chunks of 1 block, files of 1 and 2 blocks, `.part` unlinked | 0.3 jobs that share a `.part`; the refinement; 1.03 million states |
| `linked` | 2 jobs, 1 attempt, no fault, `.part` kept | **violated**: a committed file is written to |
| `conflict` | 1 job, 3 attempts, 1 fault, 1 edit | **violated**: a receiver conflict is retried |
| `records` | 2 values, 2 processes for the receipt, both platforms, faults without bound | records are whole, receipts stay, foreign entries stay; 441 thousand states |
| `discovery` | 4 hosts (one of them searching, one of them of 0.3), a network, a /31 and a tailnet, window of 2 ticks, lines of up to 4 arguments | the line is read alike, the search ends, finds all it can reach and never chooses; 1.45 million states |
| `answered` | the same | **violated**: an answer that comes too late ends a receiver |
| `inventory` | files of 0 to 6 bytes and the largest, chunks of 1, 2 and the largest, batches of 2 records at most, every message | what is recorded, saved, altered and announced arrives; frames arrive whole; 222 thousand states |

Bounds. Three attempts is the code's `MAX_SEND_ATTEMPTS`; two attempts are enough where
two jobs meet, as what one attempt leaves on disk is all the next one sees. Two
faults let a crash follow a crash or a failed write follow a cut, the deepest case the
error paths distinguish (a discard that fails after a data error). Files of two
blocks over two values contain each relation a resume can meet: empty, equal,
prefix, same length but different, longer. `Window` = 2 lets DATA, COMPLETE and
CANCEL be under way together. In 0.3 the files have no chunk, a short one, and a full
and a short one; they agree in the first, in the second or in no chunk, and some have a
chunk of hole bytes; `MaxBatch` = 1 makes an inventory of two records take two frames;
`Window` lets the frames of a chunk and COMPLETE be under way together. `shared` takes
cuts only, so that the second job meets the first job's files; crashes and failed
writes are the business of `chunks`. Symmetry over jobs is used for safety only.
`records` bounds nothing but the files that can exist: crashes, power failures and
restarts come as often as they like. In `discovery` one host has two addresses and
is found twice under one name, in the two networks; one is reached in one way only and bears
the default name, as its COMPUTERNAME is blank, and has the other end of a /31 too, where it
is not searched; a 0.3 receiver in the tailnet bears the first one's name; the searching host runs a receiver that bears
the first one's name; and the user may type a name in another case. One foreign datagram is
under way at a time, since its contents do not matter and it may be delivered any number
of times. In `inventory` a payload holds two chunk records and not three, so that a book of
none, one, two and three records makes no frame, one short frame, one full one, and a
full and a short one; sizes include the largest of their width, where rounding up by
adding would overflow; and a frame can be cut at each byte.

Fairness. Each program is weakly fair as a whole: an enabled sender or receiver takes
some step. The steps are executed by a runtime that runs every ready task, and
in no state is there an infinite sequence of steps of one program alone, so
nothing stronger is assumed. In `Discovery` the searching program is weakly fair, and with
it the passing of time (`SearchRuns` contains `Tick`); neither the responders nor the
delivery of any datagram are. Starts, cancels, edits, faults and restarts after a
crash are not fair.

### Findings

`other`: `CompletePartKept` says what the comment at src/receiver.rs:245-251 and
docs/PROTOCOL.md section 23 say, that a complete `.part` with a receipt stays
until a later connection commits it. It holds for one job (`one`). With two it does
not: the second job's OFFER looks up its own receipt only. In the run the two files have one
length and differ, so its sender answers RESUME with RESTART, which discards the first
job's file, whose retry is then rejected; with other lengths an unusable size discards the
file at the OFFER, and where one is a prefix of the other it is adopted and appended to. What still holds is
`SuccessIsDelivered`: nobody is told of a success that is not there.

`linked`: `FinalHasReceipt` is docs/ARCHITECTURE.md:863, "the receiver never exposes the
final filename before complete size and BLAKE3 validation". On Linux the 0.3 commit
leaves `.part` and the destination two names of one file. The next job with that filename
is not turned away by the existing destination: it opens that `.part`, resizes it and
writes its chunks into it, so that the delivered file changes although the job is
refused at promotion in the end. No failure is needed. With `Unlinks` and no failing
promotion the property holds, as a part of `Delivers` in `shared`. (With a failing one
it cannot: `promote_link` then leaves two names on Windows also, and a completed file
that cannot be read at the next OFFER is taken for another's.)

`conflict`: docs/PROTOCOL_V03.md:674 counts "receiver conflicts" among the permanent
failures that "abort without retry". The 0.3 receiver tells of a conflict by closing the
connection, and the sender retries every end of stream. In the shortest trace the receipt
is published, the promotion fails, and the source has another size at the retry.

`answered`: docs/ARCHITECTURE.md:1220-1222 says that a receiver (of 0.2, which has a responder) remains discoverable
while it waits for or processes transfers. The responder's `recv_from` is followed by
`?` (src/discovery.rs:66), and `select!` ends the receive loop with it. On a platform
whose UDP sockets report a peer without a listener (Windows; the search ignores that
report, src/discovery.rs:267), an answer that arrives when the search is over and its
socket closed is enough. `EndsOnReportOnly` shows that this and an answer that cannot be
sent are the only ways: nothing that can be sent to the port ends a receiver.

## Proofs

The theorems hold for every value of the constants that satisfies the modules'
assumptions (`WireAssumption`, `SenderAssumption`, `ChunksAssumption`,
`RecordAssumption`, `StorageAssumption`, `RecordsAssumption`, `DiscoveryAssumption`,
`LinesAssumption` and those of the encodings): bounds are positive, two constants that
stand for different things differ, files are sequences of blocks, an address has one
owner, a destination is typed as a
name or an address, and there is room for two files (`MaxFiles`; a new file is created
while there is room, so that TLC may bound what 0.2 and 0.3 take as unbounded). TLC
evaluates each of them in some run.

### WFP/0.2 (`Wfp02Proofs`)

For any number of jobs, blocks, attempts, faults and edits:

| theorem | property |
|---|---|
| `InvHolds` | `Spec => []Inv` |
| `Types`, `ReceiptsAreAttested`, `FinalsAreReceipted`, `SuccessesAreDelivered` | the invariants `TypeOK`, `ReceiptAttested`, `FinalHasReceipt`, `SuccessIsDelivered` |
| `CommitsOnce` | `Spec => WrittenOnce` |
| `DeliversPromise` | `Spec => Delivers`, the refinement of `Delivery` |

None of the safety properties is inductive: a success comes from a VERIFIED
that was written several steps earlier by another process. `Inv` adds what
connects them. `PartInv`: from hashing on, the `.part` is what was hashed.
`FreeInv`: while a `.part` is worked on the destination is free, so nothing is
replaced. `CommitInv`: each control state of the commit implies the previous
step was done. `ChannelInv`: every COMPLETE under way carries an attested
digest, and every VERIFIED under way belongs to a job whose receipt is what the
destination shows; it is stated as membership of the queues in `Seq` of a set of
messages, so that `Append`, `Tail` and `SubSeq` keep it by the lemmas of
`WireProofs`, and it survives the commit of others because these sets only grow.
`SenderKeeps` and `ReceiverKeeps` are what one program owes the other: proving
each step means proving its own side and these, and two lemmas join them.

### The 0.2 session (`Wfp02Proofs`, second part)

For any number of jobs, contents, attempts, faults and edits:

| theorem | property |
|---|---|
| `SessionHolds` | `Spec => []SessionInv` |
| `StreamsAlwaysAgree`, `NothingIsRetransmitted`, `MetadataIsTheWriters` | the invariants `StreamAgreement`, `NoRetransmission`, `MetadataNamesWriter` |
| `CompletePartIsKept` | with one job, `Spec => []CompletePartKept` |

These are about both ends of one connection and the frames between them, and what one
end knows of the other is never in its own state. `SessionInv` is inductive relative to
`Inv`:

* `EndsInv` says for each control state of the receiver where the sender of the served
  connection may be, and what is under way in each direction (`InOffer`, `InResume`,
  `InData`). `Follows` is the heart of it: the frames under way are the next ones of
  what the sender hashed after what the receiver holds, all of them unless the
  connection was cut, and COMPLETE is the last. What is taken (`FlowSteps`,
  `FollowsMoves`), added (`FollowsGrows`, `FollowsEnds`) or lost (`FollowsBreaks`) keeps it.
* `ConnInv` and `JobInv` make the served connection the only one of which this has to be
  said: one is accepted at a time, one in the backlog carries at most a HELLO, and none
  exists of an attempt still to come.
* `LatestInv` orders the connections of one job: from the OFFER on, what is served is
  never followed by a later connection that got any answer.
* `WorkInv` and `AskedInv` carry "no receipt yet" from `reconcile` to the sender: nothing
  is prepared, received or discarded, and no ACCEPT or RESUME is under way, for a job
  that has its receipt. `NoRetransmission` follows, and, as no other job discards its
  `.part`, `CompletePartIsKept`; the run `other` shows that its hypothesis is needed.

### WFP/0.3 (`Wfp03Proofs`)

For any number of jobs, files, chunk and batch sizes:

| theorem | property |
|---|---|
| `InvHolds` | `Spec => []Inv`, with crashes, failed writes and either platform |
| `Types`, `VerifiedMeansAttested` | the invariants `TypeOK`, `VerifiedIsTrue` |
| `SuccessesAreDelivered` | `Unlinks` implies `LossySpec => []SuccessIsDelivered` |
| `DeliversPromise` | `Unlinks` implies `LossySpec => Delivers` |

The last two need both hypotheses, and `shared` checks them under the same: where the
first name is kept, or a promotion fails half-way, a later job writes into the
delivered file (`linked` below *Findings*), and the promise is false. `Inv` is built as
that of 0.2. `Conveys` says which frames a direction may carry; the COMPLETEs of a
connection are attested by its job, which is `AnnouncedAll`. `StepInv` and `CommitInv`
say what each control state of the receiver knows of its job, its layout and its digest;
`ReceiptAttested` that a receipt stands for what its job attested. The types are the
longest part: that the frames of a chunk, and the batches that an ordered inventory is cut
into, have their types is a lemma each (`ChunkFramesTypes`, `BatchTypes`,
`InventoryTypes`). `LossInv` adds, for the refinement, that two names of one file last for
one step (`LinkedBriefly`) and that what is shown stays (`ShownStays`).

### The file of a 0.3 session (`Wfp03SessionProofs`)

All three theorems are of `Spec`, hence for any number of jobs, any contents, chunk size
and size of a batch, with connection losses, crashes, restarts and failed writes.

`WhatIsKnownIsHeld` proves `KnownChunksHeld`. `HeldInv` is inductive relative to `Inv`:
what `LoadInventory` takes over was looked up in the `.part`; cutting or extending the
file leaves every chunk that lies within both sizes (`SameChunk`); a byte of the chunk
under way lies in no other chunk (`ChunksApart`, for any chunk size); and a chunk is
recorded when all its bytes are there (`ActiveHeld`, `WholeChunk`).

`TheFileIsAssembled` (`AssemblyAgreement`) and `WhatIsAssembledIsAttested`
(`AssembledIsAttested`) relate the two programs. Neither is inductive: what is in the
file says nothing of what the next frame will be. `SessionInv`, inductive relative to
`Inv` and `HeldInv`, says for every control state of the receiver what can be under way
on the connection it serves and where the sender at its other end is:

* `ConnInv`, `JobInv`: one connection is served at a time, one that waits in the backlog
  has at most a HELLO, and a job that has no connection has left nothing on its next one;
  so a new session never meets frames of an earlier attempt.
* `ScanInv`: how far a job is in its source, by the chunk it is at.
* `PeerInv`, by the receiver's control state: in `HelloInv`, `OfferInv` and `EarlyInv` the
  exchange of HELLO, HELLO_ACK and the offer, one frame at a time; in `ListInv` what is
  offered and accepted is known to the receiver, and a record stays known as long as the
  scanner has not passed it (`Ahead`: recording a chunk removes only records of that
  index, and a START is written only once the scanner is past it); in `StreamInv` there is a
  content, the sender's `read` while it is connected, of which every frame under way and
  the chunk being written come (`ComesOf`, `Begun`), COMPLETE last, and none of whose
  bytes is missing (`BytesIn`): each is brought by a DATA frame under way or is in the
  `.part`.

The step that carries the argument is a chunk the scanner skips: its record is still known
(`Ahead`), so by `HeldInv` the `.part` has bytes of the recorded digest, which are the ones
read. When COMPLETE is read nothing else is under way and all of the file was read, so
the `.part` is the content it claims. A loss of the connection drops frames from the
end (`LossKept`): COMPLETE is the last, so where it is left all is left, and where it is
not the session cannot complete; either way what is left comes of the same content.

### The order of a 0.3 session (`Wfp03OrderProofs`)

`NoFrameIsRefused` proves `FramesAdmissible` for `Spec`, hence for any number of jobs, any
contents, chunk size and size of a batch, with connection losses, crashes, restarts,
failed writes and edits: no START comes out of order, for a chunk that is held or while
another is open, no DATA at another offset or with other bytes than its chunk's digest
stands for, no COMPLETE before each chunk is recorded, and no batch of the inventory that
is empty, out of order or more than was counted. The last step is easy and the invariant
is not: what the next frame may be depends on what both ends have done with the records
since the session began. `OrderInv` (`OrderHolds`), inductive relative to `Inv` and
`SessionInv`, has five parts:

* `LayoutInv`: what is recorded, on disk and in memory, lies in the layout of its size, one
  record to a chunk, and `from` is the chunk after the one under way.
* `CursorInv`: the cursor of a scan parts its records at the next chunk, so a record is
  neither passed over nor used twice.
* `DownInv`, for every job that reads an inventory, also one whose receiver has gone: there
  is an ordered list of records of which it has read the first, the batches under way are
  the following ones of `MaxBatch` each (`Batches`), all together no more than RESUME
  counted; while its receiver waits for it the list has all that the receiver knows.
* `DoneInv`: nothing is under way to a job whose file is being committed, so that VERIFIED is
  never taken for a part of an inventory.
* `FlowInv`, of the frames under way to the receiver: of two that follow each other, DATA
  come after their START and each other without a gap, and START and COMPLETE only after
  ACCEPT or the end of a chunk (`Flows`); STARTs ascend from `from` and none is of a record
  that is known (`StartsFrom`, `Ascends`); the first is what the receiver's state asks for
  (`Expects`); the bytes of the open chunk are so far those of its digest (`GotInv`); and
  each chunk that the scanner has passed is known, open or under way (`Counted`), as is
  every chunk once COMPLETE is.

A step takes a frame (`FlowTaken`), adds some (`GrowFlow`) or loses the last ones
(`UnheardFlow`). What a scan writes joins what is under way because its last frame ends
a chunk (`Settled`), and what it leaves out is known: a record it uses has not been
replaced (`Ahead` of `SessionInv`). COMPLETE is taken with nothing else under way, hence
each chunk is known, and as no two records are of one chunk there are as many as chunks
(`AllKnown`). It needs `RecordAssumption`: that there is no record is not a record.

### Record files (`RecordsProofs`)

For any number of files, values and processes, on both platforms: `RecordTypes`
(`TypeOK`), `WholeRecords` (`VisibleIsWhole`), `WindowsHandlesExclude`
(`HandlesExclude`), `AcknowledgedReceipts` (`AcknowledgedStays`), and the action
properties `ReceiptsAreWrittenOnce` (`ReceiptWrittenOnce`), `OldRecordsAreKept`
(`OldKeptForNew`) and `ForeignEntriesAreKept` (`ForeignKept`). The inductive invariant
`RecordInv` adds to them `StageInv` (the steps a kind of record goes through),
`HandleInv` (a file that is being written is open in one process only: this is what a
new inode per temporary file gives, and what makes the rest independent of how many
there are), `FileInv` (before the rename the file is whole and synced) and `DiskInv`
(what the disk may lack of the tree).

### Discovery (`DiscoveryProofs`)

For any hosts of either version, addresses, interfaces, tailnet, names and lines: `DiscoveryTypes`
(`TypeOK`), `AllAreFound` (`UndisturbedFindsAll`), `ChoicesAreNotSilent`
(`NoSilentChoice`) and the action property `ReceiversEndOnReports`
(`EndsOnReportOnly`). `DiscoveryInv` adds where every receiver that can be reached is
while nothing is lost (`Heard`): it is still to be asked, its DISCOVER or ANNOUNCE is
under way, or it is found; that every ANNOUNCE is a 0.2 receiver's (`Sound`); and that a device is found once (`FoundInv`), from which it
follows that a name with two matches is never resolved.

### Layout (`InventoryProofs`)

`RangesAlwaysPartition` proves `RangesPartition` for every size and chunk size of any
width: the chunks tile the file, none is empty, and no intermediate result leaves the
width. It rests on lemmas about the division that rounds up.

### Model-checked only

* `MessagesArriveWhole`, `InventoryArrives`, `SavedReadsBack`, `LineReadsAlike`: what
  they say of every message, book, document or line is an induction over data, which is
  out of the provers' reach.
* Liveness: `JobsEnd`, `LossIsSurvived`, `SearchEnds`.

## Plan

1. Writes that outlive their session: a file write in flight when a 0.3 session ends
   may reach `.part` after the next session has begun.

## Not modelled

* Connections that one end believes open and the other has lost: no read has a
  time-out, and docs/ARCHITECTURE.md lists it as a limitation.
* A write in flight that lands in a later 0.3 session (plan).
* Symbolic links and reparse points beyond "not a regular file", entries swapped
  between two system calls of one storage operation, flags of system calls: they are
  the operating system's.
* `ChunkManifestBuilder`, `remove_completion_receipt` and `respond_to_discovery_once`:
  only tests call them.
* Progress output, wording of messages, JSON and UTF-8 parsing, BLAKE3, random Transfer
  IDs (two jobs never have one): they decide nothing, or are libraries'.
* The Tailscale program, and a `tailscale status` that never returns.
