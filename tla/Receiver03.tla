----------------------------- MODULE Receiver03 -----------------------------
(***************************************************************************)
(* The WFP/0.3 receiver, src/receiver_v03.rs: one process that serves one  *)
(* connection at a time, and the files it keeps between connections.       *)
(* Every job offers the same filename and the same chunk size.  The .part  *)
(* has the full size from the start and chunks are written in place; the   *)
(* verified ones are recorded in <filename>.part.warpchunks.               *)
(*                                                                         *)
(* A session that meets an error ends without a REJECT and removes nothing.*)
(* Every change of the disk is a step of its own, as in Receiver02.        *)
(***************************************************************************)
EXTENDS Chunks

CONSTANT Unlinks    \* promote_link removes the .part's own name (Windows)

ASSUME UnlinksAssumption == Unlinks \in BOOLEAN

VARIABLES
    rcv,        \* the receiving process
    part,       \* <filename>.part
    chunks,     \* <filename>.part.warpchunks
    final,      \* the destination file
    linked,     \* .part and destination are two names of one file
    receipt     \* the completion receipt of each job

disk == <<part, chunks, final, linked, receipt>>
receiverVars == <<rcv, part, chunks, final, linked, receipt>>

(* The process is between two connections, at a read of the current one,   *)
(* about to take the step its name says, or down.                          *)
Waiting == {"hello", "offer", "inventory", "data"}
Working == {"reconcile", "prepare", "open", "resize", "forget", "record",
            "verify", "publish", "link", "promoted", "cleanup"}
ReceiverPc == Waiting \cup Working
                \cup {"down", "accept", "negotiate", "verified", "close"}

ReceiverTypeOK ==
    /\ rcv \in [ pc     : ReceiverPc,
                 conn   : Conns \cup {None},
                 size   : Nat,                   \* of the OFFER
                 known  : SUBSET Record,         \* chunk_state
                 from   : Nat,                   \* last_chunk_index + 1
                 active : Record \cup {None},    \* the chunk under way
                 got    : Content,               \* its bytes so far
                 claim  : Content,               \* sender_file_hash
                 prior  : Content \cup {None} ]  \* .part before the last
                                                 \* write, while in flight
    /\ part \in Content \cup {None}
    /\ chunks \in [size : Nat, records : SUBSET Record] \cup {None}
    /\ final \in Content \cup {None}
    /\ linked \in BOOLEAN
    /\ receipt \in [Jobs -> Content \cup {None}]

Idle == [ pc |-> "accept", conn |-> None, size |-> 0, known |-> {},
          from |-> 0, active |-> None, got |-> <<>>, claim |-> <<>>,
          prior |-> None ]

ReceiverInit ==
    /\ rcv = Idle
    /\ part = None
    /\ chunks = None
    /\ final = None
    /\ linked = FALSE
    /\ receipt = [j \in Jobs |-> None]

-----------------------------------------------------------------------------
At(pc) == rcv.pc = pc
Step(pc) == rcv' = [rcv EXCEPT !.pc = pc]

(* The Transfer ID of the current OFFER. *)
Job == rcv.conn[1]

Gets(pc, type) == At(pc) /\ NextUp(rcv.conn, type)
Frame == Head(net[rcv.conn].up)
TakeFrame == net' = TakeUp(net, rcv.conn)

(* receive_session_v03 returns: back to the accept loop. *)
Finish(n) ==
    /\ net' = DropReceiver(n, rcv.conn)
    /\ rcv' = Idle

(* The bytes of .part change, under both its names. *)
WritePart(bytes) ==
    /\ part' = bytes
    /\ final' = IF linked THEN bytes ELSE final

-----------------------------------------------------------------------------
(* Handshake *)

Accept(c) ==
    /\ At("accept")
    /\ net[c].rcvEnd = "backlog"
    /\ net' = [net EXCEPT ![c].rcvEnd = "accepted"]
    /\ rcv' = [Idle EXCEPT !.pc = "hello", !.conn = c]
    /\ UNCHANGED <<disk, listening, faults>>

AnswerHello ==
    /\ Gets("hello", "HELLO")
    /\ net' = Down(TakeUp(net, rcv.conn), rcv.conn, Bare("HELLO_ACK"))
    /\ Step("offer")
    /\ UNCHANGED <<disk, listening, faults>>

ReadOffer ==
    /\ Gets("offer", "OFFER")
    /\ TakeFrame
    /\ rcv' = [rcv EXCEPT !.pc = "reconcile", !.size = Frame.size]
    /\ UNCHANGED <<disk, listening, faults>>

-----------------------------------------------------------------------------
(* reconcile_completed_transfer_v03 *)

Receipt == receipt[Job]
Conflicts == Receipt # None /\ Len(Receipt) # rcv.size

(* Mutant: a receipt vouches for any file of its size. *)
VouchesForSize(file) == Receipt # None /\ file # None /\ Len(file) = Len(Receipt)

VouchesFor(file) == Receipt # None /\ file = Receipt

ReceiptConflicts ==
    /\ At("reconcile")
    /\ Conflicts
    /\ Step("close")
    /\ UNCHANGED <<disk, wireVars>>

FinalReconciled ==
    /\ At("reconcile")
    /\ ~ Conflicts
    /\ final # None
    /\ VouchesFor(final)
    /\ Step("verified")
    /\ UNCHANGED <<disk, wireVars>>

PartReconciled ==
    /\ At("reconcile")
    /\ ~ Conflicts
    /\ final = None
    /\ VouchesFor(part)
    /\ Step("link")
    /\ UNCHANGED <<disk, wireVars>>

(* No receipt, or one whose file is not there: an ordinary transfer, even  *)
(* when the destination exists.                                            *)
NotReconciled ==
    /\ At("reconcile")
    /\ ~ Conflicts
    /\ IF final # None THEN ~ VouchesFor(final) ELSE ~ VouchesFor(part)
    /\ Step("prepare")
    /\ UNCHANGED <<disk, wireVars>>

-----------------------------------------------------------------------------
(* prepare_receiver_v03 *)

(* Mutant: what was recorded is believed. *)
StillHoldsRecorded(records) == records

(* revalidate_chunk_state: of the recorded chunks, those the .part holds. *)
StillHolds(records) ==
    {r \in records : part # None /\ Holds(part, rcv.size, r)}

(* prepare_chunk_inventory: records of another layout are not even looked  *)
(* at.                                                                     *)
LoadInventory ==
    /\ At("prepare")
    /\ LET ofLayout == chunks # None /\ chunks.size = rcv.size IN
          rcv' = [rcv EXCEPT !.pc = "open",
                             !.known = IF ofLayout THEN StillHolds(chunks.records)
                                       ELSE {}]
    /\ UNCHANGED <<disk, wireVars>>

(* prepare_v03_partial_file: the .part is opened or created ... *)
OpenPart ==
    /\ At("open")
    /\ part' = IF part = None THEN <<>> ELSE part
    /\ Step(IF part # None /\ Len(part) = rcv.size THEN "negotiate" ELSE "resize")
    /\ UNCHANGED <<chunks, final, linked, receipt, wireVars>>

(* ... and cut or extended to the offered size. *)
ResizePart ==
    /\ At("resize")
    /\ WritePart([k \in 1 .. rcv.size |-> IF k <= Len(part) THEN part[k] ELSE Zero])
    /\ Step("negotiate")
    /\ UNCHANGED <<chunks, linked, receipt, wireVars>>

SendInventory ==
    /\ At("negotiate")
    /\ \E all \in InOrder(rcv.known) : net' = DownAll(net, rcv.conn, Inventory(all))
    /\ Step("inventory")
    /\ UNCHANGED <<disk, listening, faults>>

InventoryAccepted ==
    /\ Gets("inventory", "ACCEPT")
    /\ TakeFrame
    /\ Step("data")
    /\ UNCHANGED <<disk, listening, faults>>

-----------------------------------------------------------------------------
(* receive_transfer *)

(* begin_chunk: one chunk at a time, in order, none that is already held. *)
Begins(frame) ==
    /\ rcv.active = None
    /\ frame.index < ChunkCount(rcv.size)
    /\ frame.index >= rcv.from
    /\ [index |-> frame.index, hash |-> frame.hash] \notin rcv.known

ReadChunkStart ==
    /\ Gets("data", "CHUNK_START")
    /\ Begins(Frame)
    /\ TakeFrame
    /\ rcv' = [rcv EXCEPT !.active = [index |-> Frame.index, hash |-> Frame.hash],
                          !.got = <<>>, !.from = Frame.index + 1]
    /\ UNCHANGED <<disk, listening, faults>>

(* write_data: the next byte of the chunk, and the digest of a whole one. *)
NextOffset == ChunkStart(rcv.active.index) + Len(rcv.got)
EndsChunk == NextOffset + 1 = ChunkEnd(rcv.active.index, rcv.size)

Continues(frame) ==
    /\ rcv.active # None
    /\ frame.offset = NextOffset
    /\ frame.offset < ChunkEnd(rcv.active.index, rcv.size)
    /\ EndsChunk => Append(rcv.got, frame.block) = rcv.active.hash

ReadData ==
    /\ Gets("data", "DATA")
    /\ Continues(Frame)
    /\ TakeFrame
    /\ WritePart([part EXCEPT ![Frame.offset + 1] = Frame.block])
    /\ rcv' = [rcv EXCEPT !.pc = IF EndsChunk THEN "forget" ELSE "data",
                          !.got = Append(@, Frame.block), !.prior = part]
    /\ UNCHANGED <<chunks, linked, receipt, listening, faults>>

(* persist_verified_chunk: the data are synced and the new records written *)
(* to a temporary file; then the old records are removed ...               *)
ForgetChunks ==
    /\ At("forget")
    /\ chunks' = None
    /\ rcv' = [rcv EXCEPT !.pc = "record", !.prior = None]
    /\ UNCHANGED <<part, final, linked, receipt, wireVars>>

(* ... and the new ones renamed into their place. *)
RecordChunk ==
    /\ At("record")
    /\ LET records == Recorded(rcv.known, rcv.active) IN
          /\ chunks' = [size |-> rcv.size, records |-> records]
          /\ rcv' = [rcv EXCEPT !.pc = "data", !.known = records, !.active = None]
    /\ UNCHANGED <<part, final, linked, receipt, wireVars>>

(* COMPLETE: between two chunks, when there is a record of each. *)
Completes ==
    /\ rcv.active = None
    /\ Cardinality(rcv.known) = ChunkCount(rcv.size)

ReadComplete ==
    /\ Gets("data", "COMPLETE")
    /\ Completes
    /\ TakeFrame
    /\ rcv' = [rcv EXCEPT !.pc = "verify", !.claim = Frame.body, !.prior = None]
    /\ UNCHANGED <<disk, listening, faults>>

-----------------------------------------------------------------------------
(* finalize, and the promotion of reconcile_completed_transfer_v03 *)

(* The assembled file is read again, as a whole. *)
VerifyFile ==
    /\ At("verify")
    /\ Step(IF part = rcv.claim THEN "publish" ELSE "close")
    /\ UNCHANGED <<disk, wireVars>>

(* write_completion_receipt never replaces a receipt that differs. *)
PublishReceipt ==
    /\ At("publish")
    /\ IF Receipt \in {None, rcv.claim}
       THEN /\ receipt' = [receipt EXCEPT ![Job] = rcv.claim]
            /\ Step("link")
       ELSE /\ Step("close")
            /\ UNCHANGED receipt
    /\ UNCHANGED <<part, chunks, final, linked, wireVars>>

(* Mutant: the destination is replaced. *)
LinkReplacing ==
    /\ At("link")
    /\ final' = part
    /\ linked' = TRUE
    /\ Step("promoted")
    /\ UNCHANGED <<part, chunks, receipt, wireVars>>

(* promote_link: a destination that exists is not replaced. *)
Link ==
    /\ At("link")
    /\ IF final = None
       THEN /\ final' = part
            /\ linked' = TRUE
            /\ Step("promoted")
       ELSE /\ Step("close")
            /\ UNCHANGED <<final, linked>>
    /\ UNCHANGED <<part, chunks, receipt, wireVars>>

(* The destination is checked to be the file that was verified; only on    *)
(* Windows is the name of the .part then removed.                          *)
Promoted ==
    /\ At("promoted")
    /\ part' = IF Unlinks THEN None ELSE part
    /\ linked' = ~ Unlinks
    /\ Step("cleanup")
    /\ UNCHANGED <<chunks, final, receipt, wireVars>>

CleanUp ==
    /\ At("cleanup")
    /\ chunks' = None
    /\ Step("verified")
    /\ UNCHANGED <<part, final, linked, receipt, wireVars>>

SendVerified ==
    /\ At("verified")
    /\ Finish(Down(net, rcv.conn, Bare("VERIFIED")))
    /\ UNCHANGED <<disk, listening, faults>>

Close ==
    /\ At("close")
    /\ Finish(net)
    /\ UNCHANGED <<disk, listening, faults>>

-----------------------------------------------------------------------------
(* Failures *)

(* Mutant: the end of the stream is not noticed in the middle of the data. *)
LoseSenderBetweenChunks ==
    /\ rcv.pc \in Waiting \ {"data"}
    /\ net[rcv.conn].up = <<>>
    /\ SenderGone(rcv.conn)
    /\ Step("close")
    /\ UNCHANGED <<disk, wireVars>>

LoseSender ==
    /\ rcv.pc \in Waiting
    /\ net[rcv.conn].up = <<>>
    /\ SenderGone(rcv.conn)
    /\ Step("close")
    /\ UNCHANGED <<disk, wireVars>>

(* What becomes of a write in flight when the process or the write fails. *)
WriteSettles ==
    \/ UNCHANGED <<part, final>>
    \/ rcv.prior # None /\ WritePart(rcv.prior)

(* Mutant: a failed promotion is taken for a failed clean-up. *)
AfterStorageErrorWarned ==
    IF rcv.pc \in {"link", "cleanup"} THEN {"verified"} ELSE {"close"}

(* The session ends, but the clean-up is best effort, and a completed file *)
(* that cannot be read is one that is not the receipt's.                   *)
AfterStorageError ==
    IF At("cleanup") THEN {"verified"}
    ELSE IF At("reconcile") /\ Receipt # None /\ ~ Conflicts
         THEN {"close", "prepare"}
    ELSE {"close"}

(* A file operation fails. *)
StorageFails ==
    /\ rcv.pc \in Working \cup {"data"}
    /\ Fault
    /\ \E pc \in AfterStorageError : rcv' = [rcv EXCEPT !.pc = pc, !.prior = None]
    /\ WriteSettles
    /\ UNCHANGED <<chunks, linked, receipt, net, listening>>

(* The process ends.  Every connection it had, accepted or in the backlog, *)
(* is closed; what it had already answered may still arrive.               *)
Crash ==
    /\ ~ At("down")
    /\ Fault
    /\ listening' = FALSE
    /\ \E arrives \in BOOLEAN :
          net' = [c \in Conns |->
                    IF net[c].rcvEnd \in {"backlog", "accepted"}
                    THEN [net[c] EXCEPT !.rcvEnd = "closed", !.up = <<>>,
                                        !.down = IF arrives THEN @ ELSE <<>>]
                    ELSE net[c]]
    /\ rcv' = [Idle EXCEPT !.pc = "down"]
    /\ WriteSettles
    /\ UNCHANGED <<chunks, linked, receipt>>

Restart ==
    /\ At("down")
    /\ listening' = TRUE
    /\ Step("accept")
    /\ UNCHANGED <<disk, net, faults>>

(* What the receiver does by itself. *)
ReceiverRuns ==
    \/ \E c \in Conns : Accept(c)
    \/ AnswerHello \/ ReadOffer
    \/ ReceiptConflicts \/ FinalReconciled \/ PartReconciled \/ NotReconciled
    \/ LoadInventory \/ OpenPart \/ ResizePart
    \/ SendInventory \/ InventoryAccepted
    \/ ReadChunkStart \/ ReadData \/ ForgetChunks \/ RecordChunk \/ ReadComplete
    \/ VerifyFile \/ PublishReceipt \/ Link \/ Promoted \/ CleanUp
    \/ SendVerified \/ Close \/ LoseSender

(* What its storage and its machine do to it. *)
ReceiverDisturbed == StorageFails \/ Crash
=============================================================================
