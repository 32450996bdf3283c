----------------------------- MODULE Receiver02 -----------------------------
(***************************************************************************)
(* The WFP/0.2 receiver, src/receiver.rs: one process that serves one      *)
(* connection at a time, and the files it keeps between connections.       *)
(* Every job offers the same filename, so that the jobs meet in one .part  *)
(* file and one destination; each has its own completion receipt.          *)
(*                                                                         *)
(* Every change of the disk is a step of its own, so that a crash can fall *)
(* between any two of them.  A crash is the end of the process, by a       *)
(* signal, a panic or an error of the discovery responder that run_receiver*)
(* races the receive loop with; what was written stays written, except for *)
(* a block whose write had not left tokio's buffer.                        *)
(***************************************************************************)
EXTENDS Wire

VARIABLES
    rcv,        \* the receiving process
    part,       \* <filename>.part
    meta,       \* the job <filename>.part.warpmeta names
    final,      \* the destination file
    receipt     \* the completion receipt of each job

disk == <<part, meta, final, receipt>>
receiverVars == <<rcv, part, meta, final, receipt>>

(* The process is between two connections, at a read of the current one,   *)
(* about to take the step its name says, or down.                          *)
Waiting == {"hello", "offer", "resume", "data"}
ReceiverPc == Waiting \cup
    { "down", "accept", "reconcile", "prepare", "adopt", "fresh", "persist",
      "discard", "discardMeta", "publish", "promote", "cleanup",
      "verified", "reject", "close" }

ReceiverTypeOK ==
    /\ rcv \in [ pc     : ReceiverPc,
                 conn   : Conns \cup {None},
                 size   : Nat,       \* of the OFFER
                 hashed : Content,   \* what the BLAKE3 hasher was fed
                 next   : {"fresh", "verified", "reject", "close"},
                 dirty  : BOOLEAN ]  \* the last write may be in flight
    /\ part \in Content \cup {None}
    /\ meta \in Jobs \cup {None}
    /\ final \in Content \cup {None}
    /\ receipt \in [Jobs -> Content \cup {None}]

ReceiverInit ==
    /\ rcv = [ pc |-> "accept", conn |-> None, size |-> 0, hashed |-> <<>>,
               next |-> "close", dirty |-> FALSE ]
    /\ part = None
    /\ meta = None
    /\ final = None
    /\ receipt = [j \in Jobs |-> None]

-----------------------------------------------------------------------------
At(pc) == rcv.pc = pc
Step(pc) == rcv' = [rcv EXCEPT !.pc = pc]

(* The Transfer ID of the current OFFER. *)
Job == rcv.conn[1]

(* In this wait, the next frame of the connection is of this type. *)
Gets(pc, type) == At(pc) /\ NextUp(rcv.conn, type)
TakeFrame == net' = TakeUp(net, rcv.conn)
Reply(n, m) == net' = Down(n, rcv.conn, m)

(* receive_connection returns: back to the accept loop. *)
Finish(n) ==
    /\ net' = DropReceiver(n, rcv.conn)
    /\ rcv' = [rcv EXCEPT !.pc = "accept", !.conn = None, !.dirty = FALSE]

(* discard_partial_state, and what its caller does next. *)
Discard(next) ==
    rcv' = [rcv EXCEPT !.pc = "discard", !.next = next, !.dirty = FALSE]

-----------------------------------------------------------------------------
(* Handshake *)

Accept(c) ==
    /\ At("accept")
    /\ net[c].rcvEnd = "backlog"
    /\ net' = [net EXCEPT ![c].rcvEnd = "accepted"]
    /\ rcv' = [rcv EXCEPT !.pc = "hello", !.conn = c]
    /\ UNCHANGED <<disk, listening, faults>>

AnswerHello ==
    /\ Gets("hello", "HELLO")
    /\ Reply(TakeUp(net, rcv.conn), Bare("HELLO_ACK"))
    /\ Step("offer")
    /\ UNCHANGED <<disk, listening, faults>>

ReadOffer ==
    /\ Gets("offer", "OFFER")
    /\ TakeFrame
    /\ rcv' = [rcv EXCEPT !.pc = "reconcile",
                          !.size = Head(net[rcv.conn].up).size]
    /\ UNCHANGED <<disk, listening, faults>>

-----------------------------------------------------------------------------
(* reconcile_completed_transfer, and the FILE_EXISTS check after it *)

(* Mutant: a receipt vouches for any file of its size. *)
MatchesReceiptSize(file) ==
    file # None /\ receipt[Job] # None /\ Len(file) = Len(receipt[Job])

MatchesReceipt(file) == file = receipt[Job]
Conflicts == Len(receipt[Job]) # rcv.size

(* Mutant: FILE_EXISTS is not checked. *)
NothingToReconcileNoExistsCheck ==
    /\ At("reconcile")
    /\ receipt[Job] = None
    /\ Step("prepare")
    /\ UNCHANGED <<disk, wireVars>>

(* Mutant: a receipt only counts when the destination exists. *)
NothingToReconcileWithoutFinal ==
    /\ At("reconcile")
    /\ receipt[Job] = None \/ final = None
    /\ Step(IF final = None THEN "prepare" ELSE "reject")
    /\ UNCHANGED <<disk, wireVars>>

NothingToReconcile ==
    /\ At("reconcile")
    /\ receipt[Job] = None
    /\ Step(IF final = None THEN "prepare" ELSE "reject")
    /\ UNCHANGED <<disk, wireVars>>

ReconcileFinal ==
    /\ At("reconcile")
    /\ receipt[Job] # None
    /\ ~ Conflicts
    /\ final # None
    /\ MatchesReceipt(final)
    /\ Discard("verified")
    /\ UNCHANGED <<disk, wireVars>>

ReconcilePart ==
    /\ At("reconcile")
    /\ receipt[Job] # None
    /\ ~ Conflicts
    /\ final = None
    /\ part # None
    /\ MatchesReceipt(part)
    /\ Step("promote")
    /\ UNCHANGED <<disk, wireVars>>

(* A receipt whose file is neither at the destination nor complete in the  *)
(* .part proves nothing.                                                   *)
ReconcileFails ==
    /\ At("reconcile")
    /\ receipt[Job] # None
    /\ \/ Conflicts
       \/ final # None /\ ~ MatchesReceipt(final)
       \/ final = None /\ (part = None \/ ~ MatchesReceipt(part))
    /\ Step("reject")
    /\ UNCHANGED <<disk, wireVars>>

-----------------------------------------------------------------------------
(* prepare_transfer and prepare_fresh_transfer *)

PrepareWithoutPart ==
    /\ At("prepare")
    /\ part = None
    /\ Step("fresh")
    /\ UNCHANGED <<disk, wireVars>>

UsablePart == Len(part) > 0 /\ Len(part) <= rcv.size

PrepareUnusablePart ==
    /\ At("prepare")
    /\ part # None
    /\ ~ UsablePart
    /\ Discard("fresh")
    /\ UNCHANGED <<disk, wireVars>>

(* The hasher is fed the whole .part; RESUME carries its length and digest.*)
RequestResume ==
    /\ At("prepare")
    /\ part # None
    /\ UsablePart
    /\ Reply(net, Carrying("RESUME", part))
    /\ rcv' = [rcv EXCEPT !.pc = "resume", !.hashed = part]
    /\ UNCHANGED <<disk, listening, faults>>

(* Mutant: the .part is taken over without rewriting its metadata. *)
ResumeAcceptedWithoutAdoption ==
    /\ Gets("resume", "ACCEPT")
    /\ TakeFrame
    /\ Step("data")
    /\ UNCHANGED <<disk, listening, faults>>

ResumeAccepted ==
    /\ Gets("resume", "ACCEPT")
    /\ TakeFrame
    /\ Step(IF meta = Job THEN "data" ELSE "adopt")
    /\ UNCHANGED <<disk, listening, faults>>

(* The .part of another transfer, or of none that is known, becomes this   *)
(* one's.                                                                  *)
Adopt ==
    /\ At("adopt")
    /\ meta' = Job
    /\ Step("data")
    /\ UNCHANGED <<part, final, receipt, wireVars>>

(* RESTART discards and starts again; any other answer discards and ends.  *)
ResumeRefused ==
    /\ At("resume")
    /\ net[rcv.conn].up # <<>>
    /\ ~ NextUp(rcv.conn, "ACCEPT")
    /\ TakeFrame
    /\ Discard(IF NextUp(rcv.conn, "RESTART") THEN "fresh" ELSE "close")
    /\ UNCHANGED <<disk, listening, faults>>

(* Stale metadata goes first; create_new then makes an empty .part. *)
CreatePart ==
    /\ At("fresh")
    /\ part = None
    /\ meta' = None
    /\ part' = <<>>
    /\ rcv' = [rcv EXCEPT !.pc = "persist", !.hashed = <<>>]
    /\ UNCHANGED <<final, receipt, wireVars>>

(* The metadata is written before ACCEPT tells the sender to go on. *)
PersistMetadata ==
    /\ At("persist")
    /\ meta' = Job
    /\ Reply(net, Bare("ACCEPT"))
    /\ Step("data")
    /\ UNCHANGED <<part, final, receipt, listening, faults>>

(* The write of ACCEPT itself fails: nothing is worth keeping yet. *)
AcceptFails ==
    /\ At("persist")
    /\ SenderGone(rcv.conn)
    /\ meta' = Job
    /\ Discard("close")
    /\ UNCHANGED <<part, final, receipt, wireVars>>

-----------------------------------------------------------------------------
(* receive_file_data *)

FitsOffer(bytes) == Len(rcv.hashed) + Len(bytes) <= rcv.size

(* Mutant: the last byte completes the file, before COMPLETE comes. *)
ReadDataUntilSize ==
    /\ Gets("data", "DATA")
    /\ LET bytes == Head(net[rcv.conn].up).body
           whole == Len(rcv.hashed \o bytes) = rcv.size
       IN
          /\ FitsOffer(bytes)
          /\ part' = part \o bytes
          /\ rcv' = [rcv EXCEPT !.hashed = @ \o bytes, !.dirty = ~ whole,
                                !.pc = IF whole THEN "publish" ELSE "data"]
    /\ TakeFrame
    /\ UNCHANGED <<meta, final, receipt, listening, faults>>

ReadData ==
    /\ Gets("data", "DATA")
    /\ LET bytes == Head(net[rcv.conn].up).body IN
          /\ FitsOffer(bytes)
          /\ part' = part \o bytes
          /\ rcv' = [rcv EXCEPT !.hashed = @ \o bytes, !.dirty = TRUE]
    /\ TakeFrame
    /\ UNCHANGED <<meta, final, receipt, listening, faults>>

ReadTooMuchData ==
    /\ Gets("data", "DATA")
    /\ ~ FitsOffer(Head(net[rcv.conn].up).body)
    /\ TakeFrame
    /\ Discard("close")
    /\ UNCHANGED <<disk, listening, faults>>

(* COMPLETE: flush and sync, then size and digest. *)
Complete(digest) == Len(rcv.hashed) = rcv.size /\ digest = rcv.hashed

(* Mutant: the receipt is published before the data is flushed. *)
ReadCompleteWithoutFlush ==
    /\ Gets("data", "COMPLETE")
    /\ TakeFrame
    /\ IF Complete(Head(net[rcv.conn].up).body) THEN Step("publish") ELSE Discard("close")
    /\ UNCHANGED <<disk, listening, faults>>

(* Mutant: the file is promoted without a receipt. *)
ReadCompleteWithoutReceipt ==
    /\ Gets("data", "COMPLETE")
    /\ TakeFrame
    /\ IF Complete(Head(net[rcv.conn].up).body)
       THEN rcv' = [rcv EXCEPT !.pc = "promote", !.dirty = FALSE]
       ELSE Discard("close")
    /\ UNCHANGED <<disk, listening, faults>>

ReadComplete ==
    /\ Gets("data", "COMPLETE")
    /\ TakeFrame
    /\ IF Complete(Head(net[rcv.conn].up).body)
       THEN rcv' = [rcv EXCEPT !.pc = "publish", !.dirty = FALSE]
       ELSE Discard("close")
    /\ UNCHANGED <<disk, listening, faults>>

ReadCancel ==
    /\ Gets("data", "CANCEL")
    /\ TakeFrame
    /\ Discard("close")
    /\ UNCHANGED <<disk, listening, faults>>

-----------------------------------------------------------------------------
(* The commit *)

(* write_completion_receipt never replaces a receipt that differs. *)
PublishReceipt ==
    /\ At("publish")
    /\ IF receipt[Job] \in {None, rcv.hashed}
       THEN /\ receipt' = [receipt EXCEPT ![Job] = rcv.hashed]
            /\ Step("promote")
       ELSE /\ Step("close")
            /\ UNCHANGED receipt
    /\ UNCHANGED <<part, meta, final, wireVars>>

(* promote_rename replaces whatever is at the destination. *)
Promote ==
    /\ At("promote")
    /\ final' = part
    /\ part' = None
    /\ Step("cleanup")
    /\ UNCHANGED <<meta, receipt, wireVars>>

CleanUp ==
    /\ At("cleanup")
    /\ meta' = None
    /\ Step("verified")
    /\ UNCHANGED <<part, final, receipt, wireVars>>

SendVerified ==
    /\ At("verified")
    /\ Finish(Down(net, rcv.conn, Bare("VERIFIED")))
    /\ UNCHANGED <<disk, listening, faults>>

SendReject ==
    /\ At("reject")
    /\ Finish(Down(net, rcv.conn, Bare("REJECT")))
    /\ UNCHANGED <<disk, listening, faults>>

Close ==
    /\ At("close")
    /\ Finish(net)
    /\ UNCHANGED <<disk, listening, faults>>

DiscardPart ==
    /\ At("discard")
    /\ part' = None
    /\ Step("discardMeta")
    /\ UNCHANGED <<meta, final, receipt, wireVars>>

DiscardMetadata ==
    /\ At("discardMeta")
    /\ meta' = None
    /\ Step(rcv.next)
    /\ UNCHANGED <<part, final, receipt, wireVars>>

-----------------------------------------------------------------------------
(* Failures *)

(* Mutant: the end of the stream is not noticed in the middle of the data. *)
LoseSenderBetweenFrames(preserve) ==
    /\ rcv.pc \in Waiting \ {"data"}
    /\ net[rcv.conn].up = <<>>
    /\ SenderGone(rcv.conn)
    /\ preserve
    /\ Step("close")
    /\ UNCHANGED <<disk, wireVars>>

(* read_frame fails.  should_preserve_partial keeps the .part for an end   *)
(* of stream or a reset, and discards it for any other error, a time-out   *)
(* of the connection for one.                                              *)
LoseSender(preserve) ==
    /\ rcv.pc \in Waiting
    /\ net[rcv.conn].up = <<>>
    /\ SenderGone(rcv.conn)
    /\ preserve \/ net[rcv.conn].cut
    /\ IF preserve \/ rcv.pc \in {"hello", "offer"}
       THEN rcv' = [rcv EXCEPT !.pc = "close", !.dirty = FALSE]
       ELSE Discard("close")
    /\ UNCHANGED <<disk, wireVars>>

(* Mutant: a failed rename is only warned about. *)
AfterStorageErrorWarned ==
    IF rcv.pc \in {"promote", "cleanup"} THEN {"verified"}
    ELSE IF rcv.pc \in {"discard", "discardMeta"} THEN {rcv.next}
    ELSE {"reject"}

(* Where an error of a file operation leads: some are answered with a      *)
(* REJECT and some are not.  A .part that a receipt stands for is kept; the*)
(* cleanups are best effort.                                               *)
AfterStorageError ==
    CASE rcv.pc \in {"reconcile", "prepare"}        -> {"reject", "close"}
      [] At("fresh")                                -> {"reject"}
      [] rcv.pc \in {"adopt", "publish", "promote"} -> {"close"}
      [] At("cleanup")                              -> {"verified"}
      [] rcv.pc \in {"discard", "discardMeta"} ->
            {IF rcv.next = "fresh" THEN "reject" ELSE rcv.next}

StorageFails ==
    /\ rcv.pc \in {"reconcile", "prepare", "fresh", "adopt", "publish",
                   "promote", "cleanup", "discard", "discardMeta"}
    /\ Fault
    /\ \E pc \in AfterStorageError : Step(pc)
    /\ UNCHANGED <<disk, net, listening>>

(* The metadata of a fresh .part or a write of its data fails: the .part   *)
(* is discarded.                                                           *)
WriteFails ==
    /\ rcv.pc \in {"persist", "data"}
    /\ Fault
    /\ Discard(IF At("persist") THEN "reject" ELSE "close")
    /\ UNCHANGED <<disk, net, listening>>

(* The process ends.  Every connection it had, accepted or in the backlog, *)
(* is closed; what it had already answered may still arrive.               *)
Crash ==
    /\ ~ At("down")
    /\ Fault
    /\ listening' = FALSE
    /\ \E arrives \in BOOLEAN :
          net' = [c \in Conns |->
                    IF net[c].rcvEnd \in {"backlog", "accepted"}
                    THEN [net[c] EXCEPT !.rcvEnd = "closed", !.up = <<>>,
                                        !.down = IF arrives THEN @ ELSE <<>>]
                    ELSE net[c]]
    /\ rcv' = [rcv EXCEPT !.pc = "down", !.conn = None, !.dirty = FALSE]
    /\ \/ part' = part
       \/ rcv.dirty /\ part' = SubSeq(part, 1, Len(part) - 1)
    /\ UNCHANGED <<meta, final, receipt>>

Restart ==
    /\ At("down")
    /\ listening' = TRUE
    /\ Step("accept")
    /\ UNCHANGED <<disk, net, faults>>

(* What the receiver does by itself. *)
ReceiverRuns ==
    \/ \E c \in Conns : Accept(c)
    \/ AnswerHello \/ ReadOffer
    \/ NothingToReconcile \/ ReconcileFinal \/ ReconcilePart \/ ReconcileFails
    \/ PrepareWithoutPart \/ PrepareUnusablePart \/ RequestResume
    \/ ResumeAccepted \/ Adopt \/ ResumeRefused
    \/ CreatePart \/ PersistMetadata \/ AcceptFails
    \/ ReadData \/ ReadTooMuchData \/ ReadComplete \/ ReadCancel
    \/ PublishReceipt \/ Promote \/ CleanUp
    \/ SendVerified \/ SendReject \/ Close
    \/ DiscardPart \/ DiscardMetadata
    \/ \E preserve \in BOOLEAN : LoseSender(preserve)

(* What its storage and its machine do to it. *)
ReceiverDisturbed == StorageFails \/ WriteFails \/ Crash
=============================================================================
