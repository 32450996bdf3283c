------------------------------- MODULE Wfp02 -------------------------------
(***************************************************************************)
(* A WFP/0.2 transfer end to end: the jobs of Sender02 and the receiver of *)
(* Receiver02 over the connections of Wire.                                *)
(***************************************************************************)
EXTENDS Sender02, Receiver02, FiniteSets

vars == <<wireVars, senderVars, receiverVars>>

TypeOK == WireTypeOK /\ SenderTypeOK /\ ReceiverTypeOK

Init == WireInit /\ SenderInit /\ ReceiverInit

(* The programs themselves, ... *)
Runs ==
    \/ \E j \in Jobs : SenderRuns(j) /\ UNCHANGED receiverVars
    \/ ReceiverRuns /\ UNCHANGED senderVars
    \/ Restart /\ UNCHANGED senderVars

(* ... what happens to them ... *)
Disturbed ==
    \/ \E j \in Jobs : SenderDisturbed(j) /\ UNCHANGED receiverVars
    \/ ReceiverDisturbed /\ UNCHANGED senderVars
    \/ \E c \in Conns : Cut(c) /\ UNCHANGED <<senderVars, receiverVars>>

(* ... and the rest when every job has ended and the receiver is idle. *)
Quiet ==
    /\ \A j \in Jobs : snd[j].pc \in Ended
    /\ At("accept")
    /\ \A c \in Conns : net[c].rcvEnd # "backlog"
    /\ UNCHANGED vars

Next == Runs \/ Disturbed \/ Quiet

Spec == Init /\ [][Next]_vars

-----------------------------------------------------------------------------
(* Safety *)

(* A receipt never stands for unverified bytes: what it records is exactly *)
(* what its own job read, hashed and announced with COMPLETE.              *)
ReceiptAttested ==
    \A j \in Jobs : receipt[j] # None => receipt[j] \in attested[j]

(* The destination never shows anything but a file for which a receipt was *)
(* published first.                                                        *)
FinalHasReceipt == final # None => \E j \in Jobs : final = receipt[j]

(* A job that reports success has its file at the destination, with the    *)
(* contents of its own receipt, whichever attempt and whichever path (DATA,*)
(* reconciliation of the destination or of the .part) ended it.            *)
SuccessIsDelivered ==
    \A j \in Jobs : snd[j].pc = "done" => final # None /\ final = receipt[j]

(* The bytes the receiver holds and the DATA frames on their way to it are *)
(* together what the sender has hashed: after a resume, a restart, an      *)
(* adoption of another job's .part and edits of the source alike.          *)
DataInFlight(up) ==
    IF up # <<>> /\ up[Len(up)].type = "COMPLETE" THEN Len(up) - 1 ELSE Len(up)

StreamsAgree(j) ==
    LET up == net[Conn(j)].up
        sent == snd[j].hashed
        n == DataInFlight(up)
    IN  /\ part = rcv.hashed
        /\ Len(sent) = Len(part) + n
        /\ part = SubSeq(sent, 1, Len(part))
        /\ \A i \in 1 .. n : up[i] = Carrying("DATA", << sent[Len(part) + i] >>)

StreamAgreement ==
    \A j \in Jobs :
        /\ At("data") /\ rcv.conn = Conn(j)
        /\ snd[j].pc \in {"data", "complete"} /\ ~ net[Conn(j)].cut
        => StreamsAgree(j)

(* A job never sends DATA, nor is asked to, once its receipt exists: a     *)
(* retry after the commit is answered without retransmission.              *)
NoRetransmission ==
    \A j \in Jobs : receipt[j] # None => snd[j].pc \notin {"data", "restart"}

(* The metadata on disk names the job whose DATA is being appended: it was *)
(* persisted before the sender was told to go on.                          *)
MetadataNamesWriter == At("data") => meta = Job

(* Once a receipt exists and until the file is at the destination, the     *)
(* complete .part is kept: "the partial file must not be discarded if      *)
(* rename fails", src/receiver.rs:244.                                     *)
CompletePartKept ==
    \A j \in Jobs : receipt[j] # None /\ final = None => part = receipt[j]

(* Receipts and the destination are written once. *)
WrittenOnce ==
    [][ /\ final # None => final' = final
        /\ \A j \in Jobs : receipt[j] # None => receipt'[j] = receipt[j] ]_vars

-----------------------------------------------------------------------------
(* Why it holds *)

(* A retry is only waited for while attempts remain, the receiver has a    *)
(* connection while it serves one, and only DATA is written through a      *)
(* buffer.                                                                 *)
ProcessInv ==
    /\ \A j \in Jobs : snd[j].pc = "waiting" => snd[j].attempt < MaxSendAttempts
    /\ rcv.pc \notin {"down", "accept"} => rcv.conn \in Conns
    /\ rcv.dirty => At("data")

(* From the moment the receiver has hashed a .part, or created one, it     *)
(* holds what was hashed.                                                  *)
PartInv ==
    rcv.pc \in {"resume", "adopt", "persist", "data", "publish"} => part = rcv.hashed

(* Before discard_partial_state returns, what its caller goes on with.     *)
Discarding(next) == rcv.pc \in {"discard", "discardMeta"} /\ rcv.next = next

(* A .part is only worked on while the destination is free. *)
FreeInv ==
    \/ rcv.pc \in {"prepare", "resume", "adopt", "fresh", "persist", "data",
                   "publish", "promote"}
    \/ Discarding("fresh")
    => final = None

(* The job has its receipt, and this file is what it stands for. *)
Receipted(j, file) == receipt[j] # None /\ file = receipt[j]

(* The order of the commit: attested, receipted, promoted, verified. *)
CommitInv ==
    /\ At("publish") => rcv.hashed \in attested[Job]
    /\ At("promote") => Receipted(Job, part)
    /\ rcv.pc \in {"cleanup", "verified"} \/ Discarding("verified")
          => Receipted(Job, final)

(* A COMPLETE under way is attested, and a VERIFIED under way still holds. *)
Announced(c) ==
    {m \in Message : m.type = "COMPLETE" => m.body \in attested[c[1]]}
Confirmed(c) ==
    {m \in Message : m.type = "VERIFIED" => Receipted(c[1], final)}

ChannelInv ==
    \A c \in Conns : /\ net[c].up \in Seq(Announced(c))
                     /\ net[c].down \in Seq(Confirmed(c))

(* Together these, and the properties they imply, are inductive. *)
Inv ==
    /\ TypeOK
    /\ ProcessInv
    /\ PartInv
    /\ FreeInv
    /\ CommitInv
    /\ ChannelInv
    /\ ReceiptAttested
    /\ FinalHasReceipt
    /\ SuccessIsDelivered

-----------------------------------------------------------------------------
(* What all of this is for *)

(* To its users the protocol is Delivery: a job is pending until its       *)
(* process ends, and only "done" is a success.                             *)
Outcome(j) ==
    IF snd[j].pc = "done" THEN "success"
    ELSE IF snd[j].pc \in Ended THEN "failure"
    ELSE "pending"

Promise == INSTANCE Delivery WITH outcome <- [j \in Jobs |-> Outcome(j)]

(* Every behaviour of the two programs, with whatever cuts, crashes,       *)
(* failed writes and edits, is one that Delivery allows.                   *)
Delivers == Promise!Spec

-----------------------------------------------------------------------------
(* Liveness *)

(* Each program runs while it can; nothing is assumed of its user, of its  *)
(* storage and of the network, nor that a receiver that ended is started   *)
(* again.  That a cut is noticed by both ends is part of SenderRuns and    *)
(* ReceiverRuns.                                                           *)
Fairness ==
    /\ \A j \in Jobs : WF_vars(SenderRuns(j) /\ UNCHANGED receiverVars)
    /\ WF_vars(ReceiverRuns /\ UNCHANGED senderVars)

FairSpec == Spec /\ Fairness

(* Retries are bounded and nobody waits for ever: a job that is started    *)
(* ends, as a success or not.                                              *)
JobsEnd == \A j \in Jobs : snd[j].pc # "idle" ~> snd[j].pc \in Ended

(* So far the network alone has misbehaved, less often than a job may try, *)
(* and nobody gave up or edited a source.                                  *)
OnlyLosses ==
    /\ faults = Cardinality({c \in Conns : net[c].cut})
    /\ faults < MaxSendAttempts
    /\ edits = 0
    /\ \A j \in Jobs : snd[j].pc # "cancelled"

(* As long as that is so a started job succeeds, or the one that got the   *)
(* filename first, wherever the connections were lost: at the handshake,   *)
(* in the DATA, at COMPLETE or at VERIFIED.                                *)
LossIsSurvived ==
    (\E j \in Jobs : snd[j].pc # "idle")
        ~> (\E j \in Jobs : snd[j].pc = "done") \/ ~ OnlyLosses
=============================================================================
