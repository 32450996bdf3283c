------------------------------- MODULE Wfp03 -------------------------------
(***************************************************************************)
(* A WFP/0.3 transfer end to end: the jobs of Sender03 and the receiver of *)
(* Receiver03 over the connections of Wire.                                *)
(***************************************************************************)
EXTENDS Sender03, Receiver03

vars == <<wireVars, senderVars, receiverVars>>

Init == WireInit /\ SenderInit /\ ReceiverInit

(* The programs themselves, ... *)
Runs ==
    \/ \E j \in Jobs : SenderRuns(j) /\ UNCHANGED receiverVars
    \/ ReceiverRuns /\ UNCHANGED senderVars
    \/ Restart /\ UNCHANGED senderVars

(* ... what happens to them ... *)
Disturbed ==
    \/ \E j \in Jobs : SenderDisturbed(j) /\ UNCHANGED receiverVars
    \/ ReceiverDisturbed /\ UNCHANGED senderVars
    \/ \E c \in Conns : Cut(c) /\ UNCHANGED <<senderVars, receiverVars>>

(* ... and the rest when every job has ended and the receiver is idle. *)
Quiet ==
    /\ \A j \in Jobs : snd[j].pc \in Ended
    /\ At("accept")
    /\ \A c \in Conns : net[c].rcvEnd # "backlog"
    /\ UNCHANGED vars

Next == Runs \/ Disturbed \/ Quiet

Spec == Init /\ [][Next]_vars

(* The same while the network alone misbehaves and nobody edits a source. *)
LossyNext ==
    \/ Runs
    \/ \E j \in Jobs : Start(j) /\ UNCHANGED receiverVars
    \/ \E c \in Conns : Cut(c) /\ UNCHANGED <<senderVars, receiverVars>>
    \/ Quiet

(* Each program runs while it can; nothing is assumed of its user, of its  *)
(* storage and of the network, nor that a receiver that ended is started   *)
(* again.                                                                  *)
Fairness ==
    /\ \A j \in Jobs : WF_vars(SenderRuns(j) /\ UNCHANGED receiverVars)
    /\ WF_vars(ReceiverRuns /\ UNCHANGED senderVars)

FairSpec == Spec /\ Fairness
LossySpec == Init /\ [][LossyNext]_vars /\ Fairness

-----------------------------------------------------------------------------
(* Safety *)

Connection03 == [ up     : Seq(Frames03),
                  down   : Seq(Frames03),
                  sndEnd : {"open", "closed"},
                  rcvEnd : {"none", "backlog", "accepted", "closed"},
                  cut    : BOOLEAN ]

(* Every variable has its type; no job opens more connections than it may. *)
TypeOK ==
    /\ net \in [Conns -> Connection03]
    /\ listening \in BOOLEAN
    /\ faults \in Nat
    /\ SenderTypeOK
    /\ ReceiverTypeOK

(* Neither program ever meets a frame of the other that it would refuse:   *)
(* the receiver's checks of order, range, offset, digest and coverage, and *)
(* the sender's checks of the inventory (none of which has an action       *)
(* here) never fail between the two, whatever happened before.             *)
AdmitsInData(frame) ==
    CASE frame.type = "CHUNK_START" -> Begins(frame)
      [] frame.type = "DATA"        -> Continues(frame)
      [] frame.type = "COMPLETE"    -> Completes
      [] OTHER                      -> FALSE

FitsLayout(j, records) ==
    /\ Len(records) <= ChunkCount(snd[j].size)
    /\ \A n \in DOMAIN records :
          /\ records[n].index < ChunkCount(snd[j].size)
          /\ n > 1 => records[n - 1].index < records[n].index

FramesAdmissible ==
    /\ At("data") /\ net[rcv.conn].up # <<>> => AdmitsInData(Frame)
    /\ \A j \in Jobs :
          /\ FitsLayout(j, snd[j].records)
          /\ snd[j].pc = "inventory" /\ net[Conn(j)].down # <<>> =>
                /\ NextDown(Conn(j), "CHUNK_HASHES")
                /\ LET batch == Head(net[Conn(j)].down).records IN
                      /\ batch # <<>>
                      /\ Len(snd[j].records \o batch) <= snd[j].count
          /\ snd[j].pc = "scan" /\ ~ MoreChunks(j)
                => snd[j].cursor = Len(snd[j].records)

(* Reused chunks, written chunks and DATA under way together are what the  *)
(* sender has read: no byte of the file is left to an earlier content of   *)
(* the .part, to a hole or to another job's data.                          *)
AssemblyAgrees(j) ==
    \A k \in 1 .. Len(snd[j].read) :
        LET coming == {f \in {net[Conn(j)].up[n] : n \in DOMAIN net[Conn(j)].up} :
                          f.type = "DATA" /\ f.offset = k - 1}
        IN  IF coming = {} THEN part[k] = snd[j].read[k]
            ELSE \A f \in coming : f.block = snd[j].read[k]

AssemblyAgreement ==
    \A j \in Jobs :
        /\ rcv.pc \in {"inventory", "data", "forget", "record"}
        /\ rcv.conn = Conn(j) /\ ~ net[Conn(j)].cut
        /\ snd[j].pc \in {"scan", "complete"}
        => AssemblyAgrees(j)

(* What the receiver counts as received is in the .part, except for the    *)
(* chunk it is just overwriting: it may be offered and counted on.         *)
KnownChunksHeld ==
    rcv.pc \in {"negotiate", "inventory", "data", "forget", "record", "verify"} =>
        \A r \in rcv.known :
            \/ rcv.active # None /\ rcv.active.index = r.index
            \/ Holds(part, rcv.size, r)

(* The final check of the whole file is redundant: what the chunks were    *)
(* assembled to is what the sender read, hashed and announced.             *)
AssembledIsAttested ==
    At("verify") => part = rcv.claim /\ rcv.claim \in attested[Job]

(* VERIFIED is written only while the destination shows what the job's own *)
(* receipt stands for and what the job once announced, after whatever      *)
(* failures, crashes and retries led there.                                *)
VerifiedIsTrue ==
    At("verified") => final # None /\ final = Receipt /\ final \in attested[Job]

(* A job that reports success has its file at the destination.             *)
SuccessIsDelivered ==
    \A j \in Jobs : snd[j].pc = "done" => final # None /\ final = receipt[j]

(* "The receiver never exposes the final filename before complete size and *)
(* BLAKE3 validation", docs/ARCHITECTURE.md:863: what the destination      *)
(* shows is what some receipt stands for.                                  *)
FinalHasReceipt == final # None => \E j \in Jobs : final = receipt[j]

(* "Permanent - ... receiver conflicts ... These abort without retry",     *)
(* docs/PROTOCOL_V03.md:674: a job whose receipt contradicts the size it   *)
(* offered does not offer it again, once the receiver has ended a          *)
(* connection that was not lost.                                           *)
ConflictsArePermanent ==
    \A j \in Jobs :
        /\ snd[j].pc = "waiting"
        /\ listening /\ ~ net[Conn(j)].cut
        => receipt[j] = None \/ Len(receipt[j]) = snd[j].size

(* To its users the protocol is Delivery, as 0.2 is. *)
Outcome(j) ==
    IF snd[j].pc = "done" THEN "success"
    ELSE IF snd[j].pc \in Ended THEN "failure"
    ELSE "pending"

Promise == INSTANCE Delivery WITH outcome <- [j \in Jobs |-> Outcome(j)]

(* Every behaviour of the two programs is one that Delivery allows, as long *)
(* as a promoted file keeps no second name: otherwise FinalHasReceipt fails *)
(* and this with it.                                                        *)
Delivers == Promise!Spec

-----------------------------------------------------------------------------
(* Liveness *)

(* A job that is started ends, as a success or not. *)
JobsEnd == \A j \in Jobs : snd[j].pc # "idle" ~> snd[j].pc \in Ended

(* So far only connections were lost, less often than a job may try, and   *)
(* nobody edited a source.                                                 *)
OnlyLosses ==
    /\ faults = Cardinality({c \in Conns : net[c].cut})
    /\ faults < MaxSendAttempts
    /\ edits = 0

(* As long as that is so the file of a started job is delivered, or that   *)
(* of the job that comes first if several have its name.                   *)
LossIsSurvived ==
    (\E j \in Jobs : snd[j].pc # "idle")
        ~> (\E j \in Jobs : snd[j].pc = "done") \/ ~ OnlyLosses
=============================================================================
