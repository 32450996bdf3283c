----------------------------- MODULE Wfp02Proofs -----------------------------
(***************************************************************************)
(* Inv is inductive, for any number of jobs, any contents, any number of   *)
(* attempts and faults; and with it the two programs implement Delivery.   *)
(* SessionInv is what the two ends of a session owe each other, whatever   *)
(* is lost: where the receiver is tells where the sender is, and the       *)
(* frames between them are what the sender has hashed and the receiver has *)
(* not.                                                                    *)
(***************************************************************************)
EXTENDS Wfp02, WireProofs

(* Inv by the variables it speaks of. *)
AnnouncedAll == [c \in Conns |-> Announced(c)]
ConfirmedAll == [c \in Conns |-> Confirmed(c)]

NetInv ==
    /\ Carries(net, AnnouncedAll, ConfirmedAll)
    /\ listening \in BOOLEAN
    /\ faults \in Nat

JobState == [pc : SenderPc, attempt : 1 .. MaxSendAttempts, size : Nat, hashed : Content]

SenderInv ==
    /\ SenderTypeOK
    /\ \A j \in Jobs : snd[j].pc = "waiting" => snd[j].attempt < MaxSendAttempts

ReceiverInv ==
    /\ ReceiverTypeOK
    /\ rcv.pc \notin {"down", "accept"} => rcv.conn \in Conns
    /\ rcv.dirty => At("data")
    /\ PartInv
    /\ FreeInv
    /\ CommitInv

Committed == ReceiptAttested /\ FinalHasReceipt /\ SuccessIsDelivered

LEMMA InvParts ==
    /\ Inv <=> NetInv /\ SenderInv /\ ReceiverInv /\ Committed
    /\ Inv' <=> NetInv' /\ SenderInv' /\ ReceiverInv' /\ Committed'
BY DEF Inv, TypeOK, WireTypeOK, ProcessInv, ChannelInv, NetInv, SenderInv,
       ReceiverInv, Committed, Carries, Nets, AnnouncedAll, ConfirmedAll

-----------------------------------------------------------------------------
(* What a step of a sender owes the rest: it may announce more, and a job  *)
(* that becomes done has what its receipt stands for at the destination.   *)
SenderKeeps ==
    /\ Carries(net', AnnouncedAll', ConfirmedAll)
    /\ listening' \in BOOLEAN
    /\ faults' \in Nat
    /\ SenderInv'
    /\ \A j \in Jobs : attested[j] \subseteq attested'[j]
    /\ \A j \in Jobs : snd'[j].pc = "done" => snd[j].pc = "done" \/ Receipted(j, final)

LEMMA SenderKeepsInv ==
    ASSUME Inv, SenderKeeps, UNCHANGED receiverVars
    PROVE  Inv'
<1>1. NetInv /\ SenderInv /\ ReceiverInv /\ Committed
  BY InvParts
<1>2. NetInv'
  <2>1. ConfirmedAll' = ConfirmedAll
    BY DEF ConfirmedAll, Confirmed, Receipted, receiverVars
  <2>2. QED
    BY <2>1 DEF SenderKeeps, NetInv
<1>3. ReceiverInv'
  <2>1. CommitInv'
    <3>1. At("publish") => Job \in Jobs
      BY <1>1 DEF ReceiverInv, At, Job, Conns
    <3>2. QED
      BY <1>1, <3>1 DEF ReceiverInv, CommitInv, At, Job, Receipted, Discarding,
                        SenderKeeps, receiverVars
  <2>2. QED
    BY <1>1, <2>1 DEF ReceiverInv, ReceiverTypeOK, PartInv, FreeInv, At, Discarding,
                      receiverVars
<1>4. Committed'
  BY <1>1 DEF Committed, ReceiptAttested, FinalHasReceipt, SuccessIsDelivered,
              Receipted, SenderKeeps, receiverVars
<1>5. QED
  BY <1>2, <1>3, <1>4, InvParts DEF SenderKeeps

-----------------------------------------------------------------------------
(* A step of a sender that announces no COMPLETE: one job becomes r, and   *)
(* the connections carry no more than before.                              *)
LEMMA JobMoves ==
    ASSUME SenderInv, NEW j \in Jobs, NEW r \in JobState,
           snd' = [i \in Jobs |-> IF i = j THEN r ELSE snd[i]],
           r.pc = "waiting" => r.attempt < MaxSendAttempts,
           r.pc = "done" => Receipted(j, final),
           UNCHANGED <<src, edits, attested, listening>>,
           listening \in BOOLEAN, faults' \in Nat,
           Carries(net', AnnouncedAll, ConfirmedAll)
    PROVE  SenderKeeps
<1>1. SenderInv'
  BY DEF SenderInv, SenderTypeOK, JobState
<1>2. AnnouncedAll' = AnnouncedAll
  BY DEF AnnouncedAll, Announced
<1>3. QED
  BY <1>1, <1>2 DEF SenderKeeps, SenderInv, SenderTypeOK

(* What a job finds before its step. *)
LEMMA JobState0 ==
    ASSUME Inv, NEW j \in Jobs
    PROVE  /\ SenderInv
           /\ Conn(j) \in Conns
           /\ snd[j] \in JobState
           /\ snd \in [Jobs -> JobState]
           /\ src[j] \in Content
           /\ Len(src[j]) \in Nat
           /\ Carries(net, AnnouncedAll, ConfirmedAll)
           /\ listening \in BOOLEAN
           /\ faults \in Nat
           /\ \A m \in Message : m.type # "COMPLETE" => m \in AnnouncedAll[Conn(j)]
           /\ \A m \in ConfirmedAll[Conn(j)] : m.type = "VERIFIED" => Receipted(j, final)
<1>1. NetInv /\ SenderInv
  BY InvParts
<1>2. Conn(j) \in Conns /\ Conn(j)[1] = j
  BY <1>1 DEF SenderInv, SenderTypeOK, Conn, Conns
<1>3. src[j] \in Content /\ Len(src[j]) \in Nat
  BY <1>1, SenderAssumption, LenProperties DEF SenderInv, SenderTypeOK, Content
<1>4. /\ AnnouncedAll[Conn(j)] = Announced(Conn(j))
      /\ ConfirmedAll[Conn(j)] = Confirmed(Conn(j))
  BY <1>2 DEF AnnouncedAll, ConfirmedAll
<1>5. QED
  BY <1>1, <1>2, <1>3, <1>4
     DEF NetInv, SenderInv, SenderTypeOK, JobState, Announced, Confirmed

-----------------------------------------------------------------------------
(* Every action of a sender, one lemma for each that writes or reads a     *)
(* frame, and one for those that only change the job.                      *)
LEMMA LocalSteps ==
    ASSUME Inv, NEW j \in Jobs,
           Start(j) \/ ConnectRefused(j) \/ Retry(j) \/ CancelWhileWaiting(j)
    PROVE  SenderKeeps
<1> USE JobState0
<1>1. PICK r \in JobState :
         /\ snd' = [i \in Jobs |-> IF i = j THEN r ELSE snd[i]]
         /\ r.pc = "waiting" => r.attempt < MaxSendAttempts
         /\ r.pc # "done"
  <2>1. CASE Start(j)
    <3> DEFINE r == [snd[j] EXCEPT !.pc = "connect", !.size = Len(src[j])]
    <3> r \in JobState /\ r.pc = "connect"
      BY DEF JobState, SenderPc
    <3> snd' = [i \in Jobs |-> IF i = j THEN r ELSE snd[i]]
      BY <2>1 DEF Start
    <3> QED
      OBVIOUS
  <2>2. CASE ConnectRefused(j)
    <3> DEFINE r == [snd[j] EXCEPT !.pc = AfterLoss(j)]
    <3> r \in JobState /\ (r.pc = "waiting" => r.attempt < MaxSendAttempts) /\ r.pc # "done"
      BY DEF JobState, SenderPc, Ended, AfterLoss
    <3> snd' = [i \in Jobs |-> IF i = j THEN r ELSE snd[i]]
      BY <2>2 DEF ConnectRefused, Goto
    <3> QED
      OBVIOUS
  <2>3. CASE Retry(j)
    <3> DEFINE r == [snd[j] EXCEPT !.pc = "connect", !.attempt = @ + 1]
    <3> r \in JobState /\ r.pc = "connect"
      BY <2>3, WireAssumption DEF JobState, SenderPc, Retry, SenderInv
    <3> snd' = [i \in Jobs |-> IF i = j THEN r ELSE snd[i]]
      BY <2>3 DEF Retry
    <3> QED
      OBVIOUS
  <2>4. CASE CancelWhileWaiting(j)
    <3> DEFINE r == [snd[j] EXCEPT !.pc = "cancelled"]
    <3> r \in JobState /\ r.pc = "cancelled"
      BY DEF JobState, SenderPc, Ended
    <3> snd' = [i \in Jobs |-> IF i = j THEN r ELSE snd[i]]
      BY <2>4 DEF CancelWhileWaiting, Goto
    <3> QED
      OBVIOUS
  <2>5. QED
    BY <2>1, <2>2, <2>3, <2>4
<1>2. UNCHANGED <<src, edits, attested, wireVars>>
  BY DEF Start, ConnectRefused, Retry, CancelWhileWaiting
<1>3. QED
  BY <1>1, <1>2, JobMoves DEF wireVars

(* A job moves on within its connection, which then carries n.             *)
LEMMA GoesOn ==
    ASSUME Inv, NEW j \in Jobs,
           NEW pc \in SenderPc \ {"waiting", "done"}, NEW hashed \in Content,
           snd' = [snd EXCEPT ![j].pc = pc, ![j].hashed = hashed],
           Carries(net', AnnouncedAll, ConfirmedAll),
           UNCHANGED <<src, edits, attested, listening, faults>>
    PROVE  SenderKeeps
<1> USE JobState0
<1> DEFINE r == [snd[j] EXCEPT !.pc = pc, !.hashed = hashed]
<1>1. r \in JobState /\ r.pc = pc
  BY DEF JobState
<1>2. snd' = [i \in Jobs |-> IF i = j THEN r ELSE snd[i]]
  OBVIOUS
<1> HIDE DEF r
<1>3. QED
  BY <1>1, <1>2, JobMoves

(* A job leaves its connection. *)
LEMMA Leaves ==
    ASSUME Inv, NEW j \in Jobs, NEW pc \in SenderPc, Leave(j, pc),
           pc = "waiting" => snd[j].attempt < MaxSendAttempts,
           pc = "done" => Receipted(j, final),
           UNCHANGED <<src, edits, attested, listening>>, faults' \in Nat
    PROVE  SenderKeeps
<1> USE JobState0
<1> DEFINE r == [snd[j] EXCEPT !.pc = pc]
<1>1. r \in JobState /\ r.pc = pc /\ r.attempt = snd[j].attempt
  BY DEF JobState
<1>2. snd' = [i \in Jobs |-> IF i = j THEN r ELSE snd[i]]
  BY DEF Leave, Goto
<1>3. Carries(net', AnnouncedAll, ConfirmedAll)
  BY DropReads DEF Leave
<1> HIDE DEF r
<1>4. QED
  BY <1>1, <1>2, <1>3, JobMoves

LEMMA LeavingSteps ==
    ASSUME Inv, NEW j \in Jobs,
           \/ Rejected(j) \/ Verified(j) \/ ResumeSourceTooShort(j)
           \/ SourceSizeChanged(j) \/ Abort(j) \/ LoseReceiver(j)
    PROVE  SenderKeeps
<1> USE JobState0
<1>1. CASE Rejected(j)
  BY <1>1, Leaves DEF Rejected, SenderPc, Ended
<1>2. CASE Verified(j)
  <2>1. NextDown(Conn(j), "VERIFIED")
    BY <1>2 DEF Verified, Reads
  <2>2. Receipted(j, final)
    BY <2>1, TakeDownReads DEF NextDown
  <2>3. QED
    BY <1>2, <2>2, Leaves DEF Verified, SenderPc, Ended
<1>3. CASE ResumeSourceTooShort(j)
  BY <1>3, Leaves DEF ResumeSourceTooShort, SenderPc, Ended
<1>4. CASE SourceSizeChanged(j)
  BY <1>4, Leaves DEF SourceSizeChanged, SenderPc, Ended
<1>5. CASE Abort(j)
  BY <1>5, Leaves DEF Abort, Fault, SenderPc, Ended
<1>6. CASE LoseReceiver(j)
  BY <1>6, Leaves DEF LoseReceiver, AfterLoss, SenderPc, Ended
<1>7. QED
  BY <1>1, <1>2, <1>3, <1>4, <1>5, <1>6

LEMMA HandshakeSteps ==
    ASSUME Inv, NEW j \in Jobs,
           Connect(j) \/ SendOffer(j) \/ FreshAccepted(j)
    PROVE  SenderKeeps
<1> USE JobState0
<1> DEFINE c == Conn(j)
<1>1. <<>> \in Content /\ snd[j].hashed \in Content /\ snd[j].size \in Nat
  BY EmptySeq DEF Content, JobState
<1>2. snd[j] = [pc |-> snd[j].pc, attempt |-> snd[j].attempt,
                size |-> snd[j].size, hashed |-> snd[j].hashed]
  BY DEF JobState
<1>3. CASE Connect(j)
  <2>1. Bare("HELLO") \in Message /\ Bare("HELLO") \in AnnouncedAll[c]
    BY FrameTypes DEF MessageType, Bare
  <2>2. \A S : <<>> \in Seq(S)
    BY EmptySeq
  <2>3. \A S : Bare("HELLO") \in S => << Bare("HELLO") >> \in Seq(S)
    OBVIOUS
  <2>4. Opened \in Connection /\ Opened.up \in Seq(AnnouncedAll[c])
        /\ Opened.down \in Seq(ConfirmedAll[c])
    BY <2>1, <2>2, <2>3 DEF Opened, Connection
  <2>5. net' = [net EXCEPT ![c] = Opened]
    BY <1>3 DEF Connect
  <2> HIDE DEF c
  <2>6. Carries(net', AnnouncedAll, ConfirmedAll)
    BY <2>4, <2>5 DEF Carries, Nets
  <2>7. QED
    BY <1>1, <1>3, <2>6, GoesOn DEF Connect, SenderPc, Reading
<1>4. CASE SendOffer(j)
  <2> DEFINE m == Offer(snd[j].size)
  <2>1. m \in Message /\ m \in AnnouncedAll[c]
    BY <1>1, FrameTypes DEF Offer
  <2>2. net' = Up(TakeDown(net, c), c, m) /\ net[c].down # <<>>
    BY <1>4 DEF SendOffer, Reads, NextDown
  <2>3. snd' = [snd EXCEPT ![j].pc = "offered", ![j].hashed = snd[j].hashed]
    BY <1>2, <1>4 DEF SendOffer, Goto
  <2> HIDE DEF c, m
  <2>4. Carries(net', AnnouncedAll, ConfirmedAll)
    BY <2>1, <2>2, TakeDownReads, UpWrites DEF c
  <2>5. QED
    BY <1>1, <1>4, <2>3, <2>4, GoesOn DEF SendOffer, SenderPc, Reading
<1>5. CASE FreshAccepted(j)
  <2>1. net' = TakeDown(net, c) /\ net[c].down # <<>>
    BY <1>5 DEF FreshAccepted, Reads, NextDown
  <2>2. Carries(net', AnnouncedAll, ConfirmedAll)
    BY <2>1, TakeDownReads
  <2>3. QED
    BY <1>1, <1>5, <2>2, GoesOn DEF FreshAccepted, SenderPc
<1>6. QED
  BY <1>3, <1>4, <1>5

LEMMA ResumeSteps ==
    ASSUME Inv, NEW j \in Jobs, AcceptResume(j) \/ RefuseResume(j)
    PROVE  SenderKeeps
<1> USE JobState0
<1> DEFINE c == Conn(j)
           prefix == Head(net[c].down).body
<1>1. net[c].down # <<>>
  BY DEF AcceptResume, RefuseResume, Reads, NextDown
<1>2. Carries(TakeDown(net, c), AnnouncedAll, ConfirmedAll) /\ prefix \in Content
  BY <1>1, TakeDownReads DEF Message
<1>3. \A type \in {"ACCEPT", "RESTART"} :
        Bare(type) \in Message /\ Bare(type) \in AnnouncedAll[c]
  BY FrameTypes DEF MessageType, Bare
<1>4. CASE AcceptResume(j)
  <2>1. Carries(net', AnnouncedAll, ConfirmedAll)
    BY <1>2, <1>3, <1>4, UpWrites DEF AcceptResume
  <2>2. Prefix(j, Len(prefix)) = prefix
    BY <1>4 DEF AcceptResume, PrefixMatches
  <2>3. snd' = [snd EXCEPT ![j].pc = "data", ![j].hashed = Prefix(j, Len(prefix))]
    BY <1>4 DEF AcceptResume
  <2>4. snd' = [snd EXCEPT ![j].pc = "data", ![j].hashed = prefix]
    <3> HIDE DEF prefix
    <3> QED
      BY <2>2, <2>3
  <2>5. UNCHANGED <<src, edits, attested, listening, faults>>
    BY <1>4 DEF AcceptResume
  <2>6. QED
    BY <1>2, <2>1, <2>4, <2>5, GoesOn DEF SenderPc
<1>5. CASE RefuseResume(j)
  <2>1. Carries(net', AnnouncedAll, ConfirmedAll)
    BY <1>2, <1>3, <1>5, UpWrites DEF RefuseResume
  <2>2. snd' = [snd EXCEPT ![j].pc = "restart", ![j].hashed = snd[j].hashed]
    BY <1>5 DEF RefuseResume, Goto, JobState
  <2>3. QED
    BY <1>5, <2>1, <2>2, GoesOn DEF RefuseResume, SenderPc, Reading, JobState
<1>6. QED
  BY <1>4, <1>5

LEMMA DataSteps ==
    ASSUME Inv, NEW j \in Jobs, SendData(j) \/ Cancel(j)
    PROVE  SenderKeeps
<1> USE JobState0
<1> DEFINE c == Conn(j)
<1>1. CASE SendData(j)
  <2> DEFINE block == << src[j][Len(snd[j].hashed) + 1] >>
             m == Carrying("DATA", block)
  <2>1. snd[j].hashed \in Seq(Blocks) /\ src[j] \in Seq(Blocks)
    BY DEF JobState, Content
  <2>2. Len(snd[j].hashed) + 1 \in 1 .. Len(src[j])
    BY <1>1, <2>1, LenProperties DEF SendData
  <2>3. block \in Seq(Blocks)
    BY <2>1, <2>2, ElementOfSeq
  <2>4. block \in Content /\ snd[j].hashed \o block \in Content
    BY <2>1, <2>3, ConcatProperties DEF Content
  <2>5. m \in Message /\ m \in AnnouncedAll[c]
    BY <2>4, FrameTypes DEF MessageType, Carrying
  <2>6. net' = Up(net, c, m)
    BY <1>1 DEF SendData
  <2>7. snd' = [snd EXCEPT ![j].pc = "data", ![j].hashed = snd[j].hashed \o block]
    BY <1>1 DEF SendData, JobState
  <2> HIDE DEF block, m, c
  <2>8. Carries(net', AnnouncedAll, ConfirmedAll)
    BY <2>5, <2>6, UpWrites DEF c
  <2>9. QED
    BY <1>1, <2>4, <2>7, <2>8, GoesOn DEF SendData, SenderPc
<1>2. CASE Cancel(j)
  <2>1. Bare("CANCEL") \in Message /\ Bare("CANCEL") \in AnnouncedAll[c]
    BY FrameTypes DEF MessageType, Bare
  <2>2. Carries(net', AnnouncedAll, ConfirmedAll)
    BY <1>2, <2>1, UpWrites, DropReads DEF Cancel
  <2>3. snd' = [snd EXCEPT ![j].pc = "cancelled", ![j].hashed = snd[j].hashed]
    BY <1>2 DEF Cancel, Goto, JobState
  <2>4. QED
    BY <1>2, <2>2, <2>3, GoesOn DEF Cancel, SenderPc, Ended, JobState
<1>3. QED
  BY <1>1, <1>2

(* The step that attests: what the job hashed is attested when the digest  *)
(* is written.                                                             *)
LEMMA AttestingStep ==
    ASSUME Inv, NEW j \in Jobs, SendComplete(j)
    PROVE  SenderKeeps
<1> USE JobState0
<1> DEFINE c == Conn(j)
           m == Carrying("COMPLETE", snd[j].hashed)
<1>1. SenderInv'
  BY DEF SendComplete, Goto, SenderInv, SenderTypeOK, JobState, SenderPc, Reading
<1>2. \A i \in Jobs : attested[i] \subseteq attested'[i]
  BY DEF SendComplete, SenderInv, SenderTypeOK
<1>3. m \in Message /\ m.body = snd[j].hashed
  BY FrameTypes DEF MessageType, JobState, Carrying
<1>4. snd[j].hashed \in attested'[j]
  BY DEF SendComplete, SenderInv, SenderTypeOK
<1>5. c[1] = j /\ \A d \in Conns : d[1] \in Jobs
  BY DEF Conn, Conns
<1>6. m \in AnnouncedAll'[c]
  BY <1>3, <1>4, <1>5 DEF AnnouncedAll, Announced
<1>7. \A d \in Conns : AnnouncedAll[d] \subseteq AnnouncedAll'[d]
  BY <1>2, <1>5 DEF AnnouncedAll, Announced
<1> HIDE DEF c, m
<1>8. Carries(net, AnnouncedAll', ConfirmedAll)
  BY <1>7, CarriesMore
<1>9. net' = Up(net, c, m)
  BY DEF SendComplete, c, m
<1>10. Carries(net', AnnouncedAll', ConfirmedAll)
  BY <1>3, <1>6, <1>8, <1>9, UpWrites DEF c
<1>11. \A i \in Jobs : snd'[i].pc = "done" => snd[i].pc = "done"
  BY DEF SendComplete, Goto
<1>12. QED
  BY <1>1, <1>2, <1>10, <1>11 DEF SenderKeeps, SendComplete

LEMMA EditingStep ==
    ASSUME Inv, NEW j \in Jobs, EditSource(j)
    PROVE  SenderKeeps
<1> USE JobState0
<1>1. SenderInv' /\ UNCHANGED <<snd, attested, wireVars>>
  BY DEF EditSource, SenderInv, SenderTypeOK
<1>2. AnnouncedAll' = AnnouncedAll
  BY <1>1 DEF AnnouncedAll, Announced
<1>3. QED
  BY <1>1, <1>2 DEF SenderKeeps, SenderInv, SenderTypeOK, wireVars

LEMMA SenderStep ==
    ASSUME Inv, NEW j \in Jobs, SenderRuns(j) \/ SenderDisturbed(j)
    PROVE  SenderKeeps
BY LocalSteps, LeavingSteps, HandshakeSteps, ResumeSteps, DataSteps,
   AttestingStep, EditingStep DEF SenderRuns, SenderDisturbed

-----------------------------------------------------------------------------
(* What a step of the receiver owes the rest: a receipt is written once,   *)
(* with attested contents, and the destination once, with receipted ones.  *)
ReceiverKeeps ==
    /\ Carries(net', AnnouncedAll, ConfirmedAll')
    /\ listening' \in BOOLEAN
    /\ faults' \in Nat
    /\ ReceiverInv'
    /\ \A j \in Jobs : \/ receipt'[j] = receipt[j]
                       \/ receipt[j] = None /\ receipt'[j] \in attested[j]
    /\ \/ final' = final
       \/ final = None /\ \E j \in Jobs : receipt'[j] # None /\ final' = receipt'[j]

LEMMA ReceiverKeepsInv ==
    ASSUME Inv, ReceiverKeeps, UNCHANGED senderVars
    PROVE  Inv'
<1>1. NetInv /\ SenderInv /\ ReceiverInv /\ Committed
  BY InvParts
<1>2. NetInv'
  <2>1. AnnouncedAll' = AnnouncedAll
    BY DEF AnnouncedAll, Announced, senderVars
  <2>2. QED
    BY <2>1 DEF ReceiverKeeps, NetInv
<1>3. SenderInv'
  BY <1>1 DEF SenderInv, SenderTypeOK, senderVars
<1>4. Committed'
  <2>1. ReceiptAttested'
    BY <1>1 DEF Committed, ReceiptAttested, ReceiverKeeps, senderVars
  <2>2. FinalHasReceipt'
    BY <1>1 DEF Committed, FinalHasReceipt, ReceiverKeeps
  <2>3. SuccessIsDelivered'
    BY <1>1 DEF Committed, SuccessIsDelivered, ReceiverKeeps, senderVars
  <2>4. QED
    BY <2>1, <2>2, <2>3 DEF Committed
<1>5. QED
  BY <1>2, <1>3, <1>4, InvParts DEF ReceiverKeeps

(* What the receiver finds before its step. *)
LEMMA ServerState0 ==
    ASSUME Inv
    PROVE  /\ ReceiverInv
           /\ Carries(net, AnnouncedAll, ConfirmedAll)
           /\ listening \in BOOLEAN
           /\ faults \in Nat
           /\ rcv.pc \notin {"down", "accept"} =>
                 /\ rcv.conn \in Conns
                 /\ Job \in Jobs
                 /\ \A m \in Message : m.type # "VERIFIED" => m \in ConfirmedAll[rcv.conn]
                 /\ \A m \in AnnouncedAll[rcv.conn] :
                       m.type = "COMPLETE" => m.body \in attested[Job]
<1>1. NetInv /\ ReceiverInv
  BY InvParts
<1>2. ASSUME rcv.conn \in Conns
      PROVE  /\ Job \in Jobs
             /\ AnnouncedAll[rcv.conn] = Announced(rcv.conn)
             /\ ConfirmedAll[rcv.conn] = Confirmed(rcv.conn)
  BY <1>2 DEF AnnouncedAll, ConfirmedAll, Job, Conns
<1>3. QED
  BY <1>1, <1>2 DEF NetInv, ReceiverInv, Announced, Confirmed, Job

(* Steps that touch neither a receipt nor the destination. *)
LEMMA ServerMoves ==
    ASSUME Inv, ReceiverInv', UNCHANGED <<final, receipt>>,
           Carries(net', AnnouncedAll, ConfirmedAll),
           listening' \in BOOLEAN, faults' \in Nat
    PROVE  ReceiverKeeps
<1>1. ConfirmedAll' = ConfirmedAll
  BY DEF ConfirmedAll, Confirmed, Receipted
<1>2. QED
  BY <1>1 DEF ReceiverKeeps

-----------------------------------------------------------------------------
(* Steps that only decide what comes next. *)
LEMMA DecidingSteps ==
    ASSUME Inv,
           \/ NothingToReconcile \/ ReconcileFinal \/ ReconcilePart
           \/ ReconcileFails \/ PrepareWithoutPart \/ PrepareUnusablePart
    PROVE  ReceiverKeeps
<1> USE ServerState0
<1>1. UNCHANGED <<disk, wireVars>>
  BY DEF NothingToReconcile, ReconcileFinal, ReconcilePart, ReconcileFails,
         PrepareWithoutPart, PrepareUnusablePart
<1>2. ReceiverInv'
  <2> USE <1>1 DEF ReceiverInv, ReceiverTypeOK, PartInv, FreeInv, CommitInv, Receipted,
                   Discarding, At, Job, Step, Discard, ReceiverPc, Waiting, disk
  <2>1. CASE NothingToReconcile
    BY <2>1 DEF NothingToReconcile
  <2>2. CASE ReconcileFinal
    BY <2>2 DEF ReconcileFinal, MatchesReceipt
  <2>3. CASE ReconcilePart
    BY <2>3 DEF ReconcilePart, MatchesReceipt
  <2>4. CASE ReconcileFails
    BY <2>4 DEF ReconcileFails
  <2>5. CASE PrepareWithoutPart
    BY <2>5 DEF PrepareWithoutPart
  <2>6. CASE PrepareUnusablePart
    BY <2>6 DEF PrepareUnusablePart
  <2>7. QED
    BY <2>1, <2>2, <2>3, <2>4, <2>5, <2>6
<1>3. QED
  BY <1>1, <1>2, ServerMoves DEF disk, wireVars

LEMMA OfferSteps ==
    ASSUME Inv, (\E c \in Conns : Accept(c)) \/ AnswerHello \/ ReadOffer
    PROVE  ReceiverKeeps
<1> USE ServerState0
<1>1. CASE \E c \in Conns : Accept(c)
  <2>1. PICK c \in Conns : Accept(c)
    BY <1>1
  <2>2. Carries(net', AnnouncedAll, ConfirmedAll)
    BY <2>1 DEF Accept, Carries, Nets, Connection
  <2>3. ReceiverInv'
    BY <2>1 DEF Accept, ReceiverInv, ReceiverTypeOK, PartInv, FreeInv, CommitInv,
                Discarding, At, ReceiverPc, Waiting, disk
  <2>4. QED
    BY <2>1, <2>2, <2>3, ServerMoves DEF Accept, disk
<1>2. CASE AnswerHello
  <2>1. rcv.conn \in Conns /\ net[rcv.conn].up # <<>>
    BY <1>2 DEF AnswerHello, Gets, At, NextUp
  <2>2. Bare("HELLO_ACK") \in Message /\ Bare("HELLO_ACK") \in ConfirmedAll[rcv.conn]
    BY <1>2, FrameTypes DEF AnswerHello, Gets, At, MessageType, Bare
  <2>3. Carries(net', AnnouncedAll, ConfirmedAll)
    BY <1>2, <2>1, <2>2, TakeUpReads, DownWrites DEF AnswerHello, Reply
  <2>4. ReceiverInv'
    BY <1>2, <2>1 DEF AnswerHello, Gets, Step, ReceiverInv, ReceiverTypeOK, PartInv,
         FreeInv, CommitInv, Discarding, At, ReceiverPc, Waiting, disk
  <2>5. QED
    BY <1>2, <2>3, <2>4, ServerMoves DEF AnswerHello, disk
<1>3. CASE ReadOffer
  <2>1. rcv.conn \in Conns /\ net[rcv.conn].up # <<>>
    BY <1>3 DEF ReadOffer, Gets, At, NextUp
  <2>2. Carries(net', AnnouncedAll, ConfirmedAll) /\ Head(net[rcv.conn].up).size \in Nat
    BY <1>3, <2>1, TakeUpReads DEF ReadOffer, TakeFrame, Message
  <2>3. ReceiverInv'
    BY <1>3, <2>1, <2>2 DEF ReadOffer, Gets, Step, ReceiverInv, ReceiverTypeOK, PartInv,
         FreeInv, CommitInv, Discarding, At, ReceiverPc, Waiting, disk
  <2>4. QED
    BY <1>3, <2>2, <2>3, ServerMoves DEF ReadOffer, disk
<1>4. QED
  BY <1>1, <1>2, <1>3

LEMMA ResumingSteps ==
    ASSUME Inv, RequestResume \/ ResumeAccepted \/ Adopt \/ ResumeRefused
    PROVE  ReceiverKeeps
<1> USE ServerState0
<1> USE DEF ReceiverInv, ReceiverTypeOK, PartInv, FreeInv, CommitInv, Receipted,
            Discarding, At, Step, Discard, ReceiverPc, Waiting, disk
<1>1. CASE RequestResume
  <2>1. rcv.conn \in Conns /\ part \in Content
    BY <1>1 DEF RequestResume
  <2>2. /\ Carrying("RESUME", part) \in Message
        /\ Carrying("RESUME", part) \in ConfirmedAll[rcv.conn]
    BY <1>1, <2>1, FrameTypes DEF RequestResume, MessageType, Carrying
  <2>3. Carries(net', AnnouncedAll, ConfirmedAll)
    BY <1>1, <2>1, <2>2, DownWrites DEF RequestResume, Reply
  <2>4. ReceiverInv'
    BY <1>1, <2>1 DEF RequestResume
  <2>5. QED
    BY <1>1, <2>3, <2>4, ServerMoves DEF RequestResume
<1>2. CASE ResumeAccepted
  <2>1. rcv.conn \in Conns /\ net[rcv.conn].up # <<>>
    BY <1>2 DEF ResumeAccepted, Gets, NextUp
  <2>2. Carries(net', AnnouncedAll, ConfirmedAll)
    BY <1>2, <2>1, TakeUpReads DEF ResumeAccepted, TakeFrame
  <2>3. ReceiverInv'
    BY <1>2, <2>1 DEF ResumeAccepted, Gets
  <2>4. QED
    BY <1>2, <2>2, <2>3, ServerMoves DEF ResumeAccepted
<1>3. CASE Adopt
  <2>1. ReceiverInv'
    BY <1>3 DEF Adopt
  <2>2. QED
    BY <1>3, <2>1, ServerMoves DEF Adopt, wireVars
<1>4. CASE ResumeRefused
  <2>1. rcv.conn \in Conns
    BY <1>4 DEF ResumeRefused
  <2>2. Carries(net', AnnouncedAll, ConfirmedAll)
    BY <1>4, <2>1, TakeUpReads DEF ResumeRefused, TakeFrame
  <2>3. ReceiverInv'
    BY <1>4, <2>1 DEF ResumeRefused
  <2>4. QED
    BY <1>4, <2>2, <2>3, ServerMoves DEF ResumeRefused
<1>5. QED
  BY <1>1, <1>2, <1>3, <1>4

LEMMA FreshSteps ==
    ASSUME Inv, CreatePart \/ PersistMetadata \/ AcceptFails
    PROVE  ReceiverKeeps
<1> USE ServerState0
<1> USE DEF ReceiverInv, ReceiverTypeOK, PartInv, FreeInv, CommitInv, Receipted,
            Discarding, At, Step, Discard, ReceiverPc, Waiting, disk
<1>1. CASE CreatePart
  <2>1. <<>> \in Content
    BY EmptySeq DEF Content
  <2>2. ReceiverInv'
    BY <1>1, <2>1 DEF CreatePart
  <2>3. QED
    BY <1>1, <2>2, ServerMoves DEF CreatePart, wireVars
<1>2. CASE PersistMetadata
  <2>1. rcv.conn \in Conns
    BY <1>2 DEF PersistMetadata
  <2>2. Bare("ACCEPT") \in Message /\ Bare("ACCEPT") \in ConfirmedAll[rcv.conn]
    BY <1>2, FrameTypes DEF PersistMetadata, MessageType, Bare
  <2>3. Carries(net', AnnouncedAll, ConfirmedAll)
    BY <1>2, <2>1, <2>2, DownWrites DEF PersistMetadata, Reply
  <2>4. ReceiverInv'
    BY <1>2 DEF PersistMetadata
  <2>5. QED
    BY <1>2, <2>3, <2>4, ServerMoves DEF PersistMetadata
<1>3. CASE AcceptFails
  <2>1. ReceiverInv'
    BY <1>3 DEF AcceptFails
  <2>2. QED
    BY <1>3, <2>1, ServerMoves DEF AcceptFails, wireVars
<1>4. QED
  BY <1>1, <1>2, <1>3

(* The digest in a COMPLETE is attested, and the receiver hashed the same. *)
LEMMA ReadingSteps ==
    ASSUME Inv, UNCHANGED senderVars,
           ReadData \/ ReadTooMuchData \/ ReadComplete \/ ReadCancel
    PROVE  ReceiverKeeps
<1> USE ServerState0
<1> DEFINE m == Head(net[rcv.conn].up)
<1>1. rcv.conn \in Conns /\ Job \in Jobs /\ At("data") /\ net[rcv.conn].up # <<>>
  BY DEF ReadData, ReadTooMuchData, ReadComplete, ReadCancel, Gets, At, NextUp
<1>2. /\ Carries(net', AnnouncedAll, ConfirmedAll)
      /\ m \in Message
      /\ m.type = "COMPLETE" => m.body \in attested[Job]
  <2>1. net' = TakeUp(net, rcv.conn)
    BY DEF ReadData, ReadTooMuchData, ReadComplete, ReadCancel, TakeFrame
  <2>2. Carries(net', AnnouncedAll, ConfirmedAll) /\ m \in Message /\ m \in AnnouncedAll[rcv.conn]
    BY <1>1, <2>1, TakeUpReads
  <2>3. QED
    BY <1>1, <2>2 DEF At
<1>3. CASE ReadData
  <2>1. part = rcv.hashed /\ part \in Content /\ m.body \in Content
    BY <1>1, <1>2 DEF ReceiverInv, ReceiverTypeOK, PartInv, At, Message
  <2>2. part \o m.body \in Content
    BY <2>1, ConcatProperties DEF Content
  <2>3. part' = part \o m.body
        /\ rcv' = [rcv EXCEPT !.hashed = rcv.hashed \o m.body, !.dirty = TRUE]
    BY <1>3 DEF ReadData
  <2> HIDE DEF m
  <2>4. ReceiverInv'
    BY <1>1, <1>3, <2>1, <2>2, <2>3
       DEF ReadData, ReceiverInv, ReceiverTypeOK, PartInv, FreeInv, CommitInv,
           Receipted, Discarding, At
  <2>5. QED
    BY <1>2, <1>3, <2>4, ServerMoves DEF ReadData
<1>4. CASE ReadComplete
  <2> USE DEF ReceiverInv, ReceiverTypeOK, PartInv, FreeInv, CommitInv, Receipted,
              Discarding, At, ReceiverPc, Waiting, disk
  <2>0. m.type = "COMPLETE" /\ UNCHANGED disk
    BY <1>4 DEF ReadComplete, Gets, NextUp
  <2>1. ReceiverInv'
    <3>1. CASE Complete(m.body)
      <4>1. rcv' = [rcv EXCEPT !.pc = "publish", !.dirty = FALSE]
        BY <1>4, <3>1 DEF ReadComplete
      <4>2. rcv.hashed \in attested[Job]
        BY <1>2, <2>0, <3>1 DEF Complete
      <4>3. Job' = Job /\ attested' = attested
        BY <4>1 DEF ReceiverInv, ReceiverTypeOK, Job, senderVars
      <4> HIDE DEF m
      <4>4. QED
        BY <1>1, <2>0, <4>1, <4>2, <4>3
    <3>2. CASE ~ Complete(m.body)
      <4>1. Discard("close")
        BY <1>4, <3>2 DEF ReadComplete
      <4> HIDE DEF m
      <4>2. QED
        BY <1>1, <2>0, <4>1 DEF Discard
    <3>3. QED
      BY <3>1, <3>2
  <2>2. QED
    BY <1>2, <1>4, <2>1, ServerMoves DEF ReadComplete, disk
<1>5. CASE ReadTooMuchData \/ ReadCancel
  <2>1. ReceiverInv'
    BY <1>1, <1>5
       DEF ReadTooMuchData, ReadCancel, ReceiverInv, ReceiverTypeOK, PartInv, FreeInv,
           CommitInv, Receipted, Discarding, At, Discard, ReceiverPc, Waiting, disk
  <2>2. QED
    BY <1>2, <1>5, <2>1, ServerMoves DEF ReadTooMuchData, ReadCancel, disk
<1>6. QED
  BY <1>3, <1>4, <1>5

(* The commit.  The receipt repeats what was attested; what is promoted is *)
(* what the receipt stands for; the destination was free.                  *)
LEMMA CommitSteps ==
    ASSUME Inv, UNCHANGED senderVars, PublishReceipt \/ Promote \/ CleanUp
    PROVE  ReceiverKeeps
<1> USE ServerState0
<1> USE DEF ReceiverInv, ReceiverTypeOK, PartInv, FreeInv, CommitInv, Receipted,
            Discarding, At, Step, ReceiverPc, Waiting
<1>1. UNCHANGED wireVars
  BY DEF PublishReceipt, Promote, CleanUp
<1>2. ASSUME \A c \in Conns : ConfirmedAll[c] \subseteq ConfirmedAll'[c]
      PROVE  Carries(net', AnnouncedAll, ConfirmedAll')
  <2>1. Carries(net, AnnouncedAll, ConfirmedAll')
    BY <1>2, CarriesMore
  <2>2. QED
    BY <1>1, <2>1 DEF wireVars
<1>3. CASE PublishReceipt
  <2>1. CASE receipt[Job] \in {None, rcv.hashed}
    <3>1. /\ receipt' = [receipt EXCEPT ![Job] = rcv.hashed]
          /\ rcv' = [rcv EXCEPT !.pc = "promote"]
          /\ UNCHANGED <<part, meta, final>>
      BY <1>3, <2>1 DEF PublishReceipt
    <3>2. /\ Job \in Jobs
          /\ part = rcv.hashed
          /\ rcv.hashed \in Content
          /\ rcv.hashed \in attested[Job]
          /\ rcv.hashed # None
          /\ final = None
      BY <1>3, WireAssumption DEF PublishReceipt
    <3>3. Job' = Job
      BY <3>1 DEF Job
    <3>4. ReceiverInv'
      <4>1. ReceiverTypeOK'
        BY <1>3, <3>1, <3>2
      <4>2. CommitInv'
        <5>1. receipt'[Job] = rcv.hashed /\ part' = rcv.hashed /\ rcv'.pc = "promote"
          BY <3>1, <3>2
        <5>2. QED
          BY <3>2, <3>3, <5>1
      <4>3. QED
        BY <1>3, <3>1, <3>2, <4>1, <4>2 DEF PublishReceipt
    <3>5. \A c \in Conns : ConfirmedAll[c] \subseteq ConfirmedAll'[c]
      BY <3>1, <3>2, WireAssumption DEF ConfirmedAll, Confirmed, Conns
    <3>6. \A j \in Jobs : \/ receipt'[j] = receipt[j]
                          \/ receipt[j] = None /\ receipt'[j] \in attested[j]
      BY <2>1, <3>1, <3>2
    <3>7. QED
      BY <1>1, <1>2, <3>1, <3>4, <3>5, <3>6 DEF ReceiverKeeps, wireVars
  <2>2. CASE receipt[Job] \notin {None, rcv.hashed}
    <3>1. ReceiverInv'
      BY <1>3, <2>2 DEF PublishReceipt
    <3>2. QED
      BY <1>1, <1>3, <2>2, <3>1, ServerMoves DEF PublishReceipt, wireVars
  <2>3. QED
    BY <2>1, <2>2
<1>4. CASE Promote
  <2>1. /\ Job \in Jobs
        /\ receipt[Job] # None /\ part = receipt[Job]
        /\ final = None
    BY <1>4 DEF Promote
  <2>2. rcv' = [rcv EXCEPT !.pc = "cleanup"] /\ Job' = Job
    BY <1>4 DEF Promote, Job
  <2>3. ReceiverInv'
    BY <1>4, <2>1, <2>2 DEF Promote
  <2>4. \A c \in Conns : ConfirmedAll[c] \subseteq ConfirmedAll'[c]
    BY <1>4, <2>1 DEF Promote, ConfirmedAll, Confirmed, Conns
  <2>5. QED
    BY <1>1, <1>2, <1>4, <2>1, <2>3, <2>4 DEF ReceiverKeeps, Promote, wireVars
<1>5. CASE CleanUp
  <2>1. Job' = Job
    BY <1>5 DEF CleanUp, Job
  <2>2. ReceiverInv'
    BY <1>5, <2>1 DEF CleanUp
  <2>3. QED
    BY <1>1, <1>5, <2>2, ServerMoves DEF CleanUp, wireVars
<1>6. QED
  BY <1>3, <1>4, <1>5

(* VERIFIED is written while the destination shows the receipted file. *)
LEMMA FinishingSteps ==
    ASSUME Inv, SendVerified \/ SendReject \/ Close
    PROVE  ReceiverKeeps
<1> USE ServerState0
<1>1. rcv.conn \in Conns /\ Job \in Jobs
  BY DEF SendVerified, SendReject, Close, At
<1>2. \A type \in MessageType : Bare(type) \in Message /\ Bare(type).type = type
  BY FrameTypes DEF Bare
<1>3. At("verified") => Receipted(Job, final)
  BY DEF ReceiverInv, CommitInv, At
<1>4. At("verified") => Bare("VERIFIED") \in ConfirmedAll[rcv.conn]
  BY <1>1, <1>2, <1>3 DEF ConfirmedAll, Confirmed, Job, MessageType
<1>5. At("reject") => Bare("REJECT") \in ConfirmedAll[rcv.conn]
  BY <1>2 DEF At, MessageType
<1>6. PICK n : Carries(n, AnnouncedAll, ConfirmedAll) /\ Finish(n)
  BY <1>1, <1>2, <1>4, <1>5, DownWrites DEF SendVerified, SendReject, Close, MessageType
<1>7. Carries(net', AnnouncedAll, ConfirmedAll)
  BY <1>1, <1>6, DropReads DEF Finish
<1>8. ReceiverInv'
  BY <1>6 DEF SendVerified, SendReject, Close, Finish, ReceiverInv, ReceiverTypeOK,
              PartInv, FreeInv, CommitInv, Discarding, At, ReceiverPc, disk
<1>9. QED
  BY <1>7, <1>8, ServerMoves DEF SendVerified, SendReject, Close, disk

LEMMA DiscardingSteps ==
    ASSUME Inv, DiscardPart \/ DiscardMetadata
    PROVE  ReceiverKeeps
<1> USE ServerState0
<1>1. UNCHANGED wireVars /\ UNCHANGED <<final, receipt>>
  BY DEF DiscardPart, DiscardMetadata
<1>2. ReceiverInv'
  BY DEF DiscardPart, DiscardMetadata, ReceiverInv, ReceiverTypeOK, PartInv, FreeInv,
         CommitInv, Receipted, Discarding, At, Job, Step, ReceiverPc, Waiting
<1>3. QED
  BY <1>1, <1>2, ServerMoves DEF wireVars

-----------------------------------------------------------------------------
(* Failures lead where nothing is claimed that does not hold. *)
LEMMA FailingSteps ==
    ASSUME Inv, (\E preserve \in BOOLEAN : LoseSender(preserve))
                \/ StorageFails \/ WriteFails
    PROVE  ReceiverKeeps
<1> USE ServerState0
<1> USE DEF ReceiverInv, ReceiverTypeOK, PartInv, FreeInv, CommitInv, Receipted,
            Discarding, At, Job, Step, Discard, ReceiverPc, Waiting, disk
<1>1. UNCHANGED <<disk, net, listening>> /\ faults' \in Nat
  BY DEF LoseSender, StorageFails, WriteFails, Fault, wireVars
<1>2. CASE \E preserve \in BOOLEAN : LoseSender(preserve)
  <2>1. PICK preserve \in BOOLEAN : LoseSender(preserve)
    BY <1>2
  <2>2. Discard("close") \/ rcv' = [rcv EXCEPT !.pc = "close", !.dirty = FALSE]
    BY <2>1 DEF LoseSender
  <2>3. ReceiverInv'
    BY <1>1, <2>1, <2>2 DEF LoseSender
  <2>4. QED
    BY <1>1, <2>3, ServerMoves
<1>3. CASE StorageFails
  <2>1. ReceiverInv'
    BY <1>1, <1>3 DEF StorageFails, AfterStorageError
  <2>2. QED
    BY <1>1, <2>1, ServerMoves
<1>4. CASE WriteFails
  <2>1. ReceiverInv'
    BY <1>1, <1>4 DEF WriteFails
  <2>2. QED
    BY <1>1, <2>1, ServerMoves
<1>5. QED
  BY <1>2, <1>3, <1>4

(* The process ends, and is started again. *)
LEMMA CrashSteps ==
    ASSUME Inv, Crash \/ Restart
    PROVE  ReceiverKeeps
<1> USE ServerState0
<1>1. CASE Crash
  <2>1. Carries(net', AnnouncedAll, ConfirmedAll)
    <3>1. \A S : <<>> \in Seq(S)
      BY EmptySeq
    <3>2. PICK arrives \in BOOLEAN :
            net' = [c \in Conns |->
                      IF net[c].rcvEnd \in {"backlog", "accepted"}
                      THEN [net[c] EXCEPT !.rcvEnd = "closed", !.up = <<>>,
                                          !.down = IF arrives THEN @ ELSE <<>>]
                      ELSE net[c]]
      BY <1>1 DEF Crash
    <3>3. ASSUME NEW c \in Conns
          PROVE  /\ net'[c] \in Connection
                 /\ net'[c].up \in Seq(AnnouncedAll[c])
                 /\ net'[c].down \in Seq(ConfirmedAll[c])
      <4>1. /\ net[c] \in Connection
            /\ net[c].up \in Seq(AnnouncedAll[c])
            /\ net[c].down \in Seq(ConfirmedAll[c])
        BY DEF Carries, Nets
      <4>2. CASE arrives
        BY <3>1, <3>2, <4>1, <4>2 DEF Connection
      <4>3. CASE ~ arrives
        BY <3>1, <3>2, <4>1, <4>3 DEF Connection
      <4>4. QED
        BY <4>2, <4>3
    <3>4. QED
      BY <3>2, <3>3 DEF Carries, Nets
  <2>2. rcv.dirty => SubSeq(part, 1, Len(part) - 1) \in Content
    <3>1. SUFFICES ASSUME rcv.dirty PROVE SubSeq(part, 1, Len(part) - 1) \in Content
      OBVIOUS
    <3>2. part \in Seq(Blocks)
      BY <3>1 DEF ReceiverInv, ReceiverTypeOK, PartInv, At, Content
    <3>3. Len(part) - 1 \in Int /\ Len(part) - 1 <= Len(part)
      BY <3>2, LenProperties
    <3>4. QED
      BY <3>2, <3>3, PrefixType DEF Content
  <2>3. ReceiverInv'
    <3>1. /\ rcv' = [rcv EXCEPT !.pc = "down", !.conn = None, !.dirty = FALSE]
          /\ \/ part' = part
             \/ rcv.dirty /\ part' = SubSeq(part, 1, Len(part) - 1)
          /\ UNCHANGED <<meta, final, receipt>>
      BY <1>1 DEF Crash
    <3>2. ReceiverTypeOK'
      BY <2>2, <3>1 DEF ReceiverInv, ReceiverTypeOK, ReceiverPc
    <3>3. rcv'.pc = "down" /\ ~ rcv'.dirty
      BY <3>1 DEF ReceiverInv, ReceiverTypeOK
    <3>4. QED
      BY <3>2, <3>3 DEF ReceiverInv, PartInv, FreeInv, CommitInv, Discarding, At
  <2>4. /\ listening' = FALSE
        /\ faults' = faults + 1
        /\ final' = final
        /\ receipt' = receipt
    BY <1>1 DEF Crash, Fault
  <2>5. listening' \in BOOLEAN
    BY <2>4
  <2>6. faults' \in Nat
    BY <2>4
  <2>7. QED
    BY <2>1, <2>3, <2>4, <2>5, <2>6, ServerMoves
<1>2. CASE Restart
  <2>1. ReceiverInv'
    BY <1>2 DEF Restart, ReceiverInv, ReceiverTypeOK, PartInv, FreeInv, CommitInv,
                Discarding, At, Step, ReceiverPc, disk
  <2>2. QED
    BY <1>2, <2>1, ServerMoves DEF Restart, disk
<1>3. QED
  BY <1>1, <1>2

LEMMA ReceiverStep ==
    ASSUME Inv, UNCHANGED senderVars, ReceiverRuns \/ ReceiverDisturbed \/ Restart
    PROVE  ReceiverKeeps
BY OfferSteps, DecidingSteps, ResumingSteps, FreshSteps, ReadingSteps, CommitSteps,
   FinishingSteps, DiscardingSteps, FailingSteps, CrashSteps
   DEF ReceiverRuns, ReceiverDisturbed

-----------------------------------------------------------------------------
LEMMA InitInv == Init => Inv
<1> SUFFICES ASSUME Init PROVE Inv
  OBVIOUS
<1> USE DEF Init, WireInit, SenderInit, ReceiverInit
<1>1. \A S : <<>> \in Seq(S)
  BY EmptySeq
<1>2. NetInv
  <2>1. Unopened \in Connection /\ Unopened.up = <<>> /\ Unopened.down = <<>>
    BY <1>1 DEF Unopened, Connection
  <2>2. QED
    BY <1>1, <2>1 DEF NetInv, Carries, Nets
<1>3. SenderInv
  BY <1>1, WireAssumption DEF SenderInv, SenderTypeOK, SenderPc, Content
<1>4. ReceiverInv
  BY <1>1 DEF ReceiverInv, ReceiverTypeOK, ReceiverPc, Content, PartInv, FreeInv,
              CommitInv, Discarding, At
<1>5. Committed
  BY DEF Committed, ReceiptAttested, FinalHasReceipt, SuccessIsDelivered
<1>6. QED
  BY <1>2, <1>3, <1>4, <1>5, InvParts

LEMMA CutKeepsInv ==
    ASSUME Inv, NEW c \in Conns, Cut(c), UNCHANGED <<senderVars, receiverVars>>
    PROVE  Inv'
<1>1. NetInv /\ SenderInv /\ ReceiverInv /\ Committed
  BY InvParts
<1>2. Carries(net', AnnouncedAll, ConfirmedAll)
  BY <1>1, CutReads DEF NetInv
<1>3. AnnouncedAll' = AnnouncedAll /\ \A j \in Jobs : attested[j] \subseteq attested'[j]
  BY DEF AnnouncedAll, Announced, senderVars
<1>4. SenderInv' /\ snd' = snd
  BY <1>1 DEF SenderInv, SenderTypeOK, senderVars
<1>5. listening' \in BOOLEAN /\ faults' \in Nat
  BY <1>1 DEF NetInv, Cut, Fault
<1>6. SenderKeeps
  BY <1>2, <1>3, <1>4, <1>5 DEF SenderKeeps
<1>7. QED
  BY <1>6, SenderKeepsInv

LEMMA StutterKeepsInv ==
    ASSUME Inv, UNCHANGED vars
    PROVE  Inv'
<1>1. NetInv /\ SenderInv /\ ReceiverInv /\ Committed
  BY InvParts
<1>2. AnnouncedAll' = AnnouncedAll /\ \A j \in Jobs : attested[j] \subseteq attested'[j]
  BY DEF AnnouncedAll, Announced, senderVars, vars
<1>3. SenderInv' /\ snd' = snd
  BY <1>1 DEF SenderInv, SenderTypeOK, senderVars, vars
<1>4. SenderKeeps
  BY <1>1, <1>2, <1>3 DEF SenderKeeps, NetInv, vars, wireVars
<1>5. QED
  BY <1>4, SenderKeepsInv DEF vars

(* Inv is inductive. *)
LEMMA NextInv == Inv /\ [Next]_vars => Inv'
<1> SUFFICES ASSUME Inv, [Next]_vars PROVE Inv'
  OBVIOUS
<1>1. CASE Runs
  BY <1>1, SenderStep, SenderKeepsInv, ReceiverStep, ReceiverKeepsInv DEF Runs
<1>2. CASE Disturbed
  BY <1>2, SenderStep, SenderKeepsInv, ReceiverStep, ReceiverKeepsInv, CutKeepsInv
     DEF Disturbed
<1>3. CASE Quiet
  BY <1>3, StutterKeepsInv DEF Quiet
<1>4. CASE UNCHANGED vars
  BY <1>4, StutterKeepsInv
<1>5. QED
  BY <1>1, <1>2, <1>3, <1>4 DEF Next

-----------------------------------------------------------------------------
(* Inv holds for ever: the connections, the processes, the files and what  *)
(* they say of each other stay of their types and in their order.          *)
THEOREM InvHolds == Spec => []Inv
<1>1. Init => Inv
  BY InitInv
<1>2. Inv /\ [Next]_vars => Inv'
  BY NextInv
<1>3. QED
  BY <1>1, <1>2, PTL DEF Spec

(* Every variable keeps its type; in particular no job opens more than     *)
(* MaxSendAttempts connections.                                            *)
THEOREM Types == Spec => []TypeOK
<1>1. Inv => TypeOK
  BY DEF Inv
<1>2. QED
  BY <1>1, InvHolds, PTL

(* A receipt only ever stands for contents its own job hashed while it     *)
(* read its source, and announced with COMPLETE.                           *)
THEOREM ReceiptsAreAttested == Spec => []ReceiptAttested
<1>1. Inv => ReceiptAttested
  BY DEF Inv
<1>2. QED
  BY <1>1, InvHolds, PTL

(* No file is ever seen at the destination that no receipt stands for.     *)
THEOREM FinalsAreReceipted == Spec => []FinalHasReceipt
<1>1. Inv => FinalHasReceipt
  BY DEF Inv
<1>2. QED
  BY <1>1, InvHolds, PTL

(* A job that reports success finds the contents of its own receipt at the *)
(* destination, whatever was lost, restarted or edited before.             *)
THEOREM SuccessesAreDelivered == Spec => []SuccessIsDelivered
<1>1. Inv => SuccessIsDelivered
  BY DEF Inv
<1>2. QED
  BY <1>1, InvHolds, PTL

-----------------------------------------------------------------------------
(* What each step shows of the transfer. *)

(* The receiver writes receipts and the destination only to commit. *)
LEMMA OnlyCommitsShow ==
    ASSUME ReceiverRuns \/ ReceiverDisturbed \/ Restart
    PROVE  PublishReceipt \/ Promote \/ UNCHANGED <<final, receipt>>
<1>1. CASE Restart
  BY <1>1 DEF Restart, disk
<1>2. CASE ReceiverDisturbed
  BY <1>2 DEF ReceiverDisturbed, StorageFails, WriteFails, Crash, disk
<1>3. CASE ReceiverRuns
  BY <1>3 DEF ReceiverRuns, Accept, AnswerHello, ReadOffer, NothingToReconcile,
     ReconcileFinal, ReconcilePart, ReconcileFails, PrepareWithoutPart,
     PrepareUnusablePart, RequestResume, ResumeAccepted, Adopt, ResumeRefused,
     CreatePart, PersistMetadata, AcceptFails, ReadData, ReadTooMuchData,
     ReadComplete, ReadCancel, CleanUp, SendVerified, SendReject, Close,
     DiscardPart, DiscardMetadata, LoseSender, disk
<1>4. QED
  BY <1>1, <1>2, <1>3

(* A step of a sender is a step of one job that has not ended, and only    *)
(* COMPLETE attests.                                                       *)
LEMMA OneJobShows ==
    ASSUME SenderInv, NEW j \in Jobs, SenderRuns(j) \/ SenderDisturbed(j)
    PROVE  /\ \A i \in Jobs \ {j} : snd'[i].pc = snd[i].pc
           /\ snd'[j].pc = snd[j].pc \/ snd[j].pc \notin Ended
           /\ \/ attested' = attested
              \/ /\ snd[j].pc \notin Ended /\ snd'[j].pc \notin Ended
                 /\ attested' = [attested EXCEPT ![j] = @ \cup {snd[j].hashed}]
<1> USE DEF SenderInv, SenderTypeOK
<1>1. CASE SenderRuns(j)
  BY <1>1 DEF SenderRuns, Connect, ConnectRefused, SendOffer, FreshAccepted, Rejected,
     Verified, AcceptResume, RefuseResume, ResumeSourceTooShort, SendData, SendComplete,
     SourceSizeChanged, LoseReceiver, Retry, Leave, Goto, Reads, Reading, Ended
<1>2. CASE SenderDisturbed(j)
  BY <1>2 DEF SenderDisturbed, Start, Cancel, CancelWhileWaiting, Abort, EditSource,
     Leave, Goto, Reading, Ended
<1>3. QED
  BY <1>1, <1>2

(* A receipt stands for ever for the contents it was published for, and    *)
(* the destination is never written again.                                 *)
THEOREM CommitsOnce == Spec => WrittenOnce
<1> DEFINE Once == /\ final # None => final' = final
                   /\ \A j \in Jobs : receipt[j] # None => receipt'[j] = receipt[j]
<1>1. Inv /\ [Next]_vars => [Once]_vars
  <2> SUFFICES ASSUME Inv, [Next]_vars PROVE Once
    OBVIOUS
  <2>1. CASE UNCHANGED receiverVars
    BY <2>1 DEF receiverVars
  <2>2. CASE ReceiverKeeps
    BY <2>2 DEF ReceiverKeeps
  <2>3. QED
    BY <2>1, <2>2, ReceiverStep DEF Next, Runs, Disturbed, Quiet, vars
<1>2. QED
  BY <1>1, InvHolds, PTL DEF Spec, WrittenOnce

-----------------------------------------------------------------------------
(* Refinement *)

Outcomes == [j \in Jobs |-> Outcome(j)]

LEMMA PromiseInit == Init => Promise!Init
BY DEF Init, WireInit, SenderInit, ReceiverInit, Promise!Init, Outcome, Ended

(* A step of a sender announces, succeeds, fails or shows nothing. *)
LEMMA SenderPromises ==
    ASSUME Inv, Inv', NEW j \in Jobs, SenderRuns(j) \/ SenderDisturbed(j),
           UNCHANGED receiverVars
    PROVE  [Promise!Next]_(Promise!deliveryVars)
<1>1. SenderInv /\ SuccessIsDelivered /\ SuccessIsDelivered'
  BY InvParts DEF Committed
<1>2. /\ \A i \in Jobs \ {j} : snd'[i].pc = snd[i].pc
      /\ snd'[j].pc = snd[j].pc \/ snd[j].pc \notin Ended
      /\ \/ attested' = attested
         \/ /\ snd[j].pc \notin Ended /\ snd'[j].pc \notin Ended
            /\ attested' = [attested EXCEPT ![j] = @ \cup {snd[j].hashed}]
  BY <1>1, OneJobShows
<1>3. \A i \in Jobs \ {j} : Outcome(i)' = Outcome(i)
  BY <1>2 DEF Outcome
<1>4. UNCHANGED <<final, receipt>>
  BY DEF receiverVars
<1>5. \/ Outcome(j)' = Outcome(j)
      \/ Outcome(j) = "pending" /\ Outcome(j)' = "failure"
      \/ /\ Outcome(j) = "pending" /\ Outcome(j)' = "success"
         /\ snd'[j].pc = "done"
  BY <1>2 DEF Outcome, Ended
<1>6. CASE attested' # attested
  <2>1. Outcomes' = Outcomes /\ Outcomes[j] = "pending"
    BY <1>2, <1>3, <1>6 DEF Outcomes, Outcome, Ended
  <2>2. attested' = [attested EXCEPT ![j] = attested'[j]] /\ attested[j] \subseteq attested'[j]
    BY <1>1, <1>2, <1>6 DEF SenderInv, SenderTypeOK
  <2>3. Promise!Announce(j)
    BY <1>4, <2>1, <2>2 DEF Promise!Announce, Outcomes
  <2>4. QED
    BY <2>3 DEF Promise!Next
<1>7. CASE attested' = attested /\ Outcome(j)' = Outcome(j)
  <2>1. Outcomes' = Outcomes
    BY <1>3, <1>7 DEF Outcomes
  <2>2. QED
    BY <1>4, <1>7, <2>1 DEF Promise!deliveryVars, Outcomes
<1>8. CASE /\ attested' = attested
           /\ Outcome(j) = "pending" /\ Outcome(j)' = "failure"
  <2>1. Outcomes' = [Outcomes EXCEPT ![j] = "failure"] /\ Outcomes[j] = "pending"
    BY <1>3, <1>8 DEF Outcomes
  <2>2. Promise!Fail(j)
    BY <1>4, <1>8, <2>1 DEF Promise!Fail, Outcomes
  <2>3. QED
    BY <2>2 DEF Promise!Next
<1>9. CASE /\ attested' = attested
           /\ Outcome(j) = "pending" /\ Outcome(j)' = "success"
           /\ snd'[j].pc = "done"
  <2>1. Outcomes' = [Outcomes EXCEPT ![j] = "success"] /\ Outcomes[j] = "pending"
    BY <1>3, <1>9 DEF Outcomes
  <2>2. receipt[j] # None /\ final = receipt[j]
    BY <1>1, <1>4, <1>9 DEF SuccessIsDelivered
  <2>3. Promise!Succeed(j)
    BY <1>4, <1>9, <2>1, <2>2 DEF Promise!Succeed, Outcomes
  <2>4. QED
    BY <2>3 DEF Promise!Next
<1>10. QED
  BY <1>5, <1>6, <1>7, <1>8, <1>9

(* A step of the receiver attests, shows or shows nothing. *)
LEMMA ReceiverPromises ==
    ASSUME Inv, UNCHANGED senderVars,
           ReceiverRuns \/ ReceiverDisturbed \/ Restart
    PROVE  [Promise!Next]_(Promise!deliveryVars)
<1>1. attested' = attested /\ Outcomes' = Outcomes
  BY DEF senderVars, Outcomes, Outcome
<1>2. CASE UNCHANGED <<final, receipt>>
  BY <1>1, <1>2 DEF Promise!deliveryVars, Outcomes
<1>3. CASE PublishReceipt
  <2>1. /\ Job \in Jobs
        /\ rcv.hashed \in attested[Job]
        /\ receipt \in [Jobs -> Content \cup {None}]
    BY <1>3, ServerState0 DEF PublishReceipt, At, ReceiverInv, CommitInv, ReceiverTypeOK
  <2>2. final' = final
    BY <1>3 DEF PublishReceipt
  <2>3. CASE receipt[Job] = None
    <3>1. receipt' = [receipt EXCEPT ![Job] = rcv.hashed]
      BY <1>3, <2>3 DEF PublishReceipt
    <3>2. receipt'[Job] = rcv.hashed
      BY <2>1, <3>1
    <3>3. Promise!Attest(Job)
      BY <1>1, <2>1, <2>2, <2>3, <3>1, <3>2 DEF Promise!Attest, Outcomes
    <3>4. QED
      BY <2>1, <3>3 DEF Promise!Next
  <2>4. CASE receipt[Job] # None
    <3>1. receipt' = receipt
      BY <1>3, <2>1, <2>4 DEF PublishReceipt
    <3>2. QED
      BY <1>1, <2>2, <3>1 DEF Promise!deliveryVars, Outcomes
  <2>5. QED
    BY <2>3, <2>4
<1>4. CASE Promote
  <2>1. /\ Job \in Jobs /\ final = None
        /\ receipt[Job] # None /\ part = receipt[Job]
    BY <1>4, ServerState0 DEF Promote, At, ReceiverInv, CommitInv, FreeInv, Receipted
  <2>2. Promise!Show(Job)
    BY <1>1, <1>4, <2>1 DEF Promote, Promise!Show, Outcomes
  <2>3. QED
    BY <2>1, <2>2 DEF Promise!Next
<1>5. QED
  BY <1>2, <1>3, <1>4, OnlyCommitsShow

LEMMA StutterPromises ==
    ASSUME UNCHANGED <<senderVars, receiverVars>>
    PROVE  UNCHANGED Promise!deliveryVars
<1>1. Outcomes' = Outcomes
  BY DEF senderVars, Outcomes, Outcome
<1>2. QED
  BY <1>1 DEF Promise!deliveryVars, senderVars, receiverVars, Outcomes

(* Whatever the network, the disk, the users and other programs do, what   *)
(* the two programs show is a behaviour of Delivery: an attested file, its *)
(* receipt, the file at a free destination, and only then success.         *)
THEOREM DeliversPromise == Spec => Delivers
<1>1. Init => Promise!Init
  BY PromiseInit
<1>2. Inv /\ Inv' /\ [Next]_vars => [Promise!Next]_(Promise!deliveryVars)
  <2> SUFFICES ASSUME Inv, Inv', [Next]_vars
               PROVE  [Promise!Next]_(Promise!deliveryVars)
    OBVIOUS
  <2>1. CASE Runs
    BY <2>1, SenderPromises, ReceiverPromises DEF Runs
  <2>2. CASE Disturbed
    BY <2>2, SenderPromises, ReceiverPromises, StutterPromises DEF Disturbed
  <2>3. CASE Quiet \/ UNCHANGED vars
    BY <2>3, StutterPromises DEF Quiet, vars
  <2>4. QED
    BY <2>1, <2>2, <2>3 DEF Next
<1>3. QED
  BY <1>1, <1>2, InvHolds, PTL DEF Spec, Delivers, Promise!Spec

-----------------------------------------------------------------------------
(* The two ends of a session. *)

(* The job has a connection, and the receiver serves it. *)
Live(j) == snd[j].pc \in Reading \cup {"data"}
Serving == rcv.pc \notin {"down", "accept"}
Attached == Serving /\ Live(Job) /\ Conn(Job) = rcv.conn

Sent == net[rcv.conn].up
Answered == net[rcv.conn].down

(* One connection is served at a time.  One that is not accepted yet has   *)
(* at most a HELLO, and no attempt that is still to come has any.          *)
ConnInv ==
    \A c \in Conns :
        /\ net[c].rcvEnd = "accepted" <=> Serving /\ c = rcv.conn
        /\ net[c].rcvEnd = "backlog" =>
              net[c].down = <<>> /\ net[c].up \in {<<>>, << Bare("HELLO") >>}
        /\ snd[c[1]].attempt < c[2] => net[c].rcvEnd = "none"

JobInv ==
    \A j \in Jobs :
        /\ snd[j].pc \in {"idle", "connect"} => net[Conn(j)].rcvEnd = "none"
        /\ Live(j) => net[Conn(j)].rcvEnd # "none"
        /\ Live(j) /\ net[Conn(j)].rcvEnd = "backlog" => snd[j].pc = "hello"

(* From the OFFER on, a later connection of the same job still waits.      *)
LatestInv ==
    rcv.pc \notin {"down", "accept", "hello", "close"} /\ (At("offer") => Sent # <<>>) =>
        \A c \in Conns : c[1] = Job /\ c[2] > rcv.conn[2] =>
            net[c].rcvEnd \in {"none", "backlog"}

(* Nothing is received of a job that has its receipt, nor discarded but    *)
(* for the sake of the destination.                                        *)
WorkInv ==
    /\ rcv.pc \in {"prepare", "resume", "adopt", "fresh", "persist", "data", "publish"}
          => receipt[Job] = None
    /\ rcv.pc \in {"discard", "discardMeta"} /\ rcv.next # "verified"
          => receipt[Job] = None
    /\ At("persist") => rcv.hashed = <<>>

(* A job is asked for its data only while it has no receipt. *)
AskedInv ==
    \A j \in Jobs : Live(j) =>
        \A n \in 1 .. Len(net[Conn(j)].down) :
            net[Conn(j)].down[n].type \in {"ACCEPT", "RESUME"} => receipt[j] = None

(* The frames of the stream after what the receiver holds.  Those behind   *)
(* a loss are missing.                                                     *)
FrameAfter(sent, n) ==
    IF n <= Len(sent) THEN Carrying("DATA", << sent[n] >>) ELSE Carrying("COMPLETE", sent)

FlowsFrom(held, sent, last, up) ==
    /\ Len(held) <= Len(sent)
    /\ \A k \in 1 .. Len(held) : held[k] = sent[k]
    /\ Len(held) + Len(up) <= last
    /\ \A n \in 1 .. Len(up) : up[n] = FrameAfter(sent, Len(held) + n)

Last(j) == IF snd[j].pc = "complete" THEN Len(snd[j].hashed) + 1 ELSE Len(snd[j].hashed)

(* All of them are there as long as the connection was not cut. *)
Follows(held, sent, last, cut, up) ==
    /\ FlowsFrom(held, sent, last, up)
    /\ ~ cut => Len(held) + Len(up) = last

Flows(up) == Follows(rcv.hashed, snd[Job].hashed, Last(Job), net[rcv.conn].cut, up)

(* Where the sender is when the receiver is there. *)
InOffer ==
    \/ snd[Job].pc = "hello" /\ Sent = <<>> /\ Answered \in {<<>>, << Bare("HELLO_ACK") >>}
    \/ snd[Job].pc = "offered" /\ Len(Sent) <= 1 /\ Answered = <<>>

InResume ==
    \/ /\ snd[Job].pc = "offered" /\ Sent = <<>>
       /\ Answered \in {<<>>, << Carrying("RESUME", rcv.hashed) >>}
    \/ /\ snd[Job].pc = "restart" /\ Answered = <<>>
       /\ Sent \in {<<>>, << Bare("RESTART") >>}
    \/ /\ snd[Job].pc \in {"data", "complete"} /\ Answered = <<>>
       /\ \/ Sent = <<>> /\ net[rcv.conn].cut
          \/ Sent # <<>> /\ Head(Sent) = Bare("ACCEPT") /\ Flows(Tail(Sent))

InData ==
    \/ /\ At("data") /\ rcv.hashed = <<>>
       /\ snd[Job].pc \in {"offered", "restart"} /\ Sent = <<>>
       /\ Answered \in {<<>>, << Bare("ACCEPT") >>}
    \/ snd[Job].pc \in {"data", "complete"} /\ Answered = <<>> /\ Flows(Sent)

EndsInv ==
    Attached =>
        /\ At("hello") => snd[Job].pc = "hello" /\ Answered = <<>>
        /\ At("offer") => InOffer
        /\ rcv.pc \in {"reconcile", "prepare"} =>
              snd[Job].pc = "offered" /\ Sent = <<>> /\ Answered = <<>>
        /\ rcv.pc \in {"fresh", "persist"} \/ Discarding("fresh") =>
              snd[Job].pc \in {"offered", "restart"} /\ Sent = <<>> /\ Answered = <<>>
        /\ At("resume") => InResume
        /\ rcv.pc \in {"adopt", "data"} => InData
        /\ At("publish") => snd[Job].pc = "complete" /\ Answered = <<>>

HelloInv == At("hello") => Sent \in {<<>>, << Bare("HELLO") >>}

SessionInv ==
    /\ ConnInv /\ JobInv /\ LatestInv /\ WorkInv /\ AskedInv /\ HelloInv /\ EndsInv
    /\ NoRetransmission
    /\ MetadataNamesWriter

-----------------------------------------------------------------------------
(* What the variables are, as far as it matters here. *)
Process == [ pc : ReceiverPc, conn : Conns \cup {None}, size : Nat, hashed : Content,
             next : {"fresh", "verified", "reject", "close"}, dirty : BOOLEAN ]

Typed ==
    /\ net \in [Conns -> Connection]
    /\ snd \in [Jobs -> JobState]
    /\ src \in [Jobs -> Content]
    /\ rcv \in Process
    /\ receipt \in [Jobs -> Content \cup {None}]
    /\ Serving => rcv.conn \in Conns

LEMMA InvTypes == /\ Inv => Typed
                  /\ Inv' => Typed'
<1>1. Inv => Typed
  <2>1. Inv => SenderInv /\ ReceiverInv /\ NetInv
    BY InvParts
  <2>2. QED
    BY <2>1, SenderAssumption
       DEF SenderInv, SenderTypeOK, ReceiverInv, ReceiverTypeOK, NetInv, Carries, Nets,
           JobState, Process, Typed, Serving
<1>2. Inv' => Typed'
  <2>1. Inv' => SenderInv' /\ ReceiverInv' /\ NetInv'
    BY InvParts
  <2>2. QED
    BY <2>1, SenderAssumption
       DEF SenderInv, SenderTypeOK, ReceiverInv, ReceiverTypeOK, NetInv, Carries, Nets,
           JobState, Process, Typed, Serving
<1>3. QED
  BY <1>1, <1>2

(* A connection is its job's and its attempt's. *)
LEMMA Names ==
    ASSUME Typed
    PROVE  /\ \A j \in Jobs : Conn(j) \in Conns /\ Conn(j)[1] = j /\ Conn(j)[2] = snd[j].attempt
           /\ \A j \in Jobs : snd[j].attempt \in Nat
           /\ \A c \in Conns : c[1] \in Jobs /\ c[2] \in Nat
           /\ \A c \in Conns, j \in Jobs :
                 c[1] = j /\ c[2] = snd[j].attempt => c = Conn(j)
           /\ Serving => Job \in Jobs
           /\ \A c \in Conns : /\ net[c].up \in Seq(Message) /\ Len(net[c].up) \in Nat
                               /\ net[c].down \in Seq(Message) /\ Len(net[c].down) \in Nat
<1>1. \A j \in Jobs : snd[j].attempt \in 1 .. MaxSendAttempts /\ snd[j].attempt \in Nat
  BY DEF Typed, JobState
<1>2. \A c \in Conns : c[1] \in Jobs /\ c[2] \in Nat /\ c = <<c[1], c[2]>>
  BY DEF Conns
<1>3. \A c \in Conns : net[c].up \in Seq(Message) /\ net[c].down \in Seq(Message)
  BY DEF Typed, Connection
<1>4. \A c \in Conns : Len(net[c].up) \in Nat /\ Len(net[c].down) \in Nat
  BY <1>3, LenProperties
<1>5. QED
  BY <1>1, <1>2, <1>3, <1>4 DEF Typed, Conn, Conns, Job

-----------------------------------------------------------------------------
(* Short sequences, and what the operators of Wire do to a connection. *)
LEMMA One ==
    ASSUME NEW m
    PROVE  /\ Head(<< m >>) = m /\ Tail(<< m >>) = <<>> /\ Len(<< m >>) = 1
           /\ << m >> # <<>> /\ Append(<<>>, m) = << m >> /\ << m >>[1] = m
OBVIOUS

LEMMA AppendTo ==
    ASSUME NEW s \in Seq(Message), s # <<>>, NEW m
    PROVE  /\ Append(s, m) # <<>> /\ Head(Append(s, m)) = Head(s)
           /\ Tail(Append(s, m)) = Append(Tail(s), m)
OBVIOUS

LEMMA UpField ==
    ASSUME NEW n \in [Conns -> Connection], NEW c \in Conns, NEW m
    PROVE  /\ \A d \in Conns : /\ Up(n, c, m)[d].rcvEnd = n[d].rcvEnd
                               /\ Up(n, c, m)[d].cut = n[d].cut
                               /\ Up(n, c, m)[d].down = n[d].down
                               /\ d # c => Up(n, c, m)[d] = n[d]
           /\ Up(n, c, m)[c].up =
                 IF net[c].cut \/ net[c].rcvEnd = "closed" THEN n[c].up ELSE Append(n[c].up, m)
BY DEF Up, ReceiverGone, Connection

LEMMA DownField ==
    ASSUME NEW n \in [Conns -> Connection], NEW c \in Conns, NEW m
    PROVE  /\ \A d \in Conns : /\ Down(n, c, m)[d].rcvEnd = n[d].rcvEnd
                               /\ Down(n, c, m)[d].cut = n[d].cut
                               /\ Down(n, c, m)[d].up = n[d].up
                               /\ d # c => Down(n, c, m)[d] = n[d]
           /\ Down(n, c, m)[c].down \in {n[c].down, Append(n[c].down, m)}
           /\ Down(n, c, m) \in {n, [n EXCEPT ![c].down = Append(@, m)]}
BY DEF Down, Connection

LEMMA TakeField ==
    ASSUME NEW n \in [Conns -> Connection], NEW c \in Conns
    PROVE  /\ \A d \in Conns :
                 /\ TakeUp(n, c)[d].rcvEnd = n[d].rcvEnd /\ TakeDown(n, c)[d].rcvEnd = n[d].rcvEnd
                 /\ TakeUp(n, c)[d].cut = n[d].cut /\ TakeDown(n, c)[d].cut = n[d].cut
                 /\ TakeUp(n, c)[d].down = n[d].down /\ TakeDown(n, c)[d].up = n[d].up
                 /\ d # c => TakeUp(n, c)[d] = n[d] /\ TakeDown(n, c)[d] = n[d]
           /\ TakeUp(n, c)[c].up = Tail(n[c].up)
           /\ TakeDown(n, c)[c].down = Tail(n[c].down)
           /\ n[c].up # <<>> => TakeUp(n, c) \in [Conns -> Connection]
           /\ n[c].down # <<>> => TakeDown(n, c) \in [Conns -> Connection]
<1>1. /\ n[c].up # <<>> => Tail(n[c].up) \in Seq(Message)
      /\ n[c].down # <<>> => Tail(n[c].down) \in Seq(Message)
  BY TakeFirst DEF Connection
<1>2. QED
  BY <1>1 DEF TakeUp, TakeDown, Connection

LEMMA DropField ==
    ASSUME NEW n \in [Conns -> Connection], NEW c \in Conns
    PROVE  /\ \A d \in Conns \ {c} : /\ DropSender(n, c)[d] = n[d]
                                     /\ DropReceiver(n, c)[d] = n[d]
           /\ DropSender(n, c)[c].rcvEnd = n[c].rcvEnd
           /\ DropSender(n, c)[c].up = n[c].up
           /\ DropSender(n, c)[c].cut = n[c].cut
           /\ DropSender(n, c)[c].down = <<>>
           /\ DropReceiver(n, c)[c].rcvEnd = "closed"
           /\ DropReceiver(n, c)[c].down = n[c].down
BY DEF DropSender, DropReceiver, Connection

-----------------------------------------------------------------------------
(* How the frames of a stream change with what is sent, received and lost. *)
LEMMA FlowGrows ==
    ASSUME NEW held \in Content, NEW sent \in Content, NEW up \in Seq(Message),
           NEW b \in Blocks, FlowsFrom(held, sent, Len(sent), up)
    PROVE  \E more \in Content :
              /\ more = sent \o << b >> /\ Len(more) = Len(sent) + 1
              /\ FlowsFrom(held, more, Len(more), up)
              /\ Len(held) + Len(up) = Len(sent) =>
                    FlowsFrom(held, more, Len(more), Append(up, Carrying("DATA", << b >>)))
<1>0. PICK more : more = sent \o << b >>
  OBVIOUS
<1>1. /\ Len(held) \in Nat /\ Len(sent) \in Nat /\ Len(up) \in Nat
      /\ held \in Seq(Blocks) /\ sent \in Seq(Blocks)
  BY LenProperties DEF Content
<1>2. /\ more \in Seq(Blocks) /\ Len(more) = Len(sent) + 1 /\ more[Len(sent) + 1] = b
      /\ \A k \in 1 .. Len(sent) : more[k] = sent[k]
  <2>1. << b >> \in Seq(Blocks) /\ Len(<< b >>) = 1 /\ << b >>[1] = b
    OBVIOUS
  <2>2. QED
    BY <1>0, <1>1, <2>1, ConcatProperties
<1>3. \A n \in 1 .. Len(up) : FrameAfter(more, Len(held) + n) = FrameAfter(sent, Len(held) + n)
  <2>1. ASSUME NEW n \in 1 .. Len(up)
        PROVE  FrameAfter(more, Len(held) + n) = FrameAfter(sent, Len(held) + n)
    <3>1. Len(held) + n \in 1 .. Len(sent)
      BY <1>1 DEF FlowsFrom
    <3>2. QED
      BY <1>1, <1>2, <3>1 DEF FrameAfter
  <2>2. QED
    BY <2>1
<1>4. FlowsFrom(held, more, Len(more), up)
  <2>1. /\ Len(held) <= Len(sent) /\ Len(held) + Len(up) <= Len(sent)
        /\ \A k \in 1 .. Len(held) : held[k] = sent[k]
        /\ \A n \in 1 .. Len(up) : up[n] = FrameAfter(sent, Len(held) + n)
    BY DEF FlowsFrom
  <2>2. \A k \in 1 .. Len(held) : held[k] = more[k]
    BY <1>1, <1>2, <2>1
  <2>3. Len(held) <= Len(more) /\ Len(held) + Len(up) <= Len(more)
    BY <1>1, <1>2, <2>1
  <2>4. \A n \in 1 .. Len(up) : up[n] = FrameAfter(more, Len(held) + n)
    BY <1>3, <2>1
  <2>5. QED
    BY <2>2, <2>3, <2>4 DEF FlowsFrom
<1>5. ASSUME Len(held) + Len(up) = Len(sent)
      PROVE  FlowsFrom(held, more, Len(more), Append(up, Carrying("DATA", << b >>)))
  <2> DEFINE m == Carrying("DATA", << b >>)
             on == Append(up, m)
  <2>1. m \in Message
    <3>1. << b >> \in Content
      BY DEF Content
    <3>2. QED
      BY <3>1, FrameTypes DEF MessageType
  <2>2. /\ Len(on) = Len(up) + 1 /\ on[Len(up) + 1] = m
        /\ \A n \in 1 .. Len(up) : on[n] = up[n]
    BY <2>1, AppendProperties
  <2>3. m = FrameAfter(more, Len(held) + Len(up) + 1)
    <3>1. Len(held) + Len(up) + 1 = Len(sent) + 1
      BY <1>1, <1>5
    <3>2. Len(sent) + 1 <= Len(more) /\ m = Carrying("DATA", << more[Len(sent) + 1] >>)
      BY <1>1, <1>2
    <3> HIDE DEF m, on
    <3>3. QED
      BY <3>1, <3>2 DEF FrameAfter
  <2> HIDE DEF m, on
  <2>4. \A n \in 1 .. Len(on) : on[n] = FrameAfter(more, Len(held) + n)
    <3>1. ASSUME NEW n \in 1 .. Len(on) PROVE on[n] = FrameAfter(more, Len(held) + n)
      <4>1. CASE n = Len(up) + 1
        BY <1>1, <2>2, <2>3, <4>1
      <4>2. CASE n \in 1 .. Len(up)
        BY <1>4, <2>2, <4>2 DEF FlowsFrom
      <4>3. QED
        BY <1>1, <2>2, <4>1, <4>2
    <3>2. QED
      BY <3>1
  <2>5. FlowsFrom(held, more, Len(more), on)
    BY <1>1, <1>2, <1>4, <1>5, <2>2, <2>4 DEF FlowsFrom
  <2>6. QED
    BY <2>5 DEF on, m
<1>6. QED
  BY <1>0, <1>2, <1>4, <1>5 DEF Content

LEMMA FlowEnds ==
    ASSUME NEW held \in Content, NEW sent \in Content, NEW up \in Seq(Message),
           FlowsFrom(held, sent, Len(sent), up)
    PROVE  /\ FlowsFrom(held, sent, Len(sent) + 1, up)
           /\ Len(held) + Len(up) = Len(sent) =>
                 FlowsFrom(held, sent, Len(sent) + 1, Append(up, Carrying("COMPLETE", sent)))
<1>1. Len(held) \in Nat /\ Len(sent) \in Nat /\ Len(up) \in Nat
  BY LenProperties DEF Content
<1>2. FlowsFrom(held, sent, Len(sent) + 1, up)
  BY <1>1 DEF FlowsFrom
<1>3. ASSUME Len(held) + Len(up) = Len(sent)
      PROVE  FlowsFrom(held, sent, Len(sent) + 1, Append(up, Carrying("COMPLETE", sent)))
  <2> DEFINE m == Carrying("COMPLETE", sent)
             on == Append(up, m)
  <2>1. m \in Message
    BY FrameTypes DEF MessageType
  <2>2. /\ Len(on) = Len(up) + 1 /\ on[Len(up) + 1] = m
        /\ \A n \in 1 .. Len(up) : on[n] = up[n]
    BY <2>1, AppendProperties
  <2>3. m = FrameAfter(sent, Len(held) + Len(up) + 1)
    BY <1>1, <1>3 DEF FrameAfter
  <2> HIDE DEF m, on
  <2>4. \A n \in 1 .. Len(on) : on[n] = FrameAfter(sent, Len(held) + n)
    <3>1. ASSUME NEW n \in 1 .. Len(on) PROVE on[n] = FrameAfter(sent, Len(held) + n)
      <4>1. CASE n = Len(up) + 1
        BY <1>1, <2>2, <2>3, <4>1
      <4>2. CASE n \in 1 .. Len(up)
        BY <2>2, <4>2 DEF FlowsFrom
      <4>3. QED
        BY <1>1, <2>2, <4>1, <4>2
    <3>2. QED
      BY <3>1
  <2>5. FlowsFrom(held, sent, Len(sent) + 1, on)
    BY <1>1, <1>3, <2>2, <2>4 DEF FlowsFrom
  <2>6. QED
    BY <2>5 DEF on, m
<1>4. QED
  BY <1>2, <1>3

(* One block more. *)
LEMMA OneMore ==
    ASSUME NEW held \in Seq(Blocks), NEW b \in Blocks, NEW more, more = held \o << b >>
    PROVE  /\ more \in Seq(Blocks)
           /\ Len(more) = Len(held) + 1 /\ more[Len(held) + 1] = b
           /\ \A k \in 1 .. Len(held) : more[k] = held[k]
<1>1. << b >> \in Seq(Blocks) /\ Len(<< b >>) = 1 /\ << b >>[1] = b /\ Len(held) \in Nat
  BY LenProperties
<1>2. QED
  BY <1>1, ConcatProperties

(* The frames behind the one that was taken follow what is held with it.   *)
LEMMA FlowSteps ==
    ASSUME NEW held \in Seq(Blocks), NEW sent \in Seq(Blocks), NEW up \in Seq(Message),
           up # <<>>, NEW last \in Nat, FlowsFrom(held, sent, last, up),
           Len(held) + 1 <= Len(sent),
           NEW more \in Seq(Blocks), Len(more) = Len(held) + 1,
           more[Len(held) + 1] = sent[Len(held) + 1],
           \A k \in 1 .. Len(held) : more[k] = held[k]
    PROVE  Len(Tail(up)) = Len(up) - 1 /\ FlowsFrom(more, sent, last, Tail(up))
<1>1. Len(held) \in Nat /\ Len(sent) \in Nat /\ Len(up) \in Nat /\ Len(up) >= 1
  BY LenProperties, EmptySeq
<1>2. /\ Len(Tail(up)) = Len(up) - 1
      /\ \A n \in 1 .. Len(up) - 1 : Tail(up)[n] = up[n + 1]
  BY <1>1, HeadTailProperties
<1>3. \A n \in 1 .. Len(Tail(up)) : Tail(up)[n] = FrameAfter(sent, Len(more) + n)
  <2>1. ASSUME NEW n \in 1 .. Len(up) - 1
        PROVE  Tail(up)[n] = FrameAfter(sent, Len(more) + n)
    <3>1. n + 1 \in 1 .. Len(up)
      BY <1>1
    <3>2. up[n + 1] = FrameAfter(sent, Len(held) + (n + 1))
      BY <3>1 DEF FlowsFrom
    <3>3. Len(held) + (n + 1) = Len(more) + n
      BY <1>1
    <3>4. QED
      BY <1>2, <3>2, <3>3
  <2>2. QED
    BY <1>2, <2>1
<1>4. \A k \in 1 .. Len(more) : more[k] = sent[k]
  <2>1. \A k \in 1 .. Len(held) : held[k] = sent[k]
    BY DEF FlowsFrom
  <2>2. ASSUME NEW k \in 1 .. Len(more), k # Len(held) + 1 PROVE more[k] = sent[k]
    <3>1. k \in 1 .. Len(held)
      BY ONLY <1>1, <2>2, Len(more) = Len(held) + 1
    <3>2. QED
      BY <2>1, <3>1
  <2>3. QED
    BY <2>2
<1>5. Len(more) <= Len(sent) /\ Len(more) + Len(Tail(up)) <= last
  BY <1>1, <1>2 DEF FlowsFrom
<1>6. QED
  BY <1>2, <1>3, <1>4, <1>5 DEF FlowsFrom

(* The receiver takes a block off the stream. *)
LEMMA FlowMoves ==
    ASSUME NEW held \in Content, NEW sent \in Content, NEW up \in Seq(Message), up # <<>>,
           NEW last \in Nat, FlowsFrom(held, sent, last, up), Head(up).type = "DATA"
    PROVE  /\ Len(held \o Head(up).body) = Len(held) + 1 /\ Len(Tail(up)) = Len(up) - 1
           /\ FlowsFrom(held \o Head(up).body, sent, last, Tail(up))
<1>1. /\ Len(held) \in Nat /\ Len(sent) \in Nat /\ Len(up) \in Nat
      /\ held \in Seq(Blocks) /\ sent \in Seq(Blocks)
  BY LenProperties DEF Content
<1>2. Head(up) = up[1] /\ Len(up) >= 1
  BY <1>1, EmptySeq, HeadTailProperties
<1>3. up[1] = FrameAfter(sent, Len(held) + 1)
  BY <1>1, <1>2 DEF FlowsFrom
<1> DEFINE b == sent[Len(held) + 1]
<1>4. Len(held) + 1 <= Len(sent) /\ Head(up).body = << b >>
  BY <1>2, <1>3 DEF FrameAfter, Carrying
<1>5. b \in Blocks
  BY <1>1, <1>4, ElementOfSeq
<1> HIDE DEF b
<1>6. PICK more : more = held \o Head(up).body
  OBVIOUS
<1>7. more = held \o << b >>
  BY <1>4, <1>6
<1>8. /\ more \in Seq(Blocks)
      /\ Len(more) = Len(held) + 1 /\ more[Len(held) + 1] = b
      /\ \A k \in 1 .. Len(held) : more[k] = held[k]
  BY <1>1, <1>5, <1>7, OneMore
<1>9. b = sent[Len(held) + 1]
  BY DEF b
<1>10. Len(Tail(up)) = Len(up) - 1 /\ FlowsFrom(more, sent, last, Tail(up))
  BY <1>1, <1>4, <1>8, <1>9, FlowSteps
<1>11. QED
  BY <1>6, <1>8, <1>10

LEMMA FlowBreaks ==
    ASSUME NEW held, NEW sent, NEW last \in Nat, NEW up \in Seq(Message),
           Len(held) \in Nat, FlowsFrom(held, sent, last, up), NEW m \in 0 .. Len(up)
    PROVE  FlowsFrom(held, sent, last, SubSeq(up, 1, m))
<1>1. Len(up) \in Nat
  BY LenProperties
<1>2. Len(SubSeq(up, 1, m)) = m /\ \A n \in 1 .. m : SubSeq(up, 1, m)[n] = up[n]
  BY <1>1, SubSeqProperties
<1>3. QED
  BY <1>1, <1>2 DEF FlowsFrom

(* What is left of a direction that is cut. *)
LeftOf(up, m, b) ==
    /\ b = SubSeq(up, 1, m)
    /\ Len(b) = m
    /\ \A n \in 1 .. m : b[n] = up[n]
    /\ up = <<>> => b = <<>>
    /\ \A f : up = << f >> => b \in {<<>>, << f >>}
    /\ b # <<>> => /\ m >= 1 /\ Head(b) = Head(up)
                   /\ m - 1 \in 0 .. Len(Tail(up)) /\ Tail(b) = SubSeq(Tail(up), 1, m - 1)

LEMMA Broken ==
    ASSUME NEW up \in Seq(Message), NEW m \in 0 .. Len(up)
    PROVE  LeftOf(up, m, SubSeq(up, 1, m))
<1>0. PICK b : b = SubSeq(up, 1, m)
  OBVIOUS
<1> USE <1>0
<1>1. Len(up) \in Nat /\ \A n \in 1 .. m : up[n] \in Message
  BY LenProperties, ElementOfSeq
<1>2. /\ b \in Seq(Message) /\ Len(b) = m
      /\ \A n \in 1 .. m : b[n] = up[n]
      /\ up = <<>> => b = <<>>
  <2>1. b \in Seq(Message) /\ Len(b) = m /\ \A n \in 1 .. m : b[n] = up[n]
    BY <1>1, SubSeqProperties
  <2>2. QED
    BY <2>1, EmptySeq
<1>3. ASSUME b # <<>>
      PROVE  /\ m >= 1 /\ Head(b) = Head(up)
             /\ m - 1 \in 0 .. Len(Tail(up)) /\ Tail(b) = SubSeq(Tail(up), 1, m - 1)
  <2>1. m >= 1 /\ up # <<>>
    BY <1>1, <1>2, <1>3, EmptySeq
  <2>2. Len(Tail(up)) = Len(up) - 1 /\ Tail(up) \in Seq(Message)
        /\ \A n \in 1 .. Len(up) - 1 : Tail(up)[n] = up[n + 1]
    BY <1>1, <2>1, HeadTailProperties
  <2>3. Len(Tail(b)) = m - 1 /\ Tail(b) \in Seq(Message)
        /\ \A n \in 1 .. m - 1 : Tail(b)[n] = b[n + 1]
    BY <1>1, <1>2, <1>3, HeadTailProperties
  <2> DEFINE t == SubSeq(Tail(up), 1, m - 1)
  <2>4. t \in Seq(Message) /\ Len(t) = m - 1 /\ \A n \in 1 .. m - 1 : t[n] = Tail(up)[n]
    <3>1. m - 1 \in Int /\ \A n \in 1 .. m - 1 : Tail(up)[n] \in Message
      BY <1>1, <2>2, ElementOfSeq
    <3>2. QED
      BY <1>1, <2>1, <3>1, SubSeqProperties
  <2>5. \A n \in 1 .. m - 1 : Tail(b)[n] = t[n]
    <3>1. ASSUME NEW n \in 1 .. m - 1 PROVE Tail(b)[n] = t[n]
      BY <1>1, <1>2, <2>2, <2>3, <2>4
    <3>2. QED
      BY <3>1
  <2> HIDE DEF t
  <2>6. Tail(b) = t
    BY <2>3, <2>4, <2>5, SeqEqual
  <2>7. Head(b) = b[1] /\ Head(up) = up[1]
    BY <1>2, <2>1, <1>3, HeadTailProperties
  <2>8. QED
    BY <1>1, <1>2, <2>1, <2>2, <2>6, <2>7 DEF t
<1>4. \A f : up = << f >> => b \in {<<>>, << f >>}
  <2>1. ASSUME NEW f, up = << f >>, b # <<>> PROVE b = << f >>
    <3>1. Len(up) = 1 /\ m = 1
      BY <1>1, <1>3, <2>1
    <3>2. b = up
      BY <1>1, <1>2, <3>1, SeqEqual
    <3>3. QED
      BY <2>1, <3>2
  <2>2. QED
    BY <1>2, <2>1
<1>5. LeftOf(up, m, b)
  BY <1>2, <1>3, <1>4 DEF LeftOf
<1>6. QED
  BY <1>5
-----------------------------------------------------------------------------
(* A step of a job on its own connection, once that is open or before it   *)
(* is: the rest of the session sees what the job left on the connection.   *)
LEMMA JobStep ==
    ASSUME Typed, Typed', SessionInv, UNCHANGED receiverVars,
           NEW j \in Jobs, \A i \in Jobs \ {j} : snd'[i] = snd[i],
           snd'[j].attempt >= snd[j].attempt,
           NEW c \in Conns, c = Conn(j), \A d \in Conns \ {c} : net'[d] = net[d],
           net'[c].rcvEnd = net[c].rcvEnd,
           net[c].rcvEnd = "backlog" =>
              net'[c].down = <<>> /\ net'[c].up \in {<<>>, << Bare("HELLO") >>},
           snd'[j].pc \in {"idle", "connect"} => net'[Conn(j)'].rcvEnd = "none",
           Live(j)' => Conn(j)' = c /\ Live(j) /\ snd'[j].pc # "hello",
           Live(j)' => /\ net'[c].rcvEnd # "backlog"
                       /\ net'[c].down \in {net[c].down, Tail(net[c].down)},
           Serving /\ rcv.conn = c /\ At("offer") /\ net[c].up = <<>> =>
              net'[c].up = <<>> \/ Live(j),
           Serving /\ rcv.conn = c /\ At("hello") => net'[c].up = net[c].up,
           Attached' /\ Job = j => EndsInv',
           snd'[j].pc \in {"data", "restart"} => receipt[j] = None
    PROVE  SessionInv'
<1> USE Names
<1>0. Serving' = Serving /\ Job' = Job /\ rcv' = rcv /\ receipt' = receipt /\ meta' = meta
  BY DEF Serving, Job, receiverVars
<1>1. \A i \in Jobs : Conn(i) \in Conns /\ Conn(i)[1] = i /\ Conn(i)[2] = snd[i].attempt
  OBVIOUS
<1>2. \A i \in Jobs \ {j} : Conn(i)' = Conn(i) /\ Conn(i) # c
  BY <1>1 DEF Conn
<1>3. \A d \in Conns : net'[d].rcvEnd = net[d].rcvEnd
  OBVIOUS
<1>4. ConnInv'
  <2>1. ASSUME NEW d \in Conns
        PROVE  /\ net'[d].rcvEnd = "accepted" <=> Serving /\ d = rcv.conn
               /\ net'[d].rcvEnd = "backlog" =>
                     net'[d].down = <<>> /\ net'[d].up \in {<<>>, << Bare("HELLO") >>}
               /\ snd'[d[1]].attempt < d[2] => net'[d].rcvEnd = "none"
    <3>1. /\ net[d].rcvEnd = "accepted" <=> Serving /\ d = rcv.conn
          /\ net[d].rcvEnd = "backlog" =>
                net[d].down = <<>> /\ net[d].up \in {<<>>, << Bare("HELLO") >>}
          /\ snd[d[1]].attempt < d[2] => net[d].rcvEnd = "none"
      BY DEF SessionInv, ConnInv
    <3>2. snd'[d[1]].attempt >= snd[d[1]].attempt
      <4>1. d[1] \in Jobs /\ \A i \in Jobs : snd[i].attempt \in Nat /\ snd'[i].attempt \in Nat
        BY DEF Typed, JobState
      <4>2. QED
        BY <4>1
    <3>3. snd[d[1]].attempt \in Nat /\ snd'[d[1]].attempt \in Nat /\ d[2] \in Nat
      BY DEF Typed, JobState
    <3>4. snd'[d[1]].attempt < d[2] => snd[d[1]].attempt < d[2]
      BY <3>2, <3>3
    <3>5. QED
      BY <1>3, <3>1, <3>4
  <2>2. QED
    BY <1>0, <2>1 DEF ConnInv
<1>5. JobInv'
  <2>1. ASSUME NEW i \in Jobs
        PROVE  /\ snd'[i].pc \in {"idle", "connect"} => net'[Conn(i)'].rcvEnd = "none"
               /\ Live(i)' => net'[Conn(i)'].rcvEnd # "none"
               /\ Live(i)' /\ net'[Conn(i)'].rcvEnd = "backlog" => snd'[i].pc = "hello"
    <3>1. /\ snd[i].pc \in {"idle", "connect"} => net[Conn(i)].rcvEnd = "none"
          /\ Live(i) => net[Conn(i)].rcvEnd # "none"
          /\ Live(i) /\ net[Conn(i)].rcvEnd = "backlog" => snd[i].pc = "hello"
      BY DEF SessionInv, JobInv
    <3>2. CASE i # j
      <4>1. snd'[i] = snd[i] /\ Conn(i)' = Conn(i) /\ Live(i)' = Live(i)
            /\ net'[Conn(i)] = net[Conn(i)]
        BY <1>1, <1>2, <3>2 DEF Live
      <4>2. QED
        BY <3>1, <4>1
    <3>3. CASE i = j
      BY <1>3, <3>1, <3>3
    <3>4. QED
      BY <3>2, <3>3
  <2>2. QED
    BY <2>1 DEF JobInv
<1>6. LatestInv'
  <2>1. SUFFICES ASSUME rcv.pc \notin {"down", "accept", "hello", "close"},
                        At("offer") => Sent' # <<>>,
                        NEW d \in Conns, d[1] = Job, d[2] > rcv.conn[2]
                 PROVE  net'[d].rcvEnd \in {"none", "backlog"}
    BY <1>0 DEF LatestInv, At
  <2>2. CASE At("offer") => Sent # <<>>
    BY <1>3, <2>1, <2>2 DEF SessionInv, LatestInv
  <2>3. CASE At("offer") /\ Sent = <<>>
    <3>1. Serving /\ rcv.conn \in Conns
      BY <2>3 DEF Serving, At, Typed
    <3>2. rcv.conn = c /\ Live(j)
      BY <1>0, <2>1, <2>3, <3>1 DEF Sent
    <3>3. d[1] = j /\ snd[j].attempt < d[2]
      BY <1>1, <2>1, <3>2 DEF Job
    <3>4. net[d].rcvEnd = "none"
      BY <3>3 DEF SessionInv, ConnInv
    <3>5. QED
      BY <1>3, <3>4
  <2>4. QED
    BY <2>2, <2>3
<1>7. WorkInv' /\ MetadataNamesWriter'
  BY <1>0 DEF SessionInv, WorkInv, MetadataNamesWriter, At
<1>8. AskedInv'
  <2>1. ASSUME NEW i \in Jobs, Live(i)', NEW n \in 1 .. Len(net'[Conn(i)'].down),
               net'[Conn(i)'].down[n].type \in {"ACCEPT", "RESUME"}
        PROVE  receipt[i] = None
    <3>1. Live(i) => \A k \in 1 .. Len(net[Conn(i)].down) :
             net[Conn(i)].down[k].type \in {"ACCEPT", "RESUME"} => receipt[i] = None
      BY DEF SessionInv, AskedInv
    <3>2. CASE i # j
      <4>1. snd'[i] = snd[i] /\ Conn(i)' = Conn(i) /\ Live(i)' = Live(i)
            /\ net'[Conn(i)] = net[Conn(i)]
        BY <1>1, <1>2, <3>2 DEF Live
      <4>2. QED
        BY <2>1, <3>1, <4>1
    <3>3. CASE i = j
      <4>1. Conn(i)' = c /\ Live(i) /\ net'[c].down \in {net[c].down, Tail(net[c].down)}
        BY <2>1, <3>3
      <4>2. CASE net'[c].down = net[c].down
        BY <2>1, <3>1, <3>3, <4>1, <4>2
      <4>3. CASE net'[c].down = Tail(net[c].down) /\ net[c].down # <<>>
        <5>1. net[c].down \in Seq(Message) /\ Len(net[c].down) \in Nat
          OBVIOUS
        <5>2. /\ Len(Tail(net[c].down)) = Len(net[c].down) - 1
              /\ \A k \in 1 .. Len(net[c].down) - 1 : Tail(net[c].down)[k] = net[c].down[k + 1]
          BY <4>3, <5>1, HeadTailProperties
        <5>3. n \in 1 .. Len(net[c].down) - 1 /\ net[c].down[n + 1].type \in {"ACCEPT", "RESUME"}
          BY <2>1, <4>1, <4>3, <5>2
        <5>4. n + 1 \in 1 .. Len(net[c].down)
          BY <5>1, <5>3
        <5>5. QED
          BY <3>1, <3>3, <4>1, <5>3, <5>4
      <4>4. CASE net'[c].down = Tail(net[c].down) /\ net[c].down = <<>>
        <5>1. Len(net'[c].down) = 0
          BY <4>4, EmptySeq
        <5>2. QED
          BY <2>1, <4>1, <5>1
      <4>5. QED
        BY <4>1, <4>2, <4>3, <4>4
    <3>4. QED
      BY <3>2, <3>3
  <2>2. QED
    BY <1>0, <2>1 DEF AskedInv
<1>9. HelloInv'
  <2>1. SUFFICES ASSUME At("hello") PROVE Sent' \in {<<>>, << Bare("HELLO") >>}
    BY <1>0 DEF HelloInv, At
  <2>2. Serving /\ rcv.conn \in Conns
    BY <2>1 DEF Serving, At, Typed
  <2>3. Sent' = Sent
    BY <1>0, <2>1, <2>2 DEF Sent
  <2>4. QED
    BY <2>1, <2>3 DEF SessionInv, HelloInv
<1>10. EndsInv'
  <2>1. CASE ~ Attached'
    BY <2>1 DEF EndsInv
  <2>2. CASE Attached' /\ Job # j
    <3>1. Job \in Jobs /\ rcv.conn \in Conns
      BY <1>0, <2>2 DEF Attached, Typed
    <3>2. snd'[Job] = snd[Job] /\ Conn(Job)' = Conn(Job) /\ Live(Job)' = Live(Job)
      BY <1>2, <2>2, <3>1, <1>0 DEF Live, Conn
    <3>3. Attached /\ net'[rcv.conn] = net[rcv.conn]
      BY <1>0, <1>2, <2>2, <3>1, <3>2 DEF Attached, Live
    <3>4. Sent' = Sent /\ Answered' = Answered /\ Last(Job)' = Last(Job)
      BY <1>0, <3>2, <3>3 DEF Sent, Answered, Last
    <3>5. InOffer' = InOffer /\ InResume' = InResume /\ InData' = InData
      BY <1>0, <3>2, <3>3, <3>4 DEF InOffer, InResume, InData, Flows, At
    <3>6. QED
      BY <1>0, <3>2, <3>3, <3>4, <3>5 DEF SessionInv, EndsInv, At, Discarding
  <2>3. QED
    BY <2>1, <2>2
<1>11. NoRetransmission'
  BY <1>0 DEF SessionInv, NoRetransmission
<1>12. QED
  BY <1>4, <1>5, <1>6, <1>7, <1>8, <1>9, <1>10, <1>11 DEF SessionInv

(* Steps away from a connection, and those that leave one. *)
LEMMA AwayKeeps ==
    ASSUME Typed, Typed', SessionInv, UNCHANGED receiverVars, NEW j \in Jobs,
           \/ Start(j) \/ ConnectRefused(j) \/ Retry(j) \/ CancelWhileWaiting(j)
    PROVE  SessionInv'
<1> USE Names
<1> DEFINE c == Conn(j)
<1>1. /\ net' = net
      /\ \A i \in Jobs \ {j} : snd'[i] = snd[i]
      /\ ~ Live(j)
  BY DEF Start, ConnectRefused, Retry, CancelWhileWaiting, Goto, Typed, wireVars, Live,
         Reading
<1>2. \/ /\ snd[j].pc = "idle" /\ snd'[j].pc = "connect"
         /\ snd'[j].attempt = snd[j].attempt
      \/ /\ snd'[j].pc \in {"waiting", "exhausted", "cancelled"}
         /\ snd'[j].attempt = snd[j].attempt
      \/ /\ snd'[j].pc = "connect"
         /\ snd'[j].attempt = snd[j].attempt + 1
  BY DEF Start, ConnectRefused, Retry, CancelWhileWaiting, Goto, AfterLoss, Typed, JobState
<1>3. ~ Live(j)' /\ snd'[j].pc \notin {"data", "restart"}
  BY <1>2 DEF Live, Reading
<1>4. snd'[j].attempt >= snd[j].attempt
  BY <1>2 DEF Typed, JobState
<1>5. ASSUME snd'[j].pc \in {"idle", "connect"} PROVE net'[Conn(j)'].rcvEnd = "none"
  <2>1. CASE snd[j].pc = "idle" /\ snd'[j].attempt = snd[j].attempt
    BY <1>1, <2>1 DEF Conn, SessionInv, JobInv
  <2>2. CASE snd'[j].attempt = snd[j].attempt + 1
    <3>1. /\ Conn(j)' \in Conns /\ Conn(j)'[1] = j
          /\ Conn(j)'[2] = snd[j].attempt + 1 /\ snd[j].attempt \in Nat
      <4>1. Conn(j)' = <<j, snd[j].attempt + 1>>
        BY <2>2 DEF Conn
      <4>2. snd'[j].attempt \in 1 .. MaxSendAttempts /\ snd[j].attempt \in Nat
        BY DEF Typed, JobState
      <4>3. QED
        BY <2>2, <4>1, <4>2 DEF Conns
    <3>2. snd[j].attempt < snd[j].attempt + 1
      BY <3>1
    <3>3. QED
      BY <1>1, <3>1, <3>2 DEF SessionInv, ConnInv
  <2>3. QED
    BY <1>2, <1>5, <2>1, <2>2
<1>6. ~ (Attached' /\ Job = j)
  <2>1. Job' = Job
    BY DEF Job, receiverVars
  <2>2. QED
    BY <1>3, <2>1 DEF Attached
<1>7. c \in Conns /\ (net[c].rcvEnd = "backlog" =>
         net[c].down = <<>> /\ net[c].up \in {<<>>, << Bare("HELLO") >>})
  BY DEF SessionInv, ConnInv
<1> HIDE DEF c
<1>8. QED
  BY <1>1, <1>3, <1>4, <1>5, <1>6, <1>7, JobStep DEF c

LEMMA EditKeeps ==
    ASSUME SessionInv, UNCHANGED <<net, snd, rcv, meta, receipt>>
    PROVE  SessionInv'
<1>1. /\ Serving' = Serving /\ Job' = Job /\ Sent' = Sent /\ Answered' = Answered
      /\ \A i : Live(i)' = Live(i) /\ Conn(i)' = Conn(i) /\ Last(i)' = Last(i)
  BY DEF Serving, Job, Sent, Answered, Live, Conn, Last
<1>2. Attached' = Attached
  BY <1>1 DEF Attached
<1>3. InOffer' = InOffer /\ InResume' = InResume /\ InData' = InData
  BY <1>1 DEF InOffer, InResume, InData, Flows, At
<1>4. ConnInv' /\ JobInv' /\ LatestInv' /\ WorkInv' /\ AskedInv' /\ HelloInv'
  BY <1>1 DEF SessionInv, ConnInv, JobInv, LatestInv, WorkInv, AskedInv, HelloInv, At
<1>5. EndsInv' /\ NoRetransmission' /\ MetadataNamesWriter'
  BY <1>1, <1>2, <1>3 DEF SessionInv, EndsInv, NoRetransmission, MetadataNamesWriter, At,
                          Discarding
<1>6. QED
  BY <1>4, <1>5 DEF SessionInv

(* What is known of a job on its connection. *)
LEMMA OnLine ==
    ASSUME Typed, SessionInv, NEW j \in Jobs, Live(j)
    PROVE  /\ Conn(j) \in Conns
           /\ net[Conn(j)].rcvEnd # "none"
           /\ net[Conn(j)].rcvEnd = "backlog" =>
                 /\ snd[j].pc = "hello" /\ net[Conn(j)].down = <<>>
                 /\ net[Conn(j)].up \in {<<>>, << Bare("HELLO") >>}
           /\ Serving /\ rcv.conn = Conn(j) =>
                 /\ Attached /\ Job = j
                 /\ net[Conn(j)].rcvEnd = "accepted"
                 /\ At("hello") => snd[j].pc = "hello" /\ net[Conn(j)].down = <<>>
                 /\ At("offer") => snd[j].pc \in {"hello", "offered"}
<1>1. Conn(j) \in Conns /\ Conn(j)[1] = j
  BY Names
<1>2. /\ net[Conn(j)].rcvEnd # "none"
      /\ net[Conn(j)].rcvEnd = "backlog" =>
            /\ snd[j].pc = "hello" /\ net[Conn(j)].down = <<>>
            /\ net[Conn(j)].up \in {<<>>, << Bare("HELLO") >>}
  BY <1>1 DEF SessionInv, JobInv, ConnInv
<1>3. ASSUME Serving, rcv.conn = Conn(j)
      PROVE  /\ Attached /\ Job = j
             /\ net[Conn(j)].rcvEnd = "accepted"
             /\ At("hello") => snd[j].pc = "hello" /\ net[Conn(j)].down = <<>>
             /\ At("offer") => snd[j].pc \in {"hello", "offered"}
  <2>1. Job = j
    BY <1>1, <1>3 DEF Job
  <2>2. Attached
    BY <1>3, <2>1 DEF Attached
  <2>3. net[Conn(j)].rcvEnd = "accepted"
    BY <1>1, <1>3 DEF SessionInv, ConnInv
  <2>4. EndsInv /\ Answered = net[Conn(j)].down
    BY <1>3 DEF SessionInv, Answered
  <2>5. /\ At("hello") => snd[j].pc = "hello" /\ net[Conn(j)].down = <<>>
        /\ At("offer") => snd[j].pc \in {"hello", "offered"}
    BY <2>1, <2>2, <2>4 DEF EndsInv, InOffer
  <2>6. QED
    BY <2>1, <2>2, <2>3, <2>5
<1>4. QED
  BY <1>1, <1>2, <1>3

LEMMA LeavingKeeps ==
    ASSUME Typed, Typed', SessionInv, UNCHANGED receiverVars, NEW j \in Jobs,
           \/ Rejected(j) \/ Verified(j) \/ ResumeSourceTooShort(j)
           \/ SourceSizeChanged(j) \/ Abort(j) \/ LoseReceiver(j) \/ Cancel(j)
    PROVE  SessionInv'
<1> USE Names
<1> DEFINE c == Conn(j)
<1>1. Live(j) /\ c \in Conns
  BY DEF Live, Rejected, Verified, ResumeSourceTooShort, SourceSizeChanged, Abort,
         LoseReceiver, Cancel, Reads, Reading
<1>2. /\ snd'[j].pc \notin {"idle", "connect"} \cup Reading \cup {"data"}
      /\ snd'[j].attempt = snd[j].attempt
      /\ \A i \in Jobs \ {j} : snd'[i] = snd[i]
  BY DEF Rejected, Verified, ResumeSourceTooShort, SourceSizeChanged, Abort,
         LoseReceiver, Cancel, Leave, Goto, AfterLoss, Reading, Typed, JobState
<1>3. /\ \A d \in Conns \ {c} : net'[d] = net[d]
      /\ net'[c].rcvEnd = net[c].rcvEnd
      /\ net'[c].down = <<>>
      /\ net'[c].up = net[c].up \/ snd[j].pc = "data"
  <2>1. CASE Cancel(j)
    <3> DEFINE n == Up(net, c, Bare("CANCEL"))
    <3>1. /\ n \in [Conns -> Connection]
          /\ \A d \in Conns : n[d].rcvEnd = net[d].rcvEnd
          /\ \A d \in Conns \ {c} : n[d] = net[d]
      <4>1. Bare("CANCEL") \in Message
        BY FrameTypes DEF MessageType
      <4>2. n \in {net, [net EXCEPT ![c].up = Append(@, Bare("CANCEL"))]}
        BY DEF Up
      <4>3. Append(net[c].up, Bare("CANCEL")) \in Seq(Message)
        BY <1>1, <4>1, AppendProperties
      <4>4. net \in [Conns -> Connection]
        BY DEF Typed
      <4> DEFINE k == [net[c] EXCEPT !.up = Append(@, Bare("CANCEL"))]
      <4>5. k \in Connection /\ k.rcvEnd = net[c].rcvEnd
        <5>1. net[c] \in Connection
          BY <1>1, <4>4
        <5> HIDE DEF c
        <5>2. QED
          BY ONLY <4>3, <5>1 DEF Connection
      <4>6. n \in {net, [net EXCEPT ![c] = k]}
        BY <4>2
      <4> HIDE DEF n, c, k
      <4>7. QED
        BY <1>1, <4>4, <4>5, <4>6
    <3>2. net' = DropSender(n, c) /\ snd[j].pc = "data"
      BY <2>1 DEF Cancel
    <3> HIDE DEF n, c
    <3>3. QED
      BY <1>1, <3>1, <3>2, DropField
  <2>2. CASE ~ Cancel(j)
    <3>1. net' = DropSender(net, c)
      BY <2>2 DEF Rejected, Verified, ResumeSourceTooShort, SourceSizeChanged, Abort,
                  LoseReceiver, Leave
    <3>2. net \in [Conns -> Connection]
      BY DEF Typed
    <3> HIDE DEF c
    <3>3. QED
      BY <1>1, <3>1, <3>2, DropField
  <2>3. QED
    BY <2>1, <2>2
<1>4. ~ Live(j)'
  BY <1>2 DEF Live
<1>5. ~ (Attached' /\ Job = j)
  <2>1. Job' = Job
    BY DEF Job, receiverVars
  <2>2. QED
    BY <1>4, <2>1 DEF Attached
<1>6. net[c].rcvEnd = "backlog" => net'[c].up \in {<<>>, << Bare("HELLO") >>}
  BY <1>1, <1>3, OnLine
<1>7. Serving /\ rcv.conn = c /\ At("hello") => net'[c].up = net[c].up
  BY <1>1, <1>3, OnLine
<1>8. snd'[j].attempt >= snd[j].attempt
  BY <1>2 DEF Typed, JobState
<1>9. snd'[j].pc \notin {"data", "restart"}
  BY <1>2 DEF Reading
<1> HIDE DEF c
<1>10. QED
  BY <1>1, <1>2, <1>3, <1>4, <1>5, <1>6, <1>7, <1>8, <1>9, JobStep DEF c

(* A connection is opened: nobody looks at it until it is accepted. *)
LEMMA ConnectKeeps ==
    ASSUME Typed, Typed', SessionInv, UNCHANGED receiverVars, NEW j \in Jobs, Connect(j)
    PROVE  SessionInv'
<1> USE Names
<1>0. Serving' = Serving /\ Job' = Job /\ rcv' = rcv /\ receipt' = receipt /\ meta' = meta
  BY DEF Serving, Job, receiverVars
<1> DEFINE c == Conn(j)
<1>1. /\ c \in Conns /\ c[1] = j /\ net[c].rcvEnd = "none"
      /\ snd[j].pc = "connect"
  BY DEF Connect, SessionInv, JobInv
<1>2. /\ \A i \in Jobs \ {j} : snd'[i] = snd[i]
      /\ snd'[j].pc = "hello" /\ \A i \in Jobs : snd'[i].attempt = snd[i].attempt
  BY DEF Connect, Typed, JobState
<1>3. /\ \A d \in Conns \ {c} : net'[d] = net[d]
      /\ net'[c].rcvEnd = "backlog" /\ net'[c].down = <<>>
      /\ net'[c].up = << Bare("HELLO") >>
  BY <1>1 DEF Connect, Opened, Typed
<1>4. \A i \in Jobs : Conn(i) \in Conns /\ Conn(i)[1] = i /\ Conn(i)' = Conn(i)
  BY <1>2 DEF Conn
<1>5. \A i \in Jobs \ {j} : /\ Conn(i) # c /\ net'[Conn(i)] = net[Conn(i)]
                            /\ Live(i)' = Live(i) /\ Last(i)' = Last(i)
  BY <1>1, <1>2, <1>3, <1>4 DEF Live, Last
<1>6. Live(j)' /\ Conn(j)' = c
  BY <1>2, <1>4 DEF Live, Reading
<1> HIDE DEF c
<1>7. ConnInv'
  <2>1. ASSUME NEW d \in Conns
        PROVE  /\ net'[d].rcvEnd = "accepted" <=> Serving /\ d = rcv.conn
               /\ net'[d].rcvEnd = "backlog" =>
                     net'[d].down = <<>> /\ net'[d].up \in {<<>>, << Bare("HELLO") >>}
               /\ snd'[d[1]].attempt < d[2] => net'[d].rcvEnd = "none"
    <3>1. /\ net[d].rcvEnd = "accepted" <=> Serving /\ d = rcv.conn
          /\ net[d].rcvEnd = "backlog" =>
                net[d].down = <<>> /\ net[d].up \in {<<>>, << Bare("HELLO") >>}
          /\ snd[d[1]].attempt < d[2] => net[d].rcvEnd = "none"
      BY DEF SessionInv, ConnInv
    <3>2. CASE d # c
      BY <1>2, <1>3, <3>1, <3>2
    <3>3. CASE d = c
      <4>1. d[1] = j /\ ~ (snd[d[1]].attempt < d[2])
        BY <1>1, <3>3 DEF c
      <4>2. QED
        BY <1>1, <1>2, <1>3, <3>1, <3>3, <4>1
    <3>4. QED
      BY <3>2, <3>3
  <2>2. QED
    BY <1>0, <2>1 DEF ConnInv
<1>8. JobInv'
  <2>1. ASSUME NEW i \in Jobs
        PROVE  /\ snd'[i].pc \in {"idle", "connect"} => net'[Conn(i)'].rcvEnd = "none"
               /\ Live(i)' => net'[Conn(i)'].rcvEnd # "none"
               /\ Live(i)' /\ net'[Conn(i)'].rcvEnd = "backlog" => snd'[i].pc = "hello"
    <3>1. CASE i = j
      BY <1>2, <1>3, <1>6, <3>1
    <3>2. CASE i # j
      BY <1>2, <1>4, <1>5, <3>2 DEF SessionInv, JobInv
    <3>3. QED
      BY <3>1, <3>2
  <2>2. QED
    BY <2>1 DEF JobInv
<1>9. Serving => rcv.conn # c /\ net'[rcv.conn] = net[rcv.conn]
  <2>1. Serving => rcv.conn \in Conns /\ net[rcv.conn].rcvEnd = "accepted"
    BY DEF Typed, SessionInv, ConnInv
  <2>2. QED
    BY <1>1, <1>3, <2>1
<1>10. Serving => Sent' = Sent /\ Answered' = Answered
  BY <1>0, <1>9 DEF Sent, Answered
<1>11. LatestInv'
  <2>1. SUFFICES ASSUME rcv.pc \notin {"down", "accept", "hello", "close"},
                        At("offer") => Sent' # <<>>,
                        NEW d \in Conns, d[1] = Job, d[2] > rcv.conn[2]
                 PROVE  net'[d].rcvEnd \in {"none", "backlog"}
    BY <1>0 DEF LatestInv, At
  <2>2. net[d].rcvEnd \in {"none", "backlog"}
    BY <1>10, <2>1 DEF Serving, SessionInv, LatestInv
  <2>3. QED
    BY <1>3, <2>2
<1>12. WorkInv' /\ MetadataNamesWriter'
  BY <1>0 DEF SessionInv, WorkInv, MetadataNamesWriter, At
<1>13. AskedInv'
  <2>1. ASSUME NEW i \in Jobs, Live(i)'
        PROVE  \A n \in 1 .. Len(net'[Conn(i)'].down) :
                  net'[Conn(i)'].down[n].type \in {"ACCEPT", "RESUME"} => receipt[i] = None
    <3>1. CASE i = j
      <4>1. Len(net'[Conn(i)'].down) = 0
        BY <1>3, <1>6, <3>1, EmptySeq
      <4>2. QED
        BY <4>1
    <3>2. CASE i # j
      BY <1>4, <1>5, <2>1, <3>2 DEF SessionInv, AskedInv
    <3>3. QED
      BY <3>1, <3>2
  <2>2. QED
    BY <1>0, <2>1 DEF AskedInv
<1>14. HelloInv'
  BY <1>0, <1>10 DEF SessionInv, HelloInv, At, Serving
<1>15. EndsInv'
  <2>1. CASE ~ Attached'
    BY <2>1 DEF EndsInv
  <2>2. CASE Attached'
    <3>1. Serving /\ Job \in Jobs /\ Job # j
      BY <1>0, <1>6, <1>9, <2>2 DEF Attached
    <3>2. Attached /\ snd'[Job] = snd[Job] /\ Last(Job)' = Last(Job)
      BY <1>0, <1>2, <1>4, <1>5, <2>2, <3>1 DEF Attached, Last, Live
    <3>3. InOffer' = InOffer /\ InResume' = InResume /\ InData' = InData
      BY <1>0, <1>9, <1>10, <3>1, <3>2 DEF InOffer, InResume, InData, Flows, At
    <3>4. QED
      BY <1>0, <1>10, <3>1, <3>2, <3>3 DEF SessionInv, EndsInv, At, Discarding
  <2>3. QED
    BY <2>1, <2>2
<1>16. NoRetransmission'
  BY <1>0, <1>2 DEF SessionInv, NoRetransmission
<1>17. QED
  BY <1>7, <1>8, <1>11, <1>12, <1>13, <1>14, <1>15, <1>16 DEF SessionInv

-----------------------------------------------------------------------------
(* The same of frames that may have been lost behind a cut. *)
LEMMA FollowsNone ==
    ASSUME NEW held \in Content, NEW cut
    PROVE  Follows(held, held, Len(held), cut, <<>>)
<1>1. Len(held) \in Nat /\ Len(<<>>) = 0
  BY LenProperties, EmptySeq DEF Content
<1>2. QED
  BY <1>1 DEF Follows, FlowsFrom

LEMMA FollowsGrows ==
    ASSUME NEW held \in Content, NEW sent \in Content, NEW up \in Seq(Message),
           NEW b \in Blocks, NEW cut, Follows(held, sent, Len(sent), cut, up)
    PROVE  \E more \in Content :
              /\ more = sent \o << b >>
              /\ cut => Follows(held, more, Len(more), cut, up)
              /\ ~ cut => Follows(held, more, Len(more), cut,
                                  Append(up, Carrying("DATA", << b >>)))
<1> DEFINE m == Carrying("DATA", << b >>)
           on == Append(up, m)
<1>1. FlowsFrom(held, sent, Len(sent), up) /\ (~ cut => Len(held) + Len(up) = Len(sent))
  BY DEF Follows
<1>2. PICK more \in Content :
         /\ more = sent \o << b >> /\ Len(more) = Len(sent) + 1
         /\ FlowsFrom(held, more, Len(more), up)
         /\ Len(held) + Len(up) = Len(sent) => FlowsFrom(held, more, Len(more), on)
  BY <1>1, FlowGrows
<1>3. Len(on) = Len(up) + 1 /\ Len(up) \in Nat /\ Len(held) \in Nat /\ Len(sent) \in Nat
  <2>1. m \in Message
    <3>1. << b >> \in Content
      BY DEF Content
    <3>2. QED
      BY <3>1, FrameTypes DEF MessageType
  <2>2. Len(up) \in Nat /\ Len(held) \in Nat /\ Len(sent) \in Nat
    BY LenProperties DEF Content
  <2> HIDE DEF m
  <2>3. QED
    BY <2>1, <2>2, AppendProperties
<1> HIDE DEF on, m
<1>4. ~ cut => Len(held) + Len(on) = Len(more)
  BY <1>1, <1>2, <1>3
<1>5. QED
  BY <1>1, <1>2, <1>4 DEF Follows, on, m

LEMMA FollowsEnds ==
    ASSUME NEW held \in Content, NEW sent \in Content, NEW up \in Seq(Message),
           NEW cut, Follows(held, sent, Len(sent), cut, up)
    PROVE  /\ cut => Follows(held, sent, Len(sent) + 1, cut, up)
           /\ ~ cut => Follows(held, sent, Len(sent) + 1, cut,
                               Append(up, Carrying("COMPLETE", sent)))
<1> DEFINE m == Carrying("COMPLETE", sent)
           on == Append(up, m)
<1>1. FlowsFrom(held, sent, Len(sent), up) /\ (~ cut => Len(held) + Len(up) = Len(sent))
  BY DEF Follows
<1>2. /\ FlowsFrom(held, sent, Len(sent) + 1, up)
      /\ Len(held) + Len(up) = Len(sent) => FlowsFrom(held, sent, Len(sent) + 1, on)
  BY <1>1, FlowEnds
<1>3. Len(on) = Len(up) + 1 /\ Len(up) \in Nat /\ Len(held) \in Nat /\ Len(sent) \in Nat
  <2>1. m \in Message
    BY FrameTypes DEF MessageType
  <2>2. Len(up) \in Nat /\ Len(held) \in Nat /\ Len(sent) \in Nat
    BY LenProperties DEF Content
  <2> HIDE DEF m
  <2>3. QED
    BY <2>1, <2>2, AppendProperties
<1> HIDE DEF on, m
<1>4. ~ cut => Len(held) + Len(on) = Len(sent) + 1
  BY <1>1, <1>3
<1>5. QED
  BY <1>1, <1>2, <1>4 DEF Follows, on, m

LEMMA FollowsMoves ==
    ASSUME NEW held \in Content, NEW sent \in Content, NEW up \in Seq(Message), up # <<>>,
           NEW last \in Nat, NEW cut, Follows(held, sent, last, cut, up),
           Head(up).type = "DATA"
    PROVE  Follows(held \o Head(up).body, sent, last, cut, Tail(up))
<1> DEFINE more == held \o Head(up).body
<1>1. FlowsFrom(held, sent, last, up) /\ (~ cut => Len(held) + Len(up) = last)
  BY DEF Follows
<1>2. /\ Len(more) = Len(held) + 1 /\ Len(Tail(up)) = Len(up) - 1
      /\ FlowsFrom(more, sent, last, Tail(up))
  BY <1>1, FlowMoves
<1>3. Len(held) \in Nat /\ Len(up) \in Nat
  BY LenProperties DEF Content
<1> HIDE DEF more
<1>4. ~ cut => Len(more) + Len(Tail(up)) = last
  BY <1>1, <1>2, <1>3
<1>5. Follows(more, sent, last, cut, Tail(up))
  BY <1>2, <1>4 DEF Follows
<1>6. QED
  BY <1>5 DEF more

(* The COMPLETE comes when all that was hashed has been received. *)
LEMMA FollowsLast ==
    ASSUME NEW held \in Content, NEW sent \in Content, NEW up \in Seq(Message), up # <<>>,
           NEW last \in Nat, NEW cut, Follows(held, sent, last, cut, up),
           Head(up).type = "COMPLETE"
    PROVE  last > Len(sent)
<1>1. /\ Len(held) \in Nat /\ Len(sent) \in Nat /\ Len(up) \in Nat /\ Len(up) >= 1
      /\ Head(up) = up[1]
  BY LenProperties, EmptySeq, HeadTailProperties DEF Content
<1>2. up[1] = FrameAfter(sent, Len(held) + 1) /\ Len(held) + Len(up) <= last
  BY <1>1 DEF Follows, FlowsFrom
<1>3. ~ (Len(held) + 1 <= Len(sent))
  BY <1>1, <1>2 DEF FrameAfter, Carrying
<1>4. QED
  BY <1>1, <1>2, <1>3

-----------------------------------------------------------------------------
(* A step of a job on its open connection, to anything but its HELLO. *)
LEMMA LiveStep ==
    ASSUME Typed, Typed', SessionInv, UNCHANGED receiverVars,
           NEW j \in Jobs, Live(j), NEW r \in JobState, snd' = [snd EXCEPT ![j] = r],
           r.attempt = snd[j].attempt, r.pc \in {"offered", "restart", "data", "complete"},
           NEW c \in Conns, c = Conn(j), \A d \in Conns \ {c} : net'[d] = net[d],
           net'[c].rcvEnd = net[c].rcvEnd,
           net'[c].down \in {net[c].down, Tail(net[c].down)},
           snd[j].pc = "hello" => net[c].down # <<>>,
           Serving /\ rcv.conn = c => EndsInv',
           r.pc \in {"data", "restart"} => receipt[j] = None
    PROVE  SessionInv'
<1>1. /\ \A i \in Jobs \ {j} : snd'[i] = snd[i]
      /\ snd'[j] = r
  BY DEF Typed
<1>2. snd'[j].attempt >= snd[j].attempt
  BY <1>1 DEF Typed, JobState
<1>3. net[c].rcvEnd \notin {"none", "backlog"}
  BY OnLine
<1>4. snd'[j].pc \notin {"idle", "connect", "hello"}
  BY <1>1
<1>5. Conn(j)' = c
  BY <1>1 DEF Conn
<1>6. ~ (Serving /\ rcv.conn = c /\ At("hello"))
  BY OnLine
<1>7. ASSUME Attached', Job = j PROVE EndsInv'
  <2>1. Serving /\ rcv.conn = c
    BY <1>5, <1>7 DEF Attached, Serving, Job, receiverVars
  <2>2. QED
    BY <2>1
<1>8. QED
  BY <1>1, <1>2, <1>3, <1>4, <1>5, <1>6, <1>7, JobStep

(* What the job and the receiver that serves it know of each other. *)
LEMMA Together ==
    ASSUME Typed, SessionInv, UNCHANGED receiverVars,
           NEW j \in Jobs, Live(j), Serving, rcv.conn = Conn(j)
    PROVE  /\ EndsInv /\ Attached /\ Job = j /\ Job' = j /\ rcv' = rcv
           /\ Sent = net[Conn(j)].up /\ Answered = net[Conn(j)].down
           /\ Sent' = net'[Conn(j)].up /\ Answered' = net'[Conn(j)].down
           /\ ReceiverGone(Conn(j)) <=> net[Conn(j)].cut
           /\ rcv.hashed \in Content
<1>1. Attached /\ Job = j /\ net[Conn(j)].rcvEnd = "accepted"
  BY OnLine
<1>2. rcv' = rcv /\ Job' = Job
  BY DEF receiverVars, Job
<1>3. /\ Sent = net[Conn(j)].up /\ Answered = net[Conn(j)].down
      /\ Sent' = net'[Conn(j)].up /\ Answered' = net'[Conn(j)].down
  <2>1. \A x : rcv.conn = x =>
           /\ Sent = net[x].up /\ Answered = net[x].down
           /\ Sent' = net'[x].up /\ Answered' = net'[x].down
    BY <1>2 DEF Sent, Answered
  <2>2. QED
    BY <2>1
<1>4. QED
  BY <1>1, <1>2, <1>3 DEF SessionInv, ReceiverGone, Typed, Process

(* An answer is read, and another frame is sent. *)
LEMMA ReadsAndSends ==
    ASSUME Typed, NEW c \in Conns, net[c].down # <<>>, NEW m,
           net' = Up(TakeDown(net, c), c, m)
    PROVE  /\ \A d \in Conns \ {c} : net'[d] = net[d]
           /\ net'[c].rcvEnd = net[c].rcvEnd /\ net'[c].cut = net[c].cut
           /\ net'[c].down = Tail(net[c].down)
           /\ net'[c].up = IF ReceiverGone(c) THEN net[c].up ELSE Append(net[c].up, m)
<1> DEFINE n == TakeDown(net, c)
<1>1. net \in [Conns -> Connection]
  BY DEF Typed
<1>2. /\ n \in [Conns -> Connection] /\ \A d \in Conns \ {c} : n[d] = net[d]
      /\ n[c].rcvEnd = net[c].rcvEnd /\ n[c].cut = net[c].cut
      /\ n[c].down = Tail(net[c].down) /\ n[c].up = net[c].up
  BY <1>1, TakeField
<1> HIDE DEF n
<1>3. /\ \A d \in Conns : /\ Up(n, c, m)[d].rcvEnd = n[d].rcvEnd
                          /\ Up(n, c, m)[d].cut = n[d].cut
                          /\ Up(n, c, m)[d].down = n[d].down
                          /\ d # c => Up(n, c, m)[d] = n[d]
      /\ Up(n, c, m)[c].up =
            IF net[c].cut \/ net[c].rcvEnd = "closed" THEN n[c].up ELSE Append(n[c].up, m)
  BY <1>2, UpField
<1>4. net' = Up(n, c, m)
  BY DEF n
<1>5. QED
  BY <1>2, <1>3, <1>4 DEF ReceiverGone

LEMMA OfferKeeps ==
    ASSUME Typed, Typed', SessionInv, UNCHANGED receiverVars, NEW j \in Jobs, SendOffer(j)
    PROVE  SessionInv'
<1> DEFINE c == Conn(j)
           r == [snd[j] EXCEPT !.pc = "offered"]
<1>1. Live(j) /\ c \in Conns /\ net[c].down # <<>> /\ snd[j].pc = "hello"
  BY Names DEF Live, SendOffer, Reads, NextDown, Reading
<1>2. /\ r \in JobState /\ r.pc = "offered" /\ r.attempt = snd[j].attempt
      /\ snd' = [snd EXCEPT ![j] = r] /\ snd'[j].pc = "offered"
  BY DEF SendOffer, Goto, Typed, JobState, SenderPc, Reading
<1>3. /\ \A d \in Conns \ {c} : net'[d] = net[d]
      /\ net'[c].rcvEnd = net[c].rcvEnd /\ net'[c].cut = net[c].cut
      /\ net'[c].down = Tail(net[c].down)
      /\ net'[c].up = IF ReceiverGone(c) THEN net[c].up
                      ELSE Append(net[c].up, Offer(snd[j].size))
  BY <1>1, ReadsAndSends DEF SendOffer
<1>4. ASSUME Serving, rcv.conn = c PROVE EndsInv'
  <2>1. /\ EndsInv /\ Attached /\ Job = j /\ Job' = j /\ rcv' = rcv
        /\ Sent = net[c].up /\ Answered = net[c].down
        /\ Sent' = net'[c].up /\ Answered' = net'[c].down
    BY <1>1, <1>4, Together
  <2>2. /\ rcv.pc \notin {"hello", "reconcile", "prepare", "fresh", "persist", "resume",
                          "adopt", "data", "publish"}
        /\ ~ Discarding("fresh")
    BY <1>1, <2>1 DEF EndsInv, InResume, InData, At
  <2>3. ASSUME At("offer") PROVE InOffer'
    <3>1. Sent = <<>> /\ Answered = << Bare("HELLO_ACK") >>
      BY <1>1, <2>1, <2>3 DEF EndsInv, InOffer
    <3>2. Answered' = <<>>
      BY <1>3, <2>1, <3>1, One
    <3>3. Len(Sent') <= 1
      <4>1. Sent' \in {<<>>, << Offer(snd[j].size) >>}
        BY <1>3, <2>1, <3>1, One
      <4>2. CASE Sent' = <<>>
        BY ONLY <4>2
      <4>3. CASE Sent' = << Offer(snd[j].size) >>
        BY ONLY <4>3
      <4>4. QED
        BY <4>1, <4>2, <4>3
    <3>4. QED
      BY <1>2, <2>1, <3>2, <3>3 DEF InOffer
  <2>4. QED
    BY <2>1, <2>2, <2>3 DEF EndsInv, At, Discarding
<1>5. c = Conn(j)
  OBVIOUS
<1>6. /\ \A d \in Conns \ {c} : net'[d] = net[d]
      /\ net'[c].rcvEnd = net[c].rcvEnd
      /\ net'[c].down \in {net[c].down, Tail(net[c].down)}
  BY <1>3
<1>7. r.pc \in {"offered", "restart", "data", "complete"} /\ r.pc \notin {"data", "restart"}
  BY <1>2
<1> HIDE DEF c, r
<1>8. QED
  <2>1. /\ r \in JobState /\ snd' = [snd EXCEPT ![j] = r] /\ r.attempt = snd[j].attempt
        /\ Live(j) /\ c \in Conns
        /\ snd[j].pc = "hello" => net[c].down # <<>>
        /\ Serving /\ rcv.conn = c => EndsInv'
        /\ r.pc \in {"data", "restart"} => receipt[j] = None
    BY <1>1, <1>2, <1>4, <1>7
  <2>2. QED
    BY <1>5, <1>6, <1>7, <2>1, LiveStep

LEMMA AskedFor ==
    ASSUME Typed, SessionInv, NEW j \in Jobs, Live(j), net[Conn(j)].down # <<>>,
           Head(net[Conn(j)].down).type \in {"ACCEPT", "RESUME"}
    PROVE  receipt[j] = None
<1>1. net[Conn(j)].down \in Seq(Message) /\ Len(net[Conn(j)].down) \in Nat
  BY Names
<1>2. 1 \in 1 .. Len(net[Conn(j)].down) /\ Head(net[Conn(j)].down) = net[Conn(j)].down[1]
  BY <1>1, EmptySeq, HeadTailProperties
<1>3. QED
  BY <1>2 DEF SessionInv, AskedInv

LEMMA FreshKeeps ==
    ASSUME Typed, Typed', SessionInv, UNCHANGED receiverVars, NEW j \in Jobs,
           FreshAccepted(j)
    PROVE  SessionInv'
<1> DEFINE c == Conn(j)
           r == [snd[j] EXCEPT !.pc = "data", !.hashed = <<>>]
<1>1. /\ Live(j) /\ c \in Conns /\ net[c].down # <<>>
      /\ snd[j].pc \in {"offered", "restart"} /\ Head(net[c].down).type = "ACCEPT"
  BY Names DEF Live, FreshAccepted, Reads, NextDown, Reading
<1>2. <<>> \in Content
  BY EmptySeq DEF Content
<1>3. /\ r \in JobState /\ r.pc = "data" /\ r.attempt = snd[j].attempt
      /\ snd' = [snd EXCEPT ![j] = r] /\ snd'[j].pc = "data" /\ snd'[j].hashed = <<>>
  BY <1>2 DEF FreshAccepted, Typed, JobState, SenderPc
<1>4. /\ \A d \in Conns \ {c} : net'[d] = net[d]
      /\ net'[c].rcvEnd = net[c].rcvEnd /\ net'[c].cut = net[c].cut
      /\ net'[c].down = Tail(net[c].down)
      /\ net'[c].up = net[c].up
  <2>1. net' = TakeDown(net, c) /\ net \in [Conns -> Connection]
    BY DEF FreshAccepted, Typed
  <2> HIDE DEF c
  <2>2. QED
    BY <1>1, <2>1, TakeField
<1>5. ASSUME Serving, rcv.conn = c PROVE EndsInv'
  <2>1. /\ EndsInv /\ Attached /\ Job = j /\ Job' = j /\ rcv' = rcv
        /\ Sent = net[c].up /\ Answered = net[c].down
        /\ Sent' = net'[c].up /\ Answered' = net'[c].down
    BY <1>1, <1>5, Together
  <2>2. Answered # <<>> /\ Head(Answered).type = "ACCEPT"
    BY <1>1, <2>1
  <2>3. /\ rcv.pc \notin {"hello", "reconcile", "prepare", "fresh", "persist", "offer",
                          "adopt", "publish"}
        /\ ~ Discarding("fresh")
    BY <1>1, <2>1, <2>2 DEF EndsInv, InOffer, InData, At
  <2>4. ~ At("resume")
    BY <1>1, <2>1, <2>2, One DEF EndsInv, InResume, Carrying
  <2>5. ASSUME At("data") PROVE InData'
    <3>1. rcv.hashed = <<>> /\ Sent = <<>> /\ Answered = << Bare("ACCEPT") >>
      BY <1>1, <2>1, <2>2, <2>5 DEF EndsInv, InData, At
    <3>2. Answered' = <<>> /\ Sent' = <<>>
      BY <1>4, <2>1, <3>1, One
    <3>3. Last(Job)' = Len(<<>>) /\ snd'[Job'].hashed = <<>> /\ snd'[Job'].pc = "data"
          /\ rcv'.hashed = <<>>
      BY <1>3, <2>1, <3>1 DEF Last
    <3>4. Follows(<<>>, <<>>, Len(<<>>), net'[rcv'.conn].cut, <<>>)
      BY <1>2, FollowsNone
    <3>5. Flows(Sent)'
      BY <3>2, <3>3, <3>4 DEF Flows
    <3>6. QED
      BY <3>2, <3>3, <3>5 DEF InData
  <2>6. QED
    BY <2>1, <2>3, <2>4, <2>5 DEF EndsInv, At, Discarding
<1>6. receipt[j] = None
  BY <1>1, AskedFor
<1>7. c = Conn(j)
  OBVIOUS
<1> HIDE DEF c, r
<1>8. QED
  BY <1>1, <1>3, <1>4, <1>5, <1>6, <1>7, LiveStep

LEMMA ResumeKeeps ==
    ASSUME Typed, Typed', SessionInv, UNCHANGED receiverVars, NEW j \in Jobs,
           AcceptResume(j) \/ RefuseResume(j)
    PROVE  SessionInv'
<1> DEFINE c == Conn(j)
           prefix == Head(net[c].down).body
           type == IF AcceptResume(j) THEN "ACCEPT" ELSE "RESTART"
<1>1. /\ Live(j) /\ c \in Conns /\ net[c].down # <<>>
      /\ snd[j].pc = "offered" /\ Head(net[c].down).type = "RESUME"
  BY Names DEF Live, AcceptResume, RefuseResume, Reads, NextDown, Reading
<1>2. prefix \in Content
  <2>1. net[c].down \in Seq(Message)
    BY <1>1, Names
  <2> HIDE DEF c
  <2>2. Head(net[c].down) \in Message
    BY <1>1, <2>1, TakeFirst
  <2>3. QED
    BY <2>2 DEF Message
<1>3. PICK r \in JobState :
         /\ r.attempt = snd[j].attempt /\ snd' = [snd EXCEPT ![j] = r]
         /\ type = "ACCEPT" => r.pc = "data" /\ r.hashed = prefix
         /\ type = "RESTART" => r.pc = "restart"
  <2>1. CASE AcceptResume(j)
    <3> DEFINE r == [snd[j] EXCEPT !.pc = "data", !.hashed = prefix]
    <3>1. Prefix(j, Len(prefix)) = prefix
      BY <2>1 DEF AcceptResume, PrefixMatches
    <3>2. snd' = [snd EXCEPT ![j].pc = "data", ![j].hashed = Prefix(j, Len(prefix))]
      BY <2>1 DEF AcceptResume
    <3> HIDE DEF prefix
    <3>3. snd' = [snd EXCEPT ![j] = r]
      BY <3>1, <3>2
    <3>4. r \in JobState /\ r.attempt = snd[j].attempt /\ r.pc = "data" /\ r.hashed = prefix
      BY <1>2 DEF Typed, JobState, SenderPc
    <3>5. type = "ACCEPT"
      BY <2>1
    <3> HIDE DEF r, type
    <3>6. QED
      BY <3>3, <3>4, <3>5
  <2>2. CASE RefuseResume(j) /\ ~ AcceptResume(j)
    <3> DEFINE r == [snd[j] EXCEPT !.pc = "restart"]
    <3>1. snd' = [snd EXCEPT ![j] = r]
      BY <2>2 DEF RefuseResume, Goto
    <3>2. r \in JobState /\ r.attempt = snd[j].attempt /\ r.pc = "restart"
      BY DEF Typed, JobState, SenderPc, Reading
    <3>3. type = "RESTART"
      BY <2>2
    <3> HIDE DEF r, type
    <3>4. QED
      BY <3>1, <3>2, <3>3
  <2>3. QED
    BY <2>1, <2>2
<1>4. net' = Up(TakeDown(net, c), c, Bare(type))
  BY DEF AcceptResume, RefuseResume
<1>5. snd'[j] = r /\ type \in {"ACCEPT", "RESTART"}
  BY <1>3 DEF Typed
<1> HIDE DEF type
<1>6. /\ \A d \in Conns \ {c} : net'[d] = net[d]
      /\ net'[c].rcvEnd = net[c].rcvEnd /\ net'[c].cut = net[c].cut
      /\ net'[c].down = Tail(net[c].down)
      /\ net'[c].up = IF ReceiverGone(c) THEN net[c].up ELSE Append(net[c].up, Bare(type))
  <2> HIDE DEF c
  <2>1. QED
    BY <1>1, <1>4, ReadsAndSends
<1>7. ASSUME Serving, rcv.conn = c PROVE EndsInv'
  <2>1. /\ EndsInv /\ Attached /\ Job = j /\ Job' = j /\ rcv' = rcv
        /\ Sent = net[c].up /\ Answered = net[c].down
        /\ Sent' = net'[c].up /\ Answered' = net'[c].down
        /\ ReceiverGone(c) <=> net[c].cut
        /\ rcv.hashed \in Content
    BY <1>1, <1>7, Together
  <2>2. Answered # <<>> /\ Head(Answered).type = "RESUME" /\ prefix = Head(Answered).body
    BY <1>1, <2>1
  <2>3. /\ rcv.pc \notin {"hello", "reconcile", "prepare", "fresh", "persist", "offer",
                          "publish"}
        /\ ~ Discarding("fresh")
    BY <1>1, <2>1, <2>2 DEF EndsInv, InOffer, At
  <2>4. rcv.pc \notin {"adopt", "data"}
    BY <1>1, <2>1, <2>2, One DEF EndsInv, InData, Bare
  <2>5. ASSUME At("resume") PROVE InResume'
    <3>1. Sent = <<>> /\ Answered = << Carrying("RESUME", rcv.hashed) >>
      BY <1>1, <2>1, <2>2, <2>5 DEF EndsInv, InResume
    <3>2. prefix = rcv.hashed
      BY <2>2, <3>1, One DEF Carrying
    <3>3. Answered' = <<>>
      BY <1>6, <2>1, <3>1, One
    <3>4. Sent' = IF net[c].cut THEN <<>> ELSE << Bare(type) >>
      BY <1>6, <2>1, <3>1, One
    <3>5. CASE type = "RESTART"
      <4>1. snd'[Job'].pc = "restart"
        BY <1>3, <1>5, <2>1, <3>5
      <4>2. QED
        BY <3>3, <3>4, <3>5, <4>1 DEF InResume
    <3>6. CASE type = "ACCEPT"
      <4>1. snd'[Job'].pc = "data" /\ snd'[Job'].hashed = rcv.hashed
        BY <1>3, <1>5, <2>1, <3>2, <3>6
      <4>2. CASE net[c].cut
        <5>1. Sent' = <<>> /\ net'[rcv'.conn].cut
          BY <1>6, <1>7, <2>1, <3>4, <4>2
        <5>2. QED
          BY <3>3, <4>1, <5>1 DEF InResume
      <4>3. CASE ~ net[c].cut
        <5>1. Sent' = << Bare("ACCEPT") >>
          BY <3>4, <3>6, <4>3
        <5>2. Sent' # <<>> /\ Head(Sent') = Bare("ACCEPT") /\ Tail(Sent') = <<>>
          BY <5>1, One
        <5>3. Follows(rcv.hashed, rcv.hashed, Len(rcv.hashed), net'[rcv'.conn].cut, <<>>)
          BY <2>1, FollowsNone
        <5>4. Last(Job)' = Len(rcv.hashed) /\ rcv'.hashed = rcv.hashed
          BY <2>1, <4>1 DEF Last
        <5>5. Flows(Tail(Sent))'
          BY <4>1, <5>2, <5>3, <5>4 DEF Flows
        <5>6. QED
          BY <3>3, <4>1, <5>2, <5>5 DEF InResume
      <4>4. QED
        BY <4>2, <4>3
    <3>7. QED
      BY <1>5, <3>5, <3>6
  <2>6. QED
    BY <2>1, <2>3, <2>4, <2>5 DEF EndsInv, At, Discarding
<1>8. receipt[j] = None
  BY <1>1, AskedFor
<1>9. c = Conn(j)
  OBVIOUS
<1>10. r.pc \in {"offered", "restart", "data", "complete"}
  BY <1>3, <1>5
<1>11. /\ \A d \in Conns \ {c} : net'[d] = net[d]
       /\ net'[c].rcvEnd = net[c].rcvEnd
       /\ net'[c].down \in {net[c].down, Tail(net[c].down)}
  BY <1>6
<1>12. r.attempt = snd[j].attempt /\ snd' = [snd EXCEPT ![j] = r]
  BY <1>3
<1> HIDE DEF c
<1>13. QED
  BY <1>1, <1>7, <1>8, <1>9, <1>10, <1>11, <1>12, LiveStep

(* The stream grows by a frame, unless it is cut. *)
LEMMA StreamKeeps ==
    ASSUME Typed, Typed', SessionInv, UNCHANGED receiverVars, NEW j \in Jobs,
           SendData(j) \/ SendComplete(j)
    PROVE  SessionInv'
<1> DEFINE c == Conn(j)
<1>1. Live(j) /\ c \in Conns /\ snd[j].pc = "data" /\ net \in [Conns -> Connection]
  BY Names DEF Live, SendData, SendComplete, Typed
<1>2. PICK m \in Message, r \in JobState :
         /\ snd' = [snd EXCEPT ![j] = r] /\ net' = Up(net, c, m)
         /\ r.attempt = snd[j].attempt
         /\ r.pc \in {"data", "complete"}
         /\ \A held \in Content, up \in Seq(Message), cut \in BOOLEAN :
               Follows(held, snd[j].hashed, Len(snd[j].hashed), cut, up) =>
                  LET last == IF r.pc = "complete" THEN Len(r.hashed) + 1 ELSE Len(r.hashed)
                  IN  /\ cut => Follows(held, r.hashed, last, cut, up)
                      /\ ~ cut => Follows(held, r.hashed, last, cut, Append(up, m))
  <2>1. snd[j] \in JobState /\ snd[j].hashed \in Content /\ snd[j].hashed \in Seq(Blocks)
        /\ src[j] \in Seq(Blocks)
    BY DEF Typed, JobState, Content
  <2>2. CASE SendData(j)
    <3> DEFINE n == Len(snd[j].hashed) + 1
               b == src[j][n]
               h == snd[j].hashed \o << b >>
               r == [snd[j] EXCEPT !.hashed = h]
    <3>1. n \in 1 .. Len(src[j])
      BY <2>1, <2>2, LenProperties DEF SendData
    <3>2. b \in Blocks
      <4> HIDE DEF n
      <4>1. QED
        BY <2>1, <3>1, ElementOfSeq
    <3>3. net' = Up(net, c, Carrying("DATA", << b >>)) /\ snd' = [snd EXCEPT ![j].hashed = h]
      BY <2>2 DEF SendData
    <3> HIDE DEF b, c
    <3>4. << b >> \in Seq(Blocks)
      BY <3>2
    <3>5. h \in Content
      BY <2>1, <3>4, ConcatProperties DEF Content
    <3>6. /\ r \in JobState /\ r.attempt = snd[j].attempt /\ r.pc = "data" /\ r.hashed = h
          /\ snd' = [snd EXCEPT ![j] = r]
      <4> HIDE DEF h
      <4>1. QED
        BY <1>1, <2>1, <3>3, <3>5 DEF JobState
    <3>7. ASSUME NEW held \in Content, NEW up \in Seq(Message), NEW cut \in BOOLEAN,
                 Follows(held, snd[j].hashed, Len(snd[j].hashed), cut, up)
          PROVE  /\ cut => Follows(held, h, Len(h), cut, up)
                 /\ ~ cut => Follows(held, h, Len(h), cut,
                                     Append(up, Carrying("DATA", << b >>)))
      <4>1. PICK more \in Content :
               /\ more = snd[j].hashed \o << b >>
               /\ cut => Follows(held, more, Len(more), cut, up)
               /\ ~ cut => Follows(held, more, Len(more), cut,
                                   Append(up, Carrying("DATA", << b >>)))
        BY <2>1, <3>2, <3>7, FollowsGrows
      <4>2. more = h
        BY <4>1
      <4> HIDE DEF h
      <4>3. QED
        BY <4>1, <4>2
    <3> DEFINE m == Carrying("DATA", << b >>)
    <3>8. m \in Message
      <4>1. << b >> \in Content
        BY <3>4 DEF Content
      <4>2. QED
        BY <4>1, FrameTypes DEF MessageType
    <3>9. /\ net' = Up(net, c, m)
          /\ \A held \in Content, up \in Seq(Message), cut \in BOOLEAN :
                Follows(held, snd[j].hashed, Len(snd[j].hashed), cut, up) =>
                   /\ cut => Follows(held, h, Len(h), cut, up)
                   /\ ~ cut => Follows(held, h, Len(h), cut, Append(up, m))
      BY <3>3, <3>7
    <3> HIDE DEF h, r, m
    <3>10. QED
      BY <3>6, <3>8, <3>9
  <2>3. CASE SendComplete(j)
    <3> DEFINE r == [snd[j] EXCEPT !.pc = "complete"]
               m == Carrying("COMPLETE", snd[j].hashed)
    <3>1. net' = Up(net, c, m) /\ snd' = [snd EXCEPT ![j] = r]
      BY <2>3 DEF SendComplete, Goto
    <3>2. /\ r \in JobState /\ r.attempt = snd[j].attempt /\ r.pc = "complete"
          /\ r.hashed = snd[j].hashed
      BY <2>1 DEF JobState, SenderPc, Reading
    <3> HIDE DEF c, r
    <3>3. ASSUME NEW held \in Content, NEW up \in Seq(Message), NEW cut \in BOOLEAN,
                 Follows(held, snd[j].hashed, Len(snd[j].hashed), cut, up)
          PROVE  /\ cut => Follows(held, snd[j].hashed, Len(snd[j].hashed) + 1, cut, up)
                 /\ ~ cut => Follows(held, snd[j].hashed, Len(snd[j].hashed) + 1, cut,
                                     Append(up, m))
      BY <2>1, <3>3, FollowsEnds
    <3>4. m \in Message
      BY <2>1, FrameTypes DEF MessageType
    <3> HIDE DEF m
    <3>5. QED
      BY <3>1, <3>2, <3>3, <3>4
  <2>4. QED
    BY <2>2, <2>3
<1> DEFINE last == IF r.pc = "complete" THEN Len(r.hashed) + 1 ELSE Len(r.hashed)
<1>3. snd'[j] = r
  BY <1>2 DEF Typed
<1>4. /\ \A d \in Conns : net'[d].rcvEnd = net[d].rcvEnd /\ net'[d].cut = net[d].cut
                          /\ net'[d].down = net[d].down
      /\ \A d \in Conns \ {c} : net'[d] = net[d]
      /\ net'[c].up = IF ReceiverGone(c) THEN net[c].up ELSE Append(net[c].up, m)
  <2> HIDE DEF c
  <2>1. /\ \A d \in Conns : /\ Up(net, c, m)[d].rcvEnd = net[d].rcvEnd
                            /\ Up(net, c, m)[d].cut = net[d].cut
                            /\ Up(net, c, m)[d].down = net[d].down
                            /\ d # c => Up(net, c, m)[d] = net[d]
        /\ Up(net, c, m)[c].up =
              IF net[c].cut \/ net[c].rcvEnd = "closed" THEN net[c].up
              ELSE Append(net[c].up, m)
    BY <1>1, UpField
  <2>2. net' = Up(net, c, m)
    BY <1>2
  <2>3. QED
    BY <2>1, <2>2 DEF ReceiverGone
<1>5. ASSUME Serving, rcv.conn = c PROVE EndsInv'
  <2>1. /\ EndsInv /\ Attached /\ Job = j /\ Job' = j /\ rcv' = rcv
        /\ Sent = net[c].up /\ Answered = net[c].down
        /\ Sent' = net'[c].up /\ Answered' = net'[c].down
        /\ ReceiverGone(c) <=> net[c].cut
        /\ rcv.hashed \in Content
    BY <1>1, <1>5, Together
  <2>2. /\ snd'[Job'].hashed = r.hashed /\ Last(Job)' = last /\ snd'[Job'].pc = r.pc
        /\ rcv'.conn = c /\ rcv'.hashed = rcv.hashed
        /\ net'[c].cut = net[c].cut /\ Answered' = Answered
        /\ Sent' = IF net[c].cut THEN Sent ELSE Append(Sent, m)
    BY <1>1, <1>3, <1>4, <1>5, <2>1 DEF Last
  <2>3. /\ rcv.pc \notin {"hello", "reconcile", "prepare", "fresh", "persist", "offer",
                          "publish"}
        /\ ~ Discarding("fresh")
    BY <1>1, <2>1 DEF EndsInv, InOffer, At
  <2>4. snd[j].hashed \in Content /\ net[c].up \in Seq(Message) /\ net[c].cut \in BOOLEAN
    BY <1>1 DEF Typed, JobState, Connection
  <2>5. ASSUME NEW up \in Seq(Message), Flows(up)
        PROVE  /\ net[c].cut => Follows(rcv.hashed, r.hashed, last, net[c].cut, up)
               /\ ~ net[c].cut =>
                     Follows(rcv.hashed, r.hashed, last, net[c].cut, Append(up, m))
    <3>1. Follows(rcv.hashed, snd[j].hashed, Len(snd[j].hashed), net[c].cut, up)
      BY <1>1, <1>5, <2>1, <2>5 DEF Flows, Last
    <3>2. QED
      BY <1>2, <2>1, <2>4, <3>1
  <2> HIDE DEF c, last
  <2>6. ASSUME rcv.pc \in {"adopt", "data"} PROVE InData'
    <3>1. Answered = <<>> /\ Flows(Sent)
      BY <1>1, <2>1, <2>6 DEF EndsInv, InData
    <3>2. Follows(rcv.hashed, r.hashed, last, net[c].cut, Sent')
      BY <2>1, <2>2, <2>4, <2>5, <3>1
    <3>3. Flows(Sent)'
      BY <2>2, <3>2 DEF Flows
    <3>4. QED
      BY <1>2, <2>2, <3>1, <3>3 DEF InData
  <2>7. ASSUME At("resume") PROVE InResume'
    <3>1. /\ Answered = <<>>
          /\ \/ Sent = <<>> /\ net[c].cut
             \/ Sent # <<>> /\ Head(Sent) = Bare("ACCEPT") /\ Flows(Tail(Sent))
      BY <1>1, <1>5, <2>1, <2>7 DEF EndsInv, InResume
    <3>2. CASE Sent = <<>> /\ net[c].cut
      BY <1>2, <2>2, <3>1, <3>2 DEF InResume
    <3>3. CASE Sent # <<>> /\ Head(Sent) = Bare("ACCEPT") /\ Flows(Tail(Sent))
      <4>1. Tail(Sent) \in Seq(Message)
        BY <2>1, <2>4, <3>3, TakeFirst
      <4>2. CASE net[c].cut
        <5>1. Sent' = Sent
          BY <2>2, <4>2
        <5>2. Follows(rcv.hashed, r.hashed, last, net[c].cut, Tail(Sent))
          BY <2>5, <3>3, <4>1, <4>2
        <5>3. Flows(Tail(Sent))'
          BY <2>2, <5>1, <5>2 DEF Flows
        <5>4. QED
          BY <1>2, <2>2, <3>1, <3>3, <5>1, <5>3 DEF InResume
      <4>3. CASE ~ net[c].cut
        <5>1. Sent' = Append(Sent, m)
          BY <2>2, <4>3
        <5>2. /\ Sent' # <<>> /\ Head(Sent') = Head(Sent)
              /\ Tail(Sent') = Append(Tail(Sent), m)
          BY <2>1, <2>4, <3>3, <5>1, AppendTo
        <5>3. Follows(rcv.hashed, r.hashed, last, net[c].cut, Append(Tail(Sent), m))
          BY <2>5, <3>3, <4>1, <4>3
        <5>4. Flows(Tail(Sent))'
          BY <2>2, <5>2, <5>3 DEF Flows
        <5>5. QED
          BY <1>2, <2>2, <3>1, <3>3, <5>2, <5>4 DEF InResume
      <4>4. QED
        BY <4>2, <4>3
    <3>4. QED
      BY <3>1, <3>2, <3>3
  <2>8. QED
    BY <2>1, <2>3, <2>6, <2>7 DEF EndsInv, At, Discarding
<1>6. c = Conn(j)
  OBVIOUS
<1> HIDE DEF c
<1>7. net'[c].rcvEnd = net[c].rcvEnd /\ net'[c].down \in {net[c].down, Tail(net[c].down)}
      /\ \A d \in Conns \ {c} : net'[d] = net[d]
  BY <1>1, <1>4
<1>8. r.attempt = snd[j].attempt /\ snd' = [snd EXCEPT ![j] = r]
      /\ r.pc \in {"offered", "restart", "data", "complete"}
  BY <1>2
<1>9. receipt[j] = None
  BY <1>1 DEF SessionInv, NoRetransmission
<1>10. snd[j].pc = "hello" => net[c].down # <<>>
  BY <1>1
<1>11. QED
  BY <1>1, <1>5, <1>6, <1>7, <1>8, <1>9, <1>10, LiveStep

LEMMA SenderKeepsSession ==
    ASSUME Typed, Typed', SessionInv, UNCHANGED receiverVars, NEW j \in Jobs,
           SenderRuns(j) \/ SenderDisturbed(j)
    PROVE  SessionInv'
<1>1. CASE EditSource(j)
  BY <1>1, EditKeeps DEF EditSource, wireVars, receiverVars
<1>2. CASE ~ EditSource(j)
  BY <1>2, AwayKeeps, ConnectKeeps, LeavingKeeps, OfferKeeps, FreshKeeps, ResumeKeeps,
     StreamKeeps DEF SenderRuns, SenderDisturbed
<1>3. QED
  BY <1>1, <1>2
-----------------------------------------------------------------------------
(* A step of the receiver within the connection it serves. *)
LEMMA ServeStep ==
    ASSUME Typed, Typed', SessionInv, UNCHANGED senderVars, receipt' = receipt,
           Serving, Serving', rcv'.conn = rcv.conn, rcv'.pc # "hello",
           NEW c \in Conns, c = rcv.conn, \A d \in Conns \ {c} : net'[d] = net[d],
           net'[c].rcvEnd = net[c].rcvEnd,
           \/ net'[c].down = net[c].down
           \/ \E m \in Message :
                 /\ net'[c].down = Append(net[c].down, m)
                 /\ m.type \in {"ACCEPT", "RESUME"} => receipt[Job] = None,
           rcv'.pc # "close" /\ (rcv'.pc = "offer" => Sent' # <<>>) =>
              rcv.pc \notin {"hello", "close"} /\ (At("offer") => Sent # <<>>),
           WorkInv', MetadataNamesWriter', Attached => EndsInv'
    PROVE  SessionInv'
<1>0. /\ Job' = Job /\ snd' = snd
      /\ \A i : Conn(i)' = Conn(i) /\ Live(i)' = Live(i)
  BY DEF Job, senderVars, Conn, Live
<1>1. \A d \in Conns : net'[d].rcvEnd = net[d].rcvEnd
  OBVIOUS
<1>2. net[c].rcvEnd = "accepted"
  BY DEF SessionInv, ConnInv
<1>3. ConnInv'
  <2>1. ASSUME NEW d \in Conns
        PROVE  /\ net'[d].rcvEnd = "accepted" <=> Serving' /\ d = rcv'.conn
               /\ net'[d].rcvEnd = "backlog" =>
                     net'[d].down = <<>> /\ net'[d].up \in {<<>>, << Bare("HELLO") >>}
               /\ snd'[d[1]].attempt < d[2] => net'[d].rcvEnd = "none"
    <3>1. /\ net[d].rcvEnd = "accepted" <=> Serving /\ d = rcv.conn
          /\ net[d].rcvEnd = "backlog" =>
                net[d].down = <<>> /\ net[d].up \in {<<>>, << Bare("HELLO") >>}
          /\ snd[d[1]].attempt < d[2] => net[d].rcvEnd = "none"
      BY DEF SessionInv, ConnInv
    <3>2. QED
      BY <1>0, <1>1, <1>2, <3>1
  <2>2. QED
    BY <2>1 DEF ConnInv
<1>4. JobInv'
  <2>1. \A i \in Jobs : net'[Conn(i)].rcvEnd = net[Conn(i)].rcvEnd
    BY <1>1, Names
  <2>2. QED
    BY <1>0, <2>1 DEF SessionInv, JobInv
<1>5. LatestInv'
  <2>1. SUFFICES ASSUME rcv'.pc \notin {"down", "accept", "hello", "close"},
                        rcv'.pc = "offer" => Sent' # <<>>,
                        NEW d \in Conns, d[1] = Job, d[2] > rcv.conn[2]
                 PROVE  net'[d].rcvEnd \in {"none", "backlog"}
    BY <1>0 DEF LatestInv, At
  <2>2. rcv.pc \notin {"down", "accept", "hello", "close"} /\ (At("offer") => Sent # <<>>)
    BY <2>1 DEF Serving
  <2>3. net[d].rcvEnd \in {"none", "backlog"}
    BY <2>1, <2>2 DEF SessionInv, LatestInv
  <2>4. QED
    BY <1>1, <2>3
<1>6. AskedInv'
  <2>1. ASSUME NEW i \in Jobs, Live(i), NEW n \in 1 .. Len(net'[Conn(i)].down),
               net'[Conn(i)].down[n].type \in {"ACCEPT", "RESUME"}
        PROVE  receipt[i] = None
    <3>1. \A k \in 1 .. Len(net[Conn(i)].down) :
             net[Conn(i)].down[k].type \in {"ACCEPT", "RESUME"} => receipt[i] = None
      BY <2>1 DEF SessionInv, AskedInv
    <3>2. CASE net'[Conn(i)].down = net[Conn(i)].down
      BY <2>1, <3>1, <3>2
    <3>3. CASE net'[Conn(i)].down # net[Conn(i)].down
      <4>1. Conn(i) = c /\ Job = i /\ net[c].down \in Seq(Message)
        BY <3>3, Names DEF Job
      <4>2. PICK m \in Message : /\ net'[c].down = Append(net[c].down, m)
                                 /\ m.type \in {"ACCEPT", "RESUME"} => receipt[Job] = None
        BY <3>3, <4>1
      <4>3. /\ Len(net'[c].down) = Len(net[c].down) + 1 /\ Len(net[c].down) \in Nat
            /\ net'[c].down[Len(net[c].down) + 1] = m
            /\ \A k \in 1 .. Len(net[c].down) : net'[c].down[k] = net[c].down[k]
        BY <4>1, <4>2, AppendProperties, LenProperties
      <4>4. n \in 1 .. Len(net[c].down) \/ n = Len(net[c].down) + 1
        BY <2>1, <4>1, <4>3
      <4>5. QED
        BY <2>1, <3>1, <4>1, <4>2, <4>3, <4>4
    <3>4. QED
      BY <3>2, <3>3
  <2>2. QED
    BY <1>0, <2>1 DEF AskedInv
<1>7. HelloInv'
  BY DEF HelloInv, At
<1>8. EndsInv'
  <2>1. Attached' => Attached
    BY <1>0 DEF Attached
  <2>2. QED
    BY <2>1 DEF EndsInv
<1>9. NoRetransmission'
  BY <1>0 DEF SessionInv, NoRetransmission
<1>10. QED
  BY <1>3, <1>4, <1>5, <1>6, <1>7, <1>8, <1>9 DEF SessionInv

(* The connections stay as they are. *)
LEMMA QuietStep ==
    ASSUME Typed, Typed', SessionInv, UNCHANGED senderVars, receipt' = receipt,
           net' = net, Serving, Serving', rcv'.conn = rcv.conn,
           rcv.pc \notin {"hello", "offer", "close"} \/ rcv'.pc = "close",
           rcv'.pc \notin {"hello", "offer"},
           WorkInv', MetadataNamesWriter', Attached => EndsInv'
    PROVE  SessionInv'
<1>1. PICK c \in Conns : c = rcv.conn
  BY DEF Typed
<1>2. QED
  BY <1>1, ServeStep DEF At

(* Where nothing is expected of the sender. *)
LEMMA Aside ==
    ASSUME Typed, SessionInv, receipt' = receipt, rcv'.conn = rcv.conn,
           \/ rcv'.pc \in {"reject", "close", "promote", "cleanup", "verified"}
           \/ /\ rcv'.pc \in {"discard", "discardMeta"} /\ rcv'.next # "fresh"
              /\ rcv'.next # "verified" => receipt[Job] = None
    PROVE  WorkInv' /\ MetadataNamesWriter' /\ EndsInv'
<1>1. Job' = Job
  BY DEF Job
<1>2. QED
  BY <1>1 DEF WorkInv, MetadataNamesWriter, EndsInv, At, Discarding

LEMMA AsideKeeps ==
    ASSUME Typed, Typed', SessionInv, UNCHANGED senderVars,
           \/ ReconcileFinal \/ ReconcilePart \/ ReconcileFails
           \/ NothingToReconcile /\ rcv'.pc = "reject"
           \/ AcceptFails \/ Promote \/ CleanUp \/ StorageFails \/ WriteFails
           \/ (DiscardPart \/ DiscardMetadata) /\ rcv.next # "fresh"
           \/ \E preserve \in BOOLEAN : LoseSender(preserve)
    PROVE  SessionInv'
<1>1. /\ rcv.pc \in {"prepare", "resume", "adopt", "fresh", "persist", "data", "publish"}
            => receipt[Job] = None
      /\ rcv.pc \in {"discard", "discardMeta"} /\ rcv.next # "verified"
            => receipt[Job] = None
  BY DEF SessionInv, WorkInv
<1>2. rcv.next \in {"fresh", "verified", "reject", "close"}
  BY DEF Typed, Process
<1>3. rcv \in Process
  BY DEF Typed
<1> DEFINE Free == {"reject", "close", "promote", "cleanup", "verified"}
           Clears == /\ rcv'.pc = "discard" /\ rcv'.next \in {"close", "reject"}
                     /\ rcv.pc \in {"resume", "persist", "data"}
<1>4. /\ receipt' = receipt /\ net' = net /\ rcv'.conn = rcv.conn /\ Serving
      /\ \/ rcv'.pc \in Free
         \/ Clears
         \/ rcv'.pc = "discard" /\ rcv'.next = "verified"
         \/ rcv'.pc = "discardMeta" /\ rcv.pc = "discard" /\ rcv'.next = rcv.next
                                    /\ rcv.next # "fresh"
      /\ rcv.pc \notin {"hello", "offer", "close"} \/ rcv'.pc = "close"
  <2> USE <1>3 DEF Process
  <2>1. CASE ReconcileFinal \/ ReconcilePart \/ ReconcileFails
    BY <2>1 DEF ReconcileFinal, ReconcilePart, ReconcileFails, Step, Discard, At, Serving,
                disk, wireVars
  <2>2. CASE NothingToReconcile /\ rcv'.pc = "reject"
    BY <2>2 DEF NothingToReconcile, Step, At, Serving, disk, wireVars
  <2>3. CASE AcceptFails
    BY <2>3 DEF AcceptFails, Discard, At, Serving, wireVars
  <2>4. CASE Promote \/ CleanUp
    BY <2>4 DEF Promote, CleanUp, Step, At, Serving, wireVars
  <2>5. CASE StorageFails
    <3>1. PICK pc \in AfterStorageError : Step(pc)
      BY <2>5 DEF StorageFails
    <3>2. pc \in Free /\ rcv.pc \notin {"down", "accept", "hello", "offer", "close"}
      BY <1>2, <2>5, <3>1 DEF StorageFails, AfterStorageError, At
    <3>3. QED
      BY <2>5, <3>1, <3>2 DEF StorageFails, Step, Serving, disk
  <2>6. CASE WriteFails
    BY <2>6 DEF WriteFails, Discard, At, Serving, disk
  <2>7. CASE (DiscardPart \/ DiscardMetadata) /\ rcv.next # "fresh"
    BY <2>7 DEF DiscardPart, DiscardMetadata, Step, At, Serving, wireVars
  <2>8. CASE \E preserve \in BOOLEAN : LoseSender(preserve)
    <3>1. PICK preserve \in BOOLEAN : LoseSender(preserve)
      BY <2>8
    <3>2. CASE preserve \/ rcv.pc \in {"hello", "offer"}
      BY <3>1, <3>2 DEF LoseSender, Waiting, Serving, disk, wireVars
    <3>3. CASE ~ preserve /\ rcv.pc \notin {"hello", "offer"}
      BY <3>1, <3>3 DEF LoseSender, Discard, Waiting, Serving, disk, wireVars
    <3>4. QED
      BY <3>2, <3>3
  <2>9. QED
    BY <2>1, <2>2, <2>3, <2>4, <2>5, <2>6, <2>7, <2>8
<1>5. Serving' /\ rcv'.pc \notin {"hello", "offer"}
  BY <1>4 DEF Serving
<1>6. WorkInv' /\ MetadataNamesWriter' /\ EndsInv'
  BY <1>1, <1>4, Aside
<1>7. QED
  BY <1>4, <1>5, <1>6, QuietStep

(* Steps on the disk after which the sender is where it was before. *)
LEMMA DiskKeeps ==
    ASSUME Typed, Typed', SessionInv, UNCHANGED senderVars,
           \/ NothingToReconcile /\ rcv'.pc # "reject"
           \/ PrepareWithoutPart \/ PrepareUnusablePart \/ Adopt \/ CreatePart
           \/ (DiscardPart \/ DiscardMetadata) /\ rcv.next = "fresh"
    PROVE  SessionInv'
<1>1. rcv \in Process
  BY DEF Typed
<1>2. /\ receipt' = receipt /\ net' = net /\ rcv'.conn = rcv.conn
      /\ \/ At("reconcile") /\ rcv'.pc = "prepare" /\ receipt[Job] = None
         \/ At("prepare") /\ rcv'.pc = "fresh"
         \/ At("prepare") /\ rcv'.pc = "discard" /\ rcv'.next = "fresh"
         \/ At("adopt") /\ rcv'.pc = "data" /\ meta' = Job /\ rcv'.hashed = rcv.hashed
         \/ At("fresh") /\ rcv'.pc = "persist" /\ rcv'.hashed = <<>>
         \/ Discarding("fresh") /\ rcv'.pc = "discardMeta" /\ rcv'.next = "fresh"
         \/ Discarding("fresh") /\ rcv'.pc = "fresh"
  <2> USE <1>1 DEF Process
  <2>1. CASE NothingToReconcile /\ rcv'.pc # "reject"
    BY <2>1 DEF NothingToReconcile, Step, disk, wireVars
  <2>2. CASE PrepareWithoutPart
    BY <2>2 DEF PrepareWithoutPart, Step, disk, wireVars
  <2>3. CASE PrepareUnusablePart
    BY <2>3 DEF PrepareUnusablePart, Discard, disk, wireVars
  <2>4. CASE Adopt
    BY <2>4 DEF Adopt, Step, wireVars
  <2>5. CASE CreatePart
    BY <2>5 DEF CreatePart, wireVars
  <2>6. CASE (DiscardPart \/ DiscardMetadata) /\ rcv.next = "fresh"
    BY <2>6 DEF DiscardPart, DiscardMetadata, Discarding, Step, At, wireVars
  <2>7. QED
    BY <2>1, <2>2, <2>3, <2>4, <2>5, <2>6
<1>3. /\ Job' = Job /\ Sent' = Sent /\ Answered' = Answered /\ snd' = snd
      /\ Last(Job)' = Last(Job)
  BY <1>2 DEF Job, Sent, Answered, Last, senderVars
<1>4. Serving /\ Serving' /\ rcv.pc \notin {"hello", "offer", "close"}
      /\ rcv'.pc \notin {"hello", "offer"}
  BY <1>2 DEF Serving, At, Discarding
<1>5. WorkInv'
  <2>1. receipt[Job] = None
    BY <1>2 DEF SessionInv, WorkInv, At, Discarding
  <2>2. rcv'.pc = "persist" => rcv'.hashed = <<>>
    BY <1>2 DEF At, Discarding
  <2>3. QED
    BY <1>2, <1>3, <2>1, <2>2 DEF WorkInv, At
<1>6. MetadataNamesWriter'
  BY <1>2, <1>3 DEF MetadataNamesWriter, At, Discarding
<1>7. ASSUME Attached PROVE EndsInv'
  <2>1. EndsInv
    BY DEF SessionInv
  <2>2. CASE At("adopt") /\ rcv'.pc = "data" /\ rcv'.hashed = rcv.hashed
    <3>1. snd[Job].pc \in {"data", "complete"} /\ Answered = <<>> /\ Flows(Sent)
      BY <1>7, <2>1, <2>2 DEF EndsInv, InData, At
    <3>2. Flows(Sent)'
      BY <1>2, <1>3, <2>2, <3>1 DEF Flows
    <3>3. InData'
      BY <1>3, <3>1, <3>2 DEF InData
    <3>4. QED
      BY <2>2, <3>3 DEF EndsInv, At, Discarding
  <2>3. CASE ~ At("adopt")
    <3>1. snd[Job].pc \in {"offered", "restart"} /\ Sent = <<>> /\ Answered = <<>>
      BY <1>2, <1>7, <2>1, <2>3 DEF EndsInv, At, Discarding
    <3>2. rcv'.pc = "prepare" => snd[Job].pc = "offered"
      BY <1>2, <1>7, <2>1, <2>3 DEF EndsInv, At, Discarding
    <3>3. rcv'.pc \in {"prepare", "fresh", "discard", "discardMeta", "persist"}
      BY <1>2, <2>3
    <3>4. QED
      BY <1>3, <3>1, <3>2, <3>3 DEF EndsInv, At, Discarding
  <2>4. QED
    BY <1>2, <2>2, <2>3 DEF At, Discarding
<1>8. QED
  BY <1>2, <1>4, <1>5, <1>6, <1>7, QuietStep

(* A frame is taken, or an answer written. *)
LEMMA TakesFrame ==
    ASSUME Typed, NEW c \in Conns, c = rcv.conn, net[c].up # <<>>, TakeFrame,
           rcv'.conn = rcv.conn
    PROVE  /\ \A d \in Conns \ {c} : net'[d] = net[d]
           /\ net'[c].rcvEnd = net[c].rcvEnd /\ net'[c].cut = net[c].cut
           /\ net'[c].down = net[c].down
           /\ Sent = net[c].up /\ Sent' = Tail(Sent) /\ Answered' = Answered
           /\ Sent \in Seq(Message) /\ Sent # <<>> /\ Head(Sent) = Head(net[c].up)
<1>1. net \in [Conns -> Connection] /\ net' = TakeUp(net, c)
  BY DEF Typed, TakeFrame
<1>2. /\ \A d \in Conns \ {c} : net'[d] = net[d]
      /\ net'[c].rcvEnd = net[c].rcvEnd /\ net'[c].cut = net[c].cut
      /\ net'[c].down = net[c].down /\ net'[c].up = Tail(net[c].up)
  BY <1>1, TakeField
<1>3. net[c].up \in Seq(Message)
  BY Names
<1>4. QED
  BY <1>2, <1>3 DEF Sent, Answered

LEMMA Answers ==
    ASSUME Typed, NEW c \in Conns, c = rcv.conn, NEW m \in Message,
           Reply(net, m), rcv'.conn = rcv.conn
    PROVE  /\ \A d \in Conns \ {c} : net'[d] = net[d]
           /\ net'[c].rcvEnd = net[c].rcvEnd /\ net'[c].cut = net[c].cut
           /\ \/ net'[c].down = net[c].down
              \/ net'[c].down = Append(net[c].down, m)
           /\ Sent' = Sent
           /\ Answered = <<>> => Answered' \in {<<>>, << m >>}
<1>1. net \in [Conns -> Connection] /\ net' = Down(net, c, m)
  BY DEF Typed, Reply
<1>2. /\ \A d \in Conns \ {c} : net'[d] = net[d]
      /\ net'[c].rcvEnd = net[c].rcvEnd /\ net'[c].cut = net[c].cut
      /\ net'[c].up = net[c].up
      /\ net'[c].down \in {net[c].down, Append(net[c].down, m)}
  BY <1>1, DownField
<1>3. net[c].down = <<>> => net'[c].down \in {<<>>, << m >>}
  BY <1>2, One
<1>4. QED
  BY <1>2, <1>3 DEF Sent, Answered

LEMMA AnswerKeeps ==
    ASSUME Typed, Typed', SessionInv, UNCHANGED senderVars, AnswerHello
    PROVE  SessionInv'
<1>1. PICK c \in Conns : c = rcv.conn
  BY DEF Typed, Serving, AnswerHello, Gets, At
<1>2. /\ At("hello") /\ net[c].up # <<>> /\ Serving /\ receipt' = receipt
      /\ rcv' = [rcv EXCEPT !.pc = "offer"]
      /\ net' = Down(TakeUp(net, c), c, Bare("HELLO_ACK"))
  BY <1>1 DEF AnswerHello, Gets, NextUp, At, Serving, Step, Reply, disk
<1>3. rcv'.pc = "offer" /\ rcv'.conn = rcv.conn /\ Serving'
  BY <1>2 DEF Typed, Process, Serving
<1>4. net[c].up = << Bare("HELLO") >>
  BY <1>1, <1>2 DEF SessionInv, HelloInv, Sent
<1> DEFINE n == TakeUp(net, c)
<1>5. /\ n \in [Conns -> Connection] /\ \A d \in Conns \ {c} : n[d] = net[d]
      /\ n[c].rcvEnd = net[c].rcvEnd /\ n[c].down = net[c].down /\ n[c].up = <<>>
  <2>1. net \in [Conns -> Connection]
    BY DEF Typed
  <2>2. /\ n \in [Conns -> Connection] /\ \A d \in Conns \ {c} : n[d] = net[d]
        /\ n[c].rcvEnd = net[c].rcvEnd /\ n[c].down = net[c].down
        /\ n[c].up = Tail(net[c].up)
    BY <1>2, <2>1, TakeField
  <2> HIDE DEF n
  <2>3. Tail(net[c].up) = <<>>
    BY <1>4, One
  <2>4. QED
    BY <2>2, <2>3
<1> HIDE DEF n
<1>6. /\ \A d \in Conns \ {c} : net'[d] = net[d]
      /\ net'[c].rcvEnd = net[c].rcvEnd /\ net'[c].up = <<>>
      /\ net'[c].down \in {net[c].down, Append(net[c].down, Bare("HELLO_ACK"))}
  <2>1. net' = Down(n, c, Bare("HELLO_ACK"))
    BY <1>2 DEF n
  <2>2. /\ \A d \in Conns : /\ net'[d].rcvEnd = n[d].rcvEnd /\ net'[d].up = n[d].up
                            /\ d # c => net'[d] = n[d]
        /\ net'[c].down \in {n[c].down, Append(n[c].down, Bare("HELLO_ACK"))}
    BY ONLY <1>3, <1>5, <2>1, DownField
  <2>3. QED
    BY ONLY <1>3, <1>5, <2>2
<1>7. Sent' = <<>> /\ Job' = Job /\ snd' = snd
  BY <1>1, <1>3, <1>6 DEF Sent, Job, senderVars
<1>8. Bare("HELLO_ACK") \in Message /\ Bare("HELLO_ACK").type = "HELLO_ACK"
  BY FrameTypes DEF MessageType, Bare
<1>9. WorkInv' /\ MetadataNamesWriter'
  BY <1>3 DEF WorkInv, MetadataNamesWriter, At
<1>10. ASSUME Attached PROVE EndsInv'
  <2>1. snd[Job].pc = "hello" /\ net[c].down = <<>>
    BY <1>1, <1>2, <1>10 DEF SessionInv, EndsInv, Answered
  <2>2. Answered' \in {<<>>, << Bare("HELLO_ACK") >>}
    BY <1>1, <1>3, <1>6, <2>1, One DEF Answered
  <2>3. InOffer'
    BY <1>7, <2>1, <2>2 DEF InOffer
  <2>4. QED
    BY <1>3, <2>3 DEF EndsInv, At, Discarding
<1>11. \/ net'[c].down = net[c].down
       \/ \E m \in Message :
             /\ net'[c].down = Append(net[c].down, m)
             /\ m.type \in {"ACCEPT", "RESUME"} => receipt[Job] = None
  <2>1. Bare("HELLO_ACK").type \notin {"ACCEPT", "RESUME"}
    BY <1>8
  <2>2. QED
    BY <1>6, <1>8, <2>1
<1>12. QED
  BY <1>1, <1>2, <1>3, <1>6, <1>7, <1>9, <1>10, <1>11, ServeStep

LEMMA OfferReadKeeps ==
    ASSUME Typed, Typed', SessionInv, UNCHANGED senderVars, ReadOffer
    PROVE  SessionInv'
<1>1. PICK c \in Conns : c = rcv.conn
  BY DEF Typed, Serving, ReadOffer, Gets, At
<1>2. /\ At("offer") /\ net[c].up # <<>> /\ Serving /\ receipt' = receipt
      /\ rcv'.pc = "reconcile" /\ rcv'.conn = rcv.conn /\ Serving' /\ TakeFrame
  BY <1>1 DEF ReadOffer, Gets, NextUp, At, Serving, disk, Typed, Process
<1>3. /\ \A d \in Conns \ {c} : net'[d] = net[d]
      /\ net'[c].rcvEnd = net[c].rcvEnd /\ net'[c].down = net[c].down
      /\ Sent' = Tail(Sent) /\ Answered' = Answered
      /\ Sent \in Seq(Message) /\ Sent # <<>>
  BY <1>1, <1>2, TakesFrame
<1>4. WorkInv' /\ MetadataNamesWriter'
  BY <1>2 DEF WorkInv, MetadataNamesWriter, At
<1>5. ASSUME Attached PROVE EndsInv'
  <2>1. snd[Job].pc = "offered" /\ Len(Sent) <= 1 /\ Answered = <<>>
    BY <1>2, <1>3, <1>5 DEF SessionInv, EndsInv, InOffer
  <2>2. Sent' = <<>>
    <3>1. Len(Sent) = 1
      <4>1. Len(Sent) \in Nat
        BY <1>3, LenProperties
      <4>2. Len(Sent) # 0
        BY <1>3, EmptySeq
      <4>3. \A l \in Nat : l # 0 /\ l <= 1 => l = 1
        OBVIOUS
      <4>4. Len(Sent) <= 1
        BY <2>1
      <4>5. QED
        BY ONLY <4>1, <4>2, <4>3, <4>4
    <3>2. Tail(Sent) \in Seq(Message) /\ Len(Tail(Sent)) = 0
      BY <1>3, <3>1, HeadTailProperties
    <3>3. QED
      BY <1>3, <3>2, EmptySeq
  <2>3. snd'[Job'].pc = "offered" /\ Answered' = <<>>
    BY <1>2, <1>3, <2>1 DEF Job, senderVars
  <2>4. QED
    BY <1>2, <2>2, <2>3 DEF EndsInv, At, Discarding
<1>6. rcv.pc \notin {"hello", "close"} /\ (At("offer") => Sent # <<>>)
  BY <1>2, <1>3 DEF At
<1>7. QED
  BY <1>1, <1>2, <1>3, <1>4, <1>5, <1>6, ServeStep

LEMMA ReplyKeeps ==
    ASSUME Typed, Typed', SessionInv, UNCHANGED senderVars,
           RequestResume \/ PersistMetadata
    PROVE  SessionInv'
<1>1. PICK c \in Conns : c = rcv.conn
  BY DEF Typed, Serving, RequestResume, PersistMetadata, At
<1>2. PICK m \in Message :
         /\ Reply(net, m) /\ receipt' = receipt /\ rcv'.conn = rcv.conn
         /\ \/ /\ At("prepare") /\ rcv'.pc = "resume"
               /\ m = Carrying("RESUME", rcv'.hashed)
            \/ /\ At("persist") /\ rcv'.pc = "data" /\ rcv'.hashed = rcv.hashed
               /\ m = Bare("ACCEPT") /\ meta' = Job
  <2>1. CASE RequestResume
    <3>1. rcv'.pc = "resume" /\ rcv'.hashed = part /\ rcv'.conn = rcv.conn /\ receipt' = receipt
          /\ Reply(net, Carrying("RESUME", part)) /\ At("prepare")
      BY <2>1 DEF RequestResume, disk, Typed, Process
    <3>2. part \in Content
      BY <3>1 DEF Typed, Process
    <3>3. Carrying("RESUME", part) \in Message
      BY <3>2, FrameTypes DEF MessageType
    <3>4. QED
      BY <3>1, <3>3
  <2>2. CASE PersistMetadata
    <3>1. Bare("ACCEPT") \in Message
      BY FrameTypes DEF MessageType
    <3>2. QED
      BY <2>2, <3>1 DEF PersistMetadata, Step, Typed, Process
  <2>3. QED
    BY <2>1, <2>2
<1>3. /\ \A d \in Conns \ {c} : net'[d] = net[d]
      /\ net'[c].rcvEnd = net[c].rcvEnd
      /\ net'[c].down = net[c].down \/ net'[c].down = Append(net[c].down, m)
      /\ Sent' = Sent
      /\ Answered = <<>> => Answered' \in {<<>>, << m >>}
  BY <1>1, <1>2, Answers
<1>4. receipt[Job] = None
  BY <1>2 DEF SessionInv, WorkInv, At
<1>5. Job' = Job /\ snd' = snd /\ Serving /\ Serving'
  BY <1>2 DEF Job, senderVars, Serving, At
<1>6. WorkInv' /\ MetadataNamesWriter'
  BY <1>2, <1>4, <1>5 DEF WorkInv, MetadataNamesWriter, At
<1>7. ASSUME Attached PROVE EndsInv'
  <2>1. EndsInv
    BY DEF SessionInv
  <2>2. CASE At("prepare") /\ rcv'.pc = "resume" /\ m = Carrying("RESUME", rcv'.hashed)
    <3>1. snd[Job].pc = "offered" /\ Sent = <<>> /\ Answered = <<>>
      BY <1>7, <2>1, <2>2 DEF EndsInv, At
    <3>2. InResume'
      BY <1>3, <1>5, <2>2, <3>1 DEF InResume
    <3>3. QED
      BY <2>2, <3>2 DEF EndsInv, At, Discarding
  <2>3. CASE At("persist") /\ rcv'.pc = "data" /\ rcv'.hashed = rcv.hashed
             /\ m = Bare("ACCEPT")
    <3>1. snd[Job].pc \in {"offered", "restart"} /\ Sent = <<>> /\ Answered = <<>>
      BY <1>7, <2>1, <2>3 DEF EndsInv, At
    <3>2. rcv.hashed = <<>>
      BY <2>3 DEF SessionInv, WorkInv
    <3>3. InData'
      BY <1>3, <1>5, <2>3, <3>1, <3>2 DEF InData, At
    <3>4. QED
      BY <2>3, <3>3 DEF EndsInv, At, Discarding
  <2>4. QED
    BY <1>2, <2>2, <2>3
<1>8. \/ net'[c].down = net[c].down
      \/ \E k \in Message :
            /\ net'[c].down = Append(net[c].down, k)
            /\ k.type \in {"ACCEPT", "RESUME"} => receipt[Job] = None
  BY <1>3, <1>4
<1>9. rcv'.pc \notin {"hello", "offer", "close"} /\ rcv.pc \notin {"hello", "offer", "close"}
  BY <1>2 DEF At
<1>10. rcv.pc \notin {"hello", "close"} /\ (At("offer") => Sent # <<>>) /\ rcv'.pc # "hello"
  BY <1>9 DEF At
<1>11. receipt' = receipt /\ rcv'.conn = rcv.conn
  BY <1>2
<1>12. QED
  BY <1>1, <1>3, <1>5, <1>6, <1>7, <1>8, <1>10, <1>11, ServeStep

LEMMA TakingKeeps ==
    ASSUME Typed, Typed', SessionInv, UNCHANGED senderVars,
           \/ ResumeAccepted \/ ResumeRefused
           \/ ReadData \/ ReadTooMuchData \/ ReadComplete \/ ReadCancel
    PROVE  SessionInv'
<1>1. rcv.pc \in {"resume", "data"}
  BY DEF ResumeAccepted, ResumeRefused, ReadData, ReadTooMuchData, ReadComplete,
         ReadCancel, Gets, At
<1>2. PICK c \in Conns : c = rcv.conn
  BY <1>1 DEF Typed, Serving
<1>3. net[c].up # <<>> /\ TakeFrame /\ receipt' = receipt
  BY <1>2 DEF ResumeAccepted, ResumeRefused, ReadData, ReadTooMuchData, ReadComplete,
              ReadCancel, Gets, NextUp, disk
<1> DEFINE m == Head(net[c].up)
<1>4. /\ rcv'.conn = rcv.conn
      /\ \/ /\ At("resume") /\ m.type = "ACCEPT" /\ rcv'.hashed = rcv.hashed
            /\ rcv'.pc = "adopt" \/ (rcv'.pc = "data" /\ meta' = Job)
         \/ At("resume") /\ m.type = "RESTART" /\ rcv'.pc = "discard" /\ rcv'.next = "fresh"
         \/ rcv'.pc = "discard" /\ rcv'.next = "close"
         \/ /\ At("data") /\ m.type = "DATA" /\ rcv'.pc = "data" /\ meta' = meta
            /\ rcv'.hashed = rcv.hashed \o m.body
         \/ At("data") /\ m.type = "COMPLETE" /\ rcv'.pc = "publish"
  <2>0. rcv \in Process
    BY DEF Typed
  <2> USE <2>0 DEF Process
  <2>1. CASE ResumeAccepted
    BY <1>2, <2>1 DEF ResumeAccepted, Gets, NextUp, Step, disk
  <2>2. CASE ResumeRefused
    BY <1>2, <2>2 DEF ResumeRefused, Discard, NextUp
  <2>3. CASE ReadData
    <3>1. At("data") /\ NextUp(c, "DATA") /\ meta' = meta
          /\ rcv' = [rcv EXCEPT !.hashed = rcv.hashed \o m.body, !.dirty = TRUE]
      BY <1>2, <2>3 DEF ReadData, Gets
    <3>2. m.type = "DATA"
      BY <3>1 DEF NextUp
    <3> HIDE DEF m
    <3>3. QED
      BY <3>1, <3>2 DEF At
  <2>4. CASE ReadTooMuchData \/ ReadCancel
    BY <2>4 DEF ReadTooMuchData, ReadCancel, Discard
  <2>5. CASE ReadComplete
    BY <1>2, <2>5 DEF ReadComplete, Gets, NextUp, Discard
  <2>6. QED
    BY <2>1, <2>2, <2>3, <2>4, <2>5
<1>5. /\ \A d \in Conns \ {c} : net'[d] = net[d]
      /\ net'[c].rcvEnd = net[c].rcvEnd /\ net'[c].cut = net[c].cut
      /\ net'[c].down = net[c].down
      /\ Sent' = Tail(Sent) /\ Answered' = Answered
      /\ Sent \in Seq(Message) /\ Sent # <<>> /\ Head(Sent) = m
  BY <1>2, <1>3, <1>4, TakesFrame
<1> HIDE DEF m
<1>6. receipt[Job] = None
  BY <1>1 DEF SessionInv, WorkInv
<1>7. /\ Job' = Job /\ snd' = snd /\ Last(Job)' = Last(Job)
      /\ Serving /\ Serving'
  BY <1>1, <1>4 DEF Job, senderVars, Last, Serving, At
<1>8. WorkInv'
  BY <1>4, <1>6, <1>7, <1>3 DEF WorkInv, At
<1>9. MetadataNamesWriter'
  BY <1>4, <1>7 DEF SessionInv, MetadataNamesWriter, At
<1>10. ASSUME Attached PROVE EndsInv'
  <2>0. /\ EndsInv /\ net'[rcv'.conn].cut = net[rcv.conn].cut
        /\ rcv.hashed \in Content /\ Job \in Jobs
    BY <1>2, <1>4, <1>5, <1>10 DEF SessionInv, Typed, Process, Attached, Job, Conns
  <2>1. CASE /\ At("resume") /\ m.type = "ACCEPT" /\ rcv'.hashed = rcv.hashed
             /\ rcv'.pc \in {"adopt", "data"}
    <3>1. /\ snd[Job].pc \in {"data", "complete"} /\ Answered = <<>>
          /\ Flows(Tail(Sent))
      BY <1>5, <1>10, <2>0, <2>1, One DEF EndsInv, InResume, Bare
    <3>2. Flows(Sent)'
      BY <1>5, <1>7, <2>0, <2>1, <3>1 DEF Flows
    <3>3. InData'
      BY <1>5, <1>7, <3>1, <3>2 DEF InData
    <3>4. QED
      BY <2>1, <3>3 DEF EndsInv, At, Discarding
  <2>2. CASE /\ At("resume") /\ m.type = "RESTART"
             /\ rcv'.pc = "discard" /\ rcv'.next = "fresh"
    <3>1. snd[Job].pc = "restart" /\ Answered = <<>> /\ Sent = << Bare("RESTART") >>
      BY <1>5, <1>10, <2>0, <2>2 DEF EndsInv, InResume, Bare
    <3>2. Sent' = <<>>
      BY <1>5, <3>1, One
    <3>3. QED
      BY <1>5, <1>7, <2>2, <3>1, <3>2 DEF EndsInv, At, Discarding
  <2>3. CASE rcv'.pc = "discard" /\ rcv'.next = "close"
    BY <2>3 DEF EndsInv, At, Discarding
  <2>4. CASE At("data") /\ m.type \in {"DATA", "COMPLETE"}
    <3>1. snd[Job].pc \in {"data", "complete"} /\ Answered = <<>> /\ Flows(Sent)
      BY <1>5, <1>10, <2>0, <2>4 DEF EndsInv, InData, At
    <3>2. snd[Job].hashed \in Content /\ Last(Job) \in Nat
      <4>1. snd[Job].hashed \in Content
        BY <2>0 DEF Typed, JobState
      <4>2. Len(snd[Job].hashed) \in Nat
        BY <4>1, LenProperties DEF Content
      <4>3. QED
        BY <4>1, <4>2 DEF Last
    <3>3. CASE /\ m.type = "DATA" /\ rcv'.pc = "data"
               /\ rcv'.hashed = rcv.hashed \o m.body
      <4>1. Follows(rcv.hashed \o m.body, snd[Job].hashed, Last(Job), net[rcv.conn].cut,
                    Tail(Sent))
        BY <1>5, <2>0, <3>1, <3>2, <3>3, FollowsMoves DEF Flows
      <4>2. Flows(Sent)'
        BY <1>5, <1>7, <2>0, <3>3, <4>1 DEF Flows
      <4>3. InData'
        BY <1>5, <1>7, <3>1, <4>2 DEF InData
      <4>4. QED
        BY <3>3, <4>3 DEF EndsInv, At, Discarding
    <3>4. CASE m.type = "COMPLETE" /\ rcv'.pc = "publish"
      <4>1. Last(Job) > Len(snd[Job].hashed)
        BY <1>5, <2>0, <3>1, <3>2, <3>4, FollowsLast DEF Flows
      <4>2. snd[Job].pc = "complete"
        <5>1. Len(snd[Job].hashed) \in Nat
          BY <3>2, LenProperties DEF Content
        <5>2. QED
          BY <4>1, <5>1 DEF Last
      <4>3. QED
        BY <1>5, <1>7, <3>1, <3>4, <4>2 DEF EndsInv, At, Discarding
    <3>5. QED
      BY <1>4, <2>3, <2>4, <3>3, <3>4 DEF At
  <2>5. QED
    BY <1>4, <2>1, <2>2, <2>3, <2>4
<1>11. /\ rcv.pc \notin {"hello", "close"} /\ (At("offer") => Sent # <<>>)
       /\ rcv'.pc # "hello"
  BY <1>1, <1>4 DEF At
<1>12. rcv'.conn = rcv.conn
  BY <1>4
<1>13. QED
  BY <1>2, <1>3, <1>5, <1>7, <1>8, <1>9, <1>10, <1>11, <1>12, ServeStep

(* The receipt appears while its job waits for VERIFIED, or is no further  *)
(* than its next HELLO.                                                    *)
LEMMA PublishKeeps ==
    ASSUME Typed, Typed', SessionInv, UNCHANGED senderVars, PublishReceipt
    PROVE  SessionInv'
<1>1. At("publish") /\ Serving /\ rcv.conn \in Conns /\ Job \in Jobs
  BY DEF PublishReceipt, At, Serving, Typed, Job, Conns
<1>2. /\ net' = net /\ snd' = snd /\ rcv'.conn = rcv.conn /\ Job' = Job
      /\ rcv'.pc \in {"promote", "close"}
      /\ \A j \in Jobs \ {Job} : receipt'[j] = receipt[j]
  BY DEF PublishReceipt, Step, wireVars, senderVars, Typed, Process, Job
<1>3. /\ Serving' /\ Sent' = Sent /\ Answered' = Answered
      /\ \A i : Conn(i)' = Conn(i) /\ Live(i)' = Live(i)
  BY <1>2 DEF Serving, Sent, Answered, Conn, Live
<1>4. ASSUME Live(Job)
      PROVE  snd[Job].pc \notin {"data", "restart"} /\ net[Conn(Job)].down = <<>>
  <2>1. /\ Conn(Job) \in Conns /\ Conn(Job)[1] = Job
        /\ Conn(Job)[2] = snd[Job].attempt /\ snd[Job].attempt \in Nat
        /\ rcv.conn[2] \in Nat /\ rcv.conn[1] = Job
    BY <1>1, Names DEF Job
  <2>2. net[rcv.conn].rcvEnd = "accepted"
    BY <1>1 DEF SessionInv, ConnInv
  <2>3. CASE snd[Job].attempt < rcv.conn[2]
    BY <1>1, <2>1, <2>2, <2>3 DEF SessionInv, ConnInv
  <2>4. CASE snd[Job].attempt > rcv.conn[2]
    <3>1. net[Conn(Job)].rcvEnd \in {"none", "backlog"}
      BY <1>1, <2>1, <2>4 DEF SessionInv, LatestInv, At
    <3>2. net[Conn(Job)].rcvEnd = "backlog" /\ snd[Job].pc = "hello"
      BY <1>1, <1>4, <3>1 DEF SessionInv, JobInv
    <3>3. QED
      BY <2>1, <3>2 DEF SessionInv, ConnInv
  <2>5. CASE snd[Job].attempt = rcv.conn[2]
    <3>1. Conn(Job) = rcv.conn
      BY <1>1, <2>1, <2>5, Names
    <3>2. Attached
      BY <1>1, <1>4, <3>1 DEF Attached
    <3>3. snd[Job].pc = "complete" /\ Answered = <<>>
      BY <1>1, <3>2 DEF SessionInv, EndsInv
    <3>4. QED
      BY <3>1, <3>3 DEF Answered
  <2>6. QED
    BY <2>1, <2>3, <2>4, <2>5
<1>5. ConnInv' /\ JobInv' /\ HelloInv'
  BY <1>1, <1>2, <1>3 DEF SessionInv, ConnInv, JobInv, HelloInv, At
<1>6. LatestInv'
  BY <1>1, <1>2 DEF SessionInv, LatestInv, At
<1>7. WorkInv' /\ MetadataNamesWriter' /\ EndsInv'
  BY <1>2 DEF WorkInv, MetadataNamesWriter, EndsInv, At, Discarding
<1>8. AskedInv'
  <2>1. ASSUME NEW i \in Jobs, Live(i)
        PROVE  \A n \in 1 .. Len(net[Conn(i)].down) :
                  net[Conn(i)].down[n].type \in {"ACCEPT", "RESUME"} => receipt'[i] = None
    <3>1. CASE i = Job
      <4>1. Len(net[Conn(i)].down) = 0
        BY <1>4, <2>1, <3>1, EmptySeq
      <4>2. QED
        BY <4>1
    <3>2. CASE i # Job
      BY <1>2, <2>1, <3>2 DEF SessionInv, AskedInv
    <3>3. QED
      BY <3>1, <3>2
  <2>2. QED
    BY <1>2, <1>3, <2>1 DEF AskedInv
<1>9. NoRetransmission'
  <2>1. snd[Job].pc \notin {"data", "restart"}
    BY <1>4 DEF Live, Reading
  <2>2. QED
    BY <1>2, <2>1 DEF SessionInv, NoRetransmission
<1>10. QED
  BY <1>5, <1>6, <1>7, <1>8, <1>9 DEF SessionInv

-----------------------------------------------------------------------------
(* Connections are accepted one at a time. *)
LEMMA AcceptKeeps ==
    ASSUME Typed, Typed', SessionInv, UNCHANGED senderVars, NEW c \in Conns, Accept(c)
    PROVE  SessionInv'
<1>1. /\ ~ Serving /\ net[c].rcvEnd = "backlog"
      /\ receipt' = receipt
      /\ rcv'.pc = "hello" /\ rcv'.conn = c /\ Serving'
  BY DEF Accept, At, Serving, disk, Typed, Process
<1>2. /\ \A d \in Conns : net'[d].up = net[d].up /\ net'[d].down = net[d].down
      /\ \A d \in Conns \ {c} : net'[d] = net[d]
      /\ net'[c].rcvEnd = "accepted"
  BY DEF Accept, Typed, Connection
<1>3. /\ snd' = snd /\ \A i : Conn(i)' = Conn(i) /\ Live(i)' = Live(i)
  BY DEF senderVars, Conn, Live
<1>4. net[c].down = <<>> /\ net[c].up \in {<<>>, << Bare("HELLO") >>}
  BY <1>1 DEF SessionInv, ConnInv
<1>5. ConnInv'
  <2>1. ASSUME NEW d \in Conns
        PROVE  /\ net'[d].rcvEnd = "accepted" <=> Serving' /\ d = rcv'.conn
               /\ net'[d].rcvEnd = "backlog" =>
                     net'[d].down = <<>> /\ net'[d].up \in {<<>>, << Bare("HELLO") >>}
               /\ snd'[d[1]].attempt < d[2] => net'[d].rcvEnd = "none"
    <3>1. /\ net[d].rcvEnd # "accepted"
          /\ net[d].rcvEnd = "backlog" =>
                net[d].down = <<>> /\ net[d].up \in {<<>>, << Bare("HELLO") >>}
          /\ snd[d[1]].attempt < d[2] => net[d].rcvEnd = "none"
      BY <1>1 DEF SessionInv, ConnInv
    <3>2. CASE d = c
      BY <1>1, <1>2, <1>3, <3>1, <3>2
    <3>3. CASE d # c
      BY <1>1, <1>2, <1>3, <3>1, <3>3
    <3>4. QED
      BY <3>2, <3>3
  <2>2. QED
    BY <2>1 DEF ConnInv
<1>6. JobInv'
  <2>1. ASSUME NEW i \in Jobs
        PROVE  /\ snd[i].pc \in {"idle", "connect"} => net'[Conn(i)].rcvEnd = "none"
               /\ Live(i) => net'[Conn(i)].rcvEnd # "none"
               /\ Live(i) /\ net'[Conn(i)].rcvEnd = "backlog" => snd[i].pc = "hello"
    <3>1. /\ snd[i].pc \in {"idle", "connect"} => net[Conn(i)].rcvEnd = "none"
          /\ Live(i) => net[Conn(i)].rcvEnd # "none"
          /\ Live(i) /\ net[Conn(i)].rcvEnd = "backlog" => snd[i].pc = "hello"
          /\ Conn(i) \in Conns
      BY Names DEF SessionInv, JobInv
    <3>2. CASE Conn(i) = c
      BY <1>1, <1>2, <3>1, <3>2
    <3>3. CASE Conn(i) # c
      BY <1>2, <3>1, <3>3
    <3>4. QED
      BY <3>2, <3>3
  <2>2. QED
    BY <1>3, <2>1 DEF JobInv
<1>7. LatestInv' /\ WorkInv' /\ MetadataNamesWriter'
  BY <1>1 DEF LatestInv, WorkInv, MetadataNamesWriter, At
<1>8. AskedInv'
  <2>1. \A i \in Jobs : net'[Conn(i)].down = net[Conn(i)].down
    BY <1>2, Names
  <2>2. QED
    BY <1>1, <1>3, <2>1 DEF SessionInv, AskedInv
<1>9. HelloInv'
  BY <1>1, <1>2, <1>4 DEF HelloInv, Sent
<1>10. EndsInv'
  <2>1. ASSUME Attached' PROVE snd'[Job'].pc = "hello" /\ Answered' = <<>>
    <3>1. Live(Job') /\ Conn(Job') = c /\ Job' \in Jobs
      BY <1>1, <1>3, <2>1 DEF Attached, Job, Conns, Live, Conn
    <3>2. snd[Job'].pc = "hello"
      BY <1>1, <3>1 DEF SessionInv, JobInv
    <3>3. QED
      BY <1>1, <1>2, <1>3, <1>4, <3>2 DEF Answered
  <2>2. QED
    BY <1>1, <2>1 DEF EndsInv, At, Discarding
<1>11. NoRetransmission'
  BY <1>1, <1>3 DEF SessionInv, NoRetransmission
<1>12. QED
  BY <1>5, <1>6, <1>7, <1>8, <1>9, <1>10, <1>11 DEF SessionInv

(* The receiver drops the connection it serves, and more if it crashes. *)
LEMMA DropKeeps ==
    ASSUME Typed, Typed', SessionInv, UNCHANGED senderVars, receipt' = receipt,
           rcv'.pc \in {"down", "accept"},
           \A d \in Conns :
              /\ \/ net'[d].rcvEnd = net[d].rcvEnd /\ net'[d].up = net[d].up
                    /\ net[d].rcvEnd # "accepted"
                 \/ net'[d].rcvEnd = "closed" /\ net[d].rcvEnd # "none"
              /\ \/ net'[d].down \in {net[d].down, <<>>}
                 \/ \E m \in Message : /\ net'[d].down = Append(net[d].down, m)
                                       /\ m.type \notin {"ACCEPT", "RESUME"}
                                       /\ net[d].rcvEnd = "accepted"
    PROVE  SessionInv'
<1>1. snd' = snd /\ \A i : Conn(i)' = Conn(i) /\ Live(i)' = Live(i)
  BY DEF senderVars, Conn, Live
<1>2. ~ Serving'
  BY DEF Serving
<1>3. ConnInv'
  <2>1. ASSUME NEW d \in Conns
        PROVE  /\ net'[d].rcvEnd # "accepted"
               /\ net'[d].rcvEnd = "backlog" =>
                     net'[d].down = <<>> /\ net'[d].up \in {<<>>, << Bare("HELLO") >>}
               /\ snd'[d[1]].attempt < d[2] => net'[d].rcvEnd = "none"
    <3>1. /\ net[d].rcvEnd = "backlog" =>
                net[d].down = <<>> /\ net[d].up \in {<<>>, << Bare("HELLO") >>}
          /\ snd[d[1]].attempt < d[2] => net[d].rcvEnd = "none"
      BY DEF SessionInv, ConnInv
    <3>2. /\ net'[d].rcvEnd # "accepted"
          /\ net'[d].rcvEnd = "backlog" => net[d].rcvEnd = "backlog" /\ net'[d].up = net[d].up
          /\ net[d].rcvEnd = "none" => net'[d].rcvEnd = "none"
      OBVIOUS
    <3>3. net[d].rcvEnd = "backlog" => net'[d].down = <<>>
      BY <3>1
    <3>4. QED
      BY <1>1, <3>1, <3>2, <3>3
  <2>2. QED
    BY <1>2, <2>1 DEF ConnInv
<1>4. JobInv'
  <2>1. ASSUME NEW i \in Jobs
        PROVE  /\ snd[i].pc \in {"idle", "connect"} => net'[Conn(i)].rcvEnd = "none"
               /\ Live(i) => net'[Conn(i)].rcvEnd # "none"
               /\ Live(i) /\ net'[Conn(i)].rcvEnd = "backlog" => snd[i].pc = "hello"
    <3>1. /\ snd[i].pc \in {"idle", "connect"} => net[Conn(i)].rcvEnd = "none"
          /\ Live(i) => net[Conn(i)].rcvEnd # "none"
          /\ Live(i) /\ net[Conn(i)].rcvEnd = "backlog" => snd[i].pc = "hello"
          /\ Conn(i) \in Conns
      BY Names DEF SessionInv, JobInv
    <3>2. QED
      BY <3>1
  <2>2. QED
    BY <1>1, <2>1 DEF JobInv
<1>5. LatestInv' /\ WorkInv' /\ MetadataNamesWriter' /\ HelloInv'
  BY DEF LatestInv, WorkInv, MetadataNamesWriter, HelloInv, At
<1>6. AskedInv'
  <2>1. ASSUME NEW i \in Jobs, Live(i), NEW n \in 1 .. Len(net'[Conn(i)].down),
               net'[Conn(i)].down[n].type \in {"ACCEPT", "RESUME"}
        PROVE  receipt[i] = None
    <3>1. /\ \A k \in 1 .. Len(net[Conn(i)].down) :
                net[Conn(i)].down[k].type \in {"ACCEPT", "RESUME"} => receipt[i] = None
          /\ Conn(i) \in Conns
      BY <2>1, Names DEF SessionInv, AskedInv
    <3>2. CASE net'[Conn(i)].down = net[Conn(i)].down
      BY <2>1, <3>1, <3>2
    <3>3. CASE net'[Conn(i)].down = <<>>
      <4>1. Len(net'[Conn(i)].down) = 0
        BY <3>3, EmptySeq
      <4>2. QED
        BY <2>1, <4>1
    <3>4. CASE \E m \in Message : /\ net'[Conn(i)].down = Append(net[Conn(i)].down, m)
                                  /\ m.type \notin {"ACCEPT", "RESUME"}
      <4>1. PICK m \in Message : /\ net'[Conn(i)].down = Append(net[Conn(i)].down, m)
                                 /\ m.type \notin {"ACCEPT", "RESUME"}
        BY <3>4
      <4> DEFINE down == net[Conn(i)].down
      <4>2. down \in Seq(Message)
        BY <3>1, Names
      <4>3. net'[Conn(i)].down = Append(down, m)
        BY <4>1
      <4> HIDE DEF down
      <4>4. /\ Len(Append(down, m)) = Len(down) + 1 /\ Len(down) \in Nat
            /\ Append(down, m)[Len(down) + 1] = m
            /\ \A k \in 1 .. Len(down) : Append(down, m)[k] = down[k]
        BY <4>2, AppendProperties, LenProperties
      <4>5. n \in 1 .. Len(down)
        <5>1. n \in 1 .. Len(down) + 1
          BY <2>1, <4>3, <4>4
        <5>2. n # Len(down) + 1
          BY <2>1, <4>1, <4>3, <4>4
        <5>3. QED
          BY <4>4, <5>1, <5>2
      <4>6. QED
        BY <2>1, <3>1, <4>3, <4>4, <4>5 DEF down
    <3>5. QED
      BY <3>1, <3>2, <3>3, <3>4
  <2>2. QED
    BY <1>1, <2>1 DEF AskedInv
<1>7. EndsInv'
  BY <1>2 DEF EndsInv, Attached
<1>8. NoRetransmission'
  BY <1>1 DEF SessionInv, NoRetransmission
<1>9. QED
  BY <1>3, <1>4, <1>5, <1>6, <1>7, <1>8 DEF SessionInv

LEMMA FinishKeeps ==
    ASSUME Typed, Typed', SessionInv, UNCHANGED senderVars,
           SendVerified \/ SendReject \/ Close
    PROVE  SessionInv'
<1>1. Serving /\ rcv.conn \in Conns /\ net \in [Conns -> Connection]
  BY DEF SendVerified, SendReject, Close, At, Serving, Typed
<1>2. PICK m \in Message :
         /\ m.type \notin {"ACCEPT", "RESUME"}
         /\ \E n \in {net, Down(net, rcv.conn, m)} : Finish(n)
  <2>1. \A type \in {"VERIFIED", "REJECT"} :
           Bare(type) \in Message /\ Bare(type).type \notin {"ACCEPT", "RESUME"}
    BY FrameTypes DEF MessageType, Bare
  <2>2. QED
    BY <2>1 DEF SendVerified, SendReject, Close
<1>3. PICK n \in {net, Down(net, rcv.conn, m)} : Finish(n)
  BY <1>2
<1> DEFINE c == rcv.conn
<1>4. c \in Conns /\ net[c].rcvEnd = "accepted" /\ \A d \in Conns \ {c} : net[d].rcvEnd # "accepted"
  BY <1>1 DEF SessionInv, ConnInv
<1>5. /\ n \in [Conns -> Connection]
      /\ \A d \in Conns \ {c} : n[d] = net[d]
      /\ n[c].down = net[c].down \/ n[c].down = Append(net[c].down, m)
  <2> HIDE DEF c
  <2>1. c = rcv.conn
    BY DEF c
  <2>2. CASE n = net
    BY <1>1, <2>2
  <2>3. CASE n = Down(net, c, m)
    <3>1. /\ \A d \in Conns \ {c} : n[d] = net[d]
          /\ n[c].down = net[c].down \/ n[c].down = Append(net[c].down, m)
      BY <1>1, <1>4, <2>3, DownField
    <3>2. n \in {net, [net EXCEPT ![c].down = Append(@, m)]}
      BY <1>1, <1>4, <2>3, DownField
    <3>3. net[c] \in Connection /\ Append(net[c].down, m) \in Seq(Message)
      <4>1. net[c].down \in Seq(Message)
        BY <1>4, Names
      <4>2. QED
        BY <1>1, <1>4, <4>1, AppendProperties
    <3> DEFINE k == [net[c] EXCEPT !.down = Append(@, m)]
    <3>4. k \in Connection
      BY ONLY <3>3 DEF Connection
    <3>5. n \in {net, [net EXCEPT ![c] = k]}
      BY <3>2
    <3> HIDE DEF k
    <3>6. n \in [Conns -> Connection]
      BY <1>1, <1>4, <3>4, <3>5
    <3>7. QED
      BY <3>1, <3>6
  <2>4. QED
    BY <1>3, <2>1, <2>2, <2>3
<1>6. /\ \A d \in Conns \ {c} : net'[d] = net[d]
      /\ net'[c].rcvEnd = "closed"
      /\ net'[c].down = net[c].down \/ net'[c].down = Append(net[c].down, m)
  <2>1. net' = DropReceiver(n, c)
    BY <1>3 DEF Finish
  <2> HIDE DEF c
  <2>2. QED
    BY <1>4, <1>5, <2>1, DropField
<1>7. receipt' = receipt /\ rcv'.pc = "accept"
  BY <1>3 DEF SendVerified, SendReject, Close, Finish, disk, Typed, Process
<1> HIDE DEF c
<1>8. ASSUME NEW d \in Conns
      PROVE  /\ \/ net'[d].rcvEnd = net[d].rcvEnd /\ net'[d].up = net[d].up
                   /\ net[d].rcvEnd # "accepted"
                \/ net'[d].rcvEnd = "closed" /\ net[d].rcvEnd # "none"
             /\ \/ net'[d].down \in {net[d].down, <<>>}
                \/ \E k \in Message : /\ net'[d].down = Append(net[d].down, k)
                                      /\ k.type \notin {"ACCEPT", "RESUME"}
                                      /\ net[d].rcvEnd = "accepted"
  <2>1. CASE d = c
    BY <1>2, <1>4, <1>6, <2>1
  <2>2. CASE d # c
    BY <1>4, <1>6, <2>2
  <2>3. QED
    BY <2>1, <2>2
<1>9. QED
  BY <1>7, <1>8, DropKeeps

LEMMA CrashKeeps ==
    ASSUME Typed, Typed', SessionInv, UNCHANGED senderVars, Crash
    PROVE  SessionInv'
<1>1. receipt' = receipt /\ rcv'.pc = "down"
  BY DEF Crash, Typed, Process
<1>2. PICK arrives \in BOOLEAN :
         net' = [c \in Conns |->
                   IF net[c].rcvEnd \in {"backlog", "accepted"}
                   THEN [net[c] EXCEPT !.rcvEnd = "closed", !.up = <<>>,
                                       !.down = IF arrives THEN @ ELSE <<>>]
                   ELSE net[c]]
  BY DEF Crash
<1>3. ASSUME NEW d \in Conns
      PROVE  /\ \/ net'[d].rcvEnd = net[d].rcvEnd /\ net'[d].up = net[d].up
                   /\ net[d].rcvEnd # "accepted"
                \/ net'[d].rcvEnd = "closed" /\ net[d].rcvEnd # "none"
             /\ net'[d].down \in {net[d].down, <<>>}
  <2>1. net[d] \in Connection
    BY DEF Typed
  <2>2. QED
    BY <1>2, <2>1 DEF Connection
<1>4. QED
  BY <1>1, <1>3, DropKeeps

LEMMA RestartKeeps ==
    ASSUME Typed, Typed', SessionInv, UNCHANGED senderVars, Restart
    PROVE  SessionInv'
<1>1. receipt' = receipt /\ net' = net /\ rcv'.pc = "accept" /\ ~ Serving
  BY DEF Restart, Step, At, Serving, disk, Typed, Process
<1>2. \A d \in Conns : net[d].rcvEnd # "accepted"
  BY <1>1 DEF SessionInv, ConnInv
<1>3. QED
  BY <1>1, <1>2, DropKeeps

-----------------------------------------------------------------------------
(* A cut takes the tail of what was on its way, in both directions. *)
LEMMA FollowsBreaks ==
    ASSUME NEW held \in Content, NEW sent, NEW last \in Nat, NEW cut,
           NEW up \in Seq(Message), Follows(held, sent, last, cut, up), NEW m \in 0 .. Len(up)
    PROVE  Follows(held, sent, last, TRUE, SubSeq(up, 1, m))
<1>1. FlowsFrom(held, sent, last, up) /\ Len(held) \in Nat
  BY LenProperties DEF Follows, Content
<1>2. FlowsFrom(held, sent, last, SubSeq(up, 1, m))
  BY <1>1, FlowBreaks
<1>3. QED
  BY <1>2 DEF Follows

LEMMA CutEnds ==
    ASSUME Typed, SessionInv, Attached, UNCHANGED <<senderVars, receiverVars>>,
           net'[rcv.conn].cut = TRUE,
           NEW m \in 0 .. Len(Sent), Sent' = SubSeq(Sent, 1, m),
           NEW n \in 0 .. Len(Answered), Answered' = SubSeq(Answered, 1, n)
    PROVE  EndsInv'
<1>1. /\ Job' = Job /\ rcv' = rcv /\ snd' = snd /\ Last(Job)' = Last(Job)
      /\ EndsInv /\ Job \in Jobs /\ rcv.conn \in Conns
  BY DEF Job, Last, senderVars, receiverVars, SessionInv, Attached, Typed, Conns
<1>2. Sent \in Seq(Message) /\ Answered \in Seq(Message)
  BY <1>1, Names DEF Sent, Answered
<1>3. /\ Sent = <<>> => Sent' = <<>>
      /\ \A f : Sent = << f >> => Sent' \in {<<>>, << f >>}
      /\ Sent' # <<>> => /\ m >= 1 /\ Head(Sent') = Head(Sent)
                         /\ m - 1 \in 0 .. Len(Tail(Sent))
                         /\ Tail(Sent') = SubSeq(Tail(Sent), 1, m - 1)
      /\ Len(Sent') = m
  <2>1. LeftOf(Sent, m, SubSeq(Sent, 1, m))
    BY <1>2, Broken
  <2>2. LeftOf(Sent, m, Sent')
    BY <2>1
  <2>3. QED
    BY <2>2 DEF LeftOf
<1>4. /\ Answered = <<>> => Answered' = <<>>
      /\ \A f : Answered = << f >> => Answered' \in {<<>>, << f >>}
  <2>1. LeftOf(Answered, n, SubSeq(Answered, 1, n))
    BY <1>2, Broken
  <2>2. LeftOf(Answered, n, Answered')
    BY <2>1
  <2>3. QED
    BY <2>2 DEF LeftOf
<1>5. rcv.hashed \in Content /\ snd[Job].hashed \in Content /\ Last(Job) \in Nat
  <2>1. rcv.hashed \in Content /\ snd[Job].hashed \in Content
    BY <1>1 DEF Typed, Process, JobState
  <2>2. Len(snd[Job].hashed) \in Nat
    BY <2>1, LenProperties DEF Content
  <2>3. QED
    BY <2>1, <2>2 DEF Last
<1>6. At("offer") => InOffer'
  <2>1. Len(Sent) <= 1 => Len(Sent') <= 1
    <3>1. m <= Len(Sent) /\ Len(Sent) \in Nat /\ m \in Nat
      BY <1>2, LenProperties
    <3> DEFINE l == Len(Sent)
               k == Len(Sent')
    <3>2. k = m /\ m <= l /\ l \in Nat /\ m \in Nat
      BY <1>3, <3>1
    <3> HIDE DEF k, l
    <3>3. l <= 1 => k <= 1
      BY ONLY <3>2
    <3>4. QED
      BY ONLY <3>3 DEF k, l
  <2>2. SUFFICES ASSUME At("offer") PROVE InOffer'
    OBVIOUS
  <2>3. CASE /\ snd[Job].pc = "hello" /\ Sent = <<>>
             /\ Answered \in {<<>>, << Bare("HELLO_ACK") >>}
    BY <1>1, <1>3, <1>4, <2>3 DEF InOffer
  <2>4. CASE snd[Job].pc = "offered" /\ Len(Sent) <= 1 /\ Answered = <<>>
    BY <1>1, <1>4, <2>1, <2>4 DEF InOffer
  <2>5. QED
    BY <1>1, <2>2, <2>3, <2>4 DEF EndsInv, InOffer
<1>7. At("resume") => InResume'
  <2>1. SUFFICES ASSUME At("resume") PROVE InResume'
    OBVIOUS
  <2>2. CASE /\ snd[Job].pc = "offered" /\ Sent = <<>>
             /\ Answered \in {<<>>, << Carrying("RESUME", rcv.hashed) >>}
    BY <1>1, <1>3, <1>4, <2>2 DEF InResume
  <2>3. CASE /\ snd[Job].pc = "restart" /\ Answered = <<>>
             /\ Sent \in {<<>>, << Bare("RESTART") >>}
    BY <1>1, <1>3, <1>4, <2>3 DEF InResume
  <2>4. CASE /\ snd[Job].pc \in {"data", "complete"} /\ Answered = <<>>
             /\ Sent' = <<>>
    BY <1>1, <1>4, <2>4 DEF InResume
  <2>5. CASE /\ snd[Job].pc \in {"data", "complete"} /\ Answered = <<>>
             /\ Sent' # <<>> /\ Sent # <<>>
             /\ Head(Sent) = Bare("ACCEPT") /\ Flows(Tail(Sent))
    <3>1. Tail(Sent) \in Seq(Message)
      BY <1>2, <2>5, TakeFirst
    <3>2. Follows(rcv.hashed, snd[Job].hashed, Last(Job), TRUE, SubSeq(Tail(Sent), 1, m - 1))
      BY <1>3, <1>5, <2>5, <3>1, FollowsBreaks DEF Flows
    <3>3. Flows(Tail(Sent))'
      BY <1>1, <1>3, <2>5, <3>2 DEF Flows
    <3>4. QED
      BY <1>1, <1>3, <1>4, <2>5, <3>3 DEF InResume
  <2>6. QED
    BY <1>1, <1>3, <2>1, <2>2, <2>3, <2>4, <2>5 DEF EndsInv, InResume
<1>8. rcv.pc \in {"adopt", "data"} => InData'
  <2>1. SUFFICES ASSUME rcv.pc \in {"adopt", "data"} PROVE InData'
    OBVIOUS
  <2>2. CASE /\ At("data") /\ rcv.hashed = <<>>
             /\ snd[Job].pc \in {"offered", "restart"} /\ Sent = <<>>
             /\ Answered \in {<<>>, << Bare("ACCEPT") >>}
    BY <1>1, <1>3, <1>4, <2>2 DEF InData, At
  <2>3. CASE snd[Job].pc \in {"data", "complete"} /\ Answered = <<>> /\ Flows(Sent)
    <3>1. Follows(rcv.hashed, snd[Job].hashed, Last(Job), TRUE, SubSeq(Sent, 1, m))
      BY <1>2, <1>5, <2>3, FollowsBreaks DEF Flows
    <3>2. Flows(Sent)'
      BY <1>1, <3>1 DEF Flows
    <3>3. QED
      BY <1>1, <1>4, <2>3, <3>2 DEF InData
  <2>4. QED
    BY <1>1, <2>1, <2>2, <2>3 DEF EndsInv, InData
<1>9. QED
  BY <1>1, <1>3, <1>4, <1>6, <1>7, <1>8 DEF EndsInv, At, Discarding

LEMMA CutKeeps ==
    ASSUME Typed, Typed', SessionInv, UNCHANGED <<senderVars, receiverVars>>,
           NEW c \in Conns, Cut(c)
    PROVE  SessionInv'
<1>1. /\ snd' = snd /\ rcv' = rcv /\ receipt' = receipt /\ meta' = meta /\ Job' = Job
      /\ Serving' = Serving
      /\ \A i : Conn(i)' = Conn(i) /\ Live(i)' = Live(i)
  BY DEF senderVars, receiverVars, Job, Serving, Conn, Live
<1>2. PICK m \in 0 .. Len(net[c].up), n \in 0 .. Len(net[c].down) :
         net' = [net EXCEPT ![c].cut = TRUE, ![c].up = SubSeq(@, 1, m),
                            ![c].down = SubSeq(@, 1, n)]
  BY DEF Cut
<1>3. /\ \A d \in Conns \ {c} : net'[d] = net[d]
      /\ net'[c].rcvEnd = net[c].rcvEnd /\ net'[c].cut = TRUE
      /\ net'[c].up = SubSeq(net[c].up, 1, m) /\ net'[c].down = SubSeq(net[c].down, 1, n)
  BY <1>2 DEF Typed, Connection
<1>4. net[c].up \in Seq(Message) /\ net[c].down \in Seq(Message)
  BY Names
<1>5. /\ net[c].up = <<>> => net'[c].up = <<>>
      /\ \A f : net[c].up = << f >> => net'[c].up \in {<<>>, << f >>}
  <2>1. LeftOf(net[c].up, m, SubSeq(net[c].up, 1, m))
    BY ONLY <1>2, <1>4, Broken
  <2>2. LeftOf(net[c].up, m, net'[c].up)
    BY ONLY <1>3, <2>1
  <2>3. QED
    BY ONLY <2>2 DEF LeftOf
<1>6. /\ net[c].down = <<>> => net'[c].down = <<>>
      /\ Len(net'[c].down) = n /\ \A k \in 1 .. n : net'[c].down[k] = net[c].down[k]
  <2>1. LeftOf(net[c].down, n, SubSeq(net[c].down, 1, n))
    BY ONLY <1>2, <1>4, Broken
  <2>2. LeftOf(net[c].down, n, net'[c].down)
    BY ONLY <1>3, <2>1
  <2>3. QED
    BY ONLY <2>2 DEF LeftOf
<1>7. ConnInv'
  <2>1. ASSUME NEW d \in Conns
        PROVE  /\ net'[d].rcvEnd = "accepted" <=> Serving /\ d = rcv.conn
               /\ net'[d].rcvEnd = "backlog" =>
                     net'[d].down = <<>> /\ net'[d].up \in {<<>>, << Bare("HELLO") >>}
               /\ snd[d[1]].attempt < d[2] => net'[d].rcvEnd = "none"
    <3>1. /\ net[d].rcvEnd = "accepted" <=> Serving /\ d = rcv.conn
          /\ net[d].rcvEnd = "backlog" =>
                net[d].down = <<>> /\ net[d].up \in {<<>>, << Bare("HELLO") >>}
          /\ snd[d[1]].attempt < d[2] => net[d].rcvEnd = "none"
      BY DEF SessionInv, ConnInv
    <3>2. net'[d].rcvEnd = net[d].rcvEnd
      BY <1>3
    <3>3. \/ net'[d].down = <<>> /\ net'[d].up \in {<<>>, << Bare("HELLO") >>}
          \/ net[d].rcvEnd # "backlog"
      <4>1. CASE d = c
        BY <1>5, <1>6, <3>1, <4>1
      <4>2. CASE d # c
        BY <1>3, <3>1, <4>2
      <4>3. QED
        BY <4>1, <4>2
    <3>4. QED
      BY <3>1, <3>2, <3>3
  <2>2. QED
    BY <1>1, <2>1 DEF ConnInv
<1>8. \A d \in Conns : net'[d].rcvEnd = net[d].rcvEnd
  BY <1>3
<1>9. JobInv'
  <2>1. \A i \in Jobs : net'[Conn(i)].rcvEnd = net[Conn(i)].rcvEnd
    BY <1>8, Names
  <2>2. QED
    BY <1>1, <2>1 DEF SessionInv, JobInv
<1>10. Sent' # <<>> /\ Serving => Sent # <<>>
  <2>1. CASE Serving /\ rcv.conn = c
    BY <1>1, <1>5, <2>1 DEF Sent
  <2>2. CASE Serving /\ rcv.conn # c
    BY <1>1, <1>3, <2>2 DEF Sent, Typed
  <2>3. QED
    BY <2>1, <2>2
<1>11. LatestInv'
  <2>1. SUFFICES ASSUME rcv.pc \notin {"down", "accept", "hello", "close"},
                        At("offer") => Sent' # <<>>,
                        NEW d \in Conns, d[1] = Job, d[2] > rcv.conn[2]
                 PROVE  net'[d].rcvEnd \in {"none", "backlog"}
    BY <1>1 DEF LatestInv, At
  <2>2. At("offer") => Sent # <<>>
    BY <1>10, <2>1 DEF Serving, At
  <2>3. QED
    BY <1>8, <2>1, <2>2 DEF SessionInv, LatestInv
<1>12. WorkInv' /\ MetadataNamesWriter'
  BY <1>1 DEF SessionInv, WorkInv, MetadataNamesWriter, At
<1>13. AskedInv'
  <2>1. ASSUME NEW i \in Jobs, Live(i), NEW k \in 1 .. Len(net'[Conn(i)].down),
               net'[Conn(i)].down[k].type \in {"ACCEPT", "RESUME"}
        PROVE  receipt[i] = None
    <3>1. /\ \A l \in 1 .. Len(net[Conn(i)].down) :
                net[Conn(i)].down[l].type \in {"ACCEPT", "RESUME"} => receipt[i] = None
          /\ Conn(i) \in Conns
      BY <2>1, Names DEF SessionInv, AskedInv
    <3>2. CASE Conn(i) # c
      BY <1>3, <2>1, <3>1, <3>2
    <3>3. CASE Conn(i) = c
      <4>1. k \in 1 .. n /\ net[c].down[k].type \in {"ACCEPT", "RESUME"}
        BY <1>6, <2>1, <3>3
      <4>2. k \in 1 .. Len(net[c].down)
        BY <1>2, <1>4, <4>1, LenProperties
      <4>3. QED
        BY <3>1, <3>3, <4>1, <4>2
    <3>4. QED
      BY <3>2, <3>3
  <2>2. QED
    BY <1>1, <2>1 DEF AskedInv
<1>14. HelloInv'
  <2>1. SUFFICES ASSUME At("hello") PROVE Sent' \in {<<>>, << Bare("HELLO") >>}
    BY <1>1 DEF HelloInv, At
  <2>2. Sent \in {<<>>, << Bare("HELLO") >>} /\ rcv.conn \in Conns
    BY <2>1 DEF SessionInv, HelloInv, Serving, At, Typed
  <2>3. CASE rcv.conn = c
    BY <1>1, <1>5, <2>2, <2>3 DEF Sent
  <2>4. CASE rcv.conn # c
    BY <1>1, <1>3, <2>2, <2>4 DEF Sent
  <2>5. QED
    BY <2>3, <2>4
<1>15. EndsInv'
  <2>1. CASE ~ Attached
    BY <1>1, <2>1 DEF EndsInv, Attached
  <2>2. CASE Attached /\ rcv.conn = c
    <3>1. Sent = net[c].up /\ Answered = net[c].down
          /\ Sent' = net'[c].up /\ Answered' = net'[c].down
      BY <1>1, <2>2 DEF Sent, Answered
    <3>2. m \in 0 .. Len(Sent) /\ Sent' = SubSeq(Sent, 1, m)
          /\ n \in 0 .. Len(Answered) /\ Answered' = SubSeq(Answered, 1, n)
      BY <1>2, <1>3, <3>1
    <3>3. net'[rcv.conn].cut = TRUE
      BY <1>3, <2>2
    <3>4. QED
      BY <2>2, <3>2, <3>3, CutEnds
  <2>3. CASE Attached /\ rcv.conn # c
    <3>1. rcv.conn \in Conns /\ net'[rcv.conn] = net[rcv.conn]
      BY <1>3, <2>3 DEF Attached, Typed
    <3>2. /\ Sent' = Sent /\ Answered' = Answered /\ Last(Job)' = Last(Job)
      BY <1>1, <3>1 DEF Sent, Answered, Last
    <3>3. InOffer' = InOffer /\ InResume' = InResume /\ InData' = InData
      BY <1>1, <3>1, <3>2 DEF InOffer, InResume, InData, Flows, At
    <3>4. QED
      BY <1>1, <2>3, <3>2, <3>3 DEF SessionInv, EndsInv, At, Discarding
  <2>4. QED
    BY <2>1, <2>2, <2>3
<1>16. NoRetransmission'
  BY <1>1 DEF SessionInv, NoRetransmission
<1>17. QED
  BY <1>7, <1>9, <1>11, <1>12, <1>13, <1>14, <1>15, <1>16 DEF SessionInv

-----------------------------------------------------------------------------
(* Every step keeps the session. *)
LEMMA ReceiverKeepsSession ==
    ASSUME Typed, Typed', SessionInv, UNCHANGED senderVars,
           ReceiverRuns \/ ReceiverDisturbed \/ Restart
    PROVE  SessionInv'
<1>1. CASE NothingToReconcile
  BY <1>1, AsideKeeps, DiskKeeps
<1>2. CASE DiscardPart \/ DiscardMetadata
  BY <1>2, AsideKeeps, DiskKeeps
<1>3. CASE \/ ReconcileFinal \/ ReconcilePart \/ ReconcileFails
           \/ AcceptFails \/ Promote \/ CleanUp \/ StorageFails \/ WriteFails
           \/ \E preserve \in BOOLEAN : LoseSender(preserve)
  BY <1>3, AsideKeeps
<1>4. CASE PrepareWithoutPart \/ PrepareUnusablePart \/ Adopt \/ CreatePart
  BY <1>4, DiskKeeps
<1>5. CASE \E c \in Conns : Accept(c)
  BY <1>5, AcceptKeeps
<1>6. CASE AnswerHello \/ ReadOffer
  BY <1>6, AnswerKeeps, OfferReadKeeps
<1>7. CASE RequestResume \/ PersistMetadata
  BY <1>7, ReplyKeeps
<1>8. CASE \/ ResumeAccepted \/ ResumeRefused
           \/ ReadData \/ ReadTooMuchData \/ ReadComplete \/ ReadCancel
  BY <1>8, TakingKeeps
<1>9. CASE PublishReceipt \/ Crash \/ Restart
  BY <1>9, PublishKeeps, CrashKeeps, RestartKeeps
<1>10. CASE SendVerified \/ SendReject \/ Close
  BY <1>10, FinishKeeps
<1>11. QED
  BY <1>1, <1>2, <1>3, <1>4, <1>5, <1>6, <1>7, <1>8, <1>9, <1>10
     DEF ReceiverRuns, ReceiverDisturbed

LEMMA InitSession == Init => SessionInv
<1>1. SUFFICES ASSUME Init PROVE SessionInv
  OBVIOUS
<1>2. /\ \A c \in Conns : net[c].rcvEnd = "none"
      /\ \A j \in Jobs : snd[j].pc = "idle" /\ snd[j].attempt = 1 /\ receipt[j] = None
      /\ rcv.pc = "accept"
  <2>1. \A c \in Conns : net[c] = Unopened
    BY <1>1 DEF Init, WireInit
  <2>2. \A j \in Jobs : snd[j].pc = "idle" /\ snd[j].attempt = 1
    BY <1>1 DEF Init, SenderInit
  <2>3. (\A j \in Jobs : receipt[j] = None) /\ rcv.pc = "accept"
    BY <1>1 DEF Init, ReceiverInit
  <2>4. QED
    BY <2>1, <2>2, <2>3 DEF Unopened
<1>3. \A j \in Jobs : Conn(j) \in Conns /\ ~ Live(j)
  <2>1. Typed
    BY <1>1, InitInv, InvTypes
  <2>2. QED
    BY <1>2, <2>1, Names DEF Live, Reading
<1>4. QED
  BY <1>2, <1>3 DEF SessionInv, ConnInv, JobInv, LatestInv, WorkInv, AskedInv, HelloInv,
     EndsInv, Attached, Serving, At, NoRetransmission, MetadataNamesWriter

LEMMA NextSession ==
    ASSUME Inv, Inv', SessionInv, [Next]_vars
    PROVE  SessionInv'
<1>1. Typed /\ Typed'
  BY InvTypes
<1>2. CASE Runs
  BY <1>1, <1>2, SenderKeepsSession, ReceiverKeepsSession DEF Runs
<1>3. CASE Disturbed
  BY <1>1, <1>3, SenderKeepsSession, ReceiverKeepsSession, CutKeeps DEF Disturbed
<1>4. CASE Quiet \/ UNCHANGED vars
  <2>1. UNCHANGED <<net, snd, rcv, meta, receipt>>
    BY <1>4 DEF Quiet, vars, wireVars, senderVars, receiverVars
  <2>2. QED
    BY <2>1, EditKeeps
<1>5. QED
  BY <1>2, <1>3, <1>4 DEF Next

(* What the two ends owe each other holds throughout, whatever is cut,     *)
(* crashes, fails or is edited.                                            *)
THEOREM SessionHolds == Spec => []SessionInv
<1>1. Init => SessionInv
  BY InitSession
<1>2. Inv /\ Inv' /\ SessionInv /\ [Next]_vars => SessionInv'
  BY NextSession
<1>3. QED
  BY <1>1, <1>2, InvHolds, PTL DEF Spec

-----------------------------------------------------------------------------
(* What follows *)

(* A job whose receipt is published neither sends DATA nor is asked to: a  *)
(* retry after the commit is answered from the receipt.                    *)
THEOREM NothingIsRetransmitted == Spec => []NoRetransmission
<1>1. SessionInv => NoRetransmission
  BY DEF SessionInv
<1>2. QED
  BY <1>1, SessionHolds, PTL

(* While DATA is appended the metadata on disk names the job that sends    *)
(* it, even when another job's .part was adopted or discarded before.      *)
THEOREM MetadataIsTheWriters == Spec => []MetadataNamesWriter
<1>1. SessionInv => MetadataNamesWriter
  BY DEF SessionInv
<1>2. QED
  BY <1>1, SessionHolds, PTL

(* The frames that flow are DATA but for the COMPLETE at their end. *)
Agrees(held, sent, up) ==
    /\ Len(sent) = Len(held) + DataInFlight(up)
    /\ held = SubSeq(sent, 1, Len(held))
    /\ \A i \in 1 .. DataInFlight(up) : up[i] = Carrying("DATA", << sent[Len(held) + i] >>)

LEMMA FlowAgrees ==
    ASSUME NEW held \in Content, NEW sent \in Content, NEW up \in Seq(Message),
           NEW last \in {Len(sent), Len(sent) + 1},
           Follows(held, sent, last, FALSE, up)
    PROVE  Agrees(held, sent, up)
<1> DEFINE h == Len(held)
           s == Len(sent)
           u == Len(up)
<1>1. /\ h \in Nat /\ s \in Nat /\ u \in Nat
      /\ h <= s /\ h + u = last
      /\ \A k \in 1 .. h : held[k] = sent[k]
      /\ \A n \in 1 .. u : up[n] = FrameAfter(sent, h + n)
  BY LenProperties DEF Follows, FlowsFrom, Content
<1>2. up = <<>> <=> u = 0
  BY EmptySeq
<1>3. held = SubSeq(sent, 1, h)
  <2>1. h \in 0 .. s
    BY <1>1
  <2>2. \A k \in 1 .. s : sent[k] \in Blocks
    BY ElementOfSeq DEF Content
  <2>3. PICK t : t = SubSeq(sent, 1, h)
    OBVIOUS
  <2>4. t \in Seq(Blocks) /\ Len(t) = h /\ \A k \in 1 .. h : t[k] = sent[k]
    BY <1>1, <2>1, <2>2, <2>3, SubSeqProperties
  <2>5. held = t
    BY <1>1, <2>4, SeqEqual DEF Content
  <2>6. QED
    BY <2>3, <2>5
<1>4. CASE last = s
  <2>1. \A n \in 1 .. u : h + n <= s
    <3> HIDE DEF h, s, u
    <3> QED
      BY <1>1, <1>4
  <2>2. \A n \in 1 .. u : up[n] = Carrying("DATA", << sent[h + n] >>)
    BY <1>1, <2>1 DEF FrameAfter
  <2>3. up # <<>> => up[u].type # "COMPLETE"
    <3>1. SUFFICES ASSUME up # <<>> PROVE up[u].type # "COMPLETE"
      OBVIOUS
    <3>2. u \in 1 .. u
      <4> HIDE DEF h, s, u
      <4> QED
        BY <1>1, <1>2, <3>1
    <3>3. up[u] = Carrying("DATA", << sent[h + u] >>)
      BY <2>2, <3>2
    <3>4. QED
      BY <3>3 DEF Carrying
  <2>4. DataInFlight(up) = u
    BY <2>3 DEF DataInFlight
  <2>5. QED
    BY <1>1, <1>3, <1>4, <2>2, <2>4 DEF Agrees
<1>5. CASE last = s + 1
  <2>1. u \in 1 .. u /\ h + u = s + 1 /\ \A n \in 1 .. u - 1 : n \in 1 .. u /\ h + n <= s
    <3> HIDE DEF h, s, u
    <3> QED
      BY <1>1, <1>5
  <2>2. up[u] = Carrying("COMPLETE", sent)
    <3>1. up[u] = FrameAfter(sent, s + 1)
      <4> HIDE DEF h, s, u
      <4> QED
        BY <1>1, <2>1
    <3>2. ~ (s + 1 <= s)
      <4> HIDE DEF h, s, u
      <4> QED
        BY <1>1
    <3>3. QED
      BY <3>1, <3>2 DEF FrameAfter
  <2>3. \A n \in 1 .. u - 1 : up[n] = Carrying("DATA", << sent[h + n] >>)
    BY <1>1, <2>1 DEF FrameAfter
  <2>4. up # <<>>
    BY <1>1, <1>2, <2>1
  <2>5. DataInFlight(up) = u - 1
    BY <2>2, <2>4 DEF DataInFlight, Carrying
  <2>6. s = h + (u - 1)
    <3> HIDE DEF h, s, u
    <3> QED
      BY <1>1, <2>1
  <2>7. QED
    BY <1>3, <2>3, <2>5, <2>6 DEF Agrees
<1>6. QED
  BY <1>4, <1>5

(* What the receiver holds and the DATA frames under way are together what *)
(* the sender has hashed, as long as the connection is not cut: after a    *)
(* resume, a restart, an adoption and edits of the source alike.           *)
THEOREM StreamsAlwaysAgree == Spec => []StreamAgreement
<1>1. Inv /\ SessionInv => StreamAgreement
  <2>1. SUFFICES ASSUME Inv, SessionInv, NEW j \in Jobs,
                        At("data"), rcv.conn = Conn(j),
                        snd[j].pc \in {"data", "complete"}, ~ net[Conn(j)].cut
                 PROVE  StreamsAgree(j)
    BY DEF StreamAgreement
  <2>2. Typed
    BY <2>1, InvTypes
  <2>3. Conn(j) \in Conns /\ Conn(j)[1] = j
    BY <2>2, Names
  <2>4. Job = j /\ Live(j) /\ Attached
    BY <2>1, <2>3 DEF Job, Live, Reading, Attached, Serving, At
  <2>5. part = rcv.hashed
    BY <2>1, InvParts DEF ReceiverInv, PartInv, At
  <2>6. Flows(Sent)
    BY <2>1, <2>4 DEF SessionInv, EndsInv, InData, At
  <2>7. Sent = net[Conn(j)].up /\ Sent \in Seq(Message)
    BY <2>1, <2>2, <2>3, Names DEF Sent
  <2>8. Follows(rcv.hashed, snd[j].hashed, Last(j), FALSE, Sent)
    <3>1. net[rcv.conn].cut = FALSE
      BY <2>1, <2>2, <2>3 DEF Typed, Connection
    <3>2. QED
      BY <2>4, <2>6, <3>1 DEF Flows
  <2>9. rcv.hashed \in Content /\ snd[j].hashed \in Content
    BY <2>2 DEF Typed, Process, JobState
  <2>10. Last(j) \in {Len(snd[j].hashed), Len(snd[j].hashed) + 1}
    BY DEF Last
  <2>11. Agrees(rcv.hashed, snd[j].hashed, Sent)
    BY ONLY <2>7, <2>8, <2>9, <2>10, FlowAgrees
  <2>12. QED
    BY ONLY <2>5, <2>7, <2>11 DEF Agrees, StreamsAgree
<1>2. QED
  BY <1>1, InvHolds, SessionHolds, PTL

-----------------------------------------------------------------------------
(* One job *)

LEMMA PartStays ==
    ASSUME Inv, SessionInv, CompletePartKept, NEW J, Jobs = {J},
           ReceiverRuns \/ ReceiverDisturbed \/ Restart
    PROVE  CompletePartKept'
<1>1. \/ UNCHANGED <<part, final, receipt>>
      \/ CreatePart \/ ReadData \/ PublishReceipt \/ Promote \/ DiscardPart \/ Crash
  <2>1. CASE Restart
    BY <2>1 DEF Restart, disk
  <2>2. CASE ReceiverDisturbed
    BY <2>2 DEF ReceiverDisturbed, StorageFails, WriteFails, disk
  <2>3. CASE ReceiverRuns
    BY <2>3 DEF ReceiverRuns, Accept, AnswerHello, ReadOffer, NothingToReconcile,
       ReconcileFinal, ReconcilePart, ReconcileFails, PrepareWithoutPart,
       PrepareUnusablePart, RequestResume, ResumeAccepted, Adopt, ResumeRefused,
       PersistMetadata, AcceptFails, ReadTooMuchData, ReadComplete, ReadCancel, CleanUp,
       SendVerified, SendReject, Close, DiscardMetadata, LoseSender, disk
  <2>4. QED
    BY <2>1, <2>2, <2>3
<1>2. Typed /\ ReceiverInv /\ (Serving => Job = J)
  BY InvTypes, InvParts, Names
<1>3. CASE UNCHANGED <<part, final, receipt>>
  BY <1>3 DEF CompletePartKept
<1>4. CASE receipt[J] = None /\ receipt' = receipt
  BY <1>4 DEF CompletePartKept
<1>5. CASE CreatePart \/ ReadData
  <2>1. receipt' = receipt /\ rcv.pc \in {"fresh", "data"}
    BY <1>5 DEF CreatePart, ReadData, At, Gets
  <2>2. QED
    BY <1>2, <1>4, <2>1 DEF SessionInv, WorkInv, Serving
<1>6. CASE PublishReceipt
  <2>1. part = rcv.hashed /\ part' = part /\ final' = final /\ Job = J
    BY <1>2, <1>6 DEF PublishReceipt, At, ReceiverInv, PartInv, Serving
  <2>2. receipt'[J] \in {receipt[J], rcv.hashed} /\ (receipt'[J] = receipt[J] \/ receipt'[J] = part)
    BY <1>2, <1>6, <2>1 DEF PublishReceipt, Typed
  <2>3. QED
    BY <2>1, <2>2 DEF CompletePartKept
<1>7. CASE Promote
  <2>1. final' # None
    BY <1>2, <1>7 DEF Promote, At, ReceiverInv, CommitInv, Receipted
  <2>2. QED
    BY <2>1 DEF CompletePartKept
<1>8. CASE DiscardPart
  <2>1. At("discard") /\ receipt' = receipt /\ final' = final /\ Job = J
    BY <1>2, <1>8 DEF DiscardPart, At, Serving
  <2>2. CASE rcv.next = "verified"
    <3>1. final # None
      BY <1>2, <2>1, <2>2 DEF ReceiverInv, CommitInv, Receipted, Discarding, At
    <3>2. QED
      BY <2>1, <3>1 DEF CompletePartKept
  <2>3. CASE rcv.next # "verified"
    BY <1>4, <2>1, <2>3 DEF SessionInv, WorkInv, At
  <2>4. QED
    BY <2>2, <2>3
<1>9. CASE Crash
  <2>1. final' = final /\ receipt' = receipt
    BY <1>9 DEF Crash
  <2>2. CASE part' = part
    BY <1>3, <2>1, <2>2
  <2>3. CASE rcv.dirty
    <3>1. At("data")
      BY <1>2, <2>3 DEF ReceiverInv
    <3>2. QED
      BY <1>2, <1>4, <2>1, <3>1 DEF SessionInv, WorkInv, Serving, At
  <2>4. QED
    BY <1>9, <2>2, <2>3 DEF Crash
<1>10. QED
  BY <1>1, <1>3, <1>5, <1>6, <1>7, <1>8, <1>9

(* A job that has the destination to itself never loses its complete .part *)
(* between receipt and promotion.  With a second job the property fails,   *)
(* hence the hypothesis.                                                   *)
THEOREM CompletePartIsKept ==
    ASSUME NEW J, Jobs = {J}
    PROVE  Spec => []CompletePartKept
<1>1. Init => CompletePartKept
  BY DEF Init, ReceiverInit, CompletePartKept
<1>2. Inv /\ SessionInv /\ CompletePartKept /\ [Next]_vars => CompletePartKept'
  <2>1. SUFFICES ASSUME Inv, SessionInv, CompletePartKept, [Next]_vars
                 PROVE  CompletePartKept'
    OBVIOUS
  <2>2. CASE UNCHANGED receiverVars
    BY <2>1, <2>2 DEF receiverVars, CompletePartKept
  <2>3. CASE ReceiverRuns \/ ReceiverDisturbed \/ Restart
    BY <2>1, <2>3, PartStays
  <2>4. QED
    BY <2>1, <2>2, <2>3 DEF Next, Runs, Disturbed, Quiet, vars
<1>3. QED
  BY <1>1, <1>2, InvHolds, SessionHolds, PTL DEF Spec
=============================================================================
