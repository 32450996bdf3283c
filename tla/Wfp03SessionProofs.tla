------------------------- MODULE Wfp03SessionProofs -------------------------
(***************************************************************************)
(* What a WFP/0.3 session keeps true of the file it assembles, for any     *)
(* number of jobs, any contents and any chunk size: the chunks counted as  *)
(* received are in the .part, whatever was recorded before and whatever    *)
(* frames come, and with the DATA under way they make up what the sender   *)
(* has read.                                                               *)
(***************************************************************************)
EXTENDS Wfp03Proofs

(* No chunk is under way before the transfer, ... *)
Opening == {"hello", "offer", "reconcile", "prepare", "open", "resize", "negotiate", "inventory"}

(* ... and the .part has its full size from the negotiation on. *)
Filling == {"negotiate", "inventory", "data", "forget", "record", "verify"}

(* The chunk under way is in the .part as far as it was received. *)
ActiveHeld ==
    rcv.active # None =>
        /\ \A k \in 1 .. Len(rcv.got) : part[ChunkStart(rcv.active.index) + k] = rcv.got[k]
        /\ rcv.pc \in {"forget", "record"} =>
              /\ rcv.got = rcv.active.hash
              /\ NextOffset = ChunkEnd(rcv.active.index, rcv.size)

HeldInv ==
    /\ rcv.pc \in Opening => rcv.active = None
    /\ rcv.pc \in {"open", "resize"} =>
          \A r \in rcv.known : part # None /\ Holds(part, rcv.size, r)
    /\ rcv.pc \in Filling => Len(part) = rcv.size /\ ActiveHeld
    /\ KnownChunksHeld

-----------------------------------------------------------------------------
(* Chunks in a file *)

(* Files that agree on a chunk hold it alike. *)
LEMMA SameChunk ==
    ASSUME NEW file \in Content, NEW file2 \in Content, NEW size \in Nat, NEW r \in Record,
           Holds(file, size, r), Covers(file2, r.index, size),
           \A k \in ChunkStart(r.index) + 1 .. ChunkEnd(r.index, size) : file2[k] = file[k]
    PROVE  Holds(file2, size, r)
<1> DEFINE s == ChunkStart(r.index)
           e == ChunkEnd(r.index, size)
<1>1. r.index \in Nat /\ s \in Nat /\ e \in Nat /\ e <= Len(file) /\ e <= Len(file2)
      /\ file \in Seq(Blocks) /\ file2 \in Seq(Blocks)
      /\ Len(file) \in Nat /\ Len(file2) \in Nat
  BY ChunkBounds, LenProperties DEF Holds, Covers, Record, Content
<1> HIDE DEF s, e
<1>2. \A k \in s + 1 .. e : file[k] \in Blocks /\ file2[k] \in Blocks
  BY <1>1, ElementOfSeq
<1>3. s + 1 \in Int /\ e \in Int
  BY <1>1
<1>4. PICK a : a = SubSeq(file, s + 1, e)
  OBVIOUS
<1>5. PICK b : b = SubSeq(file2, s + 1, e)
  OBVIOUS
<1>6. /\ a \in Seq(Blocks) /\ Len(a) = (IF s + 1 <= e THEN e - (s + 1) + 1 ELSE 0)
      /\ \A k \in 1 .. e - (s + 1) + 1 : a[k] = file[s + 1 + k - 1]
  BY <1>2, <1>3, <1>4, SubSeqProperties
<1>7. /\ b \in Seq(Blocks) /\ Len(b) = (IF s + 1 <= e THEN e - (s + 1) + 1 ELSE 0)
      /\ \A k \in 1 .. e - (s + 1) + 1 : b[k] = file2[s + 1 + k - 1]
  BY <1>2, <1>3, <1>5, SubSeqProperties
<1>8. Len(a) = Len(b) /\ \A k \in 1 .. Len(a) : k \in 1 .. e - (s + 1) + 1
                                               /\ s + 1 + k - 1 \in s + 1 .. e
  BY <1>1, <1>6, <1>7
<1>9. \A k \in 1 .. Len(a) : a[k] = b[k]
  <2>1. \A k \in s + 1 .. e : file2[k] = file[k]
    BY DEF s, e
  <2>2. QED
    BY <1>6, <1>7, <1>8, <2>1
<1>10. a = b
  BY <1>6, <1>7, <1>8, <1>9, SeqEqual
<1>11. QED
  BY <1>4, <1>5, <1>10 DEF Holds, ChunkOf, s, e

(* A file has the chunk whose bytes it has. *)
LEMMA WholeChunk ==
    ASSUME NEW file \in Content, NEW size \in Nat, NEW r \in Record, NEW got \in Content,
           got = r.hash, ChunkStart(r.index) + Len(got) = ChunkEnd(r.index, size),
           Covers(file, r.index, size),
           \A k \in 1 .. Len(got) : file[ChunkStart(r.index) + k] = got[k]
    PROVE  Holds(file, size, r)
<1> DEFINE s == ChunkStart(r.index)
           e == ChunkEnd(r.index, size)
<1>1. r.index \in Nat /\ s \in Nat /\ e \in Nat /\ e <= Len(file)
      /\ file \in Seq(Blocks) /\ got \in Seq(Blocks)
      /\ Len(file) \in Nat /\ Len(got) \in Nat /\ s + Len(got) = e
      /\ \A k \in 1 .. Len(got) : file[s + k] = got[k]
  BY ChunkBounds, LenProperties DEF Covers, Record, Content
<1> HIDE DEF s, e
<1>2. \A k \in s + 1 .. e : file[k] \in Blocks
  BY <1>1, ElementOfSeq
<1>3. s + 1 \in Int /\ e \in Int
  BY <1>1
<1>4. PICK a : a = SubSeq(file, s + 1, e)
  OBVIOUS
<1>5. /\ a \in Seq(Blocks) /\ Len(a) = (IF s + 1 <= e THEN e - (s + 1) + 1 ELSE 0)
      /\ \A k \in 1 .. e - (s + 1) + 1 : a[k] = file[s + 1 + k - 1]
  BY <1>2, <1>3, <1>4, SubSeqProperties
<1>6. Len(a) = Len(got) /\ \A k \in 1 .. Len(got) : k \in 1 .. e - (s + 1) + 1
                                                  /\ s + 1 + k - 1 = s + k
  BY <1>1, <1>5
<1>7. \A k \in 1 .. Len(a) : a[k] = got[k]
  BY <1>1, <1>5, <1>6
<1>8. a = got
  BY <1>1, <1>5, <1>6, <1>7, SeqEqual
<1>9. QED
  BY <1>4, <1>8 DEF Holds, ChunkOf, s, e

(* Chunks do not overlap. *)
LEMMA ChunksApart ==
    ASSUME NEW i \in Nat, NEW j \in Nat, i # j, NEW size \in Nat, NEW o \in Nat,
           ChunkStart(i) <= o, o < ChunkEnd(i, size)
    PROVE  o + 1 \notin ChunkStart(j) + 1 .. ChunkEnd(j, size)
<1>1. /\ ChunkStart(i) \in Nat /\ ChunkStart(j) \in Nat
      /\ ChunkEnd(i, size) \in Nat /\ ChunkEnd(j, size) \in Nat
      /\ ChunkEnd(i, size) <= ChunkStart(i) + ChunkSize
      /\ ChunkEnd(j, size) <= ChunkStart(j) + ChunkSize
      /\ ChunkSize \in Nat
  BY ChunkBounds, ChunksAssumption
<1>2. i < j => ChunkStart(i) + ChunkSize <= ChunkStart(j)
  <2>1. SUFFICES ASSUME i < j PROVE ChunkStart(i) + ChunkSize <= ChunkStart(j)
    OBVIOUS
  <2>2. PICK d \in Nat : j = i + 1 + d
    <3>1. j - i - 1 \in Nat /\ j = i + 1 + (j - i - 1)
      BY <2>1
    <3>2. QED
      BY <3>1
  <2>3. j * ChunkSize = i * ChunkSize + ChunkSize + d * ChunkSize /\ d * ChunkSize \in Nat
    BY <1>1, <2>2
  <2>4. QED
    BY <1>1, <2>3 DEF ChunkStart
<1>3. j < i => ChunkStart(j) + ChunkSize <= ChunkStart(i)
  <2>1. SUFFICES ASSUME j < i PROVE ChunkStart(j) + ChunkSize <= ChunkStart(i)
    OBVIOUS
  <2>2. PICK d \in Nat : i = j + 1 + d
    <3>1. i - j - 1 \in Nat /\ i = j + 1 + (i - j - 1)
      BY <2>1
    <3>2. QED
      BY <3>1
  <2>3. i * ChunkSize = j * ChunkSize + ChunkSize + d * ChunkSize /\ d * ChunkSize \in Nat
    BY <1>1, <2>2
  <2>4. QED
    BY <1>1, <2>3 DEF ChunkStart
<1>4. i < j \/ j < i
  OBVIOUS
<1>5. QED
  BY <1>1, <1>2, <1>3, <1>4

-----------------------------------------------------------------------------
(* The session: who is at the two ends of the connection that is served.   *)

(* The job has a connection, and the receiver serves it. *)
Live(j) == snd[j].pc \in Reading \cup {"scan"}
Attached == Serving /\ Live(Job) /\ Conn(Job) = rcv.conn

Sent == net[rcv.conn].up
Answered == net[rcv.conn].down

(* One connection is served at a time.  One that is not accepted yet has   *)
(* at most a HELLO, and no attempt that is still to come has any.          *)
ConnInv ==
    \A c \in Conns :
        /\ net[c].rcvEnd = "accepted" <=> Serving /\ c = rcv.conn
        /\ net[c].rcvEnd = "backlog" =>
              net[c].down = <<>> /\ net[c].up \in {<<>>, << Bare("HELLO") >>}
        /\ snd[c[1]].attempt < c[2] => net[c].rcvEnd = "none"

JobInv ==
    \A j \in Jobs :
        /\ snd[j].pc \in {"idle", "connect"} => net[Conn(j)].rcvEnd = "none"
        /\ Live(j) => net[Conn(j)].rcvEnd # "none"
        /\ Live(j) /\ net[Conn(j)].rcvEnd = "backlog" => snd[j].pc = "hello"

(* How far a job is in its source. *)
ReadUpTo(next, size) == IF next < ChunkCount(size) THEN ChunkStart(next) ELSE size

ScanInv ==
    \A j \in Jobs :
        /\ snd[j].pc \in {"hello", "offered", "inventory"} =>
              snd[j].read = <<>> /\ snd[j].next = 0
        /\ snd[j].pc \in {"hello", "offered"} => snd[j].records = <<>>
        /\ snd[j].pc = "scan" => Len(snd[j].read) = ReadUpTo(snd[j].next, snd[j].size)
        /\ snd[j].pc = "complete" => Len(snd[j].read) = snd[j].size

(* Where the sender is until chunks come, ... *)
Early == {"reconcile", "prepare", "open", "resize", "negotiate"}
Chunking == {"inventory", "data", "forget", "record"}

HelloInv ==
    /\ Sent \in {<<>>, << Bare("HELLO") >>}
    /\ Attached => snd[Job].pc = "hello" /\ Answered = <<>>

IsOffer(up) == \E size \in Nat : up = << Offer(size) >>

OfferInv ==
    /\ Sent = <<>> \/ IsOffer(Sent)
    /\ Attached =>
          \/ /\ snd[Job].pc = "hello" /\ Sent = <<>>
             /\ Answered \in {<<>>, << Bare("HELLO_ACK") >>}
          \/ /\ snd[Job].pc = "offered" /\ Sent \in {<<>>, << Offer(snd[Job].size) >>}
             /\ Answered = <<>>

EarlyInv ==
    /\ Sent = <<>>
    /\ Attached => /\ snd[Job].pc = "offered" /\ Answered = <<>>
                   /\ snd[Job].size = rcv.size

(* ... and from then on.  Only what the receiver has is offered, and stays *)
(* while the scanner can still find it unchanged.                          *)
Among(records, known) == \A n \in 1 .. Len(records) : records[n] \in known
OfferedAmong(down, known) ==
    \A n \in 1 .. Len(down) : down[n].type = "CHUNK_HASHES" => Among(down[n].records, known)
Ahead(records, next, known) ==
    \A n \in 1 .. Len(records) : records[n].index >= next => records[n] \in known

ListInv ==
    Attached =>
        /\ snd[Job].size = rcv.size
        /\ \/ snd[Job].pc \in {"scan", "complete"}
           \/ /\ snd[Job].pc \in {"offered", "inventory"} /\ At("inventory") /\ Sent = <<>>
              /\ Among(snd[Job].records, rcv.known) /\ OfferedAmong(Answered, rcv.known)
        /\ snd[Job].pc = "scan" /\ snd[Job].next < ChunkCount(rcv.size) =>
              Ahead(snd[Job].records, snd[Job].next, rcv.known)

(* Every frame comes of what the sender has read, COMPLETE after all ...   *)
Begun(size, read, chunk) ==
    Covers(read, chunk.index, size) /\ chunk.hash = ChunkOf(read, chunk.index, size)

ComesOf(size, read, up) ==
    \A n \in 1 .. Len(up) :
        /\ up[n].type = "CHUNK_START" => Begun(size, read, up[n])
        /\ up[n].type = "DATA" =>
              up[n].offset < Len(read) /\ up[n].block = read[up[n].offset + 1]
        /\ up[n].type = "COMPLETE" =>
              n = Len(up) /\ up[n].body = read /\ Len(read) = size

(* ... and nothing of it is missing. *)
Brings(up, o) == \E n \in 1 .. Len(up) : up[n].type = "DATA" /\ up[n].offset = o
BytesIn(file, read, up) ==
    \A k \in 1 .. Len(read) : Brings(up, k - 1) \/ file[k] = read[k]

Announces(up) == \E n \in 1 .. Len(up) : up[n].type = "COMPLETE"

Stream(read) ==
    /\ Attached => read = snd[Job].read
    /\ Attached /\ snd[Job].pc # "complete" => ~ Announces(Sent)
    /\ ComesOf(rcv.size, read, Sent)
    /\ rcv.active # None => Begun(rcv.size, read, rcv.active)
    /\ Announces(Sent) \/ (Attached /\ ~ net[rcv.conn].cut) => BytesIn(part, read, Sent)

StreamInv == \E read \in Content : Stream(read)

PeerInv ==
    /\ At("hello") => HelloInv
    /\ At("offer") => OfferInv
    /\ rcv.pc \in Early => EarlyInv
    /\ rcv.pc \in Chunking => ListInv /\ StreamInv
    /\ At("verify") => part = rcv.claim

SessionInv == ConnInv /\ JobInv /\ ScanInv /\ PeerInv

-----------------------------------------------------------------------------
(* What the steps keep *)

(* A session that ends, or commits, owes nothing any more. *)
LEMMA LeavingHolds ==
    ASSUME rcv'.pc \notin Opening \cup Filling
    PROVE  HeldInv'
BY DEF HeldInv, Opening, Filling, KnownChunksHeld

(* Before the .part is opened nothing is counted on. *)
LEMMA BeforeHolds ==
    ASSUME rcv'.pc \in {"hello", "offer", "reconcile", "prepare"}, rcv'.active = None
    PROVE  HeldInv'
BY DEF HeldInv, Filling, KnownChunksHeld

LEMMA DecidingHolds ==
    ASSUME Inv, HeldInv,
           \/ \E c \in Conns : Accept(c)
           \/ AnswerHello \/ ReadOffer
           \/ ReceiptConflicts \/ FinalReconciled \/ PartReconciled \/ NotReconciled
           \/ VerifyFile \/ PublishReceipt \/ Link \/ Promoted \/ CleanUp
           \/ SendVerified \/ Close \/ LoseSender \/ StorageFails \/ Crash \/ Restart
    PROVE  HeldInv'
<1>0. ReceiverTypeOK
  BY DEF Inv, ReceiverInv
<1>1. CASE \E c \in Conns : Accept(c)
  BY <1>1, BeforeHolds DEF Accept, Idle
<1>2. CASE AnswerHello \/ ReadOffer \/ NotReconciled
  <2>1. rcv.pc \in Opening /\ rcv'.active = rcv.active
        /\ rcv'.pc \in {"offer", "reconcile", "prepare"}
    <3>1. CASE AnswerHello
      BY <1>0, <3>1 DEF AnswerHello, Gets, At, Step, Opening, ReceiverTypeOK
    <3>2. CASE ReadOffer
      BY <1>0, <3>2 DEF ReadOffer, Gets, At, Opening, ReceiverTypeOK
    <3>3. CASE NotReconciled
      BY <1>0, <3>3 DEF NotReconciled, At, Step, Opening, ReceiverTypeOK
    <3>4. QED
      BY <1>2, <3>1, <3>2, <3>3
  <2>2. QED
    BY <2>1, BeforeHolds DEF HeldInv
<1>3. CASE \/ ReceiptConflicts \/ FinalReconciled \/ PartReconciled
           \/ VerifyFile \/ PublishReceipt \/ Link \/ Promoted \/ CleanUp
           \/ SendVerified \/ Close \/ LoseSender \/ Crash \/ Restart
  <2>1. rcv'.pc \in {"close", "verified", "link", "publish", "promoted", "cleanup",
                     "accept", "down"}
    <3>1. CASE ReceiptConflicts \/ FinalReconciled \/ PartReconciled
      BY <1>0, <3>1 DEF ReceiptConflicts, FinalReconciled, PartReconciled, Step, ReceiverTypeOK
    <3>2. CASE VerifyFile \/ PublishReceipt \/ Link \/ Promoted \/ CleanUp
      BY <1>0, <3>2 DEF VerifyFile, PublishReceipt, Link, Promoted, CleanUp, Step,
                        ReceiverTypeOK
    <3>3. CASE SendVerified \/ Close
      BY <3>3 DEF SendVerified, Close, Finish, Idle
    <3>4. CASE LoseSender \/ Restart
      BY <1>0, <3>4 DEF LoseSender, Restart, Step, ReceiverTypeOK
    <3>5. CASE Crash
      BY <3>5 DEF Crash, Idle
    <3>6. QED
      BY <1>3, <3>1, <3>2, <3>3, <3>4, <3>5
  <2>2. QED
    BY <2>1, LeavingHolds DEF Opening, Filling
<1>4. CASE StorageFails
  <2>1. PICK pc \in AfterStorageError : rcv' = [rcv EXCEPT !.pc = pc, !.prior = None]
    BY <1>4 DEF StorageFails
  <2>2. rcv'.pc = pc /\ rcv'.active = rcv.active
    BY <1>0, <2>1 DEF ReceiverTypeOK
  <2>3. pc \in {"verified", "close"} \/ (pc = "prepare" /\ At("reconcile"))
    BY <2>1 DEF AfterStorageError
  <2>4. CASE pc \in {"verified", "close"}
    BY <2>2, <2>4, LeavingHolds DEF Opening, Filling
  <2>5. CASE pc = "prepare" /\ At("reconcile")
    <3>1. rcv'.pc = "prepare" /\ rcv'.active = None
      BY <2>2, <2>5 DEF HeldInv, At, Opening
    <3>2. QED
      BY <3>1, BeforeHolds
  <2>6. QED
    BY <2>3, <2>4, <2>5
<1>5. QED
  BY <1>1, <1>2, <1>3, <1>4

(* The .part is opened and gets its size; what was recorded is believed    *)
(* only as far as it is there.                                             *)
LEMMA OpeningHolds ==
    ASSUME Inv, Inv', HeldInv,
           LoadInventory \/ OpenPart \/ ResizePart \/ SendInventory \/ InventoryAccepted
    PROVE  HeldInv'
<1>1. /\ ReceiverTypeOK /\ ReceiverTypeOK'
      /\ rcv.size \in Nat /\ rcv.known \subseteq Record /\ part \in Content \cup {None}
      /\ part' \in Content \cup {None}
  BY DEF Inv, ReceiverInv, ReceiverTypeOK
<1>2. CASE LoadInventory
  <2>1. /\ rcv'.pc = "open" /\ rcv'.active = rcv.active /\ rcv'.size = rcv.size
        /\ \A r \in rcv'.known : part # None /\ Holds(part, rcv.size, r)
        /\ part' = part /\ rcv.pc = "prepare"
    BY <1>1, <1>2 DEF LoadInventory, StillHolds, At, ReceiverTypeOK, disk
  <2>2. QED
    BY <2>1 DEF HeldInv, Opening, Filling, KnownChunksHeld
<1>3. CASE OpenPart
  <2>1. /\ rcv.pc = "open" /\ rcv'.active = rcv.active /\ rcv'.size = rcv.size
        /\ rcv'.known = rcv.known
        /\ part' = (IF part = None THEN <<>> ELSE part)
        /\ \/ rcv'.pc = "negotiate" /\ part # None /\ Len(part) = rcv.size
           \/ rcv'.pc = "resize"
    BY <1>1, <1>3 DEF OpenPart, At, Step, ReceiverTypeOK
  <2>2. rcv'.active = None /\ \A r \in rcv'.known : part # None /\ Holds(part, rcv.size, r)
    BY <2>1 DEF HeldInv, Opening
  <2>3. \A r \in rcv'.known : part' # None /\ Holds(part', rcv'.size, r)
    BY <2>1, <2>2
  <2>4. QED
    BY <2>1, <2>2, <2>3 DEF HeldInv, Filling, KnownChunksHeld, ActiveHeld
<1>4. CASE ResizePart
  <2>1. /\ rcv.pc = "resize" /\ rcv'.active = rcv.active /\ rcv'.size = rcv.size
        /\ rcv'.known = rcv.known /\ rcv'.pc = "negotiate"
        /\ part' = [k \in 1 .. rcv.size |-> IF k <= Len(part) THEN part[k] ELSE Zero]
    BY <1>1, <1>4 DEF ResizePart, WritePart, At, Step, ReceiverTypeOK
  <2>2. part \in Content /\ part' \in Content
    BY <1>1, <2>1 DEF Inv, ReceiverInv, StepInv
  <2>3. Len(part) \in Nat /\ Len(part') = rcv.size
    BY <1>1, <2>1, <2>2, LenProperties DEF Content
  <2>4. ASSUME NEW r \in rcv.known PROVE Holds(part', rcv.size, r)
    <3>1. Holds(part, rcv.size, r) /\ r \in Record /\ r.index \in Nat
      BY <1>1, <2>1, <2>4 DEF HeldInv, Record
    <3>2. /\ ChunkStart(r.index) \in Nat /\ ChunkEnd(r.index, rcv.size) \in Nat
          /\ ChunkEnd(r.index, rcv.size) <= rcv.size
          /\ ChunkEnd(r.index, rcv.size) <= Len(part)
      BY <1>1, <3>1, ChunkBounds DEF Holds, Covers
    <3>3. Covers(part', r.index, rcv.size)
      BY <2>3, <3>2 DEF Covers
    <3>4. ASSUME NEW k \in ChunkStart(r.index) + 1 .. ChunkEnd(r.index, rcv.size)
          PROVE  part'[k] = part[k]
      <4>1. k \in 1 .. rcv.size /\ k <= Len(part)
        BY <1>1, <2>3, <3>2
      <4>2. QED
        BY <2>1, <4>1
    <3>5. QED
      BY <1>1, <2>2, <3>1, <3>3, <3>4, SameChunk
  <2>5. QED
    BY <2>1, <2>3, <2>4 DEF HeldInv, Opening, Filling, KnownChunksHeld, ActiveHeld
<1>5. CASE SendInventory \/ InventoryAccepted
  <2>1. /\ rcv.pc \in {"negotiate", "inventory"} /\ rcv'.pc \in {"inventory", "data"}
        /\ rcv'.active = rcv.active /\ rcv'.size = rcv.size /\ rcv'.known = rcv.known
        /\ part' = part
    BY <1>1, <1>5 DEF SendInventory, InventoryAccepted, Gets, At, Step, ReceiverTypeOK, disk
  <2>2. QED
    BY <2>1 DEF HeldInv, Opening, Filling, KnownChunksHeld, ActiveHeld
<1>6. QED
  BY <1>2, <1>3, <1>4, <1>5

(* A byte of the chunk under way lies in no other chunk. *)
LEMMA DataHolds ==
    ASSUME Inv, Inv', HeldInv, ReadData
    PROVE  HeldInv'
<1>1. /\ ReceiverTypeOK /\ ReceiverTypeOK' /\ rcv.pc = "data"
      /\ rcv.size \in Nat /\ rcv.known \subseteq Record /\ rcv.got \in Content
      /\ rcv.active \in Record /\ rcv.active # None /\ part \in Content
      /\ part' \in Content \cup {None}
  BY DEF Inv, ReceiverInv, ReceiverTypeOK, StepInv, ReadData, Gets, At, Continues
<1>2. Frame \in Frames03 /\ Frame.type = "DATA"
  <2>1. net[rcv.conn].up # <<>> /\ Frame.type = "DATA"
    BY DEF ReadData, Gets, NextUp, Frame
  <2>2. QED
    BY <1>1, <2>1, FrameIsTyped DEF Inv, Serving
<1>3. Frame.offset \in Nat /\ Frame.block \in Blocks
  BY <1>2, FrameFields
<1> DEFINE i == rcv.active.index
           s == ChunkStart(i)
           e == ChunkEnd(i, rcv.size)
           o == Frame.offset
           l == Len(rcv.got)
           got == Append(rcv.got, Frame.block)
<1>4. /\ o = s + l /\ o < e
      /\ o + 1 = e => got = rcv.active.hash
      /\ part' = [part EXCEPT ![o + 1] = Frame.block]
      /\ rcv'.pc = (IF o + 1 = e THEN "forget" ELSE "data")
      /\ rcv'.got = got /\ rcv'.active = rcv.active
      /\ rcv'.known = rcv.known /\ rcv'.size = rcv.size
  <2>1. o = NextOffset /\ (EndsChunk <=> o + 1 = e)
    BY DEF ReadData, Continues, EndsChunk
  <2>2. QED
    BY <1>1, <2>1 DEF ReadData, Continues, WritePart, NextOffset, ReceiverTypeOK
<1>5. /\ i \in Nat /\ s \in Nat /\ e \in Nat /\ e <= rcv.size /\ o \in Nat /\ l \in Nat
      /\ Len(part) = rcv.size /\ part \in Seq(Blocks) /\ rcv.got \in Seq(Blocks)
  BY <1>1, <1>3, ChunkBounds, LenProperties DEF HeldInv, Filling, Record, Content
<1>6. /\ Len(got) = l + 1 /\ got[l + 1] = Frame.block
      /\ \A k \in 1 .. l : got[k] = rcv.got[k]
  BY <1>3, <1>5, AppendProperties
<1> HIDE DEF got, o, s, e, l
<1>7. o + 1 \in 1 .. Len(part)
  BY <1>1, <1>4, <1>5
<1>8. /\ part' \in Seq(Blocks) /\ Len(part') = rcv.size /\ part'[o + 1] = Frame.block
      /\ \A k \in 1 .. Len(part) : k # o + 1 => part'[k] = part[k]
  BY <1>3, <1>4, <1>5, <1>7, ExceptSeq
<1>9. ASSUME NEW r \in rcv.known, r.index # i PROVE Holds(part', rcv.size, r)
  <2>1. Holds(part, rcv.size, r) /\ r \in Record /\ r.index \in Nat
    BY <1>1, <1>9 DEF HeldInv, KnownChunksHeld, Record, i
  <2>2. /\ ChunkStart(r.index) \in Nat /\ ChunkEnd(r.index, rcv.size) \in Nat
        /\ ChunkEnd(r.index, rcv.size) <= rcv.size
    BY <1>1, <2>1, ChunkBounds
  <2>3. Covers(part', r.index, rcv.size)
    BY <1>8, <2>2 DEF Covers
  <2>4. o + 1 \notin ChunkStart(r.index) + 1 .. ChunkEnd(r.index, rcv.size)
    <3>1. ChunkStart(i) <= o /\ o < ChunkEnd(i, rcv.size)
      BY <1>4, <1>5 DEF s, e
    <3>2. QED
      BY <1>1, <1>5, <1>9, <2>1, <3>1, ChunksApart
  <2>5. ASSUME NEW k \in ChunkStart(r.index) + 1 .. ChunkEnd(r.index, rcv.size)
        PROVE  part'[k] = part[k]
    <3>1. k \in 1 .. Len(part)
      BY <1>1, <1>5, <2>2
    <3>2. k # o + 1
      BY <2>4
    <3>3. QED
      BY <1>8, <3>1, <3>2
  <2>6. part' \in Content
    BY <1>8 DEF Content
  <2>7. QED
    BY <1>1, <2>1, <2>3, <2>5, <2>6, SameChunk
<1>10. \A k \in 1 .. Len(got) : part'[s + k] = got[k]
  <2>1. ASSUME NEW k \in 1 .. Len(got) PROVE part'[s + k] = got[k]
    <3>1. CASE k = l + 1
      <4>1. s + k = o + 1
        BY <1>4, <1>5, <3>1
      <4>2. QED
        BY <1>6, <1>8, <3>1, <4>1
    <3>2. CASE k # l + 1
      <4>1. k \in 1 .. l /\ s + k \in 1 .. Len(part) /\ s + k # o + 1
        BY <1>4, <1>5, <1>6, <3>2
      <4>2. part[s + k] = rcv.got[k]
        BY <1>1, <4>1 DEF HeldInv, Filling, ActiveHeld, s, l, i
      <4>3. QED
        BY <1>6, <1>8, <4>1, <4>2
    <3>3. QED
      BY <3>1, <3>2
  <2>2. QED
    BY <2>1
<1>11. ActiveHeld'
  <2>1. o + 1 = e => s + Len(got) = e
    BY <1>4, <1>5, <1>6
  <2>2. rcv'.pc = "forget" => got = rcv.active.hash /\ s + Len(got) = e
    BY <1>4, <2>1
  <2>3. rcv'.pc # "record"
    BY <1>4
  <2>4. QED
    BY <1>4, <1>10, <2>2, <2>3 DEF ActiveHeld, NextOffset, s, e, i
<1>12. KnownChunksHeld'
  BY <1>1, <1>4, <1>9 DEF KnownChunksHeld, i
<1>13. QED
  BY <1>4, <1>8, <1>11, <1>12 DEF HeldInv, Opening

(* A chunk counts as received once it is there as a whole. *)
LEMMA ChunkHolds ==
    ASSUME Inv, Inv', HeldInv,
           ReadChunkStart \/ ForgetChunks \/ RecordChunk \/ ReadComplete
    PROVE  HeldInv'
<1>1. /\ ReceiverTypeOK /\ ReceiverTypeOK'
      /\ rcv.size \in Nat /\ rcv.known \subseteq Record /\ rcv.got \in Content
  BY DEF Inv, ReceiverInv, ReceiverTypeOK
<1>2. CASE ReadChunkStart
  <2>1. /\ rcv.pc = "data" /\ rcv'.pc = "data" /\ rcv.active = None /\ rcv'.got = <<>>
        /\ rcv'.known = rcv.known /\ rcv'.size = rcv.size /\ part' = part
    BY <1>1, <1>2 DEF ReadChunkStart, Begins, Gets, At, ReceiverTypeOK, disk
  <2>2. Len(rcv'.got) = 0
    BY <2>1, EmptySeq
  <2>3. \A r \in rcv.known : Holds(part, rcv.size, r)
    BY <2>1 DEF HeldInv, KnownChunksHeld
  <2>4. ActiveHeld'
    BY <2>1, <2>2 DEF ActiveHeld
  <2>5. QED
    BY <2>1, <2>3, <2>4 DEF HeldInv, Opening, Filling, KnownChunksHeld
<1>3. CASE ForgetChunks
  <2>1. /\ rcv.pc = "forget" /\ rcv'.pc = "record" /\ rcv'.active = rcv.active
        /\ rcv'.got = rcv.got
        /\ rcv'.known = rcv.known /\ rcv'.size = rcv.size /\ part' = part
    BY <1>1, <1>3 DEF ForgetChunks, At, ReceiverTypeOK
  <2>2. ActiveHeld'
    BY <2>1 DEF HeldInv, Filling, ActiveHeld, NextOffset
  <2>3. QED
    BY <2>1, <2>2 DEF HeldInv, Opening, Filling, KnownChunksHeld
<1>4. CASE RecordChunk
  <2>1. /\ rcv.pc = "record" /\ rcv'.pc = "data" /\ rcv'.active = None
        /\ rcv'.known = Recorded(rcv.known, rcv.active) /\ rcv'.size = rcv.size
        /\ part' = part
    BY <1>1, <1>4 DEF RecordChunk, At, ReceiverTypeOK
  <2>2. rcv.active \in Record /\ part \in Content /\ Len(part) = rcv.size
    BY <1>1, <2>1 DEF Inv, ReceiverInv, StepInv, ReceiverTypeOK, HeldInv, Filling
  <2>3. Holds(part, rcv.size, rcv.active)
    <3>1. /\ rcv.got = rcv.active.hash
          /\ ChunkStart(rcv.active.index) + Len(rcv.got) = ChunkEnd(rcv.active.index, rcv.size)
          /\ \A k \in 1 .. Len(rcv.got) :
                part[ChunkStart(rcv.active.index) + k] = rcv.got[k]
      <4>1. ActiveHeld /\ rcv.active # None
        BY <2>1 DEF HeldInv, Filling, Inv, ReceiverInv, StepInv
      <4>2. QED
        BY <2>1, <4>1 DEF ActiveHeld, NextOffset
    <3>2. Covers(part, rcv.active.index, rcv.size)
      BY <1>1, <2>2, ChunkBounds DEF Covers, Record
    <3>3. QED
      BY <1>1, <2>2, <3>1, <3>2, WholeChunk
  <2>4. ASSUME NEW r \in rcv'.known PROVE Holds(part', rcv'.size, r)
    <3>1. CASE r = rcv.active
      BY <2>1, <2>3, <3>1
    <3>2. CASE r \in rcv.known /\ r.index # rcv.active.index
      BY <2>1, <3>2 DEF HeldInv, KnownChunksHeld
    <3>3. QED
      BY <2>1, <3>1, <3>2 DEF Recorded
  <2>5. QED
    BY <2>1, <2>2, <2>4 DEF HeldInv, Opening, Filling, KnownChunksHeld, ActiveHeld
<1>5. CASE ReadComplete
  <2>1. /\ rcv.pc = "data" /\ rcv'.pc = "verify" /\ rcv.active = None /\ rcv'.active = None
        /\ rcv'.known = rcv.known /\ rcv'.size = rcv.size /\ part' = part
    BY <1>1, <1>5 DEF ReadComplete, Completes, Gets, At, ReceiverTypeOK, disk
  <2>2. QED
    BY <2>1 DEF HeldInv, Opening, Filling, KnownChunksHeld, ActiveHeld
<1>6. QED
  BY <1>2, <1>3, <1>4, <1>5

LEMMA NextHolds ==
    ASSUME Inv, Inv', HeldInv, [Next]_vars
    PROVE  HeldInv'
<1>1. CASE ReceiverMoves
  BY <1>1, DecidingHolds, OpeningHolds, DataHolds, ChunkHolds
     DEF ReceiverMoves, ReceiverRuns, ReceiverDisturbed
<1>2. CASE UNCHANGED receiverVars
  BY <1>2 DEF receiverVars, HeldInv, KnownChunksHeld, ActiveHeld, NextOffset
<1>3. QED
  BY <1>1, <1>2 DEF Next, Runs, Disturbed, Quiet, ReceiverMoves, vars

LEMMA HeldHolds == Spec => []HeldInv
<1>1. Init => HeldInv
  BY DEF Init, ReceiverInit, Idle, HeldInv, Opening, Filling, KnownChunksHeld
<1>2. Inv /\ Inv' /\ HeldInv /\ [Next]_vars => HeldInv'
  BY NextHolds
<1>3. QED
  BY <1>1, <1>2, InvHolds, PTL DEF Spec

(* What the receiver counts as received, from an earlier session or this   *)
(* one, is in the .part with the digest it is recorded under, but for the  *)
(* chunk that is just being written: it may be offered and counted on.     *)
THEOREM WhatIsKnownIsHeld == Spec => []KnownChunksHeld
<1>1. HeldInv => KnownChunksHeld
  BY DEF HeldInv
<1>2. QED
  BY <1>1, HeldHolds, PTL

-----------------------------------------------------------------------------
(* What the variables are, as far as it matters to a session. *)
AnyLink == Ends(Frames03, Frames03)

Typed ==
    /\ net \in [Conns -> AnyLink]
    /\ snd \in [Jobs -> JobState]
    /\ src \in [Jobs -> Content]
    /\ ReceiverTypeOK
    /\ Serving => rcv.conn \in Conns

LEMMA InvTypes == /\ Inv => Typed
                  /\ Inv' => Typed'
<1>1. ASSUME NEW n, Conveys(n, AnnouncedAll, AllFrames) PROVE n \in [Conns -> AnyLink]
  <2>1. \A c \in Conns : AnnouncedAll[c] \subseteq Frames03 /\ AllFrames[c] = Frames03
    BY DEF AnnouncedAll, AllFrames
  <2>2. ASSUME NEW c \in Conns PROVE n[c] \in AnyLink
    <3>1. Seq(AnnouncedAll[c]) \subseteq Seq(Frames03)
      BY <2>1, SeqMonotonic
    <3>2. n[c] \in Ends(AnnouncedAll[c], AllFrames[c])
      BY <1>1 DEF Conveys
    <3>3. QED
      BY <2>1, <3>1, <3>2 DEF Ends, AnyLink
  <2>3. QED
    BY <1>1, <2>2 DEF Conveys
<1>2. ASSUME NEW n, Conveys(n, AnnouncedAll', AllFrames') PROVE n \in [Conns -> AnyLink]
  <2>1. \A c \in Conns : AnnouncedAll'[c] \subseteq Frames03 /\ AllFrames'[c] = Frames03
    BY DEF AnnouncedAll, AllFrames
  <2>2. ASSUME NEW c \in Conns PROVE n[c] \in AnyLink
    <3>1. Seq(AnnouncedAll'[c]) \subseteq Seq(Frames03)
      BY <2>1, SeqMonotonic
    <3>2. n[c] \in Ends(AnnouncedAll'[c], AllFrames'[c])
      BY <1>2 DEF Conveys
    <3>3. QED
      BY <2>1, <3>1, <3>2 DEF Ends, AnyLink
  <2>3. QED
    BY <1>2, <2>2 DEF Conveys
<1>3. Inv => Typed
  <2>1. ASSUME Inv PROVE net \in [Conns -> AnyLink]
    BY <1>1, <2>1 DEF Inv, NetInv
  <2>2. QED
    BY <2>1, SenderAssumption DEF Inv, SenderInv, SenderTypeOK, ReceiverInv, StepInv,
                                  JobState, Typed
<1>4. Inv' => Typed'
  <2>1. ASSUME Inv' PROVE net' \in [Conns -> AnyLink]
    BY <1>2, <2>1 DEF Inv, NetInv
  <2>2. QED
    BY <2>1, SenderAssumption DEF Inv, SenderInv, SenderTypeOK, ReceiverInv, StepInv,
                                  JobState, Typed
<1>5. QED
  BY <1>3, <1>4

(* A connection is its job's and its attempt's. *)
LEMMA Names ==
    ASSUME Typed
    PROVE  /\ \A j \in Jobs : Conn(j) \in Conns /\ Conn(j)[1] = j /\ Conn(j)[2] = snd[j].attempt
           /\ \A j \in Jobs : snd[j].attempt \in Nat
           /\ \A c \in Conns : c[1] \in Jobs /\ c[2] \in Nat
           /\ \A c \in Conns, j \in Jobs :
                 c[1] = j /\ c[2] = snd[j].attempt => c = Conn(j)
           /\ Serving => Job \in Jobs
           /\ \A c \in Conns : /\ net[c].up \in Seq(Frames03) /\ Len(net[c].up) \in Nat
                               /\ net[c].down \in Seq(Frames03) /\ Len(net[c].down) \in Nat
<1>1. \A j \in Jobs : snd[j].attempt \in 1 .. MaxSendAttempts /\ snd[j].attempt \in Nat
  BY DEF Typed, JobState
<1>2. \A c \in Conns : c[1] \in Jobs /\ c[2] \in Nat /\ c = <<c[1], c[2]>>
  BY DEF Conns
<1>3. \A c \in Conns : net[c].up \in Seq(Frames03) /\ net[c].down \in Seq(Frames03)
  BY DEF Typed, AnyLink, Ends
<1>4. \A c \in Conns : Len(net[c].up) \in Nat /\ Len(net[c].down) \in Nat
  BY <1>3, LenProperties
<1>5. QED
  BY <1>1, <1>2, <1>3, <1>4 DEF Typed, Conn, Conns, Job

-----------------------------------------------------------------------------
(* Short sequences, and what the operators of Wire do to a connection. *)
LEMMA One ==
    ASSUME NEW m
    PROVE  /\ Head(<< m >>) = m /\ Tail(<< m >>) = <<>> /\ Len(<< m >>) = 1
           /\ << m >> # <<>> /\ Append(<<>>, m) = << m >> /\ << m >>[1] = m
OBVIOUS

(* The others are not concerned, and what is left of the one that is. *)
Same(n, m, c) ==
    /\ \A d \in Conns \ {c} : m[d] = n[d]
    /\ m[c].rcvEnd = n[c].rcvEnd /\ m[c].cut = n[c].cut

LEMMA WriteFields ==
    ASSUME NEW n \in [Conns -> AnyLink], NEW c \in Conns, NEW f, NEW fs
    PROVE  /\ Same(n, Up(n, c, f), c) /\ Same(n, Down(n, c, f), c)
           /\ Same(n, UpAll(n, c, fs), c) /\ Same(n, DownAll(n, c, fs), c)
           /\ Up(n, c, f)[c].down = n[c].down /\ Down(n, c, f)[c].up = n[c].up
           /\ UpAll(n, c, fs)[c].down = n[c].down /\ DownAll(n, c, fs)[c].up = n[c].up
           /\ Up(n, c, f)[c].up = IF ReceiverGone(c) THEN n[c].up ELSE Append(n[c].up, f)
           /\ UpAll(n, c, fs)[c].up = IF ReceiverGone(c) THEN n[c].up ELSE n[c].up \o fs
           /\ Down(n, c, f)[c].down = IF SenderGone(c) THEN n[c].down ELSE Append(n[c].down, f)
           /\ DownAll(n, c, fs)[c].down = IF SenderGone(c) THEN n[c].down ELSE n[c].down \o fs
<1>1. Same(n, Up(n, c, f), c) /\ Up(n, c, f)[c].down = n[c].down
      /\ Up(n, c, f)[c].up = IF ReceiverGone(c) THEN n[c].up ELSE Append(n[c].up, f)
  BY DEF Up, Same, AnyLink, Ends
<1>2. Same(n, Down(n, c, f), c) /\ Down(n, c, f)[c].up = n[c].up
      /\ Down(n, c, f)[c].down = IF SenderGone(c) THEN n[c].down ELSE Append(n[c].down, f)
  BY DEF Down, Same, AnyLink, Ends
<1>3. Same(n, UpAll(n, c, fs), c) /\ UpAll(n, c, fs)[c].down = n[c].down
      /\ UpAll(n, c, fs)[c].up = IF ReceiverGone(c) THEN n[c].up ELSE n[c].up \o fs
  BY DEF UpAll, Same, AnyLink, Ends
<1>4. Same(n, DownAll(n, c, fs), c) /\ DownAll(n, c, fs)[c].up = n[c].up
      /\ DownAll(n, c, fs)[c].down = IF SenderGone(c) THEN n[c].down ELSE n[c].down \o fs
  BY DEF DownAll, Same, AnyLink, Ends
<1>5. QED
  BY <1>1, <1>2, <1>3, <1>4

LEMMA TakeFields ==
    ASSUME NEW n \in [Conns -> AnyLink], NEW c \in Conns
    PROVE  /\ Same(n, TakeUp(n, c), c) /\ Same(n, TakeDown(n, c), c)
           /\ TakeUp(n, c)[c].down = n[c].down /\ TakeDown(n, c)[c].up = n[c].up
           /\ TakeUp(n, c)[c].up = Tail(n[c].up)
           /\ TakeDown(n, c)[c].down = Tail(n[c].down)
           /\ n[c].up # <<>> => TakeUp(n, c) \in [Conns -> AnyLink]
           /\ n[c].down # <<>> => TakeDown(n, c) \in [Conns -> AnyLink]
<1>1. /\ n[c].up # <<>> => Tail(n[c].up) \in Seq(Frames03)
      /\ n[c].down # <<>> => Tail(n[c].down) \in Seq(Frames03)
  BY TakeFirst DEF AnyLink, Ends
<1>2. QED
  BY <1>1 DEF TakeUp, TakeDown, AnyLink, Ends, Same

LEMMA DropFields ==
    ASSUME NEW n \in [Conns -> AnyLink], NEW c \in Conns
    PROVE  /\ \A d \in Conns \ {c} : /\ DropSender(n, c)[d] = n[d]
                                     /\ DropReceiver(n, c)[d] = n[d]
           /\ DropSender(n, c)[c].rcvEnd = n[c].rcvEnd
           /\ DropSender(n, c)[c].up = n[c].up
           /\ DropSender(n, c)[c].cut = n[c].cut
           /\ DropSender(n, c)[c].down = <<>>
           /\ DropReceiver(n, c)[c].rcvEnd = "closed"
           /\ DropReceiver(n, c)[c].down = n[c].down
BY DEF DropSender, DropReceiver, AnyLink, Ends

(* What is left of a direction that is cut. *)
LeftOf(up, b) ==
    /\ Len(b) \in Nat /\ Len(up) \in Nat /\ Len(b) <= Len(up)
    /\ \A n \in 1 .. Len(b) : b[n] = up[n]
    /\ up = <<>> => b = <<>>
    /\ Len(b) = Len(up) => b = up
    /\ \A f : up = << f >> => b \in {<<>>, << f >>}

LEMMA Broken ==
    ASSUME NEW up \in Seq(Frames03), NEW m \in 0 .. Len(up)
    PROVE  LeftOf(up, SubSeq(up, 1, m))
<1>0. PICK b : b = SubSeq(up, 1, m)
  OBVIOUS
<1> USE <1>0
<1>1. Len(up) \in Nat /\ m \in Nat /\ m <= Len(up) /\ \A n \in 1 .. m : up[n] \in Frames03
  BY LenProperties, ElementOfSeq
<1>2. b \in Seq(Frames03) /\ Len(b) = m /\ \A n \in 1 .. m : b[n] = up[n]
  BY <1>1, SubSeqProperties
<1>3. up = <<>> => b = <<>>
  BY <1>1, <1>2, EmptySeq
<1>4. Len(b) = Len(up) => b = up
  <2>1. SUFFICES ASSUME m = Len(up) PROVE b = up
    BY <1>2
  <2>2. \A n \in 1 .. Len(b) : b[n] = up[n]
    BY <1>2
  <2>3. QED
    BY <1>2, <2>1, <2>2, SeqEqual
<1>5. \A f : up = << f >> => b \in {<<>>, << f >>}
  <2>1. ASSUME NEW f, up = << f >>, b # <<>> PROVE b = << f >>
    <3>1. Len(up) = 1
      BY <2>1
    <3>2. m # 0
      BY <1>2, <2>1, EmptySeq
    <3>3. m = 1
      BY <1>1, <3>1, <3>2
    <3>4. QED
      BY <1>2, <1>4, <2>1, <3>1, <3>3
  <2>2. QED
    BY <2>1
<1>6. LeftOf(up, b)
  BY <1>1, <1>2, <1>3, <1>4, <1>5 DEF LeftOf
<1>7. QED
  BY <1>6

-----------------------------------------------------------------------------
(* Where the chunks of a file end. *)
LEMMA Layout ==
    ASSUME NEW i \in Nat, NEW size \in Nat
    PROVE  i < ChunkCount(size) <=> ChunkStart(i) < size
<1> DEFINE q == size \div ChunkSize
           r == size % ChunkSize
           c == ChunkSize
<1>1. /\ c \in Nat \ {0} /\ q \in Nat /\ r \in Nat /\ r < c /\ size = c * q + r
      /\ c * q = q * c
  BY ChunksAssumption
<1>2. ChunkCount(size) = IF r = 0 THEN q ELSE q + 1
  BY DEF ChunkCount
<1> HIDE DEF q, r, c
<1>3. ASSUME NEW a \in Nat, NEW b \in Nat, a <= b PROVE a * c \in Nat /\ b * c \in Nat /\ a * c <= b * c
  BY <1>1, <1>3
<1>4. ASSUME NEW a \in Nat PROVE (a + 1) * c = a * c + c
  BY <1>1, <1>4
<1>5. q * c \in Nat /\ i * c \in Nat /\ size = q * c + r
  BY <1>1
<1>6. i < q => i * c + c <= q * c
  <2>1. SUFFICES ASSUME i < q PROVE i * c + c <= q * c
    OBVIOUS
  <2>2. i + 1 \in Nat /\ i + 1 <= q
    BY <1>1, <2>1
  <2>3. (i + 1) * c <= q * c
    BY <1>1, <1>3, <2>2
  <2>4. QED
    BY <1>4, <2>3
<1>7. q <= i => q * c <= i * c
  BY <1>1, <1>3
<1>8. q < i => q * c + c <= i * c
  <2>1. SUFFICES ASSUME q < i PROVE q * c + c <= i * c
    OBVIOUS
  <2>2. q + 1 \in Nat /\ q + 1 <= i
    BY <1>1, <2>1
  <2>3. (q + 1) * c <= i * c
    BY <1>1, <1>3, <2>2
  <2>4. QED
    BY <1>1, <1>4, <2>3
<1>9. ChunkStart(i) = i * c
  BY DEF ChunkStart, c
<1>10. CASE i < q
  BY <1>1, <1>2, <1>5, <1>6, <1>9, <1>10
<1>11. CASE i = q
  BY <1>1, <1>2, <1>5, <1>9, <1>11
<1>12. CASE q < i
  BY <1>1, <1>2, <1>5, <1>8, <1>9, <1>12
<1>13. QED
  BY <1>1, <1>10, <1>11, <1>12

LEMMA Monotonic ==
    ASSUME NEW i \in Nat, NEW j \in Nat, i <= j
    PROVE  ChunkStart(i) <= ChunkStart(j)
<1>1. ChunkSize \in Nat
  BY ChunksAssumption
<1>2. QED
  BY <1>1 DEF ChunkStart

(* The end of the chunk that is next is where the one after it starts, or  *)
(* the end of the file.                                                    *)
LEMMA NextEnds ==
    ASSUME NEW i \in Nat, NEW size \in Nat, i < ChunkCount(size)
    PROVE  /\ ChunkEnd(i, size) = ReadUpTo(i + 1, size)
           /\ ReadUpTo(i, size) = ChunkStart(i)
           /\ ChunkStart(i) < ChunkEnd(i, size)
<1>1. /\ ChunkStart(i) \in Nat /\ ChunkStart(i) < size
      /\ ChunkStart(i + 1) = ChunkStart(i) + ChunkSize
      /\ i + 1 < ChunkCount(size) <=> ChunkStart(i + 1) < size
      /\ ChunkSize \in Nat \ {0}
  BY ChunkBounds, Layout, ChunksAssumption
<1>2. QED
  BY <1>1 DEF ReadUpTo, ChunkEnd

(* What has been read up to a chunk covers only those before it. *)
LEMMA OnlyBefore ==
    ASSUME NEW i \in Nat, NEW j \in Nat, NEW size \in Nat, j < ChunkCount(size),
           NEW read, Len(read) = ChunkStart(j), Covers(read, i, size)
    PROVE  i < j
<1>1. SUFFICES ASSUME j <= i PROVE FALSE
  OBVIOUS
<1>2. /\ ChunkStart(i) \in Nat /\ ChunkStart(j) \in Nat /\ ChunkStart(j) < size
      /\ ChunkStart(j) <= ChunkStart(i) /\ ChunkSize \in Nat \ {0}
  BY <1>1, Layout, Monotonic, ChunkBounds, ChunksAssumption
<1>3. ChunkEnd(i, size) <= ChunkStart(j)
  BY DEF Covers
<1>4. QED
  BY <1>2, <1>3 DEF ChunkEnd

(* The scanner reads on. *)
LEMMA ReadsOn ==
    ASSUME NEW read \in Content, NEW chunk \in Content
    PROVE  /\ read \o chunk \in Content /\ Len(read \o chunk) = Len(read) + Len(chunk)
           /\ \A k \in 1 .. Len(read) : (read \o chunk)[k] = read[k]
           /\ \A k \in 1 .. Len(chunk) : (read \o chunk)[Len(read) + k] = chunk[k]
<1>1. read \in Seq(Blocks) /\ chunk \in Seq(Blocks) /\ Len(read) \in Nat /\ Len(chunk) \in Nat
  BY LenProperties DEF Content
<1> DEFINE more == read \o chunk
<1>2. /\ more \in Seq(Blocks) /\ Len(more) = Len(read) + Len(chunk)
      /\ \A k \in 1 .. Len(more) :
            more[k] = IF k <= Len(read) THEN read[k] ELSE chunk[k - Len(read)]
  BY <1>1, ConcatProperties
<1> HIDE DEF more
<1>3. \A k \in 1 .. Len(read) : more[k] = read[k]
  BY <1>1, <1>2
<1>4. ASSUME NEW k \in 1 .. Len(chunk) PROVE more[Len(read) + k] = chunk[k]
  <2>1. Len(read) + k \in 1 .. Len(more) /\ ~ (Len(read) + k <= Len(read))
        /\ Len(read) + k - Len(read) = k
    BY <1>1, <1>2
  <2>2. QED
    BY <1>2, <2>1
<1>5. QED
  BY <1>2, <1>3, <1>4 DEF more, Content

LEMMA BytesOf ==
    ASSUME NEW file \in Content, NEW i \in Nat, NEW size \in Nat, Covers(file, i, size),
           ChunkStart(i) <= ChunkEnd(i, size)
    PROVE  /\ Len(ChunkOf(file, i, size)) = ChunkEnd(i, size) - ChunkStart(i)
           /\ \A k \in 1 .. ChunkEnd(i, size) - ChunkStart(i) :
                 ChunkOf(file, i, size)[k] = file[ChunkStart(i) + k]
<1> DEFINE s == ChunkStart(i)
           e == ChunkEnd(i, size)
           a == SubSeq(file, s + 1, e)
<1>1. /\ s \in Nat /\ e \in Nat /\ s <= e /\ e <= Len(file) /\ file \in Seq(Blocks)
      /\ Len(file) \in Nat
  BY ChunkBounds, LenProperties DEF Covers, Content
<1> HIDE DEF s, e
<1>2. \A k \in s + 1 .. e : file[k] \in Blocks
  BY <1>1, ElementOfSeq
<1>3. s + 1 \in Int /\ e \in Int
  BY <1>1
<1>4. /\ Len(a) = (IF s + 1 <= e THEN e - (s + 1) + 1 ELSE 0)
      /\ \A k \in 1 .. e - (s + 1) + 1 : a[k] = file[s + 1 + k - 1]
  BY <1>2, <1>3, SubSeqProperties
<1> HIDE DEF a
<1>5. Len(a) = e - s
  BY <1>1, <1>4
<1>6. ASSUME NEW k \in 1 .. e - s PROVE a[k] = file[s + k]
  <2>1. k \in 1 .. e - (s + 1) + 1 /\ s + 1 + k - 1 = s + k
    BY <1>1
  <2>2. QED
    BY <1>4, <2>1
<1>7. a = ChunkOf(file, i, size)
  BY DEF a, ChunkOf, s, e
<1>8. QED
  BY <1>5, <1>6, <1>7 DEF s, e

(* A chunk that was covered stays the same. *)
LEMMA ChunkStays ==
    ASSUME NEW read \in Content, NEW chunk \in Content, NEW i \in Nat, NEW size \in Nat,
           Covers(read, i, size)
    PROVE  /\ Covers(read \o chunk, i, size)
           /\ ChunkOf(read \o chunk, i, size) = ChunkOf(read, i, size)
<1> DEFINE more == read \o chunk
           r == [index |-> i, hash |-> ChunkOf(read, i, size)]
<1>1. /\ more \in Content /\ Len(more) = Len(read) + Len(chunk)
      /\ \A k \in 1 .. Len(read) : more[k] = read[k]
      /\ Len(read) \in Nat /\ Len(chunk) \in Nat
  BY ReadsOn, LenProperties DEF Content
<1>2. /\ ChunkStart(i) \in Nat /\ ChunkEnd(i, size) \in Nat
      /\ ChunkEnd(i, size) <= Len(read)
  BY ChunkBounds DEF Covers
<1>3. r \in Record /\ r.index = i /\ r.hash = ChunkOf(read, i, size)
  BY ChunkTypes DEF Record
<1> HIDE DEF more, r
<1>4. Covers(more, i, size)
  BY <1>1, <1>2 DEF Covers
<1>5. Holds(read, size, r)
  BY <1>3 DEF Holds
<1>6. \A k \in ChunkStart(i) + 1 .. ChunkEnd(i, size) : more[k] = read[k]
  BY <1>1, <1>2
<1>7. Holds(more, size, r)
  BY <1>1, <1>3, <1>4, <1>5, <1>6, SameChunk
<1>8. QED
  BY <1>3, <1>4, <1>7 DEF Holds, more

-----------------------------------------------------------------------------
(* How the frames of a session change with what is sent, received and lost. *)
LEMMA Rest ==
    ASSUME NEW up \in Seq(Frames03), up # <<>>
    PROVE  /\ Len(up) \in Nat /\ 1 \in 1 .. Len(up) /\ Head(up) = up[1]
           /\ Tail(up) \in Seq(Frames03) /\ Len(Tail(up)) = Len(up) - 1
           /\ \A n \in 1 .. Len(Tail(up)) : n + 1 \in 1 .. Len(up) /\ Tail(up)[n] = up[n + 1]
           /\ \A n \in 1 .. Len(up) : n = 1 \/ (/\ n - 1 \in 1 .. Len(Tail(up))
                                                /\ up[n] = Tail(up)[n - 1])
<1>1. Len(up) \in Nat /\ Len(up) >= 1
  BY LenProperties, EmptySeq
<1>2. /\ Head(up) = up[1] /\ Tail(up) \in Seq(Frames03) /\ Len(Tail(up)) = Len(up) - 1
      /\ \A n \in 1 .. Len(up) - 1 : Tail(up)[n] = up[n + 1]
  BY <1>1, HeadTailProperties
<1> HIDE DEF Frames03
<1>3. \A n \in 1 .. Len(Tail(up)) : n + 1 \in 1 .. Len(up) /\ Tail(up)[n] = up[n + 1]
  BY <1>1, <1>2
<1>4. ASSUME NEW n \in 1 .. Len(up), n # 1
      PROVE  n - 1 \in 1 .. Len(Tail(up)) /\ up[n] = Tail(up)[n - 1]
  <2>1. n - 1 \in 1 .. Len(Tail(up)) /\ n - 1 + 1 = n
    BY <1>1, <1>2, <1>4
  <2>2. QED
    BY <1>3, <2>1
<1>5. QED
  BY <1>1, <1>2, <1>3, <1>4

LEMMA RestComes ==
    ASSUME NEW up \in Seq(Frames03), up # <<>>, NEW size, NEW read,
           ComesOf(size, read, up)
    PROVE  /\ ComesOf(size, read, Tail(up))
           /\ Announces(Tail(up)) => Announces(up)
           /\ \A o : Brings(up, o) => Brings(Tail(up), o)
                                      \/ (Head(up).type = "DATA" /\ Head(up).offset = o)
<1>1. PICK t : t = Tail(up)
  OBVIOUS
<1>2. /\ Len(up) \in Nat /\ Head(up) = up[1] /\ Len(t) = Len(up) - 1
      /\ \A n \in 1 .. Len(t) : n + 1 \in 1 .. Len(up) /\ t[n] = up[n + 1]
      /\ \A n \in 1 .. Len(up) : n = 1 \/ (n - 1 \in 1 .. Len(t) /\ up[n] = t[n - 1])
  BY <1>1, Rest
<1>3. ASSUME NEW n \in 1 .. Len(t)
      PROVE  /\ t[n].type = "CHUNK_START" => Begun(size, read, t[n])
             /\ t[n].type = "DATA" =>
                  t[n].offset < Len(read) /\ t[n].block = read[t[n].offset + 1]
             /\ t[n].type = "COMPLETE" =>
                  n = Len(t) /\ t[n].body = read /\ Len(read) = size
  <2>1. n + 1 \in 1 .. Len(up) /\ t[n] = up[n + 1]
    BY <1>2
  <2>2. n + 1 = Len(up) => n = Len(t)
    BY <1>2
  <2>3. QED
    BY <2>1, <2>2 DEF ComesOf
<1>4. ComesOf(size, read, t)
  BY <1>3 DEF ComesOf
<1>5. Announces(t) => Announces(up)
  BY <1>2 DEF Announces
<1>6. \A o : Brings(up, o) => Brings(t, o) \/ (Head(up).type = "DATA" /\ Head(up).offset = o)
  BY <1>2 DEF Brings
<1>7. QED
  BY <1>1, <1>4, <1>5, <1>6

LEMMA FirstComes ==
    ASSUME NEW up \in Seq(Frames03), up # <<>>, NEW size, NEW read,
           ComesOf(size, read, up)
    PROVE  /\ Head(up).type = "CHUNK_START" => Begun(size, read, Head(up))
           /\ Head(up).type = "DATA" => /\ Head(up).offset < Len(read)
                                        /\ Head(up).block = read[Head(up).offset + 1]
           /\ Head(up).type = "COMPLETE" => /\ Head(up).body = read /\ Len(read) = size
                                            /\ Announces(up)
                                            /\ \A o : ~ Brings(up, o)
<1>1. Len(up) \in Nat /\ 1 \in 1 .. Len(up) /\ Head(up) = up[1]
  BY Rest
<1>2. /\ up[1].type = "CHUNK_START" => Begun(size, read, up[1])
      /\ up[1].type = "DATA" => up[1].offset < Len(read) /\ up[1].block = read[up[1].offset + 1]
      /\ up[1].type = "COMPLETE" => 1 = Len(up) /\ up[1].body = read /\ Len(read) = size
  BY <1>1 DEF ComesOf
<1>3. ASSUME up[1].type = "COMPLETE", NEW o PROVE ~ Brings(up, o)
  <2>0. Len(up) = 1
    BY <1>2, <1>3
  <2>1. \A n \in 1 .. Len(up) : n = 1
    BY ONLY <2>0
  <2>2. \A n \in 1 .. Len(up) : up[n].type = "COMPLETE"
    BY <1>3, <2>1
  <2>3. QED
    BY <2>2 DEF Brings
<1>4. QED
  BY <1>1, <1>2, <1>3 DEF Announces

(* Frames that are neither a chunk's nor a COMPLETE do not count. *)
LEMMA OneComes ==
    ASSUME NEW f, f.type \notin {"CHUNK_START", "DATA", "COMPLETE"}, NEW size, NEW read
    PROVE  ComesOf(size, read, << f >>) /\ ~ Announces(<< f >>)
<1>1. Len(<< f >>) = 1 /\ << f >>[1] = f
  OBVIOUS
<1>2. \A n \in 1 .. Len(<< f >>) : << f >>[n] = f
  BY <1>1
<1>3. QED
  BY <1>2 DEF ComesOf, Announces

LEMMA NoneComes ==
    ASSUME NEW size, NEW read
    PROVE  /\ ComesOf(size, read, <<>>) /\ ~ Announces(<<>>)
           /\ \A file : BytesIn(file, <<>>, <<>>)
           /\ \A known : Among(<<>>, known) /\ OfferedAmong(<<>>, known)
           /\ \A known, next : Ahead(<<>>, next, known)
<1>1. Len(<<>>) = 0
  BY EmptySeq
<1>2. QED
  BY <1>1 DEF ComesOf, Announces, BytesIn, Among, OfferedAmong, Ahead

LEMMA NothingRead ==
    ASSUME NEW file, NEW up
    PROVE  BytesIn(file, <<>>, up)
<1>1. Len(<<>>) = 0
  BY EmptySeq
<1>2. QED
  BY <1>1 DEF BytesIn

(* A loss takes the last frames, and the COMPLETE with the first of them.  *)
LEMMA LeftComes ==
    ASSUME NEW up, NEW b, LeftOf(up, b), NEW size, NEW read
    PROVE  /\ ComesOf(size, read, up) => ComesOf(size, read, b)
           /\ ComesOf(size, read, up) /\ Announces(b) => b = up
           /\ Announces(b) => Announces(up)
           /\ \A known : OfferedAmong(up, known) => OfferedAmong(b, known)
<1>1. /\ Len(b) \in Nat /\ Len(up) \in Nat /\ Len(b) <= Len(up)
      /\ \A n \in 1 .. Len(b) : n \in 1 .. Len(up) /\ b[n] = up[n]
  BY DEF LeftOf
<1>2. ComesOf(size, read, up) => \A n \in 1 .. Len(b) : b[n].type = "COMPLETE" => n = Len(up)
  BY <1>1 DEF ComesOf
<1>3. ComesOf(size, read, up) =>
         \A n \in 1 .. Len(b) : b[n].type = "COMPLETE" => Len(b) = Len(up)
  BY <1>1, <1>2
<1>4. ComesOf(size, read, up) => ComesOf(size, read, b)
  BY <1>1, <1>3 DEF ComesOf
<1>5. ComesOf(size, read, up) /\ Announces(b) => Len(b) = Len(up)
  BY <1>3 DEF Announces
<1>6. Len(b) = Len(up) => b = up
  BY DEF LeftOf
<1>7. Announces(b) => Announces(up)
  BY <1>1 DEF Announces
<1>8. \A known : OfferedAmong(up, known) => OfferedAmong(b, known)
  BY <1>1 DEF OfferedAmong
<1>9. QED
  BY <1>4, <1>5, <1>6, <1>7, <1>8

(* More frames behind those under way. *)
LEMMA Joined ==
    ASSUME NEW up \in Seq(Frames03), NEW fs \in Seq(Frames03)
    PROVE  /\ up \o fs \in Seq(Frames03) /\ Len(up \o fs) = Len(up) + Len(fs)
           /\ Len(up) \in Nat /\ Len(fs) \in Nat
           /\ \A n \in 1 .. Len(up) : n \in 1 .. Len(up \o fs) /\ (up \o fs)[n] = up[n]
           /\ \A n \in 1 .. Len(fs) : /\ Len(up) + n \in 1 .. Len(up \o fs)
                                      /\ (up \o fs)[Len(up) + n] = fs[n]
           /\ \A n \in 1 .. Len(up \o fs) :
                 \/ n \in 1 .. Len(up)
                 \/ n - Len(up) \in 1 .. Len(fs) /\ (up \o fs)[n] = fs[n - Len(up)]
<1>1. Len(up) \in Nat /\ Len(fs) \in Nat
  BY LenProperties
<1>2. PICK a : a = up \o fs
  OBVIOUS
<1>3. /\ a \in Seq(Frames03) /\ Len(a) = Len(up) + Len(fs)
      /\ \A n \in 1 .. Len(a) : a[n] = IF n <= Len(up) THEN up[n] ELSE fs[n - Len(up)]
  BY <1>2, ConcatProperties
<1>4. \A n \in 1 .. Len(up) : n \in 1 .. Len(a) /\ a[n] = up[n]
  BY <1>1, <1>3
<1>5. ASSUME NEW n \in 1 .. Len(fs)
      PROVE  Len(up) + n \in 1 .. Len(a) /\ a[Len(up) + n] = fs[n]
  <2>1. /\ Len(up) + n \in 1 .. Len(a) /\ ~ (Len(up) + n <= Len(up))
        /\ Len(up) + n - Len(up) = n
    BY <1>1, <1>3
  <2>2. QED
    BY <1>3, <2>1
<1>6. ASSUME NEW n \in 1 .. Len(a), n \notin 1 .. Len(up)
      PROVE  n - Len(up) \in 1 .. Len(fs) /\ a[n] = fs[n - Len(up)]
  <2>1. ~ (n <= Len(up)) /\ n - Len(up) \in 1 .. Len(fs)
    BY <1>1, <1>3, <1>6
  <2>2. QED
    BY <1>3, <2>1
<1>7. QED
  BY <1>1, <1>2, <1>3, <1>4, <1>5, <1>6

LEMMA JoinedComes ==
    ASSUME NEW up \in Seq(Frames03), NEW fs \in Seq(Frames03), NEW size, NEW read,
           ComesOf(size, read, up), ~ Announces(up), ComesOf(size, read, fs)
    PROVE  ComesOf(size, read, up \o fs)
<1>1. PICK a : a = up \o fs
  OBVIOUS
<1>2. /\ Len(a) = Len(up) + Len(fs) /\ Len(up) \in Nat /\ Len(fs) \in Nat
      /\ \A n \in 1 .. Len(up) : a[n] = up[n]
      /\ \A n \in 1 .. Len(a) :
            n \in 1 .. Len(up) \/ (n - Len(up) \in 1 .. Len(fs) /\ a[n] = fs[n - Len(up)])
  BY <1>1, Joined
<1>3. ASSUME NEW n \in 1 .. Len(a)
      PROVE  /\ a[n].type = "CHUNK_START" => Begun(size, read, a[n])
             /\ a[n].type = "DATA" =>
                  a[n].offset < Len(read) /\ a[n].block = read[a[n].offset + 1]
             /\ a[n].type = "COMPLETE" =>
                  n = Len(a) /\ a[n].body = read /\ Len(read) = size
  <2>1. CASE n \in 1 .. Len(up)
    BY <1>2, <2>1 DEF ComesOf, Announces
  <2>2. CASE n - Len(up) \in 1 .. Len(fs) /\ a[n] = fs[n - Len(up)]
    <3>1. n - Len(up) = Len(fs) => n = Len(a)
      BY <1>2
    <3>2. QED
      BY <2>2, <3>1 DEF ComesOf
  <2>3. QED
    BY <1>2, <2>1, <2>2
<1>4. ComesOf(size, read, a)
  BY <1>3 DEF ComesOf
<1>5. QED
  BY <1>1, <1>4

LEMMA JoinedBrings ==
    ASSUME NEW up \in Seq(Frames03), NEW fs \in Seq(Frames03)
    PROVE  /\ \A o : Brings(up, o) \/ Brings(fs, o) => Brings(up \o fs, o)
           /\ Announces(up \o fs) => Announces(up) \/ Announces(fs)
<1>1. PICK a : a = up \o fs
  OBVIOUS
<1>2. /\ \A n \in 1 .. Len(up) : n \in 1 .. Len(a) /\ a[n] = up[n]
      /\ \A n \in 1 .. Len(fs) : Len(up) + n \in 1 .. Len(a) /\ a[Len(up) + n] = fs[n]
      /\ \A n \in 1 .. Len(a) :
            n \in 1 .. Len(up) \/ (n - Len(up) \in 1 .. Len(fs) /\ a[n] = fs[n - Len(up)])
  BY <1>1, Joined
<1>3. \A o : Brings(up, o) => Brings(a, o)
  BY <1>2 DEF Brings
<1>4. \A o : Brings(fs, o) => Brings(a, o)
  BY <1>2 DEF Brings
<1>5. Announces(a) => Announces(up) \/ Announces(fs)
  <2>1. SUFFICES ASSUME NEW n \in 1 .. Len(a), a[n].type = "COMPLETE"
                 PROVE  Announces(up) \/ Announces(fs)
    BY DEF Announces
  <2>2. CASE n \in 1 .. Len(up)
    BY <1>2, <2>1, <2>2 DEF Announces
  <2>3. CASE n - Len(up) \in 1 .. Len(fs) /\ a[n] = fs[n - Len(up)]
    BY <2>1, <2>3 DEF Announces
  <2>4. QED
    BY <1>2, <2>2, <2>3
<1>6. QED
  BY <1>1, <1>3, <1>4, <1>5

LEMMA AppendJoins ==
    ASSUME NEW up \in Seq(Frames03), NEW f \in Frames03
    PROVE  << f >> \in Seq(Frames03) /\ Append(up, f) = up \o << f >>
<1> HIDE DEF Frames03
<1>1. QED
  OBVIOUS

(* Reading on, what came of the part that was read still does. *)
LEMMA MoreComes ==
    ASSUME NEW read \in Content, NEW chunk \in Content, NEW size \in Nat,
           NEW up \in Seq(Frames03), ComesOf(size, read, up), ~ Announces(up)
    PROVE  ComesOf(size, read \o chunk, up)
<1>1. PICK more : more = read \o chunk
  OBVIOUS
<1>2. /\ Len(more) >= Len(read) /\ \A k \in 1 .. Len(read) : more[k] = read[k]
      /\ Len(read) \in Nat /\ Len(more) \in Nat
      /\ \A i \in Nat : Covers(read, i, size) =>
            Covers(more, i, size) /\ ChunkOf(more, i, size) = ChunkOf(read, i, size)
  BY <1>1, ReadsOn, ChunkStays, LenProperties DEF Content
<1>3. ASSUME NEW n \in 1 .. Len(up)
      PROVE  /\ up[n].type = "CHUNK_START" => Begun(size, more, up[n])
             /\ up[n].type = "DATA" =>
                  up[n].offset < Len(more) /\ up[n].block = more[up[n].offset + 1]
             /\ up[n].type # "COMPLETE"
  <2>1. up[n] \in Frames03
    BY <1>3, ElementOfSeq
  <2>2. /\ up[n].type = "CHUNK_START" => up[n].index \in Nat
        /\ up[n].type = "DATA" => up[n].offset \in Nat
    BY <2>1, FrameFields
  <2>3. /\ up[n].type = "CHUNK_START" => Begun(size, read, up[n])
        /\ up[n].type = "DATA" =>
             up[n].offset < Len(read) /\ up[n].block = read[up[n].offset + 1]
        /\ up[n].type # "COMPLETE"
    BY DEF ComesOf, Announces
  <2>4. ASSUME up[n].type = "DATA"
        PROVE  up[n].offset < Len(more) /\ up[n].block = more[up[n].offset + 1]
    <3>1. up[n].offset + 1 \in 1 .. Len(read)
      BY <1>2, <2>2, <2>3, <2>4
    <3>2. QED
      BY <1>2, <2>2, <2>3, <2>4, <3>1
  <2>5. QED
    BY <1>2, <2>2, <2>3, <2>4 DEF Begun
<1>4. ComesOf(size, more, up)
  BY <1>3 DEF ComesOf
<1>5. QED
  BY <1>1, <1>4

(* The frames of the chunk that is next. *)
LEMMA ChunkComes ==
    ASSUME NEW read \in Content, NEW chunk \in Content, NEW size \in Nat, NEW i \in Nat,
           Len(read) = ChunkStart(i), Len(chunk) = ChunkEnd(i, size) - ChunkStart(i)
    PROVE  /\ ChunkFrames(i, chunk) \in Seq(Frames03)
           /\ Begun(size, read \o chunk, [index |-> i, hash |-> chunk])
           /\ ComesOf(size, read \o chunk, ChunkFrames(i, chunk))
           /\ ~ Announces(ChunkFrames(i, chunk))
           /\ \A k \in 1 .. Len(chunk) : Brings(ChunkFrames(i, chunk), ChunkStart(i) + k - 1)
<1> DEFINE s == ChunkStart(i)
           e == ChunkEnd(i, size)
           more == read \o chunk
           first == [type |-> "CHUNK_START", index |-> i, hash |-> chunk]
           data == [k \in 1 .. Len(chunk) |->
                      [type |-> "DATA", offset |-> s + k - 1, block |-> chunk[k]]]
           fs == << first >> \o data
<1>1. /\ s \in Nat /\ e \in Nat /\ more \in Content /\ Len(more) = s + Len(chunk)
      /\ Len(chunk) \in Nat /\ Len(more) = e
      /\ \A k \in 1 .. Len(chunk) : more[s + k] = chunk[k]
  <2>1. s \in Nat /\ e \in Nat /\ Len(chunk) \in Nat
    BY ChunkBounds, LenProperties DEF Content
  <2>2. /\ more \in Content /\ Len(more) = s + Len(chunk)
        /\ \A k \in 1 .. Len(chunk) : more[s + k] = chunk[k]
    <3>1. /\ more \in Content /\ Len(more) = Len(read) + Len(chunk)
          /\ \A k \in 1 .. Len(chunk) : more[Len(read) + k] = chunk[k]
      BY ReadsOn
    <3> HIDE DEF more
    <3>2. QED
      BY <3>1
  <2>3. Len(chunk) = e - s
    OBVIOUS
  <2> HIDE DEF s, e, more
  <2>4. QED
    BY <2>1, <2>2, <2>3
<1>2. ChunkOf(more, i, size) = chunk /\ Covers(more, i, size)
  <2>1. Covers(more, i, size) /\ s <= e
    BY <1>1 DEF Covers
  <2> HIDE DEF more, s, e
  <2>2. /\ Len(ChunkOf(more, i, size)) = e - s
        /\ \A k \in 1 .. e - s : ChunkOf(more, i, size)[k] = more[s + k]
    BY <1>1, <2>1, BytesOf DEF s, e
  <2>3. ChunkOf(more, i, size) \in Seq(Blocks) /\ chunk \in Seq(Blocks)
    BY <1>1, <2>1, ChunkTypes DEF Content
  <2>4. Len(chunk) = e - s
    BY DEF s, e
  <2>5. \A k \in 1 .. Len(chunk) : ChunkOf(more, i, size)[k] = chunk[k]
    BY <1>1, <2>2, <2>4
  <2>6. QED
    BY <2>1, <2>2, <2>3, <2>4, <2>5, SeqEqual
<1>3. ChunkFrames(i, chunk) = fs
  BY DEF ChunkFrames
<1>4. fs \in Seq(Frames03)
  BY <1>3, ChunkFramesTypes
<1>5. /\ Len(fs) = 1 + Len(chunk) /\ fs[1] = first
      /\ \A k \in 1 .. Len(chunk) : fs[1 + k] = data[k]
  <2>1. /\ << first >> \in Seq(Frames03) /\ Len(<< first >>) = 1 /\ << first >>[1] = first
    <3>1. first \in Frames03
      BY DEF Frames03
    <3>2. QED
      BY <3>1, One
  <2>2. data \in Seq(Frames03) /\ Len(data) = Len(chunk)
    <3>1. ASSUME NEW k \in 1 .. Len(chunk) PROVE data[k] \in Frames03
      <4>1. chunk[k] \in Blocks /\ s + k - 1 \in Nat
        BY <1>1, ElementOfSeq DEF Content
      <4>2. QED
        BY <4>1 DEF Frames03
    <3> HIDE DEF data
    <3>2. data = [k \in 1 .. Len(chunk) |-> data[k]]
      BY DEF data
    <3>3. data \in Seq(Frames03)
      BY <1>1, <3>1, <3>2, IsASeq
    <3>4. QED
      BY <1>1, <3>2, <3>3, LenProperties
  <2> HIDE DEF first, data
  <2>3. QED
    BY <2>1, <2>2, Joined
<1>6. ASSUME NEW n \in 1 .. Len(fs)
      PROVE  \/ fs[n] = first
             \/ \E k \in 1 .. Len(chunk) : n = 1 + k /\ fs[n] = data[k]
  <2> HIDE DEF fs, data, first
  <2>1. CASE n = 1
    BY <1>5, <2>1
  <2>2. CASE n # 1
    <3>1. n - 1 \in 1 .. Len(chunk) /\ n = 1 + (n - 1)
      BY <1>1, <1>5, <2>2
    <3>2. QED
      BY <1>5, <3>1
  <2>3. QED
    BY <2>1, <2>2
<1>7. first.type = "CHUNK_START" /\ Begun(size, more, first)
  BY <1>2 DEF Begun
<1>8. Begun(size, more, [index |-> i, hash |-> chunk])
  BY <1>2 DEF Begun
<1>9. ASSUME NEW k \in 1 .. Len(chunk)
      PROVE  /\ data[k].type = "DATA" /\ data[k].offset = s + k - 1
             /\ data[k].offset < Len(more) /\ data[k].block = more[data[k].offset + 1]
  <2>1. data[k].type = "DATA" /\ data[k].offset = s + k - 1 /\ data[k].block = chunk[k]
    OBVIOUS
  <2> HIDE DEF s, more, data
  <2>2. s + k - 1 < Len(more) /\ s + k - 1 + 1 = s + k
    BY <1>1
  <2>3. QED
    BY <1>1, <2>1, <2>2
<1> HIDE DEF fs, first, data, more
<1>10. ASSUME NEW n \in 1 .. Len(fs)
       PROVE  /\ fs[n].type = "CHUNK_START" => Begun(size, more, fs[n])
              /\ fs[n].type = "DATA" =>
                   fs[n].offset < Len(more) /\ fs[n].block = more[fs[n].offset + 1]
              /\ fs[n].type # "COMPLETE"
  <2>1. CASE fs[n] = first
    BY <1>7, <2>1
  <2>2. CASE \E k \in 1 .. Len(chunk) : n = 1 + k /\ fs[n] = data[k]
    BY <1>9, <2>2
  <2>3. QED
    BY <1>6, <2>1, <2>2
<1>11. ComesOf(size, more, fs) /\ ~ Announces(fs)
  BY <1>10 DEF ComesOf, Announces
<1>12. ASSUME NEW k \in 1 .. Len(chunk) PROVE Brings(fs, s + k - 1)
  <2>1. 1 + k \in 1 .. Len(fs)
    BY <1>1, <1>5
  <2>2. fs[1 + k].type = "DATA" /\ fs[1 + k].offset = s + k - 1
    BY <1>5, <1>9
  <2>3. QED
    BY <2>1, <2>2 DEF Brings
<1>13. QED
  BY <1>3, <1>4, <1>8, <1>11, <1>12 DEF more, s

-----------------------------------------------------------------------------
(* A step of a job, on its own connection. *)
LEMMA EndsKept ==
    ASSUME Typed, Typed', ConnInv, JobInv, UNCHANGED receiverVars,
           NEW j \in Jobs, \A i \in Jobs \ {j} : snd'[i] = snd[i],
           snd'[j].attempt >= snd[j].attempt,
           NEW c \in Conns, c = Conn(j), \A d \in Conns \ {c} : net'[d] = net[d],
           net'[c].rcvEnd = net[c].rcvEnd,
           net[c].rcvEnd = "backlog" =>
              net'[c].down = <<>> /\ net'[c].up \in {<<>>, << Bare("HELLO") >>},
           snd'[j].pc \in {"idle", "connect"} => net'[Conn(j)'].rcvEnd = "none",
           Live(j)' => Conn(j)' = c /\ Live(j) /\ net'[c].rcvEnd # "backlog"
    PROVE  ConnInv' /\ JobInv'
<1> USE Names
<1>0. Serving' = Serving /\ rcv' = rcv
  BY DEF Serving, receiverVars
<1>1. \A i \in Jobs : Conn(i) \in Conns /\ Conn(i)[1] = i /\ Conn(i)[2] = snd[i].attempt
  OBVIOUS
<1>2. \A i \in Jobs \ {j} : Conn(i)' = Conn(i) /\ Conn(i) # c
  BY <1>1 DEF Conn
<1>3. \A d \in Conns : net'[d].rcvEnd = net[d].rcvEnd
  OBVIOUS
<1>4. /\ \A d \in Conns : d[1] \in Jobs /\ d[2] \in Nat
      /\ \A i \in Jobs : snd[i].attempt \in Nat /\ snd'[i].attempt \in Nat
  <2>1. \A i \in Jobs : snd[i] \in JobState /\ snd'[i] \in JobState
    BY DEF Typed
  <2>2. \A job \in JobState : job.attempt \in Nat
    BY DEF JobState
  <2>3. QED
    BY <2>1, <2>2
<1>5. ConnInv'
  <2>1. ASSUME NEW d \in Conns
        PROVE  /\ net'[d].rcvEnd = "accepted" <=> Serving /\ d = rcv.conn
               /\ net'[d].rcvEnd = "backlog" =>
                     net'[d].down = <<>> /\ net'[d].up \in {<<>>, << Bare("HELLO") >>}
               /\ snd'[d[1]].attempt < d[2] => net'[d].rcvEnd = "none"
    <3>1. /\ net[d].rcvEnd = "accepted" <=> Serving /\ d = rcv.conn
          /\ net[d].rcvEnd = "backlog" =>
                net[d].down = <<>> /\ net[d].up \in {<<>>, << Bare("HELLO") >>}
          /\ snd[d[1]].attempt < d[2] => net[d].rcvEnd = "none"
      BY DEF ConnInv
    <3>2. snd'[d[1]].attempt >= snd[d[1]].attempt
      BY <1>4
    <3>3. snd[d[1]].attempt \in Nat /\ snd'[d[1]].attempt \in Nat /\ d[2] \in Nat
      BY <1>4
    <3>4. snd'[d[1]].attempt < d[2] => snd[d[1]].attempt < d[2]
      BY <3>2, <3>3
    <3>5. QED
      BY <1>3, <3>1, <3>4
  <2>2. QED
    BY <1>0, <2>1 DEF ConnInv
<1>6. JobInv'
  <2>1. ASSUME NEW i \in Jobs
        PROVE  /\ snd'[i].pc \in {"idle", "connect"} => net'[Conn(i)'].rcvEnd = "none"
               /\ Live(i)' => net'[Conn(i)'].rcvEnd # "none"
               /\ Live(i)' /\ net'[Conn(i)'].rcvEnd = "backlog" => snd'[i].pc = "hello"
    <3>1. /\ snd[i].pc \in {"idle", "connect"} => net[Conn(i)].rcvEnd = "none"
          /\ Live(i) => net[Conn(i)].rcvEnd # "none"
          /\ Live(i) /\ net[Conn(i)].rcvEnd = "backlog" => snd[i].pc = "hello"
      BY DEF JobInv
    <3>2. CASE i # j
      <4>1. snd'[i] = snd[i] /\ Conn(i)' = Conn(i) /\ Live(i)' = Live(i)
            /\ net'[Conn(i)] = net[Conn(i)]
        BY <1>1, <1>2, <3>2 DEF Live
      <4>2. QED
        BY <3>1, <4>1
    <3>3. CASE i = j
      BY <1>3, <3>1, <3>3
    <3>4. QED
      BY <3>2, <3>3
  <2>2. QED
    BY <2>1 DEF JobInv
<1>7. QED
  BY <1>5, <1>6

(* Where a job is in its source is its own affair. *)
ScanOf(job) ==
    /\ job.pc \in {"hello", "offered", "inventory"} => job.read = <<>> /\ job.next = 0
    /\ job.pc \in {"hello", "offered"} => job.records = <<>>
    /\ job.pc = "scan" => Len(job.read) = ReadUpTo(job.next, job.size)
    /\ job.pc = "complete" => Len(job.read) = job.size

LEMMA ScanKept ==
    ASSUME ScanInv, NEW j \in Jobs, \A i \in Jobs \ {j} : snd'[i] = snd[i],
           ScanOf(snd'[j])
    PROVE  ScanInv'
BY DEF ScanInv, ScanOf

LEMMA AllLeft ==
    ASSUME NEW up, Len(up) \in Nat
    PROVE  LeftOf(up, up)
BY DEF LeftOf

(* The session does not see what another job does. *)
LEMMA AloofKept ==
    ASSUME PeerInv, UNCHANGED receiverVars,
           Serving => net'[rcv.conn] = net[rcv.conn],
           Attached' => Attached /\ snd'[Job] = snd[Job]
    PROVE  PeerInv'
<1>1. rcv' = rcv /\ part' = part /\ Serving' = Serving /\ Job' = Job
  BY DEF receiverVars, Serving, Job
<1>2. Serving => Sent' = Sent /\ Answered' = Answered
                 /\ net'[rcv.conn].cut = net[rcv.conn].cut
  BY <1>1 DEF Sent, Answered
<1>3. At("hello") => HelloInv'
  BY <1>1, <1>2 DEF PeerInv, HelloInv, At, Serving
<1>4. At("offer") => OfferInv'
  BY <1>1, <1>2 DEF PeerInv, OfferInv, At, Serving
<1>5. rcv.pc \in Early => EarlyInv'
  BY <1>1, <1>2 DEF PeerInv, EarlyInv, Early, Serving
<1>6. rcv.pc \in Chunking => ListInv' /\ StreamInv'
  <2>1. SUFFICES ASSUME rcv.pc \in Chunking PROVE ListInv' /\ StreamInv'
    OBVIOUS
  <2>2. Serving /\ ListInv /\ StreamInv
    BY <2>1 DEF PeerInv, Chunking, Serving
  <2>3. ListInv'
    BY <1>1, <1>2, <2>2 DEF ListInv, At
  <2>4. PICK read \in Content : Stream(read)
    BY <2>2 DEF StreamInv
  <2>5. Stream(read)'
    BY <1>1, <1>2, <2>2, <2>4 DEF Stream
  <2>6. QED
    BY <2>3, <2>5 DEF StreamInv
<1>7. QED
  BY <1>1, <1>3, <1>4, <1>5, <1>6 DEF PeerInv, At

(* Frames are lost, and the connection with them. *)
LEMMA LossKept ==
    ASSUME PeerInv, UNCHANGED receiverVars,
           Serving => LeftOf(Sent, Sent'),
           Attached' => /\ Attached /\ snd'[Job] = snd[Job]
                        /\ LeftOf(Answered, Answered') /\ net'[rcv.conn].cut
    PROVE  PeerInv'
<1>1. rcv' = rcv /\ part' = part /\ Serving' = Serving /\ Job' = Job
  BY DEF receiverVars, Serving, Job
<1>2. /\ Serving /\ Sent = <<>> => Sent' = <<>>
      /\ \A f : Serving /\ Sent = << f >> => Sent' \in {<<>>, << f >>}
      /\ Attached' /\ Answered = <<>> => Answered' = <<>>
      /\ \A f : Attached' /\ Answered = << f >> => Answered' \in {<<>>, << f >>}
  BY DEF LeftOf
<1>3. At("hello") => HelloInv'
  BY <1>1, <1>2 DEF PeerInv, HelloInv, At, Serving
<1>4. At("offer") => OfferInv'
  <2>1. SUFFICES ASSUME At("offer"), OfferInv, Serving PROVE OfferInv'
    BY DEF PeerInv, At, Serving
  <2>2. Sent' = <<>> \/ IsOffer(Sent')
    BY <1>2, <2>1 DEF OfferInv, IsOffer
  <2>3. ASSUME Attached'
        PROVE  \/ /\ snd'[Job'].pc = "hello" /\ Sent' = <<>>
                  /\ Answered' \in {<<>>, << Bare("HELLO_ACK") >>}
               \/ /\ snd'[Job'].pc = "offered" /\ Sent' \in {<<>>, << Offer(snd'[Job'].size) >>}
                  /\ Answered' = <<>>
    <3>1. Attached /\ snd'[Job'] = snd[Job]
      BY <1>1, <2>3
    <3>2. CASE /\ snd[Job].pc = "hello" /\ Sent = <<>>
               /\ Answered \in {<<>>, << Bare("HELLO_ACK") >>}
      BY <1>2, <2>1, <2>3, <3>1, <3>2
    <3>3. CASE /\ snd[Job].pc = "offered" /\ Sent \in {<<>>, << Offer(snd[Job].size) >>}
               /\ Answered = <<>>
      BY <1>2, <2>1, <2>3, <3>1, <3>3
    <3>4. QED
      BY <2>1, <3>1, <3>2, <3>3 DEF OfferInv
  <2>4. QED
    BY <2>2, <2>3 DEF OfferInv
<1>5. rcv.pc \in Early => EarlyInv'
  BY <1>1, <1>2 DEF PeerInv, EarlyInv, Early, Serving
<1>6. rcv.pc \in Chunking => ListInv' /\ StreamInv'
  <2>1. SUFFICES ASSUME rcv.pc \in Chunking PROVE ListInv' /\ StreamInv'
    OBVIOUS
  <2>2. Serving /\ ListInv /\ StreamInv
    BY <2>1 DEF PeerInv, Chunking, Serving
  <2>3. ListInv'
    <3>1. Attached' /\ OfferedAmong(Answered, rcv.known) => OfferedAmong(Answered', rcv.known)
      BY LeftComes
    <3>2. QED
      BY <1>1, <1>2, <2>2, <3>1 DEF ListInv, At
  <2>4. PICK read \in Content : Stream(read)
    BY <2>2 DEF StreamInv
  <2>5. /\ ComesOf(rcv.size, read, Sent)
        /\ ComesOf(rcv.size, read, Sent') /\ (Announces(Sent') => Sent' = Sent /\ Announces(Sent))
    BY <2>2, <2>4, LeftComes DEF Stream
  <2>6. Stream(read)'
    <3>1. /\ Attached' => read = snd'[Job'].read
          /\ Attached' /\ snd'[Job'].pc # "complete" => ~ Announces(Sent')
          /\ rcv'.active # None => Begun(rcv'.size, read, rcv'.active)
      BY <1>1, <2>4, <2>5 DEF Stream
    <3>2. Announces(Sent') \/ (Attached' /\ ~ net'[rcv'.conn].cut) => BytesIn(part', read, Sent')
      BY <1>1, <2>4, <2>5 DEF Stream
    <3>3. QED
      BY <1>1, <2>5, <3>1, <3>2 DEF Stream
  <2>7. QED
    BY <2>3, <2>6 DEF StreamInv
<1>7. QED
  BY <1>1, <1>3, <1>4, <1>5, <1>6 DEF PeerInv, At

LEMMA AwayKeeps ==
    ASSUME Typed, Typed', SessionInv, UNCHANGED receiverVars, NEW j \in Jobs,
           Start(j) \/ ConnectRefused(j) \/ Retry(j)
    PROVE  SessionInv'
<1> USE Names
<1> DEFINE c == Conn(j)
<1>1. /\ net' = net
      /\ \A i \in Jobs \ {j} : snd'[i] = snd[i]
  BY DEF Start, ConnectRefused, Retry, Goto, Typed, wireVars
<1>2. \/ /\ snd[j].pc = "idle" /\ snd'[j].pc = "connect"
         /\ snd'[j].attempt = snd[j].attempt
      \/ /\ snd'[j].pc \in {"waiting", "exhausted"}
         /\ snd'[j].attempt = snd[j].attempt
      \/ /\ snd'[j].pc = "connect"
         /\ snd'[j].attempt = snd[j].attempt + 1
  <2>0. snd \in [Jobs -> JobState]
    BY DEF Typed
  <2>1. CASE Start(j)
    BY <2>0, <2>1 DEF Start, Goto, JobState
  <2>2. CASE ConnectRefused(j)
    <3>1. snd' = [snd EXCEPT ![j].pc = AfterLoss(j)]
      BY <2>2 DEF ConnectRefused, Goto
    <3>2. AfterLoss(j) \in {"waiting", "exhausted"}
      BY DEF AfterLoss
    <3>3. QED
      BY <2>0, <3>1, <3>2 DEF JobState
  <2>3. CASE Retry(j)
    BY <2>0, <2>3 DEF Retry, JobState
  <2>4. QED
    BY <2>1, <2>2, <2>3
<1>3. ~ Live(j)' /\ ScanOf(snd'[j])
  BY <1>2 DEF Live, Reading, ScanOf
<1>4. snd'[j].attempt >= snd[j].attempt
  BY <1>2 DEF Typed, JobState
<1>5. ASSUME snd'[j].pc \in {"idle", "connect"} PROVE net'[Conn(j)'].rcvEnd = "none"
  <2>1. CASE snd[j].pc = "idle" /\ snd'[j].attempt = snd[j].attempt
    BY <1>1, <2>1 DEF Conn, SessionInv, JobInv
  <2>2. CASE snd'[j].attempt = snd[j].attempt + 1
    <3>1. /\ Conn(j)' \in Conns /\ Conn(j)'[1] = j
          /\ Conn(j)'[2] = snd[j].attempt + 1 /\ snd[j].attempt \in Nat
      <4>1. Conn(j)' = <<j, snd[j].attempt + 1>>
        BY <2>2 DEF Conn
      <4>2. snd'[j].attempt \in 1 .. MaxSendAttempts /\ snd[j].attempt \in Nat
        BY DEF Typed, JobState
      <4>3. QED
        BY <2>2, <4>1, <4>2 DEF Conns
    <3>2. snd[j].attempt < snd[j].attempt + 1
      BY <3>1
    <3>3. QED
      BY <1>1, <3>1, <3>2 DEF SessionInv, ConnInv
  <2>3. QED
    BY <1>2, <1>5, <2>1, <2>2
<1>6. Attached' => Attached /\ snd'[Job] = snd[Job]
  <2>1. SUFFICES ASSUME Attached' PROVE Attached /\ snd'[Job] = snd[Job]
    OBVIOUS
  <2>2. Job' = Job /\ Serving' = Serving /\ rcv' = rcv
    BY DEF Job, Serving, receiverVars
  <2>3. Serving /\ Job \in Jobs /\ Job # j
    BY <1>3, <2>1, <2>2 DEF Attached
  <2>4. QED
    BY <1>1, <2>1, <2>2, <2>3 DEF Attached, Live, Conn
<1>7. c \in Conns /\ (net[c].rcvEnd = "backlog" =>
         net[c].down = <<>> /\ net[c].up \in {<<>>, << Bare("HELLO") >>})
  BY DEF SessionInv, ConnInv
<1> HIDE DEF c
<1>8. ConnInv' /\ JobInv'
  BY <1>1, <1>3, <1>4, <1>5, <1>7, EndsKept DEF c, SessionInv
<1>9. ScanInv'
  BY <1>1, <1>3, ScanKept DEF SessionInv
<1>10. PeerInv'
  BY <1>1, <1>6, AloofKept DEF SessionInv
<1>11. QED
  BY <1>8, <1>9, <1>10 DEF SessionInv

LEMMA EditKeeps ==
    ASSUME SessionInv, UNCHANGED <<net, snd, rcv, part>>, UNCHANGED receiverVars
    PROVE  SessionInv'
<1>1. /\ Serving' = Serving /\ Job' = Job
      /\ \A i : Live(i)' = Live(i) /\ Conn(i)' = Conn(i)
  BY DEF Serving, Job, Live, Conn
<1>2. Attached' = Attached
  BY <1>1 DEF Attached
<1>3. ConnInv' /\ JobInv' /\ ScanInv'
  BY <1>1 DEF SessionInv, ConnInv, JobInv, ScanInv
<1>4. PeerInv'
  BY <1>2, AloofKept DEF SessionInv
<1>5. QED
  BY <1>3, <1>4 DEF SessionInv

(* What is known of a job on its connection. *)
LEMMA OnLine ==
    ASSUME Typed, SessionInv, NEW j \in Jobs, Live(j)
    PROVE  /\ Conn(j) \in Conns
           /\ net[Conn(j)].rcvEnd # "none"
           /\ net[Conn(j)].rcvEnd = "backlog" =>
                 /\ snd[j].pc = "hello" /\ net[Conn(j)].down = <<>>
                 /\ net[Conn(j)].up \in {<<>>, << Bare("HELLO") >>}
           /\ Serving /\ rcv.conn = Conn(j) =>
                 /\ Attached /\ Job = j /\ PeerInv
                 /\ Sent = net[Conn(j)].up /\ Answered = net[Conn(j)].down
                 /\ ReceiverGone(Conn(j)) <=> net[Conn(j)].cut
<1>1. Conn(j) \in Conns /\ Conn(j)[1] = j
  BY Names
<1>2. /\ net[Conn(j)].rcvEnd # "none"
      /\ net[Conn(j)].rcvEnd = "backlog" =>
            /\ snd[j].pc = "hello" /\ net[Conn(j)].down = <<>>
            /\ net[Conn(j)].up \in {<<>>, << Bare("HELLO") >>}
  BY <1>1 DEF SessionInv, JobInv, ConnInv
<1>3. ASSUME Serving, rcv.conn = Conn(j)
      PROVE  /\ Attached /\ Job = j
             /\ net[Conn(j)].rcvEnd = "accepted"
             /\ Sent = net[Conn(j)].up /\ Answered = net[Conn(j)].down
  <2>1. Job = j
    BY <1>1, <1>3 DEF Job
  <2>2. Attached
    BY <1>3, <2>1 DEF Attached
  <2>3. net[Conn(j)].rcvEnd = "accepted"
    BY <1>1, <1>3 DEF SessionInv, ConnInv
  <2>4. Sent = net[Conn(j)].up /\ Answered = net[Conn(j)].down
    <3>1. \A x : rcv.conn = x => Sent = net[x].up /\ Answered = net[x].down
      BY DEF Sent, Answered
    <3>2. QED
      BY <1>3, <3>1
  <2>5. QED
    BY <2>1, <2>2, <2>3, <2>4
<1>4. QED
  BY <1>1, <1>2, <1>3 DEF SessionInv, ReceiverGone

LEMMA LeavingKeeps ==
    ASSUME Typed, Typed', SessionInv, UNCHANGED receiverVars, NEW j \in Jobs,
           \/ VerifiedAtOnce(j) \/ Verified(j) \/ SourceTooShort(j) \/ SourceTooLong(j)
           \/ LoseReceiver(j) \/ Abort(j)
    PROVE  SessionInv'
<1> USE Names
<1> DEFINE c == Conn(j)
<1>1. Live(j) /\ c \in Conns
  BY DEF Live, VerifiedAtOnce, Verified, SourceTooShort, SourceTooLong, LoseReceiver, Abort,
         Reads, Reading, Scanning
<1>2. /\ snd'[j].pc \notin {"idle", "connect"} \cup Reading \cup {"scan"}
      /\ snd'[j].attempt = snd[j].attempt
      /\ \A i \in Jobs \ {j} : snd'[i] = snd[i]
  <2>1. PICK pc \in {"done", "failed", "waiting", "exhausted"} : Goto(j, pc)
    BY DEF VerifiedAtOnce, Verified, SourceTooShort, SourceTooLong, LoseReceiver, Abort,
           Leave, AfterLoss
  <2>2. snd' = [snd EXCEPT ![j].pc = pc] /\ snd \in [Jobs -> JobState]
    BY <2>1 DEF Goto, Typed
  <2>3. snd'[j].pc = pc /\ snd'[j].attempt = snd[j].attempt
    BY <2>2 DEF JobState
  <2>4. QED
    BY <2>2, <2>3 DEF Reading
<1>3. /\ \A d \in Conns \ {c} : net'[d] = net[d]
      /\ net'[c].rcvEnd = net[c].rcvEnd
      /\ net'[c].down = <<>>
      /\ LeftOf(net[c].up, net'[c].up)
  <2>0. net \in [Conns -> AnyLink] /\ net[c].up \in Seq(Frames03) /\ Len(net[c].up) \in Nat
    BY <1>1 DEF Typed
  <2>1. CASE Abort(j)
    <3>1. PICK n \in 0 .. Len(net[c].up) :
             net' = DropSender([net EXCEPT ![c].up = SubSeq(@, 1, n)], c)
      BY <2>1 DEF Abort
    <3> DEFINE rest == SubSeq(net[c].up, 1, n)
               k == [net[c] EXCEPT !.up = rest]
               m == [net EXCEPT ![c] = k]
    <3>2. rest \in Seq(Frames03)
      BY <2>0, PrefixType
    <3> HIDE DEF c
    <3>3. k \in AnyLink /\ k.rcvEnd = net[c].rcvEnd /\ k.up = rest
      <4> HIDE DEF rest
      <4>1. net[c] \in AnyLink
        BY <1>1, <2>0
      <4>2. QED
        BY ONLY <3>2, <4>1 DEF AnyLink, Ends
    <3>4. [net EXCEPT ![c].up = SubSeq(@, 1, n)] = m
      BY <1>1, <2>0
    <3> HIDE DEF k
    <3>5. m \in [Conns -> AnyLink] /\ m[c] = k /\ \A d \in Conns \ {c} : m[d] = net[d]
      BY <1>1, <2>0, <3>3
    <3>6. net' = DropSender(m, c)
      BY <3>1, <3>4
    <3> HIDE DEF m, rest
    <3>7. /\ \A d \in Conns \ {c} : net'[d] = net[d]
          /\ net'[c].rcvEnd = net[c].rcvEnd /\ net'[c].down = <<>> /\ net'[c].up = rest
      BY <1>1, <3>3, <3>5, <3>6, DropFields
    <3>8. LeftOf(net[c].up, rest)
      BY <2>0, Broken DEF rest
    <3>9. QED
      BY <3>7, <3>8
  <2>2. CASE ~ Abort(j)
    <3>1. net' = DropSender(net, c)
      BY <2>2 DEF VerifiedAtOnce, Verified, SourceTooShort, SourceTooLong, LoseReceiver, Leave
    <3> HIDE DEF c
    <3>2. /\ \A d \in Conns \ {c} : net'[d] = net[d]
          /\ net'[c].rcvEnd = net[c].rcvEnd
          /\ net'[c].down = <<>> /\ net'[c].up = net[c].up
      BY <1>1, <2>0, <3>1, DropFields
    <3>3. LeftOf(net[c].up, net[c].up)
      BY <2>0, AllLeft
    <3>4. QED
      BY <3>2, <3>3
  <2>3. QED
    BY <2>1, <2>2
<1>4. ~ Live(j)' /\ ScanOf(snd'[j])
  BY <1>2 DEF Live, Reading, ScanOf
<1>5. net[c].rcvEnd = "backlog" => net'[c].up \in {<<>>, << Bare("HELLO") >>}
  <2>1. net[c].rcvEnd = "backlog" => net[c].up \in {<<>>, << Bare("HELLO") >>}
    BY <1>1, OnLine
  <2>2. QED
    BY <1>3, <2>1 DEF LeftOf
<1>6. snd'[j].attempt >= snd[j].attempt
  BY <1>2 DEF Typed, JobState
<1>7. ConnInv' /\ JobInv'
  <2>1. c = Conn(j)
    OBVIOUS
  <2> HIDE DEF c
  <2>2. QED
    BY <1>1, <1>2, <1>3, <1>4, <1>5, <1>6, <2>1, EndsKept DEF SessionInv
<1>8. ScanInv'
  BY <1>2, <1>4, ScanKept DEF SessionInv
<1>9. Job' = Job /\ Serving' = Serving /\ rcv' = rcv
  BY DEF Job, Serving, receiverVars
<1> HIDE DEF c
<1>10. PeerInv'
  <2>1. CASE ~ (Serving /\ rcv.conn = c)
    <3>1. Serving => net'[rcv.conn] = net[rcv.conn]
      BY <1>3, <2>1 DEF Typed
    <3>2. Attached' => Attached /\ snd'[Job] = snd[Job]
      <4>1. SUFFICES ASSUME Attached' PROVE Attached /\ snd'[Job] = snd[Job]
        OBVIOUS
      <4>2. Serving /\ Job \in Jobs /\ Job # j
        BY <1>4, <1>9, <4>1 DEF Attached
      <4>3. QED
        BY <1>2, <1>9, <4>1, <4>2 DEF Attached, Live, Conn
    <3>3. QED
      BY <3>1, <3>2, AloofKept DEF SessionInv
  <2>2. CASE Serving /\ rcv.conn = c
    <3>1. Job = j /\ Sent = net[c].up
      BY <1>1, <2>2, OnLine DEF c
    <3>2. Sent' = net'[c].up
      <4>1. \A x : rcv.conn = x => Sent' = net'[x].up
        BY <1>9 DEF Sent
      <4>2. QED
        BY <2>2, <4>1
    <3>3. LeftOf(Sent, Sent') /\ ~ Attached'
      BY <1>3, <1>4, <1>9, <3>1, <3>2 DEF Attached
    <3>4. QED
      BY <3>3, LossKept DEF SessionInv
  <2>3. QED
    BY <2>1, <2>2
<1>11. QED
  BY <1>7, <1>8, <1>10 DEF SessionInv

(* A connection is opened: nobody looks at it until it is accepted. *)
LEMMA ConnectKeeps ==
    ASSUME Typed, Typed', SessionInv, UNCHANGED receiverVars, NEW j \in Jobs, Connect(j)
    PROVE  SessionInv'
<1> USE Names
<1>0. Serving' = Serving /\ Job' = Job /\ rcv' = rcv
  BY DEF Serving, Job, receiverVars
<1> DEFINE c == Conn(j)
<1>1. /\ c \in Conns /\ c[1] = j /\ net[c].rcvEnd = "none"
      /\ snd[j].pc = "connect"
  BY DEF Connect, SessionInv, JobInv
<1>2. /\ \A i \in Jobs \ {j} : snd'[i] = snd[i]
      /\ snd'[j].pc = "hello" /\ \A i \in Jobs : snd'[i].attempt = snd[i].attempt
      /\ snd'[j].read = <<>> /\ snd'[j].next = 0 /\ snd'[j].records = <<>>
  <2>1. snd \in [Jobs -> JobState]
    BY DEF Typed
  <2>2. snd' = [snd EXCEPT ![j].pc = "hello", ![j].size = Len(src[j]),
                           ![j].records = <<>>, ![j].cursor = 0,
                           ![j].next = 0, ![j].read = <<>>]
    BY DEF Connect
  <2>3. QED
    BY <2>1, <2>2 DEF JobState
<1>3. /\ \A d \in Conns \ {c} : net'[d] = net[d]
      /\ net'[c].rcvEnd = "backlog" /\ net'[c].down = <<>>
      /\ net'[c].up = << Bare("HELLO") >>
  BY <1>1 DEF Connect, Opened, Typed
<1>4. \A i \in Jobs : Conn(i) \in Conns /\ Conn(i)[1] = i /\ Conn(i)' = Conn(i)
  BY <1>2 DEF Conn
<1>5. \A i \in Jobs \ {j} : /\ Conn(i) # c /\ net'[Conn(i)] = net[Conn(i)]
                            /\ Live(i)' = Live(i)
  BY <1>1, <1>2, <1>3, <1>4 DEF Live
<1>6. Live(j)' /\ Conn(j)' = c
  BY <1>2, <1>4 DEF Live, Reading
<1> HIDE DEF c
<1>7. ConnInv'
  <2>1. ASSUME NEW d \in Conns
        PROVE  /\ net'[d].rcvEnd = "accepted" <=> Serving /\ d = rcv.conn
               /\ net'[d].rcvEnd = "backlog" =>
                     net'[d].down = <<>> /\ net'[d].up \in {<<>>, << Bare("HELLO") >>}
               /\ snd'[d[1]].attempt < d[2] => net'[d].rcvEnd = "none"
    <3>1. /\ net[d].rcvEnd = "accepted" <=> Serving /\ d = rcv.conn
          /\ net[d].rcvEnd = "backlog" =>
                net[d].down = <<>> /\ net[d].up \in {<<>>, << Bare("HELLO") >>}
          /\ snd[d[1]].attempt < d[2] => net[d].rcvEnd = "none"
      BY DEF SessionInv, ConnInv
    <3>2. CASE d # c
      BY <1>2, <1>3, <3>1, <3>2
    <3>3. CASE d = c
      <4>1. d[1] = j /\ ~ (snd[d[1]].attempt < d[2])
        BY <1>1, <3>3 DEF c
      <4>2. QED
        BY <1>1, <1>2, <1>3, <3>1, <3>3, <4>1
    <3>4. QED
      BY <3>2, <3>3
  <2>2. QED
    BY <1>0, <2>1 DEF ConnInv
<1>8. JobInv'
  <2>1. ASSUME NEW i \in Jobs
        PROVE  /\ snd'[i].pc \in {"idle", "connect"} => net'[Conn(i)'].rcvEnd = "none"
               /\ Live(i)' => net'[Conn(i)'].rcvEnd # "none"
               /\ Live(i)' /\ net'[Conn(i)'].rcvEnd = "backlog" => snd'[i].pc = "hello"
    <3>1. CASE i = j
      BY <1>2, <1>3, <1>6, <3>1
    <3>2. CASE i # j
      BY <1>2, <1>4, <1>5, <3>2 DEF SessionInv, JobInv
    <3>3. QED
      BY <3>1, <3>2
  <2>2. QED
    BY <2>1 DEF JobInv
<1>9. Serving => rcv.conn # c /\ net'[rcv.conn] = net[rcv.conn]
  <2>1. Serving => rcv.conn \in Conns /\ net[rcv.conn].rcvEnd = "accepted"
    BY DEF Typed, SessionInv, ConnInv
  <2>2. QED
    BY <1>1, <1>3, <2>1
<1>10. ScanInv'
  <2>1. ScanOf(snd'[j])
    BY <1>2 DEF ScanOf
  <2>2. QED
    BY <1>2, <2>1, ScanKept DEF SessionInv
<1>11. Attached' => Attached /\ snd'[Job] = snd[Job]
  <2>1. SUFFICES ASSUME Attached' PROVE Attached /\ snd'[Job] = snd[Job]
    OBVIOUS
  <2>2. Serving /\ Job \in Jobs /\ Job # j
    BY <1>0, <1>6, <1>9, <2>1 DEF Attached
  <2>3. QED
    BY <1>0, <1>2, <1>4, <1>5, <2>1, <2>2 DEF Attached
<1>12. PeerInv'
  BY <1>9, <1>11, AloofKept DEF SessionInv
<1>13. QED
  BY <1>7, <1>8, <1>10, <1>12 DEF SessionInv

(* The network takes a connection, and the last frames of either direction. *)
LEMMA CutKeeps ==
    ASSUME Typed, Typed', SessionInv, UNCHANGED <<snd, rcv>>, UNCHANGED receiverVars,
           NEW c \in Conns, Cut(c)
    PROVE  SessionInv'
<1> USE Names
<1>1. /\ \A d \in Conns \ {c} : net'[d] = net[d]
      /\ net'[c].rcvEnd = net[c].rcvEnd /\ net'[c].cut
      /\ LeftOf(net[c].up, net'[c].up) /\ LeftOf(net[c].down, net'[c].down)
  <2>1. net \in [Conns -> AnyLink] /\ net[c].up \in Seq(Frames03) /\ net[c].down \in Seq(Frames03)
    BY DEF Typed
  <2>2. PICK m \in 0 .. Len(net[c].up), n \in 0 .. Len(net[c].down) :
           net' = [net EXCEPT ![c].cut = TRUE,
                              ![c].up = SubSeq(@, 1, m),
                              ![c].down = SubSeq(@, 1, n)]
    BY DEF Cut
  <2>3. /\ LeftOf(net[c].up, SubSeq(net[c].up, 1, m))
        /\ LeftOf(net[c].down, SubSeq(net[c].down, 1, n))
    BY <2>1, Broken
  <2>4. /\ \A d \in Conns \ {c} : net'[d] = net[d]
        /\ net'[c].rcvEnd = net[c].rcvEnd /\ net'[c].cut
        /\ net'[c].up = SubSeq(net[c].up, 1, m)
        /\ net'[c].down = SubSeq(net[c].down, 1, n)
    BY <2>1, <2>2 DEF AnyLink, Ends
  <2>5. QED
    BY <2>3, <2>4
<1>2. Serving' = Serving /\ Job' = Job /\ rcv' = rcv
      /\ \A i : Live(i)' = Live(i) /\ Conn(i)' = Conn(i)
  BY DEF Serving, Job, Live, Conn, receiverVars
<1>3. ConnInv'
  <2>1. ASSUME NEW d \in Conns
        PROVE  /\ net'[d].rcvEnd = net[d].rcvEnd
               /\ net'[d].rcvEnd = "backlog" =>
                     net'[d].down = <<>> /\ net'[d].up \in {<<>>, << Bare("HELLO") >>}
    <3>1. net[d].rcvEnd = "backlog" =>
             net[d].down = <<>> /\ net[d].up \in {<<>>, << Bare("HELLO") >>}
      BY DEF SessionInv, ConnInv
    <3>2. CASE d # c
      BY <1>1, <3>1, <3>2
    <3>3. CASE d = c
      BY <1>1, <3>1, <3>3 DEF LeftOf
    <3>4. QED
      BY <3>2, <3>3
  <2>2. QED
    BY <1>2, <2>1 DEF SessionInv, ConnInv
<1>4. JobInv'
  <2>1. \A i \in Jobs : net'[Conn(i)].rcvEnd = net[Conn(i)].rcvEnd
    BY <1>1
  <2>2. QED
    BY <1>2, <2>1 DEF SessionInv, JobInv
<1>5. ScanInv'
  BY DEF SessionInv, ScanInv
<1>6. Attached' = Attached
  BY <1>2 DEF Attached
<1>7. PeerInv'
  <2>1. CASE ~ (Serving /\ rcv.conn = c)
    <3>1. Serving => net'[rcv.conn] = net[rcv.conn]
      BY <1>1, <2>1 DEF Typed
    <3>2. QED
      BY <1>6, <3>1, AloofKept DEF SessionInv
  <2>2. CASE Serving /\ rcv.conn = c
    <3>1. \A x : rcv.conn = x => /\ Sent = net[x].up /\ Answered = net[x].down
                                 /\ Sent' = net'[x].up /\ Answered' = net'[x].down
      BY <1>2 DEF Sent, Answered
    <3>2. LeftOf(Sent, Sent') /\ LeftOf(Answered, Answered') /\ net'[rcv.conn].cut
      BY <1>1, <2>2, <3>1
    <3>3. QED
      BY <1>6, <3>2, LossKept DEF SessionInv
  <2>3. QED
    BY <2>1, <2>2
<1>8. QED
  BY <1>3, <1>4, <1>5, <1>7 DEF SessionInv

-----------------------------------------------------------------------------
(* A step of a job on its open connection. *)
LEMMA LiveStep ==
    ASSUME Typed, Typed', SessionInv, UNCHANGED receiverVars,
           NEW j \in Jobs, Live(j), NEW r \in JobState, snd' = [snd EXCEPT ![j] = r],
           r.attempt = snd[j].attempt, r.pc \in {"offered", "inventory", "scan", "complete"},
           ScanOf(r),
           NEW c \in Conns, c = Conn(j), Same(net, net', c),
           snd[j].pc = "hello" => net[c].down # <<>>,
           Serving /\ rcv.conn = c => PeerInv'
    PROVE  SessionInv'
<1>1. /\ \A i \in Jobs \ {j} : snd'[i] = snd[i]
      /\ snd'[j] = r
  BY DEF Typed
<1>2. snd'[j].attempt >= snd[j].attempt
  BY <1>1 DEF Typed, JobState
<1>3. net[c].rcvEnd # "backlog"
  BY OnLine
<1>4. snd'[j].pc \notin {"idle", "connect", "hello"}
  BY <1>1
<1>5. Conn(j)' = c
  BY <1>1 DEF Conn
<1>6. /\ \A d \in Conns \ {c} : net'[d] = net[d]
      /\ net'[c].rcvEnd = net[c].rcvEnd
  BY DEF Same
<1>7. ConnInv' /\ JobInv'
  BY <1>1, <1>2, <1>3, <1>4, <1>5, <1>6, EndsKept DEF SessionInv
<1>8. ScanInv'
  BY <1>1, ScanKept DEF SessionInv
<1>9. PeerInv'
  <2>1. CASE Serving /\ rcv.conn = c
    BY <2>1
  <2>2. CASE ~ (Serving /\ rcv.conn = c)
    <3>0. Job' = Job /\ Serving' = Serving /\ rcv' = rcv
      BY DEF Job, Serving, receiverVars
    <3>1. Serving => net'[rcv.conn] = net[rcv.conn]
      BY <1>6, <2>2 DEF Typed
    <3>2. Attached' => Attached /\ snd'[Job] = snd[Job]
      <4>1. SUFFICES ASSUME Attached' PROVE Attached /\ snd'[Job] = snd[Job]
        OBVIOUS
      <4>2. Serving /\ Job \in Jobs /\ Job # j
        BY <1>5, <2>2, <3>0, <4>1, Names DEF Attached
      <4>3. QED
        BY <1>1, <3>0, <4>1, <4>2 DEF Attached, Live, Conn
    <3>3. QED
      BY <3>1, <3>2, AloofKept DEF SessionInv
  <2>3. QED
    BY <2>1, <2>2
<1>10. QED
  BY <1>7, <1>8, <1>9 DEF SessionInv

(* What the job and the receiver that serves it know of each other. *)
LEMMA Together ==
    ASSUME Typed, SessionInv, UNCHANGED receiverVars,
           NEW j \in Jobs, Live(j), NEW c \in Conns, c = Conn(j), Serving, rcv.conn = c,
           Same(net, net', c)
    PROVE  /\ PeerInv /\ Attached /\ Job = j /\ Job' = j /\ rcv' = rcv /\ part' = part
           /\ Serving'
           /\ Sent = net[c].up /\ Answered = net[c].down
           /\ Sent' = net'[c].up /\ Answered' = net'[c].down
           /\ net'[rcv.conn].cut = net[c].cut /\ net[rcv.conn].cut = net[c].cut
           /\ ReceiverGone(c) <=> net[c].cut
           /\ rcv.size \in Nat
<1>1. /\ Attached /\ Job = j /\ PeerInv
      /\ Sent = net[c].up /\ Answered = net[c].down
      /\ ReceiverGone(c) <=> net[c].cut
  BY OnLine
<1>2. rcv' = rcv /\ Job' = Job /\ part' = part /\ Serving' = Serving
  BY DEF receiverVars, Job, Serving
<1>3. Sent' = net'[c].up /\ Answered' = net'[c].down
  <2>1. \A x : rcv.conn = x => Sent' = net'[x].up /\ Answered' = net'[x].down
    BY <1>2 DEF Sent, Answered
  <2>2. QED
    BY <2>1
<1>4. net'[rcv.conn].cut = net[c].cut /\ net[rcv.conn].cut = net[c].cut
  BY DEF Same
<1>5. QED
  BY <1>1, <1>2, <1>3, <1>4 DEF Typed, ReceiverTypeOK

(* An answer is read, and another frame may be sent. *)
LEMMA ReadsAndSends ==
    ASSUME Typed, NEW c \in Conns, net[c].down # <<>>, NEW f
    PROVE  /\ Same(net, Up(TakeDown(net, c), c, f), c)
           /\ Up(TakeDown(net, c), c, f)[c].down = Tail(net[c].down)
           /\ Up(TakeDown(net, c), c, f)[c].up =
                 IF ReceiverGone(c) THEN net[c].up ELSE Append(net[c].up, f)
           /\ Same(net, TakeDown(net, c), c)
           /\ TakeDown(net, c)[c].down = Tail(net[c].down)
           /\ TakeDown(net, c)[c].up = net[c].up
<1> DEFINE n == TakeDown(net, c)
           m == Up(n, c, f)
<1>1. net \in [Conns -> AnyLink]
  BY DEF Typed
<1>2. /\ n \in [Conns -> AnyLink] /\ Same(net, n, c)
      /\ n[c].down = Tail(net[c].down) /\ n[c].up = net[c].up
  BY <1>1, TakeFields
<1> HIDE DEF n
<1>3. /\ Same(n, m, c) /\ m[c].down = n[c].down
      /\ m[c].up = IF ReceiverGone(c) THEN n[c].up ELSE Append(n[c].up, f)
  BY <1>2, WriteFields
<1> HIDE DEF m
<1>4. Same(net, m, c)
  BY <1>2, <1>3 DEF Same
<1>5. QED
  BY <1>2, <1>3, <1>4 DEF n, m

LEMMA OfferKeeps ==
    ASSUME Typed, Typed', SessionInv, UNCHANGED receiverVars, NEW j \in Jobs, SendOffer(j)
    PROVE  SessionInv'
<1> DEFINE c == Conn(j)
           r == [snd[j] EXCEPT !.pc = "offered"]
<1>1. Live(j) /\ c \in Conns /\ net[c].down # <<>> /\ snd[j].pc = "hello"
  BY Names DEF Live, SendOffer, Reads, NextDown, Reading
<1>2. /\ r \in JobState /\ r.pc = "offered" /\ r.attempt = snd[j].attempt
      /\ snd' = [snd EXCEPT ![j] = r] /\ snd'[j] = r /\ r.size = snd[j].size
      /\ r.read = snd[j].read /\ r.next = snd[j].next /\ r.records = snd[j].records
  BY DEF SendOffer, Goto, Typed, JobState, SenderPc, Reading
<1>3. ScanOf(r)
  <2>1. ScanOf(snd[j])
    BY DEF SessionInv, ScanInv, ScanOf
  <2>2. QED
    BY <1>1, <1>2, <2>1 DEF ScanOf
<1>4. c = Conn(j) /\ net' = Up(TakeDown(net, c), c, Offer(snd[j].size))
  BY DEF SendOffer
<1> HIDE DEF c, r
<1>5. /\ Same(net, net', c)
      /\ net'[c].down = Tail(net[c].down)
      /\ net'[c].up = IF ReceiverGone(c) THEN net[c].up
                      ELSE Append(net[c].up, Offer(snd[j].size))
  BY <1>1, <1>4, ReadsAndSends
<1>6. ASSUME Serving, rcv.conn = c PROVE PeerInv'
  <2>1. /\ PeerInv /\ Attached /\ Job = j /\ Job' = j /\ rcv' = rcv /\ part' = part
        /\ Sent = net[c].up /\ Answered = net[c].down
        /\ Sent' = net'[c].up /\ Answered' = net'[c].down
    BY <1>1, <1>4, <1>5, <1>6, Together
  <2>2. rcv.pc \notin {"hello"} \cup Early \cup Chunking
    BY <1>1, <2>1 DEF PeerInv, HelloInv, EarlyInv, ListInv, At
  <2>3. ASSUME At("offer") PROVE OfferInv'
    <3>1. Sent = <<>> /\ Answered = << Bare("HELLO_ACK") >>
      BY <1>1, <2>1, <2>3 DEF PeerInv, OfferInv
    <3>2. Answered' = <<>>
      BY <1>5, <2>1, <3>1, One
    <3>3. Sent' \in {<<>>, << Offer(snd[j].size) >>}
      BY <1>5, <2>1, <3>1, One
    <3>4. snd[j].size \in Nat
      BY DEF Typed, JobState
    <3>5. Sent' = <<>> \/ IsOffer(Sent')
      BY <3>3, <3>4 DEF IsOffer
    <3>6. QED
      BY <1>2, <2>1, <3>2, <3>3, <3>5 DEF OfferInv
  <2>4. QED
    BY <2>1, <2>2, <2>3 DEF PeerInv, At
<1>7. QED
  BY <1>1, <1>2, <1>3, <1>4, <1>5, <1>6, LiveStep

LEMMA AmongBoth ==
    ASSUME NEW a \in Seq(Record), NEW b \in Seq(Record), NEW known,
           Among(a, known), Among(b, known)
    PROVE  Among(a \o b, known)
<1>1. PICK t : t = a \o b
  OBVIOUS
<1>2. Len(a) \in Nat /\ Len(b) \in Nat
  BY LenProperties
<1>3. /\ Len(t) = Len(a) + Len(b)
      /\ \A n \in 1 .. Len(t) : t[n] = IF n <= Len(a) THEN a[n] ELSE b[n - Len(a)]
  BY <1>1, ConcatProperties
<1>4. ASSUME NEW n \in 1 .. Len(t) PROVE t[n] \in known
  <2>1. CASE n <= Len(a)
    <3>1. n \in 1 .. Len(a) /\ t[n] = a[n]
      BY <1>2, <1>3, <2>1
    <3>2. QED
      BY <3>1 DEF Among
  <2>2. CASE ~ (n <= Len(a))
    <3>1. n - Len(a) \in 1 .. Len(b) /\ t[n] = b[n - Len(a)]
      BY <1>2, <1>3, <2>2
    <3>2. QED
      BY <3>1 DEF Among
  <2>3. QED
    BY <2>1, <2>2
<1>5. QED
  BY <1>1, <1>4 DEF Among

LEMMA OfferedRest ==
    ASSUME NEW down \in Seq(Frames03), down # <<>>, NEW known, OfferedAmong(down, known)
    PROVE  /\ OfferedAmong(Tail(down), known)
           /\ Head(down).type = "CHUNK_HASHES" => Among(Head(down).records, known)
<1>1. PICK t : t = Tail(down)
  OBVIOUS
<1>2. /\ 1 \in 1 .. Len(down) /\ Head(down) = down[1]
      /\ \A n \in 1 .. Len(t) : n + 1 \in 1 .. Len(down) /\ t[n] = down[n + 1]
  BY <1>1, Rest
<1>3. OfferedAmong(t, known)
  BY <1>2 DEF OfferedAmong
<1>4. QED
  BY <1>1, <1>2, <1>3 DEF OfferedAmong

(* The receiver's records are read, and the last of them answered. *)
LEMMA RecordsKeep ==
    ASSUME Typed, Typed', SessionInv, UNCHANGED receiverVars, NEW j \in Jobs,
           ReadResume(j) \/ ReadChunkHashes(j)
    PROVE  SessionInv'
<1> DEFINE c == Conn(j)
<1>1. /\ Live(j) /\ c \in Conns /\ c = Conn(j) /\ net[c].down # <<>>
      /\ snd[j].pc \in {"offered", "inventory"}
      /\ net[c].down \in Seq(Frames03)
  BY Names DEF Live, ReadResume, ReadChunkHashes, Reads, NextDown, Reading
<1> DEFINE head == Head(net[c].down)
           count == IF snd[j].pc = "offered" THEN head.count ELSE snd[j].count
           records == IF snd[j].pc = "offered" THEN <<>> ELSE snd[j].records \o head.records
           all == Len(records) = count
           r == [snd[j] EXCEPT !.pc = IF all THEN "scan" ELSE "inventory",
                               !.count = count, !.records = records]
<1>2. /\ Inventoried(j, count, records)
      /\ snd[j].pc = "offered" => head.type = "RESUME"
      /\ snd[j].pc = "inventory" => head.type = "CHUNK_HASHES"
      /\ head \in Frames03
  <2>1. head \in Frames03
    <3> HIDE DEF c
    <3>1. QED
      BY <1>1, TakeFirst
  <2>2. QED
    BY <2>1 DEF ReadResume, ReadChunkHashes, Reads, NextDown
<1>3. /\ snd[j].records \in Seq(Record) /\ snd[j].count \in Nat /\ snd[j] \in JobState
      /\ snd[j].pc = "offered" => head.count \in Nat
      /\ snd[j].pc = "inventory" => head.records \in Seq(Record)
  BY <1>2, FrameFields DEF Typed, JobState
<1>4. count \in Nat /\ records \in Seq(Record)
  <2>1. <<>> \in Seq(Record)
    BY EmptySeq
  <2>2. snd[j].pc = "inventory" => snd[j].records \o head.records \in Seq(Record)
    BY <1>3, ConcatProperties
  <2>3. QED
    BY <1>1, <1>3, <2>1, <2>2
<1>5. /\ net' = IF all THEN Up(TakeDown(net, c), c, Bare("ACCEPT")) ELSE TakeDown(net, c)
      /\ snd' = [snd EXCEPT ![j].pc = IF all THEN "scan" ELSE "inventory",
                            ![j].count = count, ![j].records = records]
  BY <1>2 DEF Inventoried
<1> HIDE DEF head, count, records
<1>6. /\ r \in JobState /\ snd' = [snd EXCEPT ![j] = r] /\ snd'[j] = r
      /\ r.attempt = snd[j].attempt /\ r.size = snd[j].size /\ r.records = records
      /\ r.pc = (IF all THEN "scan" ELSE "inventory")
      /\ r.read = snd[j].read /\ r.next = snd[j].next
  <2>1. r \in JobState /\ r.attempt = snd[j].attempt /\ r.size = snd[j].size
        /\ r.records = records /\ r.pc = (IF all THEN "scan" ELSE "inventory")
        /\ r.read = snd[j].read /\ r.next = snd[j].next
    BY <1>3, <1>4 DEF JobState, SenderPc, Reading
  <2>2. snd' = [snd EXCEPT ![j] = r]
    BY <1>5
  <2> HIDE DEF r
  <2>3. QED
    BY <2>1, <2>2 DEF Typed
<1>7. snd[j].read = <<>> /\ snd[j].next = 0 /\ snd[j].size \in Nat
  BY <1>1, <1>3 DEF SessionInv, ScanInv, JobState
<1> HIDE DEF r, c
<1>8. ScanOf(r)
  <2>1. Len(<<>>) = ReadUpTo(0, snd[j].size)
    <3>1. /\ 0 < ChunkCount(snd[j].size) <=> ChunkStart(0) < snd[j].size
          /\ ChunkStart(0) = 0
      <4>1. ChunkStart(0) = 0
        BY ChunksAssumption DEF ChunkStart
      <4>2. QED
        BY <1>7, <4>1, Layout
    <3>2. QED
      BY <1>7, <3>1 DEF ReadUpTo
  <2>2. r.pc \in {"scan", "inventory"}
    BY <1>6
  <2>3. QED
    BY <1>6, <1>7, <2>1, <2>2 DEF ScanOf
<1>9. /\ Same(net, net', c) /\ net'[c].down = Tail(net[c].down)
      /\ all => net'[c].up = IF ReceiverGone(c) THEN net[c].up
                             ELSE Append(net[c].up, Bare("ACCEPT"))
      /\ ~ all => net'[c].up = net[c].up
  BY <1>1, <1>5, ReadsAndSends
<1> HIDE DEF all
<1>10. ASSUME Serving, rcv.conn = c PROVE PeerInv'
  <2>1. /\ PeerInv /\ Attached /\ Job = j /\ Job' = j /\ rcv' = rcv /\ part' = part
        /\ Sent = net[c].up /\ Answered = net[c].down
        /\ Sent' = net'[c].up /\ Answered' = net'[c].down
    BY <1>1, <1>9, <1>10, Together
  <2>2. rcv.pc \notin {"hello", "offer"} \cup Early
    BY <1>1, <2>1 DEF PeerInv, HelloInv, OfferInv, EarlyInv, At
  <2>3. ASSUME rcv.pc \in Chunking PROVE ListInv' /\ StreamInv'
    <3>1. /\ ListInv /\ StreamInv /\ At("inventory") /\ Sent = <<>>
          /\ snd[j].size = rcv.size
          /\ Among(snd[j].records, rcv.known) /\ OfferedAmong(Answered, rcv.known)
      BY <1>1, <2>1, <2>3 DEF PeerInv, ListInv
    <3>2. /\ OfferedAmong(Answered', rcv.known)
          /\ snd[j].pc = "inventory" => Among(head.records, rcv.known)
      BY <1>1, <1>2, <1>9, <2>1, <3>1, OfferedRest DEF head
    <3>3. Among(records, rcv.known)
      <4>1. Among(<<>>, rcv.known)
        BY NoneComes
      <4>2. snd[j].pc = "inventory" => Among(snd[j].records \o head.records, rcv.known)
        BY <1>3, <3>1, <3>2, AmongBoth
      <4>3. QED
        BY <1>1, <4>1, <4>2 DEF records
    <3>4. Ahead(records, r.next, rcv.known)
      BY <3>3 DEF Among, Ahead
    <3>5. Sent' \in {<<>>, << Bare("ACCEPT") >>} /\ (~ all => Sent' = <<>>)
      BY <1>9, <2>1, <3>1, One
    <3>6. ListInv'
      BY <1>6, <2>1, <3>1, <3>2, <3>3, <3>4, <3>5 DEF ListInv, At
    <3>7. PICK read \in Content : Stream(read)
      BY <3>1 DEF StreamInv
    <3>8. read = <<>>
      BY <1>7, <2>1, <3>7 DEF Stream
    <3>9. ComesOf(rcv.size, <<>>, Sent') /\ ~ Announces(Sent')
      <4>1. Bare("ACCEPT").type = "ACCEPT"
        BY DEF Bare
      <4>2. QED
        BY <3>5, <4>1, NoneComes, OneComes
    <3>10. Stream(<<>>)'
      <4>1. BytesIn(part', <<>>, Sent')
        BY NothingRead
      <4>2. rcv.active # None => Begun(rcv.size, <<>>, rcv.active)
        BY <3>7, <3>8 DEF Stream
      <4>3. QED
        BY <1>6, <1>7, <2>1, <3>9, <4>1, <4>2 DEF Stream
    <3>11. QED
      BY <3>6, <3>8, <3>10 DEF StreamInv
  <2>4. QED
    BY <2>1, <2>2, <2>3 DEF PeerInv, At
<1>11. r.pc \in {"offered", "inventory", "scan", "complete"}
  BY <1>6
<1>12. QED
  BY <1>1, <1>6, <1>8, <1>9, <1>10, <1>11, LiveStep

(* A chunk is read, and its frames sent or not needed. *)
LEMMA ScannedComes ==
    ASSUME NEW read \in Content, NEW chunk \in Content, NEW size \in Nat, NEW i \in Nat,
           Len(read) = ChunkStart(i), Len(chunk) = ChunkEnd(i, size) - ChunkStart(i),
           NEW up \in Seq(Frames03), ComesOf(size, read, up), ~ Announces(up)
    PROVE  /\ read \o chunk \in Content
           /\ ComesOf(size, read \o chunk, up)
           /\ ComesOf(size, read \o chunk, up \o ChunkFrames(i, chunk))
           /\ ~ Announces(up \o ChunkFrames(i, chunk))
           /\ \A a \in Record : Begun(size, read, a) => Begun(size, read \o chunk, a)
           /\ \A file : BytesIn(file, read, up) =>
                 /\ BytesIn(file, read \o chunk, up \o ChunkFrames(i, chunk))
                 /\ (\A k \in 1 .. Len(chunk) : file[ChunkStart(i) + k] = chunk[k])
                       => BytesIn(file, read \o chunk, up)
<1> DEFINE s == ChunkStart(i)
<1>1. PICK more : more = read \o chunk
  OBVIOUS
<1>2. PICK fs : fs = ChunkFrames(i, chunk)
  OBVIOUS
<1>3. /\ more \in Content /\ Len(more) = s + Len(chunk)
      /\ \A k \in 1 .. Len(read) : more[k] = read[k]
      /\ \A k \in 1 .. Len(chunk) : more[s + k] = chunk[k]
  <2>1. /\ more \in Content /\ Len(more) = Len(read) + Len(chunk)
        /\ \A k \in 1 .. Len(read) : more[k] = read[k]
        /\ \A k \in 1 .. Len(chunk) : more[Len(read) + k] = chunk[k]
    BY <1>1, ReadsOn
  <2>2. Len(read) = s
    OBVIOUS
  <2> HIDE DEF s
  <2>3. QED
    BY <2>1, <2>2
<1>4. /\ fs \in Seq(Frames03) /\ ComesOf(size, more, fs) /\ ~ Announces(fs)
      /\ \A k \in 1 .. Len(chunk) : Brings(fs, s + k - 1)
  BY <1>1, <1>2, ChunkComes
<1>5. ComesOf(size, more, up)
  BY <1>1, MoreComes
<1>6. ComesOf(size, more, up \o fs) /\ ~ Announces(up \o fs)
  BY <1>4, <1>5, JoinedComes, JoinedBrings
<1>7. ASSUME NEW a \in Record, Begun(size, read, a) PROVE Begun(size, more, a)
  <2>1. a.index \in Nat
    BY DEF Record
  <2>2. QED
    BY <1>1, <1>7, <2>1, ChunkStays DEF Begun
<1>8. s \in Nat /\ Len(chunk) \in Nat /\ Len(read) = s
  BY ChunkBounds, LenProperties DEF Content
<1> HIDE DEF s
<1>9. ASSUME NEW k \in 1 .. Len(more)
      PROVE  \/ k \in 1 .. Len(read)
             \/ \E l \in 1 .. Len(chunk) : k = s + l
  <2>1. CASE k <= s
    BY <1>8, <2>1
  <2>2. CASE s < k
    <3>1. k - s \in 1 .. Len(chunk) /\ k = s + (k - s)
      BY <1>3, <1>8, <2>2
    <3>2. QED
      BY <3>1
  <2>3. QED
    BY <1>8, <2>1, <2>2
<1>10. ASSUME NEW file, BytesIn(file, read, up) PROVE BytesIn(file, more, up \o fs)
  <2>1. ASSUME NEW k \in 1 .. Len(more)
        PROVE  Brings(up \o fs, k - 1) \/ file[k] = more[k]
    <3>1. CASE k \in 1 .. Len(read)
      <4>1. Brings(up, k - 1) \/ file[k] = read[k]
        BY <1>10, <3>1 DEF BytesIn
      <4>2. QED
        BY <1>3, <1>4, <3>1, <4>1, JoinedBrings
    <3>2. CASE \E l \in 1 .. Len(chunk) : k = s + l
      <4>1. PICK l \in 1 .. Len(chunk) : k = s + l
        BY <3>2
      <4>2. Brings(fs, s + l - 1)
        BY <1>4
      <4>3. k - 1 = s + l - 1
        BY <1>8, <4>1
      <4>4. QED
        BY <1>4, <4>2, <4>3, JoinedBrings
    <3>3. QED
      BY <1>9, <3>1, <3>2
  <2>2. QED
    BY <2>1 DEF BytesIn
<1>11. ASSUME NEW file, BytesIn(file, read, up),
              \A k \in 1 .. Len(chunk) : file[s + k] = chunk[k]
       PROVE  BytesIn(file, more, up)
  <2>1. ASSUME NEW k \in 1 .. Len(more)
        PROVE  Brings(up, k - 1) \/ file[k] = more[k]
    <3>1. CASE k \in 1 .. Len(read)
      BY <1>3, <1>11, <3>1 DEF BytesIn
    <3>2. CASE \E l \in 1 .. Len(chunk) : k = s + l
      BY <1>3, <1>11, <3>2
    <3>3. QED
      BY <1>9, <3>1, <3>2
  <2>2. QED
    BY <2>1 DEF BytesIn
<1>12. QED
  BY <1>1, <1>2, <1>3, <1>5, <1>6, <1>7, <1>10, <1>11 DEF s

(* What is offered is in the .part, and stays while it is not read. *)
LEMMA OfferedIsThere ==
    ASSUME Inv, HeldInv, rcv.pc \in Chunking, NEW read, NEW i \in Nat,
           i < ChunkCount(rcv.size), Len(read) = ChunkStart(i),
           rcv.active # None => Begun(rcv.size, read, rcv.active),
           NEW r \in rcv.known, r.index = i
    PROVE  \A k \in 1 .. ChunkEnd(i, rcv.size) - ChunkStart(i) :
              part[ChunkStart(i) + k] = r.hash[k]
<1>1. /\ rcv.size \in Nat /\ part \in Content
      /\ rcv.active # None => rcv.active \in Record
  BY DEF Inv, ReceiverInv, ReceiverTypeOK, StepInv, Chunking
<1>2. rcv.active # None => rcv.active.index < i
  <2>1. ASSUME rcv.active # None PROVE rcv.active.index < i
    <3>1. rcv.active.index \in Nat /\ Covers(read, rcv.active.index, rcv.size)
      BY <1>1, <2>1 DEF Begun, Record
    <3>2. QED
      BY <1>1, <3>1, OnlyBefore
  <2>2. QED
    BY <2>1
<1>3. Holds(part, rcv.size, r)
  <2>1. rcv.active # None => rcv.active.index # r.index
    BY <1>1, <1>2 DEF Record
  <2>2. QED
    BY <2>1 DEF HeldInv, KnownChunksHeld, Chunking
<1>4. Covers(part, i, rcv.size) /\ r.hash = ChunkOf(part, i, rcv.size)
  BY <1>3 DEF Holds
<1>5. ChunkStart(i) <= ChunkEnd(i, rcv.size)
  <2>1. ChunkStart(i) < ChunkEnd(i, rcv.size)
    BY <1>1, NextEnds
  <2>2. ChunkStart(i) \in Nat /\ ChunkEnd(i, rcv.size) \in Nat
    BY <1>1, ChunkBounds
  <2>3. QED
    BY <2>1, <2>2
<1>6. QED
  BY <1>1, <1>4, <1>5, BytesOf

LEMMA ScanKeeps ==
    ASSUME Inv, HeldInv, Typed, Typed', SessionInv, UNCHANGED receiverVars,
           NEW j \in Jobs, ScanChunk(j)
    PROVE  SessionInv'
<1> DEFINE c == Conn(j)
           i == snd[j].next
           size == snd[j].size
           chunk == ChunkOf(src[j], i, size)
           fs == ChunkFrames(i, chunk)
           r == [snd[j] EXCEPT !.next = @ + 1, !.read = @ \o chunk,
                               !.cursor = IF AtRecord(j) THEN @ + 1 ELSE @]
<1>1. /\ Live(j) /\ c \in Conns /\ c = Conn(j) /\ snd[j].pc = "scan"
      /\ snd[j] \in JobState /\ src[j] \in Content
  BY Names DEF Live, ScanChunk, Scanning, Typed
<1>2. /\ i \in Nat /\ size \in Nat /\ i < ChunkCount(size) /\ Covers(src[j], i, size)
      /\ snd[j].read \in Content
  BY <1>1 DEF ScanChunk, MoreChunks, JobState
<1>3. /\ net' = IF Reuses(j, chunk) THEN net ELSE UpAll(net, c, fs)
      /\ snd' = [snd EXCEPT ![j].next = @ + 1, ![j].read = @ \o chunk,
                            ![j].cursor = IF AtRecord(j) THEN @ + 1 ELSE @]
  BY DEF ScanChunk
<1>4. ChunkEnd(i, size) = ReadUpTo(i + 1, size) /\ ReadUpTo(i, size) = ChunkStart(i)
      /\ ChunkStart(i) <= ChunkEnd(i, size)
  <2>1. /\ ChunkEnd(i, size) = ReadUpTo(i + 1, size) /\ ReadUpTo(i, size) = ChunkStart(i)
        /\ ChunkStart(i) < ChunkEnd(i, size)
    BY <1>2, NextEnds
  <2>2. ChunkStart(i) \in Nat /\ ChunkEnd(i, size) \in Nat
    BY <1>2, ChunkBounds
  <2> HIDE DEF i, size
  <2>3. QED
    BY <2>1, <2>2
<1>5. chunk \in Content /\ Len(chunk) = ChunkEnd(i, size) - ChunkStart(i)
  BY <1>1, <1>2, <1>4, ChunkTypes, BytesOf
<1>6. Len(snd[j].read) = ChunkStart(i)
  BY <1>1, <1>4 DEF SessionInv, ScanInv
<1>7. snd[j].read \o chunk \in Content /\ Len(snd[j].read \o chunk) = ReadUpTo(i + 1, size)
  <2> HIDE DEF chunk
  <2>1. /\ snd[j].read \o chunk \in Content
        /\ Len(snd[j].read \o chunk) = Len(snd[j].read) + Len(chunk)
    BY <1>2, <1>5, ReadsOn
  <2>2. ChunkStart(i) \in Nat /\ ChunkEnd(i, size) \in Nat
    BY <1>2, ChunkBounds
  <2> HIDE DEF i, size
  <2>3. QED
    BY <1>4, <1>5, <1>6, <2>1, <2>2
<1> HIDE DEF chunk
<1>8. /\ r \in JobState /\ r.pc = "scan" /\ r.attempt = snd[j].attempt
      /\ r.size = size /\ r.read = snd[j].read \o chunk /\ r.next = i + 1
      /\ r.records = snd[j].records
  <2>1. /\ i + 1 \in Nat /\ snd[j].cursor \in Nat /\ snd[j].cursor + 1 \in Nat
        /\ (IF AtRecord(j) THEN snd[j].cursor + 1 ELSE snd[j].cursor) \in Nat
    BY <1>1, <1>2 DEF JobState
  <2>2. PICK at : at = IF AtRecord(j) THEN snd[j].cursor + 1 ELSE snd[j].cursor
    OBVIOUS
  <2>3. PICK more : more = snd[j].read \o chunk
    OBVIOUS
  <2>4. r = [snd[j] EXCEPT !.next = i + 1, !.read = more, !.cursor = at]
    BY <2>2, <2>3
  <2>5. at \in Nat /\ more \in Content /\ i + 1 \in Nat
    BY <1>7, <2>1, <2>2, <2>3
  <2>6. /\ r \in JobState /\ r.pc = snd[j].pc /\ r.attempt = snd[j].attempt
        /\ r.size = snd[j].size /\ r.read = more /\ r.next = i + 1
        /\ r.records = snd[j].records
    <3> HIDE DEF r
    <3>1. PICK next : next = i + 1
      OBVIOUS
    <3>2. r = [snd[j] EXCEPT !.next = next, !.read = more, !.cursor = at]
      BY <2>4, <3>1
    <3>3. next \in Nat
      BY <2>5, <3>1
    <3>4. /\ r \in JobState /\ r.pc = snd[j].pc /\ r.attempt = snd[j].attempt
          /\ r.size = snd[j].size /\ r.read = more /\ r.next = next
          /\ r.records = snd[j].records
      BY ONLY <1>1, <2>5, <3>2, <3>3 DEF JobState
    <3>5. QED
      BY <3>1, <3>4
  <2>7. QED
    BY <1>1, <2>3, <2>6
<1>9. snd' = [snd EXCEPT ![j] = r] /\ snd'[j] = r
  <2>1. snd' = [snd EXCEPT ![j] = r]
    BY <1>3
  <2> HIDE DEF r
  <2>2. QED
    BY <2>1 DEF Typed
<1> HIDE DEF r, c
<1>10. ScanOf(r)
  BY <1>7, <1>8 DEF ScanOf
<1>11. /\ Same(net, net', c) /\ net'[c].down = net[c].down
       /\ Reuses(j, chunk) => net' = net
       /\ ~ Reuses(j, chunk) =>
             net'[c].up = IF ReceiverGone(c) THEN net[c].up ELSE net[c].up \o fs
  <2> HIDE DEF fs
  <2>1. net \in [Conns -> AnyLink]
    BY DEF Typed
  <2>2. CASE Reuses(j, chunk)
    BY <1>3, <2>2 DEF Same
  <2>3. CASE ~ Reuses(j, chunk)
    BY <1>1, <1>3, <2>1, <2>3, WriteFields
  <2>4. QED
    BY <2>2, <2>3
<1>12. ASSUME Serving, rcv.conn = c PROVE PeerInv'
  <2>1. /\ PeerInv /\ Attached /\ Job = j /\ Job' = j /\ rcv' = rcv /\ part' = part
        /\ Sent = net[c].up /\ Answered = net[c].down
        /\ Sent' = net'[c].up /\ Answered' = net'[c].down
        /\ net'[rcv.conn].cut = net[c].cut /\ net[rcv.conn].cut = net[c].cut
        /\ ReceiverGone(c) <=> net[c].cut
    BY <1>1, <1>11, <1>12, Together
  <2>2. rcv.pc \notin {"hello", "offer"} \cup Early
    BY <1>1, <2>1 DEF PeerInv, HelloInv, OfferInv, EarlyInv, At
  <2>3. ASSUME rcv.pc \in Chunking PROVE ListInv' /\ StreamInv'
    <3>1. ListInv /\ StreamInv /\ size = rcv.size
      BY <2>1, <2>3 DEF PeerInv, ListInv
    <3>2. Ahead(snd[j].records, i, rcv.known)
      BY <1>1, <1>2, <2>1, <3>1 DEF ListInv
    <3>3. Ahead(r.records, r.next, rcv.known)
      <4>1. ASSUME NEW n \in 1 .. Len(snd[j].records), snd[j].records[n].index >= i + 1
            PROVE  snd[j].records[n] \in rcv.known
        <5>1. snd[j].records \in Seq(Record)
          BY <1>1 DEF JobState
        <5>2. snd[j].records[n] \in Record
          BY <5>1, <4>1, ElementOfSeq
        <5>3. snd[j].records[n].index >= i
          <6>1. snd[j].records[n].index \in Nat
            BY <5>2 DEF Record
          <6> HIDE DEF i
          <6>2. QED
            BY <1>2, <4>1, <6>1
        <5>4. QED
          BY <3>2, <5>3 DEF Ahead
      <4>2. QED
        BY <1>8, <4>1 DEF Ahead
    <3>4. ListInv'
      BY <1>8, <1>9, <2>1, <3>1, <3>3 DEF ListInv, At
    <3>5. PICK read \in Content : Stream(read)
      BY <3>1 DEF StreamInv
    <3>6. read = snd[j].read /\ ~ Announces(Sent) /\ ComesOf(size, read, Sent)
          /\ (rcv.active # None => Begun(size, read, rcv.active))
          /\ (~ net[c].cut => BytesIn(part, read, Sent))
      BY <1>1, <2>1, <3>1, <3>5 DEF Stream
    <3>7. PICK up : up = Sent
      OBVIOUS
    <3>8. up \in Seq(Frames03)
      BY <1>1, <2>1, <3>7, Names
    <3>9. PICK more : more = read \o chunk
      OBVIOUS
    <3>10. /\ more \in Content /\ ComesOf(size, more, up)
           /\ ComesOf(size, more, up \o fs) /\ ~ Announces(up \o fs)
           /\ \A a \in Record : Begun(size, read, a) => Begun(size, more, a)
           /\ \A file : BytesIn(file, read, up) =>
                 /\ BytesIn(file, more, up \o fs)
                 /\ (\A k \in 1 .. Len(chunk) : file[ChunkStart(i) + k] = chunk[k])
                       => BytesIn(file, more, up)
      BY <1>2, <1>5, <1>6, <3>6, <3>7, <3>8, <3>9, ScannedComes
    <3>11. \/ Reuses(j, chunk) /\ Sent' = up
           \/ ~ Reuses(j, chunk) /\ net[c].cut /\ Sent' = up
           \/ ~ Reuses(j, chunk) /\ Sent' = up \o fs
      BY <1>11, <2>1, <3>7
    <3>12. ASSUME Reuses(j, chunk)
           PROVE  \A k \in 1 .. Len(chunk) : part[ChunkStart(i) + k] = chunk[k]
      <4>1. PICK n \in 1 .. Len(snd[j].records) :
               snd[j].records[n].index = i /\ snd[j].records[n].hash = chunk
        <5>1. /\ snd[j].cursor < Len(snd[j].records)
              /\ snd[j].records[snd[j].cursor + 1].index = i
              /\ snd[j].records[snd[j].cursor + 1].hash = chunk
          BY <3>12 DEF Reuses, AtRecord
        <5>2. snd[j].cursor \in Nat /\ Len(snd[j].records) \in Nat
          BY <1>1, LenProperties DEF JobState
        <5>3. snd[j].cursor + 1 \in 1 .. Len(snd[j].records)
          BY <5>1, <5>2
        <5>4. QED
          BY <5>1, <5>3
      <4>2. snd[j].records[n] \in rcv.known
        BY <1>2, <3>2, <4>1 DEF Ahead
      <4>3. \A k \in 1 .. ChunkEnd(i, rcv.size) - ChunkStart(i) :
               part[ChunkStart(i) + k] = snd[j].records[n].hash[k]
        BY <1>2, <1>6, <2>3, <3>1, <3>6, <4>1, <4>2, OfferedIsThere
      <4>4. QED
        BY <1>5, <3>1, <4>1, <4>3
    <3>13. ComesOf(size, more, Sent') /\ ~ Announces(Sent')
      BY <3>6, <3>7, <3>10, <3>11
    <3>14. ~ net[c].cut => BytesIn(part, more, Sent')
      BY <3>6, <3>7, <3>10, <3>11, <3>12
    <3>15. rcv.active # None => Begun(size, more, rcv.active)
      <4>1. rcv.active # None => rcv.active \in Record
        BY DEF Typed, ReceiverTypeOK
      <4>2. QED
        BY <3>6, <3>10, <4>1
    <3>16. Stream(more)'
      <4>1. snd'[Job'].read = more
        BY <1>8, <1>9, <2>1, <3>6, <3>9
      <4>2. rcv'.size = size
        BY <2>1, <3>1
      <4> HIDE DEF size
      <4>3. QED
        BY <2>1, <3>13, <3>14, <3>15, <4>1, <4>2 DEF Stream
    <3>17. QED
      BY <3>4, <3>10, <3>16 DEF StreamInv
  <2>4. rcv.pc # "verify" \/ part' = rcv'.claim
    BY <2>1 DEF PeerInv, At
  <2>5. QED
    BY <2>1, <2>2, <2>3, <2>4 DEF PeerInv, At
<1>13. r.pc \in {"offered", "inventory", "scan", "complete"} /\ snd[j].pc # "hello"
  BY <1>1, <1>8
<1>14. QED
  BY <1>1, <1>8, <1>9, <1>10, <1>11, <1>12, <1>13, LiveStep

(* COMPLETE comes last, and carries what was read. *)
LEMMA CompleteComes ==
    ASSUME NEW read \in Content, NEW size \in Nat, Len(read) = size,
           NEW up \in Seq(Frames03), ComesOf(size, read, up), ~ Announces(up)
    PROVE  LET last == Append(up, Carrying("COMPLETE", read)) IN
              /\ ComesOf(size, read, last)
              /\ \A file : BytesIn(file, read, up) => BytesIn(file, read, last)
<1> DEFINE f == Carrying("COMPLETE", read)
<1>1. f \in Frames03 /\ f.type = "COMPLETE" /\ f.body = read
  BY FramesAreFrames
<1> HIDE DEF f
<1>2. PICK fs : fs = << f >>
  OBVIOUS
<1>3. fs \in Seq(Frames03) /\ Append(up, f) = up \o fs /\ Len(fs) = 1 /\ fs[1] = f
  BY <1>1, <1>2, AppendJoins, One
<1>4. ComesOf(size, read, fs)
  <2>1. \A n \in 1 .. Len(fs) : n = Len(fs) /\ fs[n] = f
    BY ONLY <1>3
  <2>2. QED
    BY <1>1, <2>1 DEF ComesOf
<1>5. ComesOf(size, read, up \o fs)
  BY <1>3, <1>4, JoinedComes
<1>6. \A file : BytesIn(file, read, up) => BytesIn(file, read, up \o fs)
  <2>1. \A o : Brings(up, o) => Brings(up \o fs, o)
    BY <1>3, JoinedBrings
  <2>2. QED
    BY <2>1 DEF BytesIn
<1>7. QED
  BY <1>3, <1>5, <1>6 DEF f

LEMMA CompleteKeeps ==
    ASSUME Typed, Typed', SessionInv, UNCHANGED receiverVars,
           NEW j \in Jobs, SendComplete(j)
    PROVE  SessionInv'
<1> DEFINE c == Conn(j)
           r == [snd[j] EXCEPT !.pc = "complete"]
           f == Carrying("COMPLETE", snd[j].read)
<1>1. /\ Live(j) /\ c \in Conns /\ c = Conn(j) /\ snd[j].pc = "scan"
      /\ snd[j] \in JobState /\ snd[j].read \in Content /\ snd[j].size \in Nat
  BY Names DEF Live, SendComplete, Scanning, Typed, JobState
<1>2. Len(snd[j].read) = snd[j].size
  BY <1>1 DEF SessionInv, ScanInv, ReadUpTo, SendComplete, MoreChunks
<1>3. /\ r \in JobState /\ r.pc = "complete" /\ r.attempt = snd[j].attempt
      /\ snd' = [snd EXCEPT ![j] = r] /\ snd'[j] = r /\ r.size = snd[j].size
      /\ r.read = snd[j].read
  BY <1>1 DEF SendComplete, Goto, Typed, JobState, SenderPc, Reading
<1>4. ScanOf(r)
  BY <1>2, <1>3 DEF ScanOf
<1>5. net' = Up(net, c, f)
  BY DEF SendComplete
<1> HIDE DEF c, r, f
<1>6. /\ Same(net, net', c) /\ net'[c].down = net[c].down
      /\ net'[c].up = IF ReceiverGone(c) THEN net[c].up ELSE Append(net[c].up, f)
  <2>1. net \in [Conns -> AnyLink]
    BY DEF Typed
  <2>2. QED
    BY <1>1, <1>5, <2>1, WriteFields
<1>7. ASSUME Serving, rcv.conn = c PROVE PeerInv'
  <2>1. /\ PeerInv /\ Attached /\ Job = j /\ Job' = j /\ rcv' = rcv /\ part' = part
        /\ Sent = net[c].up /\ Answered = net[c].down
        /\ Sent' = net'[c].up /\ Answered' = net'[c].down
        /\ net'[rcv.conn].cut = net[c].cut /\ net[rcv.conn].cut = net[c].cut
        /\ ReceiverGone(c) <=> net[c].cut
    BY <1>1, <1>6, <1>7, Together
  <2>2. rcv.pc \notin {"hello", "offer"} \cup Early
    BY <1>1, <2>1 DEF PeerInv, HelloInv, OfferInv, EarlyInv, At
  <2>3. ASSUME rcv.pc \in Chunking PROVE ListInv' /\ StreamInv'
    <3>1. ListInv /\ StreamInv /\ snd[j].size = rcv.size
      BY <2>1, <2>3 DEF PeerInv, ListInv
    <3>2. ListInv'
      BY <1>3, <2>1, <3>1 DEF ListInv, At
    <3>3. PICK read \in Content : Stream(read)
      BY <3>1 DEF StreamInv
    <3>4. read = snd[j].read /\ ~ Announces(Sent) /\ ComesOf(rcv.size, read, Sent)
          /\ (rcv.active # None => Begun(rcv.size, read, rcv.active))
          /\ (~ net[c].cut => BytesIn(part, read, Sent))
      BY <1>1, <2>1, <3>3 DEF Stream
    <3>5. PICK up : up = Sent
      OBVIOUS
    <3>6. up \in Seq(Frames03)
      BY <1>1, <2>1, <3>5, Names
    <3>7. /\ ComesOf(rcv.size, read, Append(up, f))
          /\ \A file : BytesIn(file, read, up) => BytesIn(file, read, Append(up, f))
      BY <1>1, <1>2, <3>1, <3>4, <3>5, <3>6, CompleteComes DEF f
    <3>8. \/ net[c].cut /\ Sent' = up
          \/ ~ net[c].cut /\ Sent' = Append(up, f)
      BY <1>6, <2>1, <3>5
    <3>9. ComesOf(rcv.size, read, Sent')
      BY <3>4, <3>5, <3>7, <3>8
    <3>10. Announces(Sent') \/ ~ net[c].cut => BytesIn(part, read, Sent')
      BY <3>4, <3>5, <3>7, <3>8
    <3>11. Stream(read)'
      BY <1>3, <2>1, <3>4, <3>9, <3>10 DEF Stream
    <3>12. QED
      BY <3>2, <3>11 DEF StreamInv
  <2>4. rcv.pc # "verify" \/ part' = rcv'.claim
    BY <2>1 DEF PeerInv, At
  <2>5. QED
    BY <2>1, <2>2, <2>3, <2>4 DEF PeerInv, At
<1>8. r.pc \in {"offered", "inventory", "scan", "complete"} /\ snd[j].pc # "hello"
  BY <1>1, <1>3
<1>9. QED
  BY <1>1, <1>3, <1>4, <1>6, <1>7, <1>8, LiveStep

LEMMA SenderKeeps ==
    ASSUME Inv, Inv', HeldInv, SessionInv, UNCHANGED receiverVars,
           NEW j \in Jobs, SenderRuns(j) \/ SenderDisturbed(j)
    PROVE  SessionInv'
<1>1. Typed /\ Typed'
  BY InvTypes
<1>2. CASE Start(j) \/ ConnectRefused(j) \/ Retry(j)
  BY <1>1, <1>2, AwayKeeps
<1>3. CASE Connect(j)
  BY <1>1, <1>3, ConnectKeeps
<1>4. CASE SendOffer(j)
  BY <1>1, <1>4, OfferKeeps
<1>5. CASE \/ VerifiedAtOnce(j) \/ Verified(j) \/ SourceTooShort(j) \/ SourceTooLong(j)
           \/ LoseReceiver(j) \/ Abort(j)
  BY <1>1, <1>5, LeavingKeeps
<1>6. CASE ReadResume(j) \/ ReadChunkHashes(j)
  BY <1>1, <1>6, RecordsKeep
<1>7. CASE ScanChunk(j)
  BY <1>1, <1>7, ScanKeeps
<1>8. CASE SendComplete(j)
  BY <1>1, <1>8, CompleteKeeps
<1>9. CASE EditSource(j)
  BY <1>9, EditKeeps DEF EditSource, wireVars, receiverVars
<1>10. QED
  BY <1>2, <1>3, <1>4, <1>5, <1>6, <1>7, <1>8, <1>9 DEF SenderRuns, SenderDisturbed

-----------------------------------------------------------------------------
(* A step of the receiver, on the connection it goes on serving. *)
LEMMA Remains ==
    ASSUME Typed, SessionInv, UNCHANGED senderVars, Serving,
           rcv'.conn = rcv.conn, rcv'.pc \notin {"down", "accept"},
           Same(net, net', rcv.conn)
    PROVE  /\ ConnInv' /\ JobInv' /\ ScanInv'
           /\ PeerInv /\ rcv.conn \in Conns /\ Job \in Jobs
           /\ Serving' /\ Job' = Job /\ snd' = snd /\ (Attached' <=> Attached)
           /\ net'[rcv.conn].cut = net[rcv.conn].cut
           /\ Sent = net[rcv.conn].up /\ Answered = net[rcv.conn].down
           /\ Sent' = net'[rcv.conn].up /\ Answered' = net'[rcv.conn].down
<1>1. rcv.conn \in Conns /\ Job \in Jobs
  BY Names DEF Typed
<1>2. /\ \A d \in Conns \ {rcv.conn} : net'[d] = net[d]
      /\ \A d \in Conns : net'[d].rcvEnd = net[d].rcvEnd
      /\ net'[rcv.conn].cut = net[rcv.conn].cut
  BY DEF Same
<1>3. /\ snd' = snd /\ Serving' /\ Job' = Job
      /\ \A i : Live(i)' = Live(i) /\ Conn(i)' = Conn(i)
  BY DEF senderVars, Serving, Job, Live, Conn
<1>4. net[rcv.conn].rcvEnd = "accepted"
  BY <1>1 DEF SessionInv, ConnInv
<1>5. ConnInv'
  <2>1. ASSUME NEW d \in Conns
        PROVE  /\ net'[d].rcvEnd = "accepted" <=> Serving' /\ d = rcv'.conn
               /\ net'[d].rcvEnd = "backlog" =>
                     net'[d].down = <<>> /\ net'[d].up \in {<<>>, << Bare("HELLO") >>}
               /\ snd'[d[1]].attempt < d[2] => net'[d].rcvEnd = "none"
    <3>1. /\ net[d].rcvEnd = "accepted" <=> Serving /\ d = rcv.conn
          /\ net[d].rcvEnd = "backlog" =>
                net[d].down = <<>> /\ net[d].up \in {<<>>, << Bare("HELLO") >>}
          /\ snd[d[1]].attempt < d[2] => net[d].rcvEnd = "none"
      BY DEF SessionInv, ConnInv
    <3>2. net'[d].rcvEnd = net[d].rcvEnd /\ (d # rcv.conn => net'[d] = net[d])
      BY <1>2
    <3>3. net'[d].rcvEnd = "backlog" =>
             net'[d].down = <<>> /\ net'[d].up \in {<<>>, << Bare("HELLO") >>}
      <4>1. CASE d # rcv.conn
        BY <3>1, <3>2, <4>1
      <4>2. CASE d = rcv.conn
        BY <1>4, <3>2, <4>2
      <4>3. QED
        BY <4>1, <4>2
    <3>4. QED
      BY <1>3, <3>1, <3>2, <3>3
  <2>2. QED
    BY <2>1 DEF ConnInv
<1>6. JobInv'
  <2>1. \A i \in Jobs : net'[Conn(i)].rcvEnd = net[Conn(i)].rcvEnd
    BY <1>2, Names
  <2>2. QED
    BY <1>3, <2>1 DEF SessionInv, JobInv
<1>7. ScanInv'
  BY <1>3 DEF SessionInv, ScanInv
<1>8. Attached' <=> Attached
  BY <1>3 DEF Attached
<1>9. Sent = net[rcv.conn].up /\ Answered = net[rcv.conn].down
  BY DEF Sent, Answered
<1>10. Sent' = net'[rcv.conn].up /\ Answered' = net'[rcv.conn].down
  <2>1. \A x : rcv'.conn = x => Sent' = net'[x].up /\ Answered' = net'[x].down
    BY DEF Sent, Answered
  <2>2. QED
    BY <2>1
<1>11. QED
  BY <1>1, <1>2, <1>3, <1>5, <1>6, <1>7, <1>8, <1>9, <1>10 DEF SessionInv

(* Once it neither reads nor has anything to verify, it owes nothing. *)
Owing == {"hello", "offer", "verify"} \cup Early \cup Chunking

LEMMA NothingOwed ==
    ASSUME rcv'.pc \notin Owing
    PROVE  PeerInv'
BY DEF PeerInv, Owing, At

LEMMA TurnsAway ==
    ASSUME Typed, SessionInv, UNCHANGED senderVars,
           \/ ReceiptConflicts \/ FinalReconciled \/ PartReconciled
           \/ VerifyFile \/ PublishReceipt \/ Link \/ Promoted \/ CleanUp \/ LoseSender
           \/ StorageFails /\ rcv'.pc # "prepare"
    PROVE  SessionInv'
<1>0. ReceiverTypeOK
  BY DEF Typed
<1>1. /\ rcv.pc \notin {"down", "accept"} /\ rcv'.conn = rcv.conn /\ net' = net
      /\ rcv'.pc \in {"close", "verified", "link", "publish", "promoted", "cleanup"}
  <2>1. CASE ReceiptConflicts \/ FinalReconciled \/ PartReconciled
    BY <1>0, <2>1 DEF ReceiptConflicts, FinalReconciled, PartReconciled, Step, At,
                      ReceiverTypeOK, wireVars
  <2>2. CASE VerifyFile \/ PublishReceipt
    BY <1>0, <2>2 DEF VerifyFile, PublishReceipt, Step, At, ReceiverTypeOK, wireVars
  <2>3. CASE Link \/ Promoted \/ CleanUp
    BY <1>0, <2>3 DEF Link, Promoted, CleanUp, Step, At, ReceiverTypeOK, wireVars
  <2>4. CASE LoseSender
    BY <1>0, <2>4 DEF LoseSender, Step, ReceiverTypeOK, wireVars, Waiting
  <2>5. CASE StorageFails /\ rcv'.pc # "prepare"
    <3>1. PICK pc \in AfterStorageError : rcv' = [rcv EXCEPT !.pc = pc, !.prior = None]
      BY <2>5 DEF StorageFails
    <3>2. rcv'.pc = pc /\ rcv'.conn = rcv.conn
      BY <1>0, <3>1 DEF ReceiverTypeOK
    <3>3. pc \in {"verified", "close", "prepare"}
      BY <3>1 DEF AfterStorageError
    <3>4. QED
      BY <2>5, <3>2, <3>3 DEF StorageFails, Working
  <2>6. QED
    BY <2>1, <2>2, <2>3, <2>4, <2>5
<1>2. Serving /\ rcv'.pc \notin {"down", "accept"} /\ Same(net, net', rcv.conn)
  BY <1>1 DEF Serving, Same
<1>3. rcv'.pc \notin Owing
  BY <1>1 DEF Owing, Early, Chunking
<1>4. QED
  BY <1>1, <1>2, <1>3, Remains, NothingOwed DEF SessionInv

(* A connection is taken from the backlog. *)
LEMMA AcceptKeeps ==
    ASSUME Typed, SessionInv, UNCHANGED senderVars, NEW c \in Conns, Accept(c)
    PROVE  SessionInv'
<1>1. /\ ~ Serving /\ net[c].rcvEnd = "backlog" /\ Serving'
      /\ rcv'.pc = "hello" /\ rcv'.conn = c
  BY DEF Accept, Serving, At, Idle
<1>2. /\ \A d \in Conns \ {c} : net'[d] = net[d]
      /\ net'[c].rcvEnd = "accepted"
      /\ net'[c].up = net[c].up /\ net'[c].down = net[c].down
  BY DEF Accept, Typed, AnyLink, Ends
<1>3. /\ snd' = snd
      /\ \A i : Live(i)' = Live(i) /\ Conn(i)' = Conn(i)
  BY DEF senderVars, Live, Conn
<1>4. net[c].down = <<>> /\ net[c].up \in {<<>>, << Bare("HELLO") >>}
  BY <1>1 DEF SessionInv, ConnInv
<1>5. ConnInv'
  <2>1. ASSUME NEW d \in Conns
        PROVE  /\ net'[d].rcvEnd = "accepted" <=> Serving' /\ d = rcv'.conn
               /\ net'[d].rcvEnd = "backlog" =>
                     net'[d].down = <<>> /\ net'[d].up \in {<<>>, << Bare("HELLO") >>}
               /\ snd'[d[1]].attempt < d[2] => net'[d].rcvEnd = "none"
    <3>1. /\ net[d].rcvEnd # "accepted"
          /\ net[d].rcvEnd = "backlog" =>
                net[d].down = <<>> /\ net[d].up \in {<<>>, << Bare("HELLO") >>}
          /\ snd[d[1]].attempt < d[2] => net[d].rcvEnd = "none"
      BY <1>1 DEF SessionInv, ConnInv
    <3>2. CASE d # c
      BY <1>1, <1>2, <1>3, <3>1, <3>2
    <3>3. CASE d = c
      BY <1>1, <1>2, <1>3, <3>1, <3>3
    <3>4. QED
      BY <3>2, <3>3
  <2>2. QED
    BY <2>1 DEF ConnInv
<1>6. JobInv'
  <2>1. ASSUME NEW i \in Jobs
        PROVE  /\ snd[i].pc \in {"idle", "connect"} => net'[Conn(i)].rcvEnd = "none"
               /\ Live(i) => net'[Conn(i)].rcvEnd # "none"
               /\ Live(i) /\ net'[Conn(i)].rcvEnd = "backlog" => snd[i].pc = "hello"
    <3>1. /\ snd[i].pc \in {"idle", "connect"} => net[Conn(i)].rcvEnd = "none"
          /\ Live(i) => net[Conn(i)].rcvEnd # "none"
          /\ Live(i) /\ net[Conn(i)].rcvEnd = "backlog" => snd[i].pc = "hello"
          /\ Conn(i) \in Conns
      BY Names DEF SessionInv, JobInv
    <3>2. CASE Conn(i) # c
      BY <1>2, <3>1, <3>2
    <3>3. CASE Conn(i) = c
      BY <1>1, <1>2, <3>1, <3>3
    <3>4. QED
      BY <3>2, <3>3
  <2>2. QED
    BY <1>3, <2>1 DEF JobInv
<1>7. ScanInv'
  BY <1>3 DEF SessionInv, ScanInv
<1>8. HelloInv'
  <2>1. Sent' = net[c].up /\ Answered' = net[c].down
    <3>1. \A x : rcv'.conn = x => Sent' = net'[x].up /\ Answered' = net'[x].down
      BY DEF Sent, Answered
    <3>2. QED
      BY <1>1, <1>2, <3>1
  <2>2. ASSUME Attached' PROVE snd'[Job'].pc = "hello"
    <3>1. Job' = c[1] /\ Job' \in Jobs
      BY <1>1, Names DEF Job
    <3>2. Live(Job') /\ Conn(Job') = c
      <4>1. \A i : i = Job' => Live(i)' /\ Conn(i)' = rcv'.conn
        BY <2>2 DEF Attached
      <4>2. QED
        BY <1>1, <1>3, <4>1
    <3>3. QED
      BY <1>1, <1>3, <3>1, <3>2 DEF SessionInv, JobInv
  <2>3. QED
    BY <1>4, <2>1, <2>2 DEF HelloInv
<1>9. PeerInv'
  BY <1>1, <1>8 DEF PeerInv, At, Early, Chunking
<1>10. QED
  BY <1>5, <1>6, <1>7, <1>9 DEF SessionInv

(* The receiver lets go of its connection, or of all of them. *)
LEMMA FreeKeeps ==
    ASSUME Typed, SessionInv, UNCHANGED senderVars,
           SendVerified \/ Close \/ Crash \/ Restart
    PROVE  SessionInv'
<1>1. ~ Serving' /\ rcv'.pc \notin Owing
  <2>1. CASE SendVerified \/ Close \/ Crash
    <3>1. rcv'.pc \in {"accept", "down"}
      <4>1. CASE SendVerified \/ Close
        BY <4>1 DEF SendVerified, Close, Finish, Idle
      <4>2. CASE Crash
        BY <4>2 DEF Crash, Idle
      <4>3. QED
        BY <2>1, <4>1, <4>2
    <3>2. QED
      BY <3>1 DEF Serving, Owing, Early, Chunking
  <2>2. CASE Restart
    <3>1. rcv'.pc = "accept"
      BY <2>2 DEF Restart, Step, Typed, ReceiverTypeOK
    <3>2. QED
      BY <3>1 DEF Serving, Owing, Early, Chunking
  <2>3. QED
    BY <2>1, <2>2
<1>2. /\ snd' = snd
      /\ \A i : Live(i)' = Live(i) /\ Conn(i)' = Conn(i)
  BY DEF senderVars, Live, Conn
<1>3. \A d \in Conns :
         \/ net'[d] = net[d] /\ net[d].rcvEnd # "accepted"
         \/ net[d].rcvEnd \in {"backlog", "accepted"} /\ net'[d].rcvEnd = "closed"
  <2>1. CASE SendVerified \/ Close
    <3>1. Serving /\ rcv.conn \in Conns /\ net[rcv.conn].rcvEnd = "accepted"
      BY <2>1 DEF SendVerified, Close, At, Serving, Typed, SessionInv, ConnInv
    <3>2. PICK n : /\ n \in [Conns -> AnyLink]
                   /\ \A d \in Conns \ {rcv.conn} : n[d] = net[d]
                   /\ net' = DropReceiver(n, rcv.conn)
      <4>1. CASE Close
        <5>1. net \in [Conns -> AnyLink] /\ net' = DropReceiver(net, rcv.conn)
          BY <4>1 DEF Close, Finish, Typed
        <5>2. QED
          BY <5>1
      <4>2. CASE SendVerified
        <5>1. PICK n : n = Down(net, rcv.conn, Bare("VERIFIED"))
          OBVIOUS
        <5>2. net \in [Conns -> AnyLink] /\ Bare("VERIFIED") \in Frames03
          BY FramesAreFrames DEF Typed
        <5>3. \A d \in Conns \ {rcv.conn} : n[d] = net[d]
          <6>1. Same(net, Down(net, rcv.conn, Bare("VERIFIED")), rcv.conn)
            BY <3>1, <5>2, WriteFields
          <6>2. QED
            BY ONLY <5>1, <6>1 DEF Same
        <5>4. n \in [Conns -> AnyLink]
          <6>1. net[rcv.conn] \in AnyLink /\ Append(net[rcv.conn].down, Bare("VERIFIED")) \in Seq(Frames03)
            <7>1. net[rcv.conn] \in AnyLink /\ net[rcv.conn].down \in Seq(Frames03)
              BY <3>1, <5>2 DEF AnyLink, Ends
            <7> HIDE DEF Frames03
            <7>2. QED
              BY <5>2, <7>1, AppendProperties
          <6>2. QED
            BY <3>1, <5>1, <5>2, <6>1 DEF Down, AnyLink, Ends
        <5>5. net' = DropReceiver(n, rcv.conn)
          BY <4>2, <5>1 DEF SendVerified, Finish
        <5>6. QED
          BY <5>3, <5>4, <5>5
      <4>3. QED
        BY <2>1, <4>1, <4>2
    <3>3. /\ \A d \in Conns \ {rcv.conn} : net'[d] = net[d]
          /\ net'[rcv.conn].rcvEnd = "closed"
      BY <3>1, <3>2, DropFields
    <3>4. \A d \in Conns \ {rcv.conn} : net[d].rcvEnd # "accepted"
      BY DEF SessionInv, ConnInv
    <3>5. QED
      BY <3>1, <3>3, <3>4
  <2>2. CASE Crash
    <3>1. PICK arrives \in BOOLEAN :
             net' = [c \in Conns |->
                       IF net[c].rcvEnd \in {"backlog", "accepted"}
                       THEN [net[c] EXCEPT !.rcvEnd = "closed", !.up = <<>>,
                                           !.down = IF arrives THEN @ ELSE <<>>]
                       ELSE net[c]]
      BY <2>2 DEF Crash
    <3>2. QED
      BY <3>1 DEF Typed, AnyLink, Ends
  <2>3. CASE Restart
    BY <2>3 DEF Restart, At, Serving, SessionInv, ConnInv
  <2>4. QED
    BY <2>1, <2>2, <2>3
<1>4. ConnInv'
  <2>1. ASSUME NEW d \in Conns
        PROVE  /\ net'[d].rcvEnd # "accepted"
               /\ net'[d].rcvEnd = "backlog" =>
                     net'[d].down = <<>> /\ net'[d].up \in {<<>>, << Bare("HELLO") >>}
               /\ snd'[d[1]].attempt < d[2] => net'[d].rcvEnd = "none"
    <3>1. /\ net[d].rcvEnd = "backlog" =>
                net[d].down = <<>> /\ net[d].up \in {<<>>, << Bare("HELLO") >>}
          /\ snd[d[1]].attempt < d[2] => net[d].rcvEnd = "none"
      BY DEF SessionInv, ConnInv
    <3>2. QED
      BY <1>2, <1>3, <3>1
  <2>2. QED
    BY <1>1, <2>1 DEF ConnInv
<1>5. JobInv'
  <2>1. ASSUME NEW i \in Jobs
        PROVE  /\ snd[i].pc \in {"idle", "connect"} => net'[Conn(i)].rcvEnd = "none"
               /\ Live(i) => net'[Conn(i)].rcvEnd # "none"
               /\ Live(i) /\ net'[Conn(i)].rcvEnd = "backlog" => snd[i].pc = "hello"
    <3>1. /\ snd[i].pc \in {"idle", "connect"} => net[Conn(i)].rcvEnd = "none"
          /\ Live(i) => net[Conn(i)].rcvEnd # "none"
          /\ Live(i) /\ net[Conn(i)].rcvEnd = "backlog" => snd[i].pc = "hello"
          /\ Conn(i) \in Conns
      BY Names DEF SessionInv, JobInv
    <3>2. QED
      BY <1>3, <3>1
  <2>2. QED
    BY <1>2, <2>1 DEF JobInv
<1>6. ScanInv'
  BY <1>2 DEF SessionInv, ScanInv
<1>7. QED
  BY <1>1, <1>4, <1>5, <1>6, NothingOwed DEF SessionInv

(* A frame is read, and another may answer it. *)
LEMMA Answers ==
    ASSUME Typed, NEW c \in Conns, net[c].up # <<>>, NEW f
    PROVE  /\ Same(net, Down(TakeUp(net, c), c, f), c)
           /\ Down(TakeUp(net, c), c, f)[c].up = Tail(net[c].up)
           /\ Down(TakeUp(net, c), c, f)[c].down =
                 IF SenderGone(c) THEN net[c].down ELSE Append(net[c].down, f)
           /\ Same(net, TakeUp(net, c), c)
           /\ TakeUp(net, c)[c].up = Tail(net[c].up)
           /\ TakeUp(net, c)[c].down = net[c].down
<1> DEFINE n == TakeUp(net, c)
           m == Down(n, c, f)
<1>1. net \in [Conns -> AnyLink]
  BY DEF Typed
<1>2. /\ n \in [Conns -> AnyLink] /\ Same(net, n, c)
      /\ n[c].up = Tail(net[c].up) /\ n[c].down = net[c].down
  BY <1>1, TakeFields
<1> HIDE DEF n
<1>3. /\ Same(n, m, c) /\ m[c].up = n[c].up
      /\ m[c].down = IF SenderGone(c) THEN n[c].down ELSE Append(n[c].down, f)
  BY <1>2, WriteFields
<1> HIDE DEF m
<1>4. Same(net, m, c)
  BY <1>2, <1>3 DEF Same
<1>5. QED
  BY <1>2, <1>3, <1>4 DEF n, m

LEMMA HelloKeeps ==
    ASSUME Typed, SessionInv, UNCHANGED senderVars, AnswerHello
    PROVE  SessionInv'
<1> DEFINE c == rcv.conn
<1>1. /\ Serving /\ At("hello") /\ net[c].up # <<>>
      /\ rcv'.conn = rcv.conn /\ rcv'.pc = "offer"
      /\ net' = Down(TakeUp(net, c), c, Bare("HELLO_ACK"))
  BY DEF AnswerHello, Gets, NextUp, At, Step, Serving, Typed, ReceiverTypeOK
<1>2. c \in Conns
  BY <1>1 DEF Typed
<1>3. /\ Same(net, net', c)
      /\ net'[c].up = Tail(net[c].up)
      /\ net'[c].down = IF SenderGone(c) THEN net[c].down
                        ELSE Append(net[c].down, Bare("HELLO_ACK"))
  <2> HIDE DEF c
  <2>1. QED
    BY <1>1, <1>2, Answers
<1>4. /\ ConnInv' /\ JobInv' /\ ScanInv'
      /\ PeerInv /\ Job' = Job /\ snd' = snd /\ (Attached' <=> Attached)
      /\ Sent = net[c].up /\ Answered = net[c].down
      /\ Sent' = net'[c].up /\ Answered' = net'[c].down
  BY <1>1, <1>3, Remains
<1>5. Sent = << Bare("HELLO") >> /\ (Attached => snd[Job].pc = "hello" /\ Answered = <<>>)
  BY <1>1, <1>4 DEF PeerInv, HelloInv
<1> HIDE DEF c
<1>6. Sent' = <<>>
  BY <1>3, <1>4, <1>5, One
<1>7. Attached => Answered' \in {<<>>, << Bare("HELLO_ACK") >>}
  BY <1>3, <1>4, <1>5, One
<1>8. OfferInv'
  BY <1>4, <1>5, <1>6, <1>7 DEF OfferInv
<1>9. PeerInv'
  BY <1>1, <1>8 DEF PeerInv, At, Early, Chunking
<1>10. QED
  BY <1>4, <1>9 DEF SessionInv

LEMMA ReadOfferKeeps ==
    ASSUME Typed, SessionInv, UNCHANGED senderVars, ReadOffer
    PROVE  SessionInv'
<1> DEFINE c == rcv.conn
<1>1. /\ Serving /\ At("offer") /\ net[c].up # <<>> /\ Frame = Head(net[c].up)
      /\ rcv'.conn = rcv.conn /\ rcv'.pc = "reconcile" /\ rcv'.size = Frame.size
      /\ net' = TakeUp(net, c)
  BY DEF ReadOffer, Gets, NextUp, At, Serving, TakeFrame, Frame, Typed, ReceiverTypeOK
<1>2. c \in Conns
  BY <1>1 DEF Typed
<1>3. /\ Same(net, net', c)
      /\ net'[c].up = Tail(net[c].up)
      /\ net'[c].down = net[c].down
  <2> HIDE DEF c
  <2>1. QED
    BY <1>1, <1>2, Answers
<1>4. /\ ConnInv' /\ JobInv' /\ ScanInv'
      /\ PeerInv /\ Job' = Job /\ snd' = snd /\ (Attached' <=> Attached)
      /\ Sent = net[c].up /\ Answered = net[c].down
      /\ Sent' = net'[c].up /\ Answered' = net'[c].down
  BY <1>1, <1>3, Remains
<1>5. OfferInv /\ Sent # <<>>
  BY <1>1, <1>4 DEF PeerInv
<1> HIDE DEF c
<1>6. PICK size \in Nat : Sent = << Offer(size) >>
  BY <1>5 DEF OfferInv, IsOffer
<1>7. Sent' = <<>>
  BY <1>3, <1>4, <1>6, One
<1>8. Attached => /\ snd[Job].pc = "offered" /\ Sent = << Offer(snd[Job].size) >>
                  /\ Answered = <<>>
  BY <1>5 DEF OfferInv
<1>9. Attached => Frame = Offer(snd[Job].size)
  BY <1>1, <1>4, <1>8, One
<1>10. Attached => rcv'.size = snd[Job].size
  BY <1>1, <1>9 DEF Offer
<1>11. EarlyInv'
  BY <1>3, <1>4, <1>7, <1>8, <1>10 DEF EarlyInv
<1>12. PeerInv'
  BY <1>1, <1>11 DEF PeerInv, At, Chunking
<1>13. QED
  BY <1>4, <1>12 DEF SessionInv

(* While the receiver looks at its disk, the sender waits for it. *)
LEMMA EarlyKeeps ==
    ASSUME Typed, SessionInv, UNCHANGED senderVars,
           \/ NotReconciled \/ LoadInventory \/ OpenPart \/ ResizePart
           \/ StorageFails /\ rcv'.pc = "prepare"
    PROVE  SessionInv'
<1>0. ReceiverTypeOK
  BY DEF Typed
<1>1. /\ rcv.pc \in Early /\ rcv'.pc \in Early /\ rcv'.conn = rcv.conn
      /\ rcv'.size = rcv.size /\ net' = net
  <2>1. CASE NotReconciled \/ LoadInventory
    BY <1>0, <2>1 DEF NotReconciled, LoadInventory, Step, At, ReceiverTypeOK, wireVars, Early
  <2>2. CASE OpenPart \/ ResizePart
    BY <1>0, <2>2 DEF OpenPart, ResizePart, Step, At, ReceiverTypeOK, wireVars, Early
  <2>3. CASE StorageFails /\ rcv'.pc = "prepare"
    <3>1. PICK pc \in AfterStorageError : rcv' = [rcv EXCEPT !.pc = pc, !.prior = None]
      BY <2>3 DEF StorageFails
    <3>2. rcv'.pc = pc /\ rcv'.conn = rcv.conn /\ rcv'.size = rcv.size
      BY <1>0, <3>1 DEF ReceiverTypeOK
    <3>3. pc = "prepare" => At("reconcile")
      BY <3>1 DEF AfterStorageError
    <3>4. QED
      BY <2>3, <3>2, <3>3 DEF StorageFails, At, Early
  <2>4. QED
    BY <2>1, <2>2, <2>3
<1>2. /\ Serving /\ rcv'.pc \notin {"down", "accept"} /\ Same(net, net', rcv.conn)
  BY <1>1 DEF Serving, Same, Early
<1>3. /\ ConnInv' /\ JobInv' /\ ScanInv'
      /\ PeerInv /\ Job' = Job /\ snd' = snd /\ (Attached' <=> Attached)
      /\ Sent' = Sent /\ Answered' = Answered
  BY <1>1, <1>2, Remains
<1>4. EarlyInv'
  BY <1>1, <1>3 DEF PeerInv, EarlyInv
<1>5. PeerInv'
  BY <1>1, <1>4 DEF PeerInv, At, Early, Chunking
<1>6. QED
  BY <1>3, <1>5 DEF SessionInv

(* The records that are offered are those the receiver has. *)
LEMMA OrderedAmong ==
    ASSUME NEW known \in SUBSET Record, IsFiniteSet(known), NEW all \in InOrder(known)
    PROVE  Inventory(all) \in Seq(Frames03) /\ OfferedAmong(Inventory(all), known)
<1>1. all \in Seq(Record) /\ Len(all) \in Nat
  BY OrderTypes, LenProperties
<1>2. \A k \in 1 .. Len(all) : all[k] \in known
  <2>1. all \in [1 .. Cardinality(known) -> known] /\ Len(all) = Cardinality(known)
    BY OrderTypes DEF InOrder
  <2>2. QED
    BY <2>1
<1> DEFINE count == (Len(all) + MaxBatch - 1) \div MaxBatch
           first(b) == (b - 1) * MaxBatch + 1
           last(b) == IF b * MaxBatch <= Len(all) THEN b * MaxBatch ELSE Len(all)
           batch(b) == [type |-> "CHUNK_HASHES", records |-> SubSeq(all, first(b), last(b))]
           resume == [type |-> "RESUME", count |-> Len(all)]
<1>3. count \in Nat
  BY <1>1, ChunksAssumption
<1>4. ASSUME NEW b \in 1 .. count PROVE Among(batch(b).records, known) /\ batch(b) \in Frames03
  <2>1. b \in Nat \ {0}
    BY <1>3
  <2>2. batch(b).records \in Seq(Record)
    BY <1>1, <2>1, BatchTypes
  <2>3. batch(b) \in Frames03
    BY <2>2 DEF Frames03
  <2>4. b * MaxBatch \in Nat /\ (b - 1) * MaxBatch \in Nat
    BY <1>1, <2>1, BatchTypes
  <2>5. first(b) \in Nat \ {0} /\ last(b) \in Nat /\ last(b) <= Len(all)
    BY <1>1, <2>4
  <2>6. PICK s : s = SubSeq(all, first(b), last(b))
    OBVIOUS
  <2>7. batch(b).records = s
    BY <2>6
  <2> HIDE DEF first, last, batch
  <2>8. \A k \in first(b) .. last(b) : all[k] \in known
    BY <1>1, <1>2, <2>5
  <2>9. s \in Seq(known)
    BY <2>5, <2>6, <2>8, SubSeqProperties
  <2>10. \A k \in 1 .. Len(s) : s[k] \in known
    BY <2>9, ElementOfSeq
  <2>11. QED
    BY <2>3, <2>7, <2>10 DEF Among
<1>5. HashBatches(all) = [b \in 1 .. count |-> batch(b)]
  BY DEF HashBatches
<1>6. PICK fs : fs = HashBatches(all)
  OBVIOUS
<1>7. resume \in Frames03 /\ resume.type = "RESUME"
  BY <1>1 DEF Frames03
<1> HIDE DEF count, batch, resume
<1>8. fs \in Seq(Frames03) /\ Len(fs) = count /\ \A b \in 1 .. count : fs[b] = batch(b)
  <2>1. fs \in Seq(Frames03)
    BY <1>3, <1>4, <1>5, <1>6, IsASeq
  <2>2. fs = [b \in 1 .. count |-> batch(b)]
    BY <1>5, <1>6
  <2>3. Len(fs) = count
    BY <1>3, <2>1, <2>2, LenProperties
  <2>4. QED
    BY <2>1, <2>2, <2>3
<1>9. PICK one : one = << resume >>
  OBVIOUS
<1>10. one \in Seq(Frames03) /\ Len(one) = 1 /\ one[1] = resume
  <2> HIDE DEF Frames03
  <2>1. QED
    BY <1>7, <1>9, One
<1>11. PICK a : a = one \o fs
  OBVIOUS
<1>12. /\ a \in Seq(Frames03)
       /\ \A n \in 1 .. Len(one) : a[n] = one[n]
       /\ \A n \in 1 .. Len(a) :
             n \in 1 .. Len(one) \/ (n - Len(one) \in 1 .. Len(fs) /\ a[n] = fs[n - Len(one)])
  BY <1>8, <1>10, <1>11, Joined
<1>13. ASSUME NEW n \in 1 .. Len(a), a[n].type = "CHUNK_HASHES"
       PROVE  Among(a[n].records, known)
  <2>1. n \notin 1 .. Len(one)
    <3>1. \A k \in 1 .. Len(one) : one[k] = resume
      BY <1>10
    <3>2. QED
      BY <1>7, <1>12, <1>13, <3>1
  <2>2. n - Len(one) \in 1 .. count /\ a[n] = batch(n - Len(one))
    BY <1>8, <1>12, <2>1
  <2>3. QED
    BY <1>4, <2>2
<1>14. OfferedAmong(a, known)
  BY <1>13 DEF OfferedAmong
<1>15. Inventory(all) = a
  BY <1>6, <1>9, <1>11 DEF Inventory, resume
<1>16. QED
  BY <1>12, <1>14, <1>15

LEMMA InventoryKeeps ==
    ASSUME Inv, HeldInv, Typed, SessionInv, UNCHANGED senderVars, SendInventory
    PROVE  SessionInv'
<1> DEFINE c == rcv.conn
<1>1. /\ Serving /\ rcv.pc = "negotiate" /\ rcv'.pc = "inventory"
      /\ rcv'.conn = rcv.conn /\ rcv'.size = rcv.size /\ rcv'.known = rcv.known
      /\ rcv'.active = rcv.active /\ rcv.active = None
  BY DEF SendInventory, At, Step, Serving, Typed, ReceiverTypeOK, HeldInv, Opening
<1>2. c \in Conns /\ rcv.known \in SUBSET Record /\ IsFiniteSet(rcv.known)
  BY <1>1 DEF Inv, ReceiverInv, StepInv, ReceiverTypeOK
<1>3. PICK all \in InOrder(rcv.known) : net' = DownAll(net, c, Inventory(all))
  BY DEF SendInventory
<1>4. Inventory(all) \in Seq(Frames03) /\ OfferedAmong(Inventory(all), rcv.known)
  BY <1>2, OrderedAmong
<1>5. /\ Same(net, net', c) /\ net'[c].up = net[c].up
      /\ net'[c].down = IF SenderGone(c) THEN net[c].down ELSE net[c].down \o Inventory(all)
  <2>1. net \in [Conns -> AnyLink]
    BY DEF Typed
  <2> HIDE DEF c
  <2>2. QED
    BY <1>2, <1>3, <2>1, WriteFields
<1>6. /\ ConnInv' /\ JobInv' /\ ScanInv' /\ Job \in Jobs
      /\ PeerInv /\ Job' = Job /\ snd' = snd /\ (Attached' <=> Attached)
      /\ Sent = net[c].up /\ Answered = net[c].down
      /\ Sent' = net'[c].up /\ Answered' = net'[c].down
  BY <1>1, <1>5, Remains
<1>7. /\ Sent = <<>>
      /\ Attached => snd[Job].pc = "offered" /\ Answered = <<>> /\ snd[Job].size = rcv.size
  BY <1>1, <1>6 DEF PeerInv, EarlyInv, Early
<1>8. Attached => snd[Job].read = <<>> /\ snd[Job].records = <<>>
  BY <1>6, <1>7 DEF SessionInv, ScanInv
<1> HIDE DEF c
<1>9. Attached => OfferedAmong(Answered', rcv.known)
  <2>1. PICK fs : fs = Inventory(all)
    OBVIOUS
  <2>2. fs \in Seq(Frames03) /\ OfferedAmong(fs, rcv.known)
    BY <1>4, <2>1
  <2>3. <<>> \o fs = fs
    <3> HIDE DEF Frames03
    <3>1. QED
      BY <2>2, ConcatEmptySeq
  <2>4. QED
    BY <1>5, <1>6, <1>7, <2>1, <2>2, <2>3, NoneComes
<1>10. ListInv'
  <2>1. Among(<<>>, rcv.known)
    BY NoneComes
  <2>2. QED
    BY <1>1, <1>5, <1>6, <1>7, <1>8, <1>9, <2>1 DEF ListInv, At
<1>11. Stream(<<>>)'
  <2>1. ComesOf(rcv.size, <<>>, <<>>) /\ ~ Announces(<<>>)
    BY NoneComes
  <2>2. BytesIn(part', <<>>, Sent')
    BY NothingRead
  <2>3. QED
    BY <1>1, <1>5, <1>6, <1>7, <1>8, <2>1, <2>2 DEF Stream
<1>12. <<>> \in Content
  BY EmptySeq DEF Content
<1>13. PeerInv'
  BY <1>1, <1>10, <1>11, <1>12 DEF PeerInv, StreamInv, At, Early
<1>14. QED
  BY <1>6, <1>13 DEF SessionInv

-----------------------------------------------------------------------------
(* The chunks arrive. *)
LEMMA RestBrings ==
    ASSUME NEW up \in Seq(Frames03), up # <<>>, NEW size, NEW read, ComesOf(size, read, up),
           Head(up).type # "DATA", NEW file, BytesIn(file, read, up)
    PROVE  BytesIn(file, read, Tail(up))
<1>1. \A o : Brings(up, o) => Brings(Tail(up), o)
  BY RestComes
<1>2. QED
  BY <1>1 DEF BytesIn

LEMMA DataLands ==
    ASSUME NEW up \in Seq(Frames03), up # <<>>, NEW size, NEW read \in Content,
           ComesOf(size, read, up), Head(up).type = "DATA", NEW file \in Content,
           Len(read) <= Len(file), Head(up).offset + 1 \in 1 .. Len(file),
           BytesIn(file, read, up)
    PROVE  BytesIn([file EXCEPT ![Head(up).offset + 1] = Head(up).block], read, Tail(up))
<1> DEFINE f == Head(up)
           o == f.offset
           file2 == [file EXCEPT ![o + 1] = f.block]
<1>1. f.offset \in Nat /\ f.block \in Blocks
  <2>1. f \in Frames03
    BY TakeFirst
  <2>2. QED
    BY <2>1, FrameFields
<1>2. f.block = read[o + 1]
  BY FirstComes
<1>3. \A p : Brings(up, p) => Brings(Tail(up), p) \/ o = p
  BY RestComes
<1>4. file \in Seq(Blocks) /\ Len(file) \in Nat /\ Len(read) \in Nat
  BY LenProperties DEF Content
<1>5. /\ file2[o + 1] = f.block
      /\ \A k \in 1 .. Len(file) : k # o + 1 => file2[k] = file[k]
  BY <1>1, <1>4, ExceptSeq
<1> HIDE DEF file2, f
<1>6. ASSUME NEW k \in 1 .. Len(read)
      PROVE  Brings(Tail(up), k - 1) \/ file2[k] = read[k]
  <2>1. Brings(up, k - 1) \/ file[k] = read[k]
    BY DEF BytesIn
  <2>2. CASE k = o + 1
    BY <1>2, <1>5, <2>2
  <2>3. CASE k # o + 1
    <3>1. o # k - 1 /\ k \in 1 .. Len(file)
      BY <1>1, <1>4, <2>3
    <3>2. QED
      BY <1>3, <1>5, <2>1, <2>3, <3>1
  <2>4. QED
    BY <2>2, <2>3
<1>7. QED
  BY <1>6 DEF BytesIn, file2, f

LEMMA WholeIsRead ==
    ASSUME NEW read \in Content, NEW file \in Content, Len(file) = Len(read), NEW up,
           BytesIn(file, read, up), \A o : ~ Brings(up, o)
    PROVE  file = read
<1>1. read \in Seq(Blocks) /\ file \in Seq(Blocks)
  BY DEF Content
<1>2. \A k \in 1 .. Len(file) : file[k] = read[k]
  BY DEF BytesIn
<1>3. QED
  BY <1>1, <1>2, SeqEqual

LEMMA ListKept ==
    ASSUME ListInv, snd' = snd, Job' = Job, Attached' <=> Attached,
           rcv'.size = rcv.size, rcv'.known = rcv.known, Sent # <<>> \/ ~ At("inventory")
    PROVE  ListInv'
BY DEF ListInv

(* What there is of the file when it may be told from what was sent. *)
LEMMA ReadFits ==
    ASSUME Typed, SessionInv, Serving, NEW read, Stream(read), ListInv,
           Announces(Sent) \/ (Attached /\ snd[Job].pc \in {"scan", "complete"})
    PROVE  Len(read) <= rcv.size
<1>1. rcv.size \in Nat /\ Job \in Jobs
  BY Names DEF Typed, ReceiverTypeOK
<1>2. CASE Announces(Sent)
  <2>1. Len(read) = rcv.size
    BY <1>2 DEF Stream, ComesOf, Announces
  <2>2. QED
    BY <1>1, <2>1
<1>3. CASE Attached /\ snd[Job].pc = "complete"
  <2>1. read = snd[Job].read /\ Len(snd[Job].read) = snd[Job].size
        /\ snd[Job].size = rcv.size
    BY <1>1, <1>3 DEF Stream, SessionInv, ScanInv, ListInv
  <2>2. QED
    BY <1>1, <2>1
<1>4. CASE Attached /\ snd[Job].pc = "scan"
  <2>1. /\ read = snd[Job].read /\ snd[Job].size = rcv.size
        /\ Len(snd[Job].read) = ReadUpTo(snd[Job].next, snd[Job].size)
    BY <1>1, <1>4 DEF Stream, SessionInv, ScanInv, ListInv
  <2>2. snd[Job].next \in Nat
    BY <1>1 DEF Typed, JobState
  <2>3. snd[Job].next < ChunkCount(rcv.size) =>
           ChunkStart(snd[Job].next) < rcv.size /\ ChunkStart(snd[Job].next) \in Nat
    BY <1>1, <2>2, Layout, ChunkBounds
  <2>4. QED
    BY <1>1, <2>1, <2>3 DEF ReadUpTo
<1>5. QED
  BY <1>2, <1>3, <1>4

LEMMA Takes ==
    ASSUME Typed, SessionInv, UNCHANGED senderVars, rcv.pc \in Chunking,
           rcv'.conn = rcv.conn, rcv'.pc \notin {"down", "accept"}, rcv'.size = rcv.size,
           net[rcv.conn].up # <<>>, net' = TakeUp(net, rcv.conn)
    PROVE  /\ ConnInv' /\ JobInv' /\ ScanInv' /\ Serving
           /\ snd' = snd /\ Job' = Job /\ (Attached' <=> Attached)
           /\ ListInv /\ StreamInv
           /\ Sent \in Seq(Frames03) /\ Sent # <<>> /\ Sent' = Tail(Sent)
           /\ Frame = Head(Sent) /\ Frame \in Frames03
           /\ \A read, file :
                 /\ Stream(read)
                 /\ rcv'.active # None => Begun(rcv.size, read, rcv'.active)
                 /\ part' = file
                 /\ BytesIn(part, read, Sent) /\ (Announces(Sent) \/ Attached) =>
                       BytesIn(file, read, Sent')
                 => Stream(read)'
<1> DEFINE c == rcv.conn
<1>1. Serving
  BY DEF Serving, Chunking
<1>2. c \in Conns
  BY <1>1 DEF Typed
<1>3. Same(net, net', c) /\ net'[c].up = Tail(net[c].up)
  <2> HIDE DEF c
  <2>1. QED
    BY <1>2, Answers DEF c
<1>4. /\ ConnInv' /\ JobInv' /\ ScanInv' /\ PeerInv
      /\ snd' = snd /\ Job' = Job /\ (Attached' <=> Attached)
      /\ net'[c].cut = net[c].cut
      /\ Sent = net[c].up /\ Sent' = net'[c].up
  BY <1>1, <1>3, Remains
<1>5. Sent \in Seq(Frames03) /\ Sent # <<>> /\ Sent' = Tail(Sent)
  BY <1>2, <1>3, <1>4, Names
<1>6. Frame = Head(Sent)
  BY <1>4 DEF Frame
<1>7. Frame \in Frames03
  BY <1>5, <1>6, TakeFirst
<1>8. ListInv /\ StreamInv
  BY <1>4 DEF PeerInv
<1>9. ASSUME NEW read, NEW file, Stream(read),
             rcv'.active # None => Begun(rcv.size, read, rcv'.active), part' = file,
             BytesIn(part, read, Sent) /\ (Announces(Sent) \/ Attached) =>
                BytesIn(file, read, Sent')
      PROVE  Stream(read)'
  <2>1. /\ ComesOf(rcv.size, read, Sent')
        /\ Announces(Sent') => Announces(Sent)
    BY <1>5, <1>9, RestComes DEF Stream
  <2>2. QED
    BY <1>4, <1>9, <2>1 DEF Stream
<1>10. QED
  BY <1>1, <1>4, <1>5, <1>6, <1>7, <1>8, <1>9

LEMMA FramesKeep ==
    ASSUME Inv, Inv', HeldInv, SessionInv, UNCHANGED senderVars,
           InventoryAccepted \/ ReadChunkStart \/ ReadData
    PROVE  SessionInv'
<1>0. Typed /\ ReceiverTypeOK
  BY InvTypes DEF Typed
<1>1. /\ rcv.pc \in {"inventory", "data"} /\ rcv'.pc \in {"data", "forget"}
      /\ rcv'.conn = rcv.conn /\ rcv'.size = rcv.size /\ rcv'.known = rcv.known
      /\ net[rcv.conn].up # <<>> /\ net' = TakeUp(net, rcv.conn)
  <2>1. CASE InventoryAccepted
    BY <1>0, <2>1 DEF InventoryAccepted, Gets, NextUp, At, Step, TakeFrame, ReceiverTypeOK
  <2>2. CASE ReadChunkStart
    BY <1>0, <2>2 DEF ReadChunkStart, Gets, NextUp, At, TakeFrame, ReceiverTypeOK
  <2>3. CASE ReadData
    BY <1>0, <2>3 DEF ReadData, Gets, NextUp, At, TakeFrame, ReceiverTypeOK
  <2>4. QED
    BY <2>1, <2>2, <2>3
<1>2. rcv.pc \in Chunking /\ rcv'.pc \in Chunking /\ rcv'.pc \notin {"down", "accept"}
  BY <1>1 DEF Chunking
<1>3. /\ ConnInv' /\ JobInv' /\ ScanInv' /\ Serving
      /\ snd' = snd /\ Job' = Job /\ (Attached' <=> Attached)
      /\ ListInv /\ StreamInv
      /\ Sent \in Seq(Frames03) /\ Sent # <<>> /\ Sent' = Tail(Sent)
      /\ Frame = Head(Sent) /\ Frame \in Frames03
      /\ \A read, file :
            /\ Stream(read)
            /\ rcv'.active # None => Begun(rcv.size, read, rcv'.active)
            /\ part' = file
            /\ BytesIn(part, read, Sent) /\ (Announces(Sent) \/ Attached) =>
                  BytesIn(file, read, Sent')
            => Stream(read)'
  BY <1>0, <1>1, <1>2, Takes
<1>4. ListInv'
  BY <1>1, <1>3, ListKept
<1>5. PICK read \in Content : Stream(read)
  BY <1>3 DEF StreamInv
<1>6. /\ ComesOf(rcv.size, read, Sent)
      /\ rcv.active # None => Begun(rcv.size, read, rcv.active)
  BY <1>5 DEF Stream
<1>7. ASSUME InventoryAccepted \/ ReadChunkStart PROVE Stream(read)'
  <2>1. Frame.type # "DATA" /\ part' = part
    BY <1>7 DEF InventoryAccepted, ReadChunkStart, Gets, NextUp, Frame, disk
  <2>2. BytesIn(part, read, Sent) => BytesIn(part, read, Sent')
    BY <1>3, <1>6, <2>1, RestBrings
  <2>3. rcv'.active # None => Begun(rcv.size, read, rcv'.active)
    <3>1. CASE InventoryAccepted
      <4>1. rcv'.active = rcv.active
        BY <1>0, <3>1 DEF InventoryAccepted, Step, ReceiverTypeOK
      <4>2. QED
        BY <1>6, <4>1
    <3>2. CASE ReadChunkStart
      <4>1. /\ rcv'.active = [index |-> Frame.index, hash |-> Frame.hash]
            /\ Frame.type = "CHUNK_START"
        BY <1>0, <3>2 DEF ReadChunkStart, Gets, NextUp, Frame, ReceiverTypeOK
      <4>2. Begun(rcv.size, read, Frame)
        BY <1>3, <1>6, <4>1, FirstComes
      <4>3. QED
        BY <4>1, <4>2 DEF Begun
    <3>3. QED
      BY <1>7, <3>1, <3>2
  <2>4. QED
    BY <1>3, <1>5, <2>1, <2>2, <2>3
<1>8. ASSUME ReadData PROVE Stream(read)'
  <2>1. /\ Frame.type = "DATA" /\ rcv.pc = "data" /\ rcv.active # None
        /\ Frame.offset < ChunkEnd(rcv.active.index, rcv.size)
        /\ part' = [part EXCEPT ![Frame.offset + 1] = Frame.block]
        /\ rcv'.active = rcv.active
    BY <1>0, <1>8 DEF ReadData, Gets, At, NextUp, Frame, Continues, WritePart, ReceiverTypeOK
  <2>2. /\ part \in Content /\ Len(part) = rcv.size /\ rcv.size \in Nat
        /\ rcv.active \in Record
    BY <1>0, <2>1 DEF Inv, ReceiverInv, StepInv, HeldInv, Filling, ReceiverTypeOK
  <2>3. Frame.offset + 1 \in 1 .. Len(part)
    <3>1. Frame.offset \in Nat
      BY <1>3, <2>1, FrameFields
    <3>2. /\ ChunkEnd(rcv.active.index, rcv.size) \in Nat
          /\ ChunkEnd(rcv.active.index, rcv.size) <= rcv.size
      <4>1. rcv.active.index \in Nat
        BY <2>2 DEF Record
      <4>2. QED
        BY <2>2, <4>1, ChunkBounds
    <3>3. QED
      BY <2>1, <2>2, <3>1, <3>2
  <2>4. ASSUME BytesIn(part, read, Sent), Announces(Sent) \/ Attached
        PROVE  BytesIn(part', read, Sent')
    <3>1. Attached => snd[Job].pc \in {"scan", "complete"}
      BY <1>3, <2>1 DEF ListInv, At
    <3>2. Len(read) <= Len(part)
      BY <1>0, <1>3, <1>5, <2>2, <2>4, <3>1, ReadFits
    <3>3. QED
      BY <1>3, <1>6, <2>1, <2>2, <2>3, <2>4, <3>2, DataLands
  <2>5. QED
    BY <1>3, <1>5, <1>6, <2>1, <2>4
<1>9. Stream(read)'
  BY <1>7, <1>8
<1>10. PeerInv'
  <2>1. rcv'.pc \notin {"hello", "offer", "verify"} \cup Early
    BY <1>1 DEF Early
  <2>2. QED
    BY <1>4, <1>9, <2>1 DEF PeerInv, StreamInv, At
<1>11. QED
  BY <1>3, <1>10 DEF SessionInv

(* A chunk is recorded: the scanner is past it, so that it offers none of  *)
(* the records that were counted on anew.                                  *)
LEMMA RecordingKeeps ==
    ASSUME Typed, SessionInv, UNCHANGED senderVars, ForgetChunks \/ RecordChunk,
           rcv.active \in Record, rcv.active # None
    PROVE  SessionInv'
<1>0. ReceiverTypeOK /\ rcv.size \in Nat
  BY DEF Typed, ReceiverTypeOK
<1>1. /\ rcv.pc \in {"forget", "record"} /\ rcv'.pc \in {"record", "data"}
      /\ rcv'.conn = rcv.conn /\ rcv'.size = rcv.size /\ net' = net /\ part' = part
      /\ \/ rcv'.known = rcv.known /\ rcv'.active = rcv.active
         \/ rcv'.known = Recorded(rcv.known, rcv.active) /\ rcv'.active = None
  <2>1. CASE ForgetChunks
    BY <1>0, <2>1 DEF ForgetChunks, At, wireVars, ReceiverTypeOK
  <2>2. CASE RecordChunk
    BY <1>0, <2>2 DEF RecordChunk, At, wireVars, ReceiverTypeOK
  <2>3. QED
    BY <2>1, <2>2
<1>2. /\ Serving /\ rcv'.pc \notin {"down", "accept"} /\ Same(net, net', rcv.conn)
      /\ rcv.pc \in Chunking /\ rcv'.pc \in Chunking
  BY <1>1 DEF Serving, Same, Chunking
<1>3. /\ ConnInv' /\ JobInv' /\ ScanInv' /\ PeerInv /\ Job \in Jobs
      /\ snd' = snd /\ Job' = Job /\ (Attached' <=> Attached)
      /\ net'[rcv.conn].cut = net[rcv.conn].cut
      /\ Sent' = Sent /\ Answered' = Answered
  BY <1>1, <1>2, Remains
<1>4. ListInv /\ StreamInv
  BY <1>2, <1>3 DEF PeerInv
<1>5. PICK read \in Content : Stream(read)
  BY <1>4 DEF StreamInv
<1>6. Begun(rcv.size, read, rcv.active)
  BY <1>5 DEF Stream
<1>7. ASSUME Attached, snd[Job].pc = "scan", snd[Job].next < ChunkCount(rcv.size)
      PROVE  Ahead(snd[Job].records, snd[Job].next, rcv'.known)
  <2>1. /\ Ahead(snd[Job].records, snd[Job].next, rcv.known)
        /\ snd[Job].size = rcv.size /\ read = snd[Job].read
    BY <1>4, <1>5, <1>7 DEF ListInv, Stream
  <2>2. snd[Job].next \in Nat
    BY <1>3 DEF Typed, JobState
  <2>3. Len(read) = ChunkStart(snd[Job].next)
    BY <1>3, <1>7, <2>1 DEF SessionInv, ScanInv, ReadUpTo
  <2>4. rcv.active.index \in Nat /\ Covers(read, rcv.active.index, rcv.size)
    BY <1>6 DEF Begun, Record
  <2>5. rcv.active.index < snd[Job].next
    BY <1>0, <1>7, <2>2, <2>3, <2>4, OnlyBefore
  <2>6. \A x : x.index >= snd[Job].next /\ x \in rcv.known => x \in rcv'.known
    <3>1. \A x : x.index >= snd[Job].next => x.index # rcv.active.index
      BY <2>2, <2>4, <2>5
    <3>2. QED
      BY <1>1, <3>1 DEF Recorded
  <2>7. QED
    BY <2>1, <2>6 DEF Ahead
<1>8. ListInv'
  <2>1. ~ At("inventory")
    BY <1>1 DEF At
  <2>2. QED
    BY <1>1, <1>3, <1>4, <1>7, <2>1 DEF ListInv
<1>9. Stream(read)'
  BY <1>1, <1>3, <1>5 DEF Stream
<1>10. PeerInv'
  <2>1. rcv'.pc \notin {"hello", "offer", "verify"} \cup Early
    BY <1>1 DEF Early
  <2>2. QED
    BY <1>8, <1>9, <2>1 DEF PeerInv, StreamInv, At
<1>11. QED
  BY <1>3, <1>10 DEF SessionInv

(* With COMPLETE nothing is under way any more. *)
LEMMA LastFrameKeeps ==
    ASSUME Inv, HeldInv, SessionInv, UNCHANGED senderVars, ReadComplete
    PROVE  SessionInv'
<1>0. Typed /\ ReceiverTypeOK
  BY InvTypes DEF Typed
<1>1. /\ rcv.pc = "data" /\ rcv'.pc = "verify"
      /\ rcv'.conn = rcv.conn /\ rcv'.size = rcv.size /\ rcv'.claim = Frame.body
      /\ net[rcv.conn].up # <<>> /\ net' = TakeUp(net, rcv.conn) /\ part' = part
      /\ Frame.type = "COMPLETE"
  BY <1>0 DEF ReadComplete, Gets, NextUp, Frame, At, TakeFrame, disk, ReceiverTypeOK
<1>2. rcv.pc \in Chunking /\ rcv'.pc \notin {"down", "accept"}
  BY <1>1 DEF Chunking
<1>3. /\ ConnInv' /\ JobInv' /\ ScanInv' /\ StreamInv
      /\ Sent \in Seq(Frames03) /\ Sent # <<>> /\ Frame = Head(Sent)
  BY <1>0, <1>1, <1>2, Takes
<1>4. PICK read \in Content : Stream(read)
  BY <1>3 DEF StreamInv
<1>5. ComesOf(rcv.size, read, Sent)
  BY <1>4 DEF Stream
<1>6. /\ Frame.body = read /\ Len(read) = rcv.size /\ Announces(Sent)
      /\ \A o : ~ Brings(Sent, o)
  BY <1>1, <1>3, <1>5, FirstComes
<1>7. BytesIn(part, read, Sent)
  BY <1>4, <1>6 DEF Stream
<1>8. part \in Content /\ Len(part) = rcv.size
  BY <1>0, <1>1 DEF Inv, ReceiverInv, StepInv, HeldInv, Filling, ReceiverTypeOK
<1>9. part = read
  BY <1>6, <1>7, <1>8, WholeIsRead
<1>10. PeerInv'
  BY <1>1, <1>6, <1>9 DEF PeerInv, At, Early, Chunking
<1>11. QED
  BY <1>3, <1>10 DEF SessionInv

-----------------------------------------------------------------------------
(* The session. *)
LEMMA ReceiverKeeps ==
    ASSUME Inv, Inv', HeldInv, SessionInv, UNCHANGED senderVars, ReceiverMoves
    PROVE  SessionInv'
<1>0. Typed
  BY InvTypes
<1>1. CASE \E c \in Conns : Accept(c)
  BY <1>0, <1>1, AcceptKeeps
<1>2. CASE AnswerHello
  BY <1>0, <1>2, HelloKeeps
<1>3. CASE ReadOffer
  BY <1>0, <1>3, ReadOfferKeeps
<1>4. CASE \/ ReceiptConflicts \/ FinalReconciled \/ PartReconciled
           \/ VerifyFile \/ PublishReceipt \/ Link \/ Promoted \/ CleanUp \/ LoseSender
           \/ StorageFails /\ rcv'.pc # "prepare"
  BY <1>0, <1>4, TurnsAway
<1>5. CASE \/ NotReconciled \/ LoadInventory \/ OpenPart \/ ResizePart
           \/ StorageFails /\ rcv'.pc = "prepare"
  BY <1>0, <1>5, EarlyKeeps
<1>6. CASE SendInventory
  BY <1>0, <1>6, InventoryKeeps
<1>7. CASE InventoryAccepted \/ ReadChunkStart \/ ReadData
  BY <1>7, FramesKeep
<1>8. CASE ForgetChunks \/ RecordChunk
  <2>1. rcv.active \in Record /\ rcv.active # None
    BY <1>8 DEF Inv, ReceiverInv, StepInv, ReceiverTypeOK, ForgetChunks, RecordChunk, At
  <2>2. QED
    BY <1>0, <1>8, <2>1, RecordingKeeps
<1>9. CASE ReadComplete
  BY <1>9, LastFrameKeeps
<1>10. CASE SendVerified \/ Close \/ Crash \/ Restart
  BY <1>0, <1>10, FreeKeeps
<1>11. QED
  BY <1>1, <1>2, <1>3, <1>4, <1>5, <1>6, <1>7, <1>8, <1>9, <1>10
     DEF ReceiverMoves, ReceiverRuns, ReceiverDisturbed

LEMMA NextSession ==
    ASSUME Inv, Inv', HeldInv, SessionInv, [Next]_vars
    PROVE  SessionInv'
<1>1. CASE \E j \in Jobs : /\ SenderRuns(j) \/ SenderDisturbed(j)
                           /\ UNCHANGED receiverVars
  BY <1>1, SenderKeeps
<1>2. CASE ReceiverMoves /\ UNCHANGED senderVars
  BY <1>2, ReceiverKeeps
<1>3. CASE \E c \in Conns : Cut(c) /\ UNCHANGED <<senderVars, receiverVars>>
  <2>1. Typed /\ Typed'
    BY InvTypes
  <2>2. QED
    BY <1>3, <2>1, CutKeeps DEF senderVars, receiverVars
<1>4. CASE UNCHANGED vars
  BY <1>4, EditKeeps DEF vars, wireVars, senderVars, receiverVars
<1>5. QED
  BY <1>1, <1>2, <1>3, <1>4 DEF Next, Runs, Disturbed, Quiet, ReceiverMoves

LEMMA InitSession == Init => SessionInv
<1>1. SUFFICES ASSUME Init PROVE SessionInv
  OBVIOUS
<1>2. /\ ~ Serving /\ rcv.pc \notin Owing
      /\ \A c \in Conns : net[c].rcvEnd = "none"
      /\ \A j \in Jobs : snd[j].pc = "idle" /\ ~ Live(j) /\ Conn(j) \in Conns
  <2>1. rcv.pc = "accept"
    BY <1>1 DEF Init, ReceiverInit, Idle
  <2>2. ~ Serving /\ rcv.pc \notin Owing
    BY <2>1 DEF Serving, Owing, Early, Chunking
  <2>3. \A c \in Conns : net[c].rcvEnd = "none"
    BY <1>1 DEF Init, WireInit, Unopened
  <2>4. \A j \in Jobs : snd[j].pc = "idle" /\ snd[j].attempt = 1
    BY <1>1 DEF Init, SenderInit
  <2>5. ASSUME NEW j \in Jobs PROVE ~ Live(j) /\ Conn(j) \in Conns
    <3>1. 1 \in 1 .. MaxSendAttempts
      BY WireAssumption
    <3>2. Conn(j) \in Conns
      BY <2>4, <3>1 DEF Conn, Conns
    <3>3. ~ Live(j)
      BY <2>4 DEF Live, Reading
    <3>4. QED
      BY <3>2, <3>3
  <2>6. QED
    BY <2>2, <2>3, <2>4, <2>5
<1>3. ConnInv /\ JobInv
  BY <1>2 DEF ConnInv, JobInv
<1>4. ScanInv
  BY <1>2 DEF ScanInv
<1>5. PeerInv
  BY <1>2 DEF PeerInv, Owing, At
<1>6. QED
  BY <1>3, <1>4, <1>5 DEF SessionInv

LEMMA SessionHolds == Spec => []SessionInv
<1>1. Inv /\ Inv' /\ HeldInv /\ SessionInv /\ [Next]_vars => SessionInv'
  BY NextSession
<1>2. QED
  BY <1>1, InitSession, InvHolds, HeldHolds, PTL DEF Spec

-----------------------------------------------------------------------------
(* The file of a session. *)

(* What was reused, what was written and what is under way make up what    *)
(* the sender has read: no byte is left to an earlier content of the       *)
(* .part, to a hole or to another job's data.                              *)
THEOREM TheFileIsAssembled == Spec => []AssemblyAgreement
<1>1. Inv /\ SessionInv => AssemblyAgreement
  <2>1. SUFFICES ASSUME Inv, SessionInv, NEW j \in Jobs,
                        rcv.pc \in Chunking, rcv.conn = Conn(j), ~ net[Conn(j)].cut,
                        snd[j].pc \in {"scan", "complete"}
                 PROVE  AssemblyAgrees(j)
    BY DEF AssemblyAgreement, Chunking
  <2>2. Typed
    BY <2>1, InvTypes
  <2>3. Serving /\ Live(j)
    BY <2>1 DEF Serving, Live, Chunking, Reading
  <2>4. /\ Attached /\ Job = j /\ PeerInv
        /\ Sent = net[Conn(j)].up
    BY <2>1, <2>2, <2>3, OnLine
  <2>5. PICK read \in Content : Stream(read)
    BY <2>1, <2>4 DEF PeerInv, StreamInv
  <2>6. PICK up : up = net[Conn(j)].up
    OBVIOUS
  <2>7. /\ read = snd[j].read
        /\ ComesOf(rcv.size, read, up)
        /\ BytesIn(part, read, up)
    BY <2>1, <2>4, <2>5, <2>6 DEF Stream
  <2>8. DOMAIN up = 1 .. Len(up)
    <3>1. up \in Seq(Frames03)
      BY <2>2, <2>6, Names
    <3>2. QED
      BY <3>1, LenProperties
  <2>9. ASSUME NEW k \in 1 .. Len(read)
        PROVE  LET coming == {f \in {up[n] : n \in DOMAIN up} :
                                 f.type = "DATA" /\ f.offset = k - 1}
               IN  IF coming = {} THEN part[k] = read[k]
                   ELSE \A f \in coming : f.block = read[k]
    <3> DEFINE coming == {f \in {up[n] : n \in DOMAIN up} :
                             f.type = "DATA" /\ f.offset = k - 1}
    <3>1. ASSUME coming = {} PROVE part[k] = read[k]
      <4>1. ~ Brings(up, k - 1)
        BY <2>8, <3>1 DEF Brings
      <4>2. QED
        BY <2>7, <4>1 DEF BytesIn
    <3>2. ASSUME NEW f \in coming PROVE f.block = read[k]
      <4>1. PICK n \in 1 .. Len(up) : up[n] = f /\ f.type = "DATA" /\ f.offset = k - 1
        BY <2>8, <3>2
      <4>2. f.block = read[f.offset + 1]
        BY <2>7, <4>1 DEF ComesOf
      <4>3. f.offset + 1 = k
        BY <4>1
      <4>4. QED
        BY <4>2, <4>3
    <3>3. QED
      BY <3>1, <3>2
  <2>10. QED
    BY <2>6, <2>7, <2>9 DEF AssemblyAgrees
<1>2. QED
  BY <1>1, InvHolds, SessionHolds, PTL

(* What is verified before it is committed is what its own job has read,   *)
(* hashed and announced: the check of the whole file finds no difference.  *)
THEOREM WhatIsAssembledIsAttested == Spec => []AssembledIsAttested
<1>1. Inv /\ SessionInv => AssembledIsAttested
  BY DEF AssembledIsAttested, SessionInv, PeerInv, Inv, ReceiverInv, CommitInv, At
<1>2. QED
  BY <1>1, InvHolds, SessionHolds, PTL
=============================================================================
