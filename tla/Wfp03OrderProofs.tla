------------------------- MODULE Wfp03OrderProofs -------------------------
(***************************************************************************)
(* The order of the frames of a WFP/0.3 session, for any number of jobs,   *)
(* any files, chunk sizes and batches, whatever was lost or crashed: each  *)
(* frame under way is one that its reader takes.                           *)
(***************************************************************************)
EXTENDS Wfp03SessionProofs

-----------------------------------------------------------------------------
(* The invariant *)

(* The records of a file lie in its layout, one to a chunk. *)
InLayout(records, size) ==
    /\ \A r \in records : r.index < ChunkCount(size)
    /\ \A r, s \in records : r.index = s.index => r = s

LayoutInv ==
    /\ chunks # None => InLayout(chunks.records, chunks.size)
    /\ InLayout(rcv.known, rcv.size)
    /\ rcv.pc \in {"down", "accept", "hello", "offer"} => rcv.known = {}
    /\ rcv.pc \in Opening \cup {"down", "accept"} => rcv.from = 0 /\ rcv.active = None
    /\ rcv.active # None => /\ rcv.active.index < ChunkCount(rcv.size)
                            /\ rcv.from = rcv.active.index + 1

(* The cursor of a scan parts the records at the next chunk. *)
CursorOf(r) ==
    /\ r.pc \in {"hello", "offered", "inventory"} => r.cursor = 0
    /\ r.pc = "scan" =>
          /\ r.cursor <= Len(r.records)
          /\ \A n \in 1 .. Len(r.records) : n <= r.cursor <=> r.records[n].index < r.next

CursorInv == \A j \in Jobs : CursorOf(snd[j])

(* The inventory: records in the order of their chunks, of which a job has *)
(* read the first and the frames under way bring the next.                 *)
Ordered(all, size) ==
    /\ \A n \in 1 .. Len(all) : all[n].index < ChunkCount(size)
    /\ \A m, n \in 1 .. Len(all) : m < n => all[m].index < all[n].index

BatchEnd(all, p) == IF p + MaxBatch <= Len(all) THEN p + MaxBatch ELSE Len(all)
Batches(all, p, down) ==
    \A n \in 1 .. Len(down) :
        /\ p + (n - 1) * MaxBatch < Len(all)
        /\ down[n].type = "CHUNK_HASHES"
        /\ down[n].records = SubSeq(all, p + (n - 1) * MaxBatch + 1,
                                    BatchEnd(all, p + (n - 1) * MaxBatch))

Starting(records, all) ==
    /\ Len(records) <= Len(all)
    /\ \A n \in 1 .. Len(records) : records[n] = all[n]

(* What the receiver of the job knows is in the list. *)
Listed(all, known) == \A r \in known : \E n \in 1 .. Len(all) : all[n] = r
Lists(j, all) ==
    /\ Ordered(all, snd[j].size)
    /\ Attached /\ Job = j /\ At("inventory") => Listed(all, rcv.known)

OfferedList(j, all, down) ==
    /\ Lists(j, all)
    /\ Head(down).type = "RESUME" /\ Head(down).count = Len(all)
    /\ Batches(all, 0, Tail(down))

ReadList(j, all, down) ==
    /\ Lists(j, all)
    /\ snd[j].count = Len(all)
    /\ Len(snd[j].records) < Len(all)
    /\ Starting(snd[j].records, all)
    /\ Batches(all, Len(snd[j].records), down)

DownOf(j, down) ==
    /\ snd[j].pc = "hello" => down \in {<<>>, << Bare("HELLO_ACK") >>}
    /\ snd[j].pc = "offered" =>
          \/ down \in {<<>>, << Bare("VERIFIED") >>}
          \/ \E all \in Seq(Record) : OfferedList(j, all, down)
    /\ snd[j].pc = "inventory" => \E all \in Seq(Record) : ReadList(j, all, down)

DownInv ==
    \A j \in Jobs : Ordered(snd[j].records, snd[j].size) /\ DownOf(j, net[Conn(j)].down)

(* Nothing is under way to a job whose file is being committed. *)
Committing == {"verify", "publish", "link", "promoted", "cleanup", "verified"}
DoneInv ==
    Attached /\ rcv.pc \in Committing =>
        \/ snd[Job].pc = "offered" /\ Answered = <<>>
        \/ snd[Job].pc = "complete"

(* Of two frames that follow each other: the data of a chunk come after    *)
(* its start without a gap, and the next chunk or COMPLETE after its end.  *)
EndsAt(o, size) == \E i \in Nat : i < ChunkCount(size) /\ o + 1 = ChunkEnd(i, size)
Between(f) == f.type \in {"CHUNK_START", "COMPLETE"}
Ends1(f, size) == f.type = "ACCEPT" \/ (f.type = "DATA" /\ EndsAt(f.offset, size))
Follows(f, g, size) ==
    \/ Ends1(f, size) /\ Between(g)
    \/ f.type = "CHUNK_START" /\ g.type = "DATA" /\ g.offset = ChunkStart(f.index)
    \/ /\ f.type = "DATA" /\ ~ EndsAt(f.offset, size)
       /\ g.type = "DATA" /\ g.offset = f.offset + 1

Flows(up, size) == \A n \in 1 .. Len(up) - 1 : Follows(up[n], up[n + 1], size)

(* The chunks ascend, and none is one the receiver has. *)
IsStart(f) == f.type = "CHUNK_START"
StartsFrom(up, from, size, known) ==
    \A n \in 1 .. Len(up) : IsStart(up[n]) =>
        /\ from <= up[n].index /\ up[n].index < ChunkCount(size)
        /\ [index |-> up[n].index, hash |-> up[n].hash] \notin known
Ascends(up) ==
    \A m, n \in 1 .. Len(up) :
        m < n /\ IsStart(up[m]) /\ IsStart(up[n]) => up[m].index < up[n].index

(* What the receiver's state says of the next frame. *)
Expects(f) ==
    /\ At("inventory") => f.type = "ACCEPT"
    /\ At("data") /\ rcv.active # None => f.type = "DATA" /\ f.offset = NextOffset
    /\ (At("data") /\ rcv.active = None) \/ rcv.pc \in {"forget", "record"} => Between(f)

GotInv ==
    rcv.active # None =>
        /\ Len(rcv.active.hash) =
              ChunkEnd(rcv.active.index, rcv.size) - ChunkStart(rcv.active.index)
        /\ At("data") => Len(rcv.got) < Len(rcv.active.hash)
        /\ \A k \in 1 .. Len(rcv.got) : rcv.got[k] = rcv.active.hash[k]

(* Where the scanner may write its next frame, and what it has accounted   *)
(* for: each chunk behind it is known, under way or being written.         *)
Settled(up, size) ==
    /\ up = <<>> => ~ At("inventory") /\ (At("data") => rcv.active = None)
    /\ up # <<>> => Ends1(up[Len(up)], size)

Counted(up, i) ==
    \/ \E r \in rcv.known : r.index = i
    \/ rcv.active # None /\ rcv.active.index = i
    \/ \E n \in 1 .. Len(up) : IsStart(up[n]) /\ up[n].index = i

ScanFlow(up, r, cut) ==
    r.pc = "scan" =>
        /\ \A n \in 1 .. Len(up) : IsStart(up[n]) => up[n].index < r.next
        /\ rcv.from <= r.next
        /\ \A k \in rcv.known :
              k.index >= r.next => \E n \in 1 .. Len(r.records) : r.records[n] = k
        /\ ~ cut => /\ Settled(up, rcv.size)
                    /\ \A i \in Nat : i < r.next /\ i < ChunkCount(rcv.size) => Counted(up, i)

Orderly ==
    /\ Flows(Sent, rcv.size)
    /\ StartsFrom(Sent, rcv.from, rcv.size, rcv.known)
    /\ Ascends(Sent)
    /\ Sent # <<>> => Expects(Head(Sent))
    /\ GotInv

Flow ==
    /\ Orderly
    /\ Attached => ScanFlow(Sent, snd[Job], net[rcv.conn].cut)
    /\ Announces(Sent) => \A i \in Nat : i < ChunkCount(rcv.size) => Counted(Sent, i)

FlowInv == rcv.pc \in Chunking => Flow

OrderInv == LayoutInv /\ CursorInv /\ DownInv /\ DoneInv /\ FlowInv

-----------------------------------------------------------------------------
(* The records *)

LEMMA RecordedFits ==
    ASSUME NEW known, NEW a, NEW size, InLayout(known, size), a.index < ChunkCount(size)
    PROVE  InLayout(Recorded(known, a), size)
BY DEF InLayout, Recorded

(* Only these steps change what the receiver knows of the file's chunks. *)
LEMMA LayoutStays ==
    ASSUME ReceiverTypeOK, ReceiverMoves,
           ~ LoadInventory, ~ ReadChunkStart, ~ RecordChunk
    PROVE  \/ /\ rcv'.active = None /\ rcv'.known = {} /\ rcv'.from = 0
              /\ chunks' = chunks
           \/ /\ rcv'.active = rcv.active /\ rcv'.known = rcv.known /\ rcv'.from = rcv.from
              /\ rcv'.size = rcv.size \/ ReadOffer
              /\ chunks' \in {chunks, None}
              /\ rcv'.pc \in {"down", "accept", "hello", "offer"} =>
                    rcv.pc \in {"down", "accept", "hello", "offer"}
              /\ rcv'.pc \in Opening \cup {"down", "accept"} =>
                    rcv.pc \in Opening \cup {"down", "accept"}
<1>1. CASE \E c \in Conns : Accept(c)
  BY <1>1 DEF Accept, disk, Idle
<1>2. CASE SendVerified \/ Close
  BY <1>2 DEF SendVerified, Close, Finish, disk, Idle
<1>3. CASE Crash
  BY <1>3 DEF Crash, Idle
<1>4. CASE Restart
  BY <1>4 DEF Restart, At, Step, disk, ReceiverTypeOK
<1>5. CASE ReadOffer
  BY <1>5 DEF ReadOffer, Gets, At, disk, ReceiverTypeOK, Opening
<1>6. CASE AnswerHello \/ InventoryAccepted \/ SendInventory
  BY <1>6 DEF AnswerHello, InventoryAccepted, SendInventory, Gets, At, Step, disk,
              ReceiverTypeOK, Opening
<1>7. CASE ReceiptConflicts \/ FinalReconciled \/ PartReconciled \/ NotReconciled
  BY <1>7 DEF ReceiptConflicts, FinalReconciled, PartReconciled, NotReconciled, At, Step,
              disk, ReceiverTypeOK, Opening
<1>8. CASE OpenPart \/ ResizePart
  BY <1>8 DEF OpenPart, ResizePart, At, Step, ReceiverTypeOK, Opening
<1>9. CASE ReadData
  BY <1>9 DEF ReadData, Gets, At, ReceiverTypeOK, Opening
<1>10. CASE ForgetChunks \/ ReadComplete
  <2>1. CASE ForgetChunks
    BY <2>1 DEF ForgetChunks, At, ReceiverTypeOK, Opening
  <2>2. CASE ReadComplete
    <3>1. /\ rcv' = [rcv EXCEPT !.pc = "verify", !.claim = Frame.body, !.prior = None]
          /\ chunks' = chunks
      BY <2>2 DEF ReadComplete, disk
    <3>2. QED
      BY <3>1 DEF ReceiverTypeOK, Opening
  <2>3. QED
    BY <1>10, <2>1, <2>2
<1>11. CASE VerifyFile \/ PublishReceipt
  BY <1>11 DEF VerifyFile, PublishReceipt, At, Step, disk, ReceiverTypeOK, Opening
<1>12. CASE Link \/ Promoted \/ CleanUp
  BY <1>12 DEF Link, Promoted, CleanUp, At, Step, ReceiverTypeOK, Opening
<1>13. CASE LoseSender
  BY <1>13 DEF LoseSender, Waiting, At, Step, disk, ReceiverTypeOK, Opening
<1>14. CASE StorageFails
  BY <1>14 DEF StorageFails, AfterStorageError, At, ReceiverTypeOK, Opening
<1>15. QED
  BY <1>1, <1>2, <1>3, <1>4, <1>5, <1>6, <1>7, <1>8, <1>9, <1>10, <1>11, <1>12, <1>13,
     <1>14 DEF ReceiverMoves, ReceiverRuns, ReceiverDisturbed

LEMMA LayoutKept ==
    ASSUME Inv, LayoutInv, ReceiverMoves
    PROVE  LayoutInv'
<1>0. ReceiverTypeOK
  BY DEF Inv, ReceiverInv
<1>1. \A size : InLayout({}, size)
  BY DEF InLayout
<1>2. CASE LoadInventory
  <2>1. /\ chunks' = chunks /\ rcv'.pc = "open" /\ rcv'.size = rcv.size
        /\ rcv'.active = rcv.active /\ rcv'.from = rcv.from
        /\ rcv.pc = "prepare"
        /\ \/ rcv'.known = {}
           \/ /\ chunks # None /\ chunks.size = rcv.size
              /\ rcv'.known = StillHolds(chunks.records)
    BY <1>0, <1>2 DEF LoadInventory, At, disk, ReceiverTypeOK
  <2>2. InLayout(rcv'.known, rcv.size)
    BY <1>1, <2>1 DEF LayoutInv, InLayout, StillHolds
  <2>3. QED
    BY <2>1, <2>2 DEF LayoutInv, Opening
<1>3. CASE ReadChunkStart
  <2>1. /\ chunks' = chunks /\ rcv'.pc = "data" /\ rcv'.size = rcv.size
        /\ rcv'.known = rcv.known
        /\ rcv'.active.index < ChunkCount(rcv.size)
        /\ rcv'.from = rcv'.active.index + 1
    BY <1>0, <1>3 DEF ReadChunkStart, Begins, Gets, At, disk, ReceiverTypeOK
  <2>2. QED
    BY <2>1 DEF LayoutInv, Opening
<1>4. CASE RecordChunk
  <2>1. /\ chunks' = [size |-> rcv.size, records |-> rcv'.known] /\ rcv'.pc = "data"
        /\ rcv'.size = rcv.size /\ rcv'.known = Recorded(rcv.known, rcv.active)
        /\ rcv'.active = None /\ rcv.active # None
    BY <1>0, <1>4 DEF RecordChunk, At, ReceiverTypeOK, Inv, ReceiverInv, StepInv
  <2>2. InLayout(rcv'.known, rcv.size)
    BY <2>1, RecordedFits DEF LayoutInv
  <2>3. chunks'.size = rcv.size /\ chunks'.records = rcv'.known
    BY <2>1
  <2>4. QED
    BY <2>1, <2>2, <2>3 DEF LayoutInv, Opening
<1>5. CASE ~ LoadInventory /\ ~ ReadChunkStart /\ ~ RecordChunk
  <2>1. ReadOffer => rcv.known = {} /\ rcv.active = None
    BY DEF ReadOffer, Gets, At, LayoutInv, Opening
  <2>2. QED
    BY <1>0, <1>1, <1>5, <2>1, LayoutStays DEF LayoutInv
<1>6. QED
  BY <1>2, <1>3, <1>4, <1>5

-----------------------------------------------------------------------------
(* The cursor *)

LEMMA RecordIndexes ==
    ASSUME NEW all \in Seq(Record)
    PROVE  /\ Len(all) \in Nat
           /\ \A n \in 1 .. Len(all) : all[n] \in Record /\ all[n].index \in Nat
<1>1. Len(all) \in Nat /\ \A n \in 1 .. Len(all) : all[n] \in Record
  BY LenProperties, ElementOfSeq
<1>2. \A r \in Record : r.index \in Nat
  BY DEF Record
<1>3. QED
  BY <1>1, <1>2

LEMMA CursorKept ==
    ASSUME Inv, Inv', SessionInv, CursorInv, DownInv,
           NEW j \in Jobs, SenderRuns(j) \/ SenderDisturbed(j)
    PROVE  CursorInv'
<1>0. snd \in [Jobs -> JobState] /\ Conn(j) \in Conns /\ snd[j] \in JobState
  BY JobHas DEF Inv
<1>1. SUFFICES /\ \A i \in Jobs \ {j} : snd'[i] = snd[i]
               /\ CursorOf(snd'[j])
  BY DEF CursorInv
<1>2. CASE \/ Start(j) \/ ConnectRefused(j) \/ VerifiedAtOnce(j)
           \/ Verified(j) \/ SourceTooShort(j) \/ SourceTooLong(j) \/ Abort(j)
           \/ LoseReceiver(j) \/ SendComplete(j)
  <2>1. PICK pc : snd' = [snd EXCEPT ![j].pc = pc]
                  /\ pc \in {"connect", "waiting", "exhausted", "done", "failed", "complete"}
    BY <1>2 DEF Start, ConnectRefused, VerifiedAtOnce, Verified, SourceTooShort, SourceTooLong,
                Abort, LoseReceiver, SendComplete, Leave, Goto, AfterLoss
  <2>2. QED
    BY <1>0, <2>1 DEF JobState, CursorOf
<1>3. CASE SendOffer(j)
  BY <1>0, <1>3 DEF SendOffer, Reads, Goto, JobState, CursorOf, CursorInv
<1>4. CASE Connect(j)
  BY <1>0, <1>4 DEF Connect, JobState, CursorOf
<1>5. CASE Retry(j)
  BY <1>0, <1>5 DEF Retry, JobState, CursorOf
<1>6. CASE EditSource(j)
  BY <1>6 DEF EditSource, CursorInv
<1>7. CASE ReadResume(j) \/ ReadChunkHashes(j)
  <2>1. PICK count, records : Inventoried(j, count, records)
    BY <1>7 DEF ReadResume, ReadChunkHashes
  <2>2. PICK pc \in {"scan", "inventory"} :
           snd' = [snd EXCEPT ![j].pc = pc, ![j].count = count, ![j].records = records]
    <3>1. CASE Len(records) = count
      BY <2>1, <3>1 DEF Inventoried
    <3>2. CASE Len(records) # count
      BY <2>1, <3>2 DEF Inventoried
    <3>3. QED
      BY <3>1, <3>2
  <2>3. /\ snd[j].next = 0 /\ snd[j].cursor = 0
        /\ snd[j].pc \in {"offered", "inventory"}
    BY <1>7 DEF ReadResume, ReadChunkHashes, Reads, SessionInv, ScanInv, CursorInv, CursorOf
  <2>4. records \in Seq(Record)
    <3>1. Inv'
      OBVIOUS
    <3>2. snd'[j].records = records /\ snd'[j] \in JobState
      BY <1>0, <2>2, <3>1, JobHas DEF Inv, SenderInv, SenderTypeOK, JobState
    <3>3. QED
      BY <3>2 DEF JobState
  <2>5. /\ snd'[j].pc = pc /\ snd'[j].records = records
        /\ snd'[j].next = 0 /\ snd'[j].cursor = 0
        /\ \A i \in Jobs \ {j} : snd'[i] = snd[i]
    BY <1>0, <2>2, <2>3 DEF JobState
  <2>6. \A n \in 1 .. Len(records) : records[n].index \in Nat
    BY <2>4, RecordIndexes
  <2>7. Len(records) \in Nat
    BY <2>4, LenProperties
  <2>8. CursorOf(snd'[j])
    BY <2>5, <2>6, <2>7 DEF CursorOf
  <2>9. QED
    BY <2>5, <2>8
<1>8. CASE ScanChunk(j)
  <2> DEFINE rs == snd[j].records
             c == snd[j].cursor
             i == snd[j].next
  <2>1. /\ rs \in Seq(Record) /\ c \in Nat /\ i \in Nat /\ Len(rs) \in Nat
        /\ \A n \in 1 .. Len(rs) : rs[n].index \in Nat
        /\ \A m, n \in 1 .. Len(rs) : m < n => rs[m].index < rs[n].index
        /\ c <= Len(rs)
        /\ \A n \in 1 .. Len(rs) : n <= c <=> rs[n].index < i
    <3>1. rs \in Seq(Record) /\ c \in Nat /\ i \in Nat
      BY <1>0 DEF JobState
    <3>2. Len(rs) \in Nat /\ \A n \in 1 .. Len(rs) : rs[n].index \in Nat
      BY <3>1, RecordIndexes
    <3>3. snd[j].pc = "scan"
      BY <1>8 DEF ScanChunk, Scanning
    <3>4. QED
      BY <3>1, <3>2, <3>3 DEF CursorInv, CursorOf, DownInv, Ordered
  <2>2. /\ snd'[j].pc = "scan" /\ snd'[j].records = rs /\ snd'[j].next = i + 1
        /\ snd'[j].cursor = IF AtRecord(j) THEN c + 1 ELSE c
        /\ \A k \in Jobs \ {j} : snd'[k] = snd[k]
    BY <1>0, <1>8 DEF ScanChunk, Scanning, JobState
  <2>3. AtRecord(j) <=> c < Len(rs) /\ rs[c + 1].index = i
    BY DEF AtRecord
  <2> DEFINE d == snd'[j].cursor
  <2>4. d = IF c < Len(rs) /\ rs[c + 1].index = i THEN c + 1 ELSE c
    BY <2>2, <2>3
  <2> HIDE DEF rs, c, i, d
  <2>5. d <= Len(rs)
    BY <2>1, <2>4
  <2>6. ASSUME NEW n \in 1 .. Len(rs) PROVE n <= d <=> rs[n].index < i + 1
    <3>1. CASE n <= c
      BY <2>1, <2>4, <3>1
    <3>2. CASE n = c + 1
      BY <2>1, <2>4, <3>2
    <3>3. CASE n > c + 1
      <4>1. c + 1 \in 1 .. Len(rs) /\ c + 1 < n
        BY <2>1, <3>3
      <4>2. rs[c + 1].index < rs[n].index /\ ~ (rs[c + 1].index < i)
        BY <2>1, <4>1
      <4>3. QED
        BY <2>1, <2>4, <3>3, <4>1, <4>2
    <3>4. QED
      BY <2>1, <3>1, <3>2, <3>3
  <2>7. QED
    BY <2>2, <2>5, <2>6 DEF CursorOf, rs, i, d
<1>9. QED
  BY <1>2, <1>3, <1>4, <1>5, <1>6, <1>7, <1>8 DEF SenderRuns, SenderDisturbed

-----------------------------------------------------------------------------
(* What the receiver's connection sees of a step of a job. *)

Unheard ==
    /\ LeftOf(Sent, Sent')
    /\ Attached' =>
          /\ Attached /\ snd'[Job] = snd[Job] /\ LeftOf(Answered, Answered')
          /\ \/ net'[rcv.conn].cut
             \/ Sent' = Sent /\ net'[rcv.conn].cut = net[rcv.conn].cut

(* The steps of a job that its receiver can see. *)
Tells(j) ==
    SendOffer(j) \/ ReadResume(j) \/ ReadChunkHashes(j) \/ ScanChunk(j) \/ SendComplete(j)

LEMMA Aside ==
    ASSUME Typed, UNCHANGED receiverVars, Serving, net'[rcv.conn] = net[rcv.conn],
           Attached' => Attached /\ snd'[Job] = snd[Job]
    PROVE  Unheard
<1>1. rcv' = rcv /\ rcv.conn \in Conns
  BY DEF receiverVars, Typed
<1>2. Sent' = Sent /\ Answered' = Answered /\ net'[rcv.conn].cut = net[rcv.conn].cut
  BY <1>1 DEF Sent, Answered
<1>3. LeftOf(Sent, Sent) /\ LeftOf(Answered, Answered)
  BY <1>1, Names, AllLeft DEF Sent, Answered
<1>4. QED
  BY <1>2, <1>3 DEF Unheard

(* A job that tells its receiver something keeps its connection. *)
LEMMA TellsHas ==
    ASSUME Typed, SessionInv, NEW j \in Jobs, Tells(j)
    PROVE  /\ Live(j) /\ Conn(j) \in Conns /\ Same(net, net', Conn(j))
           /\ \A i \in Jobs \ {j} : snd'[i] = snd[i]
           /\ snd'[j].attempt = snd[j].attempt /\ Conn(j)' = Conn(j)
           /\ net'[Conn(j)].down \in {net[Conn(j)].down, Tail(net[Conn(j)].down)}
<1> USE Names
<1>0. net \in [Conns -> AnyLink] /\ snd \in [Jobs -> JobState]
  BY DEF Typed
<1> DEFINE c == Conn(j)
<1>1. /\ Live(j) /\ c \in Conns
      /\ SendOffer(j) \/ ReadResume(j) \/ ReadChunkHashes(j) => net[c].down # <<>>
  BY DEF Tells, SendOffer, ReadResume, ReadChunkHashes, ScanChunk, SendComplete, Scanning,
         Reads, NextDown, Live, Reading
<1>2. c = Conn(j)
  OBVIOUS
<1>3. PICK r : /\ snd' = [snd EXCEPT ![j] = r]
               /\ r.attempt = snd[j].attempt
  <2>0. snd[j] \in JobState
    BY <1>0
  <2>1. CASE SendOffer(j) \/ SendComplete(j)
    <3>1. PICK pc : snd' = [snd EXCEPT ![j].pc = pc]
      BY <2>1 DEF SendOffer, SendComplete, Goto
    <3> DEFINE k == [snd[j] EXCEPT !.pc = pc]
    <3>2. snd' = [snd EXCEPT ![j] = k] /\ k.attempt = snd[j].attempt
      BY <2>0, <3>1 DEF JobState
    <3>3. QED
      BY <3>2
  <2>2. CASE ReadResume(j) \/ ReadChunkHashes(j)
    <3>0. PICK count, records : Inventoried(j, count, records)
      BY <2>2 DEF ReadResume, ReadChunkHashes
    <3>1. PICK pc :
             snd' = [snd EXCEPT ![j].pc = pc, ![j].count = count, ![j].records = records]
      <4>1. CASE Len(records) = count
        BY <3>0, <4>1 DEF Inventoried
      <4>2. CASE Len(records) # count
        BY <3>0, <4>2 DEF Inventoried
      <4>3. QED
        BY <4>1, <4>2
    <3> DEFINE k == [snd[j] EXCEPT !.pc = pc, !.count = count, !.records = records]
    <3>2. snd' = [snd EXCEPT ![j] = k] /\ k.attempt = snd[j].attempt
      BY <2>0, <3>1 DEF JobState
    <3>3. QED
      BY <3>2
  <2>3. CASE ScanChunk(j)
    <3>1. PICK next, read, cursor :
             snd' = [snd EXCEPT ![j].next = next, ![j].read = read, ![j].cursor = cursor]
      BY <2>3 DEF ScanChunk
    <3> DEFINE k == [snd[j] EXCEPT !.next = next, !.read = read, !.cursor = cursor]
    <3>2. snd' = [snd EXCEPT ![j] = k] /\ k.attempt = snd[j].attempt
      BY <2>0, <3>1 DEF JobState
    <3>3. QED
      BY <3>2
  <2>4. QED
    BY <2>1, <2>2, <2>3 DEF Tells
<1>4. /\ \A i \in Jobs \ {j} : snd'[i] = snd[i]
      /\ snd'[j].attempt = snd[j].attempt
  BY <1>0, <1>3
<1>5. Conn(j)' = Conn(j)
  BY <1>4 DEF Conn
<1> HIDE DEF c
<1>6. /\ Same(net, net', c)
      /\ net'[c].down \in {net[c].down, Tail(net[c].down)}
  <2>1. CASE SendOffer(j) \/ ReadResume(j) \/ ReadChunkHashes(j)
    <3>1. net[c].down # <<>>
      BY <1>1, <2>1
    <3>2. PICK f : net' \in {Up(TakeDown(net, c), c, f), TakeDown(net, c)}
      <4>1. CASE SendOffer(j)
        BY <4>1 DEF SendOffer, c
      <4>2. CASE ReadResume(j) \/ ReadChunkHashes(j)
        <5>1. PICK count, records : Inventoried(j, count, records)
          BY <4>2 DEF ReadResume, ReadChunkHashes
        <5>2. QED
          BY <5>1 DEF Inventoried, c
      <4>3. QED
        BY <2>1, <4>1, <4>2
    <3>3. ASSUME NEW n, n = Up(TakeDown(net, c), c, f)
          PROVE  Same(net, n, c) /\ n[c].down = Tail(net[c].down)
      BY <1>1, <3>1, <3>3, ReadsAndSends
    <3>4. ASSUME NEW n, n = TakeDown(net, c)
          PROVE  Same(net, n, c) /\ n[c].down = Tail(net[c].down)
      BY <1>1, <3>1, <3>4, ReadsAndSends
    <3>5. QED
      BY <3>2, <3>3, <3>4
  <2>2. CASE ScanChunk(j) \/ SendComplete(j)
    <3>1. PICK f, fs : net' \in {net, Up(net, c, f), UpAll(net, c, fs)}
      <4>1. CASE SendComplete(j)
        BY <4>1 DEF SendComplete, c
      <4>2. CASE ScanChunk(j)
        <5>1. CASE Reuses(j, ChunkOf(src[j], snd[j].next, snd[j].size))
          BY <4>2, <5>1 DEF ScanChunk
        <5>2. CASE ~ Reuses(j, ChunkOf(src[j], snd[j].next, snd[j].size))
          BY <4>2, <5>2 DEF ScanChunk, c
        <5>3. QED
          BY <5>1, <5>2
      <4>3. QED
        BY <2>2, <4>1, <4>2
    <3>2. Same(net, net, c)
      BY DEF Same
    <3>3. /\ Same(net, Up(net, c, f), c) /\ Up(net, c, f)[c].down = net[c].down
          /\ Same(net, UpAll(net, c, fs), c) /\ UpAll(net, c, fs)[c].down = net[c].down
      <4>1. net \in [Conns -> AnyLink] /\ c \in Conns
        BY <1>0, <1>1
      <4>2. QED
        BY ONLY <4>1, WriteFields
    <3>4. QED
      BY <3>1, <3>2, <3>3
  <2>3. QED
    BY <2>1, <2>2 DEF Tells
<1>7. QED
  BY <1>1, <1>2, <1>4, <1>5, <1>6

(* A job that leaves drops its end; it may have been cut off in a write. *)
Quits(j) ==
    \/ VerifiedAtOnce(j) \/ Verified(j) \/ SourceTooShort(j) \/ SourceTooLong(j)
    \/ LoseReceiver(j) \/ Abort(j)
LEMMA QuitsHas ==
    ASSUME Typed, NEW j \in Jobs, Quits(j)
    PROVE  /\ Live(j) /\ Conn(j) \in Conns
           /\ \A d \in Conns \ {Conn(j)} : net'[d] = net[d]
           /\ LeftOf(net[Conn(j)].up, net'[Conn(j)].up)
           /\ \A i \in Jobs \ {j} : snd'[i] = snd[i]
           /\ ~ Live(j)' /\ Conn(j)' = Conn(j)
           /\ snd'[j].records = snd[j].records /\ snd'[j].size = snd[j].size
           /\ snd'[j].pc \notin {"hello", "offered", "inventory"}
<1> USE Names
<1> DEFINE c == Conn(j)
<1>1. Live(j) /\ c \in Conns
  BY DEF Quits, Live, VerifiedAtOnce, Verified, SourceTooShort, SourceTooLong, LoseReceiver,
         Abort, Reads, Reading, Scanning
<1>2. /\ snd'[j].pc \notin Reading \cup {"scan"}
      /\ snd'[j].attempt = snd[j].attempt
      /\ snd'[j].records = snd[j].records /\ snd'[j].size = snd[j].size
      /\ \A i \in Jobs \ {j} : snd'[i] = snd[i]
  <2>1. PICK pc \in {"done", "failed", "waiting", "exhausted"} : Goto(j, pc)
    BY DEF Quits, VerifiedAtOnce, Verified, SourceTooShort, SourceTooLong, LoseReceiver, Abort,
           Leave, AfterLoss
  <2>2. snd' = [snd EXCEPT ![j].pc = pc] /\ snd \in [Jobs -> JobState]
    BY <2>1 DEF Goto, Typed
  <2>3. /\ snd'[j].pc = pc /\ snd'[j].attempt = snd[j].attempt
        /\ snd'[j].records = snd[j].records /\ snd'[j].size = snd[j].size
    BY <2>2 DEF JobState
  <2>4. QED
    BY <2>2, <2>3 DEF Reading
<1>3. ~ Live(j)' /\ Conn(j)' = Conn(j)
  BY <1>2 DEF Live, Conn
<1>4. /\ \A d \in Conns \ {c} : net'[d] = net[d]
      /\ LeftOf(net[c].up, net'[c].up)
  <2>0. net \in [Conns -> AnyLink] /\ net[c].up \in Seq(Frames03) /\ Len(net[c].up) \in Nat
    BY <1>1 DEF Typed
  <2>1. CASE Abort(j)
    <3>1. PICK n \in 0 .. Len(net[c].up) :
             net' = DropSender([net EXCEPT ![c].up = SubSeq(@, 1, n)], c)
      BY <2>1 DEF Abort
    <3> DEFINE rest == SubSeq(net[c].up, 1, n)
               k == [net[c] EXCEPT !.up = rest]
               m == [net EXCEPT ![c] = k]
    <3>2. rest \in Seq(Frames03)
      BY <2>0, PrefixType
    <3> HIDE DEF c
    <3>3. k \in AnyLink /\ k.rcvEnd = net[c].rcvEnd /\ k.up = rest
      <4> HIDE DEF rest
      <4>1. net[c] \in AnyLink
        BY <1>1, <2>0
      <4>2. QED
        BY ONLY <3>2, <4>1 DEF AnyLink, Ends
    <3>4. [net EXCEPT ![c].up = SubSeq(@, 1, n)] = m
      BY <1>1, <2>0
    <3> HIDE DEF k
    <3>5. m \in [Conns -> AnyLink] /\ m[c] = k /\ \A d \in Conns \ {c} : m[d] = net[d]
      BY <1>1, <2>0, <3>3
    <3>6. net' = DropSender(m, c)
      BY <3>1, <3>4
    <3> HIDE DEF m, rest
    <3>7. /\ \A d \in Conns \ {c} : net'[d] = net[d]
          /\ net'[c].rcvEnd = net[c].rcvEnd /\ net'[c].down = <<>> /\ net'[c].up = rest
      BY <1>1, <3>3, <3>5, <3>6, DropFields
    <3>8. LeftOf(net[c].up, rest)
      BY <2>0, Broken DEF rest
    <3>9. QED
      BY <3>7, <3>8
  <2>2. CASE ~ Abort(j)
    <3>1. net' = DropSender(net, c)
      BY <2>2 DEF VerifiedAtOnce, Verified, SourceTooShort, SourceTooLong, LoseReceiver, Quits, Leave
    <3> HIDE DEF c
    <3>2. /\ \A d \in Conns \ {c} : net'[d] = net[d]
          /\ net'[c].rcvEnd = net[c].rcvEnd
          /\ net'[c].down = <<>> /\ net'[c].up = net[c].up
      BY <1>1, <2>0, <3>1, DropFields
    <3>3. LeftOf(net[c].up, net[c].up)
      BY <2>0, AllLeft
    <3>4. QED
      BY <3>2, <3>3
  <2>3. QED
    BY <2>1, <2>2
<1>5. QED
  BY <1>1, <1>2, <1>3, <1>4 DEF Reading

(* A job that has no connection. *)
Waits(j) == Start(j) \/ ConnectRefused(j) \/ Retry(j)
LEMMA WaitsHas ==
    ASSUME Typed, NEW j \in Jobs, Waits(j)
    PROVE  /\ net' = net /\ ~ Live(j)'
           /\ \A i \in Jobs \ {j} : snd'[i] = snd[i]
           /\ snd'[j].records = snd[j].records /\ snd'[j].size = snd[j].size
           /\ snd'[j].pc \notin {"hello", "offered", "inventory"}
<1>1. net' = net
  BY DEF Waits, Start, ConnectRefused, Retry, wireVars
<1>2. /\ snd'[j].pc \in {"connect", "waiting", "exhausted"}
      /\ snd'[j].records = snd[j].records /\ snd'[j].size = snd[j].size
      /\ \A i \in Jobs \ {j} : snd'[i] = snd[i]
  <2>1. CASE Retry(j)
    BY <2>1 DEF Retry, Typed, JobState
  <2>2. CASE ~ Retry(j)
    <3>1. PICK pc \in {"connect", "waiting", "exhausted"} : snd' = [snd EXCEPT ![j].pc = pc]
      BY <2>2 DEF Waits, Start, ConnectRefused, Goto, AfterLoss
    <3>2. QED
      BY <3>1 DEF Typed, JobState
  <2>3. QED
    BY <2>1, <2>2
<1>3. QED
  BY <1>1, <1>2 DEF Live, Reading

LEMMA ConnectHas ==
    ASSUME Typed, SessionInv, NEW j \in Jobs, Connect(j)
    PROVE  /\ Conn(j) \in Conns /\ net[Conn(j)].rcvEnd = "none"
           /\ Serving => rcv.conn # Conn(j)
           /\ \A d \in Conns \ {Conn(j)} : net'[d] = net[d]
           /\ net'[Conn(j)].down = <<>>
           /\ \A i \in Jobs \ {j} : snd'[i] = snd[i]
           /\ Conn(j)' = Conn(j) /\ snd'[j].records = <<>>
           /\ snd'[j].pc = "hello"
<1> USE Names
<1>1. Conn(j) \in Conns /\ net[Conn(j)].rcvEnd = "none"
  BY DEF Connect, SessionInv, JobInv
<1>2. Serving => rcv.conn # Conn(j)
  BY <1>1 DEF SessionInv, ConnInv
<1>3. \A d \in Conns \ {Conn(j)} : net'[d] = net[d]
  BY DEF Connect, Typed
<1>4. net'[Conn(j)].down = <<>>
  BY <1>1 DEF Connect, Opened, Typed
<1>5. /\ \A i \in Jobs \ {j} : snd'[i] = snd[i]
      /\ snd'[j].pc = "hello" /\ snd'[j].records = <<>> /\ snd'[j].attempt = snd[j].attempt
  <2>1. snd \in [Jobs -> JobState]
    BY DEF Typed
  <2>2. snd' = [snd EXCEPT ![j].pc = "hello", ![j].size = Len(src[j]),
                           ![j].records = <<>>, ![j].cursor = 0,
                           ![j].next = 0, ![j].read = <<>>]
    BY DEF Connect
  <2>3. QED
    BY <2>1, <2>2 DEF JobState
<1>6. Conn(j)' = Conn(j)
  BY <1>5 DEF Conn
<1>7. QED
  BY <1>1, <1>2, <1>3, <1>4, <1>5, <1>6

LEMMA CutHas ==
    ASSUME Typed, NEW c \in Conns, Cut(c)
    PROVE  /\ \A d \in Conns \ {c} : net'[d] = net[d]
           /\ net'[c].rcvEnd = net[c].rcvEnd /\ net'[c].cut
           /\ LeftOf(net[c].up, net'[c].up) /\ LeftOf(net[c].down, net'[c].down)
<1> USE Names
<1>1. /\ \A d \in Conns \ {c} : net'[d] = net[d]
      /\ net'[c].rcvEnd = net[c].rcvEnd /\ net'[c].cut
      /\ LeftOf(net[c].up, net'[c].up) /\ LeftOf(net[c].down, net'[c].down)
  <2>1. net \in [Conns -> AnyLink] /\ net[c].up \in Seq(Frames03) /\ net[c].down \in Seq(Frames03)
    BY DEF Typed
  <2>2. PICK m \in 0 .. Len(net[c].up), n \in 0 .. Len(net[c].down) :
           net' = [net EXCEPT ![c].cut = TRUE,
                              ![c].up = SubSeq(@, 1, m),
                              ![c].down = SubSeq(@, 1, n)]
    BY DEF Cut
  <2>3. /\ LeftOf(net[c].up, SubSeq(net[c].up, 1, m))
        /\ LeftOf(net[c].down, SubSeq(net[c].down, 1, n))
    BY <2>1, Broken
  <2>4. /\ \A d \in Conns \ {c} : net'[d] = net[d]
        /\ net'[c].rcvEnd = net[c].rcvEnd /\ net'[c].cut
        /\ net'[c].up = SubSeq(net[c].up, 1, m)
        /\ net'[c].down = SubSeq(net[c].down, 1, n)
    BY <2>1, <2>2 DEF AnyLink, Ends
  <2>5. QED
    BY <2>3, <2>4
<1>2. QED
  BY <1>1

LEMMA SenderView ==
    ASSUME Typed, Typed', SessionInv, UNCHANGED receiverVars, Serving,
           NEW j \in Jobs, SenderRuns(j) \/ SenderDisturbed(j)
    PROVE  \/ Unheard
           \/ Attached /\ Job = j /\ Tells(j)
<1> USE Names
<1>0. Job' = Job /\ Serving' = Serving /\ rcv' = rcv /\ rcv.conn \in Conns /\ Job \in Jobs
  BY DEF Job, Serving, receiverVars, Typed
<1>1. \A i \in Jobs : Live(i)' /\ snd'[i] = snd[i] => Live(i)
  BY DEF Live
<1>2. \A i \in Jobs : snd'[i] = snd[i] => Conn(i)' = Conn(i)
  BY DEF Conn
<1>3. ASSUME Attached', NEW i, Job = i
      PROVE  Live(i)' /\ Conn(i)' = rcv.conn
  <2>1. Job' = i
    BY <1>0, <1>3
  <2>2. QED
    BY <1>0, <1>3, <2>1 DEF Attached, Live, Conn
<1>4. ASSUME \A i \in Jobs \ {j} : snd'[i] = snd[i],
             net'[rcv.conn] = net[rcv.conn], ~ (Attached' /\ Job = j)
      PROVE  Unheard
  <2>1. Attached' => Attached /\ snd'[Job] = snd[Job]
    <3>1. SUFFICES ASSUME Attached' PROVE Attached /\ snd'[Job] = snd[Job]
      OBVIOUS
    <3>2. Job # j /\ snd'[Job] = snd[Job]
      BY <1>0, <1>4, <3>1
    <3>3. PICK i \in Jobs : i = Job
      BY <1>0
    <3>4. Live(i)' /\ Conn(i)' = rcv.conn
      BY <1>3, <3>1, <3>3
    <3>5. Live(i) /\ Conn(i) = rcv.conn
      BY <1>1, <1>2, <3>2, <3>3, <3>4
    <3>6. QED
      BY <3>2, <3>3, <3>5 DEF Attached
  <2>2. QED
    BY <1>4, <2>1, Aside
<1>5. CASE Waits(j)
  <2>1. ~ (Attached' /\ Job = j)
    BY <1>3, <1>5, WaitsHas
  <2>2. QED
    BY <1>4, <1>5, <2>1, WaitsHas
<1>6. CASE Connect(j)
  <2>1. /\ rcv.conn # Conn(j) /\ net'[rcv.conn] = net[rcv.conn] /\ Conn(j)' = Conn(j)
        /\ \A i \in Jobs \ {j} : snd'[i] = snd[i]
    BY <1>0, <1>6, ConnectHas
  <2>2. QED
    BY <1>4, <1>3, <2>1
<1>7. CASE EditSource(j)
  <2>1. snd' = snd /\ net' = net
    BY <1>7 DEF EditSource, wireVars
  <2>2. Attached' => Attached
    BY <1>0, <2>1 DEF Attached, Live, Conn
  <2>3. QED
    BY <2>1, <2>2, Aside
<1>8. CASE Quits(j)
  <2>1. /\ Live(j) /\ Conn(j) \in Conns /\ ~ Live(j)'
        /\ \A d \in Conns \ {Conn(j)} : net'[d] = net[d]
        /\ LeftOf(net[Conn(j)].up, net'[Conn(j)].up)
        /\ \A i \in Jobs \ {j} : snd'[i] = snd[i]
    BY <1>8, QuitsHas
  <2>2. CASE rcv.conn = Conn(j)
    <3>1. Job = j
      BY <2>1, <2>2, OnLine
    <3>2. ~ Attached'
      BY <1>3, <2>1, <3>1
    <3>3. Sent = net[Conn(j)].up /\ Sent' = net'[Conn(j)].up
      <4>1. \A x : rcv.conn = x => Sent = net[x].up /\ Sent' = net'[x].up
        BY <1>0 DEF Sent
      <4>2. QED
        BY <2>2, <4>1
    <3>4. QED
      BY <2>1, <3>2, <3>3 DEF Unheard
  <2>3. CASE rcv.conn # Conn(j)
    BY <1>0, <1>4, <1>3, <2>1, <2>3
  <2>4. QED
    BY <2>2, <2>3
<1>9. CASE Tells(j)
  <2>1. /\ Live(j) /\ Conn(j) \in Conns /\ Conn(j)' = Conn(j)
        /\ \A d \in Conns \ {Conn(j)} : net'[d] = net[d]
        /\ \A i \in Jobs \ {j} : snd'[i] = snd[i]
    BY <1>9, TellsHas DEF Same
  <2>2. CASE rcv.conn = Conn(j)
    BY <1>9, <2>1, <2>2, OnLine
  <2>3. CASE rcv.conn # Conn(j)
    BY <1>0, <1>4, <1>3, <2>1, <2>3
  <2>4. QED
    BY <2>2, <2>3
<1>10. QED
  BY <1>5, <1>6, <1>7, <1>8, <1>9
     DEF SenderRuns, SenderDisturbed, Waits, Quits, Tells

-----------------------------------------------------------------------------
(* What is under way to the jobs. *)

LEMMA LeftBatches ==
    ASSUME NEW all, NEW p, NEW down, NEW b, LeftOf(down, b), Batches(all, p, down)
    PROVE  Batches(all, p, b)
BY DEF LeftOf, Batches

LEMMA LeftTail ==
    ASSUME NEW up \in Seq(Frames03), NEW b \in Seq(Frames03), b # <<>>, LeftOf(up, b)
    PROVE  /\ up # <<>> /\ Head(b) = Head(up) /\ LeftOf(Tail(up), Tail(b))
<1>1. up # <<>>
  BY DEF LeftOf
<1>2. Head(b) = Head(up)
  BY <1>1, Rest DEF LeftOf
<1>3. /\ Tail(up) \in Seq(Frames03) /\ Tail(b) \in Seq(Frames03)
      /\ Len(Tail(up)) \in Nat /\ Len(Tail(b)) \in Nat /\ Len(Tail(b)) <= Len(Tail(up))
      /\ \A n \in 1 .. Len(Tail(b)) : Tail(b)[n] = Tail(up)[n]
  BY <1>1, Rest, LenProperties DEF LeftOf
<1>4. Tail(b) = SubSeq(Tail(up), 1, Len(Tail(b)))
  <2> DEFINE u == Tail(up)
             v == Tail(b)
  <2>1. u \in Seq(Frames03) /\ v \in Seq(Frames03) /\ Len(v) \in Nat /\ Len(u) \in Nat
        /\ Len(v) <= Len(u) /\ \A n \in 1 .. Len(v) : v[n] = u[n]
    BY <1>3
  <2> HIDE DEF u, v
  <2>2. SubSeq(u, 1, Len(v)) \in Seq(Frames03) /\ Len(SubSeq(u, 1, Len(v))) = Len(v)
        /\ \A n \in 1 .. Len(v) : SubSeq(u, 1, Len(v))[n] = u[n]
    BY <2>1, PrefixType, SubSeqProperties
  <2> DEFINE w == SubSeq(u, 1, Len(v))
  <2> HIDE DEF w
  <2>3. v = w
    BY <2>1, <2>2, SeqEqual DEF w
  <2>4. QED
    BY <2>3 DEF u, v, w
<1>5. QED
  <2>1. LeftOf(Tail(up), SubSeq(Tail(up), 1, Len(Tail(b))))
    <3>1. Tail(up) \in Seq(Frames03) /\ Len(Tail(b)) \in 0 .. Len(Tail(up))
      BY <1>3
    <3>2. QED
      BY ONLY <3>1, Broken
  <2>2. QED
    BY <1>1, <1>2, <1>4, <2>1

LEMMA NextBatches ==
    ASSUME NEW all \in Seq(Record), NEW p \in Nat, NEW down \in Seq(Frames03), down # <<>>,
           Batches(all, p, down)
    PROVE  /\ p < Len(all) /\ Head(down).type = "CHUNK_HASHES"
           /\ Head(down).records = SubSeq(all, p + 1, BatchEnd(all, p))
           /\ Batches(all, p + MaxBatch, Tail(down))
<1>1. MaxBatch \in Nat /\ MaxBatch # 0
  BY ChunksAssumption
<1>2. /\ 1 \in 1 .. Len(down) /\ Head(down) = down[1]
      /\ Len(Tail(down)) = Len(down) - 1 /\ Len(down) \in Nat
      /\ \A n \in 1 .. Len(Tail(down)) : n + 1 \in 1 .. Len(down) /\ Tail(down)[n] = down[n + 1]
  BY Rest
<1>3. p + (1 - 1) * MaxBatch = p
  BY <1>1
<1>4. /\ p < Len(all) /\ down[1].type = "CHUNK_HASHES"
      /\ down[1].records = SubSeq(all, p + 1, BatchEnd(all, p))
  <2>1. /\ p + (1 - 1) * MaxBatch < Len(all)
        /\ down[1].type = "CHUNK_HASHES"
        /\ down[1].records = SubSeq(all, p + (1 - 1) * MaxBatch + 1,
                                    BatchEnd(all, p + (1 - 1) * MaxBatch))
    BY <1>2 DEF Batches
  <2>2. QED
    BY <1>3, <2>1
<1>5. ASSUME NEW n \in Nat PROVE p + MaxBatch + (n - 1) * MaxBatch = p + ((n + 1) - 1) * MaxBatch
  <2>1. (n - 1) * MaxBatch + MaxBatch = n * MaxBatch
    BY <1>1
  <2>2. (n - 1) * MaxBatch \in Int /\ n * MaxBatch \in Int /\ (n + 1) - 1 = n
    BY <1>1
  <2>3. QED
    BY <1>1, <2>1, <2>2
<1>6. Batches(all, p + MaxBatch, Tail(down))
  <2>1. SUFFICES ASSUME NEW n \in 1 .. Len(Tail(down))
                 PROVE  /\ p + MaxBatch + (n - 1) * MaxBatch < Len(all)
                        /\ Tail(down)[n].type = "CHUNK_HASHES"
                        /\ Tail(down)[n].records =
                              SubSeq(all, p + MaxBatch + (n - 1) * MaxBatch + 1,
                                     BatchEnd(all, p + MaxBatch + (n - 1) * MaxBatch))
    BY DEF Batches
  <2>2. /\ p + ((n + 1) - 1) * MaxBatch < Len(all)
        /\ down[n + 1].type = "CHUNK_HASHES"
        /\ down[n + 1].records = SubSeq(all, p + ((n + 1) - 1) * MaxBatch + 1,
                                    BatchEnd(all, p + ((n + 1) - 1) * MaxBatch))
    BY <1>2 DEF Batches
  <2>3. n \in Nat
    BY <1>2
  <2>4. QED
    BY <1>2, <1>5, <2>2, <2>3
<1>7. QED
  BY <1>2, <1>4, <1>6

(* The inventory that is sent lists all that is known, in order. *)
LEMMA OrderLists ==
    ASSUME NEW known \in SUBSET Record, IsFiniteSet(known), NEW size, InLayout(known, size),
           NEW all \in InOrder(known)
    PROVE  Ordered(all, size) /\ Listed(all, known)
<1> DEFINE N == Cardinality(known)
<1>1. /\ N \in Nat /\ all \in [1 .. N -> known] /\ Len(all) = N
      /\ \A m, n \in 1 .. N : m < n => all[m].index < all[n].index
  <2>1. Cardinality(known) \in Nat
    BY FS_CardinalityType
  <2>2. all \in [1 .. Cardinality(known) -> known]
    BY DEF InOrder
  <2>3. DOMAIN all = 1 .. Cardinality(known)
    BY <2>2
  <2>4. Len(all) = Cardinality(known)
    BY OrderTypes
  <2>5. QED
    BY <2>1, <2>2, <2>3, <2>4 DEF InOrder
<1> HIDE DEF N
<1>2. Ordered(all, size)
  BY <1>1 DEF Ordered, InLayout
<1>3. all \in Injection(1 .. N, known)
  <2>1. \A n \in 1 .. N : all[n].index \in Nat
    BY <1>1 DEF Record
  <2>2. ASSUME NEW m \in 1 .. N, NEW n \in 1 .. N, m # n PROVE all[m] # all[n]
    <3>1. m < n \/ n < m
      BY <1>1, <2>2
    <3>2. all[m].index # all[n].index
      BY <1>1, <2>1, <3>1
    <3>3. QED
      BY <3>2
  <2>3. QED
    BY <1>1, <2>2 DEF Injection, IsInjective
<1>4. IsFiniteSet(1 .. N) /\ Cardinality(1 .. N) = Cardinality(known)
  <2>1. Cardinality(1 .. N) = IF 1 > N THEN 0 ELSE N - 1 + 1
    BY <1>1, FS_Interval
  <2>2. QED
    BY <1>1, <2>1, FS_Interval DEF N
<1>5. all \in Surjection(1 .. N, known)
  BY <1>3, <1>4, FS_Injection
<1>6. QED
  BY <1>1, <1>2, <1>5 DEF Surjection, Listed

LEMMA InventoryOffers ==
    ASSUME NEW all \in Seq(Record)
    PROVE  /\ Inventory(all) \in Seq(Frames03) /\ Inventory(all) # <<>>
           /\ Head(Inventory(all)).type = "RESUME"
           /\ Head(Inventory(all)).count = Len(all)
           /\ Batches(all, 0, Tail(Inventory(all)))
<1> DEFINE resume == [type |-> "RESUME", count |-> Len(all)]
           N == (Len(all) + MaxBatch - 1) \div MaxBatch
           frames == HashBatches(all)
           inventory == Inventory(all)
<1>1. Len(all) \in Nat /\ MaxBatch \in Nat /\ MaxBatch # 0
  BY LenProperties, ChunksAssumption
<1>2. N \in Nat /\ N * MaxBatch <= Len(all) + MaxBatch - 1
  <2> DEFINE x == Len(all) + MaxBatch - 1
             r == x % MaxBatch
  <2>1. x \in Nat
    BY <1>1
  <2>2. N \in Nat /\ r \in Nat /\ x = MaxBatch * N + r
    BY <1>1, <2>1
  <2> HIDE DEF x, r
  <2>3. N * MaxBatch = MaxBatch * N
    BY <1>1, <2>2
  <2>4. MaxBatch * N \in Nat
    BY <1>1, <2>2
  <2>5. QED
    BY <2>2, <2>3, <2>4 DEF x
<1>3. /\ frames = [b \in 1 .. N |->
                      [type |-> "CHUNK_HASHES",
                       records |-> SubSeq(all, (b - 1) * MaxBatch + 1,
                                          IF b * MaxBatch <= Len(all) THEN b * MaxBatch
                                          ELSE Len(all))]]
      /\ inventory = << resume >> \o frames
  BY DEF HashBatches, Inventory
<1> HIDE DEF N
<1>4. ASSUME NEW b \in 1 .. N
      PROVE  /\ (b - 1) * MaxBatch < Len(all)
             /\ frames[b].type = "CHUNK_HASHES"
             /\ frames[b].records = SubSeq(all, (b - 1) * MaxBatch + 1,
                                           BatchEnd(all, (b - 1) * MaxBatch))
             /\ frames[b] \in Frames03
  <2>1. b \in Nat \ {0} /\ b <= N
    BY <1>2
  <2>2. b * MaxBatch \in Nat /\ (b - 1) * MaxBatch \in Nat
    BY <1>1, <2>1
  <2>3. (b - 1) * MaxBatch + MaxBatch = b * MaxBatch
    BY <1>1, <2>1
  <2>4. b * MaxBatch <= N * MaxBatch
    BY <1>1, <1>2, <2>1
  <2>5. (b - 1) * MaxBatch < Len(all)
    <3>1. N * MaxBatch \in Int
      BY <1>1, <1>2
    <3>2. QED
      BY <1>1, <1>2, <2>2, <2>3, <2>4, <3>1
  <2>6. BatchEnd(all, (b - 1) * MaxBatch) = IF b * MaxBatch <= Len(all) THEN b * MaxBatch
                                            ELSE Len(all)
    BY <1>1, <2>2, <2>3 DEF BatchEnd
  <2>7. /\ frames[b].type = "CHUNK_HASHES"
        /\ frames[b].records = SubSeq(all, (b - 1) * MaxBatch + 1,
                                      BatchEnd(all, (b - 1) * MaxBatch))
        /\ frames[b] = [type |-> "CHUNK_HASHES", records |-> frames[b].records]
    <3> DEFINE s == SubSeq(all, (b - 1) * MaxBatch + 1,
                           IF b * MaxBatch <= Len(all) THEN b * MaxBatch ELSE Len(all))
    <3>1. frames[b] = [type |-> "CHUNK_HASHES", records |-> s]
      BY <1>3
    <3>2. s = SubSeq(all, (b - 1) * MaxBatch + 1, BatchEnd(all, (b - 1) * MaxBatch))
      BY <2>6
    <3> HIDE DEF s, frames
    <3>3. /\ frames[b].type = "CHUNK_HASHES" /\ frames[b].records = s
          /\ frames[b] = [type |-> "CHUNK_HASHES", records |-> frames[b].records]
      BY ONLY <3>1
    <3>4. QED
      BY ONLY <3>2, <3>3
  <2>8. frames[b].records \in Seq(Record)
    BY <2>1, <2>6, <2>7, BatchTypes
  <2> HIDE DEF frames
  <2>9. frames[b] \in Frames03
    BY <2>7, <2>8 DEF Frames03
  <2>10. QED
    BY <2>5, <2>7, <2>9
<1>5. frames \in Seq(Frames03) /\ Len(frames) = N
  <2>1. DOMAIN frames = 1 .. N /\ frames = [b \in 1 .. N |-> frames[b]]
    BY <1>3
  <2> HIDE DEF frames
  <2>2. frames \in [1 .. N -> Frames03]
    BY <1>4, <2>1
  <2>3. frames \in Seq(Frames03)
    BY <1>2, <2>2, SeqDef
  <2>4. QED
    BY <1>2, <2>1, <2>3, LenProperties
<1>6. resume \in Frames03 /\ << resume >> \in Seq(Frames03)
  BY <1>1 DEF Frames03
<1>7. /\ inventory \in Seq(Frames03) /\ Len(inventory) = 1 + N /\ inventory[1] = resume
      /\ \A b \in 1 .. N : inventory[1 + b] = frames[b]
  <2> HIDE DEF frames, resume, inventory
  <2>1. Len(<< resume >>) = 1 /\ << resume >>[1] = resume
    OBVIOUS
  <2> DEFINE first == << resume >>
  <2>2. Len(first) = 1 /\ first[1] = resume /\ first \in Seq(Frames03)
        /\ inventory = first \o frames
    BY <1>3, <1>6, <2>1
  <2> HIDE DEF first
  <2>3. /\ first \o frames \in Seq(Frames03) /\ Len(first \o frames) = Len(first) + Len(frames)
        /\ \A n \in 1 .. Len(first) : (first \o frames)[n] = first[n]
        /\ \A n \in 1 .. Len(frames) : (first \o frames)[Len(first) + n] = frames[n]
    BY ONLY <1>5, <2>2, Joined
  <2>4. inventory[1] = first[1]
    BY <2>2, <2>3
  <2>5. QED
    BY <1>5, <2>2, <2>3, <2>4
<1>8. inventory # <<>>
  <2> HIDE DEF inventory
  <2>1. inventory = <<>> => Len(inventory) = 0
    OBVIOUS
  <2>2. QED
    BY <1>2, <1>7, <2>1
<1>9. /\ Head(inventory) = resume /\ Len(Tail(inventory)) = N
      /\ \A b \in 1 .. N : Tail(inventory)[b] = frames[b]
  <2> HIDE DEF inventory, frames, resume
  <2>1. QED
    BY <1>2, <1>7, <1>8, Rest
<1>10. Batches(all, 0, Tail(inventory))
  <2> HIDE DEF inventory, frames, resume
  <2>1. \A b \in 1 .. N : (b - 1) * MaxBatch \in Int
    BY <1>1, <1>2
  <2>2. \A b \in 1 .. N : 0 + (b - 1) * MaxBatch = (b - 1) * MaxBatch
    BY <2>1
  <2>3. QED
    BY <1>4, <1>9, <2>2 DEF Batches
<1>11. QED
  BY <1>7, <1>8, <1>9, <1>10

(* Whatever leaves a job alone and at most loses what is under way to it.  *)
LEMMA DownStays ==
    ASSUME Typed, Typed', NEW j \in Jobs, DownOf(j, net[Conn(j)].down), snd'[j] = snd[j],
           LeftOf(net[Conn(j)].down, net'[Conn(j)].down),
           Attached' /\ Job' = j /\ rcv'.pc = "inventory" =>
              Attached /\ Job = j /\ At("inventory") /\ rcv'.known = rcv.known
    PROVE  DownOf(j, net[Conn(j)].down)'
<1> DEFINE c == Conn(j)
           d == net[c].down
           b == net'[c].down
<1>1. Conn(j)' = c
  BY DEF Conn
<1>2. c \in Conns
  BY Names
<1>3. d \in Seq(Frames03) /\ b \in Seq(Frames03) /\ LeftOf(d, b)
  BY <1>2 DEF Typed, AnyLink, Ends
<1>4. (net[Conn(j)].down)' = b
  BY <1>1
<1>5. ASSUME NEW all, Lists(j, all) PROVE Lists(j, all)'
  BY <1>5 DEF Lists, At
<1> HIDE DEF c
<1>6. snd[j].pc = "hello" => b \in {<<>>, << Bare("HELLO_ACK") >>}
  BY <1>3 DEF DownOf, LeftOf, c
<1>7. ASSUME snd[j].pc = "offered"
      PROVE  \/ b \in {<<>>, << Bare("VERIFIED") >>}
             \/ \E all \in Seq(Record) : OfferedList(j, all, net[Conn(j)].down)'
  <2>1. CASE b = <<>> \/ d \in {<<>>, << Bare("VERIFIED") >>}
    BY <1>3, <2>1 DEF LeftOf
  <2>2. CASE b # <<>> /\ d \notin {<<>>, << Bare("VERIFIED") >>}
    <3>1. PICK all \in Seq(Record) : OfferedList(j, all, d)
      BY <1>7, <2>2 DEF DownOf, c
    <3> HIDE DEF d, b
    <3>2. Head(b) = Head(d) /\ LeftOf(Tail(d), Tail(b))
      BY <1>3, <2>2, LeftTail
    <3>3. /\ Lists(j, all) /\ Head(d).type = "RESUME" /\ Head(d).count = Len(all)
          /\ Batches(all, 0, Tail(d))
      BY <3>1 DEF OfferedList
    <3>4. Batches(all, 0, Tail(b)) /\ Lists(j, all)'
      BY <1>5, <3>2, <3>3, LeftBatches
    <3>5. /\ Lists(j, all)' /\ Head(b).type = "RESUME" /\ Head(b).count = Len(all)
          /\ Batches(all, 0, Tail(b))
      BY <3>2, <3>3, <3>4
    <3>6. OfferedList(j, all, net[Conn(j)].down)'
      BY <1>4, <3>5 DEF OfferedList
    <3>7. QED
      BY <3>6
  <2>3. QED
    BY <2>1, <2>2
<1>8. ASSUME snd[j].pc = "inventory"
      PROVE  \E all \in Seq(Record) : ReadList(j, all, net[Conn(j)].down)'
  <2>1. PICK all \in Seq(Record) : ReadList(j, all, d)
    BY <1>8 DEF DownOf, c
  <2> HIDE DEF d
  <2>2. Lists(j, all)' /\ Batches(all, Len(snd[j].records), b)
    BY <1>3, <1>5, <2>1, LeftBatches DEF ReadList
  <2>3. ReadList(j, all, net[Conn(j)].down)'
    BY <1>4, <2>1, <2>2 DEF ReadList
  <2>4. QED
    BY <2>3
<1>9. QED
  BY <1>4, <1>6, <1>7, <1>8 DEF DownOf

LEMMA NoDown ==
    ASSUME NEW j \in Jobs, ~ Live(j)'
    PROVE  DownOf(j, net[Conn(j)].down)'
BY DEF Live, Reading, DownOf

LEMMA DownOthers ==
    ASSUME Typed, Typed', DownInv, UNCHANGED receiverVars, NEW j \in Jobs, NEW i \in Jobs \ {j},
           snd'[i] = snd[i], \A d \in Conns \ {Conn(j)} : net'[d] = net[d]
    PROVE  Ordered(snd[i].records, snd[i].size)' /\ DownOf(i, net[Conn(i)].down)'
<1>1. Ordered(snd[i].records, snd[i].size)'
  BY DEF DownInv, Ordered
<1>2. Conn(i) \in Conns \ {Conn(j)}
  BY Names
<1>3. LeftOf(net[Conn(i)].down, net'[Conn(i)].down)
  BY <1>2, Names, AllLeft
<1>4. rcv' = rcv /\ Conn(i)' = Conn(i)
  BY DEF receiverVars, Conn
<1>5. Attached' /\ Job' = i /\ rcv'.pc = "inventory" =>
              Attached /\ Job = i /\ At("inventory") /\ rcv'.known = rcv.known
  <2>1. Job' = Job /\ Serving' = Serving
    BY <1>4 DEF Job, Serving
  <2>2. SUFFICES ASSUME Attached', Job' = i, rcv'.pc = "inventory"
                 PROVE  Attached /\ Job = i /\ At("inventory") /\ rcv'.known = rcv.known
    OBVIOUS
  <2>3. Live(i)' /\ Conn(i)' = rcv'.conn /\ Serving'
    <3>1. Live(Job)' /\ Conn(Job)' = rcv'.conn /\ Serving'
      BY <2>2 DEF Attached
    <3>2. Live(Job)' = Live(i)' /\ Conn(Job)' = Conn(i)'
      BY <2>2 DEF Live, Conn
    <3>3. QED
      BY <3>1, <3>2
  <2>4. Live(i) /\ Conn(i) = rcv.conn
    BY <1>4, <2>3 DEF Live
  <2>5. Job = i
    BY <2>1, <2>2
  <2>6. QED
    BY <1>4, <2>1, <2>2, <2>3, <2>4, <2>5 DEF Attached, At
<1>6. DownOf(i, net[Conn(i)].down) /\ i \in Jobs
  BY DEF DownInv
<1>7. QED
  BY <1>1, <1>3, <1>5, <1>6, DownStays

(* The records a job has read, and the batch that comes next. *)
LEMMA ReadsBatch ==
    ASSUME NEW all \in Seq(Record), NEW records \in Seq(Record), NEW batch,
           Starting(records, all), Len(records) < Len(all),
           batch = SubSeq(all, Len(records) + 1, BatchEnd(all, Len(records)))
    PROVE  /\ batch \in Seq(Record) /\ batch # <<>>
           /\ Len(records \o batch) = BatchEnd(all, Len(records))
           /\ Len(records \o batch) <= Len(all)
           /\ Len(records \o batch) < Len(all) =>
                 Len(records \o batch) = Len(records) + MaxBatch
           /\ Starting(records \o batch, all)
<1> DEFINE p == Len(records)
           e == BatchEnd(all, p)
<1>1. /\ p \in Nat /\ Len(all) \in Nat /\ MaxBatch \in Nat /\ MaxBatch # 0
      /\ e \in Nat /\ p < e /\ e <= Len(all)
      /\ e < Len(all) => e = p + MaxBatch
      /\ \A n \in 1 .. Len(all) : all[n] \in Record
  <2>1. p \in Nat /\ Len(all) \in Nat /\ MaxBatch \in Nat /\ MaxBatch # 0
        /\ \A n \in 1 .. Len(all) : all[n] \in Record
    BY LenProperties, ElementOfSeq, ChunksAssumption
  <2>2. p < Len(all)
    OBVIOUS
  <2> HIDE DEF p
  <2>3. QED
    BY <2>1, <2>2 DEF BatchEnd
<1>2. batch = SubSeq(all, p + 1, e)
  OBVIOUS
<1> HIDE DEF p, e
<1>3. /\ batch \in Seq(Record) /\ Len(batch) = e - p
      /\ \A k \in 1 .. e - p : batch[k] = all[p + k]
  <2>1. \A n \in p + 1 .. e : all[n] \in Record
    BY <1>1
  <2>2. /\ SubSeq(all, p + 1, e) \in Seq(Record)
        /\ Len(SubSeq(all, p + 1, e)) = IF p + 1 <= e THEN e - (p + 1) + 1 ELSE 0
        /\ \A i \in 1 .. e - (p + 1) + 1 : SubSeq(all, p + 1, e)[i] = all[p + 1 + i - 1]
    <3>1. p + 1 \in Int /\ e \in Int
      BY <1>1
    <3>2. QED
      BY ONLY <2>1, <3>1, SubSeqProperties
  <2>3. e - (p + 1) + 1 = e - p /\ p + 1 <= e
    BY <1>1
  <2>4. \A i \in 1 .. e - p : p + 1 + i - 1 = p + i
    BY <1>1
  <2>5. \A i \in 1 .. e - p : SubSeq(all, p + 1, e)[i] = all[p + i]
    BY <2>2, <2>3, <2>4
  <2>6. QED
    BY <1>2, <2>2, <2>3, <2>5
<1>4. batch # <<>>
  <2>1. Len(batch) # 0
    BY <1>1, <1>3
  <2>2. Len(<<>>) = 0
    OBVIOUS
  <2>3. QED
    BY <2>1, <2>2
<1>5. /\ Len(records \o batch) = e
      /\ \A n \in 1 .. e :
            (records \o batch)[n] = IF n <= p THEN records[n] ELSE batch[n - p]
  <2>1. /\ Len(records \o batch) = Len(records) + Len(batch)
        /\ \A n \in 1 .. Len(records) + Len(batch) :
              (records \o batch)[n] = IF n <= Len(records) THEN records[n]
                                      ELSE batch[n - Len(records)]
    BY <1>3, ConcatProperties
  <2>2. Len(records) + Len(batch) = e /\ Len(records) = p
    BY <1>1, <1>3 DEF p
  <2>3. QED
    BY <2>1, <2>2
<1>6. Len(records \o batch) = e
  BY <1>5
<1>7. Starting(records \o batch, all)
  <2>1. \A n \in 1 .. p : records[n] = all[n]
    BY DEF Starting, p
  <2>2. ASSUME NEW n \in 1 .. e PROVE (records \o batch)[n] = all[n]
    <3>1. CASE n <= p
      <4>1. n \in 1 .. p
        BY <1>1, <3>1
      <4>2. QED
        BY <1>5, <2>1, <3>1, <4>1
    <3>2. CASE n > p
      <4>1. n - p \in 1 .. e - p /\ p + (n - p) = n /\ ~ (n <= p)
        BY <1>1, <3>2
      <4>2. batch[n - p] = all[p + (n - p)]
        BY <1>3, <4>1
      <4>3. QED
        BY <1>5, <4>1, <4>2
    <3>3. n \in Int /\ p \in Int
      BY <1>1
    <3>4. n <= p \/ n > p
      BY ONLY <3>3
    <3>5. QED
      BY ONLY <3>1, <3>2, <3>4
  <2>3. QED
    BY <1>1, <1>6, <2>2 DEF Starting
<1>8. QED
  BY <1>1, <1>3, <1>4, <1>6, <1>7 DEF p, e

LEMMA StartOrdered ==
    ASSUME NEW all, NEW records, NEW size, Ordered(all, size), Starting(records, all),
           Len(records) \in Nat, Len(all) \in Nat
    PROVE  Ordered(records, size)
BY DEF Ordered, Starting

LEMMA ResumeDown ==
    ASSUME Inv, Inv', SessionInv, DownInv, UNCHANGED receiverVars,
           NEW j \in Jobs, ReadResume(j) \/ ReadChunkHashes(j)
    PROVE  /\ Ordered(snd[j].records, snd[j].size)' /\ DownOf(j, net[Conn(j)].down)'
           /\ snd'[j].pc = "scan" /\ Attached /\ Job = j /\ At("inventory") =>
                 Listed(snd'[j].records, rcv.known)
<1>0. Typed /\ Typed'
  BY InvTypes
<1>1. Tells(j) /\ snd \in [Jobs -> JobState] /\ snd[j] \in JobState
  BY <1>0 DEF Tells, Typed
<1>2. /\ Live(j) /\ Conn(j) \in Conns /\ Same(net, net', Conn(j))
      /\ Conn(j)' = Conn(j) /\ net'[Conn(j)].down \in {net[Conn(j)].down, Tail(net[Conn(j)].down)}
  BY <1>0, <1>1, TellsHas
<1> DEFINE c == Conn(j)
           down == net[c].down
           head == Head(down)
<1>3. down \in Seq(Frames03) /\ down # <<>> /\ head \in Frames03
  <2>1. down \in Seq(Frames03)
    BY <1>0, <1>2, Names
  <2>2. down # <<>>
    BY DEF ReadResume, ReadChunkHashes, Reads, NextDown
  <2> HIDE DEF down
  <2>3. QED
    BY <2>1, <2>2, TakeFirst
<1>4. PICK all \in Seq(Record) :
         /\ Lists(j, all)
         /\ ReadResume(j) => /\ snd[j].pc = "offered" /\ head.count = Len(all)
                             /\ Batches(all, 0, Tail(down))
         /\ ReadChunkHashes(j) => snd[j].pc = "inventory" /\ ReadList(j, all, down)
  <2>1. CASE ReadResume(j)
    <3>1. snd[j].pc = "offered" /\ head.type = "RESUME"
      BY <2>1 DEF ReadResume, Reads, NextDown
    <3>2. down \notin {<<>>, << Bare("VERIFIED") >>}
      <4>1. Head(<< Bare("VERIFIED") >>).type = "VERIFIED"
        BY One, FramesAreFrames
      <4>2. QED
        BY <1>3, <3>1, <4>1
    <3>3. PICK all \in Seq(Record) : OfferedList(j, all, down)
      BY <3>1, <3>2 DEF DownInv, DownOf
    <3>4. ~ ReadChunkHashes(j)
      BY <3>1 DEF ReadChunkHashes, Reads
    <3>5. QED
      BY <3>1, <3>3, <3>4 DEF OfferedList
  <2>2. CASE ReadChunkHashes(j)
    <3>1. snd[j].pc = "inventory"
      BY <2>2 DEF ReadChunkHashes, Reads
    <3>2. PICK all \in Seq(Record) : ReadList(j, all, down)
      BY <3>1 DEF DownInv, DownOf
    <3>3. ~ ReadResume(j)
      BY <3>1 DEF ReadResume, Reads
    <3>4. QED
      BY <3>1, <3>2, <3>3 DEF ReadList
  <2>3. QED
    BY <2>1, <2>2
<1>5. Len(all) \in Nat
  BY LenProperties
(* What the job has read afterwards. *)
<1>6. PICK records \in Seq(Record) :
         /\ Inventoried(j, Len(all), records)
         /\ Starting(records, all)
         /\ Len(records) # Len(all) => Len(records) < Len(all) /\ Batches(all, Len(records), Tail(down))
  <2>1. CASE ReadResume(j)
    <3>1. Inventoried(j, Len(all), <<>>)
      BY <1>4, <2>1 DEF ReadResume
    <3>2. <<>> \in Seq(Record) /\ Len(<<>>) = 0
      BY EmptySeq
    <3>3. Starting(<<>>, all)
      BY <1>5 DEF Starting
    <3>4. Batches(all, Len(<<>>), Tail(down))
      BY <1>4, <2>1, <3>2
    <3> DEFINE none == <<>>
    <3>5. /\ none \in Seq(Record) /\ Inventoried(j, Len(all), none) /\ Starting(none, all)
          /\ Len(none) # Len(all) => Len(none) < Len(all)
          /\ Batches(all, Len(none), Tail(down))
      BY <1>5, <3>1, <3>2, <3>3, <3>4
    <3> HIDE DEF none, down
    <3>6. QED
      BY <3>5
  <2>2. CASE ReadChunkHashes(j)
    <3> DEFINE rs == snd[j].records
               batch == head.records
    <3>1. /\ rs \in Seq(Record) /\ snd[j].count = Len(all) /\ Len(rs) < Len(all)
          /\ Starting(rs, all) /\ Batches(all, Len(rs), down)
      BY <1>1, <1>4, <2>2 DEF ReadList, JobState
    <3>2. Inventoried(j, Len(all), rs \o batch)
      BY <2>2, <3>1 DEF ReadChunkHashes
    <3> HIDE DEF rs, down
    <3>3. Len(rs) \in Nat
      BY <3>1, LenProperties
    <3>4. /\ batch = SubSeq(all, Len(rs) + 1, BatchEnd(all, Len(rs)))
          /\ Batches(all, Len(rs) + MaxBatch, Tail(down))
      BY <1>3, <3>1, <3>3, NextBatches
    <3> HIDE DEF head, batch
    <3>5. /\ batch \in Seq(Record)
          /\ Len(rs \o batch) <= Len(all)
          /\ Len(rs \o batch) < Len(all) => Len(rs \o batch) = Len(rs) + MaxBatch
          /\ Starting(rs \o batch, all)
      BY <3>1, <3>4, ReadsBatch
    <3>6. rs \o batch \in Seq(Record) /\ Len(rs \o batch) \in Nat
      BY <3>1, <3>5, ConcatProperties, LenProperties
    <3> DEFINE new == rs \o batch
    <3>7. /\ new \in Seq(Record) /\ Inventoried(j, Len(all), new) /\ Starting(new, all)
          /\ Len(new) # Len(all) => Len(new) < Len(all) /\ Batches(all, Len(new), Tail(down))
      <4>1. Len(new) # Len(all) => Len(new) < Len(all)
        BY <1>5, <3>5, <3>6
      <4>2. QED
        BY <3>2, <3>4, <3>5, <3>6, <4>1
    <3>8. QED
      BY <3>7 DEF down
  <2>3. QED
    BY <2>1, <2>2
<1>7. /\ snd'[j].records = records /\ snd'[j].size = snd[j].size /\ snd'[j].count = Len(all)
      /\ snd'[j].pc = IF Len(records) = Len(all) THEN "scan" ELSE "inventory"
  BY <1>1, <1>6 DEF Inventoried, JobState
<1>8. Ordered(snd[j].records, snd[j].size)'
  <2>1. Ordered(records, snd[j].size)
    <3>1. Len(records) \in Nat
      BY LenProperties
    <3>2. QED
      BY <1>4, <1>5, <1>6, <3>1, StartOrdered DEF Lists
  <2>2. QED
    BY <1>7, <2>1
<1>9. CASE Len(records) = Len(all)
  <2>1. DownOf(j, net[Conn(j)].down)'
    BY <1>7, <1>9 DEF DownOf
  <2>2. \A n \in 1 .. Len(all) : records[n] = all[n]
    BY <1>6, <1>9 DEF Starting
  <2>3. Listed(all, rcv.known) => Listed(records, rcv.known)
    BY <1>9, <2>2 DEF Listed
  <2>4. Attached /\ Job = j /\ At("inventory") => Listed(all, rcv.known)
    BY <1>4 DEF Lists
  <2>5. QED
    BY <1>7, <1>8, <2>1, <2>3, <2>4
<1>10. CASE Len(records) # Len(all)
  <2>1. (net[Conn(j)].down)' = Tail(down)
    <3>1. net' = TakeDown(net, c)
      BY <1>6, <1>10 DEF Inventoried
    <3>2. net'[c].down = Tail(net[c].down)
      <4> HIDE DEF c
      <4>1. c \in Conns /\ net \in [Conns -> AnyLink]
        BY <1>0, <1>2 DEF c, Typed
      <4>2. QED
        BY <3>1, <4>1, TakeFields
    <3>3. QED
      BY <1>2, <3>2
  <2>2. Lists(j, all)'
    <3>1. Ordered(all, snd[j].size)'
      BY <1>4, <1>7 DEF Lists
    <3>2. ASSUME Attached', Job' = j, At("inventory")' PROVE Listed(all, rcv.known)'
      <4>1. rcv' = rcv
        BY DEF receiverVars
      <4>2. Job = j /\ Serving
        BY <3>2, <4>1 DEF Job, Attached, Serving
      <4>3. Conn(Job)' = rcv.conn
        BY <3>2, <4>1 DEF Attached
      <4>4. Conn(j)' = rcv.conn
        BY <3>2, <4>3 DEF Conn
      <4>5. Attached /\ At("inventory")
        BY <1>2, <3>2, <4>1, <4>2, <4>4 DEF Attached, At
      <4>6. QED
        BY <1>4, <4>1, <4>2, <4>5 DEF Lists
    <3>3. QED
      BY <3>1, <3>2 DEF Lists
  <2>3. /\ Len(records) < Len(all) /\ Starting(records, all)
        /\ Batches(all, Len(records), Tail(down))
    BY <1>6, <1>10
  <2>4. ReadList(j, all, net[Conn(j)].down)'
    <3> HIDE DEF down
    <3>1. QED
      BY <1>7, <2>1, <2>2, <2>3 DEF ReadList
  <2>5. snd'[j].pc = "inventory"
    BY <1>7, <1>10
  <2>6. DownOf(j, net[Conn(j)].down)'
    BY <2>4, <2>5 DEF DownOf
  <2>7. QED
    BY <1>8, <2>5, <2>6
<1>11. QED
  BY <1>9, <1>10

LEMMA TellDown ==
    ASSUME Inv, Inv', SessionInv, DownInv, UNCHANGED receiverVars, NEW j \in Jobs, Tells(j)
    PROVE  Ordered(snd[j].records, snd[j].size)' /\ DownOf(j, net[Conn(j)].down)'
<1>0. Typed /\ Typed'
  BY InvTypes
<1>1. snd \in [Jobs -> JobState] /\ snd[j] \in JobState /\ net \in [Conns -> AnyLink]
  BY <1>0 DEF Typed
<1>2. Conn(j) \in Conns /\ Conn(j)' = Conn(j)
  BY <1>0, TellsHas
<1>3. CASE ReadResume(j) \/ ReadChunkHashes(j)
  BY <1>3, ResumeDown
<1>4. CASE ScanChunk(j) \/ SendComplete(j)
  <2>1. /\ snd'[j].records = snd[j].records /\ snd'[j].size = snd[j].size
        /\ snd'[j].pc \in {"scan", "complete"}
    <3>1. CASE ScanChunk(j)
      BY <1>1, <3>1 DEF ScanChunk, Scanning, JobState
    <3>2. CASE SendComplete(j)
      BY <1>1, <3>2 DEF SendComplete, Goto, JobState
    <3>3. QED
      BY <1>4, <3>1, <3>2
  <2>2. QED
    BY <2>1 DEF DownInv, DownOf
<1>5. CASE SendOffer(j)
  <2>1. /\ snd'[j].records = snd[j].records /\ snd'[j].size = snd[j].size
        /\ snd'[j].pc = "offered" /\ snd[j].pc = "hello"
    BY <1>1, <1>5 DEF SendOffer, Goto, Reads, JobState
  <2>2. net[Conn(j)].down # <<>> /\ net[Conn(j)].down \in {<<>>, << Bare("HELLO_ACK") >>}
    BY <1>5, <2>1 DEF DownInv, DownOf, SendOffer, Reads, NextDown
  <2>3. net'[Conn(j)].down = Tail(net[Conn(j)].down)
    <3> DEFINE c == Conn(j)
               f == Offer(snd[j].size)
    <3>1. net' = Up(TakeDown(net, c), c, f) /\ net[c].down # <<>> /\ c \in Conns
      BY <1>2, <1>5, <2>2 DEF SendOffer
    <3> HIDE DEF c, f
    <3>2. net'[c].down = Tail(net[c].down)
      BY <1>0, <3>1, ReadsAndSends
    <3>3. QED
      BY <3>2 DEF c
  <2>4. (net[Conn(j)].down)' = <<>>
    BY <1>2, <2>2, <2>3, One
  <2>5. QED
    BY <2>1, <2>4 DEF DownInv, DownOf
<1>6. QED
  BY <1>3, <1>4, <1>5 DEF Tells

LEMMA SenderDown ==
    ASSUME Inv, Inv', SessionInv, DownInv, UNCHANGED receiverVars,
           NEW j \in Jobs, SenderRuns(j) \/ SenderDisturbed(j)
    PROVE  DownInv'
<1>0. Typed /\ Typed'
  BY InvTypes
<1>1. ASSUME \A i \in Jobs \ {j} : snd'[i] = snd[i], \A d \in Conns \ {Conn(j)} : net'[d] = net[d],
             Ordered(snd[j].records, snd[j].size)', DownOf(j, net[Conn(j)].down)'
      PROVE  DownInv'
  BY <1>0, <1>1, DownOthers DEF DownInv
<1>2. Ordered(snd[j].records, snd[j].size)
  BY DEF DownInv
<1>3. CASE Tells(j)
  <2>1. /\ \A i \in Jobs \ {j} : snd'[i] = snd[i]
        /\ \A d \in Conns \ {Conn(j)} : net'[d] = net[d]
    BY <1>0, <1>3, TellsHas DEF Same
  <2>2. QED
    BY <1>1, <1>3, <2>1, TellDown
<1>4. CASE Quits(j)
  <2>1. /\ \A i \in Jobs \ {j} : snd'[i] = snd[i]
        /\ \A d \in Conns \ {Conn(j)} : net'[d] = net[d]
        /\ snd'[j].records = snd[j].records /\ snd'[j].size = snd[j].size
        /\ ~ Live(j)'
    BY <1>0, <1>4, QuitsHas
  <2>2. QED
    BY <1>1, <1>2, <2>1, NoDown
<1>5. CASE Waits(j)
  <2>1. /\ \A i \in Jobs \ {j} : snd'[i] = snd[i]
        /\ net' = net
        /\ snd'[j].records = snd[j].records /\ snd'[j].size = snd[j].size
        /\ ~ Live(j)'
    BY <1>0, <1>5, WaitsHas
  <2>2. QED
    BY <1>1, <1>2, <2>1, NoDown
<1>6. CASE Connect(j)
  <2>1. /\ \A i \in Jobs \ {j} : snd'[i] = snd[i]
        /\ \A d \in Conns \ {Conn(j)} : net'[d] = net[d]
        /\ net'[Conn(j)].down = <<>> /\ Conn(j)' = Conn(j) /\ snd'[j].records = <<>>
        /\ snd'[j].pc = "hello"
    BY <1>0, <1>6, ConnectHas
  <2>2. Ordered(snd[j].records, snd[j].size)'
    <3>1. Len(<<>>) = 0
      OBVIOUS
    <3>2. QED
      BY <2>1, <3>1 DEF Ordered
  <2>3. DownOf(j, net[Conn(j)].down)'
    BY <2>1 DEF DownOf
  <2>4. QED
    BY <1>1, <2>1, <2>2, <2>3
<1>7. CASE EditSource(j)
  <2>1. snd' = snd /\ net' = net
    BY <1>7 DEF EditSource, wireVars
  <2>2. DownOf(j, net[Conn(j)].down)'
    <3>1. rcv' = rcv
      BY DEF receiverVars
    <3>2. QED
      BY <2>1, <3>1
         DEF DownInv, DownOf, OfferedList, ReadList, Lists, Attached, Serving, Job, Live, Conn, At
  <2>3. QED
    BY <1>1, <1>2, <2>1, <2>2
<1>8. QED
  BY <1>3, <1>4, <1>5, <1>6, <1>7
     DEF SenderRuns, SenderDisturbed, Waits, Quits, Tells

-----------------------------------------------------------------------------
(* What the receiver and the network do to what is under way to the jobs.  *)

LEMMA DownUnlisted ==
    ASSUME Typed, Typed', DownInv, UNCHANGED senderVars, NEW j \in Jobs,
           LeftOf(net[Conn(j)].down, net'[Conn(j)].down),
           rcv'.pc = "inventory" => rcv' = rcv
    PROVE  DownOf(j, net[Conn(j)].down)'
<1>1. snd' = snd /\ DownOf(j, net[Conn(j)].down)
  BY DEF senderVars, DownInv
<1>2. Attached' /\ Job' = j /\ rcv'.pc = "inventory" =>
         Attached /\ Job = j /\ At("inventory") /\ rcv'.known = rcv.known
  <2>1. rcv' = rcv => (Attached' <=> Attached) /\ Job' = Job
    BY <1>1 DEF Attached, Serving, Live, Conn, Job
  <2>2. QED
    BY <2>1 DEF At
<1>3. QED
  BY <1>1, <1>2, DownStays

LEMMA DownLeft ==
    ASSUME Typed, Typed', DownInv, UNCHANGED senderVars,
           \A c \in Conns : LeftOf(net[c].down, net'[c].down),
           rcv'.pc = "inventory" => rcv' = rcv
    PROVE  DownInv'
<1>1. snd' = snd
  BY DEF senderVars
<1>2. \A j \in Jobs : Conn(j) \in Conns
  BY Names
<1>3. ASSUME NEW j \in Jobs
      PROVE  Ordered(snd[j].records, snd[j].size)' /\ DownOf(j, net[Conn(j)].down)'
  BY <1>1, <1>2, DownUnlisted DEF DownInv
<1>4. QED
  BY <1>3 DEF DownInv

(* The receiver answers on its connection. *)
LEMMA DownAnswered ==
    ASSUME Typed, Typed', SessionInv, DownInv, UNCHANGED senderVars, Serving,
           \A d \in Conns \ {rcv.conn} : net'[d].down = net[d].down,
           rcv'.pc = "inventory" => rcv'.conn = rcv.conn,
           \A j \in Jobs : Attached /\ Job = j => DownOf(j, net[Conn(j)].down)'
    PROVE  DownInv'
<1>1. snd' = snd
  BY DEF senderVars
<1>2. ASSUME NEW j \in Jobs
      PROVE  Ordered(snd[j].records, snd[j].size)' /\ DownOf(j, net[Conn(j)].down)'
  <2>1. Ordered(snd[j].records, snd[j].size)'
    BY <1>1 DEF DownInv
  <2>2. Conn(j) \in Conns /\ Conn(j)' = Conn(j)
    BY <1>1, Names DEF Conn
  <2>3. CASE ~ Live(j)
    <3>1. ~ Live(j)'
      BY <1>1, <2>3 DEF Live
    <3>2. QED
      BY <2>1, <3>1, NoDown
  <2>4. CASE Live(j) /\ Conn(j) = rcv.conn
    <3>1. Attached /\ Job = j
      BY <2>4, OnLine
    <3>2. QED
      BY <2>1, <3>1
  <2>5. CASE Conn(j) # rcv.conn
    <3>1. LeftOf(net[Conn(j)].down, net'[Conn(j)].down)
      BY <2>2, <2>5, Names, AllLeft
    <3>2. ~ (Attached' /\ Job' = j /\ rcv'.pc = "inventory")
      <4>1. SUFFICES ASSUME Attached', Job' = j, rcv'.pc = "inventory" PROVE FALSE
        OBVIOUS
      <4>2. Conn(Job)' = rcv.conn
        BY <4>1 DEF Attached
      <4>3. Conn(Job)' = Conn(j)'
        BY <4>1 DEF Conn
      <4>4. QED
        BY <2>2, <2>5, <4>2, <4>3
    <3>3. snd'[j] = snd[j] /\ DownOf(j, net[Conn(j)].down)
      BY <1>1 DEF DownInv
    <3>4. DownOf(j, net[Conn(j)].down)'
      BY <3>1, <3>2, <3>3, DownStays
    <3>5. QED
      BY <2>1, <3>4
  <2>6. QED
    BY <2>3, <2>4, <2>5
<1>3. QED
  BY <1>2 DEF DownInv

LEMMA HelloDown ==
    ASSUME Inv, Inv', SessionInv, DownInv, UNCHANGED senderVars, AnswerHello
    PROVE  DownInv'
<1>0. Typed /\ Typed' /\ snd' = snd
  BY InvTypes DEF senderVars
<1> DEFINE c == rcv.conn
<1>1. /\ Serving /\ At("hello") /\ net[c].up # <<>> /\ c \in Conns
      /\ rcv'.conn = rcv.conn /\ rcv'.pc = "offer"
      /\ net' = Down(TakeUp(net, c), c, Bare("HELLO_ACK"))
  BY <1>0 DEF AnswerHello, Gets, NextUp, At, Step, Serving, Typed, ReceiverTypeOK
<1>2. /\ Same(net, net', c)
      /\ net'[c].down = IF SenderGone(c) THEN net[c].down
                        ELSE Append(net[c].down, Bare("HELLO_ACK"))
  <2> HIDE DEF c
  <2>1. QED
    BY <1>0, <1>1, Answers
<1>3. ASSUME NEW j \in Jobs, Attached, Job = j
      PROVE  DownOf(j, net[Conn(j)].down)'
  <2>1. Conn(j) = c /\ Conn(j)' = c
    BY <1>0, <1>3 DEF Attached, Conn
  <2>2. snd[j].pc = "hello" /\ net[c].down = <<>>
    BY <1>1, <1>3 DEF SessionInv, PeerInv, HelloInv, Answered
  <2>3. net'[c].down \in {<<>>, << Bare("HELLO_ACK") >>}
    BY <1>2, <2>2, One
  <2>4. QED
    BY <1>0, <2>1, <2>2, <2>3 DEF DownOf
<1>4. \A d \in Conns \ {rcv.conn} : net'[d].down = net[d].down
  BY <1>2 DEF Same
<1>5. QED
  BY <1>0, <1>1, <1>3, <1>4, DownAnswered

LEMMA InventoryDown ==
    ASSUME Inv, Inv', SessionInv, LayoutInv, DownInv, UNCHANGED senderVars, SendInventory
    PROVE  DownInv'
<1>0. Typed /\ Typed' /\ snd' = snd
  BY InvTypes DEF senderVars
<1> DEFINE c == rcv.conn
<1>1. /\ Serving /\ rcv.pc = "negotiate" /\ rcv'.pc = "inventory" /\ c \in Conns
      /\ rcv'.conn = rcv.conn /\ rcv'.size = rcv.size /\ rcv'.known = rcv.known
  BY <1>0 DEF SendInventory, At, Step, Serving, Typed, ReceiverTypeOK
<1>2. rcv.known \in SUBSET Record /\ IsFiniteSet(rcv.known) /\ InLayout(rcv.known, rcv.size)
  BY DEF Inv, ReceiverInv, StepInv, ReceiverTypeOK, LayoutInv
<1>3. PICK all \in InOrder(rcv.known) : net' = DownAll(net, c, Inventory(all))
  BY DEF SendInventory
<1>4. /\ all \in Seq(Record) /\ Ordered(all, rcv.size) /\ Listed(all, rcv.known)
  BY <1>2, OrderLists, OrderTypes
<1>5. /\ Inventory(all) \in Seq(Frames03) /\ Inventory(all) # <<>>
      /\ Head(Inventory(all)).type = "RESUME"
      /\ Head(Inventory(all)).count = Len(all)
      /\ Batches(all, 0, Tail(Inventory(all)))
  BY <1>4, InventoryOffers
<1>6. /\ Same(net, net', c)
      /\ net'[c].down = IF SenderGone(c) THEN net[c].down ELSE net[c].down \o Inventory(all)
  <2>1. net \in [Conns -> AnyLink]
    BY <1>0 DEF Typed
  <2> HIDE DEF c
  <2>2. QED
    BY <1>1, <1>3, <2>1, WriteFields
<1>7. ASSUME NEW j \in Jobs, Attached, Job = j
      PROVE  DownOf(j, net[Conn(j)].down)'
  <2>1. Conn(j) = c /\ Conn(j)' = c
    BY <1>0, <1>7 DEF Attached, Conn
  <2>2. snd[j].pc = "offered" /\ net[c].down = <<>> /\ snd[j].size = rcv.size
    BY <1>1, <1>7 DEF SessionInv, PeerInv, EarlyInv, Early, Answered
  <2>3. PICK fs : fs = Inventory(all)
    OBVIOUS
  <2>4. /\ fs \in Seq(Frames03) /\ Head(fs).type = "RESUME" /\ Head(fs).count = Len(all)
        /\ Batches(all, 0, Tail(fs))
    BY <1>5, <2>3
  <2>5. <<>> \o fs = fs
    <3> HIDE DEF Frames03
    <3>1. QED
      BY <2>4, ConcatEmptySeq
  <2>6. net'[c].down \in {<<>>, fs}
    BY <1>6, <2>2, <2>3, <2>5
  <2>7. Lists(j, all)'
    BY <1>0, <1>1, <1>4, <2>2 DEF Lists
  <2>8. (net[Conn(j)].down)' = fs => OfferedList(j, all, net[Conn(j)].down)'
    BY <2>4, <2>7 DEF OfferedList
  <2>9. (net[Conn(j)].down)' \in {<<>>, fs}
    BY <2>1, <2>6
  <2>10. snd'[j].pc = "offered"
    BY <1>0, <2>2
  <2>11. QED
    BY <1>4, <2>8, <2>9, <2>10 DEF DownOf
<1>8. \A d \in Conns \ {rcv.conn} : net'[d].down = net[d].down
  BY <1>6 DEF Same
<1>9. QED
  BY <1>0, <1>1, <1>7, <1>8, DownAnswered

LEMMA VerifiedDown ==
    ASSUME Inv, Inv', SessionInv, DownInv, DoneInv, UNCHANGED senderVars, SendVerified
    PROVE  DownInv'
<1>0. Typed /\ Typed' /\ snd' = snd
  BY InvTypes DEF senderVars
<1> DEFINE c == rcv.conn
           n == Down(net, c, Bare("VERIFIED"))
<1>1. /\ Serving /\ At("verified") /\ c \in Conns /\ net' = DropReceiver(n, c)
      /\ rcv' = Idle
  BY <1>0 DEF SendVerified, Finish, At, Serving, Typed
<1>2. rcv'.pc # "inventory"
  BY <1>1 DEF Idle
<1>3. net \in [Conns -> AnyLink] /\ Bare("VERIFIED") \in Frames03
  BY <1>0, FramesAreFrames DEF Typed
<1>4. /\ Same(net, n, c)
      /\ n[c].down = IF SenderGone(c) THEN net[c].down ELSE Append(net[c].down, Bare("VERIFIED"))
  <2> HIDE DEF c
  <2>1. QED
    BY <1>1, <1>3, WriteFields
<1>5. \A d \in Conns : net'[d].down = n[d].down
  <2>1. n \in [Conns -> AnyLink]
    <3> DEFINE f == Bare("VERIFIED")
    <3>1. \A x \in AnyLink : [x EXCEPT !.down = Append(@, f)] \in AnyLink
      <4> HIDE DEF f
      <4>1. \A s \in Seq(Frames03) : Append(s, f) \in Seq(Frames03)
        BY <1>3, AppendProperties DEF f
      <4>2. QED
        BY <4>1 DEF AnyLink, Ends
    <3> HIDE DEF c, f
    <3>2. QED
      BY <1>1, <1>3, <3>1 DEF Down, f
  <2> HIDE DEF n, c
  <2>2. QED
    BY <1>1, <2>1, DropFields
<1>6. ASSUME NEW j \in Jobs, Attached, Job = j
      PROVE  DownOf(j, net[Conn(j)].down)'
  <2>1. Conn(j) = c /\ Conn(j)' = c
    BY <1>0, <1>6 DEF Attached, Conn
  <2>2. (snd[j].pc = "offered" /\ net[c].down = <<>>) \/ snd[j].pc = "complete"
    BY <1>1, <1>6 DEF DoneInv, Committing, At, Answered
  <2>3. net[c].down = <<>> => net'[c].down \in {<<>>, << Bare("VERIFIED") >>}
    BY <1>1, <1>4, <1>5, One
  <2>4. QED
    BY <1>0, <2>1, <2>2, <2>3 DEF DownOf
<1>7. \A d \in Conns \ {rcv.conn} : net'[d].down = net[d].down
  BY <1>4, <1>5 DEF Same
<1>8. QED
  BY <1>0, <1>1, <1>2, <1>6, <1>7, DownAnswered

LEMMA ReceiverDown ==
    ASSUME Inv, Inv', SessionInv, LayoutInv, DownInv, DoneInv, UNCHANGED senderVars,
           ReceiverMoves
    PROVE  DownInv'
<1>0. Typed /\ Typed' /\ net \in [Conns -> AnyLink] /\ ReceiverTypeOK
  BY InvTypes DEF Typed
<1>1. CASE AnswerHello
  BY <1>1, HelloDown
<1>2. CASE SendInventory
  BY <1>2, InventoryDown
<1>3. CASE SendVerified
  BY <1>3, VerifiedDown
<1>4. CASE ~ (AnswerHello \/ SendInventory \/ SendVerified)
  <2>1. rcv'.pc # "inventory" /\ \A c \in Conns : net'[c].down \in {net[c].down, <<>>}
    <3>1. CASE \E c \in Conns : Accept(c)
      BY <1>0, <3>1 DEF Accept, Idle, AnyLink, Ends
    <3>2. CASE Close
      <4>1. /\ Serving /\ rcv.conn \in Conns /\ net' = DropReceiver(net, rcv.conn)
            /\ rcv' = Idle
        BY <1>0, <3>2 DEF Close, Finish, At, Serving, Typed
      <4>2. \A c \in Conns : net'[c].down = net[c].down
        BY <1>0, <4>1, DropFields
      <4>3. QED
        BY <4>1, <4>2 DEF Idle
    <3>3. CASE Crash
      <4>1. PICK arrives \in BOOLEAN :
               net' = [c \in Conns |->
                         IF net[c].rcvEnd \in {"backlog", "accepted"}
                         THEN [net[c] EXCEPT !.rcvEnd = "closed", !.up = <<>>,
                                             !.down = IF arrives THEN @ ELSE <<>>]
                         ELSE net[c]]
        BY <3>3 DEF Crash
      <4>2. \A c \in Conns : net'[c].down \in {net[c].down, <<>>}
        BY <1>0, <4>1 DEF AnyLink, Ends
      <4>3. QED
        BY <3>3, <4>2 DEF Crash, Idle
    <3>4. CASE ReadOffer \/ InventoryAccepted \/ ReadChunkStart \/ ReadData \/ ReadComplete
      <4>1. /\ net' = TakeUp(net, rcv.conn) /\ rcv'.pc # "inventory" /\ Serving
        BY <1>0, <3>4 DEF ReadOffer, InventoryAccepted, ReadChunkStart, ReadData, ReadComplete,
                          TakeFrame, Gets, At, Step, Serving, ReceiverTypeOK
      <4>2. rcv.conn \in Conns
        BY <1>0, <4>1 DEF Typed
      <4>3. \A c \in Conns : net'[c].down = net[c].down
        BY <1>0, <4>1, <4>2, TakeFields DEF Same
      <4>4. QED
        BY <4>1, <4>3
    <3>5. CASE \/ ReceiptConflicts \/ FinalReconciled \/ PartReconciled \/ NotReconciled
               \/ LoadInventory \/ OpenPart \/ ResizePart \/ ForgetChunks \/ RecordChunk
               \/ VerifyFile \/ PublishReceipt \/ Link \/ Promoted \/ CleanUp \/ LoseSender
               \/ StorageFails \/ Restart
      <4>1. net' = net
        BY <3>5, QuietSteps
      <4>2. rcv'.pc # "inventory"
        BY <1>0, <3>5
           DEF ReceiptConflicts, FinalReconciled, PartReconciled, NotReconciled, LoadInventory,
               OpenPart, ResizePart, ForgetChunks, RecordChunk, VerifyFile, PublishReceipt, Link,
               Promoted, CleanUp, LoseSender, StorageFails, Restart, AfterStorageError, Step,
               ReceiverTypeOK
      <4>3. QED
        BY <4>1, <4>2
    <3>6. QED
      BY <1>4, <3>1, <3>2, <3>3, <3>4, <3>5 DEF ReceiverMoves, ReceiverRuns, ReceiverDisturbed
  <2>2. \A c \in Conns : Len(net[c].down) \in Nat
    BY <1>0, Names
  <2>3. ASSUME NEW c \in Conns PROVE LeftOf(net[c].down, net'[c].down)
    <3>1. LeftOf(net[c].down, net[c].down)
      BY <2>2, AllLeft
    <3>2. LeftOf(net[c].down, <<>>)
      <4>1. Len(<<>>) = 0 /\ \A s : Len(s) = 0 /\ s \in Seq(Frames03) => s = <<>>
        BY EmptySeq
      <4>2. net[c].down \in Seq(Frames03)
        BY <1>0, Names
      <4>3. QED
        BY <2>2, <4>1, <4>2 DEF LeftOf
    <3>3. QED
      BY <2>1, <3>1, <3>2
  <2>4. QED
    BY <1>0, <2>1, <2>3, DownLeft
<1>5. QED
  BY <1>1, <1>2, <1>3, <1>4

LEMMA CutDown ==
    ASSUME Typed, Typed', DownInv, UNCHANGED senderVars, UNCHANGED receiverVars,
           NEW c \in Conns, Cut(c)
    PROVE  DownInv'
<1>1. \A d \in Conns \ {c} : net'[d] = net[d]
  BY CutHas
<1>2. LeftOf(net[c].down, net'[c].down)
  BY CutHas
<1>3. \A d \in Conns : LeftOf(net[d].down, net'[d].down)
  BY <1>1, <1>2, Names, AllLeft
<1>4. rcv' = rcv
  BY DEF receiverVars
<1>5. QED
  BY <1>3, <1>4, DownLeft

-----------------------------------------------------------------------------
(* Nothing more comes to a job whose file is being committed. *)

LEMMA SenderDone ==
    ASSUME Inv, Inv', SessionInv, DoneInv, UNCHANGED receiverVars,
           NEW j \in Jobs, SenderRuns(j) \/ SenderDisturbed(j)
    PROVE  DoneInv'
<1>0. Typed /\ Typed' /\ rcv' = rcv /\ Job' = Job
  BY InvTypes DEF receiverVars, Job
<1>1. SUFFICES ASSUME Attached', rcv.pc \in Committing
               PROVE  \/ snd'[Job].pc = "offered" /\ Answered' = <<>>
                      \/ snd'[Job].pc = "complete"
  BY <1>0 DEF DoneInv
<1>2. Serving
  BY <1>1 DEF Committing, Serving
<1>3. CASE Unheard
  <2>1. /\ Attached /\ snd'[Job] = snd[Job] /\ LeftOf(Answered, Answered')
    BY <1>1, <1>3 DEF Unheard
  <2>2. Answered = <<>> => Answered' = <<>>
    BY <2>1 DEF LeftOf
  <2>3. QED
    BY <1>1, <2>1, <2>2 DEF DoneInv
<1>4. CASE Attached /\ Job = j /\ Tells(j)
  <2>1. \/ snd[j].pc = "offered" /\ Answered = <<>>
        \/ snd[j].pc = "complete"
    BY <1>1, <1>4 DEF DoneInv
  <2>2. Answered = net[Conn(j)].down
    BY <1>4 DEF Attached, Answered
  <2>3. QED
    BY <1>4, <2>1, <2>2
       DEF Tells, SendOffer, ReadResume, ReadChunkHashes, ScanChunk, SendComplete, Scanning,
           Reads, NextDown
<1>5. QED
  BY <1>0, <1>2, <1>3, <1>4, SenderView

LEMMA ReceiverDone ==
    ASSUME Inv, SessionInv, DoneInv, UNCHANGED senderVars, ReceiverMoves
    PROVE  DoneInv'
<1>0. Typed /\ ReceiverTypeOK /\ snd' = snd
  BY InvTypes DEF Typed, senderVars
<1>1. ASSUME net' = net, rcv'.conn = rcv.conn, Serving
      PROVE  /\ Attached' <=> Attached /\ Serving'
             /\ Job' = Job /\ Answered' = Answered
  BY <1>0, <1>1 DEF Attached, Live, Conn, Job, Answered
<1>2. CASE rcv'.pc \notin Committing
  BY <1>2 DEF DoneInv
<1>3. CASE FinalReconciled \/ PartReconciled
  <2>1. /\ net' = net /\ rcv'.conn = rcv.conn /\ rcv.pc = "reconcile" /\ Serving
    BY <1>0, <1>3, QuietSteps DEF FinalReconciled, PartReconciled, At, Step, ReceiverTypeOK, Serving
  <2>2. Attached => snd[Job].pc = "offered" /\ Answered = <<>>
    BY <2>1 DEF SessionInv, PeerInv, EarlyInv, Early
  <2>3. QED
    BY <1>0, <1>1, <2>1, <2>2 DEF DoneInv
<1>4. CASE VerifyFile \/ PublishReceipt \/ Link \/ Promoted \/ CleanUp \/ (At("cleanup") /\ StorageFails)
  <2>1. /\ net' = net /\ rcv'.conn = rcv.conn /\ rcv.pc \in Committing
    BY <1>0, <1>4, QuietSteps
       DEF VerifyFile, PublishReceipt, Link, Promoted, CleanUp, StorageFails, At, Step,
           ReceiverTypeOK, Committing
  <2>2. Serving
    BY <2>1 DEF Serving, Committing
  <2>3. QED
    BY <1>0, <1>1, <2>1, <2>2 DEF DoneInv
<1>5. CASE ReadComplete
  <2> DEFINE c == rcv.conn
  <2>1. /\ rcv.pc = "data" /\ rcv'.conn = rcv.conn /\ Serving /\ c \in Conns
        /\ Sent # <<>> /\ Head(Sent).type = "COMPLETE" /\ net' = TakeUp(net, c)
    BY <1>0, <1>5 DEF ReadComplete, Gets, At, NextUp, TakeFrame, Typed, ReceiverTypeOK, Serving, Sent
  <2>2. Sent \in Seq(Frames03)
    BY <1>0, <2>1, Names DEF Sent
  <2>3. PICK read \in Content : Stream(read)
    BY <2>1 DEF SessionInv, PeerInv, StreamInv, Chunking
  <2>4. Announces(Sent)
    <3>1. ComesOf(rcv.size, read, Sent)
      BY <2>3 DEF Stream
    <3>2. QED
      BY <2>1, <2>2, <3>1, FirstComes
  <2>5. Attached => snd[Job].pc = "complete"
    BY <2>3, <2>4 DEF Stream
  <2>6. Attached' => Attached /\ Job' = Job
    BY <1>0, <2>1 DEF Attached, Live, Conn, Job
  <2>7. Job' = Job
    BY <2>1 DEF Job
  <2>8. QED
    BY <1>0, <2>5, <2>6, <2>7 DEF DoneInv
<1>6. QED
  <2>1. CASE \E c \in Conns : Accept(c)
    BY <1>2, <2>1 DEF Accept, Idle, Committing
  <2>2. CASE AnswerHello \/ ReadOffer \/ SendInventory \/ InventoryAccepted
    BY <1>0, <1>2, <2>2
       DEF AnswerHello, ReadOffer, SendInventory, InventoryAccepted, Step, Committing,
           ReceiverTypeOK
  <2>3. CASE ReceiptConflicts \/ NotReconciled \/ LoadInventory \/ OpenPart \/ ResizePart \/ LoseSender
    BY <1>0, <1>2, <2>3
       DEF ReceiptConflicts, NotReconciled, LoadInventory, OpenPart, ResizePart, LoseSender, Step,
           Committing, ReceiverTypeOK
  <2>4. CASE ReadChunkStart \/ ReadData \/ ForgetChunks \/ RecordChunk
    BY <1>0, <1>2, <2>4
       DEF ReadChunkStart, ReadData, ForgetChunks, RecordChunk, Gets, At, Committing,
           ReceiverTypeOK
  <2>5. CASE SendVerified \/ Close \/ Crash \/ Restart
    <3>1. rcv'.pc \in {"accept", "down"}
      <4>1. CASE SendVerified \/ Close
        BY <4>1 DEF SendVerified, Close, Finish, Idle
      <4>2. CASE Crash
        BY <4>2 DEF Crash, Idle
      <4>3. CASE Restart
        BY <1>0, <4>3 DEF Restart, Step, ReceiverTypeOK
      <4>4. QED
        BY <2>5, <4>1, <4>2, <4>3
    <3>2. QED
      BY <1>2, <3>1 DEF Committing
  <2>6. CASE StorageFails /\ ~ At("cleanup")
    BY <1>0, <1>2, <2>6 DEF StorageFails, AfterStorageError, Committing, ReceiverTypeOK
  <2>7. QED
    BY <1>3, <1>4, <1>5, <2>1, <2>2, <2>3, <2>4, <2>5, <2>6
       DEF ReceiverMoves, ReceiverRuns, ReceiverDisturbed

LEMMA CutDone ==
    ASSUME Typed, DoneInv, UNCHANGED senderVars, UNCHANGED receiverVars, NEW c \in Conns, Cut(c)
    PROVE  DoneInv'
<1>1. snd' = snd /\ rcv' = rcv /\ Job' = Job /\ (Attached' <=> Attached)
  BY DEF senderVars, receiverVars, Job, Attached, Serving, Live, Conn
<1>2. SUFFICES ASSUME Attached, rcv.pc \in Committing PROVE Answered = <<>> => Answered' = <<>>
  BY <1>1 DEF DoneInv
<1>3. rcv.conn \in Conns
  BY <1>2 DEF Attached, Typed
<1>4. /\ net'[rcv.conn] = net[rcv.conn] \/ LeftOf(net[rcv.conn].down, net'[rcv.conn].down)
  BY <1>3, CutHas
<1>5. QED
  BY <1>1, <1>4 DEF Answered, LeftOf

-----------------------------------------------------------------------------
(* Frames in a row *)

LEMMA ChunkEnds ==
    ASSUME NEW i \in Nat, NEW size \in Nat, i < ChunkCount(size),
           NEW o \in Nat, ChunkStart(i) <= o, o < ChunkEnd(i, size)
    PROVE  EndsAt(o, size) <=> o + 1 = ChunkEnd(i, size)
<1>1. o + 1 = ChunkEnd(i, size) => EndsAt(o, size)
  BY DEF EndsAt
<1>2. ASSUME NEW k \in Nat, k < ChunkCount(size), o + 1 = ChunkEnd(k, size), k # i
      PROVE  FALSE
  <2>1. o + 1 \notin ChunkStart(k) + 1 .. ChunkEnd(k, size)
    BY <1>2, ChunksApart
  <2>2. ChunkStart(k) < ChunkEnd(k, size)
    BY <1>2, NextEnds
  <2>3. ChunkStart(k) \in Nat
    BY ChunksAssumption DEF ChunkStart
  <2> DEFINE a == ChunkStart(k)
             b == ChunkEnd(k, size)
  <2>4. o + 1 \notin a + 1 .. b /\ a < b /\ a \in Nat /\ b = o + 1
    BY <1>2, <2>1, <2>2, <2>3
  <2> HIDE DEF a, b
  <2>5. QED
    BY <2>4
<1>3. QED
  BY <1>1, <1>2 DEF EndsAt

LEMMA FlowLeft ==
    ASSUME NEW up, NEW b, LeftOf(up, b), NEW size, NEW from, NEW known
    PROVE  /\ Flows(up, size) => Flows(b, size)
           /\ StartsFrom(up, from, size, known) => StartsFrom(b, from, size, known)
           /\ Ascends(up) => Ascends(b)
<1>1. /\ Len(b) \in Nat /\ Len(up) \in Nat /\ Len(b) <= Len(up)
      /\ \A n \in 1 .. Len(b) : n \in 1 .. Len(up) /\ b[n] = up[n]
  BY DEF LeftOf
<1>2. Flows(up, size) => Flows(b, size)
  <2>1. \A n \in 1 .. Len(b) - 1 : n \in 1 .. Len(b) /\ n + 1 \in 1 .. Len(b) /\ n \in 1 .. Len(up) - 1
    BY <1>1
  <2>2. QED
    BY <1>1, <2>1 DEF Flows
<1>3. QED
  BY <1>1, <1>2 DEF StartsFrom, Ascends

LEMMA FlowRest ==
    ASSUME NEW up \in Seq(Frames03), up # <<>>, NEW size, NEW from, NEW known,
           Flows(up, size), StartsFrom(up, from, size, known), Ascends(up)
    PROVE  /\ Flows(Tail(up), size)
           /\ StartsFrom(Tail(up), from, size, known)
           /\ Ascends(Tail(up))
           /\ IsStart(Head(up)) => StartsFrom(Tail(up), Head(up).index + 1, size, known)
           /\ IsStart(Head(up)) =>
                 /\ Head(up).index \in Nat
                 /\ from <= Head(up).index /\ Head(up).index < ChunkCount(size)
                 /\ [index |-> Head(up).index, hash |-> Head(up).hash] \notin known
           /\ Tail(up) # <<>> => /\ Follows(Head(up), Head(Tail(up)), size)
                                 /\ Tail(up)[Len(Tail(up))] = up[Len(up)]
           /\ Tail(up) = <<>> => up[Len(up)] = Head(up)
<1> DEFINE t == Tail(up)
           h == Head(up)
<1>1. /\ Len(up) \in Nat /\ 1 \in 1 .. Len(up) /\ h = up[1]
      /\ t \in Seq(Frames03) /\ Len(t) = Len(up) - 1 /\ Len(t) \in Nat
      /\ \A n \in 1 .. Len(t) : n + 1 \in 1 .. Len(up) /\ t[n] = up[n + 1]
  BY Rest, LenProperties
<1>2. \A n \in 1 .. Len(up) : up[n] \in Frames03
  BY ElementOfSeq
<1>3. \A n \in 1 .. Len(up) : IsStart(up[n]) => up[n].index \in Nat
  BY <1>2, FrameFields DEF IsStart
<1>4. t # <<>> => /\ 1 \in 1 .. Len(t) /\ Head(t) = t[1] /\ Len(t) \in 1 .. Len(t)
                  /\ 2 \in 1 .. Len(up)
  <2> HIDE DEF t
  <2>1. t # <<>> => 1 \in 1 .. Len(t) /\ Head(t) = t[1]
    BY <1>1, Rest
  <2>2. QED
    BY <1>1, <2>1
<1>5. t = <<>> => Len(up) = 1
  <2> HIDE DEF t
  <2>1. t = <<>> => Len(t) = 0
    OBVIOUS
  <2>2. QED
    BY <1>1, <2>1
<1> HIDE DEF t, h
<1>6. Flows(t, size)
  <2>1. ASSUME NEW n \in 1 .. Len(t) - 1 PROVE Follows(t[n], t[n + 1], size)
    <3>1. /\ n \in 1 .. Len(t) /\ n + 1 \in 1 .. Len(t) /\ n + 1 \in 1 .. Len(up) - 1
      BY <1>1
    <3>2. t[n] = up[n + 1] /\ t[n + 1] = up[(n + 1) + 1]
      BY <1>1, <3>1
    <3>3. Follows(up[n + 1], up[(n + 1) + 1], size)
      BY <3>1 DEF Flows
    <3>4. QED
      BY <3>2, <3>3
  <2>2. QED
    BY <2>1 DEF Flows
<1>7. StartsFrom(t, from, size, known)
  BY <1>1 DEF StartsFrom
<1>8. Ascends(t)
  <2>1. SUFFICES ASSUME NEW m \in 1 .. Len(t), NEW n \in 1 .. Len(t), m < n,
                        IsStart(t[m]), IsStart(t[n])
                 PROVE  t[m].index < t[n].index
    BY DEF Ascends
  <2>2. /\ t[m] = up[m + 1] /\ t[n] = up[n + 1] /\ m + 1 \in 1 .. Len(up) /\ n + 1 \in 1 .. Len(up)
        /\ m + 1 < n + 1
    BY <1>1, <2>1
  <2>3. QED
    BY <2>1, <2>2 DEF Ascends
<1>9. IsStart(h) => StartsFrom(t, h.index + 1, size, known)
  <2>1. SUFFICES ASSUME IsStart(h), NEW n \in 1 .. Len(t), IsStart(t[n])
                 PROVE  h.index + 1 <= t[n].index
    BY <1>7 DEF StartsFrom
  <2>2. /\ t[n] = up[n + 1] /\ n + 1 \in 1 .. Len(up) /\ 1 < n + 1 /\ h = up[1]
    BY <1>1
  <2>3. h.index < t[n].index
    BY <1>1, <2>1, <2>2 DEF Ascends
  <2>4. h.index \in Nat /\ t[n].index \in Nat
    BY <1>1, <1>3, <2>1, <2>2
  <2>5. QED
    BY <2>3, <2>4
<1>10. IsStart(h) => /\ h.index \in Nat /\ from <= h.index /\ h.index < ChunkCount(size)
                     /\ [index |-> h.index, hash |-> h.hash] \notin known
  BY <1>1, <1>3 DEF StartsFrom
<1>11. t # <<>> => Follows(h, Head(t), size) /\ t[Len(t)] = up[Len(up)]
  <2>1. SUFFICES ASSUME t # <<>> PROVE Follows(h, Head(t), size) /\ t[Len(t)] = up[Len(up)]
    OBVIOUS
  <2>2. Head(t) = up[1 + 1] /\ 1 \in 1 .. Len(up) - 1
    BY <1>1, <1>4, <2>1
  <2>3. Follows(up[1], up[1 + 1], size)
    BY <2>2 DEF Flows
  <2>4. t[Len(t)] = up[Len(t) + 1] /\ Len(t) + 1 = Len(up)
    BY <1>1, <1>4, <2>1
  <2>5. QED
    BY <1>1, <2>2, <2>3, <2>4
<1>12. t = <<>> => up[Len(up)] = h
  BY <1>1, <1>5
<1>13. QED
  BY <1>6, <1>7, <1>8, <1>9, <1>10, <1>11, <1>12 DEF t, h

LEMMA FlowJoins ==
    ASSUME NEW up \in Seq(Frames03), NEW fs \in Seq(Frames03), fs # <<>>,
           NEW size, NEW from, NEW known,
           Flows(up, size), StartsFrom(up, from, size, known), Ascends(up),
           Flows(fs, size), StartsFrom(fs, from, size, known), Ascends(fs),
           up # <<>> => Follows(up[Len(up)], fs[1], size),
           \A m \in 1 .. Len(up), n \in 1 .. Len(fs) :
              IsStart(up[m]) /\ IsStart(fs[n]) => up[m].index < fs[n].index
    PROVE  /\ Flows(up \o fs, size)
           /\ StartsFrom(up \o fs, from, size, known)
           /\ Ascends(up \o fs)
           /\ up \o fs # <<>> /\ (up \o fs)[Len(up \o fs)] = fs[Len(fs)]
           /\ Head(up \o fs) = IF up = <<>> THEN fs[1] ELSE Head(up)
           /\ \A n \in 1 .. Len(up \o fs) :
                 \/ \E m \in 1 .. Len(up) : (up \o fs)[n] = up[m]
                 \/ \E m \in 1 .. Len(fs) : (up \o fs)[n] = fs[m]
           /\ \A m \in 1 .. Len(up) : \E n \in 1 .. Len(up \o fs) : (up \o fs)[n] = up[m]
           /\ \A m \in 1 .. Len(fs) : \E n \in 1 .. Len(up \o fs) : (up \o fs)[n] = fs[m]
<1> DEFINE j == up \o fs
           l == Len(up)
<1>1. /\ j \in Seq(Frames03) /\ Len(j) = l + Len(fs) /\ l \in Nat /\ Len(fs) \in Nat
      /\ \A n \in 1 .. l : n \in 1 .. Len(j) /\ j[n] = up[n]
      /\ \A n \in 1 .. Len(fs) : l + n \in 1 .. Len(j) /\ j[l + n] = fs[n]
      /\ \A n \in 1 .. Len(j) :
            \/ n \in 1 .. l
            \/ n - l \in 1 .. Len(fs) /\ j[n] = fs[n - l]
  BY Joined
<1>2. Len(fs) \in 1 .. Len(fs) /\ 1 \in 1 .. Len(fs)
  BY Rest
<1>3. /\ up = <<>> <=> l = 0
      /\ up # <<>> => 1 \in 1 .. l /\ l \in 1 .. l /\ Head(up) = up[1]
  BY <1>1, Rest, EmptySeq
<1> HIDE DEF j, l
<1>4. ASSUME NEW n \in 1 .. Len(j) PROVE n \in Nat
  BY <1>1
<1>5. Flows(j, size)
  <2>1. SUFFICES ASSUME NEW n \in 1 .. Len(j) - 1 PROVE Follows(j[n], j[n + 1], size)
    BY DEF Flows
  <2>2. n \in Nat /\ n >= 1 /\ n + 1 <= l + Len(fs)
    BY <1>1
  <2>3. CASE n < l
    <3>1. n \in 1 .. l /\ n + 1 \in 1 .. l /\ n \in 1 .. l - 1
      BY <1>1, <2>2, <2>3
    <3>2. Follows(up[n], up[n + 1], size)
      BY <3>1 DEF Flows, l
    <3>3. QED
      BY <1>1, <3>1, <3>2
  <2>4. CASE n = l
    <3>1. up # <<>> /\ n \in 1 .. l
      BY <1>1, <1>3, <2>2, <2>4
    <3>2. Follows(up[l], fs[1], size)
      BY <3>1 DEF l
    <3>3. j[n] = up[l] /\ j[n + 1] = fs[1]
      BY <1>1, <1>2, <2>4, <3>1
    <3>4. QED
      BY <3>2, <3>3
  <2>5. CASE n > l
    <3> DEFINE m == n - l
    <3>1. m \in 1 .. Len(fs) - 1 /\ m \in 1 .. Len(fs) /\ m + 1 \in 1 .. Len(fs)
          /\ n = l + m /\ n + 1 = l + (m + 1)
      BY <1>1, <2>2, <2>5
    <3> HIDE DEF m
    <3>2. Follows(fs[m], fs[m + 1], size)
      BY <3>1 DEF Flows
    <3>3. j[n] = fs[m] /\ j[n + 1] = fs[m + 1]
      BY <1>1, <3>1
    <3>4. QED
      BY <3>2, <3>3
  <2>6. QED
    BY <1>1, <2>2, <2>3, <2>4, <2>5
<1>6. StartsFrom(j, from, size, known)
  <2>1. SUFFICES ASSUME NEW n \in 1 .. Len(j), IsStart(j[n])
                 PROVE  /\ from <= j[n].index /\ j[n].index < ChunkCount(size)
                        /\ [index |-> j[n].index, hash |-> j[n].hash] \notin known
    BY DEF StartsFrom
  <2>2. CASE n \in 1 .. l
    BY <1>1, <2>1, <2>2 DEF StartsFrom, l
  <2>3. CASE n - l \in 1 .. Len(fs) /\ j[n] = fs[n - l]
    BY <2>1, <2>3 DEF StartsFrom
  <2>4. QED
    BY <1>1, <2>2, <2>3
<1>7. Ascends(j)
  <2>1. SUFFICES ASSUME NEW m \in 1 .. Len(j), NEW n \in 1 .. Len(j), m < n,
                        IsStart(j[m]), IsStart(j[n])
                 PROVE  j[m].index < j[n].index
    BY DEF Ascends
  <2>2. CASE m \in 1 .. l /\ n \in 1 .. l
    BY <1>1, <2>1, <2>2 DEF Ascends, l
  <2>3. CASE m \in 1 .. l /\ n - l \in 1 .. Len(fs) /\ j[n] = fs[n - l]
    BY <1>1, <2>1, <2>3 DEF l
  <2>4. CASE m - l \in 1 .. Len(fs) /\ j[m] = fs[m - l] /\ n - l \in 1 .. Len(fs) /\ j[n] = fs[n - l]
    <3>1. m - l < n - l
      BY <1>1, <1>4, <2>1
    <3>2. QED
      BY <2>1, <2>4, <3>1 DEF Ascends
  <2>5. CASE m - l \in 1 .. Len(fs) /\ n \in 1 .. l
    BY <1>1, <1>4, <2>1, <2>5
  <2>6. QED
    BY <1>1, <2>2, <2>3, <2>4, <2>5
<1>8. j # <<>> /\ j[Len(j)] = fs[Len(fs)] /\ Head(j) = IF up = <<>> THEN fs[1] ELSE Head(up)
  <2>1. Len(j) # 0
    BY <1>1, <1>2
  <2>2. j # <<>>
    BY <2>1, EmptySeq
  <2>3. Head(j) = j[1]
    BY <1>1, <2>2, Rest
  <2>4. j[l + 1] = fs[1]
    BY <1>1, <1>2
  <2>5. l = 0 => l + 1 = 1
    OBVIOUS
  <2>6. Head(j) = IF up = <<>> THEN fs[1] ELSE Head(up)
    BY <1>1, <1>3, <2>3, <2>4, <2>5
  <2>7. j[Len(j)] = fs[Len(fs)]
    BY <1>1, <1>2
  <2>8. QED
    BY <2>2, <2>6, <2>7
<1>9. \A n \in 1 .. Len(j) : \/ \E m \in 1 .. l : j[n] = up[m]
                             \/ \E m \in 1 .. Len(fs) : j[n] = fs[m]
  BY <1>1
<1>10. /\ \A m \in 1 .. l : \E n \in 1 .. Len(j) : j[n] = up[m]
       /\ \A m \in 1 .. Len(fs) : \E n \in 1 .. Len(j) : j[n] = fs[m]
  BY <1>1
<1>11. QED
  BY <1>5, <1>6, <1>7, <1>8, <1>9, <1>10 DEF j, l

(* The frames of one chunk, and a frame that is none of a chunk's. *)
LEMMA ChunkFlow ==
    ASSUME NEW i \in Nat, NEW size \in Nat, i < ChunkCount(size),
           NEW chunk \in Content, Len(chunk) = ChunkEnd(i, size) - ChunkStart(i),
           NEW fs, fs = ChunkFrames(i, chunk)
    PROVE  /\ fs \in Seq(Frames03) /\ fs # <<>>
           /\ 1 \in 1 .. Len(fs) /\ IsStart(fs[1]) /\ fs[1].index = i
           /\ \A n \in 1 .. Len(fs) : IsStart(fs[n]) => fs[n].index = i /\ fs[n].hash = chunk
           /\ Flows(fs, size) /\ Ascends(fs) /\ Ends1(fs[Len(fs)], size)
<1> DEFINE s == ChunkStart(i)
           e == ChunkEnd(i, size)
           L == Len(chunk)
           first == [type |-> "CHUNK_START", index |-> i, hash |-> chunk]
           data == [k \in 1 .. Len(chunk) |->
                      [type |-> "DATA", offset |-> s + k - 1, block |-> chunk[k]]]
<1>1. s \in Nat /\ e \in Nat /\ s < e /\ L \in Nat /\ L = e - s /\ chunk \in Seq(Blocks)
  BY ChunkBounds, NextEnds, LenProperties DEF Content
<1>2. fs = << first >> \o data /\ fs \in Seq(Frames03)
  <2>1. fs = << first >> \o data
    BY DEF ChunkFrames
  <2>2. fs \in Seq(Frames03)
    BY ChunkFramesTypes
  <2>3. QED
    BY <2>1, <2>2
<1>3. << first >> \in Seq(Frames03) /\ Len(<< first >>) = 1 /\ << first >>[1] = first
  <2>1. first \in Frames03
    BY DEF Frames03
  <2>2. QED
    BY <2>1, One
<1>4. data \in Seq(Frames03) /\ Len(data) = L
  <2>1. ASSUME NEW k \in 1 .. Len(chunk) PROVE data[k] \in Frames03
    <3>1. chunk[k] \in Blocks /\ s + k - 1 \in Nat
      BY <1>1, ElementOfSeq
    <3>2. QED
      BY <3>1 DEF Frames03
  <2> HIDE DEF data
  <2>2. data = [k \in 1 .. Len(chunk) |-> data[k]]
    BY DEF data
  <2>3. data \in Seq(Frames03)
    BY <1>1, <2>1, <2>2, IsASeq
  <2>4. QED
    BY <1>1, <2>2, <2>3, LenProperties
<1>5. \A k \in 1 .. L : data[k].type = "DATA" /\ data[k].offset = s + k - 1
  OBVIOUS
<1>6. first.type = "CHUNK_START" /\ first.index = i /\ first.hash = chunk
  OBVIOUS
<1> HIDE DEF first, data, s, e, L
<1>7. /\ Len(fs) = 1 + L /\ fs[1] = first
      /\ \A k \in 1 .. L : fs[1 + k] = data[k]
  BY <1>2, <1>3, <1>4, Joined
<1>8. \A k \in 1 .. L : fs[1 + k].type = "DATA" /\ fs[1 + k].offset = s + k - 1
  BY <1>5, <1>7
<1>9. ASSUME NEW n \in 1 .. Len(fs)
      PROVE  n = 1 \/ (n - 1 \in 1 .. L /\ n = 1 + (n - 1))
  BY <1>1, <1>7
<1>10. ASSUME NEW n \in 1 .. Len(fs), IsStart(fs[n]) PROVE n = 1
  <2>1. SUFFICES ASSUME n # 1 PROVE FALSE
    OBVIOUS
  <2>2. PICK k : k = n - 1
    OBVIOUS
  <2>3. k \in 1 .. L /\ n = 1 + k
    BY <1>9, <2>1, <2>2
  <2>4. fs[n].type = "DATA"
    BY <1>8, <2>3
  <2>5. QED
    BY <1>10, <2>4 DEF IsStart
<1>11. \A k \in 1 .. L : EndsAt(s + k - 1, size) <=> k = L
  <2>1. SUFFICES ASSUME NEW k \in 1 .. L PROVE EndsAt(s + k - 1, size) <=> k = L
    OBVIOUS
  <2>2. PICK o : o = s + k - 1
    OBVIOUS
  <2>3. o \in Nat /\ s <= o /\ o < e /\ (o + 1 = e <=> k = L)
    BY <1>1, <2>2
  <2>4. EndsAt(o, size) <=> o + 1 = e
    BY <2>3, ChunkEnds DEF s, e
  <2>5. QED
    BY <2>2, <2>3, <2>4
<1>12. Flows(fs, size)
  <2>1. SUFFICES ASSUME NEW n \in 1 .. Len(fs) - 1 PROVE Follows(fs[n], fs[n + 1], size)
    BY DEF Flows
  <2>2. CASE n = 1
    <3>1. 1 \in 1 .. L /\ n + 1 = 1 + 1 /\ s + 1 - 1 = s
      BY <1>1, <2>2
    <3>2. fs[n + 1].type = "DATA" /\ fs[n + 1].offset = s
      BY <1>8, <3>1
    <3>3. fs[n].type = "CHUNK_START" /\ fs[n].index = i
      BY <1>6, <1>7, <2>2
    <3>4. QED
      BY <3>2, <3>3 DEF Follows, s
  <2>3. CASE n # 1
    <3>1. PICK k : k = n - 1
      OBVIOUS
    <3>2. /\ k \in 1 .. L /\ k + 1 \in 1 .. L /\ k # L
          /\ n = 1 + k /\ n + 1 = 1 + (k + 1)
          /\ s + (k + 1) - 1 = (s + k - 1) + 1
      BY <1>1, <1>7, <2>3, <3>1
    <3>3. /\ fs[n].type = "DATA" /\ fs[n].offset = s + k - 1
          /\ fs[n + 1].type = "DATA" /\ fs[n + 1].offset = (s + k - 1) + 1
      BY <1>8, <3>2
    <3>4. ~ EndsAt(s + k - 1, size)
      BY <1>11, <3>2
    <3>5. QED
      BY <3>3, <3>4 DEF Follows
  <2>4. QED
    BY <2>2, <2>3
<1>13. Ends1(fs[Len(fs)], size)
  <2>1. L \in 1 .. L
    BY <1>1
  <2>2. fs[1 + L].type = "DATA" /\ fs[1 + L].offset = s + L - 1 /\ EndsAt(s + L - 1, size)
    BY <1>8, <1>11, <2>1
  <2>3. QED
    BY <1>7, <2>2 DEF Ends1
<1>14. Ascends(fs)
  <2>1. SUFFICES ASSUME NEW m \in 1 .. Len(fs), NEW n \in 1 .. Len(fs), m < n,
                        IsStart(fs[m]), IsStart(fs[n])
                 PROVE  FALSE
    BY DEF Ascends
  <2>2. m = 1 /\ n = 1
    BY <1>10, <2>1
  <2>3. QED
    BY <2>1, <2>2
<1>15. 1 \in 1 .. Len(fs) /\ fs # <<>>
  <2>1. Len(fs) # 0
    BY <1>1, <1>7
  <2>2. QED
    BY <1>1, <1>7, <2>1, EmptySeq
<1>16. IsStart(fs[1]) /\ fs[1].index = i /\ fs[1].hash = chunk
  BY <1>6, <1>7 DEF IsStart
<1>17. QED
  BY <1>2, <1>10, <1>12, <1>13, <1>14, <1>15, <1>16

LEMMA OneFlows ==
    ASSUME NEW f \in Frames03, ~ IsStart(f), NEW fs, fs = << f >>
    PROVE  /\ fs \in Seq(Frames03) /\ fs # <<>> /\ Len(fs) = 1 /\ fs[1] = f
           /\ \A n \in 1 .. Len(fs) : ~ IsStart(fs[n])
           /\ \A size : Flows(fs, size)
           /\ \A from, size, known : StartsFrom(fs, from, size, known)
           /\ Ascends(fs)
<1>1. fs # <<>> /\ Len(fs) = 1 /\ fs[1] = f
  BY One
<1>2. fs \in Seq(Frames03)
  <2> HIDE DEF Frames03
  <2>1. QED
    OBVIOUS
<1>3. \A n \in 1 .. Len(fs) : fs[n] = f
  BY ONLY <1>1
<1>4. \A n \in 1 .. Len(fs) - 1 : FALSE
  BY ONLY <1>1
<1>5. QED
  BY <1>1, <1>2, <1>3, <1>4 DEF Flows, StartsFrom, Ascends

LEMMA NoneFlows ==
    /\ \A size : Flows(<<>>, size)
    /\ \A from, size, known : StartsFrom(<<>>, from, size, known)
    /\ Ascends(<<>>)
<1>1. Len(<<>>) = 0
  BY EmptySeq
<1>2. /\ \A n \in 1 .. Len(<<>>) : FALSE
      /\ \A n \in 1 .. Len(<<>>) - 1 : FALSE
  BY ONLY <1>1
<1>3. QED
  BY <1>2 DEF Flows, StartsFrom, Ascends

-----------------------------------------------------------------------------
(* What a job does to the frames that its receiver reads. *)

LEMMA UnheardFlow ==
    ASSUME Typed, Typed', SessionInv, rcv' = rcv, Serving, Unheard, rcv.pc \in Chunking, Flow
    PROVE  Flow'
<1>1. /\ Sent \in Seq(Frames03) /\ Sent' \in Seq(Frames03) /\ LeftOf(Sent, Sent') /\ Job' = Job
  <2>1. rcv.conn \in Conns
    BY DEF Typed
  <2>2. net[rcv.conn].up \in Seq(Frames03) /\ net'[rcv.conn].up \in Seq(Frames03)
    BY <2>1 DEF Typed, AnyLink, Ends
  <2>3. QED
    BY <2>2 DEF Sent, Job, Unheard
<1>2. PICK up, b : up = Sent /\ b = Sent'
  OBVIOUS
<1>3. /\ Flows(b, rcv.size) /\ StartsFrom(b, rcv.from, rcv.size, rcv.known) /\ Ascends(b)
  <2>1. /\ Flows(up, rcv.size) /\ StartsFrom(up, rcv.from, rcv.size, rcv.known) /\ Ascends(up)
    BY <1>2 DEF Flow, Orderly
  <2>2. QED
    BY <1>1, <1>2, <2>1, FlowLeft
<1>4. (Sent # <<>> => Expects(Head(Sent)))'
  <2>1. b # <<>> => up # <<>> /\ Head(b) = Head(up)
    BY <1>1, <1>2, LeftTail
  <2>2. up # <<>> => Expects(Head(up))
    BY <1>2 DEF Flow, Orderly
  <2>3. b # <<>> => Expects(Head(b))
    BY <2>1, <2>2
  <2>4. QED
    BY <1>2, <2>3 DEF Expects, At, NextOffset
<1>5. GotInv'
  BY DEF Flow, Orderly, GotInv, At
<1>6. Orderly'
  BY <1>2, <1>3, <1>4, <1>5 DEF Orderly
<1>7. \A i : Counted(up, i)' <=> Counted(up, i)
  BY DEF Counted
<1>8. ASSUME Attached' PROVE ScanFlow(Sent, snd[Job], net[rcv.conn].cut)'
  <2>1. /\ Attached /\ snd'[Job] = snd[Job]
        /\ \/ net'[rcv.conn].cut
           \/ Sent' = Sent /\ net'[rcv.conn].cut = net[rcv.conn].cut
    BY <1>8 DEF Unheard
  <2>2. PICK r, cut : r = snd[Job] /\ cut = net[rcv.conn].cut
    OBVIOUS
  <2>3. ScanFlow(up, r, cut)
    BY <1>2, <2>1, <2>2 DEF Flow
  <2>4. PICK cut2 : cut2 = net'[rcv.conn].cut
    OBVIOUS
  <2>5. cut2 \/ (b = up /\ cut2 = cut)
    BY <1>2, <2>1, <2>2, <2>4
  <2>6. \A n \in 1 .. Len(b) : n \in 1 .. Len(up) /\ b[n] = up[n]
    BY <1>1, <1>2 DEF LeftOf
  <2>7. ScanFlow(b, r, cut2)
    BY <2>3, <2>5, <2>6 DEF ScanFlow
  <2>8. ScanFlow(b, r, cut2)'
    BY <2>7 DEF ScanFlow, Settled, Counted, At
  <2>9. snd'[Job'] = r /\ net'[rcv'.conn].cut = cut2
    BY <1>1, <2>1, <2>2, <2>4
  <2>10. QED
    BY <1>2, <2>8, <2>9 DEF ScanFlow, Settled, Counted, At
<1>9. ASSUME Announces(b) PROVE \A i \in Nat : i < ChunkCount(rcv.size) => Counted(b, i)
  <2>1. PICK read \in Content : Stream(read)
    BY DEF SessionInv, PeerInv, StreamInv
  <2>2. ComesOf(rcv.size, read, up)
    BY <1>2, <2>1 DEF Stream
  <2>3. b = up
    BY <1>1, <1>2, <1>9, <2>2, LeftComes
  <2>4. QED
    BY <1>2, <1>9, <2>3 DEF Flow
<1>10. (Announces(Sent) => \A i \in Nat : i < ChunkCount(rcv.size) => Counted(Sent, i))'
  BY <1>2, <1>9 DEF Counted, Announces
<1>11. QED
  BY <1>6, <1>8, <1>10 DEF Flow

(* More frames, behind those under way. *)
LEMMA GrowFlow ==
    ASSUME rcv' = rcv, Orderly, Sent \in Seq(Frames03), NEW fs \in Seq(Frames03), fs # <<>>,
           Sent' = Sent \o fs,
           Flows(fs, rcv.size), StartsFrom(fs, rcv.from, rcv.size, rcv.known), Ascends(fs),
           Sent # <<>> => Follows(Sent[Len(Sent)], fs[1], rcv.size),
           Sent = <<>> => Expects(fs[1]),
           \A m \in 1 .. Len(Sent), n \in 1 .. Len(fs) :
              IsStart(Sent[m]) /\ IsStart(fs[n]) => Sent[m].index < fs[n].index
    PROVE  /\ Orderly'
           /\ Sent' # <<>> /\ Sent'[Len(Sent')] = fs[Len(fs)]
           /\ \A n \in 1 .. Len(Sent') : \/ \E m \in 1 .. Len(Sent) : Sent'[n] = Sent[m]
                                         \/ \E m \in 1 .. Len(fs) : Sent'[n] = fs[m]
           /\ \A i : Counted(Sent, i) => Counted(Sent', i)
           /\ \A i : (\E m \in 1 .. Len(fs) : IsStart(fs[m]) /\ fs[m].index = i)
                        => Counted(Sent', i)
<1>1. PICK up, b : up = Sent /\ b = Sent'
  OBVIOUS
<1>2. /\ Flows(up, rcv.size) /\ StartsFrom(up, rcv.from, rcv.size, rcv.known) /\ Ascends(up)
      /\ up # <<>> => Expects(Head(up))
      /\ up \in Seq(Frames03) /\ b = up \o fs
      /\ up # <<>> => Follows(up[Len(up)], fs[1], rcv.size)
      /\ up = <<>> => Expects(fs[1])
      /\ \A m \in 1 .. Len(up), n \in 1 .. Len(fs) :
            IsStart(up[m]) /\ IsStart(fs[n]) => up[m].index < fs[n].index
  BY <1>1 DEF Orderly
<1>3. /\ Flows(b, rcv.size)
      /\ StartsFrom(b, rcv.from, rcv.size, rcv.known)
      /\ Ascends(b)
      /\ b # <<>> /\ b[Len(b)] = fs[Len(fs)]
      /\ Head(b) = IF up = <<>> THEN fs[1] ELSE Head(up)
      /\ \A n \in 1 .. Len(b) :
            \/ \E m \in 1 .. Len(up) : b[n] = up[m]
            \/ \E m \in 1 .. Len(fs) : b[n] = fs[m]
      /\ \A m \in 1 .. Len(up) : \E n \in 1 .. Len(b) : b[n] = up[m]
      /\ \A m \in 1 .. Len(fs) : \E n \in 1 .. Len(b) : b[n] = fs[m]
  <2>1. /\ Flows(up \o fs, rcv.size)
        /\ StartsFrom(up \o fs, rcv.from, rcv.size, rcv.known)
        /\ Ascends(up \o fs)
        /\ up \o fs # <<>> /\ (up \o fs)[Len(up \o fs)] = fs[Len(fs)]
        /\ Head(up \o fs) = IF up = <<>> THEN fs[1] ELSE Head(up)
        /\ \A n \in 1 .. Len(up \o fs) :
              \/ \E m \in 1 .. Len(up) : (up \o fs)[n] = up[m]
              \/ \E m \in 1 .. Len(fs) : (up \o fs)[n] = fs[m]
        /\ \A m \in 1 .. Len(up) : \E n \in 1 .. Len(up \o fs) : (up \o fs)[n] = up[m]
        /\ \A m \in 1 .. Len(fs) : \E n \in 1 .. Len(up \o fs) : (up \o fs)[n] = fs[m]
    BY <1>2, FlowJoins
  <2>2. QED
    BY ONLY <1>2, <2>1
<1>4. Expects(Head(b))
  BY <1>2, <1>3
<1>5. (Sent # <<>> => Expects(Head(Sent)))'
  BY <1>1, <1>4 DEF Expects, At, NextOffset
<1>6. GotInv'
  BY DEF Orderly, GotInv, At
<1>7. Orderly'
  BY <1>1, <1>3, <1>5, <1>6 DEF Orderly
<1>8. \A i : Counted(up, i) => Counted(b, i)
  BY <1>3 DEF Counted
<1>9. \A i : (\E m \in 1 .. Len(fs) : IsStart(fs[m]) /\ fs[m].index = i) => Counted(b, i)
  BY <1>3 DEF Counted
<1>10. QED
  BY <1>1, <1>3, <1>7, <1>8, <1>9

LEMMA StayFlow ==
    ASSUME rcv' = rcv, Orderly, Sent' = Sent
    PROVE  Orderly'
BY DEF Orderly, Expects, At, NextOffset, GotInv

(* The answer to the inventory. *)
LEMMA AcceptFlow ==
    ASSUME Inv, Inv', SessionInv, LayoutInv, DownInv, FlowInv, UNCHANGED receiverVars,
           NEW j \in Jobs, ReadResume(j) \/ ReadChunkHashes(j),
           Attached, Job = j, rcv.pc \in Chunking
    PROVE  Flow'
<1> DEFINE c == Conn(j)
<1>0. Typed /\ Typed' /\ Flow
  BY InvTypes DEF FlowInv
<1>1. Tells(j) /\ snd \in [Jobs -> JobState] /\ snd[j] \in JobState /\ Serving
  BY <1>0 DEF Tells, Typed, Attached
<1>2. /\ Live(j) /\ c \in Conns /\ Same(net, net', c)
  BY <1>0, <1>1, TellsHas
<1>3. c = rcv.conn /\ c = Conn(j)
  BY DEF Attached
<1> HIDE DEF c
<1>4. /\ PeerInv /\ Job' = j /\ rcv' = rcv
      /\ Sent = net[c].up /\ Sent' = net'[c].up
      /\ net'[rcv.conn].cut = net[c].cut /\ net[rcv.conn].cut = net[c].cut
      /\ ReceiverGone(c) <=> net[c].cut
  BY <1>0, <1>1, <1>2, <1>3, Together
<1>5. snd[j].pc \in {"offered", "inventory"}
  BY DEF ReadResume, ReadChunkHashes, Reads
<1>6. At("inventory") /\ Sent = <<>>
  BY <1>4, <1>5 DEF PeerInv, ListInv
<1>7. snd[j].next = 0
  BY <1>5 DEF SessionInv, ScanInv
<1>8. PICK count, records : Inventoried(j, count, records)
  BY DEF ReadResume, ReadChunkHashes
<1>9. net[c].down # <<>>
  BY <1>3 DEF ReadResume, ReadChunkHashes, Reads, NextDown
<1>10. /\ snd'[j].pc = IF Len(records) = count THEN "scan" ELSE "inventory"
       /\ snd'[j].next = 0
  BY <1>1, <1>7, <1>8 DEF Inventoried, JobState
<1>11. PICK f : f = Bare("ACCEPT")
  OBVIOUS
<1>12. f \in Frames03 /\ f.type = "ACCEPT"
  BY <1>11, FramesAreFrames
<1>13. PICK fs : fs = << f >>
  OBVIOUS
<1>14. /\ fs \in Seq(Frames03) /\ fs # <<>> /\ Len(fs) = 1 /\ fs[1] = f
       /\ \A n \in 1 .. Len(fs) : ~ IsStart(fs[n])
       /\ Flows(fs, rcv.size)
       /\ StartsFrom(fs, rcv.from, rcv.size, rcv.known)
       /\ Ascends(fs)
  <2>1. ~ IsStart(f)
    BY <1>12 DEF IsStart
  <2>2. QED
    BY <1>12, <1>13, <2>1, OneFlows
<1>15. \/ Sent' = <<>> /\ (net[c].cut \/ Len(records) # count)
       \/ Sent' = fs /\ Len(records) = count
  <2>1. CASE Len(records) # count
    <3>1. net' = TakeDown(net, c)
      BY <1>3, <1>8, <2>1 DEF Inventoried
    <3>2. QED
      BY <1>0, <1>2, <1>4, <1>6, <1>9, <2>1, <3>1, ReadsAndSends
  <2>2. CASE Len(records) = count
    <3>1. net' = Up(TakeDown(net, c), c, f)
      BY <1>3, <1>8, <1>11, <2>2 DEF Inventoried
    <3>2. net'[c].up = IF ReceiverGone(c) THEN net[c].up ELSE Append(net[c].up, f)
      BY <1>0, <1>2, <1>9, <3>1, ReadsAndSends
    <3>3. Append(<<>>, f) = fs
      BY <1>13, One
    <3>4. QED
      BY <1>4, <1>6, <2>2, <3>2, <3>3
  <2>3. QED
    BY <2>1, <2>2
<1>16. Sent' = <<>> => Orderly'
  BY <1>0, <1>4, <1>6, StayFlow DEF Flow
<1>17. Sent' = fs => Orderly'
  <2>1. SUFFICES ASSUME Sent' = fs PROVE Orderly'
    OBVIOUS
  <2>2. Sent \in Seq(Frames03) /\ Sent' = Sent \o fs
    <3> HIDE DEF Frames03
    <3>1. <<>> \o fs = fs /\ <<>> \in Seq(Frames03)
      BY <1>14, ConcatEmptySeq
    <3>2. QED
      BY <1>6, <2>1, <3>1
  <2>3. Expects(fs[1])
    BY <1>6, <1>12, <1>14 DEF Expects, At, Chunking
  <2>4. QED
    BY <1>0, <1>4, <1>6, <1>14, <2>2, <2>3, GrowFlow DEF Flow
<1>18. ~ Announces(Sent')
  <2>1. ~ Announces(fs)
    BY <1>12, <1>13, OneComes
  <2>2. ~ Announces(<<>>)
    BY NoneComes
  <2>3. QED
    BY <1>15, <2>1, <2>2
<1>19. (Attached => ScanFlow(Sent, snd[Job], net[rcv.conn].cut))'
  <2>1. CASE Len(records) # count
    BY <1>4, <1>10, <2>1 DEF ScanFlow
  <2>2. CASE Len(records) = count
    <3>1. \A n \in 1 .. Len(Sent') : ~ IsStart(Sent'[n])
      <4>1. Len(<<>>) = 0
        BY EmptySeq
      <4>2. \A n \in 1 .. Len(<<>>) : FALSE
        BY ONLY <4>1
      <4>3. QED
        BY <1>14, <1>15, <4>2
    <3>2. rcv.from = 0
      BY <1>6 DEF LayoutInv, Opening, At
    <3>3. Listed(snd'[j].records, rcv.known)
      BY <1>6, <1>10, <2>2, ResumeDown
    <3>4. ~ net[c].cut => Settled(Sent', rcv.size)
      <4>1. Ends1(f, rcv.size)
        BY <1>12 DEF Ends1
      <4>2. ~ net[c].cut => Sent' # <<>> /\ Sent'[Len(Sent')] = f
        BY <1>14, <1>15, <2>2
      <4>3. QED
        BY <4>1, <4>2 DEF Settled
    <3>5. PICK r, cut, b : r = snd'[j] /\ cut = net[c].cut /\ b = Sent'
      OBVIOUS
    <3>6. ScanFlow(b, r, cut)
      <4>1. r.next = 0 /\ \A i \in Nat : ~ (i < r.next)
        BY <1>10, <3>5
      <4>2. QED
        BY <3>1, <3>2, <3>3, <3>4, <3>5, <4>1 DEF ScanFlow, Listed
    <3>7. QED
      BY <1>4, <3>5, <3>6 DEF ScanFlow, Settled, Counted, At
  <2>3. QED
    BY <2>1, <2>2
<1>20. QED
  BY <1>15, <1>16, <1>17, <1>18, <1>19 DEF Flow, Announces

(* The next chunk of the scanner, and the record of it. *)
LEMMA NextRecord ==
    ASSUME Typed, CursorInv, DownInv, NEW j \in Jobs, snd[j].pc = "scan", NEW chunk
    PROVE  /\ \A n \in 1 .. Len(snd[j].records) :
                 snd[j].records[n].index = snd[j].next /\ snd[j].records[n].hash = chunk
                    => Reuses(j, chunk)
           /\ Reuses(j, chunk) =>
                 \E n \in 1 .. Len(snd[j].records) : snd[j].records[n].index = snd[j].next
<1> DEFINE rs == snd[j].records
           c == snd[j].cursor
           i == snd[j].next
<1>1. /\ rs \in Seq(Record) /\ c \in Nat /\ i \in Nat
  BY DEF Typed, JobState
<1>2. Len(rs) \in Nat /\ \A n \in 1 .. Len(rs) : rs[n].index \in Nat
  BY <1>1, RecordIndexes
<1>3. /\ c <= Len(rs)
      /\ \A n \in 1 .. Len(rs) : n <= c <=> rs[n].index < i
  BY DEF CursorInv, CursorOf
<1>4. \A m, n \in 1 .. Len(rs) : m < n => rs[m].index < rs[n].index
  BY DEF DownInv, Ordered
<1>5. Reuses(j, chunk) <=> c < Len(rs) /\ rs[c + 1].index = i /\ rs[c + 1].hash = chunk
  BY DEF Reuses, AtRecord
<1> HIDE DEF rs, c, i
<1>6. ASSUME NEW n \in 1 .. Len(rs), rs[n].index = i, rs[n].hash = chunk PROVE Reuses(j, chunk)
  <2>1. n > c
    BY <1>1, <1>2, <1>3, <1>6
  <2>2. c + 1 \in 1 .. Len(rs)
    BY <1>1, <1>2, <2>1
  <2>3. ~ (c + 1 < n)
    <3>1. SUFFICES ASSUME c + 1 < n PROVE FALSE
      OBVIOUS
    <3>2. rs[c + 1].index < i
      BY <1>4, <1>6, <2>2, <3>1
    <3>3. c + 1 <= c
      BY <1>3, <2>2, <3>2
    <3>4. QED
      BY <1>1, <3>3
  <2>4. n = c + 1 /\ c < Len(rs)
    BY <1>1, <1>2, <2>1, <2>3
  <2>5. QED
    BY <1>5, <1>6, <2>4
<1>7. Reuses(j, chunk) => \E n \in 1 .. Len(rs) : rs[n].index = i
  <2>1. c < Len(rs) => c + 1 \in 1 .. Len(rs)
    BY <1>1, <1>2
  <2>2. QED
    BY <1>5, <2>1
<1>8. QED
  BY <1>6, <1>7 DEF rs, i

LEMMA ChunkFlows ==
    ASSUME Inv, Inv', SessionInv, SessionInv', LayoutInv, CursorInv, DownInv, FlowInv,
           UNCHANGED receiverVars,
           NEW j \in Jobs, ScanChunk(j), Attached, Job = j, rcv.pc \in Chunking
    PROVE  Flow'
<1> DEFINE c == Conn(j)
           i == snd[j].next
           size == rcv.size
           chunk == ChunkOf(src[j], i, size)
           fs == ChunkFrames(i, chunk)
<1>0. Typed /\ Typed' /\ Flow
  BY InvTypes DEF FlowInv
<1>1. /\ Tells(j) /\ snd \in [Jobs -> JobState] /\ snd[j] \in JobState /\ Serving
      /\ snd[j].pc = "scan" /\ src[j] \in Content
  BY <1>0 DEF Tells, Typed, Attached, ScanChunk, Scanning
<1>2. /\ Live(j) /\ c \in Conns /\ Same(net, net', c) /\ Conn(j)' = Conn(j)
  BY <1>0, <1>1, TellsHas
<1>3. c = rcv.conn /\ c = Conn(j)
  BY DEF Attached
<1> HIDE DEF c
<1>4. /\ PeerInv /\ Job' = j /\ rcv' = rcv /\ Serving'
      /\ Sent = net[c].up /\ Sent' = net'[c].up
      /\ net'[rcv.conn].cut = net[c].cut /\ net[rcv.conn].cut = net[c].cut
      /\ ReceiverGone(c) <=> net[c].cut
  BY <1>0, <1>1, <1>2, <1>3, Together
<1>5. snd[j].size = size /\ size \in Nat /\ ListInv /\ StreamInv
  BY <1>0, <1>4 DEF PeerInv, ListInv, Typed, ReceiverTypeOK
<1>6. i \in Nat /\ i < ChunkCount(size) /\ Covers(src[j], i, size)
  BY <1>1, <1>5 DEF ScanChunk, MoreChunks, JobState
<1>7. Ahead(snd[j].records, i, rcv.known)
  BY <1>1, <1>5, <1>6 DEF ListInv
<1>8. chunk \in Content /\ Len(chunk) = ChunkEnd(i, size) - ChunkStart(i)
  <2>1. ChunkStart(i) < ChunkEnd(i, size) /\ ChunkStart(i) \in Nat /\ ChunkEnd(i, size) \in Nat
    BY <1>5, <1>6, NextEnds, ChunkBounds
  <2>2. ChunkStart(i) <= ChunkEnd(i, size)
    BY ONLY <2>1
  <2>3. QED
    BY <1>1, <1>5, <1>6, <2>2, ChunkTypes, BytesOf
<1>9. /\ net' = IF Reuses(j, chunk) THEN net ELSE UpAll(net, c, fs)
      /\ snd'[j].next = i + 1 /\ snd'[j].records = snd[j].records /\ snd'[j].pc = "scan"
  BY <1>1, <1>3, <1>5 DEF ScanChunk, JobState
<1> HIDE DEF i, size, chunk, fs
<1>10. /\ \A n \in 1 .. Len(snd[j].records) :
             snd[j].records[n].index = i /\ snd[j].records[n].hash = chunk => Reuses(j, chunk)
       /\ Reuses(j, chunk) =>
             \E n \in 1 .. Len(snd[j].records) : snd[j].records[n].index = i
  BY <1>0, <1>1, NextRecord DEF i
<1>11. /\ fs \in Seq(Frames03) /\ fs # <<>>
       /\ 1 \in 1 .. Len(fs) /\ IsStart(fs[1]) /\ fs[1].index = i
       /\ \A n \in 1 .. Len(fs) : IsStart(fs[n]) => fs[n].index = i /\ fs[n].hash = chunk
       /\ Flows(fs, size) /\ Ascends(fs) /\ Ends1(fs[Len(fs)], size)
  BY <1>5, <1>6, <1>8, ChunkFlow DEF fs
<1>12. \/ Reuses(j, chunk) /\ Sent' = Sent
       \/ ~ Reuses(j, chunk) /\ net[c].cut /\ Sent' = Sent
       \/ ~ Reuses(j, chunk) /\ ~ net[c].cut /\ Sent' = Sent \o fs
  <2>1. CASE Reuses(j, chunk)
    BY <1>4, <1>9, <2>1
  <2>2. CASE ~ Reuses(j, chunk)
    <3>1. net \in [Conns -> AnyLink]
      BY <1>0 DEF Typed
    <3>2. net'[c].up = IF ReceiverGone(c) THEN net[c].up ELSE net[c].up \o fs
      BY <1>2, <1>9, <2>2, <3>1, WriteFields
    <3>3. QED
      BY <1>4, <2>2, <3>2
  <2>3. QED
    BY <2>1, <2>2
(* What the scanner knows before it. *)
<1>13. PICK up, r, cut : up = Sent /\ r = snd[j] /\ cut = net[c].cut
  OBVIOUS
<1>14. /\ up \in Seq(Frames03)
       /\ \A n \in 1 .. Len(up) : IsStart(up[n]) => up[n].index < i
       /\ rcv.from <= i /\ rcv.from \in Nat
       /\ \A k \in rcv.known :
             k.index >= i => \E n \in 1 .. Len(r.records) : r.records[n] = k
       /\ ~ cut => /\ Settled(up, size)
                   /\ \A m \in Nat : m < i /\ m < ChunkCount(size) => Counted(up, m)
  <2>1. ScanFlow(up, r, cut)
    BY <1>0, <1>4, <1>13 DEF Flow
  <2>2. up \in Seq(Frames03)
    BY <1>0, <1>2, <1>4, <1>13, Names
  <2>3. rcv.from \in Nat
    BY <1>0 DEF Typed, ReceiverTypeOK
  <2>4. QED
    BY <1>1, <1>13, <2>1, <2>2, <2>3 DEF ScanFlow, i, size
<1>15. ~ Reuses(j, chunk) => StartsFrom(fs, rcv.from, size, rcv.known)
  <2>1. SUFFICES ASSUME ~ Reuses(j, chunk), NEW n \in 1 .. Len(fs), IsStart(fs[n]),
                        [index |-> i, hash |-> chunk] \in rcv.known
                 PROVE  FALSE
    BY <1>6, <1>11, <1>14 DEF StartsFrom
  <2>2. PICK k : k = [index |-> i, hash |-> chunk]
    OBVIOUS
  <2>3. k \in rcv.known /\ k.index = i /\ k.hash = chunk /\ i >= i
    BY <1>6, <2>1, <2>2
  <2>4. PICK n2 \in 1 .. Len(r.records) : r.records[n2] = k
    BY <1>14, <2>3
  <2>5. QED
    BY <1>10, <1>13, <2>1, <2>3, <2>4
<1>16. CASE Sent' = Sent
  <2>1. Orderly'
    BY <1>0, <1>4, <1>16, StayFlow DEF Flow
  <2>2. ~ Announces(Sent')
    <3>1. PICK read \in Content : Stream(read)
      BY <1>5 DEF StreamInv
    <3>2. QED
      BY <1>1, <1>16, <3>1 DEF Stream
  <2>3. ~ cut => Reuses(j, chunk)
    <3>1. CASE ~ Reuses(j, chunk) /\ ~ net[c].cut /\ Sent' = Sent \o fs
      <4>1. PICK l : l = Len(up)
        OBVIOUS
      <4>2. Len(up \o fs) = Len(up) + Len(fs) /\ Len(up) \in Nat /\ Len(fs) \in Nat
        BY ONLY <1>11, <1>14, Joined
      <4>3. Len(fs) # 0
        BY <1>11
      <4>4. up \o fs = up
        BY <1>13, <1>16, <3>1
      <4>5. QED
        BY <4>2, <4>3, <4>4
    <3>2. QED
      BY <1>12, <1>13, <3>1
  <2>4. ~ cut => \A m \in Nat : m < i + 1 /\ m < ChunkCount(size) => Counted(up, m)
    <3>1. SUFFICES ASSUME ~ cut, NEW m \in Nat, m < i + 1, m < ChunkCount(size) PROVE Counted(up, m)
      OBVIOUS
    <3>2. m < i \/ m = i
      BY <1>6, <3>1
    <3>3. CASE m < i
      BY <1>14, <3>1, <3>3
    <3>4. CASE m = i
      <4>1. PICK n \in 1 .. Len(snd[j].records) : snd[j].records[n].index = i
        BY <1>10, <2>3, <3>1
      <4>2. snd[j].records[n] \in rcv.known
        BY <1>6, <1>7, <4>1 DEF Ahead
      <4>3. QED
        BY <3>4, <4>1, <4>2 DEF Counted
    <3>5. QED
      BY <3>2, <3>3, <3>4
  <2>5. PICK r2 : r2 = snd'[j]
    OBVIOUS
  <2>6. ScanFlow(up, r2, cut)
    <3>1. r2.next = i + 1 /\ r2.records = r.records
      BY <1>9, <1>13, <2>5
    <3>2. \A n \in 1 .. Len(up) : IsStart(up[n]) => up[n].index < i + 1
      <4>1. \A n \in 1 .. Len(up) : IsStart(up[n]) => up[n].index \in Nat
        <5>1. \A n \in 1 .. Len(up) : up[n] \in Frames03
          BY <1>14, ElementOfSeq
        <5>2. QED
          BY <5>1, FrameFields DEF IsStart
      <4>2. QED
        BY <1>6, <1>14, <4>1
    <3>3. rcv.from <= i + 1
      BY <1>6, <1>14
    <3>4. \A k \in rcv.known : k.index >= i + 1 => k.index >= i
      <4>1. \A k \in rcv.known : k.index \in Nat
        BY <1>0 DEF Typed, ReceiverTypeOK, Record
      <4>2. QED
        BY <1>6, <4>1
    <3>5. QED
      BY <1>14, <2>4, <3>1, <3>2, <3>3, <3>4 DEF ScanFlow, size
  <2>7. (Attached => ScanFlow(Sent, snd[Job], net[rcv.conn].cut))'
    BY <1>4, <1>13, <1>16, <2>5, <2>6 DEF ScanFlow, Settled, Counted, At
  <2>8. QED
    BY <2>1, <2>2, <2>7 DEF Flow, Announces
<1>17. CASE ~ Reuses(j, chunk) /\ ~ net[c].cut /\ Sent' = Sent \o fs
  <2>1. Settled(up, size) /\ Between(fs[1])
    BY <1>11, <1>13, <1>14, <1>17 DEF Between, IsStart
  <2>2. Sent # <<>> => Follows(Sent[Len(Sent)], fs[1], rcv.size)
    BY <1>13, <2>1 DEF Settled, Follows, size
  <2>3. Sent = <<>> => Expects(fs[1])
    BY <1>13, <2>1 DEF Settled, Expects
  <2>4. \A m \in 1 .. Len(Sent), n \in 1 .. Len(fs) :
           IsStart(Sent[m]) /\ IsStart(fs[n]) => Sent[m].index < fs[n].index
    BY <1>11, <1>13, <1>14
  <2>5. /\ Orderly'
        /\ Sent' # <<>> /\ Sent'[Len(Sent')] = fs[Len(fs)]
        /\ \A n \in 1 .. Len(Sent') : \/ \E m \in 1 .. Len(Sent) : Sent'[n] = Sent[m]
                                      \/ \E m \in 1 .. Len(fs) : Sent'[n] = fs[m]
        /\ \A m : Counted(Sent, m) => Counted(Sent', m)
        /\ \A m : (\E n \in 1 .. Len(fs) : IsStart(fs[n]) /\ fs[n].index = m)
                     => Counted(Sent', m)
    BY <1>0, <1>4, <1>11, <1>13, <1>14, <1>15, <1>17, <2>2, <2>3, <2>4, GrowFlow DEF Flow, size
  <2>6. PICK b, r2 : b = Sent' /\ r2 = snd'[j]
    OBVIOUS
  <2>7. \A m \in Nat : m < i + 1 /\ m < ChunkCount(size) => Counted(b, m)
    <3>1. SUFFICES ASSUME NEW m \in Nat, m < i + 1, m < ChunkCount(size) PROVE Counted(b, m)
      OBVIOUS
    <3>2. m < i \/ m = i
      BY <1>6, <3>1
    <3>3. CASE m < i
      BY <1>13, <1>14, <1>17, <2>5, <2>6, <3>1, <3>3
    <3>4. CASE m = i
      BY <1>11, <2>5, <2>6, <3>4
    <3>5. QED
      BY <3>2, <3>3, <3>4
  <2>8. Settled(b, size)
    BY <1>11, <2>5, <2>6 DEF Settled
  <2>9. ScanFlow(b, r2, cut)
    <3>1. r2.next = i + 1 /\ r2.records = r.records
      BY <1>9, <1>13, <2>6
    <3>2. \A n \in 1 .. Len(b) : IsStart(b[n]) => b[n].index < i + 1
      <4>1. \A n \in 1 .. Len(up) : IsStart(up[n]) => up[n].index \in Nat
        <5>1. \A n \in 1 .. Len(up) : up[n] \in Frames03
          BY <1>14, ElementOfSeq
        <5>2. QED
          BY <5>1, FrameFields DEF IsStart
      <4>2. \A n \in 1 .. Len(up) : IsStart(up[n]) => up[n].index < i + 1
        BY <1>6, <1>14, <4>1
      <4>3. \A n \in 1 .. Len(fs) : IsStart(fs[n]) => fs[n].index < i + 1
        BY <1>6, <1>11
      <4>4. QED
        BY <1>13, <2>5, <2>6, <4>2, <4>3
    <3>3. rcv.from <= i + 1
      BY <1>6, <1>14
    <3>4. \A k \in rcv.known : k.index >= i + 1 => k.index >= i
      <4>1. \A k \in rcv.known : k.index \in Nat
        BY <1>0 DEF Typed, ReceiverTypeOK, Record
      <4>2. QED
        BY <1>6, <4>1
    <3>5. QED
      BY <1>14, <2>7, <2>8, <3>1, <3>2, <3>3, <3>4 DEF ScanFlow, size
  <2>10. (Attached => ScanFlow(Sent, snd[Job], net[rcv.conn].cut))'
    BY <1>4, <1>13, <2>6, <2>9 DEF ScanFlow, Settled, Counted, At
  <2>11. ~ Announces(Sent')
    <3>1. Attached' /\ snd'[Job'].pc = "scan"
      <4>1. Live(j)'
        BY <1>9 DEF Live
      <4>2. Conn(Job)' = Conn(j)'
        BY <1>4 DEF Conn
      <4>3. QED
        BY <1>2, <1>3, <1>4, <1>9, <4>1, <4>2 DEF Attached, Live
    <3>2. StreamInv'
      BY <1>4 DEF SessionInv, PeerInv
    <3>3. PICK read : Stream(read)'
      BY <3>2 DEF StreamInv
    <3>4. QED
      BY <3>1, <3>3 DEF Stream
  <2>12. QED
    BY <2>5, <2>10, <2>11 DEF Flow, Announces
<1>18. QED
  BY <1>12, <1>16, <1>17

LEMMA CompleteFlows ==
    ASSUME Inv, Inv', SessionInv, FlowInv, UNCHANGED receiverVars,
           NEW j \in Jobs, SendComplete(j), Attached, Job = j, rcv.pc \in Chunking
    PROVE  Flow'
<1> DEFINE c == Conn(j)
<1>0. Typed /\ Typed' /\ Flow
  BY InvTypes DEF FlowInv
<1>1. /\ Tells(j) /\ snd \in [Jobs -> JobState] /\ snd[j] \in JobState /\ Serving
      /\ snd[j].pc = "scan" /\ snd[j].next \in Nat /\ snd[j].read \in Content
  BY <1>0 DEF Tells, Typed, Attached, SendComplete, Scanning, JobState
<1>2. /\ Live(j) /\ c \in Conns /\ Same(net, net', c)
  BY <1>0, <1>1, TellsHas
<1>3. c = rcv.conn /\ c = Conn(j)
  BY DEF Attached
<1> HIDE DEF c
<1>4. /\ PeerInv /\ Job' = j /\ rcv' = rcv
      /\ Sent = net[c].up /\ Sent' = net'[c].up
      /\ net'[rcv.conn].cut = net[c].cut /\ net[rcv.conn].cut = net[c].cut
      /\ ReceiverGone(c) <=> net[c].cut
      /\ rcv.size \in Nat
  BY <1>0, <1>1, <1>2, <1>3, Together
<1>5. snd[j].size = rcv.size /\ ListInv /\ StreamInv
  BY <1>4 DEF PeerInv, ListInv
<1>6. \A i \in Nat : i < ChunkCount(rcv.size) => i < snd[j].next
  <2>1. ~ (snd[j].next < ChunkCount(rcv.size))
    BY <1>5 DEF SendComplete, MoreChunks
  <2>2. ChunkCount(rcv.size) \in Int
    BY <1>4, ChunksAssumption DEF ChunkCount
  <2>3. QED
    BY <1>1, <2>1, <2>2
<1>7. PICK f, fs : f = Carrying("COMPLETE", snd[j].read) /\ fs = << f >>
  OBVIOUS
<1>8. f \in Frames03 /\ f.type = "COMPLETE"
  BY <1>1, <1>7, FramesAreFrames
<1>9. /\ fs \in Seq(Frames03) /\ fs # <<>> /\ Len(fs) = 1 /\ fs[1] = f
      /\ \A n \in 1 .. Len(fs) : ~ IsStart(fs[n])
      /\ Flows(fs, rcv.size)
      /\ StartsFrom(fs, rcv.from, rcv.size, rcv.known)
      /\ Ascends(fs)
  <2>1. ~ IsStart(f)
    BY <1>8 DEF IsStart
  <2>2. QED
    BY <1>7, <1>8, <2>1, OneFlows
<1>10. snd'[j].pc = "complete"
  BY <1>1 DEF SendComplete, Goto, JobState
<1>11. Sent \in Seq(Frames03)
  BY <1>0, <1>2, <1>4, Names
<1>12. \/ net[c].cut /\ Sent' = Sent
       \/ ~ net[c].cut /\ Sent' = Sent \o fs
  <2>1. net' = Up(net, c, f) /\ net \in [Conns -> AnyLink]
    BY <1>0, <1>3, <1>7 DEF SendComplete, Typed
  <2>2. net'[c].up = IF ReceiverGone(c) THEN net[c].up ELSE Append(net[c].up, f)
    BY <1>2, <2>1, WriteFields
  <2>3. Append(Sent, f) = Sent \o fs
    BY <1>7, <1>8, <1>11, AppendJoins
  <2>4. QED
    BY <1>4, <2>2, <2>3
<1>13. (Attached => ScanFlow(Sent, snd[Job], net[rcv.conn].cut))'
  BY <1>4, <1>10 DEF ScanFlow
<1>14. CASE net[c].cut /\ Sent' = Sent
  <2>1. Orderly'
    BY <1>0, <1>4, <1>14, StayFlow DEF Flow
  <2>2. ~ Announces(Sent')
    <3>1. PICK read \in Content : Stream(read)
      BY <1>5 DEF StreamInv
    <3>2. QED
      BY <1>1, <1>14, <3>1 DEF Stream
  <2>3. QED
    BY <1>13, <2>1, <2>2 DEF Flow, Announces
<1>15. CASE ~ net[c].cut /\ Sent' = Sent \o fs
  <2>1. /\ Settled(Sent, rcv.size)
        /\ \A i \in Nat : i < snd[j].next /\ i < ChunkCount(rcv.size) => Counted(Sent, i)
    BY <1>0, <1>1, <1>4, <1>15 DEF Flow, ScanFlow
  <2>2. Between(f)
    BY <1>8 DEF Between
  <2>3. Sent # <<>> => Follows(Sent[Len(Sent)], fs[1], rcv.size)
    BY <1>9, <2>1, <2>2 DEF Settled, Follows
  <2>4. Sent = <<>> => Expects(fs[1])
    BY <1>9, <2>1, <2>2 DEF Settled, Expects
  <2>5. /\ Orderly'
        /\ \A i : Counted(Sent, i) => Counted(Sent', i)
    BY <1>0, <1>4, <1>9, <1>11, <1>15, <2>3, <2>4, GrowFlow DEF Flow
  <2>6. PICK b : b = Sent'
    OBVIOUS
  <2>7. \A i \in Nat : i < ChunkCount(rcv.size) => Counted(b, i)
    BY <1>6, <2>1, <2>5, <2>6
  <2>8. (\A i \in Nat : i < ChunkCount(rcv.size) => Counted(Sent, i))'
    BY <1>4, <2>6, <2>7 DEF Counted
  <2>9. QED
    BY <1>13, <2>5, <2>8 DEF Flow
<1>16. QED
  BY <1>12, <1>14, <1>15

LEMMA SenderFlows ==
    ASSUME Inv, Inv', SessionInv, SessionInv', LayoutInv, CursorInv, DownInv, FlowInv,
           UNCHANGED receiverVars,
           NEW j \in Jobs, SenderRuns(j) \/ SenderDisturbed(j)
    PROVE  FlowInv'
<1>0. Typed /\ Typed'
  BY InvTypes
<1>1. rcv' = rcv
  BY DEF receiverVars
<1>2. SUFFICES ASSUME rcv.pc \in Chunking PROVE Flow'
  BY <1>1 DEF FlowInv
<1>3. Serving /\ Flow
  BY <1>2 DEF Serving, Chunking, FlowInv
<1>4. CASE Unheard
  BY <1>0, <1>1, <1>2, <1>3, <1>4, UnheardFlow
<1>5. CASE Attached /\ Job = j /\ Tells(j)
  <2>1. ~ SendOffer(j)
    <3>1. snd[j].pc # "hello"
      BY <1>2, <1>5 DEF SessionInv, PeerInv, ListInv
    <3>2. QED
      BY <3>1 DEF SendOffer, Reads
  <2>2. CASE ReadResume(j) \/ ReadChunkHashes(j)
    BY <1>2, <1>5, <2>2, AcceptFlow
  <2>3. CASE ScanChunk(j)
    BY <1>2, <1>5, <2>3, ChunkFlows
  <2>4. CASE SendComplete(j)
    BY <1>2, <1>5, <2>4, CompleteFlows
  <2>5. QED
    BY <1>5, <2>1, <2>2, <2>3, <2>4 DEF Tells
<1>6. QED
  BY <1>0, <1>3, <1>4, <1>5, SenderView

LEMMA CutFlows ==
    ASSUME Typed, Typed', SessionInv, FlowInv, UNCHANGED senderVars, UNCHANGED receiverVars,
           NEW c \in Conns, Cut(c)
    PROVE  FlowInv'
<1>1. rcv' = rcv /\ snd' = snd
  BY DEF receiverVars, senderVars
<1>2. SUFFICES ASSUME rcv.pc \in Chunking PROVE Flow'
  BY <1>1 DEF FlowInv
<1>3. Serving /\ Flow /\ rcv.conn \in Conns
  BY <1>2 DEF Serving, Chunking, FlowInv, Typed
<1>4. /\ \A d \in Conns \ {c} : net'[d] = net[d]
      /\ net'[c].cut
      /\ LeftOf(net[c].up, net'[c].up) /\ LeftOf(net[c].down, net'[c].down)
  BY CutHas
<1>5. Attached' => Attached
  BY <1>1 DEF Attached, Serving, Live, Job, Conn
<1>6. CASE rcv.conn = c
  <2>1. /\ LeftOf(net[rcv.conn].up, net'[rcv'.conn].up)
        /\ LeftOf(net[rcv.conn].down, net'[rcv'.conn].down) /\ net'[rcv.conn].cut
    BY <1>1, <1>4, <1>6
  <2>2. Unheard
    BY <1>1, <1>5, <2>1 DEF Unheard, Sent, Answered
  <2>3. QED
    BY <1>1, <1>2, <1>3, <2>2, UnheardFlow
<1>7. CASE rcv.conn # c
  <2>1. net'[rcv.conn] = net[rcv.conn]
    BY <1>3, <1>4, <1>7
  <2>2. Unheard
    BY <1>1, <1>3, <1>5, <2>1, Aside
  <2>3. QED
    BY <1>1, <1>2, <1>3, <2>2, UnheardFlow
<1>8. QED
  BY <1>6, <1>7

-----------------------------------------------------------------------------
(* What the receiver does to the frames that it reads. *)

LEMMA FlowTaken ==
    ASSUME Typed, SessionInv, FlowInv, UNCHANGED senderVars, rcv.pc \in Chunking,
           rcv'.pc \in Chunking, rcv'.conn = rcv.conn, rcv'.size = rcv.size,
           rcv'.known = rcv.known, net[rcv.conn].up # <<>>, net' = TakeUp(net, rcv.conn),
           \/ ~ IsStart(Frame) /\ rcv'.from = rcv.from /\ rcv'.active = rcv.active
           \/ /\ IsStart(Frame) /\ rcv'.from = Frame.index + 1
              /\ rcv.active = None /\ rcv'.active # None
              /\ rcv'.active.index = Frame.index,
           \A g : Follows(Frame, g, rcv.size) => Expects(g)',
           Ends1(Frame, rcv.size) => /\ rcv'.pc # "inventory"
                                     /\ rcv'.pc = "data" => rcv'.active = None,
           GotInv'
    PROVE  Flow'
<1>1. rcv'.pc \notin {"down", "accept"}
  BY DEF Chunking
<1>2. /\ Serving /\ snd' = snd /\ Job' = Job /\ (Attached' <=> Attached)
      /\ Sent \in Seq(Frames03) /\ Sent # <<>> /\ Sent' = Tail(Sent)
      /\ Frame = Head(Sent) /\ Frame \in Frames03
  BY <1>1, Takes
<1>3. net'[rcv.conn].cut = net[rcv.conn].cut
  <2>1. rcv.conn \in Conns
    BY <1>2 DEF Typed
  <2>2. Same(net, net', rcv.conn)
    BY <2>1, Answers
  <2>3. QED
    BY <1>1, <1>2, <2>2, Remains
<1>4. Flow
  BY DEF FlowInv
<1>5. PICK up, b, h : up = Sent /\ b = Sent' /\ h = Frame
  OBVIOUS
<1>6. /\ up \in Seq(Frames03) /\ up # <<>> /\ b = Tail(up) /\ h = Head(up)
      /\ Flows(up, rcv.size) /\ StartsFrom(up, rcv.from, rcv.size, rcv.known) /\ Ascends(up)
  BY <1>2, <1>4, <1>5 DEF Flow, Orderly
<1>7. /\ Flows(b, rcv.size)
      /\ StartsFrom(b, rcv.from, rcv.size, rcv.known)
      /\ Ascends(b)
      /\ IsStart(h) => StartsFrom(b, h.index + 1, rcv.size, rcv.known)
      /\ IsStart(h) => h.index \in Nat
      /\ b # <<>> => Follows(h, Head(b), rcv.size) /\ b[Len(b)] = up[Len(up)]
      /\ b = <<>> => up[Len(up)] = h
  <2>1. /\ Flows(Tail(up), rcv.size)
        /\ StartsFrom(Tail(up), rcv.from, rcv.size, rcv.known)
        /\ Ascends(Tail(up))
        /\ IsStart(Head(up)) => StartsFrom(Tail(up), Head(up).index + 1, rcv.size, rcv.known)
        /\ IsStart(Head(up)) => Head(up).index \in Nat
        /\ Tail(up) # <<>> => /\ Follows(Head(up), Head(Tail(up)), rcv.size)
                              /\ Tail(up)[Len(Tail(up))] = up[Len(up)]
        /\ Tail(up) = <<>> => up[Len(up)] = Head(up)
    BY <1>6, FlowRest
  <2>2. QED
    BY ONLY <1>6, <2>1
<1>8. Orderly'
  <2>1. StartsFrom(b, rcv'.from, rcv.size, rcv.known)
    BY <1>5, <1>7
  <2>2. b # <<>> => Expects(Head(b))'
    BY <1>5, <1>7
  <2>3. (Sent # <<>> => Expects(Head(Sent)))'
    BY <1>5, <2>2 DEF Expects, At, NextOffset
  <2>4. QED
    BY <1>5, <1>7, <2>1, <2>3 DEF Orderly
<1>9. /\ \A n \in 1 .. Len(b) : n + 1 \in 1 .. Len(up) /\ b[n] = up[n + 1]
      /\ \A n \in 1 .. Len(up) : \/ n = 1 /\ up[n] = h
                                 \/ n - 1 \in 1 .. Len(b) /\ up[n] = b[n - 1]
      /\ 1 \in 1 .. Len(up) /\ up[1] = h
  <2>1. /\ Len(up) \in Nat /\ 1 \in 1 .. Len(up) /\ Head(up) = up[1]
        /\ Len(Tail(up)) = Len(up) - 1
        /\ \A n \in 1 .. Len(Tail(up)) : n + 1 \in 1 .. Len(up) /\ Tail(up)[n] = up[n + 1]
    BY <1>6, Rest, LenProperties
  <2>2. /\ Len(b) = Len(up) - 1 /\ h = up[1]
        /\ \A n \in 1 .. Len(b) : n + 1 \in 1 .. Len(up) /\ b[n] = up[n + 1]
    BY ONLY <1>6, <2>1
  <2>3. \A n \in 1 .. Len(up) : n = 1 \/ (n - 1 \in 1 .. Len(b) /\ (n - 1) + 1 = n)
    BY <2>1, <2>2
  <2>4. QED
    BY <2>1, <2>2, <2>3
<1>10. ASSUME NEW i, Counted(up, i) PROVE Counted(b, i)'
  <2>1. CASE \E r \in rcv.known : r.index = i
    BY <2>1 DEF Counted
  <2>2. CASE rcv.active # None /\ rcv.active.index = i
    BY <2>2 DEF Counted
  <2>3. CASE \E n \in 1 .. Len(up) : IsStart(up[n]) /\ up[n].index = i
    <3>1. PICK n \in 1 .. Len(up) : IsStart(up[n]) /\ up[n].index = i
      BY <2>3
    <3>2. CASE up[n] = h
      BY <1>5, <3>1, <3>2 DEF Counted
    <3>3. CASE n - 1 \in 1 .. Len(b) /\ up[n] = b[n - 1]
      BY <3>1, <3>3 DEF Counted
    <3>4. QED
      BY <1>9, <3>2, <3>3
  <2>4. QED
    BY <1>10, <2>1, <2>2, <2>3 DEF Counted
<1>11. ASSUME Attached' PROVE ScanFlow(Sent, snd[Job], net[rcv.conn].cut)'
  <2>1. PICK r, cut : r = snd[Job] /\ cut = net[rcv.conn].cut
    OBVIOUS
  <2>2. ScanFlow(up, r, cut)
    BY <1>2, <1>4, <1>5, <1>11, <2>1 DEF Flow
  <2>3. ASSUME r.pc = "scan"
        PROVE  /\ \A n \in 1 .. Len(b) : IsStart(b[n]) => b[n].index < r.next
               /\ rcv'.from <= r.next
    <3>1. r.next \in Nat
      <4>1. Job \in Jobs
        BY <1>2, Names
      <4>2. QED
        BY <2>1, <4>1 DEF Typed, JobState
    <3>2. \A n \in 1 .. Len(up) : IsStart(up[n]) => up[n].index < r.next
      BY <2>2, <2>3 DEF ScanFlow
    <3>3. IsStart(h) => h.index < r.next
      BY <1>9, <3>2
    <3>4. rcv.from <= r.next
      BY <2>2, <2>3 DEF ScanFlow
    <3>5. rcv'.from <= r.next
      BY <1>5, <1>7, <3>1, <3>3, <3>4
    <3>6. QED
      BY <1>9, <3>2, <3>5
  <2>4. ASSUME ~ cut, r.pc = "scan" PROVE Settled(b, rcv.size)'
    <3>1. Settled(up, rcv.size)
      BY <2>2, <2>4 DEF ScanFlow
    <3>2. Ends1(up[Len(up)], rcv.size)
      BY <1>6, <3>1 DEF Settled
    <3>3. b = <<>> => rcv'.pc # "inventory" /\ (rcv'.pc = "data" => rcv'.active = None)
      BY <1>5, <1>7, <3>2
    <3>4. b # <<>> => Ends1(b[Len(b)], rcv.size)
      BY <1>7, <3>2
    <3>5. QED
      BY <3>3, <3>4 DEF Settled, At
  <2>5. ASSUME ~ cut, r.pc = "scan", NEW i \in Nat, i < r.next, i < ChunkCount(rcv.size)
        PROVE  Counted(b, i)'
    <3>1. Counted(up, i)
      BY <2>2, <2>5 DEF ScanFlow
    <3>2. QED
      BY <1>10, <3>1
  <2>6. ScanFlow(b, r, cut)'
    BY <2>2, <2>3, <2>4, <2>5 DEF ScanFlow
  <2>7. snd'[Job'] = r /\ net'[rcv'.conn].cut = cut
    BY <1>2, <1>3, <2>1
  <2>8. QED
    BY <1>5, <2>6, <2>7 DEF ScanFlow, Settled, Counted, At
<1>12. (Announces(Sent) => \A i \in Nat : i < ChunkCount(rcv.size) => Counted(Sent, i))'
  <2>1. Announces(b) => Announces(up)
    BY <1>9 DEF Announces
  <2>2. Announces(up) => \A i \in Nat : i < ChunkCount(rcv.size) => Counted(up, i)
    BY <1>4, <1>5 DEF Flow
  <2>3. Announces(b) => \A i \in Nat : i < ChunkCount(rcv.size) => Counted(b, i)'
    BY <1>10, <2>1, <2>2
  <2>4. QED
    BY <1>5, <2>3 DEF Announces, Counted
<1>13. QED
  BY <1>8, <1>11, <1>12 DEF Flow

(* The next byte of the chunk under way. *)
LEMMA NextByte ==
    ASSUME ReceiverTypeOK, NEW read \in Content, Stream(read), LayoutInv, GotInv,
           At("data"), rcv.active # None,
           Sent \in Seq(Frames03), Sent # <<>>, Frame = Head(Sent), Frame.type = "DATA",
           Frame.offset = NextOffset
    PROVE  /\ rcv.active.hash \in Seq(Blocks) /\ rcv.got \in Seq(Blocks)
           /\ Frame.block \in Blocks
           /\ Frame.offset < ChunkEnd(rcv.active.index, rcv.size)
           /\ EndsAt(Frame.offset, rcv.size) <=> EndsChunk
           /\ Len(rcv.got) \in Nat /\ Len(rcv.active.hash) \in Nat
           /\ Len(rcv.got) < Len(rcv.active.hash)
           /\ EndsChunk <=> Len(rcv.got) + 1 = Len(rcv.active.hash)
           /\ \A k \in 1 .. Len(rcv.got) : rcv.got[k] = rcv.active.hash[k]
           /\ Frame.block = rcv.active.hash[Len(rcv.got) + 1]
           /\ Append(rcv.got, Frame.block) \in Seq(Blocks)
           /\ Len(Append(rcv.got, Frame.block)) = Len(rcv.got) + 1
           /\ \A k \in 1 .. Len(rcv.got) + 1 :
                 Append(rcv.got, Frame.block)[k] = rcv.active.hash[k]
<1>1. /\ rcv.active \in Record /\ rcv.got \in Content /\ rcv.size \in Nat
  BY DEF ReceiverTypeOK
<1>2. rcv.active.index \in Nat /\ rcv.active.hash \in Content
  BY <1>1 DEF Record
<1>3. PICK i, size, got, hash, o : /\ i = rcv.active.index /\ size = rcv.size
                                   /\ got = rcv.got /\ hash = rcv.active.hash
                                   /\ o = Frame.offset
  OBVIOUS
<1>4. /\ i \in Nat /\ size \in Nat /\ i < ChunkCount(size)
      /\ got \in Seq(Blocks) /\ hash \in Seq(Blocks)
  BY <1>1, <1>2, <1>3 DEF LayoutInv, Content
<1>5. Len(got) \in Nat /\ Len(hash) \in Nat
  BY <1>4, LenProperties
<1>6. PICK s, e : s = ChunkStart(i) /\ e = ChunkEnd(i, size)
  OBVIOUS
<1>7. s \in Nat /\ e \in Nat /\ s < e
  BY <1>4, <1>6, ChunkBounds, NextEnds
<1>8. /\ Len(hash) = e - s /\ Len(got) < Len(hash)
      /\ \A k \in 1 .. Len(got) : got[k] = hash[k]
  BY <1>3, <1>6 DEF GotInv
<1>9. o = s + Len(got) /\ (EndsChunk <=> o + 1 = e)
  BY <1>3, <1>6 DEF NextOffset, EndsChunk
<1>10. o \in Nat /\ s <= o /\ o < e
  BY <1>5, <1>7, <1>8, <1>9
<1>11. EndsAt(o, size) <=> o + 1 = e
  BY <1>4, <1>6, <1>10, ChunkEnds
<1>12. EndsChunk <=> Len(got) + 1 = Len(hash)
  BY <1>5, <1>7, <1>8, <1>9
<1>13. Frame \in Frames03
  BY TakeFirst
<1>14. Frame.block \in Blocks
  BY <1>13, FrameFields
<1>15. Frame.block = hash[Len(got) + 1]
  <2>1. Covers(read, i, size) /\ hash = ChunkOf(read, i, size)
    BY <1>3 DEF Stream, Begun
  <2>2. s <= e
    BY <1>7
  <2>3. \A k \in 1 .. e - s : ChunkOf(read, i, size)[k] = read[s + k]
    BY <1>4, <1>6, <2>1, <2>2, BytesOf
  <2>4. Len(got) + 1 \in 1 .. e - s /\ s + (Len(got) + 1) = o + 1
    BY <1>5, <1>7, <1>8, <1>9
  <2>5. hash[Len(got) + 1] = read[o + 1]
    BY <2>1, <2>3, <2>4
  <2>6. Frame.block = read[o + 1]
    BY <1>3, FirstComes DEF Stream
  <2>7. QED
    BY <2>5, <2>6
<1>16. PICK b, a : b = Frame.block /\ a = Append(got, b)
  OBVIOUS
<1>17. /\ a \in Seq(Blocks) /\ Len(a) = Len(got) + 1
       /\ \A k \in 1 .. Len(got) : a[k] = got[k]
       /\ a[Len(got) + 1] = b
  BY <1>4, <1>14, <1>16, AppendProperties
<1>18. ASSUME NEW k \in 1 .. Len(got) + 1 PROVE a[k] = hash[k]
  <2>1. k \in 1 .. Len(got) \/ k = Len(got) + 1
    BY <1>5
  <2>2. QED
    BY <1>8, <1>15, <1>16, <1>17, <2>1
<1>19. QED
  BY <1>3, <1>4, <1>5, <1>6, <1>8, <1>10, <1>11, <1>9, <1>12, <1>14, <1>15, <1>16, <1>17,
     <1>18

LEMMA AcceptTaken ==
    ASSUME Inv, SessionInv, LayoutInv, FlowInv, UNCHANGED senderVars, InventoryAccepted
    PROVE  Flow'
<1>0. Typed /\ ReceiverTypeOK
  BY InvTypes DEF Typed
<1>1. /\ rcv.pc = "inventory" /\ net[rcv.conn].up # <<>> /\ net' = TakeUp(net, rcv.conn)
      /\ Frame.type = "ACCEPT"
      /\ rcv' = [rcv EXCEPT !.pc = "data"]
  BY DEF InventoryAccepted, Gets, NextUp, At, TakeFrame, Step, Frame
<1>2. /\ rcv'.pc = "data" /\ rcv'.conn = rcv.conn /\ rcv'.size = rcv.size
      /\ rcv'.known = rcv.known /\ rcv'.active = rcv.active /\ rcv'.from = rcv.from
  BY <1>0, <1>1 DEF ReceiverTypeOK
<1>3. rcv.pc \in Chunking /\ rcv'.pc \in Chunking /\ ~ IsStart(Frame)
  BY <1>1, <1>2 DEF Chunking, IsStart
<1>4. rcv'.active = None
  BY <1>1, <1>2 DEF LayoutInv, Opening
<1>5. ASSUME NEW g, Follows(Frame, g, rcv.size) PROVE Expects(g)'
  <2>1. Between(g)
    BY <1>1, <1>5 DEF Follows
  <2>2. QED
    BY <1>2, <1>4, <2>1 DEF Expects, At
<1>6. GotInv'
  BY <1>4 DEF GotInv
<1>7. QED
  BY <1>0, <1>1, <1>2, <1>3, <1>4, <1>5, <1>6, FlowTaken

LEMMA StartTaken ==
    ASSUME Inv, SessionInv, LayoutInv, FlowInv, UNCHANGED senderVars, ReadChunkStart
    PROVE  Flow'
<1>0. Typed /\ ReceiverTypeOK
  BY InvTypes DEF Typed
<1>1. /\ rcv.pc = "data" /\ net[rcv.conn].up # <<>> /\ net' = TakeUp(net, rcv.conn)
      /\ Frame.type = "CHUNK_START" /\ rcv.active = None
      /\ Frame.index < ChunkCount(rcv.size)
      /\ rcv' = [rcv EXCEPT !.active = [index |-> Frame.index, hash |-> Frame.hash],
                            !.got = <<>>, !.from = Frame.index + 1]
  BY DEF ReadChunkStart, Gets, NextUp, At, TakeFrame, Frame, Begins
<1>2. /\ rcv'.pc = "data" /\ rcv'.conn = rcv.conn /\ rcv'.size = rcv.size
      /\ rcv'.known = rcv.known /\ rcv'.from = Frame.index + 1
      /\ rcv'.active = [index |-> Frame.index, hash |-> Frame.hash] /\ rcv'.got = <<>>
  BY <1>0, <1>1 DEF ReceiverTypeOK
<1>3. rcv.pc \in Chunking /\ rcv'.pc \in Chunking /\ IsStart(Frame)
      /\ rcv'.pc \notin {"down", "accept"}
  BY <1>1, <1>2 DEF Chunking, IsStart
<1>4. /\ StreamInv /\ Sent \in Seq(Frames03) /\ Sent # <<>>
      /\ Frame = Head(Sent) /\ Frame \in Frames03
  BY <1>0, <1>1, <1>2, <1>3, Takes
<1>5. Frame.index \in Nat /\ Frame.hash \in Content
  BY <1>1, <1>4, FrameFields
<1>6. /\ rcv'.active \in Record /\ rcv'.active.index = Frame.index
      /\ rcv'.active.hash = Frame.hash
  BY <1>2, <1>5 DEF Record
<1>7. rcv'.active # None
  BY <1>6, RecordAssumption
<1>8. ~ Ends1(Frame, rcv.size)
  BY <1>1 DEF Ends1
<1>9. Len(rcv'.got) = 0
  BY <1>2, EmptySeq
<1>10. ASSUME NEW g, Follows(Frame, g, rcv.size) PROVE Expects(g)'
  <2>1. g.type = "DATA" /\ g.offset = ChunkStart(Frame.index)
    BY <1>1, <1>8, <1>10 DEF Follows
  <2>2. ChunkStart(Frame.index) \in Nat
    BY <1>5, ChunksAssumption DEF ChunkStart
  <2>3. NextOffset' = ChunkStart(Frame.index)
    <3>1. NextOffset' = ChunkStart(Frame.index) + 0
      BY <1>6, <1>9 DEF NextOffset
    <3>2. QED
      BY <2>2, <3>1
  <2>4. QED
    BY <1>2, <1>7, <2>1, <2>3 DEF Expects, At
<1>11. GotInv'
  <2>1. PICK read \in Content : Stream(read)
    BY <1>4 DEF StreamInv
  <2>2. Begun(rcv.size, read, Frame)
    BY <1>1, <1>4, <2>1, FirstComes DEF Stream
  <2>3. PICK i, size, hash : i = Frame.index /\ size = rcv.size /\ hash = Frame.hash
    OBVIOUS
  <2>4. /\ i \in Nat /\ size \in Nat /\ i < ChunkCount(size)
        /\ Covers(read, i, size) /\ hash = ChunkOf(read, i, size)
    BY <1>0, <1>1, <1>5, <2>2, <2>3 DEF Begun, ReceiverTypeOK
  <2>5. ChunkStart(i) < ChunkEnd(i, size) /\ ChunkStart(i) \in Nat /\ ChunkEnd(i, size) \in Nat
    BY <2>4, NextEnds, ChunkBounds
  <2>6. ChunkStart(i) <= ChunkEnd(i, size)
    BY ONLY <2>5
  <2>7. Len(hash) = ChunkEnd(i, size) - ChunkStart(i)
    BY <2>4, <2>6, BytesOf
  <2>8. 0 < Len(hash)
    BY ONLY <2>5, <2>7
  <2>9. \A k \in 1 .. Len(rcv'.got) : FALSE
    BY ONLY <1>9
  <2>10. QED
    BY <1>2, <1>6, <1>9, <2>3, <2>7, <2>8, <2>9 DEF GotInv
<1>12. QED
  BY <1>0, <1>1, <1>2, <1>3, <1>6, <1>7, <1>8, <1>10, <1>11, FlowTaken

LEMMA DataTaken ==
    ASSUME Inv, SessionInv, LayoutInv, FlowInv, UNCHANGED senderVars, ReadData
    PROVE  Flow'
<1>0. Typed /\ ReceiverTypeOK
  BY InvTypes DEF Typed
<1>1. /\ rcv.pc = "data" /\ net[rcv.conn].up # <<>> /\ net' = TakeUp(net, rcv.conn)
      /\ Frame.type = "DATA" /\ rcv.active # None /\ Frame.offset = NextOffset
      /\ rcv' = [rcv EXCEPT !.pc = IF EndsChunk THEN "forget" ELSE "data",
                            !.got = Append(@, Frame.block), !.prior = part]
  BY DEF ReadData, Gets, NextUp, At, TakeFrame, Frame, Continues
<1>2. /\ rcv'.pc = IF EndsChunk THEN "forget" ELSE "data"
      /\ rcv'.conn = rcv.conn /\ rcv'.size = rcv.size
      /\ rcv'.known = rcv.known /\ rcv'.from = rcv.from /\ rcv'.active = rcv.active
      /\ rcv'.got = Append(rcv.got, Frame.block)
  BY <1>0, <1>1 DEF ReceiverTypeOK
<1>3. rcv.pc \in Chunking /\ rcv'.pc \in Chunking /\ ~ IsStart(Frame)
      /\ rcv'.pc \notin {"down", "accept"}
  BY <1>1, <1>2 DEF Chunking, IsStart
<1>4. /\ StreamInv /\ Sent \in Seq(Frames03) /\ Sent # <<>> /\ Frame = Head(Sent)
  BY <1>0, <1>1, <1>2, <1>3, Takes
<1>5. PICK read \in Content : Stream(read)
  BY <1>4 DEF StreamInv
<1>6. GotInv /\ At("data")
  BY <1>1, <1>3 DEF FlowInv, Flow, Orderly, At
<1>7. /\ EndsAt(Frame.offset, rcv.size) <=> EndsChunk
      /\ Len(rcv.got) \in Nat /\ Len(rcv.active.hash) \in Nat
      /\ Len(rcv.got) < Len(rcv.active.hash)
      /\ EndsChunk <=> Len(rcv.got) + 1 = Len(rcv.active.hash)
      /\ Len(rcv'.got) = Len(rcv.got) + 1
      /\ \A k \in 1 .. Len(rcv.got) + 1 : rcv'.got[k] = rcv.active.hash[k]
  BY <1>0, <1>1, <1>2, <1>4, <1>5, <1>6, NextByte
<1>8. ASSUME NEW g, Follows(Frame, g, rcv.size) PROVE Expects(g)'
  <2>1. CASE EndsChunk
    <3>1. Between(g)
      BY <1>1, <1>7, <1>8, <2>1 DEF Follows
    <3>2. QED
      BY <1>2, <2>1, <3>1 DEF Expects, At
  <2>2. CASE ~ EndsChunk
    <3>1. g.type = "DATA" /\ g.offset = Frame.offset + 1
      BY <1>1, <1>7, <1>8, <2>2 DEF Follows, Ends1
    <3>2. NextOffset' = Frame.offset + 1
      <4>1. NextOffset' = ChunkStart(rcv.active.index) + (Len(rcv.got) + 1)
        BY <1>2, <1>7 DEF NextOffset
      <4>2. ChunkStart(rcv.active.index) \in Nat
        <5>1. rcv.active.index \in Nat
          BY <1>0, <1>1 DEF ReceiverTypeOK, Record
        <5>2. QED
          BY <5>1, ChunksAssumption DEF ChunkStart
      <4>3. Frame.offset = ChunkStart(rcv.active.index) + Len(rcv.got)
        BY <1>1 DEF NextOffset
      <4>4. QED
        BY <1>7, <4>1, <4>2, <4>3
    <3>3. QED
      BY <1>1, <1>2, <2>2, <3>1, <3>2 DEF Expects, At
  <2>3. QED
    BY <2>1, <2>2
<1>9. Ends1(Frame, rcv.size) => EndsChunk
  BY <1>1, <1>7 DEF Ends1
<1>10. GotInv'
  <2>1. Len(rcv.active.hash) = ChunkEnd(rcv.active.index, rcv.size) - ChunkStart(rcv.active.index)
    BY <1>1, <1>6 DEF GotInv
  <2>2. ~ EndsChunk => Len(rcv.got) + 1 < Len(rcv.active.hash)
    BY <1>7
  <2>3. QED
    BY <1>2, <1>7, <2>1, <2>2 DEF GotInv, At
<1>11. QED
  BY <1>0, <1>1, <1>2, <1>3, <1>8, <1>9, <1>10, FlowTaken

(* The chunk that was written is recorded. *)
LEMMA RecordingFlows ==
    ASSUME Inv, SessionInv, LayoutInv, FlowInv, UNCHANGED senderVars, ForgetChunks \/ RecordChunk
    PROVE  Flow'
<1>0. Typed /\ ReceiverTypeOK
  BY InvTypes DEF Typed
<1>1. /\ rcv.pc \in {"forget", "record"} /\ rcv'.conn = rcv.conn /\ rcv'.size = rcv.size
      /\ rcv'.from = rcv.from /\ net' = net
      /\ \/ rcv'.pc = "record" /\ rcv'.known = rcv.known /\ rcv'.active = rcv.active
            /\ rcv'.got = rcv.got
         \/ rcv'.pc = "data" /\ rcv'.known = Recorded(rcv.known, rcv.active)
            /\ rcv'.active = None
  <2>1. CASE ForgetChunks
    BY <1>0, <2>1 DEF ForgetChunks, At, wireVars, ReceiverTypeOK
  <2>2. CASE RecordChunk
    BY <1>0, <2>2 DEF RecordChunk, At, wireVars, ReceiverTypeOK
  <2>3. QED
    BY <2>1, <2>2
<1>2. /\ rcv.active \in Record /\ rcv.active # None /\ rcv.active.index \in Nat
      /\ rcv.from = rcv.active.index + 1
  <2>1. rcv.active # None
    BY <1>1 DEF Inv, ReceiverInv, StepInv
  <2>2. rcv.active \in Record
    BY <1>0, <2>1 DEF ReceiverTypeOK
  <2>3. rcv.active.index \in Nat
    BY <2>2 DEF Record
  <2>4. QED
    BY <2>1, <2>2, <2>3 DEF LayoutInv
<1>3. /\ Serving /\ rcv'.pc \notin {"down", "accept"} /\ Same(net, net', rcv.conn)
      /\ rcv.pc \in Chunking
  BY <1>1 DEF Serving, Same, Chunking
<1>4. /\ snd' = snd /\ Job' = Job /\ (Attached' <=> Attached) /\ Job \in Jobs
      /\ net'[rcv.conn].cut = net[rcv.conn].cut
      /\ Sent' = Sent
  BY <1>0, <1>1, <1>3, Remains
<1>5. PICK up : up = Sent
  OBVIOUS
<1>6. Flow /\ up \in Seq(Frames03)
  BY <1>0, <1>3, <1>5, Names DEF FlowInv, Sent, Typed
<1>7. \A n \in 1 .. Len(up) : IsStart(up[n]) => up[n].index \in Nat
  <2>1. \A n \in 1 .. Len(up) : up[n] \in Frames03
    BY <1>6, ElementOfSeq
  <2>2. QED
    BY <2>1, FrameFields DEF IsStart
<1>8. \A k \in rcv'.known : k \in rcv.known \/ k = rcv.active
  BY <1>1 DEF Recorded
<1>9. StartsFrom(up, rcv.from, rcv.size, rcv'.known)
  <2>1. StartsFrom(up, rcv.from, rcv.size, rcv.known)
    BY <1>5, <1>6 DEF Flow, Orderly
  <2>2. ASSUME NEW n \in 1 .. Len(up), IsStart(up[n])
        PROVE  [index |-> up[n].index, hash |-> up[n].hash] # rcv.active
    <3>1. rcv.from <= up[n].index
      BY <2>1, <2>2 DEF StartsFrom
    <3>2. up[n].index # rcv.active.index
      BY <1>2, <1>7, <2>2, <3>1
    <3>3. QED
      BY <3>2
  <2>3. QED
    BY <1>8, <2>1, <2>2 DEF StartsFrom
<1>10. up # <<>> => Expects(Head(up))'
  <2>1. up # <<>> => Expects(Head(up))
    BY <1>5, <1>6 DEF Flow, Orderly
  <2>2. up # <<>> => Between(Head(up))
    BY <1>1, <2>1 DEF Expects
  <2>3. QED
    BY <1>1, <2>2 DEF Expects, At
<1>11. GotInv'
  BY <1>1, <1>6 DEF Flow, Orderly, GotInv, At
<1>12. Orderly'
  <2>1. (Sent # <<>> => Expects(Head(Sent)))'
    BY <1>4, <1>5, <1>10 DEF Expects, At, NextOffset
  <2>2. Flows(up, rcv.size) /\ Ascends(up)
    BY <1>5, <1>6 DEF Flow, Orderly
  <2>3. QED
    BY <1>1, <1>4, <1>5, <1>9, <1>11, <2>1, <2>2 DEF Orderly
<1>13. ASSUME NEW i, Counted(up, i) PROVE Counted(up, i)'
  <2>1. CASE rcv'.known = rcv.known /\ rcv'.active = rcv.active
    BY <1>13, <2>1 DEF Counted
  <2>2. CASE rcv'.known = Recorded(rcv.known, rcv.active)
    <3>1. (\E r \in rcv.known : r.index = i) \/ rcv.active.index = i
             => \E r \in rcv'.known : r.index = i
      BY <2>2 DEF Recorded
    <3>2. QED
      BY <1>13, <3>1 DEF Counted
  <2>3. QED
    BY <1>1, <2>1, <2>2
<1>14. ASSUME Attached' PROVE ScanFlow(Sent, snd[Job], net[rcv.conn].cut)'
  <2>1. PICK r, cut : r = snd[Job] /\ cut = net[rcv.conn].cut
    OBVIOUS
  <2>2. ScanFlow(up, r, cut)
    BY <1>4, <1>5, <1>6, <1>14, <2>1 DEF Flow
  <2>3. r.next \in Nat
    BY <1>0, <1>4, <2>1 DEF Typed, JobState
  <2>4. ASSUME r.pc = "scan", NEW k \in rcv'.known, k.index >= r.next
        PROVE  \E n \in 1 .. Len(r.records) : r.records[n] = k
    <3>1. rcv.from <= r.next
      BY <2>2, <2>4 DEF ScanFlow
    <3>2. k # rcv.active
      BY <1>2, <2>3, <2>4, <3>1
    <3>3. k \in rcv.known
      BY <1>8, <3>2
    <3>4. QED
      BY <2>2, <2>4, <3>3 DEF ScanFlow
  <2>5. ASSUME r.pc = "scan", ~ cut PROVE Settled(up, rcv.size)'
    <3>1. Settled(up, rcv.size)
      BY <2>2, <2>5 DEF ScanFlow
    <3>2. QED
      BY <1>1, <3>1 DEF Settled, At
  <2>6. ASSUME r.pc = "scan", ~ cut, NEW i \in Nat, i < r.next, i < ChunkCount(rcv.size)
        PROVE  Counted(up, i)'
    <3>1. Counted(up, i)
      BY <2>2, <2>6 DEF ScanFlow
    <3>2. QED
      BY <1>13, <3>1
  <2>7. ScanFlow(up, r, cut)'
    BY <1>1, <2>2, <2>4, <2>5, <2>6 DEF ScanFlow
  <2>8. snd'[Job'] = r /\ net'[rcv'.conn].cut = cut
    BY <1>1, <1>4, <2>1
  <2>9. QED
    BY <1>4, <1>5, <2>7, <2>8 DEF ScanFlow, Settled, Counted, At
<1>15. (Announces(Sent) => \A i \in Nat : i < ChunkCount(rcv.size) => Counted(Sent, i))'
  <2>1. Announces(up) => \A i \in Nat : i < ChunkCount(rcv.size) => Counted(up, i)
    BY <1>5, <1>6 DEF Flow
  <2>2. Announces(up) => \A i \in Nat : i < ChunkCount(rcv.size) => Counted(up, i)'
    BY <1>13, <2>1
  <2>3. QED
    BY <1>1, <1>4, <1>5, <2>2 DEF Announces, Counted
<1>16. QED
  BY <1>12, <1>14, <1>15 DEF Flow

(* The receiver offers what it has: nothing is under way to it. *)
LEMMA InventoryFlows ==
    ASSUME Inv, SessionInv, LayoutInv, UNCHANGED senderVars, SendInventory
    PROVE  Flow'
<1>0. Typed /\ ReceiverTypeOK
  BY InvTypes DEF Typed
<1> DEFINE c == rcv.conn
<1>1. /\ Serving /\ rcv.pc = "negotiate" /\ rcv'.pc = "inventory"
      /\ rcv'.conn = rcv.conn /\ rcv'.active = rcv.active /\ rcv.active = None
  BY <1>0 DEF SendInventory, At, Step, Serving, ReceiverTypeOK, LayoutInv, Opening
<1>2. c \in Conns /\ rcv'.pc \notin {"down", "accept"}
  BY <1>0, <1>1 DEF Typed
<1>3. PICK all \in InOrder(rcv.known) : net' = DownAll(net, c, Inventory(all))
  BY DEF SendInventory
<1>4. Same(net, net', c) /\ net'[c].up = net[c].up
  <2>1. net \in [Conns -> AnyLink]
    BY <1>0 DEF Typed
  <2> HIDE DEF c
  <2>2. QED
    BY <1>2, <1>3, <2>1, WriteFields
<1>5. /\ PeerInv /\ Job' = Job /\ snd' = snd /\ (Attached' <=> Attached)
      /\ Sent = net[c].up /\ Sent' = net'[c].up
  BY <1>0, <1>1, <1>2, <1>4, Remains
<1>6. Sent' = <<>> /\ (Attached => snd[Job].pc = "offered")
  BY <1>1, <1>4, <1>5 DEF PeerInv, EarlyInv, Early
<1>7. GotInv'
  BY <1>1 DEF GotInv
<1>8. Orderly'
  BY <1>6, <1>7, NoneFlows DEF Orderly
<1>9. (Attached => ScanFlow(Sent, snd[Job], net[rcv.conn].cut))'
  BY <1>5, <1>6 DEF ScanFlow
<1>10. ~ Announces(Sent')
  BY <1>6, NoneComes
<1>11. QED
  BY <1>8, <1>9, <1>10 DEF Flow, Announces

(* No other step of the receiver leads to the frames of the chunks. *)
LEMMA OtherFlows ==
    ASSUME ReceiverTypeOK, ReceiverMoves, ~ SendInventory, ~ InventoryAccepted,
           ~ ReadChunkStart, ~ ReadData, ~ ForgetChunks, ~ RecordChunk
    PROVE  rcv'.pc \notin Chunking
<1>1. CASE \E c \in Conns : Accept(c)
  BY <1>1 DEF Accept, Idle, Chunking
<1>2. CASE SendVerified \/ Close \/ Crash
  <2>1. rcv' = Idle \/ rcv' = [Idle EXCEPT !.pc = "down"]
    BY <1>2 DEF SendVerified, Close, Crash, Finish
  <2>2. rcv'.pc \in {"accept", "down"}
    BY <2>1 DEF Idle
  <2>3. QED
    BY <2>2 DEF Chunking
<1>3. CASE Restart \/ AnswerHello \/ ReadOffer
  BY <1>3 DEF Restart, AnswerHello, ReadOffer, Step, Chunking, ReceiverTypeOK
<1>4. CASE ReceiptConflicts \/ FinalReconciled \/ PartReconciled \/ NotReconciled
  BY <1>4 DEF ReceiptConflicts, FinalReconciled, PartReconciled, NotReconciled, Step,
              Chunking, ReceiverTypeOK
<1>5. CASE LoadInventory
  BY <1>5 DEF LoadInventory, Chunking, ReceiverTypeOK
<1>6. CASE OpenPart \/ ResizePart
  BY <1>6 DEF OpenPart, ResizePart, Step, Chunking, ReceiverTypeOK
<1>7. CASE ReadComplete
  BY <1>7 DEF ReadComplete, Chunking, ReceiverTypeOK
<1>8. CASE VerifyFile \/ PublishReceipt
  BY <1>8 DEF VerifyFile, PublishReceipt, Step, Chunking, ReceiverTypeOK
<1>9. CASE Link \/ Promoted \/ CleanUp
  BY <1>9 DEF Link, Promoted, CleanUp, Step, Chunking, ReceiverTypeOK
<1>10. CASE LoseSender
  BY <1>10 DEF LoseSender, Step, Chunking, ReceiverTypeOK
<1>11. CASE StorageFails
  BY <1>11 DEF StorageFails, AfterStorageError, Chunking, ReceiverTypeOK
<1>12. QED
  BY <1>1, <1>2, <1>3, <1>4, <1>5, <1>6, <1>7, <1>8, <1>9, <1>10, <1>11
     DEF ReceiverMoves, ReceiverRuns, ReceiverDisturbed

LEMMA ReceiverFlows ==
    ASSUME Inv, SessionInv, LayoutInv, FlowInv, UNCHANGED senderVars, ReceiverMoves
    PROVE  FlowInv'
<1>1. ReceiverTypeOK
  BY DEF Inv, ReceiverInv
<1>2. CASE SendInventory
  BY <1>2, InventoryFlows DEF FlowInv
<1>3. CASE InventoryAccepted
  BY <1>3, AcceptTaken DEF FlowInv
<1>4. CASE ReadChunkStart
  BY <1>4, StartTaken DEF FlowInv
<1>5. CASE ReadData
  BY <1>5, DataTaken DEF FlowInv
<1>6. CASE ForgetChunks \/ RecordChunk
  BY <1>6, RecordingFlows DEF FlowInv
<1>7. QED
  BY <1>1, <1>2, <1>3, <1>4, <1>5, <1>6, OtherFlows DEF FlowInv

-----------------------------------------------------------------------------
(* The order of a session. *)

LEMMA InitOrder == Init => OrderInv
<1>1. SUFFICES ASSUME Init PROVE OrderInv
  OBVIOUS
<1>2. /\ rcv = Idle /\ chunks = None
      /\ \A j \in Jobs : snd[j].pc = "idle" /\ snd[j].records = <<>>
  BY <1>1 DEF Init, ReceiverInit, SenderInit
<1>3. rcv.pc = "accept" /\ rcv.known = {} /\ rcv.from = 0 /\ rcv.active = None
  BY <1>2 DEF Idle
<1>4. LayoutInv
  BY <1>2, <1>3 DEF LayoutInv, InLayout
<1>5. CursorInv
  BY <1>2 DEF CursorInv, CursorOf
<1>6. DownInv
  <2>1. Len(<<>>) = 0
    BY EmptySeq
  <2>2. \A n \in 1 .. Len(<<>>) : FALSE
    BY ONLY <2>1
  <2>3. \A size : Ordered(<<>>, size)
    BY <2>2 DEF Ordered
  <2>4. QED
    BY <1>2, <2>3 DEF DownInv, DownOf
<1>7. DoneInv /\ FlowInv
  BY <1>3 DEF DoneInv, FlowInv, Attached, Serving, Chunking
<1>8. QED
  BY <1>4, <1>5, <1>6, <1>7 DEF OrderInv

LEMMA NextOrder ==
    ASSUME Inv, Inv', SessionInv, SessionInv', OrderInv, [Next]_vars
    PROVE  OrderInv'
<1>0. /\ LayoutInv /\ CursorInv /\ DownInv /\ DoneInv /\ FlowInv
      /\ Typed /\ Typed'
  BY InvTypes DEF OrderInv
<1>1. rcv' = rcv /\ chunks' = chunks => LayoutInv'
  BY <1>0 DEF LayoutInv
<1>2. snd' = snd => CursorInv'
  BY <1>0 DEF CursorInv
<1>3. ASSUME NEW j \in Jobs, SenderRuns(j) \/ SenderDisturbed(j), UNCHANGED receiverVars
      PROVE  OrderInv'
  <2>1. LayoutInv'
    BY <1>1, <1>3 DEF receiverVars
  <2>2. CursorInv'
    BY <1>0, <1>3, CursorKept
  <2>3. DownInv'
    BY <1>0, <1>3, SenderDown
  <2>4. DoneInv'
    BY <1>0, <1>3, SenderDone
  <2>5. FlowInv'
    BY <1>0, <1>3, SenderFlows
  <2>6. QED
    BY <2>1, <2>2, <2>3, <2>4, <2>5 DEF OrderInv
<1>4. ASSUME ReceiverMoves, UNCHANGED senderVars PROVE OrderInv'
  <2>1. LayoutInv'
    BY <1>0, <1>4, LayoutKept
  <2>2. CursorInv'
    BY <1>2, <1>4 DEF senderVars
  <2>3. DownInv'
    BY <1>0, <1>4, ReceiverDown
  <2>4. DoneInv'
    BY <1>0, <1>4, ReceiverDone
  <2>5. FlowInv'
    BY <1>0, <1>4, ReceiverFlows
  <2>6. QED
    BY <2>1, <2>2, <2>3, <2>4, <2>5 DEF OrderInv
<1>5. ASSUME NEW c \in Conns, Cut(c), UNCHANGED senderVars, UNCHANGED receiverVars
      PROVE  OrderInv'
  <2>1. LayoutInv'
    BY <1>1, <1>5 DEF receiverVars
  <2>2. CursorInv'
    BY <1>2, <1>5 DEF senderVars
  <2>3. DownInv'
    BY <1>0, <1>5, CutDown
  <2>4. DoneInv'
    BY <1>0, <1>5, CutDone
  <2>5. FlowInv'
    BY <1>0, <1>5, CutFlows
  <2>6. QED
    BY <2>1, <2>2, <2>3, <2>4, <2>5 DEF OrderInv
<1>6. CASE UNCHANGED vars
  <2>1. rcv' = rcv /\ snd' = snd /\ net' = net /\ chunks' = chunks /\ part' = part
    BY <1>6 DEF vars, wireVars, senderVars, receiverVars
  <2>2. /\ Sent' = Sent /\ Answered' = Answered /\ Job' = Job /\ (Attached' <=> Attached)
        /\ \A j \in Jobs : Conn(j)' = Conn(j)
    BY <2>1 DEF Sent, Answered, Job, Attached, Serving, Live, Conn
  <2>3. LayoutInv' /\ CursorInv'
    BY <1>1, <1>2, <2>1
  <2>4. ASSUME NEW c \in Conns PROVE net'[c] = net[c]
    BY <2>1
  <2>5. DownInv'
    BY <1>0, <2>1, <2>2 DEF DownInv, DownOf, OfferedList, ReadList, Lists, At
  <2>6. DoneInv'
    BY <1>0, <2>1, <2>2 DEF DoneInv
  <2>7. FlowInv'
    BY <1>0, <2>1, <2>2 DEF FlowInv, Flow, Orderly, Expects, GotInv, ScanFlow, Settled,
                            Counted, At, NextOffset
  <2>8. QED
    BY <2>3, <2>5, <2>6, <2>7 DEF OrderInv
<1>7. QED
  BY <1>3, <1>4, <1>5, <1>6 DEF Next, Runs, Disturbed, Quiet, ReceiverMoves

(* What the order of the frames rests on: the layout of the records, the   *)
(* cursor of every scan, the batches and the chunks under way.             *)
THEOREM OrderHolds == Spec => []OrderInv
<1>1. Inv /\ Inv' /\ SessionInv /\ SessionInv' /\ OrderInv /\ [Next]_vars => OrderInv'
  BY NextOrder
<1>2. QED
  BY <1>1, InitOrder, InvHolds, SessionHolds, PTL DEF Spec

-----------------------------------------------------------------------------
(* Each frame is one that its reader takes. *)

(* Records in order, and below a bound, are no more than that bound. *)
LEMMA OrderedFits ==
    ASSUME NEW all \in Seq(Record), NEW size \in Nat, Ordered(all, size)
    PROVE  Len(all) <= ChunkCount(size)
<1> DEFINE N == Len(all)
           C == ChunkCount(size)
           f == [n \in 1 .. N |-> all[n].index]
<1>1. /\ N \in Nat /\ \A n \in 1 .. N : all[n].index \in Nat
  BY RecordIndexes
<1>2. C \in Nat
  BY ChunksAssumption DEF ChunkCount
<1>3. /\ \A n \in 1 .. N : all[n].index < C
      /\ \A m, n \in 1 .. N : m < n => all[m].index < all[n].index
  BY DEF Ordered
<1> HIDE DEF N, C
<1>4. f \in [1 .. N -> 0 .. C - 1]
  BY <1>1, <1>2, <1>3
<1>5. ASSUME NEW m \in 1 .. N, NEW n \in 1 .. N, f[m] = f[n] PROVE m = n
  <2>1. all[m].index = all[n].index
    BY <1>5
  <2>2. ~ (m < n) /\ ~ (n < m)
    BY <1>1, <1>3, <2>1
  <2>3. QED
    BY <1>1, <2>2
<1>6. f \in Injection(1 .. N, 0 .. C - 1)
  BY <1>4, <1>5 DEF Injection, IsInjective
<1> HIDE DEF f
<1>7. IsFiniteSet(0 .. C - 1) /\ Cardinality(0 .. C - 1) = C
  <2>1. Cardinality(0 .. C - 1) = (IF 0 > C - 1 THEN 0 ELSE C - 1 - 0 + 1)
    BY <1>2, FS_Interval
  <2>2. QED
    BY <1>2, <2>1, FS_Interval
<1>8. Cardinality(1 .. N) = N
  <2>1. Cardinality(1 .. N) = (IF 1 > N THEN 0 ELSE N - 1 + 1)
    BY <1>1, FS_Interval
  <2>2. QED
    BY <1>1, <2>1
<1>9. Cardinality(1 .. N) <= Cardinality(0 .. C - 1)
  BY <1>6, <1>7, FS_Injection
<1>10. N <= C
  BY <1>7, <1>8, <1>9
<1>11. QED
  BY <1>10 DEF N, C

(* A record of each chunk, and no more. *)
LEMMA AllKnown ==
    ASSUME NEW known \in SUBSET Record, IsFiniteSet(known), NEW size \in Nat,
           InLayout(known, size),
           \A i \in Nat : i < ChunkCount(size) => \E r \in known : r.index = i
    PROVE  Cardinality(known) = ChunkCount(size)
<1> DEFINE C == ChunkCount(size)
           f == [r \in known |-> r.index]
<1>1. C \in Nat
  BY ChunksAssumption DEF ChunkCount
<1>2. /\ \A r \in known : r.index \in Nat /\ r.index < C
      /\ \A r, s \in known : r.index = s.index => r = s
      /\ \A i \in Nat : i < C => \E r \in known : r.index = i
  BY DEF InLayout, Record
<1> HIDE DEF C
<1>3. f \in [known -> 0 .. C - 1]
  BY <1>1, <1>2
<1>4. f \in Injection(known, 0 .. C - 1)
  BY <1>2, <1>3 DEF Injection, IsInjective
<1>5. f \in Surjection(known, 0 .. C - 1)
  <2>1. ASSUME NEW i \in 0 .. C - 1 PROVE \E r \in known : f[r] = i
    <3>1. i \in Nat /\ i < C
      BY <1>1
    <3>2. QED
      BY <1>2, <3>1
  <2>2. QED
    BY <1>3, <2>1 DEF Surjection
<1>6. Cardinality(0 .. C - 1) = Cardinality(known)
  <2>1. ExistsBijection(known, 0 .. C - 1)
    BY <1>4, <1>5 DEF ExistsBijection, Bijection
  <2>2. QED
    BY <2>1, FS_Bijection
<1>7. Cardinality(0 .. C - 1) = C
  <2>1. Cardinality(0 .. C - 1) = (IF 0 > C - 1 THEN 0 ELSE C - 1 - 0 + 1)
    BY <1>1, FS_Interval
  <2>2. QED
    BY <1>1, <2>1
<1>8. QED
  BY <1>6, <1>7 DEF C

(* The receiver. *)
LEMMA AdmitsNext ==
    ASSUME Inv, SessionInv, OrderInv, At("data"), net[rcv.conn].up # <<>>
    PROVE  AdmitsInData(Frame)
<1>1. /\ Typed /\ ReceiverTypeOK /\ rcv.size \in Nat /\ rcv.from \in Nat
      /\ rcv.known \in SUBSET Record /\ IsFiniteSet(rcv.known)
  BY InvTypes DEF Typed, ReceiverTypeOK, Inv, ReceiverInv, StepInv
<1>2. rcv.pc \in Chunking /\ Serving
  BY DEF At, Chunking, Serving
<1>3. LayoutInv /\ Flow /\ StreamInv
  BY <1>2 DEF OrderInv, FlowInv, SessionInv, PeerInv
<1>4. PICK read \in Content : Stream(read)
  BY <1>3 DEF StreamInv
<1>5. PICK up : up = Sent
  OBVIOUS
<1>6. up \in Seq(Frames03) /\ up # <<>> /\ Frame = Head(up)
  BY <1>1, <1>2, <1>5, Names DEF Sent, Frame, Typed
<1>7. Frame \in Frames03 /\ Len(up) \in Nat /\ 1 \in 1 .. Len(up) /\ Frame = up[1]
  BY <1>6, Rest, TakeFirst, LenProperties
<1>8. /\ Expects(Frame) /\ GotInv
      /\ StartsFrom(up, rcv.from, rcv.size, rcv.known)
      /\ Announces(up) => \A i \in Nat : i < ChunkCount(rcv.size) => Counted(up, i)
  BY <1>3, <1>5, <1>6 DEF Flow, Orderly
<1>9. CASE rcv.active # None
  <2>1. Frame.type = "DATA" /\ Frame.offset = NextOffset
    BY <1>8, <1>9 DEF Expects
  <2>2. /\ rcv.active.hash \in Seq(Blocks)
        /\ Frame.offset < ChunkEnd(rcv.active.index, rcv.size)
        /\ Len(rcv.got) \in Nat
        /\ EndsChunk <=> Len(rcv.got) + 1 = Len(rcv.active.hash)
        /\ Append(rcv.got, Frame.block) \in Seq(Blocks)
        /\ Len(Append(rcv.got, Frame.block)) = Len(rcv.got) + 1
        /\ \A k \in 1 .. Len(rcv.got) + 1 :
              Append(rcv.got, Frame.block)[k] = rcv.active.hash[k]
    BY <1>1, <1>3, <1>4, <1>5, <1>6, <1>8, <1>9, <2>1, NextByte
  <2>3. ASSUME EndsChunk PROVE Append(rcv.got, Frame.block) = rcv.active.hash
    <3>1. PICK a, h : a = Append(rcv.got, Frame.block) /\ h = rcv.active.hash
      OBVIOUS
    <3>2. /\ a \in Seq(Blocks) /\ h \in Seq(Blocks) /\ Len(a) = Len(h)
          /\ \A k \in 1 .. Len(a) : a[k] = h[k]
      BY <2>2, <2>3, <3>1
    <3>3. a = h
      BY <3>2, SeqEqual
    <3>4. QED
      BY <3>1, <3>3
  <2>4. Continues(Frame)
    BY <1>9, <2>1, <2>2, <2>3 DEF Continues
  <2>5. QED
    BY <2>1, <2>4 DEF AdmitsInData
<1>10. CASE rcv.active = None
  <2>1. Between(Frame)
    BY <1>8, <1>10 DEF Expects
  <2>2. CASE Frame.type = "CHUNK_START"
    <3>1. /\ rcv.from <= Frame.index /\ Frame.index < ChunkCount(rcv.size)
          /\ [index |-> Frame.index, hash |-> Frame.hash] \notin rcv.known
      BY <1>7, <1>8, <2>2 DEF StartsFrom, IsStart
    <3>2. Frame.index \in Nat
      BY <1>7, <2>2, FrameFields
    <3>3. Frame.index >= rcv.from
      BY <1>1, <3>1, <3>2
    <3>4. Begins(Frame)
      BY <1>10, <3>1, <3>3 DEF Begins
    <3>5. QED
      BY <2>2, <3>4 DEF AdmitsInData
  <2>3. CASE Frame.type = "COMPLETE"
    <3>1. ComesOf(rcv.size, read, up)
      BY <1>4, <1>5 DEF Stream
    <3>2. Len(up) = 1
      BY <1>7, <2>3, <3>1 DEF ComesOf
    <3>3. Announces(up)
      BY <1>7, <2>3 DEF Announces
    <3>4. \A n \in 1 .. Len(up) : ~ IsStart(up[n])
      <4>1. \A n \in 1 .. Len(up) : n = 1
        BY ONLY <3>2
      <4>2. QED
        BY <1>7, <2>3, <4>1 DEF IsStart
    <3>5. \A i \in Nat : i < ChunkCount(rcv.size) => \E r \in rcv.known : r.index = i
      BY <1>8, <1>10, <3>3, <3>4 DEF Counted
    <3>6. InLayout(rcv.known, rcv.size)
      BY <1>3 DEF LayoutInv
    <3>7. Cardinality(rcv.known) = ChunkCount(rcv.size)
      BY <1>1, <3>5, <3>6, AllKnown
    <3>8. QED
      BY <1>10, <2>3, <3>7 DEF AdmitsInData, Completes
  <2>4. QED
    BY <2>1, <2>2, <2>3 DEF Between
<1>11. QED
  BY <1>9, <1>10

(* The sender. *)
LEMMA AdmitsList ==
    ASSUME Inv, OrderInv, NEW j \in Jobs
    PROVE  /\ FitsLayout(j, snd[j].records)
           /\ snd[j].pc = "inventory" /\ net[Conn(j)].down # <<>> =>
                 /\ NextDown(Conn(j), "CHUNK_HASHES")
                 /\ LET batch == Head(net[Conn(j)].down).records IN
                       /\ batch # <<>>
                       /\ Len(snd[j].records \o batch) <= snd[j].count
           /\ snd[j].pc = "scan" /\ ~ MoreChunks(j)
                 => snd[j].cursor = Len(snd[j].records)
<1>1. /\ Typed /\ snd[j] \in JobState
  BY InvTypes DEF Typed
<1>2. /\ snd[j].records \in Seq(Record) /\ snd[j].size \in Nat /\ snd[j].cursor \in Nat
      /\ snd[j].next \in Nat
  BY <1>1 DEF JobState
<1>3. PICK rs, size, c : rs = snd[j].records /\ size = snd[j].size /\ c = snd[j].cursor
  OBVIOUS
<1>4. /\ rs \in Seq(Record) /\ size \in Nat /\ c \in Nat /\ Len(rs) \in Nat
      /\ \A n \in 1 .. Len(rs) : rs[n].index \in Nat
      /\ DOMAIN rs = 1 .. Len(rs)
  BY <1>2, <1>3, RecordIndexes, LenProperties
<1>5. Ordered(rs, size)
  BY <1>3 DEF OrderInv, DownInv
<1>6. FitsLayout(j, rs)
  <2>1. Len(rs) <= ChunkCount(size)
    BY <1>4, <1>5, OrderedFits
  <2>2. ASSUME NEW n \in 1 .. Len(rs), n > 1 PROVE rs[n - 1].index < rs[n].index
    <3>1. n - 1 \in 1 .. Len(rs) /\ n - 1 < n
      BY <1>4, <2>2
    <3>2. QED
      BY <1>5, <3>1 DEF Ordered
  <2>3. \A n \in 1 .. Len(rs) : rs[n].index < ChunkCount(size)
    BY <1>5 DEF Ordered
  <2>4. QED
    BY <1>3, <1>4, <2>1, <2>2, <2>3 DEF FitsLayout
<1>7. ASSUME snd[j].pc = "inventory", net[Conn(j)].down # <<>>
      PROVE  /\ NextDown(Conn(j), "CHUNK_HASHES")
             /\ Head(net[Conn(j)].down).records # <<>>
             /\ Len(snd[j].records \o Head(net[Conn(j)].down).records) <= snd[j].count
  <2>1. PICK down : down = net[Conn(j)].down
    OBVIOUS
  <2>2. down \in Seq(Frames03) /\ down # <<>>
    BY <1>1, <1>7, <2>1, Names
  <2>3. DownOf(j, down)
    BY <2>1 DEF OrderInv, DownInv
  <2>4. PICK all \in Seq(Record) : ReadList(j, all, down)
    BY <1>7, <2>3 DEF DownOf
  <2>5. /\ snd[j].count = Len(all) /\ Len(rs) < Len(all)
        /\ Starting(rs, all) /\ Batches(all, Len(rs), down)
    BY <1>3, <2>4 DEF ReadList
  <2>6. PICK batch : batch = Head(down).records
    OBVIOUS
  <2>7. Head(down).type = "CHUNK_HASHES" /\ batch = SubSeq(all, Len(rs) + 1, BatchEnd(all, Len(rs)))
    BY <1>4, <2>2, <2>5, <2>6, NextBatches
  <2>8. batch # <<>> /\ Len(rs \o batch) <= Len(all)
    BY <1>4, <2>5, <2>7, ReadsBatch
  <2>9. QED
    BY <1>3, <1>7, <2>1, <2>5, <2>6, <2>7, <2>8 DEF NextDown
<1>8. ASSUME snd[j].pc = "scan", ~ MoreChunks(j) PROVE c = Len(rs)
  <2>1. /\ c <= Len(rs)
        /\ \A n \in 1 .. Len(rs) : n <= c <=> rs[n].index < snd[j].next
    BY <1>3, <1>8 DEF OrderInv, CursorInv, CursorOf
  <2>2. ~ (snd[j].next < ChunkCount(size))
    BY <1>3, <1>8 DEF MoreChunks
  <2>3. ChunkCount(size) \in Nat
    BY <1>4, ChunksAssumption DEF ChunkCount
  <2>4. ASSUME Len(rs) # 0 PROVE Len(rs) <= c
    <3>1. Len(rs) \in 1 .. Len(rs)
      BY <1>4, <2>4
    <3>2. rs[Len(rs)].index < ChunkCount(size)
      BY <1>5, <3>1 DEF Ordered
    <3>3. rs[Len(rs)].index < snd[j].next
      BY <1>2, <1>4, <2>2, <2>3, <3>1, <3>2
    <3>4. QED
      BY <2>1, <3>1, <3>3
  <2>5. c \in Nat /\ Len(rs) \in Nat /\ c <= Len(rs)
    BY <1>4, <2>1
  <2>6. QED
    BY ONLY <2>4, <2>5
<1>9. QED
  BY <1>3, <1>6, <1>7, <1>8

(* Neither program ever meets a frame of the other that it would refuse,   *)
(* for any number of jobs, any files and any layout: the order, the range, *)
(* the offsets, the digests and the coverage that the receiver checks of   *)
(* CHUNK_START, DATA and COMPLETE, and the order and the counts that the   *)
(* sender checks of the inventory, never fail between the two, whatever    *)
(* was lost or crashed before.                                             *)
THEOREM NoFrameIsRefused == Spec => []FramesAdmissible
<1>1. Inv /\ SessionInv /\ OrderInv => FramesAdmissible
  BY AdmitsNext, AdmitsList DEF FramesAdmissible
<1>2. QED
  BY <1>1, InvHolds, SessionHolds, OrderHolds, PTL
=============================================================================
