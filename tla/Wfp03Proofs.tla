---------------------------- MODULE Wfp03Proofs ----------------------------
(***************************************************************************)
(* What holds of a WFP/0.3 transfer for any number of jobs, any contents,  *)
(* any chunk size and any number of attempts, faults and edits: the types, *)
(* and that VERIFIED is only written for the file its own job announced.   *)
(* Where a promoted file keeps no second name and only connections are     *)
(* lost, the two programs implement Delivery.                              *)
(***************************************************************************)
EXTENDS Wfp03, WireProofs, FiniteSetTheorems

-----------------------------------------------------------------------------
(* Connections *)

Ends(U, D) == [ up     : Seq(U),
                down   : Seq(D),
                sndEnd : {"open", "closed"},
                rcvEnd : {"none", "backlog", "accepted", "closed"},
                cut    : BOOLEAN ]

(* The frames waiting on each connection c are in U[c] and in D[c]. *)
Conveys(n, U, D) ==
    /\ n = [c \in Conns |-> n[c]]
    /\ \A c \in Conns : n[c] \in Ends(U[c], D[c])

LEMMA ConveysMore ==
    ASSUME NEW n, NEW U, NEW D, NEW U2, NEW D2, Conveys(n, U, D),
           \A c \in Conns : U[c] \subseteq U2[c] /\ D[c] \subseteq D2[c]
    PROVE  Conveys(n, U2, D2)
<1>1. ASSUME NEW c \in Conns
      PROVE  n[c] \in Ends(U2[c], D2[c])
  <2>1. Seq(U[c]) \subseteq Seq(U2[c]) /\ Seq(D[c]) \subseteq Seq(D2[c])
    BY SeqMonotonic
  <2>2. QED
    BY <2>1 DEF Conveys, Ends
<1>2. QED
  BY <1>1 DEF Conveys

(* A step that changes one connection. *)
LEMMA OneChanges ==
    ASSUME NEW n, NEW U, NEW D, Conveys(n, U, D), NEW c \in Conns,
           NEW k, k \in Ends(U[c], D[c]), NEW n2, n2 = [n EXCEPT ![c] = k]
    PROVE  Conveys(n2, U, D)
BY DEF Conveys

LEMMA WritesConvey ==
    ASSUME NEW n, NEW U, NEW D, Conveys(n, U, D), NEW c \in Conns
    PROVE  /\ \A m \in U[c] : Conveys(Up(n, c, m), U, D)
           /\ \A m \in D[c] : Conveys(Down(n, c, m), U, D)
           /\ \A ms \in Seq(U[c]) : Conveys(UpAll(n, c, ms), U, D)
           /\ \A ms \in Seq(D[c]) : Conveys(DownAll(n, c, ms), U, D)
<1>0. n[c] \in Ends(U[c], D[c]) /\ n[c].up \in Seq(U[c]) /\ n[c].down \in Seq(D[c])
  BY DEF Conveys, Ends
<1>1. ASSUME NEW m \in U[c]
      PROVE  Conveys(Up(n, c, m), U, D)
  <2> DEFINE k == [n[c] EXCEPT !.up = Append(@, m)]
  <2>1. k \in Ends(U[c], D[c])
    BY <1>0, AppendProperties DEF Ends
  <2>2. Up(n, c, m) = n \/ Up(n, c, m) = [n EXCEPT ![c] = k]
    BY DEF Up
  <2> HIDE DEF k
  <2>3. QED
    BY <2>1, <2>2, OneChanges
<1>2. ASSUME NEW m \in D[c]
      PROVE  Conveys(Down(n, c, m), U, D)
  <2> DEFINE k == [n[c] EXCEPT !.down = Append(@, m)]
  <2>1. k \in Ends(U[c], D[c])
    BY <1>0, AppendProperties DEF Ends
  <2>2. Down(n, c, m) = n \/ Down(n, c, m) = [n EXCEPT ![c] = k]
    BY DEF Down
  <2> HIDE DEF k
  <2>3. QED
    BY <2>1, <2>2, OneChanges
<1>3. ASSUME NEW ms \in Seq(U[c])
      PROVE  Conveys(UpAll(n, c, ms), U, D)
  <2> DEFINE k == [n[c] EXCEPT !.up = @ \o ms]
  <2>1. k \in Ends(U[c], D[c])
    BY <1>0, ConcatProperties DEF Ends
  <2>2. UpAll(n, c, ms) = n \/ UpAll(n, c, ms) = [n EXCEPT ![c] = k]
    BY DEF UpAll
  <2> HIDE DEF k
  <2>3. QED
    BY <2>1, <2>2, OneChanges
<1>4. ASSUME NEW ms \in Seq(D[c])
      PROVE  Conveys(DownAll(n, c, ms), U, D)
  <2> DEFINE k == [n[c] EXCEPT !.down = @ \o ms]
  <2>1. k \in Ends(U[c], D[c])
    BY <1>0, ConcatProperties DEF Ends
  <2>2. DownAll(n, c, ms) = n \/ DownAll(n, c, ms) = [n EXCEPT ![c] = k]
    BY DEF DownAll
  <2> HIDE DEF k
  <2>3. QED
    BY <2>1, <2>2, OneChanges
<1>5. QED
  BY <1>1, <1>2, <1>3, <1>4

LEMMA TakesConvey ==
    ASSUME NEW n, NEW U, NEW D, Conveys(n, U, D), NEW c \in Conns
    PROVE  /\ n[c].up # <<>> => Conveys(TakeUp(n, c), U, D) /\ Head(n[c].up) \in U[c]
           /\ n[c].down # <<>> => Conveys(TakeDown(n, c), U, D) /\ Head(n[c].down) \in D[c]
<1>0. n[c] \in Ends(U[c], D[c]) /\ n[c].up \in Seq(U[c]) /\ n[c].down \in Seq(D[c])
  BY DEF Conveys, Ends
<1>1. ASSUME n[c].up # <<>>
      PROVE  Conveys(TakeUp(n, c), U, D) /\ Head(n[c].up) \in U[c]
  <2> DEFINE k == [n[c] EXCEPT !.up = Tail(@)]
  <2>1. k \in Ends(U[c], D[c]) /\ Head(n[c].up) \in U[c]
    BY <1>0, <1>1, TakeFirst DEF Ends
  <2>2. TakeUp(n, c) = [n EXCEPT ![c] = k]
    BY DEF TakeUp
  <2> HIDE DEF k
  <2>3. QED
    BY <2>1, <2>2, OneChanges
<1>2. ASSUME n[c].down # <<>>
      PROVE  Conveys(TakeDown(n, c), U, D) /\ Head(n[c].down) \in D[c]
  <2> DEFINE k == [n[c] EXCEPT !.down = Tail(@)]
  <2>1. k \in Ends(U[c], D[c]) /\ Head(n[c].down) \in D[c]
    BY <1>0, <1>2, TakeFirst DEF Ends
  <2>2. TakeDown(n, c) = [n EXCEPT ![c] = k]
    BY DEF TakeDown
  <2> HIDE DEF k
  <2>3. QED
    BY <2>1, <2>2, OneChanges
<1>3. QED
  BY <1>1, <1>2

LEMMA DropsConvey ==
    ASSUME NEW n, NEW U, NEW D, Conveys(n, U, D), NEW c \in Conns
    PROVE  Conveys(DropSender(n, c), U, D) /\ Conveys(DropReceiver(n, c), U, D)
<1> DEFINE ks == [n[c] EXCEPT !.sndEnd = "closed", !.down = <<>>]
           kr == [n[c] EXCEPT !.rcvEnd = "closed", !.up = <<>>]
<1>1. \A S : <<>> \in Seq(S)
  BY EmptySeq
<1>2. n[c] \in Ends(U[c], D[c])
  BY DEF Conveys
<1>3. ks \in Ends(U[c], D[c]) /\ kr \in Ends(U[c], D[c])
  BY <1>1, <1>2 DEF Ends
<1>4. DropSender(n, c) = [n EXCEPT ![c] = ks] /\ DropReceiver(n, c) = [n EXCEPT ![c] = kr]
  BY DEF Conveys, DropSender, DropReceiver
<1> HIDE DEF ks, kr
<1>5. QED
  BY <1>3, <1>4, OneChanges

(* Frames are lost at the end of a direction. *)
LEMMA LossesConvey ==
    ASSUME NEW n, NEW U, NEW D, Conveys(n, U, D), NEW c \in Conns,
           NEW cut \in BOOLEAN,
           NEW p \in 0 .. Len(n[c].up), NEW q \in 0 .. Len(n[c].down)
    PROVE  /\ Conveys([n EXCEPT ![c].up = SubSeq(@, 1, p)], U, D)
           /\ Conveys([n EXCEPT ![c].cut = cut, ![c].up = SubSeq(@, 1, p),
                                ![c].down = SubSeq(@, 1, q)], U, D)
<1> DEFINE k1 == [n[c] EXCEPT !.up = SubSeq(@, 1, p)]
           k2 == [n[c] EXCEPT !.cut = cut, !.up = SubSeq(@, 1, p),
                              !.down = SubSeq(@, 1, q)]
<1>1. n[c] \in Ends(U[c], D[c]) /\ n[c].up \in Seq(U[c]) /\ n[c].down \in Seq(D[c])
  BY DEF Conveys, Ends
<1>2. p \in Int /\ p <= Len(n[c].up) /\ q \in Int /\ q <= Len(n[c].down)
  BY <1>1, LenProperties
<1>3. SubSeq(n[c].up, 1, p) \in Seq(U[c]) /\ SubSeq(n[c].down, 1, q) \in Seq(D[c])
  BY <1>1, <1>2, PrefixType
<1>4. k1 \in Ends(U[c], D[c]) /\ k2 \in Ends(U[c], D[c])
  BY <1>1, <1>3 DEF Ends
<1>5. /\ [n EXCEPT ![c].up = SubSeq(@, 1, p)] = [n EXCEPT ![c] = k1]
      /\ [n EXCEPT ![c].cut = cut, ![c].up = SubSeq(@, 1, p),
                   ![c].down = SubSeq(@, 1, q)] = [n EXCEPT ![c] = k2]
  BY DEF Conveys
<1> HIDE DEF k1, k2
<1>6. QED
  BY <1>4, <1>5, OneChanges

-----------------------------------------------------------------------------
(* Frames *)

LEMMA FrameFields ==
    ASSUME NEW f \in Frames03
    PROVE  /\ f.type = "OFFER" => f.size \in Nat
           /\ f.type = "RESUME" => f.count \in Nat
           /\ f.type = "CHUNK_HASHES" => f.records \in Seq(Record)
           /\ f.type = "CHUNK_START" => f.index \in Nat /\ f.hash \in Content
           /\ f.type = "DATA" => f.offset \in Nat /\ f.block \in Blocks
           /\ f.type = "COMPLETE" => f.body \in Content
BY DEF Frames03, Bare

LEMMA FramesAreFrames ==
    /\ \A type \in {"HELLO", "HELLO_ACK", "ACCEPT", "VERIFIED"} :
          Bare(type) \in Frames03 /\ Bare(type).type = type
    /\ \A fileSize \in Nat : Offer(fileSize) \in Frames03 /\ Offer(fileSize).type = "OFFER"
    /\ \A bytes \in Content : /\ Carrying("COMPLETE", bytes) \in Frames03
                              /\ Carrying("COMPLETE", bytes).type = "COMPLETE"
                              /\ Carrying("COMPLETE", bytes).body = bytes
<1>1. \A type \in {"HELLO", "HELLO_ACK", "ACCEPT", "VERIFIED"} :
          Bare(type) \in Frames03 /\ Bare(type).type = type
  BY DEF Frames03, Bare
<1>2. \A fileSize \in Nat : Offer(fileSize) \in Frames03 /\ Offer(fileSize).type = "OFFER"
  BY DEF Frames03, Offer
<1>3. \A bytes \in Content : /\ Carrying("COMPLETE", bytes) \in Frames03
                             /\ Carrying("COMPLETE", bytes).type = "COMPLETE"
                             /\ Carrying("COMPLETE", bytes).body = bytes
  BY DEF Frames03, Carrying
<1>4. QED
  BY <1>1, <1>2, <1>3

(* Where chunks begin and end. *)
LEMMA ChunkBounds ==
    ASSUME NEW i \in Nat, NEW size \in Nat
    PROVE  /\ ChunkStart(i) \in Nat
           /\ ChunkStart(i + 1) = ChunkStart(i) + ChunkSize
           /\ ChunkEnd(i, size) \in Nat
           /\ ChunkEnd(i, size) <= size
           /\ ChunkEnd(i, size) <= ChunkStart(i) + ChunkSize
BY ChunksAssumption DEF ChunkStart, ChunkEnd

LEMMA ChunkTypes ==
    ASSUME NEW file \in Content, NEW i \in Nat, NEW size \in Nat, Covers(file, i, size)
    PROVE  ChunkOf(file, i, size) \in Content
<1>1. /\ ChunkEnd(i, size) \in Nat /\ ChunkEnd(i, size) <= Len(file)
      /\ ChunkStart(i) + 1 \in Nat \ {0}
      /\ file \in Seq(Blocks) /\ Len(file) \in Nat
  <2>1. file \in Seq(Blocks) /\ Len(file) \in Nat
    BY LenProperties DEF Content
  <2>2. ChunkEnd(i, size) \in Nat /\ ChunkStart(i) \in Nat
    BY ChunkBounds
  <2>3. QED
    BY <2>1, <2>2 DEF Covers
<1>2. \A k \in ChunkStart(i) + 1 .. ChunkEnd(i, size) : file[k] \in Blocks
  BY <1>1, ElementOfSeq
<1> DEFINE s == SubSeq(file, ChunkStart(i) + 1, ChunkEnd(i, size))
<1>3. s \in Seq(Blocks)
  BY <1>1, <1>2, SubSeqProperties
<1>4. QED
  BY <1>3 DEF ChunkOf, Content

(* The frames of a chunk are CHUNK_START and DATA. *)
LEMMA ChunkFramesTypes ==
    ASSUME NEW i \in Nat, NEW chunk \in Content, NEW S,
           \A f \in Frames03 : f.type \in {"CHUNK_START", "DATA"} => f \in S
    PROVE  ChunkFrames(i, chunk) \in Seq(S)
<1> DEFINE first == [type |-> "CHUNK_START", index |-> i, hash |-> chunk]
           data == [k \in 1 .. Len(chunk) |->
                      [type |-> "DATA", offset |-> ChunkStart(i) + k - 1,
                       block |-> chunk[k]]]
<1>1. first \in S
  BY DEF Frames03
<1>2. ChunkStart(i) \in Nat /\ chunk \in Seq(Blocks) /\ Len(chunk) \in Nat
  BY ChunkBounds, LenProperties DEF Content
<1>3. ASSUME NEW k \in 1 .. Len(chunk)
      PROVE  data[k] \in S
  <2>1. chunk[k] \in Blocks /\ ChunkStart(i) + k - 1 \in Nat
    BY <1>2, ElementOfSeq
  <2>2. [type |-> "DATA", offset |-> ChunkStart(i) + k - 1, block |-> chunk[k]] \in Frames03
    BY <2>1 DEF Frames03
  <2>3. QED
    BY <2>2
<1>4. data \in Seq(S)
  BY <1>2, <1>3, IsASeq
<1>5. << first >> \in Seq(S)
  BY <1>1
<1> HIDE DEF first, data
<1>6. << first >> \o data \in Seq(S)
  BY <1>4, <1>5, ConcatProperties
<1>7. QED
  BY <1>6 DEF ChunkFrames, first, data

(* The records of a finite set, in their order, are a sequence of records, *)
(* and the frames of an inventory are RESUME and CHUNK_HASHES.             *)
LEMMA OrderTypes ==
    ASSUME NEW records \in SUBSET Record, IsFiniteSet(records),
           NEW all \in InOrder(records)
    PROVE  all \in Seq(Record) /\ Len(all) = Cardinality(records)
<1>1. Cardinality(records) \in Nat
  BY FS_CardinalityType
<1>2. all \in [1 .. Cardinality(records) -> records]
  BY DEF InOrder
<1>3. all \in Seq(Record)
  BY <1>1, <1>2, IsASeq
<1>4. QED
  BY <1>1, <1>2, <1>3, LenProperties

LEMMA BatchTypes ==
    ASSUME NEW all \in Seq(Record), NEW b \in Nat \ {0}
    PROVE  /\ b * MaxBatch \in Nat /\ (b - 1) * MaxBatch \in Nat
           /\ SubSeq(all, (b - 1) * MaxBatch + 1,
                     IF b * MaxBatch <= Len(all) THEN b * MaxBatch ELSE Len(all))
                 \in Seq(Record)
<1>1. b * MaxBatch \in Nat /\ (b - 1) * MaxBatch \in Nat
  BY ChunksAssumption
<1> DEFINE first == (b - 1) * MaxBatch + 1
           last == IF b * MaxBatch <= Len(all) THEN b * MaxBatch ELSE Len(all)
<1>2. Len(all) \in Nat /\ \A k \in 1 .. Len(all) : all[k] \in Record
  BY LenProperties, ElementOfSeq
<1>3. first \in Nat \ {0} /\ last \in Nat /\ last <= Len(all)
  BY <1>1, <1>2
<1> HIDE DEF first, last
<1>4. \A k \in first .. last : all[k] \in Record
  BY <1>2, <1>3
<1>5. SubSeq(all, first, last) \in Seq(Record)
  BY <1>3, <1>4, SubSeqProperties
<1>6. QED
  BY <1>1, <1>5 DEF first, last

LEMMA InventoryTypes ==
    ASSUME NEW all \in Seq(Record), NEW S,
           \A f \in Frames03 : f.type \in {"RESUME", "CHUNK_HASHES"} => f \in S
    PROVE  Inventory(all) \in Seq(S)
<1> DEFINE resume == [type |-> "RESUME", count |-> Len(all)]
<1>1. Len(all) \in Nat
  BY LenProperties
<1>2. resume \in S
  BY <1>1 DEF Frames03
<1>3. << resume >> \in Seq(S)
  BY <1>2
<1> DEFINE count == (Len(all) + MaxBatch - 1) \div MaxBatch
           batch(b) == [type |-> "CHUNK_HASHES",
                        records |-> SubSeq(all, (b - 1) * MaxBatch + 1,
                          IF b * MaxBatch <= Len(all) THEN b * MaxBatch ELSE Len(all))]
<1>4. count \in Nat
  BY <1>1, ChunksAssumption
<1>5. ASSUME NEW b \in 1 .. count
      PROVE  batch(b) \in S
  <2>1. b \in Nat \ {0}
    BY <1>4
  <2>2. batch(b).records \in Seq(Record)
    BY <2>1, BatchTypes
  <2>3. batch(b) \in Frames03
    BY <2>2 DEF Frames03
  <2>4. QED
    BY <2>3
<1>6. HashBatches(all) = [b \in 1 .. count |-> batch(b)]
  BY DEF HashBatches
<1> HIDE DEF resume, count, batch
<1>7. HashBatches(all) \in Seq(S)
  BY <1>4, <1>5, <1>6, IsASeq
<1>8. << resume >> \o HashBatches(all) \in Seq(S)
  BY <1>3, <1>7, ConcatProperties
<1>9. QED
  BY <1>8 DEF Inventory, resume

-----------------------------------------------------------------------------
(* The invariant, by the variables it speaks of. *)

AnnouncedAll == [c \in Conns |->
    {f \in Frames03 : f.type = "COMPLETE" => f.body \in attested[c[1]]}]
AllFrames == [c \in Conns |-> Frames03]

NetInv ==
    /\ Conveys(net, AnnouncedAll, AllFrames)
    /\ listening \in BOOLEAN
    /\ faults \in Nat

JobState == [ pc      : SenderPc,
              attempt : 1 .. MaxSendAttempts,
              size    : Nat,
              count   : Nat,
              records : Seq(Record),
              cursor  : Nat,
              next    : Nat,
              read    : Content ]

SenderInv ==
    /\ SenderTypeOK
    /\ \A j \in Jobs : snd[j].pc = "waiting" => snd[j].attempt < MaxSendAttempts

Serving == rcv.pc \notin {"down", "accept"}

(* A write is in flight only while chunks are received or such a session   *)
(* ends; there is a .part once it was opened; what is recorded is finite.  *)
StepInv ==
    /\ Serving => rcv.conn \in Conns
    /\ rcv.prior # None => rcv.pc \in {"data", "forget", "close"}
    /\ rcv.pc \in {"forget", "record"} => rcv.active # None
    /\ rcv.pc \in {"resize", "negotiate", "inventory", "data", "forget", "record",
                   "verify"} => part # None
    /\ IsFiniteSet(rcv.known)
    /\ chunks # None => IsFiniteSet(chunks.records)

(* What is claimed on the way to VERIFIED.                                 *)
CommitInv ==
    /\ rcv.pc \in {"verify", "publish"} => rcv.claim \in attested[Job]
    /\ At("publish") => part = rcv.claim
    /\ At("link") => Receipt # None /\ part = Receipt
    /\ rcv.pc \in {"promoted", "cleanup", "verified"} => Receipt # None /\ final = Receipt

ReceiverInv == ReceiverTypeOK /\ StepInv /\ CommitInv

(* A receipt stands for contents its own job announced. *)
ReceiptAttested == \A j \in Jobs : receipt[j] # None => receipt[j] \in attested[j]

Inv == NetInv /\ SenderInv /\ ReceiverInv /\ ReceiptAttested

-----------------------------------------------------------------------------
(* The sender *)

LEMMA JobHas ==
    ASSUME SenderInv, NEW j \in Jobs
    PROVE  /\ snd[j] \in JobState
           /\ snd \in [Jobs -> JobState]
           /\ Conn(j) \in Conns /\ Conn(j)[1] = j
           /\ src[j] \in Content
           /\ Len(src[j]) \in Nat
<1>1. src[j] \in Content /\ Len(src[j]) \in Nat
  BY SenderAssumption, LenProperties DEF SenderInv, SenderTypeOK, Content
<1>2. QED
  BY <1>1 DEF SenderInv, SenderTypeOK, JobState, Conn, Conns

(* What a job can append to what its connection carries.                   *)
LEMMA SenderWrites ==
    ASSUME SenderInv, NEW j \in Jobs, SenderRuns(j) \/ SenderDisturbed(j),
           NEW U, NEW D, Conveys(net, U, D),
           \A f \in Frames03 :
              f.type \in {"HELLO", "OFFER", "ACCEPT", "CHUNK_START", "DATA"}
                 => f \in U[Conn(j)],
           SendComplete(j) => Carrying("COMPLETE", snd[j].read) \in U[Conn(j)]
    PROVE  Conveys(net', U, D)
<1> DEFINE c == Conn(j)
<1>0. c \in Conns /\ snd[j] \in JobState /\ src[j] \in Content
  BY JobHas
<1>1. Bare("HELLO") \in U[c] /\ Bare("ACCEPT") \in U[c]
  BY FramesAreFrames
<1>2. CASE Start(j) \/ ConnectRefused(j) \/ Retry(j) \/ EditSource(j)
  BY <1>2 DEF Start, ConnectRefused, Retry, EditSource, wireVars
<1>3. CASE Connect(j)
  <2>1. \A S : <<>> \in Seq(S) /\ \A m \in S : << m >> \in Seq(S)
    BY EmptySeq
  <2>2. Opened \in Ends(U[c], D[c])
    BY <1>1, <2>1 DEF Opened, Ends
  <2>3. net' = [net EXCEPT ![c] = Opened]
    BY <1>3 DEF Connect
  <2> HIDE DEF c
  <2>4. QED
    BY <1>0, <2>2, <2>3, OneChanges
<1>4. CASE SendOffer(j)
  <2> DEFINE m == Offer(snd[j].size)
  <2>1. m \in U[c]
    BY <1>0, FramesAreFrames DEF JobState
  <2>2. net' = Up(TakeDown(net, c), c, m) /\ net[c].down # <<>>
    BY <1>4 DEF SendOffer, Reads, NextDown
  <2> HIDE DEF c, m
  <2>3. Conveys(TakeDown(net, c), U, D)
    BY <1>0, <2>2, TakesConvey
  <2>4. QED
    BY <1>0, <2>1, <2>2, <2>3, WritesConvey
<1>5. CASE VerifiedAtOnce(j) \/ Verified(j) \/ SourceTooShort(j) \/ SourceTooLong(j)
           \/ LoseReceiver(j)
  <2>1. net' = DropSender(net, c)
    BY <1>5 DEF VerifiedAtOnce, Verified, SourceTooShort, SourceTooLong, LoseReceiver,
                Leave
  <2>2. QED
    BY <1>0, <2>1, DropsConvey
<1>6. CASE ReadResume(j) \/ ReadChunkHashes(j)
  <2>1. /\ net[c].down # <<>>
        /\ \/ net' = Up(TakeDown(net, c), c, Bare("ACCEPT"))
           \/ net' = TakeDown(net, c)
    BY <1>6 DEF ReadResume, ReadChunkHashes, Reads, NextDown, Inventoried
  <2> HIDE DEF c
  <2>2. Conveys(TakeDown(net, c), U, D)
    BY <1>0, <2>1, TakesConvey
  <2>3. QED
    BY <1>0, <1>1, <2>1, <2>2, WritesConvey
<1>7. CASE ScanChunk(j)
  <2> DEFINE chunk == ChunkOf(src[j], snd[j].next, snd[j].size)
             ms == ChunkFrames(snd[j].next, chunk)
  <2>1. chunk \in Content
    BY <1>0, <1>7, ChunkTypes DEF ScanChunk, JobState
  <2>2. snd[j].next \in Nat
    BY <1>0 DEF JobState
  <2>3. net' = net \/ net' = UpAll(net, c, ms)
    BY <1>7 DEF ScanChunk
  <2> HIDE DEF chunk
  <2>4. ms \in Seq(U[c])
    BY <2>1, <2>2, ChunkFramesTypes
  <2> HIDE DEF c, ms
  <2>5. QED
    BY <1>0, <2>3, <2>4, WritesConvey
<1>8. CASE SendComplete(j)
  <2> DEFINE m == Carrying("COMPLETE", snd[j].read)
  <2>1. net' = Up(net, c, m) /\ m \in U[c]
    BY <1>8 DEF SendComplete
  <2> HIDE DEF c, m
  <2>2. QED
    BY <1>0, <2>1, WritesConvey
<1>9. CASE Abort(j)
  <2>1. PICK p \in 0 .. Len(net[c].up) :
          net' = DropSender([net EXCEPT ![c].up = SubSeq(@, 1, p)], c)
    BY <1>9 DEF Abort
  <2> DEFINE n == [net EXCEPT ![c].up = SubSeq(@, 1, p)]
  <2>2. net[c].down \in Seq(D[c])
    BY <1>0 DEF Conveys, Ends
  <2>3. 0 \in 0 .. Len(net[c].down)
    BY <2>2, LenProperties
  <2>4. net' = DropSender(n, c)
    BY <2>1
  <2> HIDE DEF c
  <2>5. Conveys(n, U, D)
    BY <1>0, <2>3, LossesConvey
  <2> HIDE DEF n
  <2>6. QED
    BY <1>0, <2>4, <2>5, DropsConvey
<1>10. QED
  BY <1>2, <1>3, <1>4, <1>5, <1>6, <1>7, <1>8, <1>9 DEF SenderRuns, SenderDisturbed

(* A step of a job changes that job alone. *)
LEMMA JobMoves ==
    ASSUME SenderInv, NEW j \in Jobs, NEW r, r \in JobState,
           snd' = [snd EXCEPT ![j] = r],
           r.pc = "waiting" => r.attempt < MaxSendAttempts,
           UNCHANGED <<src, edits, attested>>
    PROVE  SenderInv'
<1>1. snd' \in [Jobs -> JobState]
  BY JobHas
<1>2. SenderTypeOK'
  BY <1>1 DEF SenderInv, SenderTypeOK, JobState
<1>3. ASSUME NEW i \in Jobs, snd'[i].pc = "waiting"
      PROVE  snd'[i].attempt < MaxSendAttempts
  BY <1>3, JobHas DEF SenderInv
<1>4. QED
  BY <1>2, <1>3 DEF SenderInv

LEMMA SenderSteps ==
    ASSUME SenderInv, NetInv, NEW j \in Jobs, SenderRuns(j) \/ SenderDisturbed(j)
    PROVE  SenderInv' /\ \A i \in Jobs : attested[i] \subseteq attested'[i]
<1> USE JobHas
<1>1. ASSUME NEW pc \in SenderPc, Goto(j, pc), UNCHANGED <<src, edits, attested>>,
             pc = "waiting" => snd[j].attempt < MaxSendAttempts
      PROVE  SenderInv'
  <2> DEFINE r == [snd[j] EXCEPT !.pc = pc]
  <2>1. r \in JobState /\ r.pc = pc /\ r.attempt = snd[j].attempt
    BY DEF JobState
  <2>2. snd' = [snd EXCEPT ![j] = r]
    BY <1>1 DEF Goto
  <2> HIDE DEF r
  <2>3. QED
    BY <1>1, <2>1, <2>2, JobMoves
<1>2. CASE \/ Start(j) \/ ConnectRefused(j) \/ SendOffer(j) \/ VerifiedAtOnce(j)
           \/ Verified(j) \/ SourceTooShort(j) \/ SourceTooLong(j) \/ Abort(j)
           \/ LoseReceiver(j)
  <2>1. AfterLoss(j) \in SenderPc
        /\ (AfterLoss(j) = "waiting" => snd[j].attempt < MaxSendAttempts)
    BY DEF AfterLoss, SenderPc, Ended
  <2>2. \A pc \in {"connect", "offered", "done", "failed"} : pc \in SenderPc /\ pc # "waiting"
    BY DEF SenderPc, Reading, Ended
  <2>3. /\ \/ Goto(j, AfterLoss(j))
           \/ \E pc \in {"connect", "offered", "done", "failed"} : Goto(j, pc)
        /\ UNCHANGED <<src, edits, attested>>
    BY <1>2 DEF Start, ConnectRefused, SendOffer, VerifiedAtOnce, Verified, SourceTooShort,
                SourceTooLong, Abort, LoseReceiver, Leave
  <2>4. QED
    BY <1>1, <2>1, <2>2, <2>3
<1>3. CASE Connect(j)
  <2> DEFINE r == [snd[j] EXCEPT !.pc = "hello", !.size = Len(src[j]), !.records = <<>>,
                                 !.cursor = 0, !.next = 0, !.read = <<>>]
  <2>1. <<>> \in Seq(Record) /\ <<>> \in Content
    BY EmptySeq DEF Content
  <2>2. r \in JobState /\ r.pc = "hello"
    BY <2>1 DEF JobState, SenderPc, Reading
  <2>3. snd' = [snd EXCEPT ![j] = r] /\ UNCHANGED <<src, edits, attested>>
    BY <1>3 DEF Connect
  <2> HIDE DEF r
  <2>4. SenderInv'
    BY <2>2, <2>3, JobMoves
  <2>5. QED
    BY <2>3, <2>4
<1>4. ASSUME NEW count \in Nat, NEW records \in Seq(Record), Inventoried(j, count, records),
             UNCHANGED <<src, edits, attested>>
      PROVE  SenderInv'
  <2> DEFINE r == [snd[j] EXCEPT !.pc = IF Len(records) = count THEN "scan" ELSE "inventory",
                                 !.count = count, !.records = records]
  <2>1. r \in JobState /\ r.pc # "waiting"
    BY DEF JobState, SenderPc, Reading
  <2>2. snd' = [snd EXCEPT ![j] = r]
    BY <1>4 DEF Inventoried
  <2> HIDE DEF r
  <2>3. QED
    BY <1>4, <2>1, <2>2, JobMoves
<1>5. CASE ReadResume(j) \/ ReadChunkHashes(j)
  <2> DEFINE f == Head(net[Conn(j)].down)
  <2>1. net[Conn(j)].down # <<>> /\ UNCHANGED <<src, edits, attested>>
    BY <1>5 DEF ReadResume, ReadChunkHashes, Reads, NextDown
  <2>2. f \in Frames03
    BY <2>1, TakesConvey DEF NetInv, AllFrames
  <2>3. CASE ReadResume(j)
    <3>1. f.type = "RESUME" /\ Inventoried(j, f.count, <<>>)
      BY <2>3 DEF ReadResume, Reads, NextDown
    <3>2. f.count \in Nat /\ <<>> \in Seq(Record)
      BY <2>2, <3>1, FrameFields, EmptySeq
    <3> HIDE DEF f
    <3>3. QED
      BY <1>4, <2>1, <3>1, <3>2
  <2>4. CASE ReadChunkHashes(j)
    <3>1. f.type = "CHUNK_HASHES" /\ Inventoried(j, snd[j].count, snd[j].records \o f.records)
      BY <2>4 DEF ReadChunkHashes, Reads, NextDown
    <3>2. f.records \in Seq(Record)
      BY <2>2, <3>1, FrameFields
    <3> HIDE DEF f
    <3>3. snd[j].count \in Nat /\ snd[j].records \o f.records \in Seq(Record)
      BY <3>2, ConcatProperties DEF JobState
    <3>4. QED
      BY <1>4, <2>1, <3>1, <3>3
  <2>5. QED
    BY <1>5, <2>1, <2>3, <2>4
<1>6. CASE ScanChunk(j)
  <2> DEFINE chunk == ChunkOf(src[j], snd[j].next, snd[j].size)
             moved == IF AtRecord(j) THEN snd[j].cursor + 1 ELSE snd[j].cursor
             r == [snd[j] EXCEPT !.next = @ + 1, !.read = @ \o chunk, !.cursor = moved]
  <2>1. chunk \in Content
    BY <1>6, ChunkTypes DEF ScanChunk, JobState
  <2>2. snd' = [snd EXCEPT ![j] = r] /\ UNCHANGED <<src, edits, attested>>
    BY <1>6 DEF ScanChunk
  <2>3. r.pc = "scan"
    BY <1>6 DEF ScanChunk, Scanning, JobState
  <2>4. moved \in Nat
    BY DEF JobState
  <2> HIDE DEF chunk, moved
  <2>5. snd[j].read \o chunk \in Content
    BY <2>1, ConcatProperties DEF JobState, Content
  <2>6. snd[j] \in JobState /\ snd[j].next + 1 \in Nat
    BY DEF JobState
  <2>7. r = [snd[j] EXCEPT !.next = snd[j].next + 1, !.read = snd[j].read \o chunk,
                           !.cursor = moved]
    OBVIOUS
  <2>8. r \in JobState
    BY ONLY <2>4, <2>5, <2>6, <2>7 DEF JobState
  <2> HIDE DEF r
  <2>9. SenderInv'
    BY <2>2, <2>3, <2>8, JobMoves
  <2>10. QED
    BY <2>2, <2>9
<1>7. CASE SendComplete(j)
  <2>1. snd[j].read \in Content /\ snd' = [snd EXCEPT ![j].pc = "complete"]
        /\ attested' = [attested EXCEPT ![j] = @ \cup {snd[j].read}]
        /\ UNCHANGED <<src, edits>>
    BY <1>7 DEF SendComplete, Goto, JobState
  <2> DEFINE r == [snd[j] EXCEPT !.pc = "complete"]
  <2>2. r \in JobState /\ r.pc = "complete" /\ snd' = [snd EXCEPT ![j] = r]
    BY <2>1 DEF JobState, SenderPc, Reading
  <2> HIDE DEF r
  <2>3. snd' \in [Jobs -> JobState]
    BY <2>2
  <2>4. attested' \in [Jobs -> SUBSET Content]
    BY <2>1 DEF SenderInv, SenderTypeOK
  <2>5. SenderTypeOK'
    BY <2>1, <2>3, <2>4 DEF SenderInv, SenderTypeOK, JobState
  <2>6. SenderInv'
    BY <2>2, <2>5 DEF SenderInv
  <2>7. QED
    BY <2>1, <2>6 DEF SenderInv, SenderTypeOK
<1>8. CASE Retry(j)
  <2> DEFINE r == [snd[j] EXCEPT !.pc = "connect", !.attempt = @ + 1]
  <2>1. snd[j].attempt < MaxSendAttempts /\ snd' = [snd EXCEPT ![j] = r]
        /\ UNCHANGED <<src, edits, attested>>
    BY <1>8 DEF Retry, SenderInv
  <2>2. r \in JobState /\ r.pc = "connect"
    <3>1. snd[j] \in JobState /\ snd[j].attempt + 1 \in 1 .. MaxSendAttempts
      BY <2>1, WireAssumption DEF JobState
    <3>2. QED
      BY ONLY <3>1 DEF JobState, SenderPc
  <2> HIDE DEF r
  <2>3. QED
    BY <2>1, <2>2, JobMoves
<1>9. CASE EditSource(j)
  BY <1>9 DEF EditSource, SenderInv, SenderTypeOK
<1>10. QED
  <2>1. CASE \/ Start(j) \/ ConnectRefused(j) \/ SendOffer(j) \/ VerifiedAtOnce(j)
             \/ Verified(j) \/ SourceTooShort(j) \/ SourceTooLong(j) \/ Abort(j)
             \/ LoseReceiver(j)
    <3>1. attested' = attested
      BY <2>1 DEF Start, ConnectRefused, SendOffer, VerifiedAtOnce, Verified,
                  SourceTooShort, SourceTooLong, Abort, LoseReceiver
    <3>2. QED
      BY <1>2, <2>1, <3>1
  <2>2. QED
    BY <1>3, <1>5, <1>6, <1>7, <1>8, <1>9, <2>1 DEF SenderRuns, SenderDisturbed

-----------------------------------------------------------------------------
(* The receiver *)

ReceiverMoves == ReceiverRuns \/ ReceiverDisturbed \/ Restart

(* The steps that leave every connection as it is. *)
LEMMA QuietSteps ==
    ASSUME \/ ReceiptConflicts \/ FinalReconciled \/ PartReconciled \/ NotReconciled
           \/ LoadInventory \/ OpenPart \/ ResizePart \/ ForgetChunks \/ RecordChunk
           \/ VerifyFile \/ PublishReceipt \/ Link \/ Promoted \/ CleanUp \/ LoseSender
           \/ StorageFails \/ Restart
    PROVE  net' = net
BY DEF ReceiptConflicts, FinalReconciled, PartReconciled, NotReconciled, LoadInventory,
       OpenPart, ResizePart, ForgetChunks, RecordChunk, VerifyFile, PublishReceipt, Link,
       Promoted, CleanUp, LoseSender, StorageFails, Restart, wireVars

(* What the receiver can append to what the connections carry. *)
LEMMA ReceiverWrites ==
    ASSUME ReceiverTypeOK, StepInv, ReceiverMoves,
           NEW U, NEW D, Conveys(net, U, D),
           rcv.conn \in Conns =>
              \A f \in Frames03 : f.type \in {"HELLO_ACK", "RESUME", "CHUNK_HASHES"}
                                     => f \in D[rcv.conn],
           At("verified") => Bare("VERIFIED") \in D[rcv.conn]
    PROVE  Conveys(net', U, D)
<1> DEFINE c == rcv.conn
<1>0. Serving => c \in Conns
  BY DEF StepInv
<1>1. CASE \/ ReceiptConflicts \/ FinalReconciled \/ PartReconciled \/ NotReconciled
           \/ LoadInventory \/ OpenPart \/ ResizePart \/ ForgetChunks \/ RecordChunk
           \/ VerifyFile \/ PublishReceipt \/ Link \/ Promoted \/ CleanUp \/ LoseSender
           \/ StorageFails \/ Restart
  BY <1>1, QuietSteps
<1>2. ASSUME NEW d \in Conns, Accept(d)
      PROVE  Conveys(net', U, D)
  <2> DEFINE k == [net[d] EXCEPT !.rcvEnd = "accepted"]
  <2>1. k \in Ends(U[d], D[d])
    BY DEF Conveys, Ends
  <2>2. net' = [net EXCEPT ![d] = k]
    BY <1>2 DEF Accept
  <2> HIDE DEF k
  <2>3. QED
    BY <2>1, <2>2, OneChanges
<1>3. CASE AnswerHello
  <2>1. c \in Conns /\ net[c].up # <<>>
        /\ net' = Down(TakeUp(net, c), c, Bare("HELLO_ACK"))
    BY <1>0, <1>3 DEF AnswerHello, Gets, At, NextUp, Serving
  <2>2. Bare("HELLO_ACK") \in D[c]
    BY <2>1, FramesAreFrames
  <2> HIDE DEF c
  <2>3. Conveys(TakeUp(net, c), U, D)
    BY <2>1, TakesConvey
  <2>4. QED
    BY <2>1, <2>2, <2>3, WritesConvey
<1>4. CASE ReadOffer \/ InventoryAccepted \/ ReadChunkStart \/ ReadData \/ ReadComplete
  <2>1. c \in Conns /\ net[c].up # <<>> /\ net' = TakeUp(net, c)
    BY <1>0, <1>4 DEF ReadOffer, InventoryAccepted, ReadChunkStart, ReadData, ReadComplete,
                      Gets, At, NextUp, TakeFrame, Serving
  <2> HIDE DEF c
  <2>2. QED
    BY <2>1, TakesConvey
<1>5. CASE SendInventory
  <2>1. PICK all \in InOrder(rcv.known) : net' = DownAll(net, c, Inventory(all))
    BY <1>5 DEF SendInventory
  <2>2. c \in Conns
    BY <1>0, <1>5 DEF SendInventory, At, Serving
  <2>3. all \in Seq(Record)
    BY OrderTypes DEF ReceiverTypeOK, StepInv
  <2>4. Inventory(all) \in Seq(D[c])
    BY <2>2, <2>3, InventoryTypes
  <2> HIDE DEF c
  <2>5. QED
    BY <2>1, <2>2, <2>4, WritesConvey
<1>6. CASE SendVerified \/ Close
  <2>1. c \in Conns
    BY <1>0, <1>6 DEF SendVerified, Close, At, Serving
  <2>2. \E n : Conveys(n, U, D) /\ net' = DropReceiver(n, c)
    <3>1. CASE SendVerified
      <4>1. Bare("VERIFIED") \in D[c]
            /\ net' = DropReceiver(Down(net, c, Bare("VERIFIED")), c)
        BY <3>1 DEF SendVerified, Finish
      <4> HIDE DEF c
      <4>2. QED
        BY <2>1, <4>1, WritesConvey
    <3>2. CASE Close
      BY <3>2 DEF Close, Finish
    <3>3. QED
      BY <1>6, <3>1, <3>2
  <2> HIDE DEF c
  <2>3. QED
    BY <2>1, <2>2, DropsConvey
<1>7. CASE Crash
  <2>1. PICK arrives \in BOOLEAN :
          net' = [d \in Conns |->
                    IF net[d].rcvEnd \in {"backlog", "accepted"}
                    THEN [net[d] EXCEPT !.rcvEnd = "closed", !.up = <<>>,
                                        !.down = IF arrives THEN @ ELSE <<>>]
                    ELSE net[d]]
    BY <1>7 DEF Crash
  <2>2. \A S : <<>> \in Seq(S)
    BY EmptySeq
  <2>3. ASSUME NEW d \in Conns
        PROVE  net'[d] \in Ends(U[d], D[d])
    <3>1. net[d] \in Ends(U[d], D[d])
      BY DEF Conveys
    <3>2. CASE arrives
      BY <2>1, <2>2, <3>1, <3>2 DEF Ends
    <3>3. CASE ~ arrives
      BY <2>1, <2>2, <3>1, <3>3 DEF Ends
    <3>4. QED
      BY <3>2, <3>3
  <2>4. QED
    BY <2>1, <2>3 DEF Conveys
<1>8. QED
  BY <1>1, <1>2, <1>3, <1>4, <1>5, <1>6, <1>7
     DEF ReceiverMoves, ReceiverRuns, ReceiverDisturbed

(* What the receiver finds in the frame it takes. *)
LEMMA FrameIsTyped ==
    ASSUME ReceiverInv, NetInv, Serving, net[rcv.conn].up # <<>>
    PROVE  /\ rcv.conn \in Conns /\ Job \in Jobs
           /\ Frame \in Frames03
           /\ Frame.type = "COMPLETE" => Frame.body \in attested[Job]
<1>1. rcv.conn \in Conns /\ Job \in Jobs
  BY DEF ReceiverInv, StepInv, Job, Conns
<1>2. Frame \in AnnouncedAll[rcv.conn]
  BY <1>1, TakesConvey DEF NetInv, Frame
<1>3. QED
  BY <1>1, <1>2 DEF AnnouncedAll, Job

(* The steps that only decide what comes next. *)
LEMMA DecidingSteps ==
    ASSUME ReceiverInv, UNCHANGED senderVars,
           \/ ReceiptConflicts \/ FinalReconciled \/ PartReconciled \/ NotReconciled
           \/ VerifyFile \/ LoseSender \/ AnswerHello \/ SendInventory \/ InventoryAccepted
    PROVE  ReceiverInv' /\ receipt' = receipt
<1>1. UNCHANGED disk
  BY DEF ReceiptConflicts, FinalReconciled, PartReconciled, NotReconciled, VerifyFile,
         LoseSender, AnswerHello, SendInventory, InventoryAccepted
<1>2. PICK pc \in ReceiverPc : rcv' = [rcv EXCEPT !.pc = pc]
  BY DEF ReceiptConflicts, FinalReconciled, PartReconciled, NotReconciled, VerifyFile,
         LoseSender, AnswerHello, SendInventory, InventoryAccepted, Step, ReceiverPc,
         Waiting, Working
<1>3. ReceiverTypeOK'
  BY <1>1, <1>2 DEF ReceiverInv, ReceiverTypeOK, disk
<1>4. /\ Serving /\ rcv.prior # None => pc \in {"data", "forget", "close"}
      /\ pc \notin {"forget", "record", "resize"}
      /\ pc \in {"negotiate", "inventory", "data", "verify"} => part # None
  BY <1>2 DEF ReceiptConflicts, FinalReconciled, PartReconciled, NotReconciled, VerifyFile,
         LoseSender, AnswerHello, SendInventory, InventoryAccepted, Step, ReceiverInv,
         ReceiverTypeOK, StepInv, Gets, At, Serving, Waiting
<1>5. Serving
  BY DEF ReceiptConflicts, FinalReconciled, PartReconciled, NotReconciled, VerifyFile,
         LoseSender, AnswerHello, SendInventory, InventoryAccepted, Gets, At, Serving,
         Waiting
<1>6. rcv' \in [pc : {pc}, conn : {rcv.conn}, size : {rcv.size}, known : {rcv.known},
                from : {rcv.from}, active : {rcv.active}, got : {rcv.got},
                claim : {rcv.claim}, prior : {rcv.prior}]
  BY <1>2 DEF ReceiverInv, ReceiverTypeOK
<1>7. StepInv'
  BY <1>1, <1>4, <1>5, <1>6 DEF ReceiverInv, StepInv, Serving, disk
<1>8. Job' = Job /\ Receipt' = Receipt /\ attested' = attested
  BY <1>1, <1>6 DEF Job, Receipt, disk, senderVars
<1>9. CommitInv'
  <2>1. /\ pc \notin {"verify", "promoted", "cleanup"}
        /\ pc = "publish" => At("verify") /\ part = rcv.claim
        /\ pc = "link" => Receipt # None /\ part = Receipt
        /\ pc = "verified" => Receipt # None /\ final = Receipt
    BY <1>2 DEF ReceiptConflicts, FinalReconciled, PartReconciled, NotReconciled,
         VerifyFile, LoseSender, AnswerHello, SendInventory, InventoryAccepted, Step,
         ReceiverInv, ReceiverTypeOK, VouchesFor
  <2>2. QED
    BY <1>1, <1>6, <1>8, <2>1 DEF ReceiverInv, CommitInv, At, disk
<1>10. QED
  BY <1>1, <1>3, <1>7, <1>9 DEF ReceiverInv, disk

(* The steps before the first chunk. *)
LEMMA OpeningSteps ==
    ASSUME ReceiverInv, NetInv, UNCHANGED senderVars,
           \/ \E c \in Conns : Accept(c)
           \/ ReadOffer \/ LoadInventory \/ OpenPart \/ ResizePart
    PROVE  ReceiverInv' /\ receipt' = receipt
<1> USE DEF ReceiverInv, StepInv, CommitInv, At, Serving
<1>1. CASE \E c \in Conns : Accept(c)
  <2>1. PICK c \in Conns : Accept(c)
    BY <1>1
  <2>2. UNCHANGED disk /\ rcv' = [Idle EXCEPT !.pc = "hello", !.conn = c]
    BY <2>1 DEF Accept
  <2>3. <<>> \in Content /\ IsFiniteSet({})
    BY EmptySeq, FS_EmptySet DEF Content
  <2>4. ReceiverTypeOK'
    BY <2>2, <2>3 DEF ReceiverTypeOK, ReceiverPc, Waiting, Idle, disk
  <2>5. rcv'.pc = "hello" /\ rcv'.conn = c /\ rcv'.prior = None /\ rcv'.known = {}
    BY <2>2 DEF Idle
  <2>6. QED
    BY <2>2, <2>3, <2>4, <2>5 DEF disk
<1>2. CASE ReadOffer
  <2>1. At("offer") /\ net[rcv.conn].up # <<>> /\ Frame.type = "OFFER"
    BY <1>2 DEF ReadOffer, Gets, NextUp, Frame
  <2>2. Frame.size \in Nat
    BY <2>1, FrameIsTyped, FrameFields
  <2>3. UNCHANGED disk /\ rcv' = [rcv EXCEPT !.pc = "reconcile", !.size = Frame.size]
    BY <1>2 DEF ReadOffer
  <2>4. ReceiverTypeOK'
    BY <2>2, <2>3 DEF ReceiverTypeOK, ReceiverPc, Working, disk
  <2>5. rcv'.pc = "reconcile" /\ rcv'.conn = rcv.conn /\ rcv'.prior = rcv.prior
        /\ rcv'.known = rcv.known
    BY <2>3 DEF ReceiverTypeOK
  <2>6. QED
    BY <2>1, <2>3, <2>4, <2>5 DEF disk
<1>3. CASE LoadInventory
  <2>1. /\ UNCHANGED disk
        /\ \E known : /\ rcv' = [rcv EXCEPT !.pc = "open", !.known = known]
                      /\ \/ known = {}
                         \/ chunks # None /\ known = StillHolds(chunks.records)
    BY <1>3 DEF LoadInventory
  <2>2. PICK known : /\ rcv' = [rcv EXCEPT !.pc = "open", !.known = known]
                     /\ \/ known = {}
                        \/ chunks # None /\ known = StillHolds(chunks.records)
    BY <2>1
  <2>3. known \in SUBSET Record /\ IsFiniteSet(known)
    <3>1. CASE known = {}
      BY <3>1, FS_EmptySet
    <3>2. CASE chunks # None /\ known = StillHolds(chunks.records)
      <4>1. known \subseteq chunks.records
        BY <3>2 DEF StillHolds
      <4>2. QED
        BY <3>2, <4>1, FS_Subset DEF ReceiverTypeOK
    <3>3. QED
      BY <2>2, <3>1, <3>2
  <2>4. ReceiverTypeOK'
    BY <2>1, <2>2, <2>3 DEF ReceiverTypeOK, ReceiverPc, Working, disk
  <2>5. rcv'.pc = "open" /\ rcv'.conn = rcv.conn /\ rcv'.prior = rcv.prior
        /\ rcv'.known = known
    BY <2>2 DEF ReceiverTypeOK
  <2>6. At("prepare")
    BY <1>3 DEF LoadInventory
  <2>7. QED
    BY <2>1, <2>3, <2>4, <2>5, <2>6 DEF disk
<1>4. CASE OpenPart
  <2>1. /\ At("open") /\ UNCHANGED <<chunks, final, linked, receipt>>
        /\ part' = IF part = None THEN <<>> ELSE part
        /\ \E pc \in {"negotiate", "resize"} : rcv' = [rcv EXCEPT !.pc = pc]
    BY <1>4 DEF OpenPart, Step
  <2>2. <<>> \in Content /\ None \notin Content
    BY EmptySeq, WireAssumption DEF Content
  <2>3. part' \in Content /\ part' # None
    BY <2>1, <2>2 DEF ReceiverTypeOK
  <2>4. ReceiverTypeOK'
    BY <2>1, <2>3 DEF ReceiverTypeOK, ReceiverPc, Working
  <2>5. rcv'.pc \in {"negotiate", "resize"} /\ rcv'.conn = rcv.conn
        /\ rcv'.prior = rcv.prior /\ rcv'.known = rcv.known
    BY <2>1 DEF ReceiverTypeOK
  <2>6. QED
    BY <2>1, <2>3, <2>4, <2>5
<1>5. CASE ResizePart
  <2> DEFINE bytes == [k \in 1 .. rcv.size |-> IF k <= Len(part) THEN part[k] ELSE Zero]
  <2>1. /\ At("resize") /\ UNCHANGED <<chunks, linked, receipt>>
        /\ part' = bytes /\ final' \in {bytes, final}
        /\ rcv' = [rcv EXCEPT !.pc = "negotiate"]
    BY <1>5 DEF ResizePart, WritePart, Step
  <2>2. part \in Content /\ rcv.size \in Nat /\ Len(part) \in Nat
    BY <2>1, LenProperties DEF ReceiverTypeOK, Content
  <2>3. \A k \in 1 .. rcv.size : (IF k <= Len(part) THEN part[k] ELSE Zero) \in Blocks
    BY <2>2, ElementOfSeq, ChunksAssumption DEF Content
  <2>4. bytes \in Seq(Blocks)
    BY <2>2, <2>3, IsASeq
  <2>5. bytes \in Content /\ bytes # None
    BY <2>4, WireAssumption DEF Content
  <2> HIDE DEF bytes
  <2>6. ReceiverTypeOK'
    BY <2>1, <2>5 DEF ReceiverTypeOK, ReceiverPc, Working
  <2>7. rcv'.pc = "negotiate" /\ rcv'.conn = rcv.conn
        /\ rcv'.prior = rcv.prior /\ rcv'.known = rcv.known
    BY <2>1 DEF ReceiverTypeOK
  <2>8. QED
    BY <2>1, <2>5, <2>6, <2>7
<1>6. QED
  BY <1>1, <1>2, <1>3, <1>4, <1>5

(* The steps of receiving chunks. *)
LEMMA ChunkSteps ==
    ASSUME ReceiverInv, NetInv, UNCHANGED senderVars,
           ReadChunkStart \/ ReadData \/ ForgetChunks \/ RecordChunk \/ ReadComplete
    PROVE  ReceiverInv' /\ receipt' = receipt
<1> USE DEF ReceiverInv, StepInv, CommitInv, At, Serving
<1>1. CASE ReadChunkStart
  <2>1. At("data") /\ net[rcv.conn].up # <<>> /\ Frame.type = "CHUNK_START"
    BY <1>1 DEF ReadChunkStart, Gets, NextUp, Frame
  <2>2. Frame.index \in Nat /\ Frame.hash \in Content
    BY <2>1, FrameIsTyped, FrameFields
  <2> DEFINE record == [index |-> Frame.index, hash |-> Frame.hash]
  <2>3. /\ UNCHANGED disk
        /\ rcv' = [rcv EXCEPT !.active = record, !.got = <<>>, !.from = Frame.index + 1]
    BY <1>1 DEF ReadChunkStart
  <2>4. record \in Record /\ <<>> \in Content /\ Frame.index + 1 \in Nat
    BY <2>2, EmptySeq DEF Record, Content
  <2> HIDE DEF record
  <2>5. ReceiverTypeOK'
    BY <2>3, <2>4 DEF ReceiverTypeOK, disk
  <2>6. rcv'.pc = rcv.pc /\ rcv'.conn = rcv.conn /\ rcv'.prior = rcv.prior
        /\ rcv'.known = rcv.known
    BY <2>3 DEF ReceiverTypeOK
  <2>7. QED
    BY <2>1, <2>3, <2>5, <2>6 DEF disk
<1>2. CASE ReadData
  <2>1. At("data") /\ net[rcv.conn].up # <<>> /\ Frame.type = "DATA" /\ rcv.active # None
    BY <1>2 DEF ReadData, Gets, NextUp, Frame, Continues
  <2>2. Frame.offset \in Nat /\ Frame.block \in Blocks
    BY <2>1, FrameIsTyped, FrameFields
  <2> DEFINE bytes == [part EXCEPT ![Frame.offset + 1] = Frame.block]
             got == Append(rcv.got, Frame.block)
             pc == IF EndsChunk THEN "forget" ELSE "data"
  <2>3. /\ UNCHANGED <<chunks, linked, receipt>>
        /\ part' = bytes /\ final' \in {bytes, final}
        /\ rcv' = [rcv EXCEPT !.pc = pc, !.got = got, !.prior = part]
    BY <1>2 DEF ReadData, WritePart
  <2>4. part \in Seq(Blocks) /\ part \in Content
    BY <2>1 DEF ReceiverTypeOK, Content
  <2>5. bytes \in Content /\ bytes # None
    <3>1. Len(part) \in Nat /\ part \in [1 .. Len(part) -> Blocks]
      BY <2>4, LenProperties
    <3>2. bytes \in [1 .. Len(part) -> Blocks]
      BY <2>2, <3>1
    <3>3. bytes \in Seq(Blocks)
      BY <3>1, <3>2
    <3>4. QED
      BY <3>3, WireAssumption DEF Content
  <2>6. got \in Content /\ pc \in {"forget", "data"}
    BY <2>2, AppendProperties DEF ReceiverTypeOK, Content
  <2> HIDE DEF bytes, got, pc
  <2>7. ReceiverTypeOK'
    BY <2>3, <2>4, <2>5, <2>6 DEF ReceiverTypeOK, ReceiverPc, Waiting, Working
  <2>8. rcv'.pc \in {"forget", "data"} /\ rcv'.conn = rcv.conn
        /\ rcv'.known = rcv.known /\ rcv'.active = rcv.active
    BY <2>3, <2>6 DEF ReceiverTypeOK
  <2>9. QED
    BY <2>1, <2>3, <2>5, <2>7, <2>8
<1>3. CASE ForgetChunks
  <2>1. /\ At("forget") /\ UNCHANGED <<part, final, linked, receipt>> /\ chunks' = None
        /\ rcv' = [rcv EXCEPT !.pc = "record", !.prior = None]
    BY <1>3 DEF ForgetChunks
  <2>2. ReceiverTypeOK'
    BY <2>1 DEF ReceiverTypeOK, ReceiverPc, Working
  <2>3. rcv'.pc = "record" /\ rcv'.conn = rcv.conn /\ rcv'.prior = None
        /\ rcv'.known = rcv.known /\ rcv'.active = rcv.active
    BY <2>1 DEF ReceiverTypeOK
  <2>4. QED
    BY <2>1, <2>2, <2>3
<1>4. CASE RecordChunk
  <2> DEFINE records == Recorded(rcv.known, rcv.active)
  <2>1. /\ At("record") /\ UNCHANGED <<part, final, linked, receipt>>
        /\ chunks' = [size |-> rcv.size, records |-> records]
        /\ rcv' = [rcv EXCEPT !.pc = "data", !.known = records, !.active = None]
    BY <1>4 DEF RecordChunk
  <2>2. records \in SUBSET Record /\ IsFiniteSet(records)
    <3> DEFINE others == {r \in rcv.known : r.index # rcv.active.index}
    <3>1. rcv.active \in Record /\ others \subseteq rcv.known
      BY <2>1 DEF ReceiverTypeOK
    <3>2. IsFiniteSet(others)
      BY <3>1, FS_Subset
    <3>3. IsFiniteSet(others \cup {rcv.active})
      BY <3>2, FS_AddElement
    <3>4. QED
      BY <3>1, <3>3 DEF Recorded, ReceiverTypeOK
  <2> HIDE DEF records
  <2>3. ReceiverTypeOK'
    BY <2>1, <2>2 DEF ReceiverTypeOK, ReceiverPc, Waiting
  <2>4. rcv'.pc = "data" /\ rcv'.conn = rcv.conn /\ rcv'.prior = rcv.prior
        /\ rcv'.known = records /\ chunks'.records = records
    BY <2>1 DEF ReceiverTypeOK
  <2>5. QED
    BY <2>1, <2>2, <2>3, <2>4
<1>5. CASE ReadComplete
  <2>1. At("data") /\ net[rcv.conn].up # <<>> /\ Frame.type = "COMPLETE"
    BY <1>5 DEF ReadComplete, Gets, NextUp, Frame
  <2>2. Frame.body \in Content /\ Frame.body \in attested[Job]
    BY <2>1, FrameIsTyped, FrameFields
  <2>3. /\ UNCHANGED disk
        /\ rcv' = [rcv EXCEPT !.pc = "verify", !.claim = Frame.body, !.prior = None]
    BY <1>5 DEF ReadComplete
  <2>4. ReceiverTypeOK'
    BY <2>2, <2>3 DEF ReceiverTypeOK, ReceiverPc, Working, disk
  <2>5. rcv'.pc = "verify" /\ rcv'.conn = rcv.conn /\ rcv'.prior = None
        /\ rcv'.known = rcv.known /\ rcv'.claim = Frame.body
    BY <2>3 DEF ReceiverTypeOK
  <2>6. Job' = Job /\ attested' = attested
    BY <2>5 DEF Job, senderVars
  <2>7. QED
    BY <2>1, <2>2, <2>3, <2>4, <2>5, <2>6 DEF disk
<1>6. QED
  BY <1>1, <1>2, <1>3, <1>4, <1>5

(* The commit. *)
LEMMA CommitSteps ==
    ASSUME ReceiverInv, UNCHANGED senderVars,
           PublishReceipt \/ Link \/ Promoted \/ CleanUp
    PROVE  /\ ReceiverInv'
           /\ \A j \in Jobs : \/ receipt'[j] = receipt[j]
                              \/ receipt[j] = None /\ receipt'[j] \in attested[j]
<1> USE DEF ReceiverInv, StepInv, CommitInv, At, Serving
<1>1. PICK pc \in {"link", "close", "promoted", "cleanup", "verified"} :
         rcv' = [rcv EXCEPT !.pc = pc]
  BY DEF PublishReceipt, Link, Promoted, CleanUp, Step
<1>2. /\ rcv'.pc = pc /\ rcv'.conn = rcv.conn /\ rcv'.prior = rcv.prior
      /\ rcv'.known = rcv.known /\ rcv'.claim = rcv.claim
      /\ rcv' \in [ pc : ReceiverPc, conn : Conns \cup {None}, size : Nat,
                    known : SUBSET Record, from : Nat, active : Record \cup {None},
                    got : Content, claim : Content, prior : Content \cup {None} ]
  BY <1>1 DEF ReceiverTypeOK, ReceiverPc, Working
<1>3. Job' = Job /\ attested' = attested
  BY <1>2 DEF Job, senderVars
<1>4. /\ rcv.pc \in {"publish", "link", "promoted", "cleanup"}
      /\ rcv.conn \in Conns /\ Job \in Jobs /\ rcv.prior = None
  BY DEF PublishReceipt, Link, Promoted, CleanUp, Job, Conns
<1>5. Job' \in Jobs /\ Receipt' = receipt'[Job]
  BY <1>3, <1>4 DEF Receipt
<1>6. CASE PublishReceipt
  <2>1. /\ At("publish") /\ UNCHANGED <<part, chunks, final, linked>>
        /\ \/ /\ Receipt \in {None, rcv.claim} /\ pc = "link"
              /\ receipt' = [receipt EXCEPT ![Job] = rcv.claim]
           \/ pc = "close" /\ receipt' = receipt
    BY <1>1, <1>2, <1>6 DEF PublishReceipt, Step
  <2>2. rcv.claim \in Content /\ rcv.claim # None /\ rcv.claim \in attested[Job]
    BY <2>1, WireAssumption DEF ReceiverTypeOK
  <2>3. ReceiverTypeOK'
    BY <1>2, <1>4, <2>1, <2>2 DEF ReceiverTypeOK
  <2>4. pc = "link" => receipt'[Job] = rcv.claim
    BY <1>4, <2>1 DEF ReceiverTypeOK
  <2>5. ReceiverInv'
    BY <1>2, <1>3, <1>4, <1>5, <2>1, <2>2, <2>3, <2>4
  <2>6. ASSUME NEW j \in Jobs
        PROVE  \/ receipt'[j] = receipt[j]
               \/ receipt[j] = None /\ receipt'[j] \in attested[j]
    BY <1>4, <2>1, <2>2 DEF ReceiverTypeOK, Receipt
  <2>7. QED
    BY <2>5, <2>6
<1>7. CASE Link
  <2>1. /\ At("link") /\ UNCHANGED <<part, chunks, receipt>>
        /\ \/ final' = part /\ linked' = TRUE /\ pc = "promoted"
           \/ UNCHANGED <<final, linked>> /\ pc = "close"
    BY <1>1, <1>2, <1>7 DEF Link, Step
  <2>2. ReceiverTypeOK'
    BY <1>2, <2>1 DEF ReceiverTypeOK
  <2>3. QED
    BY <1>2, <1>3, <1>4, <1>5, <2>1, <2>2 DEF Receipt
<1>8. CASE Promoted
  <2>1. /\ At("promoted") /\ UNCHANGED <<chunks, final, receipt>> /\ pc = "cleanup"
        /\ part' \in {None, part} /\ linked' \in BOOLEAN
    BY <1>1, <1>2, <1>8 DEF Promoted, Step
  <2>2. ReceiverTypeOK'
    BY <1>2, <2>1 DEF ReceiverTypeOK
  <2>3. QED
    BY <1>2, <1>3, <1>4, <1>5, <2>1, <2>2 DEF Receipt
<1>9. CASE CleanUp
  <2>1. /\ At("cleanup") /\ UNCHANGED <<part, final, linked, receipt>> /\ pc = "verified"
        /\ chunks' = None
    BY <1>1, <1>2, <1>9 DEF CleanUp, Step
  <2>2. ReceiverTypeOK'
    BY <1>2, <2>1 DEF ReceiverTypeOK
  <2>3. QED
    BY <1>2, <1>3, <1>4, <1>5, <2>1, <2>2 DEF Receipt
<1>10. QED
  BY <1>6, <1>7, <1>8, <1>9

(* The end of a session, of the process, and its start.                    *)
LEMMA EndingSteps ==
    ASSUME ReceiverInv, UNCHANGED senderVars,
           SendVerified \/ Close \/ StorageFails \/ Crash \/ Restart
    PROVE  ReceiverInv' /\ receipt' = receipt
<1> USE DEF ReceiverInv, StepInv, CommitInv, At, Serving
<1>1. <<>> \in Content /\ IsFiniteSet({})
  BY EmptySeq, FS_EmptySet DEF Content
<1>2. CASE SendVerified \/ Close
  <2>1. rcv' = Idle /\ UNCHANGED disk
    BY <1>2 DEF SendVerified, Close, Finish
  <2>2. ReceiverTypeOK'
    BY <1>1, <2>1 DEF ReceiverTypeOK, ReceiverPc, Idle, disk
  <2>3. QED
    BY <1>1, <2>1, <2>2 DEF Idle, disk
<1>3. ASSUME WriteSettles, UNCHANGED <<chunks, linked, receipt>>
      PROVE  /\ part' \in Content \cup {None} /\ final' \in Content \cup {None}
             /\ chunks' = chunks /\ linked' = linked /\ receipt' = receipt
             /\ rcv.prior = None => part' = part /\ final' = final
             /\ part # None => part' # None
  BY <1>3, WireAssumption DEF WriteSettles, WritePart, ReceiverTypeOK
<1>4. CASE Crash
  <2>1. /\ rcv' = [Idle EXCEPT !.pc = "down"]
        /\ WriteSettles /\ UNCHANGED <<chunks, linked, receipt>>
    BY <1>4 DEF Crash
  <2>2. ReceiverTypeOK'
    BY <1>1, <1>3, <2>1 DEF ReceiverTypeOK, ReceiverPc, Idle
  <2>3. rcv'.pc = "down" /\ rcv'.prior = None /\ rcv'.known = {}
    BY <2>1 DEF Idle
  <2>4. QED
    BY <1>1, <1>3, <2>1, <2>2, <2>3
<1>5. CASE StorageFails
  <2>1. PICK pc \in {"close", "verified", "prepare"} :
          /\ rcv' = [rcv EXCEPT !.pc = pc, !.prior = None]
          /\ pc \in AfterStorageError
    BY <1>5 DEF StorageFails, AfterStorageError
  <2>2. /\ WriteSettles /\ UNCHANGED <<chunks, linked, receipt>>
        /\ rcv.pc \in Working \cup {"data"}
    BY <1>5 DEF StorageFails
  <2>3. /\ rcv'.pc = pc /\ rcv'.conn = rcv.conn /\ rcv'.prior = None
        /\ rcv'.known = rcv.known
    BY <2>1 DEF ReceiverTypeOK
  <2>4. ReceiverTypeOK'
    BY <1>3, <2>1, <2>2 DEF ReceiverTypeOK, ReceiverPc, Working
  <2>5. rcv.conn \in Conns
    BY <2>2 DEF Working
  <2>6. pc = "verified" => At("cleanup")
    BY <2>1 DEF AfterStorageError
  <2>7. Job' = Job
    BY <2>3 DEF Job
  <2>8. QED
    BY <1>3, <2>2, <2>3, <2>4, <2>5, <2>6, <2>7 DEF Receipt
<1>6. CASE Restart
  <2>1. rcv' = [rcv EXCEPT !.pc = "accept"] /\ UNCHANGED disk /\ At("down")
    BY <1>6 DEF Restart, Step
  <2>2. ReceiverTypeOK'
    BY <2>1 DEF ReceiverTypeOK, ReceiverPc, disk
  <2>3. rcv'.pc = "accept" /\ rcv'.prior = rcv.prior /\ rcv'.known = rcv.known
    BY <2>1 DEF ReceiverTypeOK
  <2>4. QED
    BY <2>1, <2>2, <2>3 DEF disk
<1>7. QED
  BY <1>2, <1>4, <1>5, <1>6

LEMMA ReceiverSteps ==
    ASSUME ReceiverInv, NetInv, UNCHANGED senderVars, ReceiverMoves
    PROVE  /\ ReceiverInv'
           /\ \A j \in Jobs : \/ receipt'[j] = receipt[j]
                              \/ receipt[j] = None /\ receipt'[j] \in attested[j]
BY DecidingSteps, OpeningSteps, ChunkSteps, CommitSteps, EndingSteps
   DEF ReceiverMoves, ReceiverRuns, ReceiverDisturbed

-----------------------------------------------------------------------------
LEMMA InitInv == Init => Inv
<1> SUFFICES ASSUME Init PROVE Inv
  OBVIOUS
<1> USE DEF Init, WireInit, SenderInit, ReceiverInit
<1>1. <<>> \in Content /\ IsFiniteSet({}) /\ \A S : <<>> \in Seq(S)
  BY EmptySeq, FS_EmptySet DEF Content
<1>2. NetInv
  <2>1. \A U, D : Unopened \in Ends(U, D)
    BY <1>1 DEF Unopened, Ends
  <2>2. QED
    BY <2>1 DEF NetInv, Conveys
<1>3. SenderInv
  BY <1>1, WireAssumption DEF SenderInv, SenderTypeOK, SenderPc
<1>4. ReceiverInv
  BY <1>1 DEF ReceiverInv, ReceiverTypeOK, StepInv, CommitInv, ReceiverPc, Idle, At,
              Serving
<1>5. QED
  BY <1>2, <1>3, <1>4 DEF Inv, ReceiptAttested

LEMMA SenderKeepsInv ==
    ASSUME Inv, NEW j \in Jobs, SenderRuns(j) \/ SenderDisturbed(j),
           UNCHANGED receiverVars
    PROVE  Inv'
<1> USE DEF Inv
<1>1. SenderInv' /\ \A i \in Jobs : attested[i] \subseteq attested'[i]
  BY SenderSteps
<1>2. Conn(j) \in Conns /\ Conn(j)[1] = j /\ snd[j].read \in Content
      /\ \A c \in Conns : c[1] \in Jobs
  BY JobHas DEF JobState, Conns
<1>3. Conveys(net, AnnouncedAll', AllFrames)
  <2>1. \A c \in Conns : AnnouncedAll[c] \subseteq AnnouncedAll'[c]
    BY <1>1, <1>2 DEF AnnouncedAll
  <2>2. QED
    BY <2>1, ConveysMore DEF NetInv
<1>4. \A f \in Frames03 :
         f.type \in {"HELLO", "OFFER", "ACCEPT", "CHUNK_START", "DATA"}
            => f \in AnnouncedAll'[Conn(j)]
  BY <1>2 DEF AnnouncedAll
<1>5. SendComplete(j) => Carrying("COMPLETE", snd[j].read) \in AnnouncedAll'[Conn(j)]
  <2>1. SendComplete(j) => snd[j].read \in attested'[j]
    BY DEF SendComplete, SenderInv, SenderTypeOK
  <2>2. QED
    BY <1>2, <2>1, FramesAreFrames DEF AnnouncedAll
<1>6. Conveys(net', AnnouncedAll', AllFrames)
  <2> DEFINE U == AnnouncedAll'
  <2>1. Conveys(net, U, AllFrames)
    BY <1>3
  <2>2. \A f \in Frames03 :
           f.type \in {"HELLO", "OFFER", "ACCEPT", "CHUNK_START", "DATA"}
              => f \in U[Conn(j)]
    BY <1>4
  <2>3. SendComplete(j) => Carrying("COMPLETE", snd[j].read) \in U[Conn(j)]
    BY <1>5
  <2> HIDE DEF U
  <2>4. Conveys(net', U, AllFrames)
    BY <2>1, <2>2, <2>3, SenderWrites
  <2>5. QED
    BY <2>4 DEF U
<1>7. listening' \in BOOLEAN /\ faults' \in Nat
  <2>1. listening' = listening /\ faults' \in {faults, faults + 1}
    <3>1. CASE SenderRuns(j)
      BY <3>1 DEF SenderRuns, Connect, ConnectRefused, SendOffer, VerifiedAtOnce,
                  Verified, ReadResume, ReadChunkHashes, ScanChunk, SourceTooShort,
                  SourceTooLong, SendComplete, LoseReceiver, Retry, wireVars
    <3>2. CASE SenderDisturbed(j)
      BY <3>2 DEF SenderDisturbed, Start, Abort, EditSource, wireVars, Fault
    <3>3. QED
      BY <3>1, <3>2
  <2>2. QED
    BY <2>1 DEF NetInv
<1>8. NetInv'
  BY <1>6, <1>7 DEF NetInv, AllFrames
<1>9. ReceiverInv'
  <2>1. rcv.pc \in {"verify", "publish"} => Job \in Jobs
    BY DEF ReceiverInv, StepInv, Serving, Job, Conns
  <2>2. CommitInv'
    BY <1>1, <2>1 DEF ReceiverInv, CommitInv, Receipt, Job, At, receiverVars
  <2>3. QED
    BY <2>2 DEF ReceiverInv, ReceiverTypeOK, StepInv, Serving, receiverVars
<1>10. ReceiptAttested'
  BY <1>1 DEF ReceiptAttested, receiverVars
<1>11. QED
  BY <1>1, <1>8, <1>9, <1>10

LEMMA ReceiverKeepsInv ==
    ASSUME Inv, ReceiverMoves, UNCHANGED senderVars
    PROVE  Inv'
<1> USE DEF Inv
<1>1. /\ ReceiverInv'
      /\ \A j \in Jobs : \/ receipt'[j] = receipt[j]
                         \/ receipt[j] = None /\ receipt'[j] \in attested[j]
  BY ReceiverSteps
<1>2. AnnouncedAll' = AnnouncedAll
  BY DEF AnnouncedAll, senderVars
<1>3. Conveys(net', AnnouncedAll, AllFrames)
  <2>1. rcv.conn \in Conns => \A f \in Frames03 : f \in AllFrames[rcv.conn]
    BY DEF AllFrames
  <2>2. At("verified") => Bare("VERIFIED") \in AllFrames[rcv.conn]
    BY FramesAreFrames DEF AllFrames, ReceiverInv, StepInv, Serving, At
  <2>3. QED
    BY <2>1, <2>2, ReceiverWrites DEF ReceiverInv, NetInv
<1>4. listening' \in BOOLEAN /\ faults' \in Nat
  <2>1. listening' \in {listening, TRUE, FALSE} /\ faults' \in {faults, faults + 1}
    <3>1. CASE ReceiverRuns
      BY <3>1 DEF ReceiverRuns, Accept, AnswerHello, ReadOffer, ReceiptConflicts,
         FinalReconciled, PartReconciled, NotReconciled, LoadInventory, OpenPart,
         ResizePart, SendInventory, InventoryAccepted, ReadChunkStart, ReadData,
         ForgetChunks, RecordChunk, ReadComplete, VerifyFile, PublishReceipt, Link,
         Promoted, CleanUp, SendVerified, Close, LoseSender, wireVars
    <3>2. CASE ReceiverDisturbed \/ Restart
      BY <3>2 DEF ReceiverDisturbed, StorageFails, Crash, Restart, Fault
    <3>3. QED
      BY <3>1, <3>2 DEF ReceiverMoves
  <2>2. listening' \in BOOLEAN
    BY <2>1, Zenon DEF NetInv
  <2>3. faults' \in Nat
    BY <2>1 DEF NetInv
  <2>4. QED
    BY <2>2, <2>3
<1>5. NetInv'
  BY <1>2, <1>3, <1>4 DEF NetInv, AllFrames
<1>6. SenderInv' /\ ReceiptAttested'
  BY <1>1 DEF SenderInv, SenderTypeOK, ReceiptAttested, senderVars
<1>7. QED
  BY <1>1, <1>5, <1>6

LEMMA StutterKeepsInv ==
    ASSUME Inv, UNCHANGED <<senderVars, receiverVars>>,
           Conveys(net', AnnouncedAll, AllFrames), listening' \in BOOLEAN, faults' \in Nat
    PROVE  Inv'
<1>1. NetInv'
  BY DEF NetInv, AnnouncedAll, AllFrames, senderVars
<1>2. SenderInv' /\ ReceiptAttested'
  BY DEF Inv, SenderInv, SenderTypeOK, ReceiptAttested, senderVars, receiverVars
<1>3. ReceiverInv'
  BY DEF Inv, ReceiverInv, ReceiverTypeOK, StepInv, CommitInv, Receipt, Job, At, Serving,
         senderVars, receiverVars
<1>4. QED
  BY <1>1, <1>2, <1>3 DEF Inv

(* Inv is inductive. *)
LEMMA NextInv == Inv /\ [Next]_vars => Inv'
<1> SUFFICES ASSUME Inv, [Next]_vars PROVE Inv'
  OBVIOUS
<1>1. ASSUME NEW c \in Conns, Cut(c), UNCHANGED <<senderVars, receiverVars>>
      PROVE  Inv'
  <2>1. PICK m \in 0 .. Len(net[c].up), n \in 0 .. Len(net[c].down) :
           net' = [net EXCEPT ![c].cut = TRUE, ![c].up = SubSeq(@, 1, m),
                              ![c].down = SubSeq(@, 1, n)]
    BY <1>1 DEF Cut
  <2>2. Conveys(net', AnnouncedAll, AllFrames)
    BY <2>1, LossesConvey DEF Inv, NetInv
  <2>3. QED
    BY <1>1, <2>2, StutterKeepsInv DEF Inv, NetInv, Cut, Fault
<1>2. CASE UNCHANGED vars
  BY <1>2, StutterKeepsInv DEF vars, wireVars, Inv, NetInv
<1>3. CASE Runs
  BY <1>3, SenderKeepsInv, ReceiverKeepsInv DEF Runs, ReceiverMoves
<1>4. CASE Disturbed
  BY <1>1, <1>4, SenderKeepsInv, ReceiverKeepsInv DEF Disturbed, ReceiverMoves
<1>5. QED
  BY <1>2, <1>3, <1>4 DEF Next, Quiet

(* What the invariant says of the connections, the processes, the receipts *)
(* and the way to VERIFIED holds for ever.                                 *)
THEOREM InvHolds == Spec => []Inv
<1>1. Init => Inv
  BY InitInv
<1>2. Inv /\ [Next]_vars => Inv'
  BY NextInv
<1>3. QED
  BY <1>1, <1>2, PTL DEF Spec

(* Every variable keeps its type; no job opens more connections than       *)
(* MaxSendAttempts.                                                        *)
THEOREM Types == Spec => []TypeOK
<1>1. Inv => TypeOK
  <2> SUFFICES ASSUME Inv PROVE TypeOK
    OBVIOUS
  <2>1. \A c \in Conns : AnnouncedAll[c] \subseteq Frames03 /\ AllFrames[c] \subseteq Frames03
    BY DEF AnnouncedAll, AllFrames
  <2>2. \A c \in Conns : /\ Seq(AnnouncedAll[c]) \subseteq Seq(Frames03)
                         /\ Seq(AllFrames[c]) \subseteq Seq(Frames03)
    BY <2>1, SeqMonotonic
  <2>3. net \in [Conns -> Connection03]
    BY <2>2 DEF Inv, NetInv, Conveys, Ends, Connection03
  <2>4. QED
    BY <2>3 DEF Inv, NetInv, SenderInv, ReceiverInv, TypeOK
<1>2. QED
  BY <1>1, InvHolds, PTL

(* VERIFIED is only written while the destination shows what the job's own *)
(* receipt stands for, which the job once announced with COMPLETE: after   *)
(* whatever failures, whether promoted files keep a second name or not.    *)
THEOREM VerifiedMeansAttested == Spec => []VerifiedIsTrue
<1>1. Inv => VerifiedIsTrue
  <2> SUFFICES ASSUME Inv, At("verified") PROVE VerifiedIsTrue
    BY DEF VerifiedIsTrue
  <2>1. Job \in Jobs
    BY DEF Inv, ReceiverInv, StepInv, Serving, At, Job, Conns
  <2>2. QED
    BY <2>1 DEF Inv, ReceiverInv, CommitInv, ReceiptAttested, Receipt, At, VerifiedIsTrue
<1>2. QED
  BY <1>1, InvHolds, PTL

-----------------------------------------------------------------------------
(* Where promote_link leaves a promoted file no second name, and only      *)
(* connections are lost, the destination is written once.                  *)

Receipted(j) == receipt[j] # None /\ final = receipt[j]

ConfirmedAll == [c \in Conns |->
    {f \in Frames03 : f.type = "VERIFIED" => Receipted(c[1])}]

(* Until the .part has lost its name it is the destination's second one;   *)
(* a VERIFIED on its way is true.                                          *)
LossInv ==
    /\ Inv
    /\ linked => At("promoted")
    /\ Conveys(net, AllFrames, ConfirmedAll)
    /\ SuccessIsDelivered

(* A step of the receiver that shows something is part of the commit. *)
LEMMA OnlyCommitsShow ==
    ASSUME LossInv, ReceiverRuns \/ Restart
    PROVE  /\ PublishReceipt \/ UNCHANGED receipt
           /\ \/ final' = final
              \/ Link /\ final = None /\ final' = part
<1> USE DEF LossInv
<1>1. CASE ResizePart \/ ReadData
  <2>1. ~ linked
    BY <1>1 DEF ResizePart, ReadData, Gets, At
  <2>2. QED
    BY <1>1, <2>1 DEF ResizePart, ReadData, WritePart
<1>2. CASE ~ (ResizePart \/ ReadData)
  BY <1>2 DEF ReceiverRuns, Accept, AnswerHello, ReadOffer, ReceiptConflicts,
     FinalReconciled, PartReconciled, NotReconciled, LoadInventory, OpenPart,
     SendInventory, InventoryAccepted, ReadChunkStart, ForgetChunks, RecordChunk,
     ReadComplete, VerifyFile, PublishReceipt, Link, Promoted, CleanUp, SendVerified,
     Close, LoseSender, Restart, disk
<1>3. QED
  BY <1>1, <1>2

(* A file keeps its second name only up to the step that removes it. *)
LEMMA LinkedBriefly ==
    ASSUME Unlinks, LossInv, ReceiverRuns \/ Restart
    PROVE  linked' => At("promoted")'
<1> USE DEF LossInv, At
<1>1. CASE Link
  BY <1>1 DEF Link, Step, Inv, ReceiverInv, ReceiverTypeOK
<1>2. CASE Promoted
  BY <1>2 DEF Promoted
<1>3. CASE ~ (Link \/ Promoted)
  BY <1>3 DEF ReceiverRuns, Accept, AnswerHello, ReadOffer, ReceiptConflicts,
     FinalReconciled, PartReconciled, NotReconciled, LoadInventory, OpenPart, ResizePart,
     SendInventory, InventoryAccepted, ReadChunkStart, ReadData, ForgetChunks,
     RecordChunk, ReadComplete, VerifyFile, PublishReceipt, CleanUp, SendVerified, Close,
     LoseSender, Restart, Gets, Waiting, disk
<1>4. QED
  BY <1>1, <1>2, <1>3

(* What is receipted and shown stays so. *)
LEMMA ShownStays ==
    ASSUME LossInv, UNCHANGED senderVars, ReceiverRuns \/ Restart
    PROVE  \A j \in Jobs : Receipted(j) => Receipted(j)'
<1> SUFFICES ASSUME NEW j \in Jobs, Receipted(j) PROVE Receipted(j)'
  OBVIOUS
<1>1. receipt'[j] = receipt[j]
  BY ReceiverSteps DEF LossInv, Inv, ReceiverMoves, Receipted
<1>2. final' = final
  BY OnlyCommitsShow DEF Receipted
<1>3. QED
  BY <1>1, <1>2 DEF Receipted

(* A job that becomes done has read VERIFIED. *)
LEMMA DoneIsVerified ==
    ASSUME SenderInv, NEW j \in Jobs, SenderRuns(j) \/ Start(j)
    PROVE  /\ \A i \in Jobs \ {j} : snd'[i] = snd[i]
           /\ snd'[j].pc # snd[j].pc => snd[j].pc \notin Ended
           /\ snd'[j].pc = "done" => snd[j].pc = "done" \/ NextDown(Conn(j), "VERIFIED")
           /\ \/ attested' = attested
              \/ /\ snd[j].pc \notin Ended /\ snd'[j].pc \notin Ended
                 /\ attested' = [attested EXCEPT ![j] = @ \cup {snd[j].read}]
<1> USE DEF SenderInv, SenderTypeOK
<1>1. CASE ReadResume(j) \/ ReadChunkHashes(j)
  <2>1. PICK count, records : Inventoried(j, count, records)
    BY <1>1 DEF ReadResume, ReadChunkHashes
  <2>2. /\ \A i \in Jobs \ {j} : snd'[i] = snd[i]
        /\ snd'[j].pc \in {"scan", "inventory"}
    BY <2>1 DEF Inventoried
  <2>3. snd[j].pc \in {"offered", "inventory"} /\ attested' = attested
    BY <1>1 DEF ReadResume, ReadChunkHashes, Reads
  <2>4. QED
    BY <2>2, <2>3 DEF Ended
<1>2. CASE Start(j) \/ Connect(j) \/ ConnectRefused(j) \/ Retry(j) \/ LoseReceiver(j)
  BY <1>2 DEF Start, Connect, ConnectRefused, Retry, LoseReceiver, AfterLoss, Leave, Goto,
              Reading, Ended
<1>3. CASE SendOffer(j) \/ VerifiedAtOnce(j) \/ Verified(j) \/ SendComplete(j)
  BY <1>3 DEF SendOffer, VerifiedAtOnce, Verified, SendComplete, Scanning, Reads, Leave,
              Goto, Ended
<1>4. CASE SourceTooShort(j) \/ SourceTooLong(j)
  BY <1>4 DEF SourceTooShort, SourceTooLong, Scanning, Leave, Goto, Ended
<1>5. CASE ScanChunk(j)
  BY <1>5 DEF ScanChunk, Scanning, Ended
<1>6. QED
  BY <1>1, <1>2, <1>3, <1>4, <1>5 DEF SenderRuns

LEMMA SenderKeepsLossInv ==
    ASSUME LossInv, NEW j \in Jobs, SenderRuns(j) \/ Start(j), UNCHANGED receiverVars
    PROVE  LossInv'
<1> USE DEF LossInv
<1>1. Inv' /\ SenderInv /\ SenderInv'
  BY SenderKeepsInv DEF Inv, SenderDisturbed
<1>2. AllFrames' = AllFrames /\ ConfirmedAll' = ConfirmedAll
  BY DEF AllFrames, ConfirmedAll, Receipted, receiverVars
<1>3. Conn(j) \in Conns /\ Conn(j)[1] = j /\ snd[j].read \in Content
  BY <1>1, JobHas DEF JobState
<1>4. Conveys(net', AllFrames, ConfirmedAll)
  <2>1. \A f \in Frames03 : f \in AllFrames[Conn(j)]
    BY <1>3 DEF AllFrames
  <2>2. Carrying("COMPLETE", snd[j].read) \in AllFrames[Conn(j)]
    BY <1>3, <2>1, FramesAreFrames
  <2>3. QED
    BY <1>1, <2>1, <2>2, SenderWrites DEF SenderDisturbed
<1>5. SuccessIsDelivered'
  <2> SUFFICES ASSUME NEW i \in Jobs, snd'[i].pc = "done" PROVE Receipted(i)
    BY DEF SuccessIsDelivered, Receipted, receiverVars
  <2>1. CASE snd[i].pc = "done"
    BY <2>1 DEF SuccessIsDelivered, Receipted
  <2>2. CASE snd[i].pc # "done"
    <3>1. i = j /\ NextDown(Conn(j), "VERIFIED")
      BY <1>1, <2>2, DoneIsVerified
    <3>2. Head(net[Conn(j)].down) \in ConfirmedAll[Conn(j)]
      BY <1>3, <3>1, TakesConvey DEF NextDown
    <3>3. QED
      BY <1>3, <3>1, <3>2 DEF ConfirmedAll, NextDown
  <2>3. QED
    BY <2>1, <2>2
<1>6. QED
  BY <1>1, <1>2, <1>4, <1>5 DEF At, receiverVars

LEMMA ReceiverKeepsLossInv ==
    ASSUME Unlinks, LossInv, ReceiverRuns \/ Restart, UNCHANGED senderVars
    PROVE  LossInv'
<1> USE DEF LossInv
<1>1. Inv'
  BY ReceiverKeepsInv DEF ReceiverMoves
<1>2. \A j \in Jobs : Receipted(j) => Receipted(j)'
  BY ShownStays
<1>3. Conveys(net', AllFrames, ConfirmedAll)
  <2>1. ReceiverTypeOK /\ StepInv
    BY DEF Inv, ReceiverInv
  <2>2. rcv.conn \in Conns =>
          \A f \in Frames03 : f.type \in {"HELLO_ACK", "RESUME", "CHUNK_HASHES"}
                                 => f \in ConfirmedAll[rcv.conn]
    BY DEF ConfirmedAll
  <2>3. At("verified") => Bare("VERIFIED") \in ConfirmedAll[rcv.conn]
    <3>1. At("verified") => rcv.conn \in Conns /\ Receipted(Job)
      BY DEF Inv, ReceiverInv, StepInv, CommitInv, Serving, At, Receipted, Receipt
    <3>2. QED
      BY <3>1, FramesAreFrames DEF ConfirmedAll, Job
  <2>4. QED
    BY <2>1, <2>2, <2>3, ReceiverWrites DEF ReceiverMoves
<1>4. Conveys(net', AllFrames, ConfirmedAll')
  <2>1. \A c \in Conns : ConfirmedAll[c] \subseteq ConfirmedAll'[c]
    BY <1>2 DEF ConfirmedAll, Conns
  <2>2. QED
    BY <1>3, <2>1, ConveysMore
<1>5. SuccessIsDelivered'
  BY <1>2 DEF SuccessIsDelivered, Receipted, senderVars
<1>6. AllFrames' = AllFrames
  BY DEF AllFrames
<1>7. QED
  BY <1>1, <1>4, <1>5, <1>6, LinkedBriefly

LEMMA LossyInv == Unlinks /\ LossInv /\ [LossyNext]_vars => LossInv'
<1> SUFFICES ASSUME Unlinks, LossInv, [LossyNext]_vars PROVE LossInv'
  OBVIOUS
<1>1. ASSUME UNCHANGED <<senderVars, receiverVars>>, Inv',
             Conveys(net', AllFrames, ConfirmedAll)
      PROVE  LossInv'
  BY <1>1 DEF LossInv, AllFrames, ConfirmedAll, Receipted, SuccessIsDelivered, At,
              senderVars, receiverVars
<1>2. Inv'
  <2>1. [Next]_vars
    BY DEF LossyNext, Next, Disturbed, SenderDisturbed
  <2>2. QED
    BY <2>1, NextInv DEF LossInv
<1>3. ASSUME NEW c \in Conns, Cut(c), UNCHANGED <<senderVars, receiverVars>>
      PROVE  LossInv'
  <2>1. PICK m \in 0 .. Len(net[c].up), n \in 0 .. Len(net[c].down) :
           net' = [net EXCEPT ![c].cut = TRUE, ![c].up = SubSeq(@, 1, m),
                              ![c].down = SubSeq(@, 1, n)]
    BY <1>3 DEF Cut
  <2>2. Conveys(net', AllFrames, ConfirmedAll)
    BY <2>1, LossesConvey DEF LossInv
  <2>3. QED
    BY <1>1, <1>2, <1>3, <2>2
<1>4. CASE UNCHANGED vars
  BY <1>1, <1>2, <1>4 DEF vars, wireVars, LossInv
<1>5. CASE Runs
  BY <1>5, SenderKeepsLossInv, ReceiverKeepsLossInv DEF Runs
<1>6. CASE \E j \in Jobs : Start(j) /\ UNCHANGED receiverVars
  BY <1>6, SenderKeepsLossInv
<1>7. QED
  BY <1>3, <1>4, <1>5, <1>6 DEF LossyNext, Quiet

LEMMA LossyInit == Init => LossInv
<1> SUFFICES ASSUME Init PROVE LossInv
  OBVIOUS
<1>1. Inv
  BY InitInv
<1>2. \A S : <<>> \in Seq(S)
  BY EmptySeq
<1>3. \A U, D : Unopened \in Ends(U, D)
  BY <1>2 DEF Unopened, Ends
<1>4. Conveys(net, AllFrames, ConfirmedAll)
  BY <1>3 DEF Init, WireInit, Conveys
<1>5. QED
  BY <1>1, <1>4 DEF LossInv, SuccessIsDelivered, Init, SenderInit, ReceiverInit

LEMMA LossInvHolds == ASSUME Unlinks PROVE LossySpec => []LossInv
<1>1. Init => LossInv
  BY LossyInit
<1>2. LossInv /\ [LossyNext]_vars => LossInv'
  BY LossyInv
<1>3. QED
  BY <1>1, <1>2, PTL DEF LossySpec

(* A job that reports success finds what its own receipt stands for at the *)
(* destination, and keeps it there whatever the jobs after it do: where    *)
(* promoted files keep no second name and only connections are lost.       *)
THEOREM SuccessesAreDelivered ==
    ASSUME Unlinks PROVE LossySpec => []SuccessIsDelivered
<1>1. LossInv => SuccessIsDelivered
  BY DEF LossInv
<1>2. QED
  BY <1>1, LossInvHolds, PTL

-----------------------------------------------------------------------------
(* Refinement *)

Outcomes == [j \in Jobs |-> Outcome(j)]

LEMMA SenderPromises ==
    ASSUME LossInv, LossInv', NEW j \in Jobs, SenderRuns(j) \/ Start(j),
           UNCHANGED receiverVars
    PROVE  [Promise!Next]_(Promise!deliveryVars)
<1>1. SenderInv /\ SuccessIsDelivered'
  BY DEF LossInv, Inv
<1>2. /\ \A i \in Jobs \ {j} : snd'[i] = snd[i]
      /\ snd'[j].pc # snd[j].pc => snd[j].pc \notin Ended
      /\ \/ attested' = attested
         \/ /\ snd[j].pc \notin Ended /\ snd'[j].pc \notin Ended
            /\ attested' = [attested EXCEPT ![j] = @ \cup {snd[j].read}]
  BY <1>1, DoneIsVerified
<1>3. \A i \in Jobs \ {j} : Outcome(i)' = Outcome(i)
  BY <1>2 DEF Outcome
<1>4. UNCHANGED <<final, receipt>>
  BY DEF receiverVars
<1>5. \/ Outcome(j)' = Outcome(j)
      \/ Outcome(j) = "pending" /\ Outcome(j)' = "failure"
      \/ /\ Outcome(j) = "pending" /\ Outcome(j)' = "success"
         /\ snd'[j].pc = "done"
  BY <1>2 DEF Outcome, Ended
<1>6. CASE attested' # attested
  <2>1. Outcomes' = Outcomes /\ Outcomes[j] = "pending"
    BY <1>2, <1>3, <1>6 DEF Outcomes, Outcome, Ended
  <2>2. attested' = [attested EXCEPT ![j] = attested'[j]] /\ attested[j] \subseteq attested'[j]
    BY <1>1, <1>2, <1>6 DEF SenderInv, SenderTypeOK
  <2>3. Promise!Announce(j)
    BY <1>4, <2>1, <2>2 DEF Promise!Announce, Outcomes
  <2>4. QED
    BY <2>3 DEF Promise!Next
<1>7. CASE attested' = attested /\ Outcome(j)' = Outcome(j)
  <2>1. Outcomes' = Outcomes
    BY <1>3, <1>7 DEF Outcomes
  <2>2. QED
    BY <1>4, <1>7, <2>1 DEF Promise!deliveryVars, Outcomes
<1>8. CASE /\ attested' = attested
           /\ Outcome(j) = "pending" /\ Outcome(j)' = "failure"
  <2>1. Outcomes' = [Outcomes EXCEPT ![j] = "failure"] /\ Outcomes[j] = "pending"
    BY <1>3, <1>8 DEF Outcomes
  <2>2. Promise!Fail(j)
    BY <1>4, <1>8, <2>1 DEF Promise!Fail, Outcomes
  <2>3. QED
    BY <2>2 DEF Promise!Next
<1>9. CASE /\ attested' = attested
           /\ Outcome(j) = "pending" /\ Outcome(j)' = "success"
           /\ snd'[j].pc = "done"
  <2>1. Outcomes' = [Outcomes EXCEPT ![j] = "success"] /\ Outcomes[j] = "pending"
    BY <1>3, <1>9 DEF Outcomes
  <2>2. receipt[j] # None /\ final = receipt[j]
    BY <1>1, <1>4, <1>9, WireAssumption DEF SuccessIsDelivered
  <2>3. Promise!Succeed(j)
    BY <1>4, <1>9, <2>1, <2>2 DEF Promise!Succeed, Outcomes
  <2>4. QED
    BY <2>3 DEF Promise!Next
<1>10. QED
  BY <1>5, <1>6, <1>7, <1>8, <1>9

LEMMA ReceiverPromises ==
    ASSUME LossInv, UNCHANGED senderVars, ReceiverRuns \/ Restart
    PROVE  [Promise!Next]_(Promise!deliveryVars)
<1>1. attested' = attested /\ Outcomes' = Outcomes
  BY DEF senderVars, Outcomes, Outcome
<1>2. CASE UNCHANGED <<final, receipt>>
  BY <1>1, <1>2 DEF Promise!deliveryVars, Outcomes
<1>3. CASE PublishReceipt
  <2>1. /\ Job \in Jobs
        /\ rcv.claim \in attested[Job]
        /\ receipt \in [Jobs -> Content \cup {None}]
    BY <1>3 DEF PublishReceipt, At, LossInv, Inv, ReceiverInv, StepInv, CommitInv,
                ReceiverTypeOK, Serving, Job, Conns
  <2>2. final' = final
    BY <1>3 DEF PublishReceipt
  <2>3. CASE receipt' # receipt
    <3>1. receipt[Job] = None /\ receipt' = [receipt EXCEPT ![Job] = rcv.claim]
      BY <1>3, <2>1, <2>3 DEF PublishReceipt, Receipt
    <3>2. receipt'[Job] = rcv.claim
      BY <2>1, <3>1
    <3>3. Promise!Attest(Job)
      BY <1>1, <2>1, <2>2, <3>1, <3>2 DEF Promise!Attest, Outcomes
    <3>4. QED
      BY <2>1, <3>3 DEF Promise!Next
  <2>4. CASE receipt' = receipt
    BY <1>2, <2>2, <2>4
  <2>5. QED
    BY <2>3, <2>4
<1>4. CASE Link /\ final = None /\ final' = part
  <2>1. Job \in Jobs /\ receipt[Job] # None /\ part = receipt[Job]
    BY <1>4 DEF Link, At, LossInv, Inv, ReceiverInv, StepInv, CommitInv, Serving, Receipt,
                Job, Conns
  <2>2. Promise!Show(Job)
    BY <1>1, <1>4, <2>1 DEF Link, Promise!Show, Outcomes
  <2>3. QED
    BY <2>1, <2>2 DEF Promise!Next
<1>5. QED
  BY <1>2, <1>3, <1>4, OnlyCommitsShow

LEMMA StutterPromises ==
    ASSUME UNCHANGED <<senderVars, receiverVars>>
    PROVE  UNCHANGED Promise!deliveryVars
<1>1. Outcomes' = Outcomes
  BY DEF senderVars, Outcomes, Outcome
<1>2. QED
  BY <1>1 DEF Promise!deliveryVars, senderVars, receiverVars, Outcomes

(* What the two programs show is then a behaviour of Delivery, as WFP/0.2  *)
(* always is: a receipt for announced contents, its file at a destination  *)
(* that is free, and only then success.                                    *)
THEOREM DeliversPromise == ASSUME Unlinks PROVE LossySpec => Delivers
<1>1. Init => Promise!Init
  BY DEF Init, WireInit, SenderInit, ReceiverInit, Promise!Init, Outcome, Ended
<1>2. LossInv /\ LossInv' /\ [LossyNext]_vars => [Promise!Next]_(Promise!deliveryVars)
  <2> SUFFICES ASSUME LossInv, LossInv', [LossyNext]_vars
               PROVE  [Promise!Next]_(Promise!deliveryVars)
    OBVIOUS
  <2>1. CASE Runs
    BY <2>1, SenderPromises, ReceiverPromises DEF Runs
  <2>2. CASE \E j \in Jobs : Start(j) /\ UNCHANGED receiverVars
    BY <2>2, SenderPromises
  <2>3. CASE \/ \E c \in Conns : Cut(c) /\ UNCHANGED <<senderVars, receiverVars>>
             \/ Quiet \/ UNCHANGED vars
    BY <2>3, StutterPromises DEF Quiet, vars
  <2>4. QED
    BY <2>1, <2>2, <2>3 DEF LossyNext
<1>3. QED
  BY <1>1, <1>2, LossInvHolds, PTL DEF LossySpec, Delivers, Promise!Spec

=============================================================================
