------------------------------ MODULE Sender03 ------------------------------
(***************************************************************************)
(* The WFP/0.3 sender, src/sender_v03.rs: run_sender_v03's bounded retries *)
(* around send_session_v03, one job per run of the program.  A job keeps   *)
(* its Transfer ID; size and contents of the source are read again by      *)
(* every attempt, the size before HELLO and the contents, chunk by chunk,  *)
(* after the receiver's inventory.                                         *)
(***************************************************************************)
EXTENDS Chunks

CONSTANTS
    Contents,   \* what a source file may hold
    MaxEdits    \* bound on edits of the source files

ASSUME SenderAssumption ==
    /\ Contents \subseteq Content
    /\ MaxEdits \in Nat

VARIABLES
    src,        \* the source file of each job
    edits,      \* how often a source file was edited (bounded by MaxEdits)
    snd,        \* the state of each job
    attested    \* history: the contents each job sent a COMPLETE digest of

senderVars == <<src, edits, snd, attested>>

Reading == {"hello", "offered", "inventory", "complete"}
Ended == {"done", "failed", "exhausted"}
SenderPc == {"idle", "connect", "scan", "waiting"} \cup Reading \cup Ended

SenderTypeOK ==
    /\ src \in [Jobs -> Contents]
    /\ edits \in Nat
    /\ snd \in [Jobs -> [ pc      : SenderPc,
                          attempt : 1 .. MaxSendAttempts,
                          size    : Nat,
                          count   : Nat,       \* records RESUME declared
                          records : Seq(Record),
                          cursor  : Nat,       \* records matched so far
                          next    : Nat,       \* the next chunk to read
                          read    : Content ]] \* what was read and hashed
    /\ attested \in [Jobs -> SUBSET Content]

SenderInit ==
    /\ src \in [Jobs -> Contents]
    /\ edits = 0
    /\ snd = [j \in Jobs |->
                 [pc |-> "idle", attempt |-> 1, size |-> 0, count |-> 0,
                  records |-> <<>>, cursor |-> 0, next |-> 0, read |-> <<>>]]
    /\ attested = [j \in Jobs |-> {}]

-----------------------------------------------------------------------------
Conn(j) == <<j, snd[j].attempt>>

Goto(j, pc) == snd' = [snd EXCEPT ![j].pc = pc]

(* send_session_v03 returns: its TcpStream is dropped. *)
Leave(j, pc) ==
    /\ Goto(j, pc)
    /\ net' = DropSender(net, Conn(j))

(* The next frame the job reads, while it waits in pc, is of this type. *)
Reads(j, pc, type) == snd[j].pc = pc /\ NextDown(Conn(j), type)

(* Mutant: retries are not bounded. *)
AfterLossUnbounded(j) == "waiting"

(* Mutant: the last attempt is not made. *)
AfterLossOffByOne(j) ==
    IF snd[j].attempt < MaxSendAttempts - 1 THEN "waiting" ELSE "exhausted"

(* What a retryable error leads to. *)
AfterLoss(j) == IF snd[j].attempt < MaxSendAttempts THEN "waiting" ELSE "exhausted"

-----------------------------------------------------------------------------
(* The program is started: the Transfer ID is generated. *)
Start(j) ==
    /\ snd[j].pc = "idle"
    /\ Goto(j, "connect")
    /\ UNCHANGED <<src, edits, attested, wireVars>>

Connect(j) ==
    /\ snd[j].pc = "connect"
    /\ listening
    /\ net' = [net EXCEPT ![Conn(j)] = Opened]
    /\ snd' = [snd EXCEPT ![j].pc = "hello", ![j].size = Len(src[j]),
                          ![j].records = <<>>, ![j].cursor = 0,
                          ![j].next = 0, ![j].read = <<>>]
    /\ UNCHANGED <<src, edits, attested, listening, faults>>

ConnectRefused(j) ==
    /\ snd[j].pc = "connect"
    /\ ~ listening
    /\ Goto(j, AfterLoss(j))
    /\ UNCHANGED <<src, edits, attested, wireVars>>

SendOffer(j) ==
    /\ Reads(j, "hello", "HELLO_ACK")
    /\ net' = Up(TakeDown(net, Conn(j)), Conn(j), Offer(snd[j].size))
    /\ Goto(j, "offered")
    /\ UNCHANGED <<src, edits, attested, listening, faults>>

(* VERIFIED instead of an inventory: an earlier session has committed. *)
VerifiedAtOnce(j) ==
    /\ Reads(j, "offered", "VERIFIED")
    /\ Leave(j, "done")
    /\ UNCHANGED <<src, edits, attested, listening, faults>>

(* VERIFIED after COMPLETE *)
Verified(j) ==
    /\ Reads(j, "complete", "VERIFIED")
    /\ Leave(j, "done")
    /\ UNCHANGED <<src, edits, attested, listening, faults>>

(* receive_inventory_and_accept: RESUME declares how many records the      *)
(* CHUNK_HASHES frames after it carry; ACCEPT answers the last of them.    *)
Inventoried(j, count, records) ==
    LET taken == TakeDown(net, Conn(j))
        all == Len(records) = count
    IN  /\ net' = IF all THEN Up(taken, Conn(j), Bare("ACCEPT")) ELSE taken
        /\ snd' = [snd EXCEPT ![j].pc = IF all THEN "scan" ELSE "inventory",
                              ![j].count = count, ![j].records = records]

ReadResume(j) ==
    /\ Reads(j, "offered", "RESUME")
    /\ Inventoried(j, Head(net[Conn(j)].down).count, <<>>)
    /\ UNCHANGED <<src, edits, attested, listening, faults>>

ReadChunkHashes(j) ==
    /\ Reads(j, "inventory", "CHUNK_HASHES")
    /\ Inventoried(j, snd[j].count,
                   snd[j].records \o Head(net[Conn(j)].down).records)
    /\ UNCHANGED <<src, edits, attested, listening, faults>>

(* The scanner compares its next chunk with the next record. *)
AtRecord(j) ==
    /\ snd[j].cursor < Len(snd[j].records)
    /\ snd[j].records[snd[j].cursor + 1].index = snd[j].next

(* Mutant: a record of the chunk is enough, whatever its digest. *)
ReusesAnyRecord(j, chunk) == AtRecord(j)

Reuses(j, chunk) ==
    AtRecord(j) /\ snd[j].records[snd[j].cursor + 1].hash = chunk

Scanning(j) == snd[j].pc = "scan" /\ Len(net[Conn(j)].up) < Window
MoreChunks(j) == snd[j].next < ChunkCount(snd[j].size)

(* Mutant: the cursor only moves past a record that is reused. *)
ScanChunkWithoutMovingOn(j) ==
    /\ Scanning(j) /\ MoreChunks(j) /\ Covers(src[j], snd[j].next, snd[j].size)
    /\ LET chunk == ChunkOf(src[j], snd[j].next, snd[j].size) IN
          /\ net' = IF Reuses(j, chunk) THEN net
                    ELSE UpAll(net, Conn(j), ChunkFrames(snd[j].next, chunk))
          /\ snd' = [snd EXCEPT ![j].next = @ + 1, ![j].read = @ \o chunk,
                                ![j].cursor = IF Reuses(j, chunk) THEN @ + 1 ELSE @]
    /\ UNCHANGED <<src, edits, attested, listening, faults>>

(* next_chunk, and send_transmit_chunk_v03 when the receiver lacks it. *)
ScanChunk(j) ==
    /\ Scanning(j) /\ MoreChunks(j) /\ Covers(src[j], snd[j].next, snd[j].size)
    /\ LET chunk == ChunkOf(src[j], snd[j].next, snd[j].size) IN
          /\ net' = IF Reuses(j, chunk) THEN net
                    ELSE UpAll(net, Conn(j), ChunkFrames(snd[j].next, chunk))
          /\ snd' = [snd EXCEPT ![j].next = @ + 1, ![j].read = @ \o chunk,
                                ![j].cursor = IF AtRecord(j) THEN @ + 1 ELSE @]
    /\ UNCHANGED <<src, edits, attested, listening, faults>>

SourceTooShort(j) ==
    /\ Scanning(j) /\ MoreChunks(j) /\ ~ Covers(src[j], snd[j].next, snd[j].size)
    /\ Leave(j, "failed")
    /\ UNCHANGED <<src, edits, attested, listening, faults>>

(* confirm_source_end and finish: nothing is left, of the source and of    *)
(* the records.                                                            *)
Scanned(j) ==
    Len(src[j]) <= snd[j].size /\ snd[j].cursor = Len(snd[j].records)

SourceTooLong(j) ==
    /\ Scanning(j) /\ ~ MoreChunks(j) /\ ~ Scanned(j)
    /\ Leave(j, "failed")
    /\ UNCHANGED <<src, edits, attested, listening, faults>>

SendComplete(j) ==
    /\ Scanning(j) /\ ~ MoreChunks(j) /\ Scanned(j)
    /\ net' = Up(net, Conn(j), Carrying("COMPLETE", snd[j].read))
    /\ Goto(j, "complete")
    /\ attested' = [attested EXCEPT ![j] = @ \cup {snd[j].read}]
    /\ UNCHANGED <<src, edits, listening, faults>>

(* The source cannot be read or the program is killed, perhaps in the      *)
(* middle of a chunk's frames.                                             *)
Abort(j) ==
    /\ snd[j].pc \in Reading \cup {"scan"}
    /\ Fault
    /\ Goto(j, "failed")
    /\ \E n \in 0 .. Len(net[Conn(j)].up) :
          net' = DropSender([net EXCEPT ![Conn(j)].up = SubSeq(@, 1, n)], Conn(j))
    /\ UNCHANGED <<src, edits, attested, listening>>

(* A read or a write fails with one of the retryable network errors, which *)
(* is also what a session error of the receiver looks like from here.      *)
LoseReceiver(j) ==
    /\ ReceiverGone(Conn(j))
    /\ \/ snd[j].pc \in Reading /\ net[Conn(j)].down = <<>>
       \/ snd[j].pc = "scan"
    /\ Leave(j, AfterLoss(j))
    /\ UNCHANGED <<src, edits, attested, listening, faults>>

(* V03_RETRY_DELAY has passed. *)
Retry(j) ==
    /\ snd[j].pc = "waiting"
    /\ snd' = [snd EXCEPT ![j].pc = "connect", ![j].attempt = @ + 1]
    /\ UNCHANGED <<src, edits, attested, wireVars>>

(* Another program writes the source file. *)
EditSource(j) ==
    /\ edits < MaxEdits
    /\ edits' = edits + 1
    /\ \E content \in Contents \ {src[j]} : src' = [src EXCEPT ![j] = content]
    /\ UNCHANGED <<snd, attested, wireVars>>

SenderRuns(j) ==
    \/ Connect(j) \/ ConnectRefused(j) \/ SendOffer(j)
    \/ VerifiedAtOnce(j) \/ Verified(j)
    \/ ReadResume(j) \/ ReadChunkHashes(j)
    \/ ScanChunk(j) \/ SourceTooShort(j) \/ SourceTooLong(j) \/ SendComplete(j)
    \/ LoseReceiver(j) \/ Retry(j)

SenderDisturbed(j) == Start(j) \/ Abort(j) \/ EditSource(j)
=============================================================================
