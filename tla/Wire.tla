-------------------------------- MODULE Wire --------------------------------
(***************************************************************************)
(* The TCP connections between the sending processes and the one receiving *)
(* process of a WarpFile transfer, as src/sender.rs and src/receiver.rs    *)
(* use them.  TCP and the kernel are external code: this module says what  *)
(* the two programs can observe of them.                                   *)
(*                                                                         *)
(* A connection is named by the job that opened it and the attempt it was  *)
(* opened for.  It carries whole frames in order in both directions.  It   *)
(* can be cut at any moment; what had been written but not yet read is     *)
(* then lost from some point on, and whoever reads past that point, or     *)
(* past a close by the other end, gets an error.                           *)
(*                                                                         *)
(* File contents are sequences of blocks, a DATA frame carries one block,  *)
(* and a BLAKE3 digest is the sequence it was computed from, so that two   *)
(* digests are equal exactly when the bytes are.                           *)
(***************************************************************************)
EXTENDS Integers, Sequences

CONSTANTS
    Jobs,             \* one per run of the sender: its Transfer ID
    Blocks,           \* what a block of a file can hold
    None,             \* no file, no receipt, no connection
    MaxSendAttempts,  \* connections one job may open
    Window,           \* DATA frames that fit in the socket buffers
    MaxFaults         \* bound on cuts, crashes and local failures

Content == Seq(Blocks)
Conns == Jobs \X (1 .. MaxSendAttempts)

ASSUME WireAssumption ==
    /\ MaxSendAttempts \in Nat \ {0}
    /\ Window \in Nat \ {0}
    /\ MaxFaults \in Nat
    /\ None \notin Content
    /\ None \notin Jobs
    /\ None \notin Conns

VARIABLES
    net,        \* the state of every connection
    listening,  \* the receiver's listening socket is open
    faults      \* how many faults have happened (bounded by MaxFaults)

wireVars == <<net, listening, faults>>

MessageType == { "HELLO", "HELLO_ACK", "OFFER", "ACCEPT", "REJECT", "RESUME",
                 "RESTART", "DATA", "COMPLETE", "VERIFIED", "CANCEL" }

(* A frame: "body" is what DATA carries, or what the digest of COMPLETE    *)
(* or RESUME was computed from; "size" is the file size of an OFFER.       *)
Message == [type : MessageType, body : Content, size : Nat]

(* "up" flows from the sender to the receiver, "down" back.  "rcvEnd" is   *)
(* the receiver's end: not yet accepted connections wait in the backlog.   *)
Connection == [ up     : Seq(Message),
                down   : Seq(Message),
                sndEnd : {"open", "closed"},
                rcvEnd : {"none", "backlog", "accepted", "closed"},
                cut    : BOOLEAN ]

WireTypeOK ==
    /\ net \in [Conns -> Connection]
    /\ listening \in BOOLEAN
    /\ faults \in Nat

Unopened == [ up |-> <<>>, down |-> <<>>, sndEnd |-> "closed",
              rcvEnd |-> "none", cut |-> FALSE ]

WireInit ==
    /\ net = [c \in Conns |-> Unopened]
    /\ listening = TRUE
    /\ faults = 0

-----------------------------------------------------------------------------
(* Frames *)

Bare(type) == [type |-> type, body |-> <<>>, size |-> 0]
Carrying(type, bytes) == [type |-> type, body |-> bytes, size |-> 0]
Offer(fileSize) == [type |-> "OFFER", body |-> <<>>, size |-> fileSize]

(* What the two ends can tell of each other. *)
SenderGone(c) == net[c].cut \/ net[c].sndEnd = "closed"
ReceiverGone(c) == net[c].cut \/ net[c].rcvEnd = "closed"

(* The next frame of a direction is of this type. *)
NextUp(c, type) == net[c].up # <<>> /\ Head(net[c].up).type = type
NextDown(c, type) == net[c].down # <<>> /\ Head(net[c].down).type = type

(* A write to an end that is gone vanishes into the socket buffer: the     *)
(* error, when the writer gets one, shows at its next read.                *)
Up(n, c, m) ==
    IF ReceiverGone(c) THEN n ELSE [n EXCEPT ![c].up = Append(@, m)]
Down(n, c, m) ==
    IF SenderGone(c) THEN n ELSE [n EXCEPT ![c].down = Append(@, m)]

TakeUp(n, c) == [n EXCEPT ![c].up = Tail(@)]
TakeDown(n, c) == [n EXCEPT ![c].down = Tail(@)]

(* An end is dropped; what was on its way to it will never be read. *)
DropSender(n, c) == [n EXCEPT ![c].sndEnd = "closed", ![c].down = <<>>]
DropReceiver(n, c) == [n EXCEPT ![c].rcvEnd = "closed", ![c].up = <<>>]

(* A connection request that reaches a listening socket: the kernel        *)
(* completes it into the backlog, and the HELLO written right after it     *)
(* waits there too.                                                        *)
Opened == [ up |-> << Bare("HELLO") >>, down |-> <<>>, sndEnd |-> "open",
            rcvEnd |-> "backlog", cut |-> FALSE ]

Fault ==
    /\ faults < MaxFaults
    /\ faults' = faults + 1

(* The network loses a connection: each direction keeps the frames that    *)
(* had already arrived, a prefix of those on their way.                    *)
Cut(c) ==
    /\ net[c].rcvEnd # "none"
    /\ ~ net[c].cut
    /\ net[c].sndEnd = "open" \/ net[c].rcvEnd \in {"backlog", "accepted"}
    /\ Fault
    /\ \E m \in 0 .. Len(net[c].up), n \in 0 .. Len(net[c].down) :
          net' = [net EXCEPT ![c].cut = TRUE,
                             ![c].up = SubSeq(@, 1, m),
                             ![c].down = SubSeq(@, 1, n)]
    /\ UNCHANGED listening
=============================================================================
