------------------------------ MODULE Sender02 ------------------------------
(***************************************************************************)
(* The WFP/0.2 sender, src/sender.rs: run_sender's bounded retry loop      *)
(* around send_once, one job per run of the program.  A job announces the  *)
(* size its file had when the program started and keeps one Transfer ID    *)
(* over all its attempts; the file itself is read again by every attempt   *)
(* and may be edited in between, or while it is being read.                *)
(***************************************************************************)
EXTENDS Wire

CONSTANTS
    Contents,   \* what a source file may hold
    MaxEdits    \* bound on edits of the source files

ASSUME SenderAssumption ==
    /\ Contents \subseteq Content
    /\ MaxEdits \in Nat

VARIABLES
    src,        \* the source file of each job
    edits,      \* how often a source file was edited (bounded by MaxEdits)
    snd,        \* the state of each job
    attested    \* history: the contents each job sent a COMPLETE digest of

senderVars == <<src, edits, snd, attested>>

(* A job is connecting, in the middle of send_once at the read or the      *)
(* write its name says, waiting to retry, or at its end.                   *)
Reading == {"hello", "offered", "restart", "complete"}
Ended == {"done", "failed", "cancelled", "exhausted"}
SenderPc == {"idle", "connect", "data", "waiting"} \cup Reading \cup Ended

SenderTypeOK ==
    /\ src \in [Jobs -> Contents]
    /\ edits \in Nat
    /\ snd \in [Jobs -> [ pc      : SenderPc,
                          attempt : 1 .. MaxSendAttempts,
                          size    : Nat,
                          hashed  : Content ]]
    /\ attested \in [Jobs -> SUBSET Content]

SenderInit ==
    /\ src \in [Jobs -> Contents]
    /\ edits = 0
    /\ snd = [j \in Jobs |->
                 [pc |-> "idle", attempt |-> 1, size |-> 0, hashed |-> <<>>]]
    /\ attested = [j \in Jobs |-> {}]

-----------------------------------------------------------------------------
Conn(j) == <<j, snd[j].attempt>>

Goto(j, pc) == snd' = [snd EXCEPT ![j].pc = pc]

(* send_once returns: its TcpStream is dropped. *)
Leave(j, pc) ==
    /\ Goto(j, pc)
    /\ net' = DropSender(net, Conn(j))

(* The next frame the job reads, while it waits in pc, is of this type. *)
Reads(j, pc, type) == snd[j].pc = pc /\ NextDown(Conn(j), type)

(* Mutant: retries are not bounded. *)
AfterLossUnbounded(j) == "waiting"

(* Mutant: the last attempt is not made. *)
AfterLossOffByOne(j) ==
    IF snd[j].attempt < MaxSendAttempts - 1 THEN "waiting" ELSE "exhausted"

(* What a retryable error leads to. *)
AfterLoss(j) == IF snd[j].attempt < MaxSendAttempts THEN "waiting" ELSE "exhausted"

-----------------------------------------------------------------------------
(* run_sender: size and Transfer ID are fixed here, for every attempt. *)
Start(j) ==
    /\ snd[j].pc = "idle"
    /\ snd' = [snd EXCEPT ![j].pc = "connect", ![j].size = Len(src[j])]
    /\ UNCHANGED <<src, edits, attested, wireVars>>

Connect(j) ==
    /\ snd[j].pc = "connect"
    /\ listening
    /\ net' = [net EXCEPT ![Conn(j)] = Opened]
    /\ snd' = [snd EXCEPT ![j].pc = "hello", ![j].hashed = <<>>]
    /\ UNCHANGED <<src, edits, attested, listening, faults>>

ConnectRefused(j) ==
    /\ snd[j].pc = "connect"
    /\ ~ listening
    /\ Goto(j, AfterLoss(j))
    /\ UNCHANGED <<src, edits, attested, wireVars>>

(* HELLO_ACK is answered with the OFFER. *)
SendOffer(j) ==
    /\ Reads(j, "hello", "HELLO_ACK")
    /\ net' = Up(TakeDown(net, Conn(j)), Conn(j), Offer(snd[j].size))
    /\ Goto(j, "offered")
    /\ UNCHANGED <<src, edits, attested, listening, faults>>

(* ACCEPT, after the OFFER or after a RESTART: the file is read from its   *)
(* start with a new hasher.                                                *)
FreshAccepted(j) ==
    /\ \E pc \in {"offered", "restart"} : Reads(j, pc, "ACCEPT")
    /\ net' = TakeDown(net, Conn(j))
    /\ snd' = [snd EXCEPT ![j].pc = "data", ![j].hashed = <<>>]
    /\ UNCHANGED <<src, edits, attested, listening, faults>>

Rejected(j) ==
    /\ \E pc \in {"offered", "restart"} : Reads(j, pc, "REJECT")
    /\ Leave(j, "failed")
    /\ UNCHANGED <<src, edits, attested, listening, faults>>

(* VERIFIED ends the job: after COMPLETE, or directly after the OFFER when *)
(* an earlier attempt had already been committed.                          *)
Verified(j) ==
    /\ \E pc \in {"offered", "complete"} : Reads(j, pc, "VERIFIED")
    /\ Leave(j, "done")
    /\ UNCHANGED <<src, edits, attested, listening, faults>>

(* Mutant: only the length of the prefix counts. *)
PrefixIsShortEnough(j, prefix) == Len(prefix) <= Len(src[j])

(* negotiate_resume: the prefix the receiver holds is compared with what   *)
(* hash_prefix reads of the source as it is now; that is what is hashed.   *)
Prefix(j, length) == SubSeq(src[j], 1, length)
PrefixMatches(j, prefix) == prefix = Prefix(j, Len(prefix))

AcceptResume(j) ==
    /\ Reads(j, "offered", "RESUME")
    /\ LET prefix == Head(net[Conn(j)].down).body IN
          /\ Len(prefix) <= snd[j].size
          /\ Len(prefix) <= Len(src[j])
          /\ PrefixMatches(j, prefix)
          /\ snd' = [snd EXCEPT ![j].pc = "data", ![j].hashed = Prefix(j, Len(prefix))]
    /\ net' = Up(TakeDown(net, Conn(j)), Conn(j), Bare("ACCEPT"))
    /\ UNCHANGED <<src, edits, attested, listening, faults>>

RefuseResume(j) ==
    /\ Reads(j, "offered", "RESUME")
    /\ LET prefix == Head(net[Conn(j)].down).body IN
          \/ Len(prefix) > snd[j].size
          \/ Len(prefix) <= Len(src[j]) /\ ~ PrefixMatches(j, prefix)
    /\ net' = Up(TakeDown(net, Conn(j)), Conn(j), Bare("RESTART"))
    /\ Goto(j, "restart")
    /\ UNCHANGED <<src, edits, attested, listening, faults>>

(* hash_prefix meets the end of a source that became shorter. *)
ResumeSourceTooShort(j) ==
    /\ Reads(j, "offered", "RESUME")
    /\ LET prefix == Head(net[Conn(j)].down).body IN
          /\ Len(prefix) <= snd[j].size
          /\ Len(prefix) > Len(src[j])
    /\ Leave(j, "failed")
    /\ UNCHANGED <<src, edits, attested, listening, faults>>

(* One turn of the DATA loop: the file is read until its end, whatever     *)
(* size was announced.                                                     *)
SendData(j) ==
    /\ snd[j].pc = "data"
    /\ Len(net[Conn(j)].up) < Window
    /\ Len(snd[j].hashed) < Len(src[j])
    /\ LET block == << src[j][Len(snd[j].hashed) + 1] >> IN
          /\ net' = Up(net, Conn(j), Carrying("DATA", block))
          /\ snd' = [snd EXCEPT ![j].hashed = @ \o block]
    /\ UNCHANGED <<src, edits, attested, listening, faults>>

SendComplete(j) ==
    /\ snd[j].pc = "data"
    /\ Len(net[Conn(j)].up) < Window
    /\ Len(snd[j].hashed) >= Len(src[j])
    /\ Len(snd[j].hashed) = snd[j].size
    /\ net' = Up(net, Conn(j), Carrying("COMPLETE", snd[j].hashed))
    /\ Goto(j, "complete")
    /\ attested' = [attested EXCEPT ![j] = @ \cup {snd[j].hashed}]
    /\ UNCHANGED <<src, edits, listening, faults>>

(* The end of the file does not stand at the announced size. *)
SourceSizeChanged(j) ==
    /\ snd[j].pc = "data"
    /\ Len(snd[j].hashed) >= Len(src[j])
    /\ Len(snd[j].hashed) # snd[j].size
    /\ Leave(j, "failed")
    /\ UNCHANGED <<src, edits, attested, listening, faults>>

(* The user interrupts the program while it sends DATA ... *)
Cancel(j) ==
    /\ snd[j].pc = "data"
    /\ net' = DropSender(Up(net, Conn(j), Bare("CANCEL")), Conn(j))
    /\ Goto(j, "cancelled")
    /\ UNCHANGED <<src, edits, attested, listening, faults>>

(* ... or while it waits to retry. *)
CancelWhileWaiting(j) ==
    /\ snd[j].pc = "waiting"
    /\ Goto(j, "cancelled")
    /\ UNCHANGED <<src, edits, attested, wireVars>>

(* A permanent local failure, the source file that cannot be read or the   *)
(* program that is killed: the connection closes without a CANCEL.         *)
Abort(j) ==
    /\ snd[j].pc \in Reading \cup {"data"}
    /\ Fault
    /\ Leave(j, "failed")
    /\ UNCHANGED <<src, edits, attested, listening>>

(* A read or a write fails with one of the retryable network errors. *)
LoseReceiver(j) ==
    /\ ReceiverGone(Conn(j))
    /\ \/ snd[j].pc \in Reading /\ net[Conn(j)].down = <<>>
       \/ snd[j].pc = "data"
    /\ Leave(j, AfterLoss(j))
    /\ UNCHANGED <<src, edits, attested, listening, faults>>

(* RETRY_DELAY has passed. *)
Retry(j) ==
    /\ snd[j].pc = "waiting"
    /\ snd' = [snd EXCEPT ![j].pc = "connect", ![j].attempt = @ + 1]
    /\ UNCHANGED <<src, edits, attested, wireVars>>

(* Another program writes the source file. *)
EditSource(j) ==
    /\ edits < MaxEdits
    /\ edits' = edits + 1
    /\ \E content \in Contents \ {src[j]} : src' = [src EXCEPT ![j] = content]
    /\ UNCHANGED <<snd, attested, wireVars>>

(* What the sender does by itself. *)
SenderRuns(j) ==
    \/ Connect(j) \/ ConnectRefused(j) \/ SendOffer(j)
    \/ FreshAccepted(j) \/ Rejected(j) \/ Verified(j)
    \/ AcceptResume(j) \/ RefuseResume(j) \/ ResumeSourceTooShort(j)
    \/ SendData(j) \/ SendComplete(j) \/ SourceSizeChanged(j)
    \/ LoseReceiver(j) \/ Retry(j)

(* What its user, its machine and other programs do to it. *)
SenderDisturbed(j) ==
    \/ Start(j) \/ Cancel(j) \/ CancelWhileWaiting(j) \/ Abort(j)
    \/ EditSource(j)
=============================================================================
