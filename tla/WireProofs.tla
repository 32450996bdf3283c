----------------------------- MODULE WireProofs -----------------------------
(***************************************************************************)
(* What the operators of Wire do to the connections: each changes one      *)
(* connection, and on that one it appends a frame, takes the first, or     *)
(* empties or shortens a direction.                                        *)
(***************************************************************************)
EXTENDS Wire, SequenceTheorems, TLAPS

Nets == [Conns -> Connection]

(* The frames waiting on each connection c are in U[c] and in D[c].        *)
(* Stated with sets of messages, a property of every waiting frame is kept *)
(* by Append, Tail and SubSeq without looking at the frames.               *)
Carries(n, U, D) ==
    /\ n \in Nets
    /\ \A c \in Conns : n[c].up \in Seq(U[c]) /\ n[c].down \in Seq(D[c])

-----------------------------------------------------------------------------
(* The frames the programs build are messages. *)
LEMMA FrameTypes ==
    /\ \A type \in MessageType : Bare(type) \in Message
    /\ \A type \in MessageType, bytes \in Content : Carrying(type, bytes) \in Message
    /\ \A fileSize \in Nat : Offer(fileSize) \in Message
<1>1. <<>> \in Content
  BY EmptySeq DEF Content
<1>2. QED
  BY <1>1 DEF Bare, Carrying, Offer, Message, MessageType

(* A frame that is the next of its direction is a member of what the       *)
(* direction carries, and so are those behind it.                          *)
LEMMA TakeFirst ==
    ASSUME NEW S, NEW s \in Seq(S), s # <<>>
    PROVE  Head(s) \in S /\ Tail(s) \in Seq(S)
BY HeadTailProperties

(* A prefix of a sequence. *)
LEMMA PrefixType ==
    ASSUME NEW S, NEW s \in Seq(S), NEW k \in Int, k <= Len(s)
    PROVE  SubSeq(s, 1, k) \in Seq(S)
<1>1. Len(s) \in Nat /\ \A i \in 1 .. Len(s) : s[i] \in S
  BY LenProperties, ElementOfSeq
<1>2. \A i \in 1 .. k : s[i] \in S
  BY <1>1
<1>3. QED
  BY <1>2, SubSeqProperties

-----------------------------------------------------------------------------
(* More may be carried than is known to be. *)
LEMMA CarriesMore ==
    ASSUME NEW n, NEW U, NEW D, NEW U2, NEW D2, Carries(n, U, D),
           \A c \in Conns : U[c] \subseteq U2[c] /\ D[c] \subseteq D2[c]
    PROVE  Carries(n, U2, D2)
<1>1. ASSUME NEW c \in Conns
      PROVE  n[c].up \in Seq(U2[c]) /\ n[c].down \in Seq(D2[c])
  <2>1. Seq(U[c]) \subseteq Seq(U2[c]) /\ Seq(D[c]) \subseteq Seq(D2[c])
    BY SeqMonotonic
  <2>2. QED
    BY <2>1 DEF Carries
<1>2. QED
  BY <1>1 DEF Carries

(* Writing a frame towards the receiver, and towards the sender. *)
LEMMA UpWrites ==
    ASSUME NEW n, NEW U, NEW D, Carries(n, U, D),
           NEW c \in Conns, NEW m \in Message, m \in U[c]
    PROVE  Carries(Up(n, c, m), U, D)
<1>1. CASE ReceiverGone(c)
  BY <1>1 DEF Up
<1>2. CASE ~ ReceiverGone(c)
  <2> DEFINE k == [n[c] EXCEPT !.up = Append(@, m)]
  <2>1. Append(n[c].up, m) \in Seq(Message) /\ Append(n[c].up, m) \in Seq(U[c])
    BY AppendProperties DEF Carries, Nets, Connection
  <2>2. k \in Connection /\ k.up \in Seq(U[c]) /\ k.down \in Seq(D[c])
    BY <2>1 DEF Carries, Nets, Connection
  <2>3. Up(n, c, m) = [n EXCEPT ![c] = k]
    BY <1>2 DEF Up
  <2> HIDE DEF k
  <2>4. QED
    BY <2>2, <2>3 DEF Carries, Nets
<1>3. QED
  BY <1>1, <1>2

LEMMA DownWrites ==
    ASSUME NEW n, NEW U, NEW D, Carries(n, U, D),
           NEW c \in Conns, NEW m \in Message, m \in D[c]
    PROVE  Carries(Down(n, c, m), U, D)
<1>1. CASE SenderGone(c)
  BY <1>1 DEF Down
<1>2. CASE ~ SenderGone(c)
  <2> DEFINE k == [n[c] EXCEPT !.down = Append(@, m)]
  <2>1. Append(n[c].down, m) \in Seq(Message) /\ Append(n[c].down, m) \in Seq(D[c])
    BY AppendProperties DEF Carries, Nets, Connection
  <2>2. k \in Connection /\ k.up \in Seq(U[c]) /\ k.down \in Seq(D[c])
    BY <2>1 DEF Carries, Nets, Connection
  <2>3. Down(n, c, m) = [n EXCEPT ![c] = k]
    BY <1>2 DEF Down
  <2> HIDE DEF k
  <2>4. QED
    BY <2>2, <2>3 DEF Carries, Nets
<1>3. QED
  BY <1>1, <1>2

(* Taking the first frame of a direction. *)
LEMMA TakeUpReads ==
    ASSUME NEW n, NEW U, NEW D, Carries(n, U, D),
           NEW c \in Conns, n[c].up # <<>>
    PROVE  /\ Carries(TakeUp(n, c), U, D)
           /\ Head(n[c].up) \in Message
           /\ Head(n[c].up) \in U[c]
<1> DEFINE k == [n[c] EXCEPT !.up = Tail(@)]
<1>1. /\ Head(n[c].up) \in Message /\ Head(n[c].up) \in U[c]
      /\ Tail(n[c].up) \in Seq(Message) /\ Tail(n[c].up) \in Seq(U[c])
  BY TakeFirst DEF Carries, Nets, Connection
<1>2. k \in Connection /\ k.up \in Seq(U[c]) /\ k.down \in Seq(D[c])
  BY <1>1 DEF Carries, Nets, Connection
<1>3. TakeUp(n, c) = [n EXCEPT ![c] = k]
  BY DEF TakeUp
<1> HIDE DEF k
<1>4. QED
  BY <1>1, <1>2, <1>3 DEF Carries, Nets

LEMMA TakeDownReads ==
    ASSUME NEW n, NEW U, NEW D, Carries(n, U, D),
           NEW c \in Conns, n[c].down # <<>>
    PROVE  /\ Carries(TakeDown(n, c), U, D)
           /\ Head(n[c].down) \in Message
           /\ Head(n[c].down) \in D[c]
<1> DEFINE k == [n[c] EXCEPT !.down = Tail(@)]
<1>1. /\ Head(n[c].down) \in Message /\ Head(n[c].down) \in D[c]
      /\ Tail(n[c].down) \in Seq(Message) /\ Tail(n[c].down) \in Seq(D[c])
  BY TakeFirst DEF Carries, Nets, Connection
<1>2. k \in Connection /\ k.up \in Seq(U[c]) /\ k.down \in Seq(D[c])
  BY <1>1 DEF Carries, Nets, Connection
<1>3. TakeDown(n, c) = [n EXCEPT ![c] = k]
  BY DEF TakeDown
<1> HIDE DEF k
<1>4. QED
  BY <1>1, <1>2, <1>3 DEF Carries, Nets

(* Dropping an end. *)
LEMMA DropReads ==
    ASSUME NEW n, NEW U, NEW D, Carries(n, U, D), NEW c \in Conns
    PROVE  Carries(DropSender(n, c), U, D) /\ Carries(DropReceiver(n, c), U, D)
<1> DEFINE ks == [n[c] EXCEPT !.sndEnd = "closed", !.down = <<>>]
           kr == [n[c] EXCEPT !.rcvEnd = "closed", !.up = <<>>]
<1>1. \A S : <<>> \in Seq(S)
  BY EmptySeq
<1>2. ks \in Connection /\ ks.up \in Seq(U[c]) /\ ks.down \in Seq(D[c])
  BY <1>1 DEF Carries, Nets, Connection
<1>3. kr \in Connection /\ kr.up \in Seq(U[c]) /\ kr.down \in Seq(D[c])
  BY <1>1 DEF Carries, Nets, Connection
<1>4. DropSender(n, c) = [n EXCEPT ![c] = ks] /\ DropReceiver(n, c) = [n EXCEPT ![c] = kr]
  BY DEF Carries, Nets, DropSender, DropReceiver
<1> HIDE DEF ks, kr
<1>5. QED
  BY <1>2, <1>3, <1>4 DEF Carries, Nets

(* Losing a connection. *)
LEMMA CutReads ==
    ASSUME NEW U, NEW D, Carries(net, U, D), NEW c \in Conns, Cut(c)
    PROVE  Carries(net', U, D)
<1>1. PICK m \in 0 .. Len(net[c].up), n \in 0 .. Len(net[c].down) :
         net' = [net EXCEPT ![c].cut = TRUE,
                            ![c].up = SubSeq(@, 1, m),
                            ![c].down = SubSeq(@, 1, n)]
  BY DEF Cut
<1> DEFINE k == [net[c] EXCEPT !.cut = TRUE, !.up = SubSeq(@, 1, m),
                               !.down = SubSeq(@, 1, n)]
<1>2. /\ SubSeq(net[c].up, 1, m) \in Seq(Message)
      /\ SubSeq(net[c].up, 1, m) \in Seq(U[c])
      /\ SubSeq(net[c].down, 1, n) \in Seq(Message)
      /\ SubSeq(net[c].down, 1, n) \in Seq(D[c])
  <2>1. /\ net[c].up \in Seq(Message) /\ net[c].up \in Seq(U[c])
        /\ net[c].down \in Seq(Message) /\ net[c].down \in Seq(D[c])
    BY DEF Carries, Nets, Connection
  <2>2. m \in Int /\ m <= Len(net[c].up) /\ n \in Int /\ n <= Len(net[c].down)
    BY <2>1, LenProperties
  <2>3. QED
    BY <2>1, <2>2, PrefixType
<1>3. k \in Connection /\ k.up \in Seq(U[c]) /\ k.down \in Seq(D[c])
  BY <1>2 DEF Carries, Nets, Connection
<1>4. net' = [net EXCEPT ![c] = k]
  BY <1>1 DEF Carries, Nets
<1> HIDE DEF k
<1>5. QED
  BY <1>3, <1>4 DEF Carries, Nets
=============================================================================
