---------------------------- MODULE MCDiscovery ----------------------------
(* Instances of Discovery for TLC. *)
EXTENDS Discovery

CONSTANTS self, h1, h2, h3, edbook, Edbook

(* Bits 0 to 2 number the hosts of a network, bit 3 tells the local        *)
(* network from the tailnet, bit 4 is the loopback interface.  A cable     *)
(* between Self and h2 is a /31, of which Self has the last address.       *)
MCAddressesOf ==
    self :> {{0}} @@ h1 :> {{1}, {1, 3}} @@ h2 :> {{2}, {1, 2, 3}} @@ h3 :> {{0, 1, 3}}

MCServes == self :> V02 @@ h1 :> V02 @@ h2 :> V02 @@ h3 :> V03

(* A host with HOSTNAME only, one with COMPUTERNAME, one where that is     *)
(* blank; the 0.3 receiver bears the name of another.                      *)
MCEnvironment ==
    self :> [computer |-> NoName, host |-> edbook]
 @@ h1 :> [computer |-> edbook, host |-> NoName]
 @@ h2 :> [computer |-> Blank, host |-> Edbook]
 @@ h3 :> [computer |-> edbook, host |-> NoName]

MCFolded ==
    edbook :> edbook @@ Edbook :> edbook @@ DefaultName :> DefaultName @@ V02 :> V02 @@ V03 :> V03

MCInterfaces ==
    { [ip |-> {0}, netmask |-> {3, 4}, special |-> FALSE],
      [ip |-> {0, 3}, netmask |-> {0, 1, 2, 3, 4}, special |-> FALSE],
      [ip |-> {0, 1, 2, 3}, netmask |-> {1, 2, 3, 4}, special |-> FALSE],
      [ip |-> {0, 4}, netmask |-> {4}, special |-> TRUE] }

(* No tailscale; two peers that are online, with one that is not. *)
MCStatuses ==
    { None, { [online |-> TRUE, ips |-> {{1, 3}}], [online |-> TRUE, ips |-> {{0, 1, 3}}],
              [online |-> FALSE, ips |-> {{2, 3}}] } }

(* The host that has one way only *)
MCStrays == {{2}}

Word(text) == [is |-> "word", text |-> text]
Flag == [is |-> "flag", text |-> Dashes]
Line(command, rest) == [command |-> command, rest |-> rest]

(* Up to four arguments, and every kind of destination.  The text of a     *)
(* version stands first, as a word, or after a flag.                       *)
Arguments ==
    {Word(Edbook), Word(V03), Flag,
     [is |-> "flagged", text |-> V03], [is |-> "option", text |-> Dashes]}

Rests ==
    {rest \in UNION {[1 .. n -> Arguments] : n \in 0 .. 4} :
        \A n \in DOMAIN rest : rest[n] = Word(V03) /\ n > 1 => rest[n - 1] = Flag}

MCLines ==
    {Line(c, rest) : c \in {"receive", "discover", "send", "other"}, rest \in Rests}
    \cup {Line("send", << Word(Edbook), Word({1}) >>)}
=============================================================================
