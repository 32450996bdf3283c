------------------------------ MODULE Discovery ------------------------------
(***************************************************************************)
(* How a receiving host is found by name: the discovery responder that     *)
(* runs beside the receive loop of 0.2 (src/discovery.rs, src/receiver.rs; *)
(* 0.3 has none, src/receiver_v03.rs), the search over the local networks  *)
(* and the tailnet (src/discovery.rs, src/tailscale.rs), and the choice of *)
(* a destination (src/destination.rs, src/main.rs).  One search is         *)
(* followed; it runs on the host Self, which may run a receiver too.       *)
(*                                                                         *)
(* An IPv4 address is the set of its one bits.  A datagram is an element   *)
(* of "net"; it may be lost, and it may be delivered and stay, which is a  *)
(* duplicate.  Datagrams arrive in any order.                              *)
(***************************************************************************)
EXTENDS Commands

CONSTANTS
    Bits,         \* positions of an address
    Hosts,        \* the hosts that run a receiver
    Serves,       \* [Hosts -> {V02, V03}], the version it was started with
    Self,         \* the host that searches
    AddressesOf,  \* [Hosts -> SUBSET Address], as the others see them
    Environment,  \* [Hosts -> what COMPUTERNAME and HOSTNAME say]
    Folded,       \* a name in lower case, for every name
    DefaultName,  \* "warpfile-device"
    NoName,       \* the variable is not set
    Blank,        \* the variable is set to white space; the user typed none
    Interfaces,   \* of Self: [ip, netmask : Address, special : BOOLEAN]
    Statuses,     \* what "tailscale status" may say: sets of peers, or None
    None,
    Lines,        \* what the user may type, see Commands
    Reporting,    \* hosts whose sockets report that a peer has no listener
    Failing,      \* hosts that may be unable to send an answer
    Strays,       \* addresses that other traffic comes from and goes to
    Window        \* ticks a search lasts

Address == SUBSET Bits
Names == DOMAIN Folded
IsAddress(text) == text \notin {None, Blank} \cup Names

ASSUME DiscoveryAssumption ==
    /\ Serves \in [Hosts -> {V02, V03}]
    /\ AddressesOf \in [Hosts -> SUBSET Address]
    /\ \A g, h \in Hosts : g # h => AddressesOf[g] \cap AddressesOf[h] = {}
    /\ Environment \in [Hosts -> [computer : Names \cup {NoName, Blank},
                                  host : Names \cup {NoName, Blank}]]
    /\ Interfaces \subseteq [ip : Address, netmask : Address, special : BOOLEAN]
    /\ Statuses \subseteq {None} \cup SUBSET [online : BOOLEAN, ips : SUBSET Address]
    /\ {V02, V03} \subseteq Names /\ Dashes \notin Names
    /\ DefaultName \in Names /\ NoName \notin Names /\ Blank \notin Names
    /\ Strays \subseteq UNION {AddressesOf[h] : h \in Hosts}
    /\ Window \in Nat \ {0}

(* A destination is typed as a name, as nothing or as an address.          *)
ASSUME LinesAssumption ==
    \A l \in Lines : \A c \in ParseArguments(l) :
        c.run = "send" => c.destination \in Names \cup {Blank} \cup Address

VARIABLES
    running,    \* the hosts whose receiver has not ended
    resets,     \* hosts whose responder is about to be told of a dead peer
    net,        \* the datagrams on their way
    peers,      \* what "tailscale status" says
    line,       \* what the user typed, until it is read
    input,      \* the destination that was named, None for "discover"
    search,     \* the search
    disturbed   \* a datagram was lost or came too late, or a send failed

receiverVars == <<running, resets>>
userVars == <<line, input>>
vars == <<receiverVars, net, peers, userVars, search, disturbed>>

Stage == {"typed", "start", "send", "collect", "resolve",
          "chosen", "listed", "unknown", "ambiguous", "failed", "none"}
Device == [name : Names, address : Address]
Kinds == {"DISCOVER", "ANNOUNCE", "NOISE"}
Datagram == [kind : Kinds, at : Address, up : BOOLEAN]

TypeOK ==
    /\ running \subseteq Hosts
    /\ resets \subseteq Hosts
    /\ net \subseteq Datagram
    /\ peers \in Statuses
    /\ line = None \/ line \in Lines
    /\ \/ input \in {None, Blank} \cup Names
       \/ input \in Address
    /\ search \in [pc : Stage, targets : SUBSET Address, sent : BOOLEAN, ticks : 0 .. Window,
                   found : Seq(Device), chosen : {None} \cup Address]
    /\ disturbed \in BOOLEAN

-----------------------------------------------------------------------------
(* The receiving host *)

(* local_device_name: HOSTNAME is looked at only when there is no          *)
(* COMPUTERNAME, and a blank name is none.                                 *)
LocalDeviceName(h) ==
    LET env == Environment[h]
        name == IF env.computer # NoName THEN env.computer ELSE env.host
    IN IF name \in {NoName, Blank} THEN DefaultName ELSE name

(* run_receiver has a responder as long as it runs, run_receiver_v03 none. *)
Responders == {h \in running : Serves[h] = V02}

(* "up" goes from the searching host to the address "at", the rest back. *)
Down(kind, address) == [kind |-> kind, at |-> address, up |-> FALSE]
Up(kind, address) == [kind |-> kind, at |-> address, up |-> TRUE]

(* A delivered datagram is gone, or stays for a second delivery. *)
Delivered(d) == {net \ {d}, net}

DecodesFirst(h, d) ==
    /\ d \in net /\ d.up /\ d.at \in AddressesOf[h]
    /\ h \in Responders \ resets
    /\ net' \in IF d.kind = "DISCOVER"
                THEN {n \cup {Down("ANNOUNCE", d.at)} : n \in Delivered(d)}
                ELSE Delivered(d)
    /\ running' = IF d.kind = "NOISE" THEN running \ {h} ELSE running
    /\ UNCHANGED <<resets, peers, userVars, search, disturbed>>

(* run_discovery_responder: what does not decode, is of another type or    *)
(* has a payload is passed over; DISCOVER is answered.                     *)
Respond(h, d) ==
    /\ d \in net /\ d.up /\ d.at \in AddressesOf[h]
    /\ h \in Responders \ resets
    /\ net' \in IF d.kind = "DISCOVER"
                THEN {n \cup {Down("ANNOUNCE", d.at)} : n \in Delivered(d)}
                ELSE Delivered(d)
    /\ UNCHANGED <<receiverVars, peers, userVars, search, disturbed>>

(* An answer that cannot be sent leaves the loop as well. *)
AnswerFails(h, d) ==
    /\ d \in net /\ d.up /\ d.at \in AddressesOf[h] /\ d.kind = "DISCOVER"
    /\ h \in (Responders \cap Failing) \ resets
    /\ net' \in Delivered(d)
    /\ running' = running \ {h}
    /\ UNCHANGED <<resets, peers, userVars, search, disturbed>>

(* Its next recv_from returns the report, and "?" leaves the loop; select! *)
(* then drops the receive loop, whatever it is doing.                      *)
ResponderFails(h) ==
    /\ h \in Responders \cap resets
    /\ running' = running \ {h}
    /\ UNCHANGED <<resets, net, peers, userVars, search, disturbed>>

(* Nobody listens at the port: the search passes over the report, if any.  *)
Unheard(h, d) ==
    /\ d \in net /\ d.up /\ d.at \in AddressesOf[h]
    /\ h \notin Responders
    /\ net' = net \ {d}
    /\ UNCHANGED <<receiverVars, peers, userVars, search, disturbed>>

-----------------------------------------------------------------------------
(* The search *)

(* calculate_broadcast: the address with every host bit set *)
Broadcast(i) == i.ip \cup (Bits \ i.netmask)

LocalAddresses == {i.ip : i \in Interfaces}

(* discover_local_networks: no loopback and link-local interfaces, nor one *)
(* that bears its network's last address, as the only one of a /32 does,   *)
(* and either end of a /31 may                                             *)
BroadcastAddresses == {Broadcast(i) : i \in {j \in Interfaces : ~j.special /\ Broadcast(j) # j.ip}}

(* online_peer_ipv4_addresses; no tailscale, an error or no JSON are none *)
OnlinePeers ==
    IF peers = None THEN {} ELSE UNION {p.ips : p \in {q \in peers : q.online}}

(* main: the line is read.  A receiver, of either version, is one of Hosts *)
(* already, and a line that is refused does nothing; the version of "send" *)
(* is the transfer's, and the search is the same for both.                 *)
ReadLine ==
    /\ search.pc = "typed"
    /\ line' = None
    /\ LET commands == ParseArguments(line)
           goals == {c \in commands : c.run # "receive"}
       IN IF goals = {} THEN search' = [search EXCEPT !.pc = "none"] /\ UNCHANGED input
          ELSE /\ search' = [search EXCEPT !.pc = "start"]
               /\ \E c \in goals : input' = IF c.run = "send" THEN c.destination ELSE None
    /\ UNCHANGED <<receiverVars, net, peers, disturbed>>

(* discover_devices up to the first send: all sources are merged.  A name  *)
(* that is an address needs no search.                                     *)
StartSearch ==
    /\ search.pc = "start"
    /\ LET targets == BroadcastAddresses \cup OnlinePeers IN
       search' = IF IsAddress(input)
                 THEN [search EXCEPT !.pc = "chosen", !.chosen = input]
                 ELSE IF targets = {} THEN [search EXCEPT !.pc = "resolve"]
                 ELSE [search EXCEPT !.pc = "send", !.targets = targets]
    /\ UNCHANGED <<receiverVars, net, peers, userVars, disturbed>>

(* Who gets a datagram that is sent to an address: its owner, or everyone  *)
(* on the network whose broadcast address it is.                           *)
OnLink(a, i) == a \cap i.netmask = i.ip \cap i.netmask
Reached(target) ==
    LET owners == UNION {AddressesOf[h] : h \in Hosts}
        links == {i \in Interfaces : Broadcast(i) = target /\ i.ip # target}
    IN {a \in owners : a = target \/ \E i \in links : OnLink(a, i)}

(* The next target; one that cannot be sent to is passed over. *)
SendTo(target) ==
    /\ search.pc = "send" /\ target \in search.targets
    /\ search' = [search EXCEPT !.targets = @ \ {target}, !.sent = TRUE]
    /\ net' = net \cup {Up("DISCOVER", a) : a \in Reached(target)}
    /\ UNCHANGED <<receiverVars, peers, userVars, disturbed>>

SendFails(target) ==
    /\ search.pc = "send" /\ target \in search.targets
    /\ search' = [search EXCEPT !.targets = @ \ {target}]
    /\ disturbed' = TRUE
    /\ UNCHANGED <<receiverVars, net, peers, userVars>>

(* The window opens once, when all is sent. *)
OpenWindow ==
    /\ search.pc = "send" /\ search.targets = {}
    /\ search' = IF search.sent THEN [search EXCEPT !.pc = "collect", !.ticks = Window]
                                ELSE [search EXCEPT !.pc = "resolve"]
    /\ UNCHANGED <<receiverVars, net, peers, userVars, disturbed>>

OwnerOf(a) == CHOOSE h \in Hosts : a \in AddressesOf[h]
Announced(a) == [name |-> LocalDeviceName(OwnerOf(a)), address |-> a]

(* A device is known by its name and its address. *)
AddNew(devices, d) ==
    IF \E n \in DOMAIN devices : devices[n] = d THEN devices ELSE Append(devices, d)

CollectedWithOwn(d) ==
    IF d.kind # "ANNOUNCE" THEN search.found ELSE AddNew(search.found, Announced(d.at))

(* is_local_source *)
IsLocalSource(address) == address \in LocalAddresses

(* What comes from this host, does not decode or is no ANNOUNCE is passed  *)
(* over.                                                                   *)
Collected(d) ==
    IF d.kind # "ANNOUNCE" \/ IsLocalSource(d.at) THEN search.found
    ELSE AddNew(search.found, Announced(d.at))

CollectLonger(d) ==
    /\ search.pc = "collect"
    /\ d \in net /\ ~d.up
    /\ net' \in Delivered(d)
    /\ search' = [search EXCEPT !.found = Collected(d), !.ticks = Window]
    /\ UNCHANGED <<receiverVars, peers, userVars, disturbed>>

(* A report that a peer has no listener is passed over here. *)
Collect(d) ==
    /\ search.pc = "collect"
    /\ d \in net /\ ~d.up
    /\ net' \in Delivered(d)
    /\ search' = [search EXCEPT !.found = Collected(d)]
    /\ UNCHANGED <<receiverVars, peers, userVars, disturbed>>

TickOnward ==
    /\ search.pc = "collect"
    /\ search' = [search EXCEPT !.ticks = @ - 1]
    /\ UNCHANGED <<receiverVars, net, peers, userVars, disturbed>>

(* Time passes, and in the end the window closes; the devices are sorted,  *)
(* and nothing tells the order they came in.                               *)
Tick ==
    /\ search.pc = "collect"
    /\ search' = IF search.ticks > 1 THEN [search EXCEPT !.ticks = @ - 1]
                 ELSE [search EXCEPT !.ticks = 0, !.pc = "resolve"]
    /\ disturbed' = (disturbed \/ (search.ticks = 1 /\ \E d \in net : d.kind # "NOISE"))
    /\ UNCHANGED <<receiverVars, net, peers, userVars>>

(* No interfaces to list, no socket, or an error that is not passed over. *)
SearchFails ==
    /\ search.pc \in {"start", "collect"} /\ ~IsAddress(input)
    /\ search' = [search EXCEPT !.pc = "failed"]
    /\ UNCHANGED <<receiverVars, net, peers, userVars, disturbed>>

FirstMatch(devices, name) ==
    LET all == {n \in DOMAIN devices : Folded[devices[n].name] = Folded[name]}
    IN {n \in all : \A m \in all : n <= m}

(* Which of the devices bear the name *)
Matches(devices, name) == {n \in DOMAIN devices : Folded[devices[n].name] = Folded[name]}

(* run_discover shows all that were found. *)
ListDevices ==
    /\ search.pc = "resolve" /\ input = None
    /\ search' = [search EXCEPT !.pc = "listed"]
    /\ UNCHANGED <<receiverVars, net, peers, userVars, disturbed>>

(* resolve_device_name: exactly one device must bear the name. *)
Resolve ==
    /\ search.pc = "resolve" /\ input # None
    /\ LET matches == IF input = Blank THEN {} ELSE Matches(search.found, input) IN
       \/ \E n \in matches :
             /\ matches = {n}
             /\ search' = [search EXCEPT !.pc = "chosen", !.chosen = search.found[n].address]
       \/ /\ \A n \in matches : matches # {n}
          /\ search' = [search EXCEPT !.pc = IF matches = {} THEN "unknown" ELSE "ambiguous"]
    /\ UNCHANGED <<receiverVars, net, peers, userVars, disturbed>>

-----------------------------------------------------------------------------
(* The network *)

Lose(d) ==
    /\ d \in net
    /\ net' = net \ {d}
    /\ disturbed' = TRUE
    /\ UNCHANGED <<receiverVars, peers, userVars, search>>

(* Something else is sent to one of the two ports, one at a time, and not  *)
(* before there is anything to disturb.                                    *)
Noise ==
    /\ search.pc # "typed"
    /\ \A d \in net : d.kind # "NOISE"
    /\ net' \in {net \cup {[kind |-> "NOISE", at |-> a, up |-> up]} :
                    a \in Strays, up \in BOOLEAN}
    /\ UNCHANGED <<receiverVars, peers, userVars, search, disturbed>>

(* An answer to a socket that is closed: its sender may be told. *)
Bounce(d) ==
    /\ search.pc \notin {"typed", "start", "send", "collect"}
    /\ d \in net /\ ~d.up
    /\ net' = net \ {d}
    /\ resets' = IF d.kind = "ANNOUNCE" THEN resets \cup ({OwnerOf(d.at)} \cap Reporting) ELSE resets
    /\ UNCHANGED <<running, peers, userVars, search, disturbed>>

-----------------------------------------------------------------------------
Init ==
    /\ running = Hosts
    /\ resets = {}
    /\ net = {}
    /\ peers \in Statuses
    /\ line \in Lines
    /\ input = None
    /\ search = [pc |-> "typed", targets |-> {}, sent |-> FALSE, ticks |-> 0,
                 found |-> <<>>, chosen |-> None]
    /\ disturbed = FALSE

HostRuns(h) ==
    \/ \E d \in net : Respond(h, d) \/ AnswerFails(h, d) \/ Unheard(h, d)
    \/ ResponderFails(h)

SearchRuns ==
    \/ ReadLine
    \/ StartSearch
    \/ \E target \in search.targets : SendTo(target) \/ SendFails(target)
    \/ OpenWindow
    \/ Tick
    \/ ListDevices
    \/ Resolve

Next ==
    \/ \E h \in Hosts : HostRuns(h)
    \/ SearchRuns
    \/ SearchFails
    \/ \E d \in net : Collect(d) \/ Lose(d) \/ Bounce(d)
    \/ Noise

(* The searching program runs while it can, and time passes. *)
Spec == Init /\ [][Next]_vars /\ WF_vars(SearchRuns)

-----------------------------------------------------------------------------
Found == {search.found[n] : n \in DOMAIN search.found}

(* The addresses at which a 0.2 receiver that is still running can be      *)
(* reached from Self: on a network Self shares with it, unless Self has    *)
(* the last address of that network (it then sends nothing there: the peer *)
(* at the even end of a /31 is missed), or as an online peer.              *)
Reachable ==
    {a \in UNION {AddressesOf[h] : h \in Responders} :
        \/ \E i \in Interfaces : ~i.special /\ OnLink(a, i) /\ Broadcast(i) # i.ip
        \/ peers # None /\ \E p \in peers : p.online /\ a \in p.ips}

(* If nothing was lost or late, what is found is every 0.2 receiver that   *)
(* runs and is reachable, once for each way to reach it; and never a 0.3   *)
(* receiver, which has no discovery (docs/PROTOCOL_V03.md:700), nor the    *)
(* searching host itself; however often and in whatever order datagrams    *)
(* arrived and whether or not there is a tailnet (docs/ARCHITECTURE.md:313). *)
UndisturbedFindsAll ==
    /\ search.pc = "resolve" /\ ~disturbed
    => /\ \A a \in Reachable \ LocalAddresses : Announced(a) \in Found
       /\ \A d \in Found : d.address \notin LocalAddresses /\ Serves[OwnerOf(d.address)] = V02

(* A file goes only to a 0.2 receiver that bears the name, and to none     *)
(* when two that bear it, or two ways to one, are reachable: "the          *)
(* current implementation refuses to choose silently",                     *)
(* docs/PROTOCOL.md:1654.  A lost answer may hide the other one; an answer *)
(* that is heard twice never makes a name ambiguous.                       *)
NoSilentChoice ==
    /\ search.pc = "chosen" /\ input \in Names =>
          /\ \E h \in Hosts : /\ search.chosen \in AddressesOf[h] \ LocalAddresses
                             /\ Serves[h] = V02
                             /\ Folded[LocalDeviceName(h)] = Folded[input]
          /\ ~disturbed => \A a \in Reachable \ LocalAddresses :
                             a # search.chosen =>
                                Folded[LocalDeviceName(OwnerOf(a))] # Folded[input]
    /\ search.pc = "ambiguous" =>
          \E c, d \in Found : c.address # d.address /\ Folded[c.name] = Folded[d.name]
                              /\ Folded[c.name] = Folded[input]

(* The version may stand anywhere on the line and in either spelling, and  *)
(* no word is lost to it or taken for it: the two passes of main over the  *)
(* arguments agree which of them is a flag's.                              *)
LineReadsAlike == line # None => ReadsAlike(line)

(* Nothing that arrives ends a receiver, whatever it says: only the report *)
(* that a peer has no listener does, and an answer that cannot be sent.    *)
EndsOnReportOnly ==
    [][\A h \in running \ running' :
          \/ h \in resets
          \/ \E d \in net : d.up /\ d.kind = "DISCOVER" /\ d.at \in AddressesOf[h]]_vars

(* "The receiver orchestration keeps both active.  This allows a receiver  *)
(* to remain discoverable while waiting for or processing sequential file  *)
(* transfers", docs/ARCHITECTURE.md:1220, of the 0.2 receiver; the one of  *)
(* 0.3 never ends here.                                                    *)
RemainsDiscoverable == running = Hosts

(* A search ends, whatever arrives during it. *)
SearchEnds == <>(search.pc \in {"chosen", "listed", "unknown", "ambiguous", "failed", "none"})
=============================================================================
