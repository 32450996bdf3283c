--------------------------- MODULE DiscoveryProofs ---------------------------
(***************************************************************************)
(* What a search finds and which receiver a name leads to, for any hosts,  *)
(* addresses, networks and names.                                          *)
(***************************************************************************)
EXTENDS Discovery, SequenceTheorems, TLAPS

Owned(a) == \E h \in Hosts : a \in AddressesOf[h]

(* Every datagram is to or from a host, an answer is a 0.2 receiver's; a   *)
(* device is found once, and is a 0.2 receiver on another host.            *)
Sound(d) ==
    /\ Owned(d.at)
    /\ ~d.up /\ d.kind = "ANNOUNCE" => Serves[OwnerOf(d.at)] = V02

DatagramInv == \A d \in net : Sound(d)

FoundInv ==
    /\ \A n \in DOMAIN search.found :
          \E a \in Address : /\ Owned(a) /\ Serves[OwnerOf(a)] = V02
                             /\ a \notin LocalAddresses
                             /\ search.found[n] = Announced(a)
    /\ \A m, n \in DOMAIN search.found : search.found[m] = search.found[n] => m = n

(* Where the search is: a window that is open has time left, and a search  *)
(* with nothing left to send has sent something or was disturbed.          *)
SearchInv ==
    /\ search.pc = "typed" => line \in Lines
    /\ search.pc = "collect" => search.ticks > 0
    /\ search.pc = "send" => search.sent \/ disturbed \/ search.targets # {}

(* A receiver that can be reached is still to be asked, has been asked, is *)
(* answering, or is found.                                                 *)
Due(a) == \E target \in search.targets : a \in Reached(target)
UnderWay(a) ==
    \/ Up("DISCOVER", a) \in net
    \/ Down("ANNOUNCE", a) \in net
    \/ Announced(a) \in Found

Heard ==
    ~disturbed => \A a \in Reachable \ LocalAddresses :
        /\ search.pc = "send" => Due(a) \/ UnderWay(a)
        /\ search.pc = "collect" => UnderWay(a)
        /\ search.pc = "resolve" => Announced(a) \in Found

DiscoveryInv ==
    /\ TypeOK
    /\ DatagramInv
    /\ FoundInv
    /\ SearchInv
    /\ Heard
    /\ NoSilentChoice

-----------------------------------------------------------------------------
(* A host's name is a name, and an address that has an owner has one.      *)
LEMMA NamesAreNames ==
    ASSUME NEW h \in Hosts
    PROVE  LocalDeviceName(h) \in Names
BY DiscoveryAssumption DEF LocalDeviceName

LEMMA Owners ==
    ASSUME NEW a, Owned(a)
    PROVE  /\ a \in Address
           /\ OwnerOf(a) \in Hosts /\ a \in AddressesOf[OwnerOf(a)]
           /\ \A h \in Hosts : a \in AddressesOf[h] => h = OwnerOf(a)
           /\ Announced(a) \in Device
           /\ Announced(a).address = a /\ Announced(a).name = LocalDeviceName(OwnerOf(a))
<1>1. OwnerOf(a) \in Hosts /\ a \in AddressesOf[OwnerOf(a)]
  BY DEF Owned, OwnerOf
<1>2. \A h \in Hosts : a \in AddressesOf[h] => h = OwnerOf(a)
  BY <1>1, DiscoveryAssumption
<1>3. a \in Address
  BY <1>1, DiscoveryAssumption
<1>4. QED
  BY <1>1, <1>2, <1>3, NamesAreNames DEF Announced, Device

(* A device that is found again is not added again.                        *)
LEMMA AddsNew ==
    ASSUME NEW devices \in Seq(Device), NEW d \in Device,
           \A m, n \in DOMAIN devices : devices[m] = devices[n] => m = n,
           NEW more, more = AddNew(devices, d)
    PROVE  /\ more \in Seq(Device)
           /\ \A n \in DOMAIN more : \/ more[n] = d
                                     \/ n \in DOMAIN devices /\ more[n] = devices[n]
           /\ \E n \in DOMAIN more : more[n] = d
           /\ \A n \in DOMAIN devices : n \in DOMAIN more /\ more[n] = devices[n]
           /\ \A m, n \in DOMAIN more : more[m] = more[n] => m = n
<1>1. CASE \E n \in DOMAIN devices : devices[n] = d
  BY <1>1 DEF AddNew
<1>2. CASE ~ \E n \in DOMAIN devices : devices[n] = d
  <2>1. more = Append(devices, d)
    BY <1>2 DEF AddNew
  <2>2. /\ more \in Seq(Device) /\ DOMAIN devices = 1 .. Len(devices) /\ Len(devices) \in Nat
        /\ DOMAIN more = 1 .. Len(devices) + 1
        /\ \A n \in 1 .. Len(devices) : more[n] = devices[n]
        /\ more[Len(devices) + 1] = d
    BY <2>1, AppendProperties, LenProperties
  <2>3. QED
    BY <1>2, <2>2
<1>3. QED
  BY <1>1, <1>2

(* What can be reached has an owner that runs, and those do not grow.      *)
LEMMA ReachableShrinks ==
    ASSUME running' \subseteq running, UNCHANGED peers
    PROVE  Reachable' \subseteq Reachable
BY DEF Reachable, Responders

LEMMA ReachableIsOwned ==
    ASSUME TypeOK, NEW a \in Reachable
    PROVE  Owned(a) /\ OwnerOf(a) \in Responders
<1>1. PICK h \in Responders : a \in AddressesOf[h]
  BY DEF Reachable
<1>2. QED
  BY <1>1, Owners DEF TypeOK, Owned, Responders

(* The choice that was made stays one.                                     *)
LEMMA ChoiceStays ==
    ASSUME DiscoveryInv, running' \subseteq running,
           UNCHANGED <<peers, userVars, search>>, disturbed => disturbed'
    PROVE  NoSilentChoice'
<1>1. Reachable' \subseteq Reachable
  BY ReachableShrinks
<1>2. UNCHANGED <<search, input>>
  BY DEF userVars
<1>3. NoSilentChoice
  BY DEF DiscoveryInv
<1>4. QED
  BY <1>1, <1>2, <1>3 DEF NoSilentChoice, Found

(* A step of the hosts or of the network.                                  *)
LEMMA NetworkMoves ==
    ASSUME DiscoveryInv, running' \subseteq running, resets' \subseteq Hosts,
           UNCHANGED <<peers, userVars, search>>,
           disturbed' \in BOOLEAN, disturbed => disturbed',
           \A d \in net' : d \in Datagram /\ Sound(d),
           ~disturbed' /\ search.pc \in {"send", "collect"} =>
              \A a \in Reachable' :
                 /\ Up("DISCOVER", a) \in net => Up("DISCOVER", a) \in net' \/ Down("ANNOUNCE", a) \in net'
                 /\ Down("ANNOUNCE", a) \in net => Down("ANNOUNCE", a) \in net'
    PROVE  DiscoveryInv'
<1>1. TypeOK'
  BY DEF DiscoveryInv, TypeOK, userVars
<1>2. DatagramInv' /\ FoundInv' /\ SearchInv'
  BY DEF DiscoveryInv, DatagramInv, FoundInv, SearchInv, userVars
<1>3. Heard'
  <2>1. Reachable' \subseteq Reachable
    BY ReachableShrinks
  <2>2. Found' = Found /\ \A a : Due(a)' = Due(a)
    BY DEF Found, Due, Reached
  <2>3. ~disturbed' /\ search.pc \in {"send", "collect"} =>
           \A a \in Reachable' : UnderWay(a) => UnderWay(a)'
    BY <2>2 DEF UnderWay, Up, Down
  <2>4. QED
    BY <2>1, <2>2, <2>3 DEF DiscoveryInv, Heard
<1>4. NoSilentChoice'
  BY ChoiceStays
<1>5. QED
  BY <1>1, <1>2, <1>3, <1>4 DEF DiscoveryInv

LEMMA DatagramsAreOwned ==
    ASSUME DiscoveryInv, NEW d \in net
    PROVE  d \in Datagram /\ Sound(d) /\ Owned(d.at) /\ d.at \in Address
BY DEF DiscoveryInv, TypeOK, DatagramInv, Sound, Datagram

(* A host answers a question, or ends and then cannot be reached; one that *)
(* has no responder was never waited for.                                  *)
LEMMA HostSteps ==
    ASSUME DiscoveryInv, NEW h \in Hosts, HostRuns(h)
    PROVE  DiscoveryInv'
<1>1. ASSUME NEW d \in net, Respond(h, d)
      PROVE  DiscoveryInv'
  <2>1. UNCHANGED <<running, resets, peers, userVars, search, disturbed>>
    BY <1>1 DEF Respond, receiverVars
  <2>2. net' \in IF d.kind = "DISCOVER"
                 THEN {n \cup {Down("ANNOUNCE", d.at)} : n \in Delivered(d)}
                 ELSE Delivered(d)
    BY <1>1 DEF Respond
  <2>3. Down("ANNOUNCE", d.at) \in Datagram /\ Sound(Down("ANNOUNCE", d.at))
    <3>1. d.at \in AddressesOf[h] /\ Serves[h] = V02
      BY <1>1 DEF Respond, Responders
    <3>2. Owned(d.at) /\ d.at \in Address /\ Serves[OwnerOf(d.at)] = V02
      BY <3>1, DatagramsAreOwned, Owners
    <3>3. QED
      BY <3>2 DEF Down, Datagram, Kinds, Sound
  <2>4. \A e \in net' : e \in net \/ e = Down("ANNOUNCE", d.at)
    BY <2>2 DEF Delivered
  <2>5. \A e \in net' : e \in Datagram /\ Sound(e)
    BY <2>3, <2>4, DatagramsAreOwned
  <2>6. \A a : Down("ANNOUNCE", a) # d
    BY <1>1 DEF Respond, Down
  <2>7. \A a : Up("DISCOVER", a) = d => d.at = a /\ d.kind = "DISCOVER"
    BY DEF Up
  <2>8. \A a : /\ Up("DISCOVER", a) \in net => Up("DISCOVER", a) \in net' \/ Down("ANNOUNCE", a) \in net'
               /\ Down("ANNOUNCE", a) \in net => Down("ANNOUNCE", a) \in net'
    BY <2>2, <2>6, <2>7 DEF Delivered
  <2>9. resets \subseteq Hosts /\ disturbed \in BOOLEAN
    BY DEF DiscoveryInv, TypeOK
  <2>10. QED
    BY <2>1, <2>5, <2>8, <2>9, NetworkMoves
<1>2. ASSUME NEW d \in net, AnswerFails(h, d)
      PROVE  DiscoveryInv'
  <2>1. /\ UNCHANGED <<resets, peers, userVars, search, disturbed>>
        /\ running' = running \ {h}
        /\ net' \in {net \ {d}, net}
        /\ d.up /\ d.at \in AddressesOf[h]
    BY <1>2 DEF AnswerFails, Delivered
  <2>2. \A e \in net' : e \in Datagram /\ Sound(e)
    BY <2>1, DatagramsAreOwned
  <2>3. \A a : Down("ANNOUNCE", a) # d
    BY <2>1 DEF Down
  <2>4. \A a \in Reachable' : a # d.at
    <3>1. \A a \in Reachable' : \E g \in running \ {h} : a \in AddressesOf[g]
      BY <2>1 DEF Reachable, Responders
    <3>2. running \subseteq Hosts
      BY DEF DiscoveryInv, TypeOK
    <3>3. QED
      BY <2>1, <3>1, <3>2, DiscoveryAssumption
  <2>5. \A a : Up("DISCOVER", a) = d => d.at = a
    BY DEF Up
  <2>6. \A a \in Reachable' :
          /\ Up("DISCOVER", a) \in net => Up("DISCOVER", a) \in net' \/ Down("ANNOUNCE", a) \in net'
          /\ Down("ANNOUNCE", a) \in net => Down("ANNOUNCE", a) \in net'
    BY <2>1, <2>3, <2>4, <2>5
  <2>7. resets \subseteq Hosts /\ disturbed \in BOOLEAN
    BY DEF DiscoveryInv, TypeOK
  <2>8. QED
    BY <2>1, <2>2, <2>6, <2>7, NetworkMoves
<1>3. ASSUME ResponderFails(h)
      PROVE  DiscoveryInv'
  <2>1. /\ UNCHANGED <<resets, net, peers, userVars, search, disturbed>>
        /\ running' = running \ {h}
    BY <1>3 DEF ResponderFails
  <2>2. resets \subseteq Hosts /\ disturbed \in BOOLEAN
    BY DEF DiscoveryInv, TypeOK
  <2>3. QED
    BY <2>1, <2>2, DatagramsAreOwned, NetworkMoves
<1>4. ASSUME NEW d \in net, Unheard(h, d)
      PROVE  DiscoveryInv'
  <2>1. /\ UNCHANGED <<running, resets, peers, userVars, search, disturbed>>
        /\ net' = net \ {d}
        /\ d.up /\ d.at \in AddressesOf[h] /\ h \notin Responders
    BY <1>4 DEF Unheard, receiverVars
  <2>2. \A a : Down("ANNOUNCE", a) # d
    BY <2>1 DEF Down
  <2>3. \A a \in Reachable' : a # d.at
    <3>1. Reachable' = Reachable
      BY <2>1 DEF Reachable, Responders
    <3>2. \A a \in Reachable : \E g \in Responders : g \in Hosts /\ a \in AddressesOf[g]
      BY DEF Reachable, Responders, DiscoveryInv, TypeOK
    <3>3. QED
      BY <2>1, <3>1, <3>2, DiscoveryAssumption
  <2>4. \A a : Up("DISCOVER", a) = d => d.at = a
    BY DEF Up
  <2>5. resets \subseteq Hosts /\ disturbed \in BOOLEAN
    BY DEF DiscoveryInv, TypeOK
  <2>6. QED
    BY <2>1, <2>2, <2>3, <2>4, <2>5, DatagramsAreOwned, NetworkMoves
<1>5. QED
  BY <1>1, <1>2, <1>3, <1>4 DEF HostRuns

(* The network loses, adds noise, and reports to who answers too late.     *)
LEMMA NetworkSteps ==
    ASSUME DiscoveryInv, Noise \/ \E d \in net : Lose(d) \/ Bounce(d)
    PROVE  DiscoveryInv'
<1>1. resets \subseteq Hosts /\ disturbed \in BOOLEAN
  BY DEF DiscoveryInv, TypeOK
<1>2. ASSUME NEW d \in net, Lose(d)
      PROVE  DiscoveryInv'
  <2>1. /\ UNCHANGED <<running, resets, peers, userVars, search>>
        /\ net' = net \ {d} /\ disturbed'
    BY <1>2 DEF Lose, receiverVars
  <2>2. disturbed' \in BOOLEAN
    BY <1>2 DEF Lose
  <2>3. QED
    BY <1>1, <2>1, <2>2, DatagramsAreOwned, NetworkMoves
<1>3. ASSUME NEW d \in net, Bounce(d)
      PROVE  DiscoveryInv'
  <2>1. /\ UNCHANGED <<running, peers, userVars, search, disturbed>>
        /\ net' = net \ {d} /\ search.pc \notin {"send", "collect"}
    BY <1>3 DEF Bounce
  <2>2. resets' \subseteq Hosts
    BY <1>1, <1>3, DatagramsAreOwned, Owners DEF Bounce
  <2>3. QED
    BY <1>1, <2>1, <2>2, DatagramsAreOwned, NetworkMoves
<1>4. ASSUME Noise
      PROVE  DiscoveryInv'
  <2>1. PICK a \in Strays, up \in BOOLEAN : net' = net \cup {[kind |-> "NOISE", at |-> a, up |-> up]}
    BY <1>4 DEF Noise
  <2>2. UNCHANGED <<running, resets, peers, userVars, search, disturbed>>
    BY <1>4 DEF Noise, receiverVars
  <2>3. Owned(a)
    BY DiscoveryAssumption DEF Owned
  <2>4. [kind |-> "NOISE", at |-> a, up |-> up] \in Datagram /\ Sound([kind |-> "NOISE", at |-> a, up |-> up])
    BY <2>3, Owners DEF Datagram, Kinds, Sound
  <2>5. \A e \in net' : e \in Datagram /\ Sound(e)
    BY <2>1, <2>3, <2>4, DatagramsAreOwned
  <2>6. QED
    BY <1>1, <2>1, <2>2, <2>5, NetworkMoves
<1>5. QED
  BY <1>2, <1>3, <1>4

-----------------------------------------------------------------------------
(* A step of the search that leaves the hosts alone.                       *)
LEMMA SearchMoves ==
    ASSUME DiscoveryInv, UNCHANGED <<receiverVars, peers>>,
           TypeOK', DatagramInv', FoundInv', SearchInv', Heard',
           search'.pc \notin {"chosen", "ambiguous"}
    PROVE  DiscoveryInv'
BY DEF DiscoveryInv, NoSilentChoice

LEMMA ReadsLine ==
    ASSUME DiscoveryInv, ReadLine
    PROVE  DiscoveryInv'
<1>1. line \in Lines
  BY DEF ReadLine, DiscoveryInv, SearchInv
<1>2. /\ search' \in {[search EXCEPT !.pc = "none"], [search EXCEPT !.pc = "start"]}
      /\ line' = None /\ UNCHANGED <<receiverVars, net, peers, disturbed>>
      /\ input' \in {input, None} \cup Names \cup {Blank} \cup Address
  BY <1>1, LinesAssumption DEF ReadLine
<1>3. TypeOK'
  <2>1. \/ input' \in {None, Blank} \cup Names
        \/ input' \in Address
    BY <1>2 DEF DiscoveryInv, TypeOK
  <2>2. QED
    BY <1>2, <2>1 DEF DiscoveryInv, TypeOK, Stage, receiverVars
<1>4. search'.pc \in {"none", "start"} /\ search'.found = search.found
  BY <1>2 DEF DiscoveryInv, TypeOK
<1>5. DatagramInv' /\ FoundInv'
  BY <1>2, <1>4 DEF DiscoveryInv, DatagramInv, FoundInv
<1>6. SearchInv' /\ Heard'
  BY <1>4 DEF SearchInv, Heard
<1>7. QED
  BY <1>2, <1>3, <1>4, <1>5, <1>6, SearchMoves

(* What can be reached is asked by way of one of the targets.              *)
LEMMA TargetsReach ==
    ASSUME TypeOK, NEW a \in Reachable
    PROVE  \E target \in BroadcastAddresses \cup OnlinePeers : a \in Reached(target)
<1>1. a \in UNION {AddressesOf[h] : h \in Hosts}
  BY DEF Reachable, Responders, TypeOK
<1>2. CASE \E i \in Interfaces : ~i.special /\ OnLink(a, i) /\ Broadcast(i) # i.ip
  <2>1. PICK i \in Interfaces : ~i.special /\ OnLink(a, i) /\ Broadcast(i) # i.ip
    BY <1>2
  <2>2. Broadcast(i) \in BroadcastAddresses /\ a \in Reached(Broadcast(i))
    BY <1>1, <2>1 DEF BroadcastAddresses, Reached
  <2>3. QED
    BY <2>2
<1>3. CASE peers # None /\ \E p \in peers : p.online /\ a \in p.ips
  <2>1. a \in OnlinePeers
    BY <1>3 DEF OnlinePeers
  <2>2. a \in Reached(a)
    BY <1>1 DEF Reached
  <2>3. QED
    BY <2>1, <2>2
<1>4. QED
  BY <1>2, <1>3 DEF Reachable

LEMMA TargetsAreAddresses == TypeOK => BroadcastAddresses \cup OnlinePeers \subseteq Address
<1>1. \A i \in Interfaces : Broadcast(i) \in Address
  BY DiscoveryAssumption DEF Broadcast, Address
<1>2. TypeOK => OnlinePeers \subseteq Address
  <2>1. TypeOK /\ peers # None => peers \in SUBSET [online : BOOLEAN, ips : SUBSET Address]
    BY DiscoveryAssumption DEF TypeOK
  <2>2. QED
    BY <2>1 DEF OnlinePeers
<1>3. QED
  BY <1>1, <1>2 DEF BroadcastAddresses

LEMMA StartsSearch ==
    ASSUME DiscoveryInv, StartSearch
    PROVE  DiscoveryInv'
<1> DEFINE all == BroadcastAddresses \cup OnlinePeers
<1>1. UNCHANGED <<receiverVars, net, peers, userVars, disturbed>>
  BY DEF StartSearch
<1>2. CASE IsAddress(input)
  <2>1. search' = [search EXCEPT !.pc = "chosen", !.chosen = input]
    BY <1>2 DEF StartSearch
  <2>2. input \in Address /\ input \notin Names
    BY <1>2 DEF IsAddress, DiscoveryInv, TypeOK
  <2>3. search'.pc = "chosen" /\ search'.found = search.found
    BY <2>1 DEF DiscoveryInv, TypeOK
  <2>4. TypeOK'
    BY <1>1, <2>1, <2>2 DEF DiscoveryInv, TypeOK, Stage, receiverVars, userVars
  <2>5. DatagramInv' /\ FoundInv' /\ SearchInv' /\ Heard'
    BY <1>1, <2>3 DEF DiscoveryInv, DatagramInv, FoundInv, SearchInv, Heard
  <2>6. NoSilentChoice'
    BY <1>1, <2>2, <2>3 DEF NoSilentChoice, userVars
  <2>7. QED
    BY <2>4, <2>5, <2>6 DEF DiscoveryInv
<1>3. CASE ~IsAddress(input) /\ all = {}
  <2>1. search' = [search EXCEPT !.pc = "resolve"]
    BY <1>3 DEF StartSearch
  <2>2. search'.pc = "resolve" /\ search'.found = search.found
    BY <2>1 DEF DiscoveryInv, TypeOK
  <2>3. TypeOK'
    BY <1>1, <2>1 DEF DiscoveryInv, TypeOK, Stage, receiverVars, userVars
  <2>4. DatagramInv' /\ FoundInv' /\ SearchInv'
    BY <1>1, <2>2 DEF DiscoveryInv, DatagramInv, FoundInv, SearchInv
  <2>5. Reachable' = {}
    <3>1. Reachable' = Reachable
      BY <1>1 DEF Reachable, Responders, receiverVars
    <3>2. QED
      BY <1>3, <3>1, TargetsReach DEF DiscoveryInv
  <2>6. Heard'
    BY <2>5 DEF Heard
  <2>7. QED
    BY <1>1, <2>2, <2>3, <2>4, <2>6, SearchMoves
<1>4. CASE ~IsAddress(input) /\ all # {}
  <2>1. search' = [search EXCEPT !.pc = "send", !.targets = all]
    BY <1>4 DEF StartSearch
  <2>2. search'.pc = "send" /\ search'.found = search.found /\ search'.targets = all
    BY <2>1 DEF DiscoveryInv, TypeOK
  <2>3. TypeOK'
    BY <1>1, <2>1, TargetsAreAddresses DEF DiscoveryInv, TypeOK, Stage, receiverVars, userVars
  <2>4. DatagramInv' /\ FoundInv' /\ SearchInv'
    BY <1>1, <1>4, <2>2 DEF DiscoveryInv, DatagramInv, FoundInv, SearchInv
  <2>5. \A a \in Reachable' : Due(a)'
    <3>1. Reachable' = Reachable
      BY <1>1 DEF Reachable, Responders, receiverVars
    <3>2. \A a \in Reachable : \E target \in all : a \in Reached(target)
      BY TargetsReach DEF DiscoveryInv
    <3>3. QED
      BY <2>2, <3>1, <3>2 DEF Due, Reached
  <2>6. Heard'
    BY <2>2, <2>5 DEF Heard
  <2>7. QED
    BY <1>1, <2>2, <2>3, <2>4, <2>6, SearchMoves
<1>5. QED
  BY <1>2, <1>3, <1>4

(* Whoever a target stands for has been asked once it is sent to.          *)
LEMMA Sends ==
    ASSUME DiscoveryInv, NEW target \in search.targets, SendTo(target) \/ SendFails(target)
    PROVE  DiscoveryInv'
<1>1. CASE SendTo(target)
  <2>1. /\ search' = [search EXCEPT !.targets = @ \ {target}, !.sent = TRUE]
        /\ net' = net \cup {Up("DISCOVER", a) : a \in Reached(target)}
        /\ UNCHANGED <<receiverVars, peers, userVars, disturbed>>
        /\ search.pc = "send"
    BY <1>1 DEF SendTo
  <2>2. /\ search'.pc = "send" /\ search'.found = search.found /\ search'.sent
        /\ search'.targets = search.targets \ {target}
    BY <2>1 DEF DiscoveryInv, TypeOK
  <2>3. \A a \in Reached(target) : Up("DISCOVER", a) \in Datagram /\ Sound(Up("DISCOVER", a))
    <3>1. \A a \in Reached(target) : Owned(a) /\ a \in Address
      BY Owners DEF Reached, Owned
    <3>2. QED
      BY <3>1 DEF Up, Datagram, Kinds, Sound
  <2>4. TypeOK'
    <3>1. net' \subseteq Datagram
      BY <2>1, <2>3 DEF DiscoveryInv, TypeOK
    <3>2. search' \in [pc : Stage, targets : SUBSET Address, sent : BOOLEAN, ticks : 0 .. Window,
                       found : Seq(Device), chosen : {None} \cup Address]
      BY <2>1 DEF DiscoveryInv, TypeOK
    <3>3. QED
      BY <2>1, <3>1, <3>2 DEF DiscoveryInv, TypeOK, receiverVars, userVars
  <2>5. DatagramInv' /\ FoundInv' /\ SearchInv'
    BY <2>1, <2>2, <2>3 DEF DiscoveryInv, DatagramInv, FoundInv, SearchInv
  <2>6. Heard'
    <3>1. Reachable' = Reachable
      BY <2>1 DEF Reachable, Responders, receiverVars
    <3>2. \A a : UnderWay(a) => UnderWay(a)'
      BY <2>1, <2>2 DEF UnderWay, Found, Up, Down
    <3>3. \A a : Due(a) => Due(a)' \/ Up("DISCOVER", a) \in net'
      BY <2>1, <2>2 DEF Due, Reached
    <3>4. \A a : Up("DISCOVER", a) \in net' => UnderWay(a)'
      BY DEF UnderWay, Up
    <3>5. QED
      BY <2>1, <2>2, <3>1, <3>2, <3>3, <3>4 DEF DiscoveryInv, Heard
  <2>7. QED
    BY <2>1, <2>2, <2>4, <2>5, <2>6, SearchMoves
<1>2. CASE SendFails(target)
  <2>1. /\ search' = [search EXCEPT !.targets = @ \ {target}]
        /\ disturbed'
        /\ UNCHANGED <<receiverVars, net, peers, userVars>>
        /\ search.pc = "send" /\ disturbed' \in BOOLEAN
    BY <1>2 DEF SendFails
  <2>2. search'.pc = "send" /\ search'.found = search.found
    BY <2>1 DEF DiscoveryInv, TypeOK
  <2>3. TypeOK'
    BY <2>1 DEF DiscoveryInv, TypeOK, receiverVars, userVars
  <2>4. DatagramInv' /\ FoundInv' /\ SearchInv' /\ Heard'
    BY <2>1, <2>2 DEF DiscoveryInv, DatagramInv, FoundInv, SearchInv, Heard
  <2>5. QED
    BY <2>1, <2>2, <2>3, <2>4, SearchMoves
<1>3. QED
  BY <1>1, <1>2

LEMMA Opens ==
    ASSUME DiscoveryInv, OpenWindow
    PROVE  DiscoveryInv'
<1>1. /\ search.pc = "send" /\ search.targets = {}
      /\ search' = IF search.sent THEN [search EXCEPT !.pc = "collect", !.ticks = Window]
                                  ELSE [search EXCEPT !.pc = "resolve"]
      /\ UNCHANGED <<receiverVars, net, peers, userVars, disturbed>>
  BY DEF OpenWindow
<1>2. /\ search'.found = search.found
      /\ search.sent => search'.pc = "collect" /\ search'.ticks = Window
      /\ ~search.sent => search'.pc = "resolve"
      /\ Window \in Nat \ {0} /\ Window \in 0 .. Window
  BY <1>1, DiscoveryAssumption DEF DiscoveryInv, TypeOK
<1>3. TypeOK'
  BY <1>1, <1>2 DEF DiscoveryInv, TypeOK, Stage, receiverVars, userVars
<1>4. DatagramInv' /\ FoundInv' /\ SearchInv'
  BY <1>1, <1>2 DEF DiscoveryInv, DatagramInv, FoundInv, SearchInv
<1>5. Heard'
  <2>1. Reachable' = Reachable
    BY <1>1 DEF Reachable, Responders, receiverVars
  <2>2. \A a : ~Due(a) /\ UnderWay(a)' = UnderWay(a)
    BY <1>1, <1>2 DEF Due, UnderWay, Found, Up, Down
  <2>3. ~search.sent => disturbed
    BY <1>1 DEF DiscoveryInv, SearchInv
  <2>4. QED
    BY <1>1, <1>2, <2>1, <2>2, <2>3 DEF DiscoveryInv, Heard
<1>6. QED
  BY <1>1, <1>2, <1>3, <1>4, <1>5, SearchMoves

(* An answer is taken from the network to the devices, or it is this       *)
(* host's own.                                                             *)
LEMMA Collects ==
    ASSUME DiscoveryInv, NEW d \in net, Collect(d)
    PROVE  DiscoveryInv'
<1> DEFINE more == Collected(d)
<1>1. /\ search.pc = "collect" /\ ~d.up
      /\ net' \in {net \ {d}, net}
      /\ search' = [search EXCEPT !.found = more]
      /\ UNCHANGED <<receiverVars, peers, userVars, disturbed>>
  BY DEF Collect, Delivered
<1>2. /\ d \in Datagram /\ Owned(d.at) /\ d.at \in Address /\ Announced(d.at) \in Device
      /\ search.found \in Seq(Device)
      /\ \A m, n \in DOMAIN search.found : search.found[m] = search.found[n] => m = n
  BY DatagramsAreOwned, Owners DEF DiscoveryInv, TypeOK, FoundInv
<1>3. /\ more \in Seq(Device)
      /\ \A n \in DOMAIN more : \/ more[n] = Announced(d.at) /\ d.at \notin LocalAddresses
                                   /\ d.kind = "ANNOUNCE"
                                \/ n \in DOMAIN search.found /\ more[n] = search.found[n]
      /\ d.kind = "ANNOUNCE" /\ d.at \notin LocalAddresses =>
            \E n \in DOMAIN more : more[n] = Announced(d.at)
      /\ \A n \in DOMAIN search.found : n \in DOMAIN more /\ more[n] = search.found[n]
      /\ \A m, n \in DOMAIN more : more[m] = more[n] => m = n
  <2>1. CASE d.kind # "ANNOUNCE" \/ d.at \in LocalAddresses
    BY <1>2, <2>1 DEF Collected, IsLocalSource
  <2>2. CASE ~(d.kind # "ANNOUNCE" \/ d.at \in LocalAddresses)
    <3>1. more = AddNew(search.found, Announced(d.at))
      BY <2>2 DEF Collected, IsLocalSource
    <3> HIDE DEF more
    <3> DEFINE new == Announced(d.at)
               old == search.found
    <3>2. new \in Device /\ old \in Seq(Device) /\ more = AddNew(old, new)
          /\ \A m, n \in DOMAIN old : old[m] = old[n] => m = n
      BY <1>2, <3>1
    <3> HIDE DEF new, old
    <3>3. /\ more \in Seq(Device)
          /\ \A n \in DOMAIN more : \/ more[n] = new
                                    \/ n \in DOMAIN old /\ more[n] = old[n]
          /\ \E n \in DOMAIN more : more[n] = new
          /\ \A n \in DOMAIN old : n \in DOMAIN more /\ more[n] = old[n]
          /\ \A m, n \in DOMAIN more : more[m] = more[n] => m = n
      BY <3>2, AddsNew
    <3>4. QED
      BY <2>2, <3>3 DEF new, old
  <2>3. QED
    BY <2>1, <2>2
<1> HIDE DEF more
<1>4. search'.pc = "collect" /\ search'.found = more /\ search'.ticks = search.ticks
      /\ search'.targets = search.targets
  BY <1>1 DEF DiscoveryInv, TypeOK
<1>5. TypeOK'
  BY <1>1, <1>3 DEF DiscoveryInv, TypeOK, receiverVars, userVars
<1>6. DatagramInv' /\ SearchInv'
  BY <1>1, <1>4 DEF DiscoveryInv, DatagramInv, SearchInv
<1>7. FoundInv'
  <2>1. d.kind = "ANNOUNCE" => Serves[OwnerOf(d.at)] = V02
    BY <1>1, DatagramsAreOwned DEF Sound
  <2>2. QED
    BY <1>2, <1>3, <1>4, <2>1 DEF DiscoveryInv, FoundInv
<1>8. Heard'
  <2>1. Reachable' = Reachable
    BY <1>1 DEF Reachable, Responders, receiverVars
  <2>2. \A a : Announced(a) \in Found => Announced(a) \in Found'
    BY <1>3, <1>4 DEF Found
  <2>3. \A a : Up("DISCOVER", a) # d
    BY <1>1 DEF Up
  <2>4. \A a : Down("ANNOUNCE", a) = d => a = d.at /\ d.kind = "ANNOUNCE"
    BY DEF Down
  <2>5. \A a : a \notin LocalAddresses /\ Down("ANNOUNCE", a) = d => Announced(a) \in Found'
    BY <1>3, <1>4, <2>4 DEF Found
  <2>6. \A a : a \notin LocalAddresses /\ UnderWay(a) => UnderWay(a)'
    <3>1. ASSUME NEW a, a \notin LocalAddresses, UnderWay(a)
          PROVE  \/ Up("DISCOVER", a) \in net'
                 \/ Down("ANNOUNCE", a) \in net'
                 \/ Announced(a) \in Found'
      BY <1>1, <2>2, <2>3, <2>5, <3>1 DEF UnderWay
    <3>2. QED
      BY <3>1 DEF UnderWay, Up, Down
  <2>7. QED
    BY <1>1, <1>4, <2>1, <2>6 DEF DiscoveryInv, Heard
<1>9. QED
  BY <1>1, <1>4, <1>5, <1>6, <1>7, <1>8, SearchMoves

(* When the window closes undisturbed, nothing is on its way any more.     *)
LEMMA Ticks ==
    ASSUME DiscoveryInv, Tick
    PROVE  DiscoveryInv'
<1>1. /\ search.pc = "collect" /\ search.ticks \in 1 .. Window
      /\ search' = IF search.ticks > 1 THEN [search EXCEPT !.ticks = @ - 1]
                   ELSE [search EXCEPT !.ticks = 0, !.pc = "resolve"]
      /\ disturbed' = (disturbed \/ (search.ticks = 1 /\ \E d \in net : d.kind # "NOISE"))
      /\ UNCHANGED <<receiverVars, net, peers, userVars>>
  BY DiscoveryAssumption DEF Tick, DiscoveryInv, TypeOK, SearchInv
<1>2. /\ search'.found = search.found
      /\ search.ticks > 1 => search'.pc = "collect" /\ search'.ticks = search.ticks - 1
      /\ search.ticks = 1 => search'.pc = "resolve"
  BY <1>1, DiscoveryAssumption DEF DiscoveryInv, TypeOK
<1>3. TypeOK'
  <2>1. search' \in [pc : Stage, targets : SUBSET Address, sent : BOOLEAN, ticks : 0 .. Window,
                     found : Seq(Device), chosen : {None} \cup Address]
    <3>1. /\ search.ticks > 1 => search.ticks - 1 \in 0 .. Window
          /\ 0 \in 0 .. Window /\ {"collect", "resolve"} \subseteq Stage
      BY <1>1, DiscoveryAssumption DEF Stage
    <3>2. QED
      BY <1>1, <3>1 DEF DiscoveryInv, TypeOK
  <2>2. disturbed' \in BOOLEAN
    BY <1>1 DEF DiscoveryInv, TypeOK
  <2>3. QED
    BY <1>1, <2>1, <2>2 DEF DiscoveryInv, TypeOK, receiverVars, userVars
<1>4. DatagramInv' /\ FoundInv' /\ SearchInv'
  BY <1>1, <1>2, DiscoveryAssumption DEF DiscoveryInv, DatagramInv, FoundInv, SearchInv
<1>5. Heard'
  <2>1. Reachable' = Reachable
    BY <1>1 DEF Reachable, Responders, receiverVars
  <2>2. \A a : (Announced(a) \in Found)' = (Announced(a) \in Found)
    BY <1>2 DEF Found
  <2>3. \A a : UnderWay(a) => UnderWay(a)'
    BY <1>1, <2>2 DEF UnderWay, Up, Down
  <2>4. ASSUME ~disturbed', search.ticks = 1, NEW a, UnderWay(a)
        PROVE  Announced(a) \in Found
    <3>1. \A d \in net : d.kind = "NOISE"
      BY <1>1, <2>4
    <3>2. Up("DISCOVER", a).kind # "NOISE" /\ Down("ANNOUNCE", a).kind # "NOISE"
      BY DEF Up, Down
    <3>3. QED
      BY <2>4, <3>1, <3>2 DEF UnderWay
  <2>5. QED
    <3>1. ~disturbed' => \A a \in Reachable \ LocalAddresses : UnderWay(a)
      BY <1>1 DEF DiscoveryInv, Heard
    <3>2. CASE search.ticks = 1
      BY <1>2, <2>1, <2>2, <2>4, <3>1, <3>2 DEF Heard
    <3>3. CASE search.ticks > 1
      BY <1>2, <2>1, <2>3, <3>1, <3>3 DEF Heard
    <3>4. QED
      BY <1>1, <3>2, <3>3, DiscoveryAssumption
<1>6. QED
  BY <1>1, <1>2, <1>3, <1>4, <1>5, SearchMoves

(* The search ends with a list, or without a result.                       *)
LEMMA Ends ==
    ASSUME DiscoveryInv, SearchFails \/ ListDevices
    PROVE  DiscoveryInv'
<1>1. PICK pc \in {"failed", "listed"} :
        /\ search' = [search EXCEPT !.pc = pc]
        /\ UNCHANGED <<receiverVars, net, peers, userVars, disturbed>>
  BY DEF SearchFails, ListDevices
<1>2. search'.pc = pc /\ search'.found = search.found
  BY <1>1 DEF DiscoveryInv, TypeOK
<1>3. TypeOK'
  BY <1>1 DEF DiscoveryInv, TypeOK, Stage, receiverVars, userVars
<1>4. DatagramInv' /\ FoundInv' /\ SearchInv' /\ Heard'
  BY <1>1, <1>2 DEF DiscoveryInv, DatagramInv, FoundInv, SearchInv, Heard
<1>5. QED
  BY <1>1, <1>2, <1>3, <1>4, SearchMoves

(* The one device that bears the name is the only one: every receiver that *)
(* can be reached is among the devices, unless the search was disturbed.   *)
LEMMA Resolves ==
    ASSUME DiscoveryInv, Resolve
    PROVE  DiscoveryInv'
<1> DEFINE matches == IF input = Blank THEN {} ELSE Matches(search.found, input)
<1>1. /\ search.pc = "resolve" /\ input # None
      /\ UNCHANGED <<receiverVars, net, peers, userVars, disturbed>>
      /\ \/ \E n \in matches :
               /\ matches = {n}
               /\ search' = [search EXCEPT !.pc = "chosen", !.chosen = search.found[n].address]
         \/ /\ \A n \in matches : matches # {n}
            /\ search' = [search EXCEPT !.pc = IF matches = {} THEN "unknown" ELSE "ambiguous"]
  BY DEF Resolve
<1>2. matches = {n \in DOMAIN search.found : /\ input # Blank
                                             /\ Folded[search.found[n].name] = Folded[input]}
  BY DEF Matches
<1>3. \A n \in DOMAIN search.found :
        \E a \in Address : /\ Owned(a) /\ Serves[OwnerOf(a)] = V02
                           /\ a \notin LocalAddresses
                           /\ search.found[n] = Announced(a)
                           /\ search.found[n].address = a
                           /\ search.found[n].name = LocalDeviceName(OwnerOf(a))
                           /\ OwnerOf(a) \in Hosts /\ a \in AddressesOf[OwnerOf(a)]
  BY Owners DEF DiscoveryInv, FoundInv
<1> HIDE DEF matches
<1>4. ASSUME NEW n \in matches, matches = {n},
             search' = [search EXCEPT !.pc = "chosen", !.chosen = search.found[n].address]
      PROVE  DiscoveryInv'
  <2>1. PICK a \in Address : /\ Serves[OwnerOf(a)] = V02 /\ a \notin LocalAddresses
                             /\ search.found[n].address = a
                             /\ search.found[n].name = LocalDeviceName(OwnerOf(a))
                             /\ OwnerOf(a) \in Hosts /\ a \in AddressesOf[OwnerOf(a)]
    BY <1>2, <1>3
  <2>2. search'.pc = "chosen" /\ search'.chosen = a /\ search'.found = search.found
    BY <1>4, <2>1 DEF DiscoveryInv, TypeOK
  <2>3. TypeOK'
    BY <1>1, <1>4, <2>1 DEF DiscoveryInv, TypeOK, Stage, receiverVars, userVars
  <2>4. DatagramInv' /\ FoundInv' /\ SearchInv' /\ Heard'
    <3>1. DatagramInv' /\ SearchInv' /\ Heard'
      BY <1>1, <2>2 DEF DiscoveryInv, DatagramInv, SearchInv, Heard
    <3>2. FoundInv'
      BY <2>2 DEF DiscoveryInv, FoundInv
    <3>3. QED
      BY <3>1, <3>2
  <2>5. Reachable' = Reachable
    BY <1>1 DEF Reachable, Responders, receiverVars
  <2>6. ASSUME ~disturbed, NEW b \in Reachable \ LocalAddresses,
               Folded[LocalDeviceName(OwnerOf(b))] = Folded[input]
        PROVE  b = a
    <3>1. PICK m \in DOMAIN search.found : search.found[m] = Announced(b)
      BY <1>1, <2>6 DEF DiscoveryInv, Heard, Found
    <3>2. Announced(b).address = b /\ Announced(b).name = LocalDeviceName(OwnerOf(b))
      BY DEF Announced
    <3>3. input # Blank
      BY <1>2, <1>4
    <3>4. m \in matches
      BY <1>2, <2>6, <3>1, <3>2, <3>3
    <3>5. QED
      BY <1>4, <2>1, <3>1, <3>2, <3>4
  <2>7. Folded[LocalDeviceName(OwnerOf(a))] = Folded[input]
    BY <1>2, <1>4, <2>1
  <2>8. NoSilentChoice'
    <3>1. input' = input /\ disturbed' = disturbed
      BY <1>1 DEF userVars
    <3>2. QED
      BY <2>1, <2>2, <2>5, <2>6, <2>7, <3>1 DEF NoSilentChoice
  <2>9. QED
    BY <2>3, <2>4, <2>8 DEF DiscoveryInv
<1>5. ASSUME \A n \in matches : matches # {n},
             search' = [search EXCEPT !.pc = IF matches = {} THEN "unknown" ELSE "ambiguous"]
      PROVE  DiscoveryInv'
  <2>1. /\ search'.pc \in {"unknown", "ambiguous"} /\ search'.found = search.found
        /\ search'.pc = "ambiguous" => matches # {}
    BY <1>5 DEF DiscoveryInv, TypeOK
  <2>2. TypeOK'
    BY <1>1, <1>5 DEF DiscoveryInv, TypeOK, Stage, receiverVars, userVars
  <2>3. DatagramInv' /\ FoundInv' /\ SearchInv' /\ Heard'
    <3>1. DatagramInv' /\ SearchInv' /\ Heard'
      BY <1>1, <2>1 DEF DiscoveryInv, DatagramInv, SearchInv, Heard
    <3>2. FoundInv'
      BY <2>1 DEF DiscoveryInv, FoundInv
    <3>3. QED
      BY <3>1, <3>2
  <2>4. ASSUME matches # {}
        PROVE  \E c, d \in Found : /\ c.address # d.address /\ Folded[c.name] = Folded[d.name]
                                   /\ Folded[c.name] = Folded[input]
    <3>1. PICK m \in matches, n \in matches : m # n
      BY <1>5, <2>4
    <3>2. /\ m \in DOMAIN search.found /\ n \in DOMAIN search.found
          /\ Folded[search.found[m].name] = Folded[input]
          /\ Folded[search.found[n].name] = Folded[input]
      BY <1>2
    <3>3. search.found[m] # search.found[n]
      BY <3>1, <3>2 DEF DiscoveryInv, FoundInv
    <3>4. search.found[m].address # search.found[n].address
      BY <1>3, <3>2, <3>3
    <3>5. search.found[m] \in Found /\ search.found[n] \in Found
      BY <3>2 DEF Found
    <3>6. QED
      BY <3>2, <3>4, <3>5
  <2>5. NoSilentChoice'
    <3>1. input' = input
      BY <1>1 DEF userVars
    <3>2. Found' = Found
      BY <2>1 DEF Found
    <3>3. QED
      BY <2>1, <2>4, <3>1, <3>2 DEF NoSilentChoice
  <2>6. QED
    BY <2>2, <2>3, <2>5 DEF DiscoveryInv
<1>6. QED
  BY <1>1, <1>4, <1>5

-----------------------------------------------------------------------------
LEMMA DiscoveryStarts == Init => DiscoveryInv
<1> SUFFICES ASSUME Init PROVE DiscoveryInv
  OBVIOUS
<1>1. TypeOK
  <2>1. <<>> \in Seq(Device)
    BY EmptySeq
  <2>2. 0 \in 0 .. Window
    BY DiscoveryAssumption
  <2>3. QED
    BY <2>1, <2>2 DEF Init, TypeOK, Stage
<1>2. DatagramInv /\ SearchInv /\ Heard /\ NoSilentChoice
  BY DEF Init, DatagramInv, SearchInv, Heard, NoSilentChoice
<1>3. FoundInv
  <2>1. DOMAIN search.found = {}
    BY DEF Init
  <2>2. QED
    BY <2>1 DEF FoundInv
<1>4. QED
  BY <1>1, <1>2, <1>3 DEF DiscoveryInv

LEMMA DiscoverySteps == DiscoveryInv /\ [Next]_vars => DiscoveryInv'
<1> SUFFICES ASSUME DiscoveryInv, [Next]_vars PROVE DiscoveryInv'
  OBVIOUS
<1>1. CASE UNCHANGED vars
  BY <1>1 DEF vars, receiverVars, userVars, DiscoveryInv, TypeOK, DatagramInv, FoundInv, SearchInv,
              Heard, NoSilentChoice, Reachable, Responders, Found, Due, Reached, UnderWay, Up, Down
<1>2. CASE SearchRuns
  BY <1>2, ReadsLine, StartsSearch, Sends, Opens, Ticks, Ends, Resolves DEF SearchRuns
<1>3. QED
  BY <1>1, <1>2, HostSteps, NetworkSteps, Collects, Ends DEF Next

(* The whole invariant, in every reachable state. *)
THEOREM DiscoveryInvHolds == Spec => []DiscoveryInv
BY DiscoveryStarts, DiscoverySteps, PTL DEF Spec

THEOREM DiscoveryTypes == Spec => []TypeOK
<1>1. DiscoveryInv => TypeOK
  BY DEF DiscoveryInv
<1>2. QED
  BY <1>1, DiscoveryInvHolds, PTL

(* A search that nothing disturbed finds every 0.2 receiver that runs, by  *)
(* every way to it but a network whose last address the searching host     *)
(* itself has, as the code sends nothing there; and never its own host nor *)
(* a 0.3 receiver.                                                         *)
THEOREM AllAreFound == Spec => []UndisturbedFindsAll
<1>1. ASSUME DiscoveryInv, search.pc = "resolve", ~disturbed
      PROVE  /\ \A a \in Reachable \ LocalAddresses : Announced(a) \in Found
             /\ \A d \in Found : d.address \notin LocalAddresses /\ Serves[OwnerOf(d.address)] = V02
  BY <1>1, Owners DEF DiscoveryInv, Heard, FoundInv, Found
<1>2. DiscoveryInv => UndisturbedFindsAll
  BY <1>1 DEF UndisturbedFindsAll
<1>3. QED
  BY <1>2, DiscoveryInvHolds, PTL

(* No 0.2 receiver is chosen silently among several, and no other at all. *)
THEOREM ChoicesAreNotSilent == Spec => []NoSilentChoice
<1>1. DiscoveryInv => NoSilentChoice
  BY DEF DiscoveryInv
<1>2. QED
  BY <1>1, DiscoveryInvHolds, PTL

(* What ends a receiver is a report, or an answer it cannot send. *)
THEOREM ReceiversEndOnReports == Spec => EndsOnReportOnly
<1> DEFINE Reason(h) == \/ h \in resets
                        \/ \E d \in net : d.up /\ d.kind = "DISCOVER" /\ d.at \in AddressesOf[h]
<1>1. ASSUME Next, NEW h \in running \ running'
      PROVE  Reason(h)
  <2>1. ASSUME NEW g \in Hosts, HostRuns(g)
        PROVE  Reason(h)
    BY <1>1, <2>1 DEF HostRuns, Respond, AnswerFails, ResponderFails, Unheard, receiverVars
  <2>2. ASSUME SearchRuns \/ SearchFails \/ Noise \/ \E d \in net : Collect(d) \/ Lose(d) \/ Bounce(d)
        PROVE  UNCHANGED running
    <3>1. CASE SearchRuns
      BY <3>1 DEF SearchRuns, ReadLine, StartSearch, SendTo, SendFails, OpenWindow, Tick,
                  ListDevices, Resolve, receiverVars
    <3>2. CASE SearchFails \/ Noise
      BY <3>2 DEF SearchFails, Noise, receiverVars
    <3>3. CASE \E d \in net : Collect(d) \/ Lose(d) \/ Bounce(d)
      BY <3>3 DEF Collect, Lose, Bounce, receiverVars
    <3>4. QED
      BY <2>2, <3>1, <3>2, <3>3
  <2>3. QED
    BY <1>1, <2>1, <2>2 DEF Next
<1>2. [Next]_vars => [\A h \in running \ running' : Reason(h)]_vars
  BY <1>1
<1>3. QED
  BY <1>2, PTL DEF Spec, EndsOnReportOnly
=============================================================================
