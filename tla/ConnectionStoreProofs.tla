----------------------- MODULE ConnectionStoreProofs ------------------------
(***************************************************************************)
(* Proofs about ConnectionStore: what is dialed has a scheme and is a URL  *)
(* if the address was one or a host, bad ports heal but for what callers   *)
(* come with, known records and identities stay, for any number of tasks,  *)
(* hosts, ports, typed addresses, old records and failing transactions.    *)
(***************************************************************************)
EXTENDS ConnectionStore, SequenceTheorems, TLAPS

\* A pair and one more are three.
LEMMA AppendToPair ==
  ASSUME NEW a, NEW b, NEW c
  PROVE  Append(<<a, b>>, c) = <<a, b, c>>
<1> DEFINE S == {a, b, c}
           pair == <<a, b>>
           triple == <<a, b, c>>
<1>0. Len(pair) = 2 /\ pair[1] = a /\ pair[2] = b
  OBVIOUS
<1>1. pair \in Seq(S) /\ c \in S
  OBVIOUS
<1>2. /\ triple \in Seq(S) /\ Len(triple) = 3
      /\ triple[1] = a /\ triple[2] = b /\ triple[3] = c
  OBVIOUS
<1> HIDE DEF S, pair, triple
<1>3. Append(pair, c) \in Seq(S) /\ Len(Append(pair, c)) = Len(pair) + 1
  BY <1>1, AppendProperties
<1>4. (\A i \in 1..Len(pair) : Append(pair, c)[i] = pair[i]) /\ Append(pair, c)[Len(pair) + 1] = c
  BY <1>1, AppendProperties
<1>5. Append(pair, c)[1] = a /\ Append(pair, c)[2] = b /\ Append(pair, c)[3] = c
  BY <1>0, <1>4
<1>6. \A i \in 1..3 : i = 1 \/ i = 2 \/ i = 3
  OBVIOUS
<1>7. Append(pair, c) = triple
  BY <1>0, <1>2, <1>3, <1>5, <1>6, SeqEqual
<1> QED BY <1>7 DEF pair, triple

LEMMA PairAndOne ==
  ASSUME NEW a, NEW b, NEW c
  PROVE  <<a, b>> \o <<c>> = <<a, b, c>>
<1> DEFINE S == {a, b, c}
<1>1. <<a, b>> \in Seq(S) /\ c \in S
  OBVIOUS
<1>2. <<a, b>> \o <<c>> = Append(<<a, b>>, c)
  BY <1>1
<1> QED BY <1>2, AppendToPair

\* Pairs and triples are sequences.
LEMMA PairIsSeq ==
  ASSUME NEW S, NEW a \in S, NEW b \in S
  PROVE  <<a, b>> \in Seq(S) /\ Len(<<a, b>>) = 2 /\ <<a, b>>[2] = b
OBVIOUS

LEMMA TripleIsSeq ==
  ASSUME NEW S, NEW a \in S, NEW b \in S, NEW c \in S
  PROVE  <<a, b, c>> \in Seq(S) /\ Len(<<a, b, c>>) = 3 /\ <<a, b, c>>[2] = b
OBVIOUS

LEMMA ValidPorts == \A port : ValidPort(port) \in Ports \cup {""}
  BY DEF ValidPort

LEMMA ParsedPorts == \A address : ParsePort(address) \in Ports \cup {""}
  BY ValidPorts DEF ParsePort

-----------------------------------------------------------------------------
(* Addresses.                                                              *)

\* A part behind an address leaves it its scheme.
LEMMA AppendKeepsScheme ==
  ASSUME NEW address \in Schemed, NEW part \in Parts
  PROVE  Append(address, part) \in Schemed
<1>1. address \in Seq(Parts)
  BY DEF Schemed
<1>2. PICK i \in 2..Len(address) : address[i] \in Slashed
  BY DEF Schemed, HasScheme
<1>3. /\ Append(address, part) \in Seq(Parts)
      /\ Len(Append(address, part)) = Len(address) + 1
      /\ \A j \in 1..Len(address) : Append(address, part)[j] = address[j]
  BY <1>1, AppendProperties
<1>4. Len(address) \in Nat
  BY <1>1, LenProperties, Zenon
<1> DEFINE longer == Append(address, part)
<1>5. /\ i \in 1..Len(address) /\ i \in 2..Len(longer)
  BY <1>2, <1>3, <1>4
<1>6. longer[i] \in Slashed
  BY <1>2, <1>3, <1>5
<1> HIDE DEF longer
<1>7. HasScheme(longer)
  BY <1>5, <1>6 DEF HasScheme
<1> QED BY <1>3, <1>7 DEF Schemed, longer

\* "ws://" in front of an address is a scheme.
LEMMA WithSchemeHasScheme ==
  ASSUME NEW address \in Bare
  PROVE  WithScheme(address) \in Schemed
<1> DEFINE host == Authority[address[1]]
           front == <<"ws", host>>
           tail == Tail(address)
<1>1. address \in Seq(Parts) /\ address # << >> /\ address[1] \in Hosts
  BY DEF Bare
<1>2. host \in Slashed /\ host \in Parts
  BY <1>1, AuthorityAssumption, SlashedAssumption
<1>3. "ws" \in Parts
  BY PartsAssumption
<1>4. front \in Seq(Parts) /\ Len(front) = 2 /\ front[2] = host
  BY <1>2, <1>3, PairIsSeq, Zenon
<1>5. tail \in Seq(Parts)
  BY <1>1, HeadTailProperties, Zenon
<1> HIDE DEF front, tail, host
<1>6. Len(tail) \in Nat
  BY <1>5, LenProperties, Zenon
<1>7. /\ front \o tail \in Seq(Parts)
      /\ Len(front \o tail) = Len(front) + Len(tail)
      /\ \A i \in 1 .. Len(front) + Len(tail) : (front \o tail)[i] =
            IF i <= Len(front) THEN front[i] ELSE tail[i - Len(front)]
  BY <1>4, <1>5, ConcatProperties, Zenon
<1>8. 2 \in 2..Len(front \o tail) /\ (front \o tail)[2] \in Slashed
  <2>1. 2 \in 1 .. Len(front) + Len(tail) /\ 2 <= Len(front) /\ 2 \in 2..Len(front \o tail)
    BY <1>4, <1>6, <1>7
  <2>2. (front \o tail)[2] = front[2]
    BY <1>7, <2>1
  <2> QED BY <1>2, <1>4, <2>1, <2>2
<1>9. HasScheme(front \o tail)
  BY <1>8 DEF HasScheme
<1> QED BY <1>7, <1>9 DEF Schemed, WithScheme, front, tail, host

\* Whatever was typed in, what to_ws_url makes of it has a scheme.
LEMMA ToWsUrlHasScheme ==
  ASSUME NEW address \in Addresses, address # << >>, NEW port
  PROVE  ToWsUrl(address, port) \in Schemed
<1>1. CASE HasScheme(address)
  BY <1>1 DEF ToWsUrl, Addresses, Bare, Schemed
<1>2. CASE ~HasScheme(address)
  <2>1. WithScheme(address) \in Schemed
    BY <1>2, WithSchemeHasScheme DEF Addresses, Schemed
  <2>2. CASE ParsePort(address) # "" \/ ValidPort(port) = ""
    BY <1>2, <2>1, <2>2 DEF ToWsUrl
  <2>3. CASE ~(ParsePort(address) # "" \/ ValidPort(port) = "")
    <3>1. port \in Parts
      BY <2>3, PortsAssumption DEF ValidPort
    <3>2. ToWsUrl(address, port) = Append(WithScheme(address), port)
      BY <1>2, <2>3 DEF ToWsUrl
    <3> QED BY <2>1, <3>1, <3>2, AppendKeepsScheme
  <2> QED BY <2>2, <2>3
<1> QED BY <1>1, <1>2

\* A URL has a scheme; a host has none, with a port or without.
LEMMA UrlsHaveSchemes ==
  ASSUME NEW address \in Urls
  PROVE  HasScheme(address)
<1>1. PICK h \in Hosts : Len(address) \in {2, 3} /\ address[2] = Authority[h]
  BY DEF Urls
<1> QED BY <1>1, AuthorityAssumption DEF HasScheme

\* A host or a URL becomes a URL: a scheme in front of it, and a port behind it
\* if it had none and there is a real one.
LEMMA ToWsUrlMakesUrl ==
  ASSUME NEW address \in WellFormed, NEW port
  PROVE  ToWsUrl(address, port) \in Urls
<1>1. CASE address \in Urls
  BY <1>1, UrlsHaveSchemes DEF ToWsUrl
<1>2. ASSUME NEW h \in Hosts, address = <<h>> PROVE ToWsUrl(address, port) \in Urls
  <2>0. Len(address) = 1 /\ address[1] = h /\ Tail(address) = << >>
    BY <1>2
  <2>1. ~HasScheme(address) /\ ParsePort(address) = ""
    BY <2>0 DEF ParsePort, HasScheme
  <2>2. WithScheme(address) = <<"ws", Authority[h]>>
    BY <1>2 DEF WithScheme
  <2>3. CASE ValidPort(port) = ""
    <3>1. ToWsUrl(address, port) = <<"ws", Authority[h]>>
      BY <2>1, <2>2, <2>3 DEF ToWsUrl
    <3> QED BY <3>1 DEF Urls
  <2>4. CASE port \in Ports
    <3>1. ToWsUrl(address, port) = Append(<<"ws", Authority[h]>>, port)
      BY <2>1, <2>2, <2>4, PortsAssumption DEF ToWsUrl, ValidPort
    <3>2. Append(<<"ws", Authority[h]>>, port) = <<"ws", Authority[h], port>>
      BY AppendToPair
    <3> QED BY <2>4, <3>1, <3>2 DEF Urls
  <2> QED BY <2>3, <2>4 DEF ValidPort
<1>3. ASSUME NEW h \in Hosts, NEW p \in Ports, address = <<h, p>>
      PROVE  ToWsUrl(address, port) \in Urls
  <2>0. Len(address) = 2 /\ address[1] = h /\ address[2] = p /\ Tail(address) = <<p>>
    BY <1>3
  <2>1. ~HasScheme(address)
    <3>1. p \notin Slashed
      BY SlashedAssumption
    <3>2. \A i \in 2..2 : i = 2
      OBVIOUS
    <3> QED BY <2>0, <3>1, <3>2 DEF HasScheme
  <2>2. ParsePort(address) = p
    BY <2>0 DEF ParsePort, ValidPort
  <2>3. WithScheme(address) = <<"ws", Authority[h]>> \o <<p>>
    BY <2>0 DEF WithScheme
  <2>4. <<"ws", Authority[h]>> \o <<p>> = <<"ws", Authority[h], p>>
    BY PairAndOne
  <2>5. ToWsUrl(address, port) = <<"ws", Authority[h], p>>
    BY <2>1, <2>2, <2>3, <2>4, PortsAssumption DEF ToWsUrl
  <2> QED BY <2>5 DEF Urls
<1> QED BY <1>1, <1>2, <1>3 DEF WellFormed

\* What a scan dials has a scheme, whatever its port.
LEMMA ScanUrlHasScheme ==
  ASSUME NEW host \in Hosts, NEW port \in Parts
  PROVE  ScanUrl(host, port) \in Schemed
<1> DEFINE address == ScanUrl(host, port)
<1>0. "ws" \in Parts
  BY PartsAssumption
<1>1. Authority[host] \in Slashed /\ Authority[host] \in Parts
  BY AuthorityAssumption, SlashedAssumption
<1>2. address \in Seq(Parts) /\ Len(address) = 3 /\ address[2] = Authority[host]
  BY <1>0, <1>1, TripleIsSeq, Zenon DEF ScanUrl
<1> HIDE DEF address
<1>3. HasScheme(address)
  BY <1>1, <1>2 DEF HasScheme
<1>4. address \in Schemed
  BY <1>2, <1>3 DEF Schemed
<1> QED BY <1>4 DEF address

-----------------------------------------------------------------------------
(* Types, and what is dialed.                                              *)

\* Whoever dials, or will have dialed, has an address with a scheme, and so has
\* the sender.
Dialing == /\ serverIp \in Schemed \cup {<< >>}
           /\ \A t \in Tasks : pc[t] \in {"dial", "dialing", "found", "add"} => url[t] \in Schemed

\* Whoever is idle has read nothing; whoever has read a host or a URL dials a URL.
Read == \A t \in Tasks :
  /\ pc[t] = "idle" => info[t] = NoRecord
  /\ pc[t] \in {"dial", "dialing"} /\ info[t] # NoRecord /\ info[t].ip \in WellFormed
       => url[t] \in Urls

IInv == TypeOK /\ Dialing /\ Read

LEMMA Known == /\ Schemed \subseteq Addresses /\ << >> \in Addresses
               /\ NoRecord \in Records /\ ConnectInfo \subseteq Records
               /\ Ports \cup {""} \subseteq Parts /\ "" \in Parts
  BY PortsAssumption, PartsAssumption DEF Addresses, Records

\* A record that is put is a record.
LEMMA PutTyped ==
  ASSUME TypeOK, NEW address \in Addresses, NEW port \in Parts, Put(address, port)
  PROVE  record' \in Records
<1> DEFINE new == [ip |-> address, port |-> IF bebop THEN port ELSE ""]
<1>1. new \in Records
  BY Known DEF ConnectInfo, Records
<1>2. record' \in {new, record}
  BY DEF Put, Outcomes
<1> HIDE DEF new
<1> QED BY <1>1, <1>2 DEF TypeOK

\* What is read of the store is what is there, or nothing.
LEMMA GetTyped ==
  ASSUME TypeOK, NEW t \in Tasks, Get(t)
  PROVE  info' \in [Tasks -> Records] /\ \A u \in Tasks \ {t} : info'[u] = info[u]
<1>1. PICK r \in Records : info' = [info EXCEPT ![t] = r]
  BY Known DEF Get, Results, TypeOK
<1> QED BY <1>1 DEF TypeOK

\* A task that leaves knows nothing any more.
LEMMA LeaveKeeps ==
  ASSUME IInv, NEW t \in Tasks, Leave(t), UNCHANGED <<bebop, clientId, boot>>,
         isTryConnect' \in BOOLEAN, serverIp' \in Schemed \cup {<< >>}, record' \in Records
  PROVE  IInv'
<1>1. TypeOK'
  BY Known DEF IInv, Leave, Goto, TypeOK, Places
<1>2. Dialing'
  BY DEF IInv, Leave, Goto, TypeOK, Dialing
<1>3. Read'
  BY DEF IInv, Leave, Goto, TypeOK, Read
<1> QED BY <1>1, <1>2, <1>3 DEF IInv

\* A task that goes on without a new address.
LEMMA GoesOnKeeps ==
  ASSUME IInv, NEW t \in Tasks, NEW step \in Places, Goto(t, step),
         UNCHANGED <<bebop, clientId, boot, serverIp, url>>,
         isTryConnect' \in BOOLEAN, record' \in Records,
         input' \in [Tasks -> Inputs \cup {NoInput}], info' \in [Tasks -> Records],
         \A u \in Tasks \ {t} : info'[u] = info[u],
         step \in {"found", "add"} => pc[t] \in {"dial", "dialing", "found", "add"},
         step \in {"dial", "dialing"} => pc[t] \in {"dial", "dialing"} /\ info'[t] = info[t],
         step # "idle"
  PROVE  IInv'
<1>1. TypeOK'
  BY DEF IInv, Goto, TypeOK
<1>2. Dialing'
  BY DEF IInv, Goto, TypeOK, Dialing
<1>3. Read'
  BY DEF IInv, Goto, TypeOK, Read
<1> QED BY <1>1, <1>2, <1>3 DEF IInv

\* A task that goes on to dial, or has dialed, an address with a scheme.
LEMMA DialKeeps ==
  ASSUME IInv, NEW t \in Tasks, NEW step \in Places \ {"idle"}, Goto(t, step),
         NEW address \in Schemed, url' = [url EXCEPT ![t] = address],
         step \in {"dial", "dialing"} /\ info[t] # NoRecord /\ info[t].ip \in WellFormed
           => address \in Urls,
         UNCHANGED <<settings, boot, serverIp, input, info>>, isTryConnect' \in BOOLEAN
  PROVE  IInv'
<1>1. TypeOK'
  BY Known DEF IInv, Goto, TypeOK, settings
<1>2. Dialing'
  BY DEF IInv, Goto, TypeOK, Dialing
<1>3. Read'
  BY DEF IInv, Goto, TypeOK, Read
<1> QED BY <1>1, <1>2, <1>3 DEF IInv

\* The way to an address.
LEMMA WayKeeps ==
  ASSUME IInv, NEW t \in Tasks,
         \/ AskStore(t) \/ ReservePort(t) \/ DialKnown(t) \/ NoAddress(t)
         \/ ScanFinds(t) \/ Redial(t) \/ TryAcquire(t)
  PROVE  IInv'
<1> USE DEF memory, settings
<1>1. CASE AskStore(t)
  <2>1. input' \in [Tasks -> Inputs \cup {NoInput}]
    BY <1>1 DEF AskStore, IInv, TypeOK
  <2>2. info' \in [Tasks -> Records] /\ \A u \in Tasks \ {t} : info'[u] = info[u]
    BY <1>1, GetTyped DEF AskStore, IInv
  <2> QED BY <1>1, <2>1, <2>2, GoesOnKeeps DEF AskStore, IInv, TypeOK, Places
<1>2. CASE ReservePort(t)
  <2>1. input[t] \in Parts
    BY <1>2, InputsAssumption DEF ReservePort, Reserves, IInv, TypeOK
  <2>2. record' \in Records
    BY <1>2, <2>1, Known, PutTyped DEF ReservePort, IInv
  <2>3. [ip |-> << >>, port |-> input[t]] \in Records
    BY <2>1, Known DEF ConnectInfo, Records
  <2>4. info' \in [Tasks -> Records]
    BY <1>2, <2>3 DEF ReservePort, IInv, TypeOK
  <2>5. TypeOK' /\ Dialing'
    BY <1>2, <2>2, <2>4 DEF ReservePort, IInv, TypeOK, Dialing
  <2>6. Read'
    BY <1>2 DEF ReservePort, Reserves, IInv, TypeOK, Read
  <2> QED BY <2>5, <2>6 DEF IInv
<1>3. CASE DialKnown(t)
  <2>1. info[t] \in ConnectInfo /\ info[t].ip # << >>
    BY <1>3 DEF DialKnown, KnownIp, IInv, TypeOK, Records
  <2>2. ToWsUrl(info[t].ip, ConnectPort(t)) \in Schemed
    BY <2>1, ToWsUrlHasScheme DEF ConnectInfo
  <2>3. info[t].ip \in WellFormed => ToWsUrl(info[t].ip, ConnectPort(t)) \in Urls
    BY ToWsUrlMakesUrl
  <2> QED BY <1>3, <2>2, <2>3, DialKeeps DEF DialKnown, IInv, TypeOK, Places
<1>4. CASE NoAddress(t)
  BY <1>4, LeaveKeeps DEF NoAddress, IInv, TypeOK, Dialing
<1>5. CASE ScanFinds(t)
  <2>1. PICK host \in Hosts, port \in IF pc[t] = "asked" THEN {ConnectPort(t)} ELSE Inputs :
          url' = [url EXCEPT ![t] = ScanUrl(host, port)]
    BY <1>5 DEF ScanFinds
  <2>2. pc[t] = "asked" => ConnectPort(t) \in Parts
    BY <1>5, InputsAssumption DEF ScanFinds, ConnectPort, ConnectInfo, IInv, TypeOK, Records
  <2>3. ScanUrl(host, port) \in Schemed
    BY <2>1, <2>2, ScanUrlHasScheme, InputsAssumption
  <2>4. /\ Goto(t, "found") /\ isTryConnect' \in BOOLEAN
        /\ UNCHANGED <<settings, boot, serverIp, input, info>>
    BY <1>5 DEF ScanFinds
  <2>5. "found" \in Places \ {"idle"} /\ "found" \notin {"dial", "dialing"}
    BY DEF Places
  <2> HIDE DEF settings
  <2> QED BY <2>1, <2>3, <2>4, <2>5, DialKeeps
<1>6. CASE Redial(t)
  <2>1. serverIp \in Schemed /\ info[t] = NoRecord
    BY <1>6 DEF Redial, IInv, Dialing, Read
  <2> QED BY <1>6, <2>1, DialKeeps DEF Redial, IInv, TypeOK, Places
<1>7. CASE TryAcquire(t)
  <2>1. CASE isTryConnect
    BY <1>7, <2>1, LeaveKeeps DEF TryAcquire, IInv, TypeOK, Dialing
  <2>2. CASE ~isTryConnect
    BY <1>7, <2>2, GoesOnKeeps DEF TryAcquire, IInv, TypeOK, Places
  <2> QED BY <2>1, <2>2
<1> QED BY <1>1, <1>2, <1>3, <1>4, <1>5, <1>6, <1>7

\* What comes of a dial.
LEMMA DialedKeeps ==
  ASSUME IInv, NEW t \in Tasks,
         \/ Connected(t) \/ AddStores(t) \/ Ended(t) \/ DialFails(t)
         \/ LoopGivesUp(t) \/ ClearReads(t) \/ ClearWrites(t) \/ ClearRemoves(t)
  PROVE  IInv'
<1> USE DEF memory, settings
<1>1. CASE Connected(t)
  <2>1. url[t] \in Schemed
    BY <1>1 DEF Connected, IInv, Dialing
  <2>2. TypeOK' /\ Dialing'
    BY <1>1, <2>1, Known DEF Connected, Goto, IInv, TypeOK, Dialing, Places
  <2>3. Read'
    BY <1>1 DEF Connected, Goto, IInv, TypeOK, Read
  <2> QED BY <2>2, <2>3 DEF IInv
<1>2. CASE AddStores(t)
  <2>1. record' \in Records
    BY <1>2, PutTyped, ParsedPorts, Known DEF AddStores, IInv, TypeOK
  <2>2. input' \in [Tasks -> Inputs \cup {NoInput}] /\ info' \in [Tasks -> Records]
    BY <1>2, Known DEF AddStores, IInv, TypeOK
  <2> QED BY <1>2, <2>1, <2>2, GoesOnKeeps DEF AddStores, IInv, TypeOK, Places
<1>3. CASE Ended(t)
  BY <1>3, LeaveKeeps DEF Ended, IInv, TypeOK, Dialing
<1>4. CASE DialFails(t) \/ LoopGivesUp(t)
  <2>1. TypeOK' /\ Dialing'
    BY <1>4, Known DEF DialFails, LoopGivesUp, Goto, IInv, TypeOK, Dialing, Places
  <2>2. Read'
    BY <1>4 DEF DialFails, LoopGivesUp, Goto, IInv, TypeOK, Read
  <2> QED BY <2>1, <2>2 DEF IInv
<1>5. CASE ClearReads(t)
  <2>1. PICK r \in Records :
          IF r = NoRecord THEN Cleared(t)
          ELSE /\ info' = [info EXCEPT ![t] = r]
               /\ Goto(t, "clearing")
               /\ UNCHANGED <<isTryConnect, input, url>>
    BY <1>5, Known DEF ClearReads, Results, IInv, TypeOK
  <2>2. CASE Cleared(t)
    BY <1>5, <2>2, LeaveKeeps DEF ClearReads, Cleared, IInv, TypeOK, Dialing
  <2>3. CASE /\ info' = [info EXCEPT ![t] = r]
             /\ Goto(t, "clearing")
             /\ UNCHANGED <<isTryConnect, input, url>>
    <3>1. info' \in [Tasks -> Records]
      BY <2>3 DEF IInv, TypeOK
    <3> QED BY <1>5, <2>3, <3>1, GoesOnKeeps DEF ClearReads, IInv, TypeOK, Places
  <2> QED BY <2>1, <2>2, <2>3
<1>6. CASE ClearWrites(t)
  <2>1. record' \in Records
    BY <1>6, PutTyped, ValidPorts, Known DEF ClearWrites, IInv
  <2> QED BY <1>6, <2>1, LeaveKeeps DEF ClearWrites, Cleared, IInv, TypeOK, Dialing
<1>7. CASE ClearRemoves(t)
  <2>1. record' \in Records
    BY <1>7, Known DEF ClearRemoves, Removed, Outcomes, IInv, TypeOK
  <2> QED BY <1>7, <2>1, LeaveKeeps DEF ClearRemoves, Cleared, IInv, TypeOK, Dialing
<1> QED BY <1>1, <1>2, <1>3, <1>4, <1>5, <1>6, <1>7

LEMMA BootKeeps ==
  ASSUME IInv, NEW c \in Clients, Boot(c)
  PROVE  IInv'
<1> USE DEF memory, settings
<1>1. CASE EnsureRead(c)
  BY <1>1 DEF EnsureRead, IInv, TypeOK, Dialing, Read
<1>2. CASE EnsureWrite(c)
  <2>1. clientId' \in Ids \cup {""}
    BY <1>2 DEF EnsureWrite, Outcomes, IInv, TypeOK
  <2> QED BY <1>2, <2>1 DEF EnsureWrite, IInv, TypeOK, Dialing, Read
<1> QED BY <1>1, <1>2 DEF Boot

LEMMA Inductive == Spec => []IInv
<1>1. Init => IInv
  <2> SUFFICES ASSUME Init PROVE IInv
    OBVIOUS
  <2>1. record \in Records
    BY InitialAssumption, Known DEF Init
  <2>2. TypeOK
    BY <2>1, Known DEF Init, TypeOK, Places
  <2>3. Dialing /\ Read
    BY DEF Init, Dialing, Read
  <2> QED BY <2>2, <2>3 DEF IInv
<1>2. IInv /\ [Next]_vars => IInv'
  <2> SUFFICES ASSUME IInv, [Next]_vars PROVE IInv'
    OBVIOUS
  <2>1. CASE UNCHANGED vars
    BY <2>1 DEF vars, IInv, TypeOK, Dialing, Read
  <2>2. ASSUME NEW c \in Clients, Boot(c) PROVE IInv'
    BY <2>2, BootKeeps
  <2>3. ASSUME NEW t \in Tasks, Step(t) PROVE IInv'
    BY <2>3, WayKeeps, DialedKeeps DEF Step
  <2>4. CASE AppStores
    <3>1. record' \in Records
      BY <2>4, EnteredAssumption, Known DEF AppStores
    <3> QED BY <2>4, <3>1 DEF AppStores, memory, IInv, TypeOK, Dialing, Read
  <2>5. CASE Crash
    <3>1. TypeOK'
      BY <2>5, Known DEF Crash, Volatile, settings, IInv, TypeOK, Places
    <3>2. Dialing' /\ Read'
      BY <2>5 DEF Crash, Volatile, Dialing, Read
    <3> QED BY <3>1, <3>2 DEF IInv
  <2> QED BY <2>1, <2>2, <2>3, <2>4, <2>5 DEF Next
<1> QED BY <1>1, <1>2, PTL DEF Spec

\* Records, addresses and every task's locals are what they should be, whatever
\* an older build left, the application enters and the database fails to do
\* (connection_store.rs, server_sender.rs:330-420).
THEOREM TypeCorrect == Spec => []TypeOK
<1>1. IInv => TypeOK
  BY DEF IInv
<1> QED BY <1>1, Inductive, PTL

\* What is dialed has a scheme, whatever was typed in, and is a WebSocket URL
\* when the address read was a host or one, for any hosts, ports and stored
\* records (server_sender.rs:53-77).
THEOREM DialsUrls == Spec => []Dialable
<1>1. IInv => Dialable
  BY DEF IInv, Dialing, Read, Dialable, Schemed
<1> QED BY <1>1, Inductive, PTL

-----------------------------------------------------------------------------
(* Ports.                                                                  *)

PortHealed ==
  record' \notin {record, NoRecord} \cup Entered /\ NoPort(record'.port) =>
    \E t \in Tasks : Reserves(t) /\ record' = [ip |-> << >>, port |-> input[t]]

\* A record that is put holds the port it was given, or none.
LEMMA PutHeals ==
  ASSUME NEW address, NEW port \in Ports \cup {""}, Put(address, port)
  PROVE  PortHealed
<1> DEFINE new == [ip |-> address, port |-> IF bebop THEN port ELSE ""]
<1>1. record' = new \/ record' = record
  BY DEF Put, Outcomes
<1>2. new.port \in Ports \cup {""}
  OBVIOUS
<1> HIDE DEF new
<1> QED BY <1>1, <1>2 DEF PortHealed, NoPort

\* Who changes the record: reservations, connections, clearings, the application.
LEMMA Writers ==
  ASSUME Next, record' # record
  PROVE  \/ \E t \in Tasks : ReservePort(t) \/ AddStores(t) \/ ClearWrites(t) \/ ClearRemoves(t)
         \/ AppStores
<1> USE DEF memory, settings
<1>1. ASSUME NEW c \in Clients, Boot(c) PROVE FALSE
  BY <1>1 DEF Boot, EnsureRead, EnsureWrite
<1>2. ASSUME NEW t \in Tasks,
             AskStore(t) \/ DialKnown(t) \/ NoAddress(t) \/ ScanFinds(t) \/ Redial(t)
      PROVE  FALSE
  BY <1>2 DEF AskStore, DialKnown, NoAddress, ScanFinds, Redial
<1>3. ASSUME NEW t \in Tasks,
             TryAcquire(t) \/ Connected(t) \/ Ended(t) \/ DialFails(t) \/ LoopGivesUp(t)
               \/ ClearReads(t)
      PROVE  FALSE
  BY <1>3 DEF TryAcquire, Connected, Ended, DialFails, LoopGivesUp, ClearReads
<1>4. ~Crash
  BY DEF Crash
<1> QED BY <1>1, <1>2, <1>3, <1>4, Zenon DEF Next, Step

\* Whatever an older build left and whichever transactions fail, the library
\* stores a port that is none only where it reserves what its caller came with
\* (connection_store.rs:170-177, internal_client.rs:661-667).
THEOREM PortsAreHealed == Spec => PortsHeal
<1>1. TypeOK /\ [Next]_vars => [PortHealed]_vars
  <2> SUFFICES ASSUME TypeOK, Next, record' # record PROVE PortHealed
    BY DEF PortHealed
  <2> USE DEF memory, settings
  <2>1. ASSUME NEW t \in Tasks, ReservePort(t) PROVE PortHealed
    <3>1. Reserves(t) /\ Put(<< >>, input[t])
      BY <2>1 DEF ReservePort
    <3>2. CASE bebop
      BY <3>1, <3>2 DEF Put, Outcomes, PortHealed
    <3>3. CASE ~bebop
      <4>1. record' \in {record, [ip |-> << >>, port |-> ""]}
        BY <3>1, <3>3 DEF Put, Outcomes
      <4>2. [ip |-> << >>, port |-> ""].port = ""
        OBVIOUS
      <4> QED BY <4>1, <4>2 DEF PortHealed, NoPort
    <3> QED BY <3>2, <3>3
  <2>2. ASSUME NEW t \in Tasks, AddStores(t) PROVE PortHealed
    BY <2>2, PutHeals, ParsedPorts DEF AddStores
  <2>3. ASSUME NEW t \in Tasks, ClearWrites(t) PROVE PortHealed
    BY <2>3, PutHeals, ValidPorts DEF ClearWrites
  <2>4. ASSUME NEW t \in Tasks, ClearRemoves(t) PROVE PortHealed
    BY <2>4 DEF ClearRemoves, Removed, Outcomes, PortHealed
  <2>5. CASE AppStores
    BY <2>5 DEF AppStores, PortHealed
  <2> QED BY <2>1, <2>2, <2>3, <2>4, <2>5, Writers
<1> QED BY TypeCorrect, <1>1, PTL DEF Spec, PortsHeal, PortHealed

\* What a step leaves of a known port, and of a known address.
PortLeft ==
  KnownPort /\ ~KnownPort' =>
    \E t \in Tasks : \/ pc[t] = "add" /\ ParsePort(url[t]) = ""
                     \/ pc[t] = "clearing" /\ ValidPort(info[t].port) = ""
                     \/ Reserves(t) /\ input[t] \notin Ports

AddressLeft ==
  KnownAddress /\ ~KnownAddress' => \E t \in Tasks : pc[t] = "clearing" \/ Reserves(t)

\* A record that is put with a port, or an address, knows it.
LEMMA PutKnown ==
  ASSUME NEW address \in Addresses, NEW port \in Parts, Put(address, port), bebop
  PROVE  /\ port \in Ports /\ KnownPort => KnownPort'
         /\ address # << >> /\ KnownAddress => KnownAddress'
<1> DEFINE new == [ip |-> address, port |-> port]
<1>1. record' = new \/ record' = record
  BY DEF Put, Outcomes
<1>2. new \in ConnectInfo
  BY DEF ConnectInfo
<1>3. new # NoRecord /\ new.port = port /\ new.ip = address
  BY <1>2, NoRecordAssumption
<1> HIDE DEF new
<1> QED BY <1>1, <1>3 DEF KnownPort, KnownAddress

\* What is known outlives failed dials, the ping loop, reservations and crashes:
\* a port goes with a connection whose URL has none, with a clearing that had
\* read the record before the port was in it, or with the reservation of what is
\* none by a call that looked before; an address with a clearing or such a
\* reservation (connection_store.rs:164-178, internal_client.rs:659-667).
THEOREM KnownRecordsAreKept == Spec => RecordKept
<1> DEFINE Left == bebop /\ record' \notin Entered => PortLeft /\ AddressLeft
<1>1. IInv /\ [Next]_vars => [Left]_vars
  <2> SUFFICES ASSUME IInv, Next, bebop, record' \notin Entered, record' # record
               PROVE  PortLeft /\ AddressLeft
    BY DEF PortLeft, AddressLeft, KnownPort, KnownAddress
  <2> USE DEF memory, settings
  <2>0. TypeOK /\ Dialing
    BY DEF IInv
  <2>1. ASSUME NEW t \in Tasks, ReservePort(t) PROVE PortLeft /\ AddressLeft
    <3>1. Reserves(t) /\ Put(<< >>, input[t]) /\ input[t] \in Parts
      BY <2>0, <2>1, InputsAssumption DEF ReservePort, Reserves, TypeOK
    <3>2. input[t] \in Ports /\ KnownPort => KnownPort'
      BY <3>1, PutKnown, Known
    <3> QED BY <3>1, <3>2 DEF PortLeft, AddressLeft
  <2>2. ASSUME NEW t \in Tasks, AddStores(t) PROVE PortLeft /\ AddressLeft
    <3>1. pc[t] = "add" /\ url[t] \in Schemed /\ Put(url[t], ParsePort(url[t]))
      BY <2>0, <2>2 DEF AddStores, Dialing
    <3>2. ParsePort(url[t]) = "" \/ ParsePort(url[t]) \in Ports
      BY ParsedPorts
    <3>3. url[t] # << >>
      BY <3>1 DEF Schemed, HasScheme
    <3>4. /\ ParsePort(url[t]) \in Ports /\ KnownPort => KnownPort'
          /\ KnownAddress => KnownAddress'
      BY <3>1, <3>2, <3>3, PutKnown, Known
    <3> QED BY <3>1, <3>2, <3>4 DEF PortLeft, AddressLeft
  <2>3. ASSUME NEW t \in Tasks, ClearWrites(t) PROVE PortLeft /\ AddressLeft
    <3>1. pc[t] = "clearing" /\ Put(<< >>, ValidPort(info[t].port))
      BY <2>3 DEF ClearWrites
    <3>2. ValidPort(info[t].port) = "" \/ ValidPort(info[t].port) \in Ports
      BY ValidPorts
    <3>3. ValidPort(info[t].port) \in Ports /\ KnownPort => KnownPort'
      BY <3>1, <3>2, PutKnown, Known
    <3> QED BY <3>1, <3>2, <3>3 DEF PortLeft, AddressLeft
  <2>4. ASSUME NEW t \in Tasks, ClearRemoves(t) PROVE FALSE
    BY <2>4 DEF ClearRemoves
  <2>5. ~AppStores
    BY DEF AppStores
  <2> QED BY <2>1, <2>2, <2>3, <2>4, <2>5, Writers
<1> QED BY Inductive, <1>1, PTL DEF Spec, RecordKept, Left, PortLeft, AddressLeft

-----------------------------------------------------------------------------
(* Identities.                                                             *)

\* A client that is about to make an identity has seen that there is none.
NoneYet == \A c \in Clients : boot[c] = "absent" => clientId = ""

\* One client, reads that do not fail: what ensure_client_id found absent is
\* absent until it writes, so no crash and no failing write changes an identity
\* (connection_store.rs:78-100).
THEOREM IdentityIsKept ==
  ASSUME NEW client, Clients = {client}, "read" \notin Faults
  PROVE  Spec => IdentityKept
<1> DEFINE Kept == clientId # "" => clientId' = clientId
<1>1. Init => NoneYet
  BY DEF Init, NoneYet
<1>2. TypeOK /\ NoneYet /\ [Next]_vars => NoneYet' /\ Kept
  <2> SUFFICES ASSUME TypeOK, NoneYet, [Next]_vars PROVE NoneYet' /\ Kept
    OBVIOUS
  <2> USE DEF memory, settings
  <2>1. CASE UNCHANGED vars
    BY <2>1 DEF vars, NoneYet
  <2>2. ASSUME NEW c \in Clients, EnsureRead(c) PROVE NoneYet' /\ Kept
    BY <2>2 DEF EnsureRead, Results, NoneYet, TypeOK
  <2>3. ASSUME NEW c \in Clients, EnsureWrite(c) PROVE NoneYet' /\ Kept
    BY <2>3 DEF EnsureWrite, NoneYet, TypeOK
  <2>4. ASSUME NEW t \in Tasks, Step(t) PROVE boot' = boot /\ clientId' = clientId
    BY <2>4 DEF Step, AskStore, ReservePort, DialKnown, NoAddress, ScanFinds, Redial, TryAcquire,
       Connected, AddStores, Ended, DialFails, LoopGivesUp, ClearReads, ClearWrites, ClearRemoves
  <2>5. CASE AppStores
    BY <2>5 DEF AppStores, NoneYet
  <2>6. CASE Crash
    BY <2>6 DEF Crash, Volatile, NoneYet
  <2> QED BY <2>1, <2>2, <2>3, <2>4, <2>5, <2>6 DEF Next, Boot, NoneYet
<1> QED BY TypeCorrect, <1>1, <1>2, PTL DEF Spec, IdentityKept
=============================================================================
