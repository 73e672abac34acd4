-------------------------- MODULE ConnectionStore ---------------------------
(***************************************************************************)
(* What a client keeps across restarts: its identity and the address of    *)
(* its server.  NativeDbConnectionStore reads and writes two settings, one *)
(* awaited transaction at a time; the calls that use it (the start of a    *)
(* client, get_internal_connect, add after a handshake, a failed dial, the *)
(* ping loop) read, decide and write in steps that interleave, with the    *)
(* application storing addresses of its own, failing transactions and      *)
(* crashes in between.                                                     *)
(*                                                                         *)
(* An address is the sequence of its parts between colons, so that looking *)
(* for a scheme or a port in it is what the code does: <<"a">> is a bare   *)
(* host, <<"a", "80">> one with a port, <<"a", "">> the typing error "a:", *)
(* <<"ws", "//a", "80">> a URL, << >> the empty string.                    *)
(***************************************************************************)
EXTENDS Integers, Sequences

CONSTANTS Clients,    \* clients created over one database
          Tasks,      \* tasks that connect, in whichever of them
          Parts,      \* what may stand between two colons
          Hosts,      \* what is typed in front of the first colon
          Slashed,    \* parts that begin with "//"
          Authority,  \* a host behind "//"
          Ports,      \* runs of ASCII digits
          Inputs,     \* ports that callers come with, checked by nobody
          Entered,    \* records the application may store
          Initial,    \* records an older build may have left
          Ids,        \* identifiers nanoid may draw
          Faults,     \* transactions that may fail: {"read", "write"}
          NoInput, NoRecord

\* contains("://")
HasScheme(address) == \E i \in 2..Len(address) : address[i] \in Slashed

Schemed == {address \in Seq(Parts) : HasScheme(address)}
Bare == {address \in Seq(Parts) : Len(address) >= 1 /\ address[1] \in Hosts}
Addresses == {<< >>} \cup Bare \cup Schemed
ConnectInfo == [ip : Addresses, port : Parts]

\* What the code means by an address: a host or a WebSocket URL, with a port or
\* without one.  Nothing keeps a user from typing in another.
Urls == {<<scheme, Authority[h]>> : scheme \in {"ws", "wss"}, h \in Hosts}
          \cup {<<scheme, Authority[h], p>> : scheme \in {"ws", "wss"}, h \in Hosts, p \in Ports}
WellFormed == {<<h>> : h \in Hosts} \cup {<<h, p>> : h \in Hosts, p \in Ports} \cup Urls

ASSUME PartsAssumption == {"", "ws", "wss"} \subseteq Parts
ASSUME HostsAssumption == Hosts \subseteq Parts
ASSUME PortsAssumption == Ports \subseteq Parts \ {""}
ASSUME SlashedAssumption == Slashed \subseteq Parts \ Ports
ASSUME AuthorityAssumption == Authority \in [Hosts -> Slashed]
ASSUME InputsAssumption == Inputs \subseteq Parts /\ NoInput \notin Parts
ASSUME IdsAssumption == "" \notin Ids
ASSUME InitialAssumption == Initial \subseteq ConnectInfo
ASSUME EnteredAssumption == Entered \subseteq ConnectInfo
ASSUME NoRecordAssumption == NoRecord \notin ConnectInfo

-----------------------------------------------------------------------------
(* Addresses.                                                              *)

ValidPort(port) == IF port \in Ports THEN port ELSE ""

\* Mutant: the first colon decides (before 0.9.1), and finds the host of a URL.
ParsePortFirst(address) == IF Len(address) >= 2 THEN address[2] ELSE ""

\* The part after the last colon.
ParsePort(address) ==
  IF Len(address) >= 2 THEN ValidPort(address[Len(address)]) ELSE ""

\* Mutant: a scheme without its slashes.
WithSchemeOnly(address) == <<"ws">> \o address

\* "ws://" in front of it.
WithScheme(address) == <<"ws", Authority[address[1]]>> \o Tail(address)

\* Mutant: a bare address is dialed as it is.
ToWsUrlAsIs(address, port) == address

ToWsUrl(address, port) ==
  IF HasScheme(address) THEN address
  ELSE IF ParsePort(address) # "" \/ ValidPort(port) = "" THEN WithScheme(address)
  ELSE Append(WithScheme(address), port)

\* What ScanManager dials on a port.
ScanUrl(host, port) == <<"ws", Authority[host], port>>

-----------------------------------------------------------------------------
VARIABLES
  bebop,         \* records hold address and port, or the address alone
  record,        \* the setting SERVER_CONNECT_INFO
  clientId,      \* the setting CLIENT_ID
  boot,          \* how far each client's internal_initialize is
  isTryConnect,  \* the guard of connection attempts
  serverIp,      \* ServerSender::server_ip
  pc,            \* where each task is
  input,         \* the port that its call came with, or NoInput
  info,          \* the record it has read
  url            \* the address it dials

settings == <<bebop, record, clientId>>
memory == <<isTryConnect, serverIp>>
vars == <<bebop, record, clientId, boot, isTryConnect, serverIp, pc, input, info, url>>

Volatile == /\ boot' = [c \in Clients |-> "new"]
            /\ isTryConnect' = FALSE /\ serverIp' = << >>
            /\ pc' = [t \in Tasks |-> "idle"]
            /\ input' = [t \in Tasks |-> NoInput]
            /\ info' = [t \in Tasks |-> NoRecord]
            /\ url' = [t \in Tasks |-> << >>]

Init ==
  /\ bebop \in BOOLEAN
  /\ record \in IF bebop THEN Initial \cup {NoRecord} ELSE {NoRecord}
  /\ clientId = ""
  /\ boot = [c \in Clients |-> "new"]
  /\ isTryConnect = FALSE /\ serverIp = << >>
  /\ pc = [t \in Tasks |-> "idle"]
  /\ input = [t \in Tasks |-> NoInput]
  /\ info = [t \in Tasks |-> NoRecord]
  /\ url = [t \in Tasks |-> << >>]

Goto(t, step) == pc' = [pc EXCEPT ![t] = step]

\* A task that is through forgets what it knew.
Leave(t) == /\ Goto(t, "idle")
            /\ input' = [input EXCEPT ![t] = NoInput]
            /\ info' = [info EXCEPT ![t] = NoRecord]
            /\ url' = [url EXCEPT ![t] = << >>]

\* get_setting_by_key: one transaction; callers take a failure for an absence.
Results(value, none) == {value} \cup IF "read" \in Faults THEN {none} ELSE {}

\* set_setting and remove_setting: one transaction, whose failure is only logged.
Outcomes(old, new) == {new} \cup IF "write" \in Faults THEN {old} ELSE {}
Removed(old) == Outcomes(old, NoRecord)

\* get_server_connect_info
Get(t) == \E r \in Results(record, NoRecord) : info' = [info EXCEPT ![t] = r]

\* set_server_connect_info: upsert; the raw build keeps the address alone.
Put(address, port) ==
  record' \in Outcomes(record, [ip |-> address, port |-> IF bebop THEN port ELSE ""])

-----------------------------------------------------------------------------
(* The identity of a client.                                               *)

\* Mutant: an identity is made for every start.
EnsureReadNever(c) ==
  /\ boot[c] = "new"
  /\ boot' = [boot EXCEPT ![c] = "absent"]
  /\ UNCHANGED <<settings, memory, pc, input, info, url>>

\* ensure_client_id looks for an identity.
EnsureRead(c) ==
  /\ boot[c] = "new"
  /\ \E existing \in Results(clientId, "") :
       boot' = [boot EXCEPT ![c] = IF existing = "" THEN "absent" ELSE "ready"]
  /\ UNCHANGED <<settings, memory, pc, input, info, url>>

\* It found none, makes one and stores it.
EnsureWrite(c) ==
  /\ boot[c] = "absent"
  /\ \E id \in Ids : clientId' \in Outcomes(clientId, id)
  /\ boot' = [boot EXCEPT ![c] = "ready"]
  /\ UNCHANGED <<bebop, record, memory, pc, input, info, url>>

-----------------------------------------------------------------------------
(* The way to an address.                                                  *)

Running == \E c \in Clients : boot[c] = "ready"

\* get_internal_connect asks the store (the checks before it are in
\* ClientConnection).
AskStore(t) ==
  /\ bebop /\ pc[t] = "idle" /\ ~isTryConnect
  /\ Running
  /\ \E i \in Inputs \cup {NoInput} : input' = [input EXCEPT ![t] = i]
  /\ Get(t)
  /\ Goto(t, "asked")
  /\ UNCHANGED <<settings, boot, memory, url>>

\* A port that came with the call, when nothing was stored as the task looked.
Reserves(t) == pc[t] = "asked" /\ input[t] # NoInput /\ info[t] = NoRecord

\* Reserve it, whatever it is.
ReservePort(t) ==
  /\ Reserves(t)
  /\ Put(<< >>, input[t])
  /\ info' = [info EXCEPT ![t] = [ip |-> << >>, port |-> input[t]]]
  /\ UNCHANGED <<bebop, clientId, boot, memory, pc, input, url>>

KnownIp(t) == info[t] # NoRecord /\ info[t].ip # << >>
ConnectPort(t) == IF input[t] # NoInput THEN input[t] ELSE info[t].port

\* A known address is dialed as a URL.
DialKnown(t) ==
  /\ pc[t] = "asked" /\ KnownIp(t)
  /\ url' = [url EXCEPT ![t] = ToWsUrl(info[t].ip, ConnectPort(t))]
  /\ Goto(t, "dial")
  /\ UNCHANGED <<settings, boot, memory, input, info>>

\* No address: Disconnected, or a scan that finds nothing.
NoAddress(t) ==
  /\ pc[t] = "asked" /\ ~KnownIp(t) /\ ~Reserves(t)
  /\ Leave(t)
  /\ UNCHANGED <<settings, boot, memory>>

\* A scan, on that port or on one of the caller's, found a server and got the
\* guard.
ScanFinds(t) ==
  /\ ~isTryConnect
  /\ \/ pc[t] = "asked" /\ ~KnownIp(t) /\ info[t] # NoRecord
     \/ pc[t] = "idle" /\ Running
  /\ \E host \in Hosts :
       \E port \in IF pc[t] = "asked" THEN {ConnectPort(t)} ELSE Inputs :
         url' = [url EXCEPT ![t] = ScanUrl(host, port)]
  /\ isTryConnect' = TRUE
  /\ Goto(t, "found")
  /\ UNCHANGED <<settings, boot, serverIp, input, info>>

\* A send whose retries are exhausted dials what the sender led to.
Redial(t) ==
  /\ pc[t] = "idle" /\ serverIp # << >>
  /\ url' = [url EXCEPT ![t] = serverIp]
  /\ Goto(t, "dial")
  /\ UNCHANGED <<settings, boot, memory, input, info>>

TryAcquire(t) ==
  /\ pc[t] = "dial"
  /\ IF isTryConnect THEN Leave(t) ELSE Goto(t, "dialing") /\ UNCHANGED <<input, info, url>>
  /\ isTryConnect' = TRUE
  /\ UNCHANGED <<settings, boot, serverIp>>

-----------------------------------------------------------------------------
(* What comes of a dial.                                                   *)

\* A server answers; add, in memory.
Connected(t) ==
  /\ pc[t] \in {"dialing", "found"}
  /\ serverIp' = url[t]
  /\ Goto(t, "add")
  /\ UNCHANGED <<settings, boot, isTryConnect, input, info, url>>

\* add, in the store.
AddStores(t) ==
  /\ pc[t] = "add"
  /\ Put(url[t], ParsePort(url[t]))
  /\ Goto(t, "up")
  /\ input' = [input EXCEPT ![t] = NoInput]
  /\ info' = [info EXCEPT ![t] = NoRecord]
  /\ UNCHANGED <<bebop, clientId, boot, memory, url>>

Ended(t) ==
  /\ pc[t] = "up"
  /\ isTryConnect' = FALSE
  /\ Leave(t)
  /\ UNCHANGED <<settings, boot, serverIp>>

\* remove_ip_if_valid_server_ip(server_ip), in memory.
DialFails(t) ==
  /\ pc[t] = "dialing"
  /\ serverIp' = << >>
  /\ Goto(t, "clear")
  /\ UNCHANGED <<settings, boot, isTryConnect, input, info, url>>

\* remove_ip_if_valid_server_ip("") of the ping loop, in memory.
LoopGivesUp(t) ==
  /\ pc[t] = "idle" /\ Running
  /\ serverIp' = << >>
  /\ url' = [url EXCEPT ![t] = << >>]
  /\ Goto(t, "clear")
  /\ UNCHANGED <<settings, boot, isTryConnect, input, info>>

\* Whoever dialed gives the guard back when the clearing is done.
Cleared(t) ==
  /\ isTryConnect' = (isTryConnect /\ url[t] = << >>)
  /\ Leave(t)

\* clear_server_ip reads the record; its argument is not looked at.
ClearReads(t) ==
  /\ bebop /\ pc[t] = "clear"
  /\ \E r \in Results(record, NoRecord) :
       IF r = NoRecord THEN Cleared(t)
       ELSE /\ info' = [info EXCEPT ![t] = r]
            /\ Goto(t, "clearing")
            /\ UNCHANGED <<isTryConnect, input, url>>
  /\ UNCHANGED <<settings, boot, serverIp>>

\* Mutant: the port goes with the address.
ClearWritesAll(t) ==
  /\ pc[t] = "clearing"
  /\ Put(<< >>, "")
  /\ Cleared(t)
  /\ UNCHANGED <<bebop, clientId, boot, serverIp>>

\* The port it has read is kept, if it is one.
ClearWrites(t) ==
  /\ pc[t] = "clearing"
  /\ Put(<< >>, ValidPort(info[t].port))
  /\ Cleared(t)
  /\ UNCHANGED <<bebop, clientId, boot, serverIp>>

\* The raw build removes the setting in one transaction.
ClearRemoves(t) ==
  /\ ~bebop /\ pc[t] = "clear"
  /\ record' \in Removed(record)
  /\ Cleared(t)
  /\ UNCHANGED <<bebop, clientId, boot, serverIp>>

-----------------------------------------------------------------------------
\* The application stores an address the user typed in.
AppStores ==
  /\ bebop
  /\ record' \in Entered
  /\ UNCHANGED <<bebop, clientId, boot, memory, pc, input, info, url>>

\* The process dies and is started again: the settings are what remains.
Crash == Volatile /\ UNCHANGED settings

Boot(c) == EnsureRead(c) \/ EnsureWrite(c)
Step(t) == \/ AskStore(t) \/ ReservePort(t) \/ DialKnown(t) \/ NoAddress(t)
           \/ ScanFinds(t) \/ Redial(t) \/ TryAcquire(t)
           \/ Connected(t) \/ AddStores(t) \/ Ended(t) \/ DialFails(t)
           \/ LoopGivesUp(t) \/ ClearReads(t) \/ ClearWrites(t) \/ ClearRemoves(t)

Next == \/ \E c \in Clients : Boot(c)
        \/ \E t \in Tasks : Step(t)
        \/ AppStores \/ Crash

Spec == Init /\ [][Next]_vars

-----------------------------------------------------------------------------
Places == {"idle", "asked", "dial", "dialing", "found", "add", "up", "clear", "clearing"}
Records == ConnectInfo \cup {NoRecord}

\* The shape of the state; what is dialed or stored is an address.
TypeOK ==
  /\ bebop \in BOOLEAN /\ record \in Records
  /\ clientId \in Ids \cup {""}
  /\ boot \in [Clients -> {"new", "absent", "ready"}]
  /\ isTryConnect \in BOOLEAN
  /\ serverIp \in Addresses
  /\ pc \in [Tasks -> Places]
  /\ input \in [Tasks -> Inputs \cup {NoInput}]
  /\ info \in [Tasks -> Records]
  /\ url \in [Tasks -> Addresses]

\* Whatever was typed in, left by an older build or written in between, what is
\* dialed has a scheme; and when the address read was a host or a WebSocket URL,
\* with whatever port beside it, what is dialed is a WebSocket URL with a real
\* port or none: an address that connect_async cannot parse fails without any
\* status (server_sender.rs:53-64).
Dialable ==
  \A t \in Tasks : pc[t] \in {"dial", "dialing"} =>
    /\ HasScheme(url[t])
    /\ info[t] # NoRecord /\ info[t].ip \in WellFormed => url[t] \in Urls

NoPort(port) == port \notin Ports \cup {""}

\* The library stores a port that is none only where it reserves what the caller
\* came with; every other write replaces one that was there
\* (connection_store.rs:170-176, internal_client.rs:661-667).
PortsHeal ==
  [][record' \notin {record, NoRecord} \cup Entered /\ NoPort(record'.port) =>
       \E t \in Tasks : Reserves(t) /\ record' = [ip |-> << >>, port |-> input[t]]]_vars

KnownPort == record # NoRecord /\ record.port \in Ports
KnownAddress == record # NoRecord /\ record.ip # << >>

\* What is known outlives the ping loop, failed dials, reservations and crashes,
\* but for three losses.  A port goes with a connection whose URL has none, with
\* a clearing that had read the record before the port was in it, or with a
\* reservation of what is no port by a call that had looked before there was a
\* record.  An address goes with a clearing, be it the one that failed or not, or
\* with a reservation by such a call (connection_store.rs:164-178,
\* internal_client.rs:659-667).
RecordKept ==
  [][bebop /\ record' \notin Entered =>
       /\ KnownPort /\ ~KnownPort' =>
            \E t \in Tasks : \/ pc[t] = "add" /\ ParsePort(url[t]) = ""
                             \/ pc[t] = "clearing" /\ ValidPort(info[t].port) = ""
                             \/ Reserves(t) /\ input[t] \notin Ports
       /\ KnownAddress /\ ~KnownAddress' =>
            \E t \in Tasks : pc[t] = "clearing" \/ Reserves(t)]_vars

\* ensure_client_id keeps the identity of a client for good, across restarts at
\* any moment and failing writes (connection_store.rs:37-39).
IdentityKept == [][clientId # "" => clientId' = clientId]_vars
=============================================================================
