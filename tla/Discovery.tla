----------------------------- MODULE Discovery ------------------------------
(***************************************************************************)
(* Finding a server on the local network: the calls that may start a scan  *)
(* (scan_and_connect, which is the application's "search", and             *)
(* get_internal_connect without a stored address), the is_scanning flag    *)
(* that admits one of them, ScanManager with its probe tasks, and the hand *)
(* over of the stream it found to the single-flight guard of connection    *)
(* attempts.                                                               *)
(*                                                                         *)
(* A step is what happens under one hold of the ServerSender lock or       *)
(* between two points where another task or thread can run.  The probes of *)
(* one address are interchangeable, so they are counted per stage.  The    *)
(* probes that a finished scan leaves behind touch only structures nobody  *)
(* reads any more, and leave the model with it.                            *)
(***************************************************************************)
EXTENDS Integers, FiniteSets

CONSTANTS Callers,        \* tasks that call one of the two functions
          IPs,            \* scan_ips, the addresses of the subnet
          Servers,        \* those where a server may answer
          MaxConcurrent,  \* permits of the manager's semaphore
          MaxProbes,      \* bound of the model: live probes of one address
          Other           \* any other connection attempt or connection

ASSUME MaxConcurrentAssumption == MaxConcurrent \in Nat \ {0}
ASSUME MaxProbesAssumption == MaxProbes \in Nat \ {0}
ASSUME AddressesAssumption == IsFiniteSet(IPs) /\ Servers \subseteq IPs
ASSUME OtherAssumption == Other \notin Callers

Stages == {"queued", "admitted", "probing", "found"}

VARIABLES
  bebop,         \* which build of get_internal_connect this client runs
  isTryConnect,  \* ServerSender::is_try_connect
  holders,       \* who believes to own the connection attempt
  isScanning,    \* ServerSender::is_scanning
  valid,         \* what is_valid_server_ip answers
  stored,        \* the store holds a server address
  pc,            \* where each caller is
  auto,          \* the caller came through get_internal_connect
  found,         \* run_with_timeout gave the caller a stream
  stop,          \* ScanManager::stop_flag
  states,        \* ScanManager::connection_states
  permits,       \* ScanManager::semaphore
  probes,        \* probe tasks per address and stage
  announced      \* the status that was announced last

client == <<isTryConnect, holders, isScanning, valid, stored>>
calls == <<pc, auto, found>>
manager == <<stop, states, permits, probes>>
vars == <<bebop, isTryConnect, holders, isScanning, valid, stored, pc, auto,
          found, stop, states, permits, probes, announced>>

NoProbes == [ip \in IPs |-> [s \in Stages |-> 0]]
Untried == [ip \in IPs |-> "none"]

Init ==
  /\ bebop \in BOOLEAN
  /\ isTryConnect = FALSE /\ holders = {} /\ isScanning = FALSE
  /\ valid = FALSE /\ stored \in BOOLEAN
  /\ pc = [t \in Callers |-> "idle"]
  /\ auto = [t \in Callers |-> FALSE]
  /\ found = [t \in Callers |-> FALSE]
  /\ stop = FALSE /\ states = Untried /\ probes = NoProbes
  /\ permits = MaxConcurrent
  /\ announced = "Start"

Goto(t, step) == pc' = [pc EXCEPT ![t] = step]

\* The structures of a scan that starts, or of one that is over.
NewManager == /\ stop' = FALSE /\ states' = Untried
              /\ permits' = MaxConcurrent /\ probes' = NoProbes

-----------------------------------------------------------------------------
(* The way to a scan.                                                      *)

\* scan_and_connect: nothing to do while an attempt is going on.
ScanAndConnect(t) ==
  /\ pc[t] = "idle" /\ ~isTryConnect
  /\ Goto(t, "asked")
  /\ auto' = [auto EXCEPT ![t] = FALSE]
  /\ UNCHANGED <<bebop, client, found, manager, announced>>

\* get_internal_connect (use_scan_discovery is on): the same first question.
GetInternalConnect(t) ==
  /\ pc[t] = "idle" /\ ~isTryConnect
  /\ Goto(t, "asked")
  /\ auto' = [auto EXCEPT ![t] = TRUE]
  /\ UNCHANGED <<bebop, client, found, manager, announced>>

\* A connection that spoke lately: announce it, otherwise go on.
AlreadyConnected(t) ==
  /\ pc[t] = "asked" /\ valid
  /\ Goto(t, "idle")
  /\ announced' = "Connected"
  /\ UNCHANGED <<bebop, client, auto, found, manager>>

\* The bebop build of get_internal_connect looks for a stored address first;
\* the raw build and scan_and_connect go straight to the flag.
NotConnected(t) ==
  /\ pc[t] = "asked" /\ ~valid
  /\ Goto(t, IF bebop /\ auto[t] THEN "lookup" ELSE "claim")
  /\ UNCHANGED <<bebop, client, auto, found, manager, announced>>

\* A stored address is dialed (Attempt stands for that dial); no scan.
DialStored(t) ==
  /\ pc[t] = "lookup" /\ stored
  /\ Goto(t, "idle")
  /\ announced' = "Connecting"
  /\ UNCHANGED <<bebop, client, auto, found, manager>>

NothingStored(t) ==
  /\ pc[t] = "lookup" /\ ~stored
  /\ Goto(t, "claim")
  /\ UNCHANGED <<bebop, client, auto, found, manager, announced>>

\* Mutant: the scan is admitted without looking at the flag.
ClaimUnchecked(t) ==
  /\ pc[t] = "claim"
  /\ isScanning' = TRUE
  /\ Goto(t, "claimed")
  /\ UNCHANGED <<bebop, isTryConnect, holders, valid, stored, auto, found, manager, announced>>

\* Test and set of is_scanning under the write lock; a second caller goes home.
ClaimScan(t) ==
  /\ pc[t] = "claim"
  /\ isScanning' = TRUE
  /\ Goto(t, IF isScanning THEN "idle" ELSE "claimed")
  /\ UNCHANGED <<bebop, isTryConnect, holders, valid, stored, auto, found, manager, announced>>

\* Mutant: the way out without a local network forgets the flag.
NoLocalNetworkForgets(t) ==
  /\ pc[t] = "claimed"
  /\ Goto(t, "report")
  /\ UNCHANGED <<bebop, client, auto, found, manager, announced>>

\* get_ip_address found no local address: release the flag, then report.
NoLocalNetwork(t) ==
  /\ pc[t] = "claimed"
  /\ isScanning' = FALSE
  /\ Goto(t, "report")
  /\ UNCHANGED <<bebop, isTryConnect, holders, valid, stored, auto, found, manager, announced>>

\* ScanManager::with_concurrency asks for the local address once more and takes it
\* apart unseen: if the network is gone by now, the caller panics, and leaves
\* is_scanning as it is.
NetworkVanishes(t) ==
  /\ pc[t] = "claimed"
  /\ announced' = "Connecting"
  /\ Goto(t, "panicked")
  /\ UNCHANGED <<bebop, client, auto, found, manager>>

\* Announce the search and start with a manager of its own.
StartScan(t) ==
  /\ pc[t] = "claimed"
  /\ announced' = "Connecting"
  /\ NewManager
  /\ found' = [found EXCEPT ![t] = FALSE]
  /\ Goto(t, "scanning")
  /\ UNCHANGED <<bebop, client, auto>>

-----------------------------------------------------------------------------
(* ScanManager::run: every two seconds take a stream that was found, or    *)
(* spawn probes for the addresses that nobody is connecting to.            *)

Scanner(t) == pc[t] = "scanning"
HasStream(ip) == states[ip] = "connected"
Live(ip) == probes[ip]["queued"] + probes[ip]["admitted"]
              + probes[ip]["probing"] + probes[ip]["found"]

\* An entry says "connecting" from start_connection to end_connection; a task
\* that still waits for a permit has no entry, so its address is spawned again.
IsConnectingAllowed(ip) ==
  /\ ~stop
  /\ states[ip] # "connecting"
  /\ \A other \in IPs : ~HasStream(other)

\* get_connected_ip finds and takes the stream; the manager is dropped.
TakeStream(t, ip) ==
  /\ Scanner(t) /\ HasStream(ip)
  /\ found' = [found EXCEPT ![t] = TRUE]
  /\ NewManager
  /\ Goto(t, "release")
  /\ UNCHANGED <<bebop, client, auto, announced>>

\* scan_network over a snapshot of the addresses.
ScanNetwork(t) ==
  /\ Scanner(t) /\ \A ip \in IPs : ~HasStream(ip)
  /\ probes' = [ip \in IPs |->
                  IF IsConnectingAllowed(ip) /\ Live(ip) < MaxProbes
                  THEN [probes[ip] EXCEPT !["queued"] = @ + 1] ELSE probes[ip]]
  /\ UNCHANGED <<bebop, client, calls, stop, states, permits, announced>>

\* run_with_timeout: the deadline wins; what was found since the last tick is
\* dropped with the manager.
Deadline(t) ==
  /\ Scanner(t)
  /\ NewManager
  /\ Goto(t, "release")
  /\ UNCHANGED <<bebop, client, auto, found, announced>>

-----------------------------------------------------------------------------
(* A probe task.                                                           *)

Move(ip, from, to) ==
  /\ probes[ip][from] > 0
  /\ probes' = [probes EXCEPT ![ip][from] = @ - 1, ![ip][to] = @ + 1]
Leave(ip, from) ==
  /\ probes[ip][from] > 0
  /\ probes' = [probes EXCEPT ![ip][from] = @ - 1]

\* Mutant: a probe goes ahead without a permit.
AdmittedAnyway(ip) ==
  /\ ~stop
  /\ Move(ip, "queued", "admitted")
  /\ permits' = permits - 1
  /\ UNCHANGED <<bebop, client, calls, stop, states, announced>>

\* A permit, and a second look at the stop flag.  The entry is made in a step of
\* its own: in between, another thread may find a server.
Admitted(ip) ==
  /\ ~stop /\ permits > 0
  /\ Move(ip, "queued", "admitted")
  /\ permits' = permits - 1
  /\ UNCHANGED <<bebop, client, calls, stop, states, announced>>

\* Mutant: a probe that gives up returns a permit it never had.
GivesUpReturning(ip) ==
  /\ stop
  /\ Leave(ip, "queued")
  /\ permits' = permits + 1
  /\ UNCHANGED <<bebop, client, calls, stop, states, announced>>

\* One of the two looks found the flag set; the permit, if any, goes back.
GivesUp(ip) ==
  /\ stop
  /\ Leave(ip, "queued")
  /\ UNCHANGED <<bebop, client, calls, stop, states, permits, announced>>

\* start_connection replaces whatever entry there is.
StartConnection(ip) ==
  /\ Move(ip, "admitted", "probing")
  /\ states' = [states EXCEPT ![ip] = "connecting"]
  /\ UNCHANGED <<bebop, client, calls, stop, permits, announced>>

\* check_connection: a server answered; the flag is set before the entry is.
ServerAnswers(ip) ==
  /\ ip \in Servers
  /\ Move(ip, "probing", "found")
  /\ stop' = TRUE
  /\ UNCHANGED <<bebop, client, calls, states, permits, announced>>

\* end_connection with the stream.
KeepsStream(ip) ==
  /\ Leave(ip, "found")
  /\ states' = [states EXCEPT ![ip] = "connected"]
  /\ permits' = permits + 1
  /\ UNCHANGED <<bebop, client, calls, stop, announced>>

\* check_connection failed or timed out; end_connection puts that in the entry,
\* and drops a stream that another probe of the address had put there.
ProbeFails(ip) ==
  /\ Leave(ip, "probing")
  /\ states' = [states EXCEPT ![ip] = "failed"]
  /\ permits' = permits + 1
  /\ UNCHANGED <<bebop, client, calls, stop, announced>>

ProbeStep(ip) == \/ Admitted(ip) \/ GivesUp(ip) \/ StartConnection(ip)
                 \/ ServerAnswers(ip) \/ KeepsStream(ip) \/ ProbeFails(ip)

-----------------------------------------------------------------------------
(* After the scan.                                                         *)

\* Mutant: a search without a result goes home in silence.
ReleaseScanSilently(t) ==
  /\ pc[t] = "release"
  /\ isScanning' = FALSE
  /\ Goto(t, IF found[t] THEN "handover" ELSE "idle")
  /\ UNCHANGED <<bebop, isTryConnect, holders, valid, stored, auto, found, manager, announced>>

\* The flag is released whatever the scan came to.
ReleaseScan(t) ==
  /\ pc[t] = "release"
  /\ isScanning' = FALSE
  /\ Goto(t, IF found[t] THEN "handover" ELSE "report")
  /\ UNCHANGED <<bebop, isTryConnect, holders, valid, stored, auto, found, manager, announced>>

\* No server, or no network to search.
ReportNone(t) ==
  /\ pc[t] = "report"
  /\ announced' = "Disconnected"
  /\ Goto(t, "idle")
  /\ UNCHANGED <<bebop, client, auto, found, manager>>

\* Mutant: the stream is handed over without the guard (until 0.9.0).
HandOverUnguarded(t) ==
  /\ pc[t] = "handover"
  /\ isTryConnect' = TRUE /\ holders' = holders \cup {t}
  /\ found' = [found EXCEPT ![t] = FALSE]
  /\ Goto(t, "idle")
  /\ UNCHANGED <<bebop, isScanning, valid, stored, auto, manager, announced>>

\* TryConnectGuard::try_acquire and handle_websocket in a task of its own.
HandOver(t) ==
  /\ pc[t] = "handover" /\ ~isTryConnect
  /\ isTryConnect' = TRUE /\ holders' = holders \cup {t}
  /\ found' = [found EXCEPT ![t] = FALSE]
  /\ Goto(t, "idle")
  /\ UNCHANGED <<bebop, isScanning, valid, stored, auto, manager, announced>>

\* An attempt was made meanwhile: the stream is dropped, nothing is announced.
DropStream(t) ==
  /\ pc[t] = "handover" /\ isTryConnect
  /\ found' = [found EXCEPT ![t] = FALSE]
  /\ Goto(t, "idle")
  /\ UNCHANGED <<bebop, client, auto, manager, announced>>

-----------------------------------------------------------------------------
(* Connection attempts and connections, as far as a scan can see them; the *)
(* module ClientConnection has the whole of them.                          *)

\* Some other trigger claims the guard and dials.
Attempt ==
  /\ ~isTryConnect
  /\ isTryConnect' = TRUE /\ holders' = holders \cup {Other}
  /\ UNCHANGED <<bebop, isScanning, valid, stored, calls, manager, announced>>

\* add stores the address; the first message makes it valid.
Established(h) ==
  /\ h \in holders
  /\ valid' = TRUE /\ stored' = TRUE
  /\ announced' = "Connected"
  /\ UNCHANGED <<bebop, isTryConnect, holders, isScanning, calls, manager>>

\* The dial failed or the connection ended.
Ended(h) ==
  /\ h \in holders
  /\ holders' = holders \ {h} /\ isTryConnect' = FALSE
  /\ UNCHANGED <<bebop, isScanning, valid, stored, calls, manager, announced>>

\* The last message is too old by now.
Silence ==
  /\ valid /\ valid' = FALSE
  /\ UNCHANGED <<bebop, isTryConnect, holders, isScanning, stored, calls, manager, announced>>

\* A failed dial or the ping loop clears the address.
Forgotten ==
  /\ stored /\ stored' = FALSE
  /\ UNCHANGED <<bebop, isTryConnect, holders, isScanning, valid, calls, manager, announced>>

-----------------------------------------------------------------------------
Ask(t) == ScanAndConnect(t) \/ GetInternalConnect(t)
Decide(t) == \/ AlreadyConnected(t) \/ NotConnected(t) \/ DialStored(t)
             \/ NothingStored(t) \/ ClaimScan(t)
Start(t) == NoLocalNetwork(t) \/ NetworkVanishes(t) \/ StartScan(t)
Search(t) == \/ Start(t)
             \/ (\E ip \in IPs : TakeStream(t, ip))
             \/ ScanNetwork(t) \/ Deadline(t)
Conclude(t) == ReleaseScan(t) \/ ReportNone(t) \/ HandOver(t) \/ DropStream(t)
Environment == \/ Attempt \/ Silence \/ Forgotten
               \/ \E h \in Callers \cup {Other} : Established(h) \/ Ended(h)

Next == \/ \E t \in Callers : Ask(t) \/ Decide(t) \/ Search(t) \/ Conclude(t)
        \/ \E ip \in IPs : ProbeStep(ip)
        \/ Environment

Spec == Init /\ [][Next]_vars

\* The runtime runs every task that can run; a dial, a probe and the scan end
\* by their timeouts.  Nothing is assumed of the application or of servers.
FairSpec ==
  /\ Spec
  /\ \A t \in Callers : /\ WF_vars(Decide(t)) /\ WF_vars(Conclude(t))
                        /\ WF_vars(Start(t))
                        /\ WF_vars(Deadline(t))
                        /\ WF_vars(\E ip \in IPs : TakeStream(t, ip))
  /\ \A ip \in IPs : WF_vars(ProbeStep(ip))

-----------------------------------------------------------------------------
Places == {"idle", "asked", "lookup", "claim", "claimed", "scanning", "release",
           "report", "handover", "panicked"}
Statuses == {"Start", "Connecting", "Connected", "Disconnected"}

\* The shape of the state; in particular the semaphore is never overdrawn.
TypeOK ==
  /\ bebop \in BOOLEAN /\ isTryConnect \in BOOLEAN /\ isScanning \in BOOLEAN
  /\ holders \subseteq Callers \cup {Other}
  /\ valid \in BOOLEAN /\ stored \in BOOLEAN
  /\ pc \in [Callers -> Places]
  /\ auto \in [Callers -> BOOLEAN] /\ found \in [Callers -> BOOLEAN]
  /\ stop \in BOOLEAN
  /\ states \in [IPs -> {"none", "connecting", "connected", "failed"}]
  /\ probes \in [IPs -> [Stages -> Nat]]
  /\ permits \in Nat
  /\ announced \in Statuses

\* Those whom is_scanning stands for: a caller that panicked keeps it.
Searching == {t \in Callers : pc[t] \in {"claimed", "scanning", "release", "panicked"}}
Panicked == \E t \in Callers : pc[t] = "panicked"

\* The permits that probes of an address hold, numbered.
Used(ip) == probes[ip]["admitted"] + probes[ip]["probing"] + probes[ip]["found"]
InUse == UNION {{ip} \X (1..Used(ip)) : ip \in IPs}

\* However many probes an address gets, and whichever way they end, the probes
\* between start_connection and end_connection are never more than the limit that
\* the manager was created with (scan_manager.rs:78), and no permit is lost.
WithinConcurrency == permits + Cardinality(InUse) = MaxConcurrent

\* There is never more than one scan, however many calls ask for one at once,
\* and the flag that says so is set exactly while there is one
\* (server_sender.rs:149-157: overlapping scans exhaust the ephemeral ports).
SingleScan ==
  /\ \A s, t \in Searching : s = t
  /\ isScanning <=> Searching # {}

\* A stream that a scan hands over never becomes a second connection next to
\* an attempt that was started while the scan was looking
\* (internal_client.rs:242-245).
OneOwner ==
  /\ \A h, k \in holders : h = k
  /\ isTryConnect <=> holders # {}

\* The scan flag changes hands as FlagGuard says: a scan belongs to the caller
\* that found is_scanning clear, until it releases it itself
\* (internal_client.rs:214-220).
ScanGuard == INSTANCE FlagGuard WITH Owners <- Callers, flag <- isScanning, owners <- Searching
ImplementsScanGuard == ScanGuard!Spec

\* And a stream that was found becomes a connection only as any other attempt
\* does, by taking is_try_connect when nobody has it (internal_client.rs:242-251).
Guard == INSTANCE FlagGuard WITH Owners <- Callers \cup {Other}, flag <- isTryConnect,
                                 owners <- holders
ImplementsGuard == Guard!Spec

\* No way through a scan leaves discovery locked out but the panic: without a
\* network, on a timeout, with a server found or with one found too late, the flag
\* is released (internal_client.rs:214-238 and 709-734).
ScanReleased == isScanning ~> ~isScanning \/ Panicked

\* A client that was let in to search tells the application how it went, unless an
\* attempt owns the connection by then and speaks for itself, or the caller that
\* would tell has panicked.
SearchIsAnswered ==
  (\E t \in Callers : pc[t] \in {"claimed", "scanning"})
    ~> announced = "Disconnected" \/ holders # {} \/ Panicked
=============================================================================
