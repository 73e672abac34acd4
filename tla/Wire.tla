-------------------------------- MODULE Wire --------------------------------
(***************************************************************************)
(* What travels between a client and a server, byte by byte: the records   *)
(* of the bebop schema and their encoding, the category that frames them,  *)
(* and the way of a frame through the reader at the other end, which acts  *)
(* on pings, pongs and disconnects and serializes everything else for the  *)
(* application.                                                            *)
(*                                                                         *)
(* A message is what its sender means, [category, values, dropped]: dropped*)
(* bytes are missing at its end, as in a Message an application built      *)
(* itself.  Only the reference definitions look at messages; the readers   *)
(* see the bytes.                                                          *)
(***************************************************************************)
EXTENDS Integers, Sequences, FiniteSets

CONSTANTS Protocol,    \* the record that either application expects under a
                       \* category, by its name in the schema
          UpMessages,  \* messages of the client's application
          DownMessages,\* messages of the server's application
          Peers,       \* identities, as bytes
          Address,     \* the address that stands in a disconnect, as bytes
          Proxied,     \* ServerOptions::proxy_ping, if positive
          MaxUp, MaxDown   \* bounds: messages the client and the server's
                           \* application send

ASSUME ProxiedAssumption == Proxied \in Nat /\ 0 < Proxied /\ Proxied < 32768
ASSUME BoundsAssumption == MaxUp \in Nat /\ MaxDown \in Nat

Byte == {n \in Nat : n < 256}
U16 == {n \in Nat : n < 65536}
MaxLength == 2147483647
I32 == {n \in Int : -MaxLength - 1 <= n /\ n <= MaxLength}

-----------------------------------------------------------------------------
(* The records of the schema, as the kinds of their fields in order, and   *)
(* its two enumerations.  The owned twins differ in who holds the bytes.   *)

DataFields == <<"u16", "bytes">>
PingFields == <<"str", "i32">>
PongFields == <<"i32">>
ExpiredFields == <<"bool">>
DisconnectFields == <<"str">>
AppStartupFields == <<"str", "u8">>
AppStartupOutputFields == <<"bool">>
SaveDataFields == <<"u16", "bytes">>
ServerConnectInfoFields == <<"str", "str">>
ValidClientFields == <<"bool">>

Category == [Ping |-> 10000, Pong |-> 10001, Expired |-> 10002, Disconnect |-> 10003,
             AppStartup |-> 10004, AppStartupOutput |-> 10005, SaveData |-> 10006,
             ServerConnectInfo |-> 10007, ValidClient |-> 10008, ClientId |-> 10009]
SaveKey == [ServerConnectInfo |-> 1, ValidClient |-> 2, ClientId |-> 3]

OwnedData == DataFields
OwnedPing == PingFields
OwnedDisconnect == DisconnectFields
OwnedAppStartup == AppStartupFields
OwnedSaveData == SaveDataFields
OwnedServerConnectInfo == ServerConnectInfoFields

Schema == [Data |-> DataFields, Ping |-> PingFields, Pong |-> PongFields,
           Expired |-> ExpiredFields, Disconnect |-> DisconnectFields,
           AppStartup |-> AppStartupFields, AppStartupOutput |-> AppStartupOutputFields,
           SaveData |-> SaveDataFields, ServerConnectInfo |-> ServerConnectInfoFields,
           ValidClient |-> ValidClientFields,
           Category |-> <<"category">>, SaveKey |-> <<"saveKey">>]

OwnedSchema == [Schema EXCEPT !.Data = OwnedData, !.Ping = OwnedPing,
                  !.Disconnect = OwnedDisconnect, !.AppStartup = OwnedAppStartup,
                  !.SaveData = OwnedSaveData, !.ServerConnectInfo = OwnedServerConnectInfo]

-----------------------------------------------------------------------------
(* The codec of the bebop crate.                                           *)

MinSize == [bool |-> 1, u8 |-> 1, u16 |-> 2, i32 |-> 4, category |-> 4, saveKey |-> 4,
            str |-> 4, bytes |-> 4]

Weight == <<1, 256, 65536, 16777216>>
LittleEndian(n, width) == [i \in 1..width |-> (n \div Weight[i]) % 256]

\* Two's complement; lengths and discriminants stay below 2^31.
Int32(raw) ==
  raw[1] + 256 * raw[2] + 65536 * raw[3]
    + 16777216 * (IF raw[4] < 128 THEN raw[4] ELSE raw[4] - 256)

Write(kind, value) ==
  CASE kind = "bool" -> <<IF value THEN 1 ELSE 0>>
    [] kind \in {"str", "bytes"} -> LittleEndian(Len(value), 4) \o value
    [] OTHER -> LittleEndian(value, MinSize[kind])

Taken(read, value) == [read |-> read, value |-> <<value>>, missing |-> 0]
MoreDataExpected(n) == [read |-> 0, value |-> <<>>, missing |-> n]
InvalidEnumDiscriminator == [read |-> 0, value |-> <<>>, missing |-> -1]

Discriminant(enum, n) ==
  IF \E name \in DOMAIN enum : enum[name] = n THEN Taken(4, n) ELSE InvalidEnumDiscriminator

\* Mutant: what is there of a string is not subtracted.
ReadBytesGreedy(raw) ==
  LET n == 4 + Int32(raw)
  IN IF Len(raw) < n THEN MoreDataExpected(n) ELSE Taken(n, SubSeq(raw, 5, n))

\* A string or a byte slice, after its length.
ReadBytes(raw) ==
  LET n == 4 + Int32(raw)
  IN IF Len(raw) < n THEN MoreDataExpected(n - Len(raw)) ELSE Taken(n, SubSeq(raw, 5, n))

Read(kind, raw) ==
  IF Len(raw) < MinSize[kind] THEN MoreDataExpected(MinSize[kind] - Len(raw))
  ELSE CASE kind = "bool" -> Taken(1, raw[1] = 1)
         [] kind = "u8" -> Taken(1, raw[1])
         [] kind = "u16" -> Taken(2, raw[1] + 256 * raw[2])
         [] kind = "i32" -> Taken(4, Int32(raw))
         [] kind = "category" -> Discriminant(Category, Int32(raw))
         [] kind = "saveKey" -> Discriminant(SaveKey, Int32(raw))
         [] OTHER -> ReadBytes(raw)

-----------------------------------------------------------------------------
(* What the generated code makes of it.                                    *)

\* serialize: the fields one after the other.
Serialize(fields, values) ==
  LET buf[i \in 0..Len(fields)] ==
        IF i = 0 THEN <<>> ELSE buf[i - 1] \o Write(fields[i], values[i])
  IN buf[Len(fields)]

MinSerializedSize(fields) ==
  LET size[i \in 0..Len(fields)] == IF i = 0 THEN 0 ELSE size[i - 1] + MinSize[fields[i]]
  IN size[Len(fields)]

\* deserialize: a record that is too short in any case is refused at once; then
\* field after field, up to the first error.  Bytes after the last are ignored.
DeserializeField(kind, raw, done) ==
  IF done.missing # 0 THEN done
  ELSE LET field == Read(kind, SubSeq(raw, done.read + 1, Len(raw)))
       IN [read |-> done.read + field.read, value |-> done.value \o field.value,
           missing |-> field.missing]

Deserialize(fields, raw) ==
  LET done[i \in 0..Len(fields)] ==
        IF i = 0 THEN [read |-> 0, value |-> <<>>, missing |-> 0]
        ELSE DeserializeField(fields[i], raw, done[i - 1])
      min == MinSerializedSize(fields)
  IN IF Len(raw) < min THEN MoreDataExpected(min - Len(raw)) ELSE done[Len(fields)]

Decodes(name, raw) == Deserialize(Schema[name], raw).missing = 0

-----------------------------------------------------------------------------
(* Frames.                                                                 *)

\* Mutant: no remainder is taken.
MakeAtomicMessageWide(category, datas) == <<category, category \div 256>> \o datas

\* Mutant: the category the other way round.
MakeAtomicMessageSwapped(category, datas) == <<category \div 256, category % 256>> \o datas

MakeAtomicMessage(category, datas) == <<category % 256, category \div 256>> \o datas

NoData == [category |-> -1, datas |-> <<>>]

GetDataSchema(data) ==
  IF Len(data) < 2 THEN NoData
  ELSE [category |-> data[1] + data[2] * 256, datas |-> SubSeq(data, 3, Len(data))]

MakePing(peer) == MakeAtomicMessage(Category.Ping, Serialize(PingFields, <<peer, 0>>))
MakeDisconnect(peer) == MakeAtomicMessage(Category.Disconnect, Serialize(DisconnectFields, <<peer>>))
MakePong == MakeAtomicMessage(Category.Pong, <<>>)
MakeExpired == MakeAtomicMessage(Category.Expired, Serialize(ExpiredFields, <<TRUE>>))

\* What the applications hand over is framed with make_atomic_message.
Payload(m) == Serialize(Schema[Protocol[m.category]], m.values)
Frame(m) == LET whole == MakeAtomicMessage(m.category, Payload(m))
            IN SubSeq(whole, 1, Len(whole) - m.dropped)

Whole(category, values) == [category |-> category, values |-> values, dropped |-> 0]

\* What a field of a kind may hold.
FieldValues == [bool |-> BOOLEAN, u8 |-> Byte, u16 |-> U16, i32 |-> I32,
                category |-> {Category[name] : name \in DOMAIN Category},
                saveKey |-> {SaveKey[name] : name \in DOMAIN SaveKey},
                str |-> Seq(Byte), bytes |-> Seq(Byte)]

IsRecord(fields, values) ==
  /\ values = [i \in DOMAIN fields |-> values[i]]
  /\ \A i \in DOMAIN fields : values[i] \in FieldValues[fields[i]]

\* A record of the protocol, whole or cut, that a length of 32 bits can measure.
IsMessage(m) ==
  /\ DOMAIN m = {"category", "values", "dropped"}
  /\ m.category \in U16 /\ Protocol[m.category] \in DOMAIN Schema
  /\ IsRecord(Schema[Protocol[m.category]], m.values)
  /\ Len(Payload(m)) <= MaxLength
  /\ m.dropped \in 0..Len(Payload(m)) + 2

\* Each application expects what the library sends under its categories, and a
\* ping under the proxied one.
ASSUME ProtocolAssumption ==
  /\ Protocol[Category.Ping] = "Ping" /\ Protocol[Proxied] = "Ping"
  /\ Protocol[Category.Expired] = "Expired" /\ Protocol[Category.Disconnect] = "Disconnect"
ASSUME MessagesAssumption ==
  \A m \in UpMessages \cup DownMessages : IsMessage(m)
ASSUME PeersAssumption ==
  /\ \A p \in Peers : IsMessage(Whole(Category.Ping, <<p, 0>>))
  /\ IsMessage(Whole(Category.Disconnect, <<Address>>))

-----------------------------------------------------------------------------
VARIABLES
  usePing, proxyPing,       \* the server's options
  up, down,                 \* frames on their way
  upOpen, downOpen,         \* the writers run
  server,                   \* the server's reader: "first", "on", "closed"
  client,                   \* the client's reader: "on", "closed"
  id,                       \* who the first message named
  serverQueue, clientQueue, \* serialized Data for the applications
  serverGot, clientGot,     \* history: what the applications made of them
  sentUp, sentDown          \* history: the messages behind all frames

options == <<usePing, proxyPing>>
upward == <<up, upOpen, sentUp>>
downward == <<down, downOpen, sentDown>>
applications == <<serverQueue, clientQueue, serverGot, clientGot>>
vars == <<options, upward, downward, server, client, id, applications>>

Init ==
  /\ usePing \in BOOLEAN /\ proxyPing \in {-1, Proxied}
  /\ up = <<>> /\ down = <<>> /\ upOpen = TRUE /\ downOpen = TRUE
  /\ server = "first" /\ client = "on" /\ id = <<>>
  /\ serverQueue = <<>> /\ clientQueue = <<>>
  /\ serverGot = <<>> /\ clientGot = <<>>
  /\ sentUp = <<>> /\ sentDown = <<>>

\* A writer sends a frame, then looks at it: after a disconnect, or a frame
\* without a category, it closes its channel.
GoesOn(frame) == LET data == GetDataSchema(frame)
                 IN data # NoData /\ data.category # Category.Disconnect

SendUp(frame, m) == /\ upOpen
                    /\ up' = Append(up, frame) /\ sentUp' = Append(sentUp, m)
                    /\ upOpen' = GoesOn(frame)

SendDown(frame, m) ==
  IF downOpen THEN /\ down' = Append(down, frame) /\ sentDown' = Append(sentDown, m)
                   /\ downOpen' = GoesOn(frame)
              ELSE UNCHANGED downward

ClientPings(peer) ==
  /\ Len(sentUp) < MaxUp
  /\ SendUp(MakePing(peer), Whole(Category.Ping, <<peer, 0>>))
  /\ UNCHANGED <<options, downward, server, client, id, applications>>

ClientDisconnects ==
  /\ Len(sentUp) < MaxUp
  /\ SendUp(MakeDisconnect(<<>>), Whole(Category.Disconnect, <<<<>>>>))
  /\ UNCHANGED <<options, downward, server, client, id, applications>>

ClientSends(m) ==
  /\ Len(sentUp) < MaxUp
  /\ SendUp(Frame(m), m)
  /\ UNCHANGED <<options, downward, server, client, id, applications>>

ServerSends(m) ==
  /\ server = "on" /\ downOpen /\ Len(sentDown) < MaxDown
  /\ SendDown(Frame(m), m)
  /\ UNCHANGED <<options, upward, server, client, id, applications>>

ServerExpires ==
  /\ server = "on" /\ downOpen /\ Len(sentDown) < MaxDown
  /\ SendDown(MakeExpired, Whole(Category.Expired, <<TRUE>>))
  /\ UNCHANGED <<options, upward, server, client, id, applications>>

-----------------------------------------------------------------------------
(* The readers.                                                            *)

Forwarded(data) == Serialize(DataFields, <<data.category, data.datas>>)
PingOf(data) == Deserialize(PingFields, data.datas)

PongSent == Whole(Category.Pong, <<>>)
Pong == SendDown(MakePong, PongSent)
Close == /\ server' = "closed"
         /\ SendDown(MakeDisconnect(Address), Whole(Category.Disconnect, <<Address>>))

AsProxied(data) == [data EXCEPT !.category = IF proxyPing > 0 THEN proxyPing ELSE @]

\* Mutant: every ping is answered on the connection that it came on.
AnswerHere(data) == Pong

\* The pong goes to the peer that the ping names.
Answer(data) == IF PingOf(data).value[1] = id THEN Pong ELSE UNCHANGED downward

\* get_id_from_first_message: a ping names the client, and so does a message
\* of the proxied category.
ServerNames ==
  /\ server = "first" /\ up # <<>>
  /\ up' = Tail(up)
  /\ LET data == GetDataSchema(Head(up))
     IN IF /\ data # NoData
           /\ data.category \in {Category.Ping, proxyPing}
           /\ Decodes("Ping", data.datas)
        THEN /\ server' = "on" /\ id' = PingOf(data).value[1]
             /\ IF usePing /\ data.category = Category.Ping
                THEN Pong /\ UNCHANGED serverQueue
                ELSE /\ serverQueue' = Append(serverQueue, Forwarded(AsProxied(data)))
                     /\ UNCHANGED downward
        ELSE Close /\ UNCHANGED <<id, serverQueue>>
  /\ UNCHANGED <<options, upOpen, sentUp, client, clientQueue, serverGot, clientGot>>

\* The reader's loop.
ServerReads ==
  /\ server = "on" /\ up # <<>>
  /\ up' = Tail(up)
  /\ LET data == GetDataSchema(Head(up))
     IN CASE data = NoData -> UNCHANGED <<server, downward, serverQueue>>
          [] data.category = Category.Ping /\ usePing /\ Decodes("Ping", data.datas) ->
               Answer(data) /\ UNCHANGED <<server, serverQueue>>
          [] data.category = Category.Disconnect -> Close /\ UNCHANGED serverQueue
          [] OTHER -> /\ serverQueue' = Append(serverQueue, Forwarded(data))
                      /\ UNCHANGED <<server, downward>>
  /\ UNCHANGED <<options, upOpen, sentUp, client, id, clientQueue, serverGot, clientGot>>

\* The client's reader, and the disconnect it may still get through its writer
\* before that ends.
ClientReads ==
  /\ client = "on" /\ down # <<>>
  /\ down' = Tail(down)
  /\ LET data == GetDataSchema(Head(down))
     IN CASE data = NoData \/ data.category = Category.Pong ->
               UNCHANGED <<client, upward, clientQueue>>
          [] data.category = Category.Disconnect ->
               /\ client' = "closed" /\ UNCHANGED clientQueue
               /\ \/ SendUp(MakeDisconnect(Address), Whole(Category.Disconnect, <<Address>>))
                  \/ upOpen' = FALSE /\ UNCHANGED <<up, sentUp>>
          [] OTHER -> /\ clientQueue' = Append(clientQueue, Forwarded(data))
                      /\ UNCHANGED <<client, upward>>
  /\ UNCHANGED <<options, downOpen, sentDown, server, id, serverQueue, serverGot, clientGot>>

-----------------------------------------------------------------------------
(* The applications.                                                       *)

\* Data::deserialize, then the record of the category, owned or borrowed.
Understood(bytes, schema) ==
  LET data == Deserialize(schema.Data, bytes).value
      content == Deserialize(schema[Protocol[data[1]]], data[2])
  IN [category |-> data[1], values |-> content.value, missing |-> content.missing]

ServerApp ==
  /\ serverQueue # <<>>
  /\ serverQueue' = Tail(serverQueue)
  /\ \E schema \in {Schema, OwnedSchema} :
       serverGot' = Append(serverGot, Understood(Head(serverQueue), schema))
  /\ UNCHANGED <<options, upward, downward, server, client, id, clientQueue, clientGot>>

ClientApp ==
  /\ clientQueue # <<>>
  /\ clientQueue' = Tail(clientQueue)
  /\ \E schema \in {Schema, OwnedSchema} :
       clientGot' = Append(clientGot, Understood(Head(clientQueue), schema))
  /\ UNCHANGED <<options, upward, downward, server, client, id, serverQueue, serverGot>>

Next == \/ \E p \in Peers : ClientPings(p)
        \/ \E m \in UpMessages : ClientSends(m)
        \/ \E m \in DownMessages : ServerSends(m)
        \/ ClientDisconnects \/ ServerExpires
        \/ ServerNames \/ ServerReads \/ ClientReads
        \/ ServerApp \/ ClientApp

Spec == Init /\ [][Next]_vars

-----------------------------------------------------------------------------
(* What the applications have to hear, told from the messages alone.       *)

HasCategory(m) == m.dropped = 0 \/ m.dropped <= Len(Payload(m))
CompletePing(m) == m.category = Category.Ping /\ m.dropped = 0
IsAnswered(m) == usePing /\ CompletePing(m)
Names(m) == m.dropped = 0 /\ m.category \in {Category.Ping, proxyPing}

ReadByServer == Len(sentUp) - Len(up)
ReadByClient == Len(sentDown) - Len(down)

\* All but disconnects, answered pings and frames without a category; of the
\* first message only a name, under the proxied category if there is one.
ForServerApp ==
  {i \in 1..ReadByServer :
     /\ Names(sentUp[1]) /\ ~IsAnswered(sentUp[i])
     /\ i = 1 \/ (HasCategory(sentUp[i]) /\ sentUp[i].category # Category.Disconnect)}
MeantUp ==
  [i \in DOMAIN sentUp |->
     [sentUp[i] EXCEPT !.category = IF i = 1 /\ proxyPing > 0 THEN proxyPing ELSE @]]

ForClientApp ==
  {i \in 1..ReadByClient :
     /\ sentDown[i].category \notin {Category.Pong, Category.Disconnect}
     /\ HasCategory(sentDown[i])}

\* Which of the messages heard is the i-th of those sent.
Place(i, heard) == Cardinality({j \in heard : j <= i})

Hears(got, queue, heard, meant) ==
  /\ Len(got) + Len(queue) = Cardinality(heard)
  /\ \A i \in heard :
       LET n == Place(i, heard)
       IN n <= Len(got) => /\ got[n].category = meant[i].category
                           /\ meant[i].dropped = 0 => got[n].values = meant[i].values

Notices(got, heard, meant) ==
  \A i \in heard :
    LET n == Place(i, heard)
    IN n <= Len(got) =>
         got[n].missing \in (IF meant[i].dropped = 0 THEN {0} ELSE 1..meant[i].dropped)

IsBytes(s) == \A i \in DOMAIN s : s[i] \in Byte

\* Frames and queued data are bytes, categories 16 bits wide.
TypeOK ==
  /\ usePing \in BOOLEAN /\ proxyPing \in {-1, Proxied}
  /\ upOpen \in BOOLEAN /\ downOpen \in BOOLEAN
  /\ server \in {"first", "on", "closed"} /\ client \in {"on", "closed"}
  /\ IsBytes(id)
  /\ \A q \in {up, down, serverQueue, clientQueue} : \A i \in DOMAIN q : IsBytes(q[i])
  /\ \A got \in {serverGot, clientGot} : \A i \in DOMAIN got : got[i].category \in U16
  /\ Len(up) <= Len(sentUp) /\ Len(down) <= Len(sentDown)

\* Whatever the server's options, its application gets the messages of a named
\* client up to the disconnect, and the client's those of the server, once each
\* and in order, with the category and the content they were sent with
\* (internal_server.rs:541-579, get_internal_websocket.rs:239-278).
AppsHear ==
  /\ Hears(serverGot, serverQueue, ForServerApp, MeantUp)
  /\ Hears(clientGot, clientQueue, ForClientApp, sentDown)

\* A record that lost bytes on the way never passes for a shorter one, and the
\* error asks for no more bytes than were lost (the MIN_SERIALIZED_SIZE checks of
\* schema.rs).
CutIsNoticed ==
  /\ Notices(serverGot, ForServerApp, MeantUp)
  /\ Notices(clientGot, ForClientApp, sentDown)

Pongs == Cardinality({i \in DOMAIN sentDown : sentDown[i] = PongSent})
PingsOf(peer) ==
  Cardinality({i \in 1..ReadByServer : IsAnswered(sentUp[i]) /\ sentUp[i].values[1] = peer})

\* The connection belongs to whom its first message named, and its client gets a
\* pong for every ping of that name, as long as its writer runs, and for nothing
\* else (internal_server.rs:552-557, 764-781).
PongForPing ==
  server # "first" /\ id # <<>> =>
    /\ Names(sentUp[1]) /\ id = sentUp[1].values[1]
    /\ Pongs <= PingsOf(id)
    /\ downOpen => Pongs = PingsOf(id)
=============================================================================
