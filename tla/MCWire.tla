------------------------------- MODULE MCWire -------------------------------
(* Wire over records of every kind, with categories at both ends of 16 bits  *)
(* and the loss of the last byte, of a field and of the category.            *)
EXTENDS Wire, TLC

a == <<97>>
bc == <<98, 99>>

ProtocolDef ==
  (0 :> "SaveKey") @@ (255 :> "Category") @@ (256 :> "Data") @@ (65535 :> "Pong") @@
  (77 :> "Ping") @@ (10000 :> "Ping") @@ (10001 :> "Pong") @@ (10002 :> "Expired") @@
  (10003 :> "Disconnect") @@ (10004 :> "AppStartup") @@ (10005 :> "AppStartupOutput") @@
  (10006 :> "SaveData") @@ (10007 :> "ServerConnectInfo") @@ (10008 :> "ValidClient")

Cut(m, lost) == {[m EXCEPT !.dropped = n] : n \in lost}

UpDef == {Whole(77, <<a, 7>>), Whole(65535, <<-2>>),
          Whole(10004, <<bc, 255>>)}
           \cup Cut(Whole(10000, <<a, 1>>), {1, 9})
           \cup Cut(Whole(10007, <<bc, a>>), {5, 12})
DownDef == {Whole(0, <<3>>), Whole(10001, <<7>>), Whole(256, <<65535, <<4, 0>>>>), Whole(255, <<10009>>)}
             \cup Cut(Whole(10006, <<256, <<0, 1>>>>), {0, 1}) \cup Cut(Whole(10008, <<TRUE>>), {2})
AddressDef == <<49, 58, 50>>
PeersDef == {a, bc}
=============================================================================
