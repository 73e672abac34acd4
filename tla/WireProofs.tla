----------------------------- MODULE WireProofs -----------------------------
(***************************************************************************)
(* Every record of the schema is read as it was written, a cut one is      *)
(* noticed, and frames carry both unchanged; hence what the applications   *)
(* hear of each other, for all their messages and all orders of steps.     *)
(***************************************************************************)
EXTENDS Wire, SequenceTheorems, FiniteSetTheorems, TLAPS

-----------------------------------------------------------------------------
(* Numbers on the wire.                                                    *)

\* The category of proxied pings is a 16-bit number.
LEMMA ProxiedType == Proxied \in U16
  BY ProxiedAssumption DEF U16

LEMMA LittleEndianBytes ==
  ASSUME NEW n \in Int, NEW width \in {1, 2, 4}
  PROVE  /\ LittleEndian(n, width) \in Seq(Byte) /\ Len(LittleEndian(n, width)) = width
         /\ \A i \in 1..width : LittleEndian(n, width)[i] = (n \div Weight[i]) % 256
<1>1. \A i \in 1..width : Weight[i] \in Nat \ {0}
  BY SMT DEF Weight
<1>2. \A i \in 1..width : (n \div Weight[i]) % 256 \in Byte
  BY <1>1 DEF Byte
<1>3. LittleEndian(n, width) \in [1..width -> Byte]
  BY <1>2 DEF LittleEndian
<1>4. LittleEndian(n, width) \in Seq(Byte) /\ Len(LittleEndian(n, width)) = width
  BY <1>3, SeqDef
<1> QED BY <1>4 DEF LittleEndian

LEMMA Digits ==
  ASSUME NEW n \in Int
  PROVE  /\ n \in Byte => (n \div 1) % 256 = n
         /\ n \in U16 => ((n \div 1) % 256) + 256 * ((n \div 256) % 256) = n
<1>1. n \in Byte => (n \div 1) % 256 = n
  BY DEF Byte
<1>2. n \in U16 => ((n \div 1) % 256) + 256 * ((n \div 256) % 256) = n
  <2> SUFFICES ASSUME n \in U16
               PROVE  ((n \div 1) % 256) + 256 * ((n \div 256) % 256) = n
    OBVIOUS
  <2>1. n \div 256 \in 0..255 /\ n \div 1 = n /\ n = (n % 256) + 256 * (n \div 256)
    <3>1. n \in Int /\ 0 <= n /\ n <= 65535
      BY DEF U16
    <3>2. n \div 256 \in 0..255
      BY <3>1
    <3>3. n = (n % 256) + 256 * (n \div 256)
      BY <3>1
    <3> QED BY <3>1, <3>2, <3>3
  <2>2. (n \div 256) % 256 = n \div 256
    BY <2>1
  <2> QED BY <2>1, <2>2
<1> QED BY <1>1, <1>2

LEMMA Int32Inverse ==
  ASSUME NEW n \in I32
  PROVE  Int32(LittleEndian(n, 4)) = n
<1> DEFINE a == n \div 1 b == n \div 256 c == n \div 65536 d == n \div 16777216
<1>1. LittleEndian(n, 4)[1] = a % 256 /\ LittleEndian(n, 4)[2] = b % 256
      /\ LittleEndian(n, 4)[3] = c % 256 /\ LittleEndian(n, 4)[4] = d % 256
  <2>1. n \in Int
    BY SMT DEF I32, MaxLength
  <2>2. \A i \in 1..4 : LittleEndian(n, 4)[i] = (n \div Weight[i]) % 256
    BY <2>1, LittleEndianBytes
  <2>3. Weight[1] = 1 /\ Weight[2] = 256 /\ Weight[3] = 65536 /\ Weight[4] = 16777216
    BY SMT DEF Weight
  <2> QED BY <2>2, <2>3, SMT
<1>2. /\ n = 256 * b + (a % 256) /\ b = 256 * c + (b % 256) /\ c = 256 * d + (c % 256)
      /\ a \in Int /\ b \in Int /\ c \in Int /\ d \in Int
  BY SMT DEF I32, MaxLength
<1>3. d \in -128..127
  BY SMT DEF I32, MaxLength
<1>4. d = IF d % 256 < 128 THEN d % 256 ELSE (d % 256) - 256
  <2> HIDE DEF d
  <2> QED BY <1>3, SMT
<1> HIDE DEF a, b, c, d
<1> QED BY <1>1, <1>2, <1>3, <1>4, SMT DEF Int32

-----------------------------------------------------------------------------
(* Fields.                                                                 *)

Kinds == {"bool", "u8", "u16", "i32", "category", "saveKey", "str", "bytes"}
Blobs == {"str", "bytes"}

LEMMA Sizes ==
  /\ DOMAIN FieldValues = Kinds
  /\ MinSize["bool"] = 1 /\ MinSize["u8"] = 1 /\ MinSize["u16"] = 2 /\ MinSize["i32"] = 4
  /\ MinSize["category"] = 4 /\ MinSize["saveKey"] = 4
  /\ MinSize["str"] = 4 /\ MinSize["bytes"] = 4
  /\ \A kind \in Kinds : MinSize[kind] \in {1, 2, 4}
  BY DEF MinSize, FieldValues, Kinds

LEMMA Integers32 == Byte \subseteq I32 /\ U16 \subseteq I32 /\ I32 \subseteq Int
  BY SMT DEF Byte, U16, I32, MaxLength

LEMMA Naturals16 == U16 \subseteq Nat
  BY SMT DEF U16

LEMMA ValuesOf ==
  /\ FieldValues["bool"] = BOOLEAN /\ FieldValues["u8"] = Byte /\ FieldValues["u16"] = U16
  /\ FieldValues["i32"] = I32 /\ FieldValues["str"] = Seq(Byte) /\ FieldValues["bytes"] = Seq(Byte)
  /\ \A n \in FieldValues["category"] : n \in I32 /\ \E name \in DOMAIN Category : Category[name] = n
  /\ \A n \in FieldValues["saveKey"] : n \in I32 /\ \E name \in DOMAIN SaveKey : SaveKey[name] = n
  /\ \A kind \in Kinds \ {"bool", "str", "bytes"} : FieldValues[kind] \subseteq Int
<1>1. \A name \in DOMAIN Category : Category[name] \in I32
  <2>1. DOMAIN Category = {"Ping", "Pong", "Expired", "Disconnect", "AppStartup",
                           "AppStartupOutput", "SaveData", "ServerConnectInfo", "ValidClient",
                           "ClientId"}
    BY SMT DEF Category
  <2>2. \A n \in 10000..10009 : n \in I32
    BY SMT DEF I32, MaxLength
  <2>3. /\ Category.Ping = 10000 /\ Category.Pong = 10001 /\ Category.Expired = 10002
        /\ Category.Disconnect = 10003 /\ Category.AppStartup = 10004
        /\ Category.AppStartupOutput = 10005 /\ Category.SaveData = 10006
        /\ Category.ServerConnectInfo = 10007 /\ Category.ValidClient = 10008
        /\ Category.ClientId = 10009
    BY SMT DEF Category
  <2>4. \A name \in DOMAIN Category : Category[name] \in 10000..10009
    BY <2>1, <2>3, SMT
  <2> QED BY <2>2, <2>4
<1>2. \A name \in DOMAIN SaveKey : SaveKey[name] \in I32
  BY SMT DEF SaveKey, I32, MaxLength
<1>3. /\ FieldValues["bool"] = BOOLEAN /\ FieldValues["u8"] = Byte /\ FieldValues["u16"] = U16
      /\ FieldValues["i32"] = I32 /\ FieldValues["str"] = Seq(Byte)
      /\ FieldValues["bytes"] = Seq(Byte)
      /\ FieldValues["category"] = {Category[name] : name \in DOMAIN Category}
      /\ FieldValues["saveKey"] = {SaveKey[name] : name \in DOMAIN SaveKey}
  BY DEF FieldValues
<1>4. FieldValues["category"] \subseteq I32 /\ FieldValues["saveKey"] \subseteq I32
  BY <1>1, <1>2, <1>3
<1>5. \A kind \in Kinds \ {"bool", "str", "bytes"} : FieldValues[kind] \subseteq I32
  BY <1>3, <1>4, Integers32 DEF Kinds
<1>6. \A kind \in Kinds \ {"bool", "str", "bytes"} : FieldValues[kind] \subseteq Int
  BY <1>5, Integers32
<1> QED BY <1>1, <1>2, <1>3, <1>6, ZenonT(60)

\* What is written of a field, and how long it is.
LEMMA WrittenBytes ==
  ASSUME NEW kind \in Kinds, NEW v \in FieldValues[kind]
  PROVE  /\ Write(kind, v) \in Seq(Byte)
         /\ kind \in Blobs => v \in Seq(Byte) /\ Len(Write(kind, v)) = 4 + Len(v)
         /\ kind \notin Blobs => Len(Write(kind, v)) = MinSize[kind]
<1>1. CASE kind = "bool"
  <2>1. Write(kind, v) = <<IF v THEN 1 ELSE 0>>
    BY <1>1 DEF Write
  <2>2. (IF v THEN 1 ELSE 0) \in Byte
    BY DEF Byte
  <2> QED BY <1>1, <2>1, <2>2, Sizes DEF Blobs
<1>2. CASE kind \in Blobs
  <2>1. v \in Seq(Byte) /\ Len(v) \in Nat
    BY <1>2, ValuesOf, LenProperties DEF Blobs
  <2>2. Write(kind, v) = LittleEndian(Len(v), 4) \o v
    BY <1>2 DEF Write, Blobs
  <2>3. LittleEndian(Len(v), 4) \in Seq(Byte) /\ Len(LittleEndian(Len(v), 4)) = 4
    BY <2>1, LittleEndianBytes
  <2>4. /\ LittleEndian(Len(v), 4) \o v \in Seq(Byte)
        /\ Len(LittleEndian(Len(v), 4) \o v) = Len(LittleEndian(Len(v), 4)) + Len(v)
    BY <2>1, <2>3, ConcatProperties
  <2> QED BY <1>2, <2>1, <2>2, <2>3, <2>4
<1>3. CASE kind \notin Blobs /\ kind # "bool"
  <2>1. v \in Int
    BY <1>3, ValuesOf DEF Blobs
  <2>2. Write(kind, v) = LittleEndian(v, MinSize[kind])
    BY <1>3 DEF Write, Blobs
  <2>3. MinSize[kind] \in {1, 2, 4}
    BY Sizes
  <2> HIDE DEF Kinds
  <2>4. /\ LittleEndian(v, MinSize[kind]) \in Seq(Byte)
        /\ Len(LittleEndian(v, MinSize[kind])) = MinSize[kind]
    BY ONLY <2>1, <2>3, LittleEndianBytes, ZenonT(60)
  <2> QED BY <1>3, <2>2, <2>4
<1> QED BY <1>1, <1>2, <1>3

LEMMA LeastSize ==
  ASSUME NEW kind \in Kinds, NEW v \in FieldValues[kind]
  PROVE  MinSize[kind] <= Len(Write(kind, v)) /\ (kind \in Blobs => MinSize[kind] = 4)
<1> DEFINE n == Len(Write(kind, v))
<1>1. MinSize[kind] \in Nat
  BY Sizes
<1>2. CASE kind \in Blobs
  <2>1. n = 4 + Len(v) /\ Len(v) \in Nat /\ MinSize[kind] = 4
    BY <1>2, WrittenBytes, LenProperties, Sizes DEF Blobs
  <2> HIDE DEF n
  <2>2. MinSize[kind] <= n
    BY <2>1
  <2> QED BY <2>1, <2>2 DEF n
<1>3. CASE kind \notin Blobs
  <2>1. n = MinSize[kind]
    BY <1>3, WrittenBytes
  <2> HIDE DEF n
  <2>2. MinSize[kind] <= n
    BY <1>1, <2>1
  <2> QED BY <1>3, <2>2 DEF n
<1> QED BY <1>2, <1>3

\* A string or a byte slice: its length, and what follows it.
LEMMA WrittenBlob ==
  ASSUME NEW kind \in Blobs, NEW v \in Seq(Byte)
  PROVE  \A i \in 1..4 + Len(v) :
           Write(kind, v)[i] = IF i <= 4 THEN LittleEndian(Len(v), 4)[i] ELSE v[i - 4]
<1> DEFINE size == LittleEndian(Len(v), 4)
<1>1. size \in Seq(Byte) /\ Len(size) = 4 /\ Len(v) \in Nat
  BY LittleEndianBytes, LenProperties
<1>2. Write(kind, v) = size \o v
  BY DEF Write, Blobs
<1> HIDE DEF size
<1>3. \A i \in 1..Len(size) + Len(v) :
        (size \o v)[i] = IF i <= Len(size) THEN size[i] ELSE v[i - Len(size)]
  BY <1>1, ConcatProperties, Zenon
<1> QED BY <1>1, <1>2, <1>3 DEF size

LEMMA BlobLength ==
  ASSUME NEW kind \in Blobs, NEW v \in Seq(Byte), Len(v) <= MaxLength,
         NEW raw, \A i \in 1..4 : raw[i] = Write(kind, v)[i]
  PROVE  Int32(raw) = Len(v)
<1>1. Len(v) \in Nat
  BY LenProperties
<1>2. Len(v) \in I32
  BY <1>1, SMT DEF I32, MaxLength
<1>3. \A i \in 1..4 : raw[i] = LittleEndian(Len(v), 4)[i]
  BY <1>1, WrittenBlob
<1>4. Int32(raw) = Int32(LittleEndian(Len(v), 4))
  BY <1>3, SMT DEF Int32
<1> QED BY <1>2, <1>4, Int32Inverse

\* A field is read as it was written, whatever follows it.
LEMMA FieldRead ==
  ASSUME NEW kind \in Kinds, NEW v \in FieldValues[kind],
         kind \in Blobs => Len(v) <= MaxLength,
         NEW raw \in Seq(Byte), Len(Write(kind, v)) <= Len(raw),
         \A i \in 1..Len(Write(kind, v)) : raw[i] = Write(kind, v)[i]
  PROVE  Read(kind, raw) = Taken(Len(Write(kind, v)), v)
<1> DEFINE w == Write(kind, v)
<1> SUFFICES Read(kind, raw) = Taken(Len(w), v)
  OBVIOUS
<1>1. w \in Seq(Byte) /\ Len(w) \in Nat /\ Len(raw) \in Nat
  BY WrittenBytes, LenProperties
<1>2. Len(w) <= Len(raw) /\ \A i \in 1..Len(w) : raw[i] = w[i]
  OBVIOUS
<1>3. ~(Len(raw) < MinSize[kind])
  <2>1. Len(w) >= MinSize[kind] /\ MinSize[kind] \in Nat
    BY LeastSize, Sizes
  <2> HIDE DEF w
  <2> QED BY <1>1, <1>2, <2>1
<1>4. CASE kind = "bool"
  <2>1. w = <<IF v THEN 1 ELSE 0>> /\ Len(w) = 1 /\ v \in BOOLEAN
    BY <1>4, ValuesOf DEF Write
  <2>2. raw[1] = IF v THEN 1 ELSE 0
    <3>1. w[1] = IF v THEN 1 ELSE 0
      BY <2>1
    <3> HIDE DEF w
    <3> QED BY <1>2, <2>1, <3>1
  <2>3. (raw[1] = 1) = v
    <3> QED BY <2>1, <2>2
  <2> HIDE DEF w
  <2>4. Read(kind, raw) = Taken(1, raw[1] = 1)
    BY <1>3, <1>4, SMT DEF Read
  <2> QED BY <2>1, <2>3, <2>4
<1>5. ASSUME kind \in {"u8", "u16", "i32", "category", "saveKey"}
      PROVE  /\ v \in Int /\ w = LittleEndian(v, MinSize[kind]) /\ Len(w) = MinSize[kind]
             /\ \A i \in 1..MinSize[kind] : raw[i] = (v \div Weight[i]) % 256
  <2>1. v \in Int
    BY <1>5, ValuesOf DEF Kinds
  <2>2. w = LittleEndian(v, MinSize[kind])
    BY <1>5 DEF Write
  <2>3. Len(w) = MinSize[kind] /\ \A i \in 1..MinSize[kind] : w[i] = (v \div Weight[i]) % 256
    <3> DEFINE size == MinSize[kind]
    <3>1. size \in {1, 2, 4}
      BY Sizes
    <3> HIDE DEF size
    <3>2. Len(LittleEndian(v, size)) = size
      BY ONLY <2>1, <3>1, LittleEndianBytes, ZenonT(60)
    <3>3. \A i \in 1..size : LittleEndian(v, size)[i] = (v \div Weight[i]) % 256
      BY DEF LittleEndian
    <3> QED BY <2>2, <3>2, <3>3 DEF size
  <2> HIDE DEF w
  <2> QED BY <1>2, <2>1, <2>2, <2>3
<1>6. CASE kind = "u8"
  <2>1. raw[1] = v /\ Len(w) = 1
    <3>1. v \in Byte /\ Weight[1] = 1
      BY <1>6, ValuesOf, SMT DEF Weight
    <3> HIDE DEF w
    <3> QED BY <1>5, <1>6, <3>1, Sizes, Digits
  <2> HIDE DEF w
  <2> QED BY <1>3, <1>6, <2>1, SMT DEF Read
<1>7. CASE kind = "u16"
  <2>1. raw[1] + 256 * raw[2] = v /\ Len(w) = 2
    <3>1. v \in U16 /\ Weight[1] = 1 /\ Weight[2] = 256
      BY <1>7, ValuesOf, SMT DEF Weight
    <3> HIDE DEF w
    <3> QED BY <1>5, <1>7, <3>1, Sizes, Digits
  <2> HIDE DEF w
  <2> QED BY <1>3, <1>7, <2>1, SMT DEF Read
<1>8. ASSUME kind \in {"i32", "category", "saveKey"}
      PROVE  Int32(raw) = v /\ Len(w) = 4
  <2>1. v \in I32 /\ MinSize[kind] = 4
    BY <1>8, ValuesOf, Sizes
  <2>2. \A i \in 1..4 : raw[i] = LittleEndian(v, 4)[i]
    <3> HIDE DEF w
    <3> QED BY <1>2, <1>5, <1>8, <2>1
  <2>3. Int32(raw) = Int32(LittleEndian(v, 4))
    <3> HIDE DEF w
    <3> QED BY <2>2, SMT DEF Int32
  <2> QED BY <1>5, <1>8, <2>1, <2>3, Int32Inverse
<1>9. CASE kind = "i32"
  <2> HIDE DEF w
  <2>1. Read(kind, raw) = Taken(4, Int32(raw))
    BY <1>3, <1>9, SMT DEF Read
  <2> QED BY <1>8, <1>9, <2>1
<1>10. CASE kind = "category" \/ kind = "saveKey"
  <2> HIDE DEF w
  <2>1. CASE kind = "category"
    <3>1. Read(kind, raw) = Discriminant(Category, Int32(raw))
      BY <1>3, <2>1, SMT DEF Read
    <3> QED BY <1>8, <2>1, <3>1, ValuesOf DEF Discriminant
  <2>2. CASE kind = "saveKey"
    <3>1. Read(kind, raw) = Discriminant(SaveKey, Int32(raw))
      BY <1>3, <2>2, SMT DEF Read
    <3> QED BY <1>8, <2>2, <3>1, ValuesOf DEF Discriminant
  <2> QED BY <1>10, <2>1, <2>2
<1>11. CASE kind \in Blobs
  <2>1. v \in Seq(Byte) /\ Len(v) \in Nat /\ Len(v) <= MaxLength /\ Len(w) = 4 + Len(v)
    BY <1>11, WrittenBytes, LenProperties
  <2>2. \A i \in 1..Len(w) : w[i] = IF i <= 4 THEN LittleEndian(Len(v), 4)[i] ELSE v[i - 4]
    BY <1>11, <2>1, WrittenBlob
  <2> HIDE DEF w
  <2>3. Int32(raw) = Len(v)
    <3>1. \A i \in 1..4 : raw[i] = w[i]
      BY <1>2, <2>1
    <3> QED BY <1>11, <2>1, <3>1, BlobLength DEF w
  <2>4. SubSeq(raw, 5, Len(w)) = v
    <3> DEFINE part == SubSeq(raw, 5, Len(w))
    <3>1. \A i \in 5..Len(w) : raw[i] \in Byte
      BY <1>1, <1>2, ElementOfSeq
    <3>2. part \in Seq(Byte) /\ Len(part) = Len(v)
          /\ \A i \in 1..Len(v) : part[i] = raw[5 + i - 1]
      BY <2>1, <3>1, SubSeqProperties
    <3> HIDE DEF part
    <3>3. \A i \in 1..Len(v) : part[i] = v[i]
      <4> SUFFICES ASSUME NEW i \in 1..Len(v) PROVE part[i] = v[i]
        OBVIOUS
      <4>1. 4 + i \in 1..Len(w) /\ 5 + i - 1 = 4 + i /\ ~(4 + i <= 4) /\ (4 + i) - 4 = i
        BY <2>1
      <4> QED BY <1>2, <2>2, <3>2, <4>1
    <3>4. part = v
      BY <2>1, <3>2, <3>3, SeqEqual
    <3> QED BY <3>4 DEF part
  <2>5. Read(kind, raw) = ReadBytes(raw)
    BY <1>3, <1>11, SMT DEF Read, Blobs
  <2>6. ReadBytes(raw) = Taken(Len(w), v)
    <3>1. 4 + Int32(raw) = Len(w) /\ ~(Len(raw) < Len(w))
      BY <1>1, <1>2, <2>1, <2>3
    <3> QED BY <2>4, <3>1, Zenon DEF ReadBytes
  <2> QED BY <2>5, <2>6
<1> QED BY <1>4, <1>6, <1>7, <1>9, <1>10, <1>11 DEF Kinds, Blobs

\* Of a field that lost its last bytes, the error asks for some of them.
LEMMA FieldCut ==
  ASSUME NEW kind \in Kinds, NEW v \in FieldValues[kind],
         kind \in Blobs => Len(v) <= MaxLength,
         NEW raw \in Seq(Byte), Len(raw) < Len(Write(kind, v)),
         \A i \in 1..Len(raw) : raw[i] = Write(kind, v)[i]
  PROVE  \E n \in 1..Len(Write(kind, v)) - Len(raw) : Read(kind, raw) = MoreDataExpected(n)
<1> DEFINE w == Write(kind, v)
<1> SUFFICES \E n \in 1..Len(w) - Len(raw) : Read(kind, raw) = MoreDataExpected(n)
  OBVIOUS
<1>1. w \in Seq(Byte) /\ Len(w) \in Nat /\ Len(raw) \in Nat /\ Len(raw) < Len(w)
  BY WrittenBytes, LenProperties
<1>2. MinSize[kind] \in Nat /\ MinSize[kind] <= Len(w)
  BY LeastSize, Sizes
<1>3. CASE Len(raw) < MinSize[kind]
  <2>1. Read(kind, raw) = MoreDataExpected(MinSize[kind] - Len(raw))
    BY <1>3, Zenon DEF Read
  <2>2. MinSize[kind] - Len(raw) \in 1..Len(w) - Len(raw)
    <3> HIDE DEF w
    <3> QED BY <1>1, <1>2, <1>3
  <2> HIDE DEF w
  <2> QED BY <2>1, <2>2
<1>4. CASE ~(Len(raw) < MinSize[kind])
  <2>1. kind \in Blobs
    <3>1. kind \notin Blobs => Len(w) = MinSize[kind]
      BY WrittenBytes
    <3> HIDE DEF w
    <3> QED BY <1>1, <1>2, <1>4, <3>1
  <2>2. v \in Seq(Byte) /\ Len(v) \in Nat /\ Len(v) <= MaxLength /\ Len(w) = 4 + Len(v)
    BY <2>1, WrittenBytes, LenProperties
  <2>3. Int32(raw) = Len(v)
    <3>1. 4 <= Len(raw)
      BY <1>1, <1>4, <2>1, LeastSize
    <3>2. \A i \in 1..4 : raw[i] = Write(kind, v)[i]
      BY <1>1, <3>1
    <3> QED BY <2>1, <2>2, <3>2, BlobLength
  <2>4. Read(kind, raw) = ReadBytes(raw)
    BY <1>4, <2>1, SMT DEF Read, Blobs
  <2> HIDE DEF w
  <2>5. 4 + Int32(raw) = Len(w) /\ Len(raw) < 4 + Int32(raw)
    BY <1>1, <2>2, <2>3
  <2>6. ReadBytes(raw) = MoreDataExpected(Len(w) - Len(raw))
    BY <2>5, Zenon DEF ReadBytes
  <2>7. Len(w) - Len(raw) \in 1..Len(w) - Len(raw)
    BY <1>1
  <2> QED BY <2>4, <2>6, <2>7
<1> QED BY <1>3, <1>4

-----------------------------------------------------------------------------
(* Records of one or two fields, as all of the schema are.                 *)

Fields == {fields \in Seq(Kinds) : Len(fields) \in {1, 2}}

LEMMA SchemaFields ==
  /\ \A name \in DOMAIN Schema : Schema[name] \in Fields
  /\ DataFields \in Fields
  /\ PingFields \in Fields /\ DisconnectFields \in Fields /\ ExpiredFields \in Fields
<1>1. \A x \in Kinds : <<x>> \in Fields
  BY DEF Fields
<1>2. \A x, y \in Kinds : <<x, y>> \in Fields
  BY DEF Fields
<1>3. /\ DataFields \in Fields /\ PingFields \in Fields /\ PongFields \in Fields
      /\ ExpiredFields \in Fields /\ DisconnectFields \in Fields
      /\ AppStartupFields \in Fields /\ AppStartupOutputFields \in Fields
      /\ SaveDataFields \in Fields /\ ServerConnectInfoFields \in Fields
      /\ ValidClientFields \in Fields
      /\ <<"category">> \in Fields /\ <<"saveKey">> \in Fields
  BY <1>1, <1>2
  DEF Kinds, DataFields, PingFields, PongFields, ExpiredFields, DisconnectFields,
      AppStartupFields, AppStartupOutputFields, SaveDataFields, ServerConnectInfoFields,
      ValidClientFields
<1>4. \A name \in DOMAIN Schema : Schema[name] \in Fields
  BY <1>3, SMT DEF Schema
<1> QED BY <1>3, <1>4

LEMMA UpToTwo ==
  ASSUME NEW n, n \in {1, 2}
  PROVE  \A i \in 0..n : i = 0 \/ i = 1 \/ (i = 2 /\ n = 2)
  OBVIOUS

\* Concatenation, named so that the SMT solver does not take it apart.
Joined(s, t) == s \o t

LEMMA WriteAll ==
  ASSUME NEW fields, NEW values, Len(fields) \in {1, 2},
         Write(fields[1], values[1]) \in Seq(Byte)
  PROVE  /\ Len(fields) = 1 => Serialize(fields, values) = Write(fields[1], values[1])
         /\ Len(fields) = 2 => Serialize(fields, values) =
              Joined(Write(fields[1], values[1]), Write(fields[2], values[2]))
<1> DEFINE Step(f) == [i \in 0..Len(fields) |->
                         IF i = 0 THEN <<>> ELSE f[i - 1] \o Write(fields[i], values[i])]
           buf == CHOOSE f : f = Step(f)
           one == Write(fields[1], values[1])
           two == one \o Write(fields[2], values[2])
           g == [i \in 0..Len(fields) |-> IF i = 0 THEN <<>> ELSE IF i = 1 THEN one ELSE two]
<1>0. <<>> \o one = one
  BY ConcatEmptySeq
<1>1. g = Step(g)
  <2>1. g[0] = <<>> /\ g[1] = one /\ (Len(fields) = 2 => g[2] = two)
    OBVIOUS
  <2> HIDE DEF one, two
  <2>2. Step(g)[0] = g[0]
    BY <2>1
  <2>3. Step(g)[1] = g[1]
    <3>1. 1 \in 0..Len(fields) /\ 1 # 0 /\ 1 - 1 = 0
      OBVIOUS
    <3>2. Step(g)[1] = g[0] \o Write(fields[1], values[1])
      BY <3>1
    <3> HIDE DEF g, Step
    <3> QED BY <1>0, <2>1, <3>2 DEF one
  <2>4. Len(fields) = 2 => Step(g)[2] = g[2]
    BY <2>1 DEF two
  <2>5. \A i \in 0..Len(fields) : i = 0 \/ i = 1 \/ (i = 2 /\ Len(fields) = 2)
    BY UpToTwo
  <2>6. \A i \in 0..Len(fields) : g[i] = Step(g)[i]
    <3> HIDE DEF g, Step
    <3> QED BY <2>2, <2>3, <2>4, <2>5
  <2> QED BY <2>6
<1>2. buf = Step(buf)
  <2>1. \E f : f = Step(f)
    BY <1>1
  <2> HIDE DEF Step
  <2> QED BY <2>1
<1>3. Serialize(fields, values) = buf[Len(fields)]
  BY DEF Serialize
<1> HIDE DEF buf
<1>4. buf[1] = one
  <2>1. buf[0] = <<>> /\ buf[1] = buf[0] \o one
    BY <1>2, SMTT(60)
  <2> QED BY <1>0, <2>1
<1>5. Len(fields) = 2 => buf[2] = Joined(buf[1], Write(fields[2], values[2]))
  <2>1. Len(fields) = 2 => 2 \in 0..Len(fields) /\ 2 # 0 /\ 2 - 1 = 1
    OBVIOUS
  <2>2. \A i \in 0..Len(fields) :
          i # 0 => buf[i] = Joined(buf[i - 1], Write(fields[i], values[i]))
    BY <1>2 DEF Joined
  <2> QED BY <2>1, <2>2
<1> QED BY <1>3, <1>4, <1>5

LEMMA SizeOfAll ==
  ASSUME NEW fields, Len(fields) \in {1, 2}
  PROVE  MinSerializedSize(fields) =
           IF Len(fields) = 1 THEN 0 + MinSize[fields[1]]
           ELSE (0 + MinSize[fields[1]]) + MinSize[fields[2]]
<1> DEFINE Step(f) == [i \in 0..Len(fields) |-> IF i = 0 THEN 0 ELSE f[i - 1] + MinSize[fields[i]]]
           size == CHOOSE f : f = Step(f)
           one == 0 + MinSize[fields[1]]
           two == one + MinSize[fields[2]]
           g == [i \in 0..Len(fields) |-> IF i = 0 THEN 0 ELSE IF i = 1 THEN one ELSE two]
<1>1. g = Step(g)
  <2>1. g[0] = 0 /\ g[1] = one /\ (Len(fields) = 2 => g[2] = two)
    OBVIOUS
  <2> HIDE DEF one, two
  <2>2. Step(g)[0] = g[0]
    BY <2>1
  <2>3. Step(g)[1] = g[1]
    BY <2>1 DEF one
  <2>4. Len(fields) = 2 => Step(g)[2] = g[2]
    BY <2>1 DEF two
  <2>5. \A i \in 0..Len(fields) : i = 0 \/ i = 1 \/ (i = 2 /\ Len(fields) = 2)
    BY UpToTwo
  <2>6. \A i \in 0..Len(fields) : g[i] = Step(g)[i]
    <3> HIDE DEF g, Step
    <3> QED BY <2>2, <2>3, <2>4, <2>5
  <2> QED BY <2>6
<1>2. size = Step(size)
  <2>1. \E f : f = Step(f)
    BY <1>1
  <2> HIDE DEF Step
  <2> QED BY <2>1
<1>3. MinSerializedSize(fields) = size[Len(fields)]
  BY DEF MinSerializedSize
<1> HIDE DEF size
<1>4. size[0] = 0 /\ size[1] = size[0] + MinSize[fields[1]]
  BY <1>2
<1>5. Len(fields) = 2 => size[2] = size[1] + MinSize[fields[2]]
  <2>1. Len(fields) = 2 => 2 \in 0..Len(fields) /\ 2 # 0 /\ 2 - 1 = 1
    OBVIOUS
  <2>2. \A i \in 0..Len(fields) : i # 0 => size[i] = size[i - 1] + MinSize[fields[i]]
    BY <1>2
  <2> QED BY <2>1, <2>2
<1> QED BY <1>3, <1>4, <1>5

NothingYet == [read |-> 0, value |-> <<>>, missing |-> 0]

LEMMA ReadAll ==
  ASSUME NEW fields, NEW raw, Len(fields) \in {1, 2}
  PROVE  Deserialize(fields, raw) =
           IF Len(raw) < MinSerializedSize(fields)
           THEN MoreDataExpected(MinSerializedSize(fields) - Len(raw))
           ELSE IF Len(fields) = 1 THEN DeserializeField(fields[1], raw, NothingYet)
           ELSE DeserializeField(fields[2], raw, DeserializeField(fields[1], raw, NothingYet))
<1> DEFINE Step(f) == [i \in 0..Len(fields) |->
                         IF i = 0 THEN [read |-> 0, value |-> <<>>, missing |-> 0]
                         ELSE DeserializeField(fields[i], raw, f[i - 1])]
           done == CHOOSE f : f = Step(f)
           one == DeserializeField(fields[1], raw, NothingYet)
           two == DeserializeField(fields[2], raw, one)
           g == [i \in 0..Len(fields) |->
                   IF i = 0 THEN NothingYet ELSE IF i = 1 THEN one ELSE two]
<1>1. g = Step(g)
  <2>1. g[0] = NothingYet /\ g[1] = one /\ (Len(fields) = 2 => g[2] = two)
    OBVIOUS
  <2> HIDE DEF one, two
  <2>2. Step(g)[0] = g[0]
    BY <2>1 DEF NothingYet
  <2>3. Step(g)[1] = g[1]
    BY <2>1 DEF one
  <2>4. Len(fields) = 2 => Step(g)[2] = g[2]
    BY <2>1 DEF two
  <2>5. \A i \in 0..Len(fields) : i = 0 \/ i = 1 \/ (i = 2 /\ Len(fields) = 2)
    BY UpToTwo
  <2>6. \A i \in 0..Len(fields) : g[i] = Step(g)[i]
    <3> HIDE DEF g, Step
    <3> QED BY <2>2, <2>3, <2>4, <2>5
  <2> QED BY <2>6
<1>2. done = Step(done)
  <2>1. \E f : f = Step(f)
    BY <1>1
  <2> HIDE DEF Step
  <2> QED BY <2>1
<1>3. Deserialize(fields, raw) =
        IF Len(raw) < MinSerializedSize(fields)
        THEN MoreDataExpected(MinSerializedSize(fields) - Len(raw)) ELSE done[Len(fields)]
  BY DEF Deserialize
<1> HIDE DEF done
<1>4. done[0] = NothingYet /\ done[1] = DeserializeField(fields[1], raw, done[0])
  BY <1>2 DEF NothingYet
<1>5. Len(fields) = 2 => done[2] = DeserializeField(fields[2], raw, done[1])
  <2>1. Len(fields) = 2 => 2 \in 0..Len(fields) /\ 2 # 0 /\ 2 - 1 = 1
    OBVIOUS
  <2>2. \A i \in 0..Len(fields) : i # 0 => done[i] = DeserializeField(fields[i], raw, done[i - 1])
    BY <1>2
  <2> QED BY <2>1, <2>2
<1> QED BY <1>3, <1>4, <1>5

LEMMA RestOf ==
  ASSUME NEW raw \in Seq(Byte), NEW r \in 0..Len(raw)
  PROVE  /\ SubSeq(raw, r + 1, Len(raw)) \in Seq(Byte)
         /\ Len(SubSeq(raw, r + 1, Len(raw))) = Len(raw) - r
         /\ \A i \in 1..Len(raw) - r : SubSeq(raw, r + 1, Len(raw))[i] = raw[r + i]
<1> DEFINE rest == SubSeq(raw, r + 1, Len(raw))
<1>1. Len(raw) \in Nat /\ r \in Nat /\ r <= Len(raw)
  BY LenProperties
<1>2. \A i \in r + 1..Len(raw) : raw[i] \in Byte
  BY <1>1, ElementOfSeq
<1>3. /\ rest \in Seq(Byte)
      /\ Len(rest) = IF r + 1 <= Len(raw) THEN Len(raw) - (r + 1) + 1 ELSE 0
      /\ \A i \in 1..Len(raw) - (r + 1) + 1 : rest[i] = raw[r + 1 + i - 1]
  BY <1>1, <1>2, SubSeqProperties
<1> HIDE DEF rest
<1>4. Len(rest) = Len(raw) - r
  BY <1>1, <1>3
<1>5. \A i \in 1..Len(raw) - r : rest[i] = raw[r + i]
  <2> SUFFICES ASSUME NEW i \in 1..Len(raw) - r PROVE rest[i] = raw[r + i]
    OBVIOUS
  <2>1. i \in 1..Len(raw) - (r + 1) + 1 /\ r + 1 + i - 1 = r + i
    BY <1>1
  <2> QED BY <1>3, <2>1
<1> QED BY <1>3, <1>4, <1>5 DEF rest

LEMMA PrefixProperties ==
  ASSUME NEW s \in Seq(Byte), NEW n \in 0..Len(s)
  PROVE  /\ SubSeq(s, 1, n) \in Seq(Byte) /\ Len(SubSeq(s, 1, n)) = n
         /\ \A i \in 1..n : SubSeq(s, 1, n)[i] = s[i]
<1> DEFINE t == SubSeq(s, 1, n)
<1>1. Len(s) \in Nat /\ n \in Nat /\ n <= Len(s)
  BY LenProperties
<1>2. \A i \in 1..n : s[i] \in Byte
  BY <1>1, ElementOfSeq
<1>3. /\ t \in Seq(Byte) /\ Len(t) = IF 1 <= n THEN n - 1 + 1 ELSE 0
      /\ \A i \in 1..n - 1 + 1 : t[i] = s[1 + i - 1]
  BY <1>1, <1>2, SubSeqProperties
<1> HIDE DEF t
<1>4. Len(t) = n
  BY <1>1, <1>3
<1>5. \A i \in 1..n : t[i] = s[i]
  <2> SUFFICES ASSUME NEW i \in 1..n PROVE t[i] = s[i]
    OBVIOUS
  <2>1. i \in 1..n - 1 + 1 /\ 1 + i - 1 = i
    BY <1>1
  <2> QED BY <1>3, <2>1
<1> QED BY <1>3, <1>4, <1>5 DEF t

LEMMA PairConcat ==
  ASSUME NEW x, NEW y
  PROVE  <<x>> \o <<y>> = <<x, y>>
<1> DEFINE S == {x, y}
           one == <<x>>
           two == <<y>>
           both == <<x, y>>
<1>1. /\ one \in Seq(S) /\ Len(one) = 1 /\ one[1] = x
      /\ two \in Seq(S) /\ Len(two) = 1 /\ two[1] = y
      /\ both \in Seq(S) /\ Len(both) = 2 /\ both[1] = x /\ both[2] = y
  OBVIOUS
<1> HIDE DEF S, one, two, both
<1>2. /\ one \o two \in Seq(S) /\ Len(one \o two) = 2
      /\ \A i \in 1..2 : (one \o two)[i] = IF i <= 1 THEN one[i] ELSE two[i - 1]
  BY <1>1, ConcatProperties
<1>3. \A i \in 1..2 : (one \o two)[i] = both[i]
  BY <1>1, <1>2
<1>4. one \o two = both
  BY <1>1, <1>2, <1>3, SeqEqual
<1> QED BY <1>4 DEF one, two, both

LEMMA NextFieldRead ==
  ASSUME NEW kind \in Kinds, NEW v \in FieldValues[kind],
         kind \in Blobs => Len(v) <= MaxLength,
         NEW raw \in Seq(Byte), NEW done, done.missing = 0, done.read \in Nat,
         done.read + Len(Write(kind, v)) <= Len(raw),
         \A i \in 1..Len(Write(kind, v)) : raw[done.read + i] = Write(kind, v)[i]
  PROVE  DeserializeField(kind, raw, done) =
           [read |-> done.read + Len(Write(kind, v)), value |-> done.value \o <<v>>, missing |-> 0]
<1> DEFINE r == done.read
           w == Write(kind, v)
           rest == SubSeq(raw, r + 1, Len(raw))
<1>1. Len(w) \in Nat /\ Len(raw) \in Nat /\ r \in 0..Len(raw) /\ r + Len(w) <= Len(raw)
  <2>1. Len(w) \in Nat /\ Len(raw) \in Nat
    BY WrittenBytes, LenProperties
  <2> HIDE DEF w
  <2>2. r \in Nat /\ r + Len(w) <= Len(raw)
    BY DEF w
  <2> HIDE DEF r
  <2> QED BY <2>1, <2>2
<1>2. /\ rest \in Seq(Byte) /\ Len(rest) = Len(raw) - r
      /\ \A i \in 1..Len(raw) - r : rest[i] = raw[r + i]
  <2> HIDE DEF r
  <2> QED BY <1>1, RestOf
<1>3. Len(w) <= Len(rest) /\ \A i \in 1..Len(w) : rest[i] = w[i]
  <2>1. \A i \in 1..Len(w) : raw[r + i] = w[i]
    OBVIOUS
  <2> HIDE DEF w, r, rest
  <2> QED BY <1>1, <1>2, <2>1
<1>4. Read(kind, rest) = Taken(Len(w), v)
  <2> HIDE DEF rest
  <2> QED BY <1>2, <1>3, FieldRead
<1>5. DeserializeField(kind, raw, done) =
        [read |-> r + Taken(Len(w), v).read, value |-> done.value \o Taken(Len(w), v).value,
         missing |-> Taken(Len(w), v).missing]
  <2> HIDE DEF w
  <2> QED BY <1>4, Zenon DEF DeserializeField
<1>6. Taken(Len(w), v).read = Len(w) /\ Taken(Len(w), v).value = <<v>> /\ Taken(Len(w), v).missing = 0
  <2> HIDE DEF w
  <2> QED BY DEF Taken
<1> QED BY <1>5, <1>6

LEMMA NextFieldCut ==
  ASSUME NEW kind \in Kinds, NEW v \in FieldValues[kind],
         kind \in Blobs => Len(v) <= MaxLength,
         NEW raw \in Seq(Byte), NEW done, done.missing = 0, done.read \in 0..Len(raw),
         Len(raw) < done.read + Len(Write(kind, v)),
         \A i \in 1..Len(raw) - done.read : raw[done.read + i] = Write(kind, v)[i]
  PROVE  DeserializeField(kind, raw, done).missing \in
           1..done.read + Len(Write(kind, v)) - Len(raw)
<1> DEFINE r == done.read
           w == Write(kind, v)
           rest == SubSeq(raw, r + 1, Len(raw))
<1>1. Len(w) \in Nat /\ Len(raw) \in Nat /\ r \in 0..Len(raw) /\ Len(raw) < r + Len(w)
  <2>1. Len(w) \in Nat /\ Len(raw) \in Nat
    BY WrittenBytes, LenProperties
  <2> QED BY <2>1
<1>2. /\ rest \in Seq(Byte) /\ Len(rest) = Len(raw) - r
      /\ \A i \in 1..Len(raw) - r : rest[i] = raw[r + i]
  <2> HIDE DEF r
  <2> QED BY <1>1, RestOf
<1>3. Len(rest) < Len(w) /\ \A i \in 1..Len(rest) : rest[i] = w[i]
  <2>1. \A i \in 1..Len(raw) - r : raw[r + i] = w[i]
    OBVIOUS
  <2> HIDE DEF w, r, rest
  <2> QED BY <1>1, <1>2, <2>1
<1>4. PICK n \in 1..Len(w) - Len(rest) : Read(kind, rest) = MoreDataExpected(n)
  <2> HIDE DEF rest
  <2> QED BY <1>2, <1>3, FieldCut
<1>5. DeserializeField(kind, raw, done).missing = MoreDataExpected(n).missing
  <2>1. DeserializeField(kind, raw, done) =
          [read |-> r + MoreDataExpected(n).read, value |-> done.value \o MoreDataExpected(n).value,
           missing |-> MoreDataExpected(n).missing]
    BY <1>4, Zenon DEF DeserializeField
  <2> QED BY <2>1
<1>6. MoreDataExpected(n).missing = n
  BY DEF MoreDataExpected
<1>7. n \in 1..r + Len(w) - Len(raw)
  <2> HIDE DEF w, r, rest
  <2> QED BY <1>1, <1>2, <1>4
<1> QED BY <1>5, <1>6, <1>7

\* The bytes of a record are those of its fields.
LEMMA RecordBytes ==
  ASSUME NEW fields \in Fields, NEW values, IsRecord(fields, values)
  PROVE  /\ Len(fields) \in {1, 2}
         /\ fields[1] \in Kinds /\ values[1] \in FieldValues[fields[1]]
         /\ Len(fields) = 1 => /\ Serialize(fields, values) = Write(fields[1], values[1])
                               /\ values = <<values[1]>>
         /\ Len(fields) = 2 =>
              /\ fields[2] \in Kinds /\ values[2] \in FieldValues[fields[2]]
              /\ values = <<values[1], values[2]>>
              /\ Serialize(fields, values) =
                   Joined(Write(fields[1], values[1]), Write(fields[2], values[2]))
<1>0. Len(fields) \in {1, 2}
  BY DEF Fields
<1>1. Len(fields) \in {1, 2} /\ fields \in Seq(Kinds) /\ DOMAIN fields = 1..Len(fields)
  BY DEF Fields
<1>2. \A i \in 1..Len(fields) : fields[i] \in Kinds /\ values[i] \in FieldValues[fields[i]]
  BY <1>1 DEF IsRecord
<1>3. Write(fields[1], values[1]) \in Seq(Byte)
  BY <1>1, <1>2, WrittenBytes
<1>5. values = [i \in 1..Len(fields) |-> values[i]]
  BY <1>1 DEF IsRecord
<1>6. Len(fields) = 1 => values = <<values[1]>>
  BY <1>5
<1>7. Len(fields) = 2 => values = <<values[1], values[2]>>
  BY <1>5
<1>9. /\ Len(fields) = 1 => Serialize(fields, values) = Write(fields[1], values[1])
      /\ Len(fields) = 2 => Serialize(fields, values) =
           Joined(Write(fields[1], values[1]), Write(fields[2], values[2]))
  BY ONLY <1>0, <1>3, WriteAll
<1>10. 1 \in 1..Len(fields) /\ (Len(fields) = 2 => 2 \in 1..Len(fields))
  BY <1>1
<1> QED BY <1>1, <1>2, <1>6, <1>7, <1>9, <1>10

LEMMA SerializedBytes ==
  ASSUME NEW fields \in Fields, NEW values, IsRecord(fields, values)
  PROVE  /\ Serialize(fields, values) \in Seq(Byte) /\ Len(Serialize(fields, values)) \in Nat
         /\ MinSerializedSize(fields) \in Nat
         /\ MinSerializedSize(fields) <= Len(Serialize(fields, values))
         /\ Len(fields) = 2 => Len(Serialize(fields, values)) =
              Len(Write(fields[1], values[1])) + Len(Write(fields[2], values[2]))
<1> DEFINE w1 == Write(fields[1], values[1])
           w2 == Write(fields[2], values[2])
           S == Serialize(fields, values)
<1>1. /\ Len(fields) \in {1, 2}
      /\ w1 \in Seq(Byte) /\ Len(w1) \in Nat
      /\ MinSize[fields[1]] \in Nat /\ MinSize[fields[1]] <= Len(w1)
  BY RecordBytes, WrittenBytes, LenProperties, LeastSize, Sizes
<1>2. CASE Len(fields) = 1
  <2>1. S = w1
    BY <1>2, RecordBytes
  <2>2. MinSerializedSize(fields) = 0 + MinSize[fields[1]]
    BY <1>2, SizeOfAll
  <2> HIDE DEF w1, S
  <2>3. MinSerializedSize(fields) \in Nat /\ MinSerializedSize(fields) <= Len(S)
    BY <1>1, <2>1, <2>2
  <2> QED BY <1>1, <1>2, <2>1, <2>3 DEF S
<1>3. CASE Len(fields) = 2
  <2>1. /\ w2 \in Seq(Byte) /\ Len(w2) \in Nat
        /\ MinSize[fields[2]] \in Nat /\ MinSize[fields[2]] <= Len(w2)
    BY <1>3, RecordBytes, WrittenBytes, LenProperties, LeastSize, Sizes
  <2>2. S = Joined(w1, w2)
    BY <1>3, RecordBytes
  <2>3. MinSerializedSize(fields) = (0 + MinSize[fields[1]]) + MinSize[fields[2]]
    BY <1>3, SizeOfAll
  <2>4. S \in Seq(Byte) /\ Len(S) = Len(w1) + Len(w2)
    <3> HIDE DEF w1, w2, S
    <3> QED BY <1>1, <2>1, <2>2, ConcatProperties DEF Joined
  <2>5. /\ MinSerializedSize(fields) \in Nat /\ MinSerializedSize(fields) <= Len(S)
        /\ Len(S) \in Nat
    <3> HIDE DEF w1, w2, S
    <3> QED BY <1>1, <2>1, <2>3, <2>4
  <2> QED BY <2>4, <2>5
<1> QED BY <1>1, <1>2, <1>3

\* Lengths that 31 bits can hold.
Measured(fields, values) ==
  /\ fields[1] \in Blobs => Len(values[1]) <= MaxLength
  /\ Len(fields) = 2 => (fields[2] \in Blobs => Len(values[2]) <= MaxLength)

LEMMA ShortIsMeasured ==
  ASSUME NEW fields \in Fields, NEW values, IsRecord(fields, values),
         Len(Serialize(fields, values)) <= MaxLength
  PROVE  Measured(fields, values)
<1> DEFINE w1 == Write(fields[1], values[1])
           w2 == Write(fields[2], values[2])
           S == Serialize(fields, values)
<1>1. /\ Len(fields) \in {1, 2} /\ fields[1] \in Kinds /\ values[1] \in FieldValues[fields[1]]
      /\ Len(fields) = 1 => S = w1
      /\ Len(fields) = 2 => fields[2] \in Kinds /\ values[2] \in FieldValues[fields[2]]
  BY RecordBytes
<1>2. Len(fields) = 2 => Len(S) = Len(w1) + Len(w2)
  BY SerializedBytes
<1>3. /\ Len(w1) \in Nat
      /\ fields[1] \in Blobs => Len(w1) = 4 + Len(values[1]) /\ Len(values[1]) \in Nat
      /\ Len(fields) = 2 =>
           /\ Len(w2) \in Nat
           /\ fields[2] \in Blobs => Len(w2) = 4 + Len(values[2]) /\ Len(values[2]) \in Nat
  BY <1>1, WrittenBytes, LenProperties
<1>4. MaxLength \in Nat /\ Len(S) <= MaxLength
  BY SMT DEF MaxLength
<1> HIDE DEF w1, w2, S
<1>5. CASE Len(fields) = 1
  BY <1>1, <1>3, <1>4, <1>5 DEF Measured
<1>6. CASE Len(fields) = 2
  BY <1>1, <1>2, <1>3, <1>4, <1>6 DEF Measured
<1> QED BY <1>1, <1>5, <1>6

\* A record is read back from its bytes, whatever follows them.
LEMMA RecordRead ==
  ASSUME NEW fields \in Fields, NEW values, IsRecord(fields, values),
         Measured(fields, values),
         NEW raw \in Seq(Byte), Len(Serialize(fields, values)) <= Len(raw),
         \A i \in 1..Len(Serialize(fields, values)) : raw[i] = Serialize(fields, values)[i]
  PROVE  Deserialize(fields, raw) =
           [read |-> Len(Serialize(fields, values)), value |-> values, missing |-> 0]
<1> DEFINE w1 == Write(fields[1], values[1])
           w2 == Write(fields[2], values[2])
           S == Serialize(fields, values)
<1>0. /\ fields[1] \in Blobs => Len(values[1]) <= MaxLength
      /\ Len(fields) = 2 => (fields[2] \in Blobs => Len(values[2]) <= MaxLength)
  BY DEF Measured
<1>1. /\ Len(fields) \in {1, 2} /\ Len(raw) \in Nat
      /\ fields[1] \in Kinds /\ values[1] \in FieldValues[fields[1]]
      /\ w1 \in Seq(Byte) /\ Len(w1) \in Nat
  BY RecordBytes, WrittenBytes, LenProperties
<1>2. /\ S \in Seq(Byte) /\ Len(S) \in Nat /\ Len(S) <= Len(raw)
      /\ \A i \in 1..Len(S) : raw[i] = S[i]
      /\ MinSerializedSize(fields) \in Nat /\ MinSerializedSize(fields) <= Len(S)
  BY SerializedBytes
<1>3. ~(Len(raw) < MinSerializedSize(fields))
  <2> HIDE DEF S
  <2> QED BY <1>1, <1>2
<1>4. /\ NothingYet.missing = 0 /\ NothingYet.read = 0 /\ NothingYet.value = <<>>
      /\ NothingYet.read \in Nat
  BY DEF NothingYet
<1>5. CASE Len(fields) = 1
  <2>1. S = w1 /\ values = <<values[1]>>
    BY <1>5, RecordBytes
  <2>2. Deserialize(fields, raw) = DeserializeField(fields[1], raw, NothingYet)
    BY <1>3, <1>5, ReadAll
  <2>3. fields[1] \in Blobs => Len(values[1]) <= MaxLength
    BY ONLY <1>0
  <2>4. /\ NothingYet.read + Len(w1) <= Len(raw)
        /\ \A i \in 1..Len(w1) : raw[NothingYet.read + i] = w1[i]
    <3> HIDE DEF w1, S
    <3> QED BY <1>1, <1>2, <1>4, <2>1
  <2>5. DeserializeField(fields[1], raw, NothingYet) =
          [read |-> NothingYet.read + Len(w1), value |-> NothingYet.value \o <<values[1]>>,
           missing |-> 0]
    BY <1>1, <1>4, <2>3, <2>4, NextFieldRead, ZenonT(60)
  <2>6. NothingYet.read + Len(w1) = Len(S) /\ NothingYet.value \o <<values[1]>> = values
    <3>1. NothingYet.read + Len(w1) = Len(S)
      <4> HIDE DEF w1, S
      <4> QED BY <1>1, <1>4, <2>1
    <3>2. NothingYet.value \o <<values[1]>> = <<values[1]>>
      BY <1>4
    <3> QED BY <2>1, <3>1, <3>2
  <2> QED BY <2>2, <2>5, <2>6
<1>6. CASE Len(fields) = 2
  <2>1. /\ fields[2] \in Kinds /\ values[2] \in FieldValues[fields[2]]
        /\ S = Joined(w1, w2) /\ values = <<values[1], values[2]>>
    BY <1>6, RecordBytes
  <2>2. w2 \in Seq(Byte) /\ Len(w2) \in Nat
    BY <2>1, WrittenBytes, LenProperties
  <2>3. /\ Len(S) = Len(w1) + Len(w2)
        /\ \A i \in 1..Len(w1) + Len(w2) : S[i] = IF i <= Len(w1) THEN w1[i] ELSE w2[i - Len(w1)]
    <3> HIDE DEF w1, w2, S
    <3> QED BY <1>1, <2>1, <2>2, ConcatProperties DEF Joined
  <2>4. Deserialize(fields, raw) =
          DeserializeField(fields[2], raw, DeserializeField(fields[1], raw, NothingYet))
    BY <1>3, <1>6, ReadAll
  <2>5. /\ fields[1] \in Blobs => Len(values[1]) <= MaxLength
        /\ fields[2] \in Blobs => Len(values[2]) <= MaxLength
    BY <1>0, <1>6
  <2>6. /\ NothingYet.read + Len(w1) <= Len(raw)
        /\ \A i \in 1..Len(w1) : raw[NothingYet.read + i] = w1[i]
    <3> HIDE DEF w1, w2, S
    <3> QED BY <1>1, <1>2, <1>4, <2>2, <2>3
  <2> DEFINE first == DeserializeField(fields[1], raw, NothingYet)
  <2>7. first =
          [read |-> NothingYet.read + Len(w1), value |-> NothingYet.value \o <<values[1]>>,
           missing |-> 0]
    BY <1>1, <1>4, <2>5, <2>6, NextFieldRead, ZenonT(60)
  <2>8. first.read = Len(w1) /\ first.value = <<values[1]>> /\ first.missing = 0
    <3>1. NothingYet.read + Len(w1) = Len(w1)
      <4> HIDE DEF w1
      <4> QED BY <1>1, <1>4
    <3>2. NothingYet.value \o <<values[1]>> = <<values[1]>>
      BY <1>4
    <3> HIDE DEF w1, first
    <3> QED BY <2>7, <3>1, <3>2
  <2> HIDE DEF first
  <2>9. /\ first.read \in Nat /\ first.read + Len(w2) <= Len(raw)
        /\ \A i \in 1..Len(w2) : raw[first.read + i] = w2[i]
    <3> HIDE DEF w1, w2, S
    <3>1. first.read \in Nat /\ first.read + Len(w2) <= Len(raw)
      BY <1>1, <1>2, <2>2, <2>3, <2>8
    <3>2. \A i \in 1..Len(w2) : raw[first.read + i] = w2[i]
      <4> SUFFICES ASSUME NEW i \in 1..Len(w2) PROVE raw[Len(w1) + i] = w2[i]
        BY <2>8
      <4>1. /\ Len(w1) + i \in 1..Len(w1) + Len(w2) /\ ~(Len(w1) + i <= Len(w1))
            /\ Len(w1) + i - Len(w1) = i
        BY <1>1, <2>2
      <4> QED BY <1>2, <2>3, <4>1
    <3> QED BY <3>1, <3>2
  <2>10. DeserializeField(fields[2], raw, first) =
           [read |-> first.read + Len(w2), value |-> first.value \o <<values[2]>>, missing |-> 0]
    BY <2>1, <2>5, <2>8, <2>9, NextFieldRead
  <2>11. first.read + Len(w2) = Len(S)
    BY <2>3, <2>8
  <2>12. first.value \o <<values[2]>> = values
    <3>1. <<values[1]>> \o <<values[2]>> = <<values[1], values[2]>>
      BY PairConcat
    <3> QED BY <2>1, <2>8, <3>1
  <2> QED BY <2>4, <2>10, <2>11, <2>12 DEF first
<1> QED BY <1>1, <1>5, <1>6

\* A record that lost its last bytes is not read, and the error asks for no more
\* bytes than are missing.
LEMMA RecordCut ==
  ASSUME NEW fields \in Fields, NEW values, IsRecord(fields, values),
         Measured(fields, values),
         NEW raw \in Seq(Byte), Len(raw) < Len(Serialize(fields, values)),
         \A i \in 1..Len(raw) : raw[i] = Serialize(fields, values)[i]
  PROVE  Deserialize(fields, raw).missing \in 1..Len(Serialize(fields, values)) - Len(raw)
<1> DEFINE w1 == Write(fields[1], values[1])
           w2 == Write(fields[2], values[2])
           S == Serialize(fields, values)
           least == MinSerializedSize(fields)
<1>0. /\ fields[1] \in Blobs => Len(values[1]) <= MaxLength
      /\ Len(fields) = 2 => (fields[2] \in Blobs => Len(values[2]) <= MaxLength)
  BY DEF Measured
<1>1. /\ Len(fields) \in {1, 2} /\ Len(raw) \in Nat
      /\ fields[1] \in Kinds /\ values[1] \in FieldValues[fields[1]]
      /\ w1 \in Seq(Byte) /\ Len(w1) \in Nat
  BY RecordBytes, WrittenBytes, LenProperties
<1>2. /\ S \in Seq(Byte) /\ Len(S) \in Nat /\ Len(raw) < Len(S)
      /\ \A i \in 1..Len(raw) : raw[i] = S[i]
      /\ least \in Nat /\ least <= Len(S)
  BY SerializedBytes
<1>4. CASE Len(raw) < least
  <2>1. Deserialize(fields, raw) = MoreDataExpected(least - Len(raw))
    BY <1>1, <1>4, ReadAll
  <2>2. MoreDataExpected(least - Len(raw)).missing = least - Len(raw)
    BY DEF MoreDataExpected
  <2> HIDE DEF least, S
  <2>3. least - Len(raw) \in 1..Len(S) - Len(raw)
    BY <1>1, <1>2, <1>4
  <2>4. Deserialize(fields, raw).missing = least - Len(raw)
    BY <2>1, <2>2
  <2>5. Deserialize(fields, raw).missing \in 1..Len(S) - Len(raw)
    BY <2>3, <2>4
  <2> QED BY <2>5 DEF S
<1>5. ASSUME ~(Len(raw) < least)
      PROVE  /\ Len(fields) = 1 =>
                  Deserialize(fields, raw) = DeserializeField(fields[1], raw, NothingYet)
             /\ Len(fields) = 2 =>
                  Deserialize(fields, raw) =
                    DeserializeField(fields[2], raw, DeserializeField(fields[1], raw, NothingYet))
  BY <1>1, <1>5, ReadAll
<1>6. /\ NothingYet.missing = 0 /\ NothingYet.read = 0 /\ NothingYet.value = <<>>
      /\ NothingYet.read \in Nat /\ NothingYet.read \in 0..Len(raw)
  BY <1>1 DEF NothingYet
<1>7. CASE ~(Len(raw) < least) /\ Len(fields) = 1
  <2>1. S = w1
    BY <1>7, RecordBytes
  <2>2. Deserialize(fields, raw) = DeserializeField(fields[1], raw, NothingYet)
    BY <1>5, <1>7
  <2>3. fields[1] \in Blobs => Len(values[1]) <= MaxLength
    BY ONLY <1>0
  <2>4. /\ Len(raw) < NothingYet.read + Len(w1)
        /\ \A i \in 1..Len(raw) - NothingYet.read : raw[NothingYet.read + i] = w1[i]
    <3> HIDE DEF w1, S
    <3> QED BY <1>1, <1>2, <1>6, <2>1
  <2>5. DeserializeField(fields[1], raw, NothingYet).missing
          \in 1..NothingYet.read + Len(w1) - Len(raw)
    BY <1>1, <1>6, <2>3, <2>4, NextFieldCut
  <2>6. NothingYet.read + Len(w1) - Len(raw) = Len(S) - Len(raw)
    <3> HIDE DEF w1, S
    <3> QED BY <1>1, <1>6, <2>1
  <2> QED BY <2>2, <2>5, <2>6
<1>8. CASE ~(Len(raw) < least) /\ Len(fields) = 2
  <2>1. /\ fields[2] \in Kinds /\ values[2] \in FieldValues[fields[2]]
        /\ S = Joined(w1, w2)
    BY <1>8, RecordBytes
  <2>2. w2 \in Seq(Byte) /\ Len(w2) \in Nat
    BY <2>1, WrittenBytes, LenProperties
  <2>3. /\ Len(S) = Len(w1) + Len(w2)
        /\ \A i \in 1..Len(w1) + Len(w2) : S[i] = IF i <= Len(w1) THEN w1[i] ELSE w2[i - Len(w1)]
    <3> HIDE DEF w1, w2, S
    <3> QED BY <1>1, <2>1, <2>2, ConcatProperties DEF Joined
  <2> DEFINE first == DeserializeField(fields[1], raw, NothingYet)
  <2>4. Deserialize(fields, raw) = DeserializeField(fields[2], raw, first)
    BY <1>5, <1>8
  <2>5. /\ fields[1] \in Blobs => Len(values[1]) <= MaxLength
        /\ fields[2] \in Blobs => Len(values[2]) <= MaxLength
    BY <1>0, <1>8
  <2>6. CASE Len(raw) < Len(w1)
    <3>1. /\ Len(raw) < NothingYet.read + Len(w1)
          /\ \A i \in 1..Len(raw) - NothingYet.read : raw[NothingYet.read + i] = w1[i]
      <4> HIDE DEF w1, w2, S
      <4> QED BY <1>1, <1>2, <1>6, <2>2, <2>3, <2>6
    <3>2. first.missing \in 1..NothingYet.read + Len(w1) - Len(raw)
      BY <1>1, <1>6, <2>5, <3>1, NextFieldCut
    <3> HIDE DEF first, w1, w2, S
    <3>3. first.missing \in 1..Len(S) - Len(raw) /\ first.missing # 0
      BY <1>1, <1>6, <2>2, <2>3, <3>2
    <3>4. DeserializeField(fields[2], raw, first) = first
      BY <3>3, Zenon DEF DeserializeField
    <3>5. Deserialize(fields, raw).missing \in 1..Len(S) - Len(raw)
      BY <2>4, <3>3, <3>4
    <3> QED BY <3>5 DEF S
  <2>7. CASE ~(Len(raw) < Len(w1))
    <3>1. /\ NothingYet.read + Len(w1) <= Len(raw)
          /\ \A i \in 1..Len(w1) : raw[NothingYet.read + i] = w1[i]
      <4> HIDE DEF w1, w2, S
      <4>1. Len(w1) <= Len(raw) /\ NothingYet.read + Len(w1) <= Len(raw)
        BY <1>1, <1>6, <2>7
      <4>2. ASSUME NEW i \in 1..Len(w1) PROVE raw[NothingYet.read + i] = w1[i]
        <5>1. NothingYet.read + i = i /\ i \in 1..Len(raw) /\ i \in 1..Len(w1) + Len(w2) /\ i <= Len(w1)
          BY <1>1, <1>6, <2>2, <4>1
        <5> QED BY <1>2, <2>3, <5>1
      <4> QED BY <4>1, <4>2
    <3>2. first =
            [read |-> NothingYet.read + Len(w1), value |-> NothingYet.value \o <<values[1]>>,
             missing |-> 0]
      BY <1>1, <1>6, <2>5, <3>1, NextFieldRead, ZenonT(60)
    <3>3. first.read = Len(w1) /\ first.missing = 0
      <4>1. NothingYet.read + Len(w1) = Len(w1)
        <5> HIDE DEF w1
        <5> QED BY <1>1, <1>6
      <4> HIDE DEF w1, first
      <4> QED BY <3>2, <4>1
    <3> HIDE DEF first
    <3>4. first.read \in 0..Len(raw) /\ Len(raw) < first.read + Len(w2)
      <4> HIDE DEF w1, w2, S
      <4> QED BY <1>1, <1>2, <2>2, <2>3, <2>7, <3>3
    <3>5. \A i \in 1..Len(raw) - first.read : raw[first.read + i] = w2[i]
      <4> HIDE DEF w1, w2, S
      <4> SUFFICES ASSUME NEW i \in 1..Len(raw) - Len(w1) PROVE raw[Len(w1) + i] = w2[i]
        BY <3>3
      <4>1. /\ Len(w1) + i \in 1..Len(w1) + Len(w2) /\ ~(Len(w1) + i <= Len(w1))
            /\ Len(w1) + i - Len(w1) = i /\ Len(w1) + i \in 1..Len(raw)
        BY <1>1, <1>2, <2>2, <2>3, <2>7
      <4> QED BY <1>2, <2>3, <4>1
    <3>6. DeserializeField(fields[2], raw, first).missing \in 1..first.read + Len(w2) - Len(raw)
      BY <2>1, <2>5, <3>3, <3>4, <3>5, NextFieldCut
    <3>7. first.read + Len(w2) - Len(raw) = Len(S) - Len(raw)
      <4> HIDE DEF w1, w2, S
      <4> QED BY <2>3, <3>3
    <3> QED BY <2>4, <3>6, <3>7 DEF first
  <2> QED BY <2>6, <2>7
<1> QED BY <1>1, <1>4, <1>7, <1>8

\* What is serialized is deserialized unchanged, and bytes after it are not looked at,
\* for every record of the schema (schema.rs, each deserialize after its serialize).
THEOREM RecordRoundTrip ==
  ASSUME NEW name \in DOMAIN Schema, NEW values, IsRecord(Schema[name], values),
         Len(Serialize(Schema[name], values)) <= MaxLength, NEW rest \in Seq(Byte)
  PROVE  Deserialize(Schema[name], Serialize(Schema[name], values) \o rest) =
           [read |-> Len(Serialize(Schema[name], values)), value |-> values, missing |-> 0]
<1> DEFINE fields == Schema[name]
           written == Serialize(fields, values)
           raw == written \o rest
<1>1. fields \in Fields /\ IsRecord(fields, values) /\ Len(written) <= MaxLength
  BY SchemaFields
<1> HIDE DEF fields
<1>2. written \in Seq(Byte) /\ Len(written) \in Nat /\ Measured(fields, values)
  BY <1>1, SerializedBytes, ShortIsMeasured
<1>3. Len(rest) \in Nat
  BY LenProperties
<1>4. Deserialize(fields, raw) = [read |-> Len(written), value |-> values, missing |-> 0]
  <2> HIDE DEF written
  <2>1. /\ raw \in Seq(Byte) /\ Len(raw) = Len(written) + Len(rest)
        /\ \A i \in 1..Len(written) + Len(rest) :
             raw[i] = IF i <= Len(written) THEN written[i] ELSE rest[i - Len(written)]
    BY <1>2, ConcatProperties
  <2> HIDE DEF raw
  <2>2. Len(written) <= Len(raw)
    BY <1>2, <1>3, <2>1
  <2>3. ASSUME NEW i \in 1..Len(written) PROVE raw[i] = written[i]
    <3>1. i \in 1..Len(written) + Len(rest) /\ i <= Len(written)
      BY <1>2, <1>3
    <3> QED BY <2>1, <3>1
  <2> QED BY <1>1, <1>2, <2>1, <2>2, <2>3, RecordRead DEF written
<1> QED BY <1>4 DEF fields

\* A record that lost bytes at its end is an error, which asks for at least one byte
\* and for no more than were lost (the MIN_SERIALIZED_SIZE checks of schema.rs).
THEOREM CutRecordIsNoticed ==
  ASSUME NEW name \in DOMAIN Schema, NEW values, IsRecord(Schema[name], values),
         Len(Serialize(Schema[name], values)) <= MaxLength,
         NEW n \in 0..Len(Serialize(Schema[name], values)) - 1
  PROVE  Deserialize(Schema[name], SubSeq(Serialize(Schema[name], values), 1, n)).missing
           \in 1..Len(Serialize(Schema[name], values)) - n
<1> DEFINE fields == Schema[name]
           written == Serialize(fields, values)
           raw == SubSeq(written, 1, n)
<1>1. fields \in Fields /\ IsRecord(fields, values) /\ Len(written) <= MaxLength
  BY SchemaFields
<1>2. n \in 0..Len(written) - 1
  OBVIOUS
<1> HIDE DEF fields
<1>3. written \in Seq(Byte) /\ Len(written) \in Nat /\ Measured(fields, values)
  BY <1>1, SerializedBytes, ShortIsMeasured
<1>4. n \in 0..Len(written) /\ n < Len(written)
  <2> HIDE DEF written
  <2> QED BY <1>2, <1>3
<1>5. raw \in Seq(Byte) /\ Len(raw) = n /\ \A i \in 1..n : raw[i] = written[i]
  BY <1>3, <1>4, PrefixProperties
<1> HIDE DEF raw
<1>6. Deserialize(fields, raw).missing \in 1..Len(written) - Len(raw)
  BY <1>1, <1>3, <1>4, <1>5, RecordCut
<1> QED BY <1>5, <1>6 DEF fields, raw

-----------------------------------------------------------------------------
(* Frames: the category in two bytes, then the record.                     *)

\* Two elements in front of a sequence can be told from it again.
LEMMA FrameParts ==
  ASSUME NEW S, NEW lo \in S, NEW hi \in S, NEW datas \in Seq(S)
  PROVE  /\ ~(Len(<<lo, hi>> \o datas) < 2)
         /\ (<<lo, hi>> \o datas)[1] = lo /\ (<<lo, hi>> \o datas)[2] = hi
         /\ SubSeq(<<lo, hi>> \o datas, 3, Len(<<lo, hi>> \o datas)) = datas
<1> DEFINE head == <<lo, hi>>
           frame == head \o datas
           rest == SubSeq(frame, 3, Len(frame))
<1>0. Len(datas) \in Nat
  BY LenProperties
<1>1. head \in Seq(S) /\ Len(head) = 2 /\ head[1] = lo /\ head[2] = hi
  OBVIOUS
<1> HIDE DEF head
<1>2. /\ frame \in Seq(S) /\ Len(frame) = 2 + Len(datas)
      /\ \A i \in 1..2 + Len(datas) : frame[i] = IF i <= 2 THEN head[i] ELSE datas[i - 2]
  <2>1. /\ frame \in Seq(S) /\ Len(frame) = Len(head) + Len(datas)
        /\ \A i \in 1..Len(head) + Len(datas) :
             frame[i] = IF i <= Len(head) THEN head[i] ELSE datas[i - Len(head)]
    BY <1>1, ConcatProperties, Zenon
  <2> HIDE DEF frame
  <2> QED BY <1>1, <2>1
<1> HIDE DEF frame
<1>3. \A i \in 3..Len(frame) : frame[i] \in S
  BY <1>2, <1>0, ElementOfSeq
<1>4. /\ rest \in Seq(S) /\ Len(rest) = Len(datas)
      /\ \A i \in 1..Len(datas) : rest[i] = frame[3 + i - 1]
  BY <1>0, <1>2, <1>3, SubSeqProperties
<1>5. \A i \in 1..Len(rest) : rest[i] = datas[i]
  BY <1>0, <1>2, <1>4
<1>6. rest = datas
  <2> HIDE DEF rest
  <2> QED BY <1>4, <1>5, SeqEqual
<1>7. ~(Len(frame) < 2) /\ frame[1] = lo /\ frame[2] = hi
  BY <1>0, <1>1, <1>2
<1> QED
  BY <1>2, <1>6, <1>7 DEF frame, head

\* What get_data_schema makes of two bytes and a payload.
LEMMA SchemaOfFrame ==
  ASSUME NEW S, NEW lo \in S, NEW hi \in S, NEW datas \in Seq(S),
         NEW category, category = lo + hi * 256
  PROVE  GetDataSchema(<<lo, hi>> \o datas) = [category |-> category, datas |-> datas]
<1> DEFINE frame == <<lo, hi>> \o datas
<1>1. /\ ~(Len(frame) < 2) /\ frame[1] = lo /\ frame[2] = hi
      /\ SubSeq(frame, 3, Len(frame)) = datas
  BY FrameParts
<1> HIDE DEF frame
<1>2. GetDataSchema(frame) = [category |-> lo + hi * 256, datas |-> datas]
  BY <1>1, Zenon DEF GetDataSchema
<1> QED
  BY <1>2 DEF frame

LEMMA CategoryBytes ==
  ASSUME NEW category \in U16
  PROVE  \E lo \in Byte, hi \in Byte :
           lo = category % 256 /\ hi = category \div 256 /\ category = lo + hi * 256
<1>1. category % 256 \in Byte /\ category \div 256 \in Byte
  BY DEF U16, Byte
<1>2. category = (category % 256) + (category \div 256) * 256
  BY DEF U16
<1> QED BY <1>1, <1>2

\* The category of a frame and its payload come out as they went in, for every
\* 16-bit category and every payload (common.rs:195-213).
THEOREM FrameRoundTrip ==
  ASSUME NEW category \in U16, NEW datas \in Seq(Byte)
  PROVE  GetDataSchema(MakeAtomicMessage(category, datas)) =
           [category |-> category, datas |-> datas]
<1>1. PICK lo \in Byte, hi \in Byte :
        lo = category % 256 /\ hi = category \div 256 /\ category = lo + hi * 256
  BY CategoryBytes
<1>2. MakeAtomicMessage(category, datas) = <<lo, hi>> \o datas
  BY <1>1 DEF MakeAtomicMessage
<1>3. GetDataSchema(<<lo, hi>> \o datas) = [category |-> category, datas |-> datas]
  BY <1>1, SchemaOfFrame
<1> QED
  BY <1>2, <1>3

\* A writer stops after a disconnect and after no other message that
\* make_atomic_message built (internal_server.rs:593-605,
\* get_internal_websocket.rs:294-306).
THEOREM OnlyDisconnectStopsAWriter ==
  ASSUME NEW category \in U16, NEW datas \in Seq(Byte)
  PROVE  GoesOn(MakeAtomicMessage(category, datas)) <=> category # Category.Disconnect
<1>1. GetDataSchema(MakeAtomicMessage(category, datas)) = [category |-> category, datas |-> datas]
  BY FrameRoundTrip
<1>2. [category |-> category, datas |-> datas].category # NoData.category
  BY DEF NoData, U16
<1> QED
  BY <1>1, <1>2 DEF GoesOn

-----------------------------------------------------------------------------
(* Messages in their frames.                                               *)

LEMMA Categories ==
  /\ Category.Ping = 10000 /\ Category.Pong = 10001
  /\ Category.Expired = 10002 /\ Category.Disconnect = 10003
  BY SMT DEF Category

LEMMA Schemas ==
  /\ Schema["Ping"] = PingFields /\ Schema["Expired"] = ExpiredFields
  /\ Schema["Disconnect"] = DisconnectFields /\ Schema.Data = DataFields
  /\ {"Ping", "Expired", "Disconnect", "Data"} \subseteq DOMAIN Schema
  BY SMT DEF Schema

LEMMA OwnedTwins == OwnedSchema = Schema
<1>1. /\ Schema.Data = OwnedData /\ Schema.Ping = OwnedPing
      /\ Schema.Disconnect = OwnedDisconnect /\ Schema.AppStartup = OwnedAppStartup
      /\ Schema.SaveData = OwnedSaveData /\ Schema.ServerConnectInfo = OwnedServerConnectInfo
  BY SMT DEF Schema, OwnedData, OwnedPing, OwnedDisconnect, OwnedAppStartup, OwnedSaveData,
             OwnedServerConnectInfo
<1>2. Schema = [name \in DOMAIN Schema |-> Schema[name]]
  BY Zenon DEF Schema
<1> QED BY <1>1, <1>2 DEF OwnedSchema

\* What is left of the payload of a message.
Shown(m) == SubSeq(Payload(m), 1, Len(Payload(m)) - m.dropped)

LEMMA MessageParts ==
  ASSUME NEW m, IsMessage(m)
  PROVE  /\ DOMAIN m = {"category", "values", "dropped"} /\ m.category \in U16
         /\ Protocol[m.category] \in DOMAIN Schema
         /\ Schema[Protocol[m.category]] \in Fields
         /\ IsRecord(Schema[Protocol[m.category]], m.values)
         /\ Measured(Schema[Protocol[m.category]], m.values)
         /\ Payload(m) \in Seq(Byte) /\ Len(Payload(m)) \in Nat /\ Len(Payload(m)) <= MaxLength
         /\ m.dropped \in 0..Len(Payload(m)) + 2
<1>1. /\ DOMAIN m = {"category", "values", "dropped"} /\ m.category \in U16
      /\ Protocol[m.category] \in DOMAIN Schema
      /\ IsRecord(Schema[Protocol[m.category]], m.values)
      /\ Len(Payload(m)) <= MaxLength /\ m.dropped \in 0..Len(Payload(m)) + 2
  BY DEF IsMessage
<1>2. Schema[Protocol[m.category]] \in Fields
  BY <1>1, SchemaFields
<1>3. Payload(m) \in Seq(Byte) /\ Len(Payload(m)) \in Nat
  BY <1>1, <1>2, SerializedBytes DEF Payload
<1>4. Measured(Schema[Protocol[m.category]], m.values)
  BY <1>1, <1>2, ShortIsMeasured DEF Payload
<1> QED BY <1>1, <1>2, <1>3, <1>4

LEMMA HasCategoryIf ==
  ASSUME NEW m, IsMessage(m)
  PROVE  HasCategory(m) <=> m.dropped <= Len(Payload(m))
<1>1. Len(Payload(m)) \in Nat /\ m.dropped \in 0..Len(Payload(m)) + 2
  BY MessageParts
<1> QED BY <1>1 DEF HasCategory

LEMMA ShownBytes ==
  ASSUME NEW m, IsMessage(m), HasCategory(m)
  PROVE  /\ Shown(m) \in Seq(Byte) /\ Len(Shown(m)) = Len(Payload(m)) - m.dropped
         /\ Len(Shown(m)) <= MaxLength
         /\ \A i \in 1..Len(Shown(m)) : Shown(m)[i] = Payload(m)[i]
<1> DEFINE P == Payload(m)
           n == Len(P) - m.dropped
<1>1. /\ P \in Seq(Byte) /\ Len(P) \in Nat /\ Len(P) <= MaxLength
      /\ m.dropped \in Nat /\ m.dropped <= Len(P) /\ MaxLength \in Nat
  <2>1. P \in Seq(Byte) /\ Len(P) \in Nat /\ Len(P) <= MaxLength /\ m.dropped \in 0..Len(P) + 2
    BY MessageParts
  <2>2. m.dropped <= Len(P)
    BY HasCategoryIf
  <2>3. MaxLength \in Nat
    BY SMT DEF MaxLength
  <2> HIDE DEF P
  <2> QED BY <2>1, <2>2, <2>3
<1> HIDE DEF P
<1>2. n \in 0..Len(P) /\ n <= MaxLength
  BY <1>1
<1> HIDE DEF n
<1>3. SubSeq(P, 1, n) \in Seq(Byte) /\ Len(SubSeq(P, 1, n)) = n
      /\ \A i \in 1..n : SubSeq(P, 1, n)[i] = P[i]
  BY <1>1, <1>2, PrefixProperties
<1>4. Shown(m) = SubSeq(P, 1, n)
  BY DEF Shown, P, n
<1> HIDE DEF P, n
<1>5. /\ Shown(m) \in Seq(Byte) /\ Len(Shown(m)) = n /\ n <= MaxLength
      /\ \A i \in 1..n : Shown(m)[i] = P[i]
  BY <1>2, <1>3, <1>4
<1> QED BY <1>5 DEF P, n

\* What is left of a payload is read as the message was meant, or its loss is noticed.
LEMMA ContentRead ==
  ASSUME NEW m, IsMessage(m), HasCategory(m)
  PROVE  LET content == Deserialize(Schema[Protocol[m.category]], Shown(m))
         IN /\ m.dropped = 0 => content.value = m.values /\ content.missing = 0
            /\ m.dropped # 0 => content.missing \in 1..m.dropped
<1> DEFINE fields == Schema[Protocol[m.category]]
           P == Payload(m)
           d == Shown(m)
<1>1. /\ fields \in Fields /\ IsRecord(fields, m.values) /\ Measured(fields, m.values)
      /\ Len(P) \in Nat /\ m.dropped \in 0..Len(P) + 2
  BY MessageParts
<1>2. P = Serialize(fields, m.values)
  BY DEF Payload
<1>3. /\ d \in Seq(Byte) /\ Len(d) = Len(P) - m.dropped
      /\ \A i \in 1..Len(d) : d[i] = P[i]
  BY ShownBytes
<1> HIDE DEF fields, P, d
<1>4. CASE m.dropped = 0
  <2>1. Len(P) <= Len(d) /\ \A i \in 1..Len(P) : d[i] = P[i]
    BY <1>1, <1>3, <1>4
  <2>2. Deserialize(fields, d) = [read |-> Len(P), value |-> m.values, missing |-> 0]
    BY <1>1, <1>2, <1>3, <2>1, RecordRead
  <2> QED BY <1>4, <2>2 DEF fields, d
<1>5. CASE m.dropped # 0
  <2>1. Len(d) < Len(P) /\ Len(P) - Len(d) = m.dropped
    BY <1>1, <1>3, <1>5
  <2>2. Deserialize(fields, d).missing \in 1..Len(P) - Len(d)
    BY <1>1, <1>2, <1>3, <2>1, RecordCut
  <2> QED BY <1>5, <2>1, <2>2 DEF fields, d
<1> QED BY <1>4, <1>5

\* The frame of a message: its category and what is left of its payload, or too
\* little for a category.
LEMMA FrameRead ==
  ASSUME NEW m, IsMessage(m)
  PROVE  /\ Frame(m) \in Seq(Byte)
         /\ HasCategory(m) => /\ GetDataSchema(Frame(m)) = [category |-> m.category, datas |-> Shown(m)]
                              /\ GetDataSchema(Frame(m)) # NoData
         /\ ~HasCategory(m) => GetDataSchema(Frame(m)) = NoData
<1> DEFINE P == Payload(m)
           whole == MakeAtomicMessage(m.category, P)
           n == Len(whole) - m.dropped
           f == Frame(m)
<1>1. /\ m.category \in U16 /\ P \in Seq(Byte) /\ Len(P) \in Nat
      /\ m.dropped \in 0..Len(P) + 2
  BY MessageParts
<1>2. PICK lo \in Byte, hi \in Byte :
        lo = m.category % 256 /\ hi = m.category \div 256 /\ m.category = lo + hi * 256
  BY <1>1, CategoryBytes
<1> DEFINE head == <<lo, hi>>
<1>3. head \in Seq(Byte) /\ Len(head) = 2 /\ head[1] = lo /\ head[2] = hi
  OBVIOUS
<1>4. whole = head \o P
  BY <1>2 DEF MakeAtomicMessage
<1>5. f = SubSeq(whole, 1, n)
  BY DEF Frame
<1> HIDE DEF P, head
<1>6. /\ whole \in Seq(Byte) /\ Len(whole) = 2 + Len(P)
      /\ \A i \in 1..2 + Len(P) : whole[i] = IF i <= 2 THEN head[i] ELSE P[i - 2]
  <2>1. /\ head \o P \in Seq(Byte) /\ Len(head \o P) = Len(head) + Len(P)
        /\ \A i \in 1..Len(head) + Len(P) :
             (head \o P)[i] = IF i <= Len(head) THEN head[i] ELSE P[i - Len(head)]
    BY <1>1, <1>3, ConcatProperties, Zenon
  <2> HIDE DEF whole
  <2> QED BY <1>3, <1>4, <2>1
<1> HIDE DEF whole, f
<1>7. n \in 0..Len(whole) /\ n = 2 + Len(P) - m.dropped /\ n \in Nat
  BY <1>1, <1>6
<1> HIDE DEF n
<1>8. f \in Seq(Byte) /\ Len(f) = n /\ \A i \in 1..n : f[i] = whole[i]
  BY <1>5, <1>6, <1>7, PrefixProperties
<1>9. HasCategory(m) <=> m.dropped <= Len(P)
  BY HasCategoryIf DEF P
<1>10. CASE HasCategory(m)
  <2>1. ~(Len(f) < 2) /\ f[1] = lo /\ f[2] = hi
    <3>1. n >= 2
      BY <1>1, <1>7, <1>9, <1>10
    <3>2. f[1] = whole[1] /\ f[2] = whole[2] /\ ~(Len(f) < 2)
      BY <1>7, <1>8, <3>1
    <3>3. whole[1] = head[1] /\ whole[2] = head[2]
      BY <1>1, <1>6
    <3> QED BY <1>3, <3>2, <3>3
  <2> DEFINE rest == SubSeq(f, 2 + 1, Len(f))
             d == Shown(m)
  <2>2. d \in Seq(Byte) /\ Len(d) = Len(P) - m.dropped /\ \A i \in 1..Len(d) : d[i] = P[i]
    BY <1>10, ShownBytes DEF P
  <2>3. rest \in Seq(Byte) /\ Len(rest) = Len(f) - 2 /\ \A i \in 1..Len(f) - 2 : rest[i] = f[2 + i]
    <3>1. 2 \in 0..Len(f)
      BY <1>7, <1>8, <2>1
    <3> QED BY <1>8, <3>1, RestOf
  <2> HIDE DEF rest, d
  <2>4. Len(rest) = Len(d) /\ \A i \in 1..Len(d) : rest[i] = d[i]
    <3>1. Len(rest) = Len(d)
      BY <1>1, <1>7, <1>8, <2>2, <2>3
    <3>2. ASSUME NEW i \in 1..Len(d) PROVE rest[i] = d[i]
      <4>1. /\ i \in 1..Len(f) - 2 /\ 2 + i \in 1..n /\ 2 + i \in 1..2 + Len(P) /\ ~(2 + i <= 2)
            /\ 2 + i - 2 = i
        <5>1. Len(f) = n /\ Len(d) = n - 2 /\ n <= 2 + Len(P)
          BY <1>1, <1>7, <1>8, <2>2
        <5> HIDE DEF n
        <5> QED BY <1>1, <1>7, <5>1, SMTT(60)
      <4>2. rest[i] = f[2 + i]
        BY <2>3, <4>1
      <4>3. f[2 + i] = whole[2 + i]
        BY <1>8, <4>1
      <4>4. whole[2 + i] = P[i]
        BY <1>6, <4>1
      <4>5. d[i] = P[i]
        BY <2>2
      <4> QED BY <4>2, <4>3, <4>4, <4>5
    <3> QED BY <3>1, <3>2
  <2>5. rest = d
    BY <2>2, <2>3, <2>4, SeqEqual
  <2>6. GetDataSchema(f) = [category |-> m.category, datas |-> d]
    <3>1. SubSeq(f, 3, Len(f)) = rest
      BY DEF rest
    <3>2. GetDataSchema(f) = [category |-> lo + hi * 256, datas |-> rest]
      <4>1. GetDataSchema(f) = [category |-> f[1] + f[2] * 256, datas |-> SubSeq(f, 3, Len(f))]
        BY <2>1, Zenon DEF GetDataSchema
      <4> QED BY <2>1, <3>1, <4>1
    <3> QED BY <1>2, <2>5, <3>2
  <2>7. [category |-> m.category, datas |-> d] # NoData
    <3>1. [category |-> m.category, datas |-> d].category # NoData.category
      <4>1. m.category >= 0 /\ m.category \in Int
        <5>1. m.category \in Nat
          BY <1>1, Naturals16
        <5> QED BY <5>1
      <4>2. NoData.category = -1
        BY DEF NoData
      <4> QED BY <4>1, <4>2
    <3> QED BY <3>1
  <2> QED BY <1>8, <1>10, <2>6, <2>7 DEF f, d
<1>11. CASE ~HasCategory(m)
  <2>1. Len(f) < 2
    BY <1>1, <1>7, <1>8, <1>9, <1>11
  <2>2. GetDataSchema(f) = NoData
    BY <2>1, Zenon DEF GetDataSchema
  <2> QED BY <1>8, <1>11, <2>2 DEF f
<1> QED BY <1>10, <1>11

\* What an application makes of the data that a reader forwards.
LEMMA ForwardedRead ==
  ASSUME NEW c \in U16, NEW d \in Seq(Byte), Len(d) <= MaxLength,
         NEW schema \in {Schema, OwnedSchema}
  PROVE  LET content == Deserialize(Schema[Protocol[c]], d)
             data == Forwarded([category |-> c, datas |-> d])
         IN /\ data \in Seq(Byte)
            /\ Understood(data, schema) =
                 [category |-> c, values |-> content.value, missing |-> content.missing]
<1> DEFINE values == <<c, d>>
           data == Serialize(DataFields, values)
<1>1. DataFields \in Fields /\ DataFields = <<"u16", "bytes">>
  BY SchemaFields DEF DataFields
<1>2. IsRecord(DataFields, values) /\ Measured(DataFields, values)
  <2>1. c \in FieldValues["u16"] /\ d \in FieldValues["bytes"]
    BY ValuesOf
  <2>2. values = [i \in 1..2 |-> values[i]] /\ values[1] = c /\ values[2] = d
    OBVIOUS
  <2> HIDE DEF values
  <2>3. DOMAIN DataFields = 1..2 /\ DataFields[1] = "u16" /\ DataFields[2] = "bytes"
    BY <1>1
  <2>4. IsRecord(DataFields, values)
    BY <2>1, <2>2, <2>3 DEF IsRecord
  <2>5. Measured(DataFields, values)
    BY <2>2, <2>3 DEF Measured, Blobs
  <2> QED BY <2>4, <2>5
<1>3. data = Forwarded([category |-> c, datas |-> d])
  BY DEF Forwarded
<1> HIDE DEF values
<1>4. data \in Seq(Byte) /\ Len(data) \in Nat
  BY <1>1, <1>2, SerializedBytes
<1>5. Deserialize(DataFields, data) = [read |-> Len(data), value |-> values, missing |-> 0]
  <2>1. Len(data) <= Len(data)
    BY <1>4
  <2> QED BY <1>1, <1>2, <1>4, <2>1, RecordRead
<1>6. schema = Schema /\ Schema.Data = DataFields
  BY OwnedTwins, Schemas
<1> HIDE DEF data
<1>7. Deserialize(schema.Data, data).value = values
  BY <1>5, <1>6
<1>8. values[1] = c /\ values[2] = d
  BY DEF values
<1>9. Understood(data, schema) =
        [category |-> c, values |-> Deserialize(Schema[Protocol[c]], d).value,
         missing |-> Deserialize(Schema[Protocol[c]], d).missing]
  BY <1>6, <1>7, <1>8, Zenon DEF Understood
<1> QED BY <1>3, <1>4, <1>9

-----------------------------------------------------------------------------
(* The way of the messages to an application: those heard so far are, in   *)
(* order, what it got and what its queue carries.                          *)

Fits(g, m) ==
  /\ g.category = m.category
  /\ m.dropped = 0 => g.values = m.values
  /\ g.missing \in (IF m.dropped = 0 THEN {0} ELSE 1..m.dropped)

Carries(bytes, m) == \A schema \in {Schema, OwnedSchema} : Fits(Understood(bytes, schema), m)

Track(got, queue, heard, meant) ==
  /\ IsFiniteSet(heard)
  /\ Len(got) + Len(queue) = Cardinality(heard)
  /\ \A i \in heard :
       /\ Place(i, heard) \in 1..Cardinality(heard)
       /\ Place(i, heard) <= Len(got) => Fits(got[Place(i, heard)], meant[i])
       /\ Place(i, heard) > Len(got) => Carries(queue[Place(i, heard) - Len(got)], meant[i])

LEMMA TrackHears ==
  ASSUME NEW got, NEW queue, NEW heard, NEW meant, Track(got, queue, heard, meant)
  PROVE  Hears(got, queue, heard, meant) /\ Notices(got, heard, meant)
<1>1. /\ Len(got) + Len(queue) = Cardinality(heard)
      /\ \A i \in heard : Place(i, heard) <= Len(got) => Fits(got[Place(i, heard)], meant[i])
  BY DEF Track
<1>2. Hears(got, queue, heard, meant)
  BY <1>1, Zenon DEF Hears, Fits
<1>3. Notices(got, heard, meant)
  BY <1>1, Zenon DEF Notices, Fits
<1> QED BY <1>2, <1>3

LEMMA TrackSame ==
  ASSUME NEW got, NEW queue, NEW heard, NEW meant, NEW meant2,
         Track(got, queue, heard, meant), \A i \in heard : meant2[i] = meant[i]
  PROVE  Track(got, queue, heard, meant2)
BY DEF Track

LEMMA TrackTake ==
  ASSUME NEW Gs, NEW Qs, NEW got \in Seq(Gs), NEW queue \in Seq(Qs), queue # <<>>,
         NEW heard, NEW meant, Track(got, queue, heard, meant),
         NEW schema \in {Schema, OwnedSchema}, Understood(Head(queue), schema) \in Gs
  PROVE  Track(Append(got, Understood(Head(queue), schema)), Tail(queue), heard, meant)
<1> DEFINE g == Understood(Head(queue), schema)
           got2 == Append(got, g)
           queue2 == Tail(queue)
<1>1. /\ got2 \in Seq(Gs) /\ Len(got2) = Len(got) + 1
      /\ \A n \in 1..Len(got) : got2[n] = got[n]
      /\ got2[Len(got) + 1] = g
  <2> HIDE DEF g
  <2> QED BY AppendProperties DEF g
<1>2. /\ queue2 \in Seq(Qs) /\ Len(queue2) = Len(queue) - 1
      /\ \A n \in 1..Len(queue2) : queue2[n] = queue[n + 1]
  BY HeadTailProperties
<1>3. Len(got) \in Nat /\ Len(queue) \in Nat /\ Head(queue) = queue[1]
  BY LenProperties
<1> HIDE DEF got2, queue2, g
<1>4. /\ IsFiniteSet(heard) /\ Len(got) + Len(queue) = Cardinality(heard)
      /\ \A i \in heard :
           /\ Place(i, heard) \in 1..Cardinality(heard)
           /\ Place(i, heard) <= Len(got) => Fits(got[Place(i, heard)], meant[i])
           /\ Place(i, heard) > Len(got) => Carries(queue[Place(i, heard) - Len(got)], meant[i])
  BY DEF Track
<1>5. Len(got2) + Len(queue2) = Cardinality(heard)
  BY <1>1, <1>2, <1>3, <1>4
<1>6. ASSUME NEW i \in heard
      PROVE  /\ Place(i, heard) <= Len(got2) => Fits(got2[Place(i, heard)], meant[i])
             /\ Place(i, heard) > Len(got2) => Carries(queue2[Place(i, heard) - Len(got2)], meant[i])
  <2> DEFINE n == Place(i, heard)
  <2>1. /\ n \in 1..Len(got) + Len(queue)
        /\ n <= Len(got) => Fits(got[n], meant[i])
        /\ n > Len(got) => Carries(queue[n - Len(got)], meant[i])
    BY <1>4
  <2> HIDE DEF n
  <2>2. CASE n <= Len(got)
    <3>1. n \in 1..Len(got) /\ n <= Len(got2) /\ ~(n > Len(got2))
      BY <1>1, <1>3, <2>1, <2>2
    <3>2. got2[n] = got[n]
      BY <1>1, <3>1
    <3> QED BY <2>1, <2>2, <3>1, <3>2 DEF n
  <2>3. CASE n = Len(got) + 1
    <3>1. n > Len(got) /\ n - Len(got) = 1 /\ ~(n > Len(got2))
      BY <1>1, <1>3, <2>3
    <3>2. Carries(Head(queue), meant[i])
      BY <1>3, <2>1, <3>1
    <3>3. Fits(g, meant[i])
      BY <3>2 DEF Carries, g
    <3>4. got2[n] = g
      BY <1>1, <2>3
    <3> QED BY <3>1, <3>3, <3>4 DEF n
  <2>4. CASE n > Len(got) + 1
    <3>1. /\ n > Len(got) /\ ~(n <= Len(got2)) /\ n - Len(got2) \in 1..Len(queue2)
          /\ n - Len(got2) + 1 = n - Len(got)
      BY <1>1, <1>2, <1>3, <2>1, <2>4
    <3>2. queue2[n - Len(got2)] = queue[n - Len(got)]
      BY <1>2, <3>1
    <3> QED BY <2>1, <3>1, <3>2 DEF n
  <2>5. n <= Len(got) \/ n = Len(got) + 1 \/ n > Len(got) + 1
    BY <1>3, <2>1
  <2> QED BY <2>2, <2>3, <2>4, <2>5
<1> QED BY <1>4, <1>5, <1>6 DEF Track, got2, queue2, g

LEMMA TrackAppend ==
  ASSUME NEW Gs, NEW Qs, NEW got \in Seq(Gs), NEW queue \in Seq(Qs), NEW heard,
         NEW k \in Nat, \A i \in heard : i \in Nat /\ i < k,
         NEW meant, NEW meant2, Track(got, queue, heard, meant),
         \A i \in heard : meant2[i] = meant[i],
         NEW q \in Qs, Carries(q, meant2[k])
  PROVE  Track(got, Append(queue, q), heard \cup {k}, meant2)
<1> DEFINE heard2 == heard \cup {k}
           queue2 == Append(queue, q)
<1>1. /\ queue2 \in Seq(Qs) /\ Len(queue2) = Len(queue) + 1
      /\ \A n \in 1..Len(queue) : queue2[n] = queue[n]
      /\ queue2[Len(queue) + 1] = q
  BY AppendProperties
<1>2. Len(got) \in Nat /\ Len(queue) \in Nat
  BY LenProperties
<1>3. /\ IsFiniteSet(heard) /\ Len(got) + Len(queue) = Cardinality(heard)
      /\ \A i \in heard :
           /\ Place(i, heard) \in 1..Cardinality(heard)
           /\ Place(i, heard) <= Len(got) => Fits(got[Place(i, heard)], meant[i])
           /\ Place(i, heard) > Len(got) => Carries(queue[Place(i, heard) - Len(got)], meant[i])
  BY DEF Track
<1>4. k \notin heard
  OBVIOUS
<1>5. IsFiniteSet(heard2) /\ Cardinality(heard2) = Cardinality(heard) + 1
  BY <1>3, <1>4, FS_AddElement
<1>6. ASSUME NEW i \in heard PROVE Place(i, heard2) = Place(i, heard)
  <2>1. {j \in heard2 : j <= i} = {j \in heard : j <= i}
    OBVIOUS
  <2> HIDE DEF heard2
  <2> QED BY <2>1 DEF Place
<1>7. Place(k, heard2) = Cardinality(heard2)
  <2>1. {j \in heard2 : j <= k} = heard2
    OBVIOUS
  <2> HIDE DEF heard2
  <2> QED BY <2>1 DEF Place
<1> HIDE DEF queue2
<1>8. ASSUME NEW i \in heard2
      PROVE  /\ Place(i, heard2) \in 1..Cardinality(heard2)
             /\ Place(i, heard2) <= Len(got) => Fits(got[Place(i, heard2)], meant2[i])
             /\ Place(i, heard2) > Len(got) => Carries(queue2[Place(i, heard2) - Len(got)], meant2[i])
  <2> DEFINE n == Place(i, heard2)
  <2>1. CASE i \in heard
    <3>1. /\ n \in 1..Cardinality(heard)
          /\ n <= Len(got) => Fits(got[n], meant2[i])
          /\ n > Len(got) => Carries(queue[n - Len(got)], meant2[i])
      BY <1>3, <1>6, <2>1
    <3> HIDE DEF n, heard2
    <3>2. n > Len(got) => n - Len(got) \in 1..Len(queue)
      BY <1>2, <1>3, <3>1
    <3>3. n > Len(got) => queue2[n - Len(got)] = queue[n - Len(got)]
      BY <1>1, <3>2
    <3>4. n \in 1..Cardinality(heard2)
      BY <1>2, <1>3, <1>5, <3>1
    <3> QED BY <3>1, <3>3, <3>4 DEF n
  <2>2. CASE i = k
    <3>1. n = Cardinality(heard2)
      BY <1>7, <2>2
    <3> HIDE DEF n, heard2
    <3>2. n = Len(got) + Len(queue) + 1 /\ n \in 1..Cardinality(heard2)
      BY <1>2, <1>3, <1>5, <3>1
    <3>3. n > Len(got) /\ n - Len(got) = Len(queue) + 1 /\ ~(n <= Len(got))
      BY <1>2, <3>2
    <3> QED BY <1>1, <2>2, <3>2, <3>3 DEF n
  <2> QED BY <2>1, <2>2
<1>9. Len(got) + Len(queue2) = Cardinality(heard2)
  <2> HIDE DEF heard2
  <2> QED BY <1>1, <1>2, <1>3, <1>5
<1> QED BY <1>5, <1>8, <1>9 DEF Track, queue2

-----------------------------------------------------------------------------
(* What can be on its way: messages of the applications and of the library.*)

UpSent == UpMessages \cup {Whole(Category.Ping, <<p, 0>>) : p \in Peers}
            \cup {Whole(Category.Disconnect, <<<<>>>>), Whole(Category.Disconnect, <<Address>>)}
DownSent == DownMessages \cup {Whole(Category.Expired, <<TRUE>>), PongSent,
                               Whole(Category.Disconnect, <<Address>>)}

\* A pong is a frame without a record, and all other frames have one.
OnWire(m) == IF m.values = <<>> THEN MakePong ELSE Frame(m)

LEMMA WholeParts ==
  ASSUME NEW category, NEW values
  PROVE  /\ Whole(category, values).category = category
         /\ Whole(category, values).values = values /\ Whole(category, values).dropped = 0
         /\ DOMAIN Whole(category, values) = {"category", "values", "dropped"}
         /\ HasCategory(Whole(category, values))
<1>1. /\ Whole(category, values).category = category
      /\ Whole(category, values).values = values /\ Whole(category, values).dropped = 0
      /\ DOMAIN Whole(category, values) = {"category", "values", "dropped"}
  BY DEF Whole
<1> QED BY <1>1 DEF HasCategory

LEMMA Singleton ==
  ASSUME NEW x
  PROVE  <<x>> = [i \in {1} |-> <<x>>[i]] /\ <<x>>[1] = x
OBVIOUS

LEMMA IsExpired == IsMessage(Whole(Category.Expired, <<TRUE>>))
<1> DEFINE values == <<TRUE>>
           m == Whole(Category.Expired, values)
           w == Write("bool", TRUE)
<1>1. ExpiredFields \in Fields /\ Len(ExpiredFields) = 1 /\ ExpiredFields[1] = "bool"
      /\ DOMAIN ExpiredFields = {1}
  BY SchemaFields DEF ExpiredFields
<1>2. values = [i \in {1} |-> values[i]] /\ values[1] = TRUE
  BY Singleton, Zenon
<1> HIDE DEF values
<1>3. IsRecord(ExpiredFields, values)
  BY <1>1, <1>2, ValuesOf, ZenonT(60) DEF IsRecord
<1>4. Serialize(ExpiredFields, values) = w
  <2>1. ExpiredFields \in Fields /\ Len(ExpiredFields) = 1 /\ ExpiredFields[1] = "bool"
    BY <1>1
  <2>2. Serialize(ExpiredFields, values) = Write(ExpiredFields[1], values[1])
    BY <1>3, <2>1, RecordBytes
  <2> QED BY <1>2, <2>1, <2>2
<1>5. Len(w) = 1
  BY DEF Write
<1>6. 1 <= MaxLength
  BY SMT DEF MaxLength
<1>7. Protocol[Category.Expired] = "Expired" /\ Category.Expired \in U16
  BY ProtocolAssumption, Categories DEF U16
<1>8. m.category = Category.Expired /\ m.values = values /\ m.dropped = 0
      /\ DOMAIN m = {"category", "values", "dropped"}
  BY WholeParts
<1> HIDE DEF m, w
<1>9. Payload(m) = w
  BY <1>4, <1>7, <1>8, Schemas DEF Payload
<1>10. 0 \in 0..Len(w) + 2 /\ Len(w) <= MaxLength
  BY <1>5, <1>6
<1>11. IsMessage(m)
  BY <1>3, <1>7, <1>8, <1>9, <1>10, Schemas DEF IsMessage
<1> QED BY <1>11 DEF m, values

LEMMA PongParts ==
  PongSent.category = Category.Pong /\ PongSent.values = <<>> /\ PongSent.dropped = 0
BY WholeParts DEF PongSent

LEMMA IsEmptyDisconnect == IsMessage(Whole(Category.Disconnect, <<<<>>>>))
<1> DEFINE nobody == <<>>
           values == <<nobody>>
           m == Whole(Category.Disconnect, values)
           w == Write("str", nobody)
<1>1. DisconnectFields \in Fields /\ Len(DisconnectFields) = 1 /\ DisconnectFields[1] = "str"
      /\ DOMAIN DisconnectFields = {1}
  BY SchemaFields DEF DisconnectFields
<1>3. nobody \in Seq(Byte) /\ Len(nobody) = 0
  OBVIOUS
<1> HIDE DEF nobody
<1>2. values = [i \in {1} |-> values[i]] /\ values[1] = nobody
  BY Singleton, Zenon
<1> HIDE DEF values
<1>4. IsRecord(DisconnectFields, values)
  BY <1>1, <1>2, <1>3, ValuesOf DEF IsRecord
<1>5. Serialize(DisconnectFields, values) = w
  <2>1. DisconnectFields \in Fields /\ Len(DisconnectFields) = 1 /\ DisconnectFields[1] = "str"
    BY <1>1
  <2>2. Serialize(DisconnectFields, values) = Write(DisconnectFields[1], values[1])
    BY <1>4, <2>1, RecordBytes
  <2> QED BY <1>2, <2>1, <2>2
<1>6. Len(w) = 4
  <2>1. nobody \in FieldValues["str"] /\ "str" \in Kinds /\ "str" \in Blobs
    BY <1>3, ValuesOf DEF Kinds, Blobs
  <2>2. Len(w) = 4 + Len(nobody)
    BY <2>1, WrittenBytes
  <2> HIDE DEF w
  <2> QED BY <1>3, <2>2
<1>7. 4 <= MaxLength
  BY SMT DEF MaxLength
<1>8. Protocol[Category.Disconnect] = "Disconnect" /\ Category.Disconnect \in U16
  BY ProtocolAssumption, Categories DEF U16
<1>9. m.category = Category.Disconnect /\ m.values = values /\ m.dropped = 0
      /\ DOMAIN m = {"category", "values", "dropped"}
  BY WholeParts
<1> HIDE DEF m, w
<1>10. Payload(m) = w
  BY <1>5, <1>8, <1>9, Schemas DEF Payload
<1>11. 0 \in 0..Len(w) + 2 /\ Len(w) <= MaxLength
  BY <1>6, <1>7
<1>12. IsMessage(m)
  BY <1>4, <1>8, <1>9, <1>10, <1>11, Schemas DEF IsMessage
<1> QED BY <1>12 DEF m, values, nobody

LEMMA SentMessages ==
  /\ \A m \in UpSent : IsMessage(m)
  /\ \A m \in DownSent : /\ m.category \in U16
                         /\ m # PongSent => IsMessage(m)
<1>1. \A m \in UpSent : IsMessage(m)
  BY MessagesAssumption, PeersAssumption, IsEmptyDisconnect DEF UpSent
<1>2. ASSUME NEW m \in DownSent
      PROVE  /\ m.category \in U16
             /\ m # PongSent => IsMessage(m)
  <2>1. CASE m \in DownMessages
    <3>1. IsMessage(m)
      BY <2>1, MessagesAssumption
    <3> QED BY <3>1, MessageParts
  <2>2. CASE m = Whole(Category.Expired, <<TRUE>>)
    BY <2>2, IsExpired, MessageParts, WholeParts, Categories
  <2>3. CASE m = PongSent
    <3>1. Category.Pong \in U16
      BY Categories DEF U16
    <3> QED BY <2>3, <3>1, PongParts
  <2>4. CASE m = Whole(Category.Disconnect, <<Address>>)
    BY <2>4, PeersAssumption, MessageParts, WholeParts, Categories
  <2> QED BY <2>1, <2>2, <2>3, <2>4 DEF DownSent
<1> QED BY <1>1, <1>2

LEMMA RecordsAreNotEmpty ==
  ASSUME NEW m, IsMessage(m)
  PROVE  m.values # <<>> /\ OnWire(m) = Frame(m)
<1>1. /\ Schema[Protocol[m.category]] \in Fields
      /\ IsRecord(Schema[Protocol[m.category]], m.values)
  BY MessageParts
<1> DEFINE fields == Schema[Protocol[m.category]]
<1>2. DOMAIN m.values # {}
  <2> HIDE DEF fields
  <2>1. fields \in Seq(Kinds) /\ Len(fields) \in {1, 2}
    BY <1>1 DEF Fields, fields
  <2>2. DOMAIN fields = 1..Len(fields)
    BY <2>1, LenProperties
  <2>3. 1 \in DOMAIN fields
    <3>1. Len(fields) = 1 \/ Len(fields) = 2
      BY <2>1
    <3> QED BY <2>2, <3>1
  <2>4. m.values = [i \in DOMAIN fields |-> m.values[i]]
    BY <1>1, Zenon DEF IsRecord, fields
  <2>5. DOMAIN m.values = DOMAIN fields
    BY <2>4, Zenon
  <2> QED BY <2>3, <2>5
<1>3. m.values # <<>>
  <2>1. DOMAIN <<>> = {}
    OBVIOUS
  <2> QED BY <1>2, <2>1
<1> QED BY <1>3 DEF OnWire

LEMMA WholeFrame ==
  ASSUME NEW category, NEW values, IsMessage(Whole(category, values))
  PROVE  Frame(Whole(category, values)) =
           MakeAtomicMessage(category, Serialize(Schema[Protocol[category]], values))
<1> DEFINE m == Whole(category, values)
           P == Payload(m)
           whole == MakeAtomicMessage(category, P)
<1>1. m.category = category /\ m.values = values /\ m.dropped = 0
  BY WholeParts
<1>2. category \in U16 /\ P \in Seq(Byte)
  BY <1>1, MessageParts
<1>3. P = Serialize(Schema[Protocol[category]], values)
  BY <1>1, Zenon DEF Payload
<1> HIDE DEF P
<1>4. whole \in Seq(Byte) /\ Len(whole) \in Nat
  <2>1. PICK lo \in Byte, hi \in Byte :
          lo = category % 256 /\ hi = category \div 256 /\ category = lo + hi * 256
    BY <1>2, CategoryBytes
  <2>2. whole = <<lo, hi>> \o P
    BY <2>1 DEF MakeAtomicMessage
  <2> DEFINE head == <<lo, hi>>
  <2>3. head \in Seq(Byte)
    OBVIOUS
  <2> HIDE DEF head, whole
  <2>4. head \o P \in Seq(Byte)
    BY <1>2, <2>3, ConcatProperties
  <2>5. whole \in Seq(Byte)
    BY <2>2, <2>4, Zenon DEF head
  <2> QED BY <2>5, LenProperties
<1>5. Frame(m) = SubSeq(whole, 1, Len(whole) - 0)
  BY <1>1, Zenon DEF Frame, P
<1> HIDE DEF whole, m
<1>6. SubSeq(whole, 1, Len(whole)) = whole
  <2> DEFINE t == SubSeq(whole, 1, Len(whole))
  <2>1. t \in Seq(Byte) /\ Len(t) = Len(whole) /\ \A i \in 1..Len(whole) : t[i] = whole[i]
    <3>1. Len(whole) \in 0..Len(whole)
      BY <1>4
    <3> QED BY <1>4, <3>1, PrefixProperties
  <2> HIDE DEF t
  <2>2. t = whole
    BY <1>4, <2>1, SeqEqual
  <2> QED BY <2>2 DEF t
<1>7. Len(whole) - 0 = Len(whole)
  BY <1>4
<1>8. Frame(m) = whole
  BY <1>5, <1>6, <1>7
<1> QED BY <1>3, <1>8, Zenon DEF whole, m

LEMMA LibraryFrames ==
  /\ \A p \in Peers : OnWire(Whole(Category.Ping, <<p, 0>>)) = MakePing(p)
  /\ OnWire(Whole(Category.Disconnect, <<<<>>>>)) = MakeDisconnect(<<>>)
  /\ OnWire(Whole(Category.Disconnect, <<Address>>)) = MakeDisconnect(Address)
  /\ OnWire(Whole(Category.Expired, <<TRUE>>)) = MakeExpired
  /\ OnWire(PongSent) = MakePong
<1>1. /\ Schema[Protocol[Category.Ping]] = PingFields
      /\ Schema[Protocol[Category.Disconnect]] = DisconnectFields
      /\ Schema[Protocol[Category.Expired]] = ExpiredFields
  BY ProtocolAssumption, Schemas
<1>2. ASSUME NEW p \in Peers PROVE OnWire(Whole(Category.Ping, <<p, 0>>)) = MakePing(p)
  <2> DEFINE values == <<p, 0>>
  <2>1. IsMessage(Whole(Category.Ping, values))
    BY PeersAssumption
  <2>2. MakePing(p) = MakeAtomicMessage(Category.Ping, Serialize(PingFields, values))
    BY Zenon DEF MakePing
  <2> HIDE DEF values
  <2>3. OnWire(Whole(Category.Ping, values)) = MakePing(p)
    BY <1>1, <2>1, <2>2, RecordsAreNotEmpty, WholeFrame
  <2> QED BY <2>3 DEF values
<1>3. ASSUME NEW address, IsMessage(Whole(Category.Disconnect, <<address>>))
      PROVE  OnWire(Whole(Category.Disconnect, <<address>>)) = MakeDisconnect(address)
  <2> DEFINE values == <<address>>
  <2>2. MakeDisconnect(address) =
          MakeAtomicMessage(Category.Disconnect, Serialize(DisconnectFields, values))
    BY Zenon DEF MakeDisconnect
  <2>1. IsMessage(Whole(Category.Disconnect, values))
    BY <1>3
  <2> HIDE DEF values
  <2>3. OnWire(Whole(Category.Disconnect, values)) = MakeDisconnect(address)
    BY <1>1, <2>1, <2>2, RecordsAreNotEmpty, WholeFrame
  <2> QED BY <2>3 DEF values
<1>4. OnWire(Whole(Category.Expired, <<TRUE>>)) = MakeExpired
  <2> DEFINE values == <<TRUE>>
  <2>1. IsMessage(Whole(Category.Expired, values))
    BY IsExpired
  <2>2. MakeExpired = MakeAtomicMessage(Category.Expired, Serialize(ExpiredFields, values))
    BY Zenon DEF MakeExpired
  <2> HIDE DEF values
  <2>3. OnWire(Whole(Category.Expired, values)) = MakeExpired
    BY <1>1, <2>1, <2>2, RecordsAreNotEmpty, WholeFrame
  <2> QED BY <2>3 DEF values
<1>5. OnWire(PongSent) = MakePong
  BY PongParts DEF OnWire
<1>6. /\ OnWire(Whole(Category.Disconnect, <<<<>>>>)) = MakeDisconnect(<<>>)
      /\ OnWire(Whole(Category.Disconnect, <<Address>>)) = MakeDisconnect(Address)
  BY <1>3, IsEmptyDisconnect, PeersAssumption, Zenon
<1> QED BY <1>2, <1>4, <1>5, <1>6

LEMMA PongRead ==
  /\ MakePong \in Seq(Byte) /\ GetDataSchema(MakePong) # NoData
  /\ GetDataSchema(MakePong).category = Category.Pong
<1> DEFINE nothing == <<>>
<1>1. Category.Pong \in U16 /\ nothing \in Seq(Byte)
  BY Categories DEF U16
<1> HIDE DEF nothing
<1>2. GetDataSchema(MakeAtomicMessage(Category.Pong, nothing)) =
        [category |-> Category.Pong, datas |-> nothing]
  BY <1>1, FrameRoundTrip
<1>3. MakePong = MakeAtomicMessage(Category.Pong, nothing)
  BY Zenon DEF MakePong, nothing
<1>4. GetDataSchema(MakePong).category = Category.Pong
  BY <1>2, <1>3
<1>5. GetDataSchema(MakePong) # NoData
  <2>1. NoData.category = -1 /\ Category.Pong # -1
    BY Categories DEF NoData
  <2> QED BY <1>4, <2>1
<1>6. MakePong \in Seq(Byte)
  <2>1. PICK lo \in Byte, hi \in Byte :
          lo = Category.Pong % 256 /\ hi = Category.Pong \div 256 /\ Category.Pong = lo + hi * 256
    BY <1>1, CategoryBytes
  <2> DEFINE head == <<lo, hi>>
  <2>2. head \in Seq(Byte)
    OBVIOUS
  <2>3. MakePong = head \o nothing
    BY <1>3, <2>1, Zenon DEF MakeAtomicMessage
  <2> HIDE DEF head
  <2> QED BY <1>1, <2>2, <2>3, ConcatProperties
<1> QED BY <1>4, <1>5, <1>6

LEMMA FramesAreBytes ==
  /\ \A m \in UpSent : IsMessage(m) /\ OnWire(m) = Frame(m) /\ OnWire(m) \in Seq(Byte)
  /\ \A m \in DownSent : OnWire(m) \in Seq(Byte)
<1>1. ASSUME NEW m, IsMessage(m) PROVE OnWire(m) = Frame(m) /\ OnWire(m) \in Seq(Byte)
  BY <1>1, RecordsAreNotEmpty, FrameRead
<1>2. ASSUME NEW m \in DownSent PROVE OnWire(m) \in Seq(Byte)
  <2>1. CASE m = PongSent
    BY <2>1, SentMessages, LibraryFrames, PongRead
  <2>2. CASE m # PongSent
    BY <2>2, SentMessages, <1>1
  <2> QED BY <2>1, <2>2
<1> QED BY <1>1, <1>2, SentMessages

LEMMA LibraryMessages ==
  /\ \A p \in Peers : Whole(Category.Ping, <<p, 0>>) \in UpSent
  /\ Whole(Category.Disconnect, <<<<>>>>) \in UpSent
  /\ Whole(Category.Disconnect, <<Address>>) \in UpSent
  /\ Whole(Category.Disconnect, <<Address>>) \in DownSent
  /\ Whole(Category.Expired, <<TRUE>>) \in DownSent /\ PongSent \in DownSent
  /\ UpMessages \subseteq UpSent /\ DownMessages \subseteq DownSent
  BY Zenon DEF UpSent, DownSent

-----------------------------------------------------------------------------
(* The inductive invariant.                                                *)

\* The frames on their way are the last of the messages sent.
InFlight(frames, sent) ==
  /\ Len(frames) <= Len(sent)
  /\ \A j \in 1..Len(frames) : frames[j] = OnWire(sent[Len(sent) - Len(frames) + j])

\* What a queue carries, and what an application makes of it.
Queued == {q \in Seq(Byte) : \A schema \in {Schema, OwnedSchema} :
                               Understood(q, schema).category \in U16}
Gots == {Understood(q, schema) : q \in Queued, schema \in {Schema, OwnedSchema}}

Settings ==
  /\ usePing \in BOOLEAN /\ proxyPing \in {-1, Proxied}
  /\ upOpen \in BOOLEAN /\ downOpen \in BOOLEAN
  /\ server \in {"first", "on", "closed"} /\ client \in {"on", "closed"}

Upward == /\ sentUp \in Seq(UpSent) /\ up \in Seq(Seq(Byte))
          /\ InFlight(up, sentUp)
Downward == /\ sentDown \in Seq(DownSent) /\ down \in Seq(Seq(Byte))
            /\ InFlight(down, sentDown)

\* The first message decides on the connection and on who it belongs to.
Named == server # "first" /\ Names(sentUp[1])
ServerSide ==
  /\ server = "first" <=> ReadByServer = 0
  /\ server = "on" => Names(sentUp[1])
  /\ id = IF Named THEN sentUp[1].values[1] ELSE <<>>

ServerHeard == /\ serverQueue \in Seq(Queued) /\ serverGot \in Seq(Gots)
               /\ Track(serverGot, serverQueue, ForServerApp, MeantUp)
ClientHeard == /\ clientQueue \in Seq(Queued) /\ clientGot \in Seq(Gots)
               /\ Track(clientGot, clientQueue, ForClientApp, sentDown)

\* One pong for each ping that the server read and has to answer, while it can.
Answered ==
  /\ server = "first" => sentDown = <<>> /\ downOpen
  /\ Named => Pongs <= PingsOf(id) /\ (downOpen => Pongs = PingsOf(id))

IInv == Settings /\ Upward /\ Downward /\ ServerSide /\ ServerHeard /\ ClientHeard /\ Answered

LEMMA Sends ==
  ASSUME NEW S, NEW sent \in Seq(S), NEW frames \in Seq(Seq(Byte)), InFlight(frames, sent),
         NEW m \in S, OnWire(m) \in Seq(Byte)
  PROVE  /\ Append(sent, m) \in Seq(S) /\ Append(frames, OnWire(m)) \in Seq(Seq(Byte))
         /\ InFlight(Append(frames, OnWire(m)), Append(sent, m))
         /\ Len(Append(sent, m)) = Len(sent) + 1
         /\ Len(Append(sent, m)) - Len(Append(frames, OnWire(m))) = Len(sent) - Len(frames)
         /\ \A i \in 1..Len(sent) : Append(sent, m)[i] = sent[i]
         /\ Append(sent, m)[Len(sent) + 1] = m
<1> DEFINE f == OnWire(m)
           sent2 == Append(sent, m)
           frames2 == Append(frames, f)
<1>1. /\ sent2 \in Seq(S) /\ Len(sent2) = Len(sent) + 1
      /\ \A i \in 1..Len(sent) : sent2[i] = sent[i]
      /\ sent2[Len(sent) + 1] = m
  BY AppendProperties
<1>2. /\ frames2 \in Seq(Seq(Byte)) /\ Len(frames2) = Len(frames) + 1
      /\ \A i \in 1..Len(frames) : frames2[i] = frames[i]
      /\ frames2[Len(frames) + 1] = f
  <2> HIDE DEF f
  <2>1. f \in Seq(Byte)
    BY DEF f
  <2> QED BY <2>1, AppendProperties
<1>3. Len(sent) \in Nat /\ Len(frames) \in Nat /\ Len(frames) <= Len(sent)
  BY LenProperties DEF InFlight
<1> HIDE DEF f, sent2, frames2
<1>4. ASSUME NEW j \in 1..Len(frames2)
      PROVE  frames2[j] = OnWire(sent2[Len(sent2) - Len(frames2) + j])
  <2>1. CASE j \in 1..Len(frames)
    <3>1. frames2[j] = frames[j] /\ frames[j] = OnWire(sent[Len(sent) - Len(frames) + j])
      BY <1>2, <2>1 DEF InFlight
    <3>2. /\ Len(sent2) - Len(frames2) + j = Len(sent) - Len(frames) + j
          /\ Len(sent) - Len(frames) + j \in 1..Len(sent)
      BY <1>1, <1>2, <1>3, <2>1
    <3> QED BY <1>1, <3>1, <3>2
  <2>2. CASE j = Len(frames) + 1
    <3>1. Len(sent2) - Len(frames2) + j = Len(sent) + 1
      BY <1>1, <1>2, <1>3, <2>2
    <3> QED BY <1>1, <1>2, <2>2, <3>1 DEF f
  <2>3. j \in 1..Len(frames) \/ j = Len(frames) + 1
    BY <1>2, <1>3
  <2> QED BY <2>1, <2>2, <2>3
<1>5. Len(frames2) <= Len(sent2) /\ Len(sent2) - Len(frames2) = Len(sent) - Len(frames)
  BY <1>1, <1>2, <1>3
<1>6. InFlight(frames2, sent2)
  BY <1>4, <1>5 DEF InFlight
<1> QED BY <1>1, <1>2, <1>5, <1>6 DEF f, sent2, frames2

LEMMA Reads ==
  ASSUME NEW S, NEW sent \in Seq(S), NEW frames \in Seq(Seq(Byte)), InFlight(frames, sent),
         frames # <<>>
  PROVE  LET k == Len(sent) - Len(frames) + 1
         IN /\ k \in 1..Len(sent) /\ k \in Nat /\ sent[k] \in S
            /\ Head(frames) = OnWire(sent[k])
            /\ Tail(frames) \in Seq(Seq(Byte)) /\ InFlight(Tail(frames), sent)
            /\ Len(sent) - Len(Tail(frames)) = k
<1> DEFINE k == Len(sent) - Len(frames) + 1
           rest == Tail(frames)
<1>1. /\ rest \in Seq(Seq(Byte)) /\ Len(rest) = Len(frames) - 1
      /\ \A i \in 1..Len(rest) : rest[i] = frames[i + 1]
  BY HeadTailProperties
<1>2. Head(frames) = frames[1]
  BY HeadTailProperties
<1>3. Len(sent) \in Nat /\ Len(frames) \in Nat /\ Len(frames) <= Len(sent) /\ Len(frames) # 0
  <2>1. Len(frames) # 0
    BY EmptySeq
  <2> QED BY <2>1, LenProperties DEF InFlight
<1> HIDE DEF rest
<1>4. k \in 1..Len(sent) /\ k \in Nat /\ Len(sent) - Len(rest) = k
  BY <1>1, <1>3
<1>5. sent[k] \in S
  BY <1>4, ElementOfSeq
<1>6. frames[1] = OnWire(sent[k])
  <2>1. 1 \in 1..Len(frames)
    BY <1>3
  <2>2. frames[1] = OnWire(sent[Len(sent) - Len(frames) + 1])
    BY <2>1 DEF InFlight
  <2> QED BY <2>2
<1>7. InFlight(rest, sent)
  <2>1. Len(rest) <= Len(sent)
    BY <1>1, <1>3
  <2>2. ASSUME NEW j \in 1..Len(rest)
        PROVE  rest[j] = OnWire(sent[Len(sent) - Len(rest) + j])
    <3>1. /\ j + 1 \in 1..Len(frames)
          /\ Len(sent) - Len(rest) + j = Len(sent) - Len(frames) + (j + 1)
      BY <1>1, <1>3
    <3>2. frames[j + 1] = OnWire(sent[Len(sent) - Len(frames) + (j + 1)])
      BY <3>1 DEF InFlight
    <3>3. rest[j] = frames[j + 1]
      BY <1>1
    <3> QED BY <3>1, <3>2, <3>3
  <2> QED BY <2>1, <2>2 DEF InFlight
<1> QED BY <1>1, <1>2, <1>4, <1>5, <1>6, <1>7 DEF k, rest

\* The data that a reader makes of a message carries it.
LEMMA ForwardedCarries ==
  ASSUME NEW m, IsMessage(m), HasCategory(m), NEW c \in U16, Protocol[c] = Protocol[m.category],
         NEW meant, meant.category = c, meant.values = m.values, meant.dropped = m.dropped
  PROVE  /\ Forwarded([category |-> c, datas |-> Shown(m)]) \in Queued
         /\ Carries(Forwarded([category |-> c, datas |-> Shown(m)]), meant)
<1> DEFINE d == Shown(m)
           q == Forwarded([category |-> c, datas |-> d])
           content == Deserialize(Schema[Protocol[c]], d)
<1>1. d \in Seq(Byte) /\ Len(d) <= MaxLength
  BY ShownBytes
<1>2. /\ m.dropped = 0 => content.value = m.values /\ content.missing = 0
      /\ m.dropped # 0 => content.missing \in 1..m.dropped
  BY ContentRead, Zenon
<1> HIDE DEF d
<1>3. /\ q \in Seq(Byte)
      /\ \A schema \in {Schema, OwnedSchema} : Understood(q, schema) =
           [category |-> c, values |-> content.value, missing |-> content.missing]
  BY <1>1, ForwardedRead
<1> HIDE DEF q, content
<1>4. ASSUME NEW schema \in {Schema, OwnedSchema}
      PROVE  Understood(q, schema).category \in U16 /\ Fits(Understood(q, schema), meant)
  <2> DEFINE g == Understood(q, schema)
  <2>1. g.category = c /\ g.values = content.value /\ g.missing = content.missing
    BY <1>3
  <2> HIDE DEF g
  <2>2. g.category = meant.category
    BY <2>1
  <2>3. meant.dropped = 0 => g.values = meant.values
    BY <1>2, <2>1
  <2>4. g.missing \in (IF meant.dropped = 0 THEN {0} ELSE 1..meant.dropped)
    BY <1>2, <2>1
  <2> QED BY <2>1, <2>2, <2>3, <2>4 DEF Fits, g
<1>5. q \in Queued /\ Carries(q, meant)
  BY <1>3, <1>4, Zenon DEF Queued, Carries
<1> QED BY <1>5 DEF q, d

\* The set of the first n + 1 that are Chosen, from that of the first n.
LEMMA CountOneMore ==
  ASSUME NEW n \in Nat, NEW T, NEW T2, IsFiniteSet(T), n + 1 \notin T,
         T2 = T \/ T2 = T \cup {n + 1}
  PROVE  IsFiniteSet(T2) /\ Cardinality(T2) = Cardinality(T) + (IF T2 = T THEN 0 ELSE 1)
<1>1. Cardinality(T) \in Nat
  BY FS_CardinalityType
<1>2. CASE T2 = T
  BY <1>1, <1>2
<1>3. CASE T2 = T \cup {n + 1}
  <2>1. T2 # T
    BY <1>3
  <2> QED BY <1>3, <2>1, FS_AddElement
<1> QED BY <1>2, <1>3


-----------------------------------------------------------------------------
(* The steps.                                                              *)

LEMMA ReadSoFar ==
  /\ Upward => /\ Len(sentUp) \in Nat /\ ReadByServer \in Nat /\ ReadByServer <= Len(sentUp)
               /\ DOMAIN sentUp = 1..Len(sentUp)
  /\ Downward => /\ Len(sentDown) \in Nat /\ ReadByClient \in Nat /\ ReadByClient <= Len(sentDown)
                 /\ DOMAIN sentDown = 1..Len(sentDown)
<1>1. ASSUME NEW S, NEW sent \in Seq(S), NEW frames \in Seq(Seq(Byte)), InFlight(frames, sent)
      PROVE  /\ Len(sent) \in Nat /\ Len(sent) - Len(frames) \in Nat
             /\ Len(sent) - Len(frames) <= Len(sent) /\ DOMAIN sent = 1..Len(sent)
  <2>1. Len(sent) \in Nat /\ Len(frames) \in Nat /\ DOMAIN sent = 1..Len(sent)
    BY LenProperties
  <2>2. Len(frames) <= Len(sent)
    BY <1>1 DEF InFlight
  <2> QED BY <2>1, <2>2
<1> QED BY <1>1 DEF Upward, Downward, ReadByServer, ReadByClient

LEMMA UpSendKeeps ==
  ASSUME Upward, ServerSide, ServerHeard, Answered, NEW m \in UpSent,
         up' = Append(up, OnWire(m)), sentUp' = Append(sentUp, m),
         UNCHANGED <<usePing, proxyPing, server, id, serverQueue, serverGot, sentDown, downOpen>>
  PROVE  Upward' /\ ServerSide' /\ ServerHeard' /\ Answered'
<1>1. /\ sentUp' \in Seq(UpSent) /\ up' \in Seq(Seq(Byte)) /\ InFlight(up', sentUp')
      /\ Len(sentUp') = Len(sentUp) + 1
      /\ Len(sentUp') - Len(up') = Len(sentUp) - Len(up)
      /\ \A i \in 1..Len(sentUp) : sentUp'[i] = sentUp[i]
  <2>1. sentUp \in Seq(UpSent) /\ up \in Seq(Seq(Byte)) /\ InFlight(up, sentUp)
    BY DEF Upward
  <2>2. OnWire(m) \in Seq(Byte)
    BY FramesAreBytes
  <2> QED BY <2>1, <2>2, Sends
<1>2. /\ ReadByServer' = ReadByServer /\ ReadByServer \in Nat /\ ReadByServer <= Len(sentUp)
      /\ Len(sentUp) \in Nat /\ DOMAIN sentUp = 1..Len(sentUp)
      /\ DOMAIN sentUp' = 1..Len(sentUp')
  <2>1. DOMAIN sentUp' = 1..Len(sentUp')
    BY <1>1, LenProperties
  <2> QED BY <1>1, <2>1, ReadSoFar DEF ReadByServer
<1>3. Upward'
  BY <1>1 DEF Upward
<1>4. \A i \in 1..ReadByServer : sentUp'[i] = sentUp[i] /\ sentUp'[1] = sentUp[1]
  <2> SUFFICES ASSUME NEW i \in 1..ReadByServer
               PROVE  sentUp'[i] = sentUp[i] /\ sentUp'[1] = sentUp[1]
    OBVIOUS
  <2>1. i \in 1..Len(sentUp) /\ 1 \in 1..Len(sentUp)
    BY <1>2
  <2> QED BY <1>1, <2>1
<1>5. server # "first" => sentUp'[1] = sentUp[1]
  <2>1. server # "first" => 1 \in 1..ReadByServer
    BY <1>2 DEF ServerSide
  <2> QED BY <1>4, <2>1
<1>6. Named' <=> Named
  BY <1>5 DEF Named, Names
<1>7. ServerSide'
  <2>1. (server = "first" <=> ReadByServer = 0)'
    BY <1>2 DEF ServerSide
  <2>2. (server = "on" => Names(sentUp[1]))'
    BY <1>5 DEF ServerSide, Names
  <2>3. (id = IF Named THEN sentUp[1].values[1] ELSE <<>>)'
    <3>1. Named => sentUp'[1] = sentUp[1]
      BY <1>5 DEF Named
    <3> QED BY <1>6, <3>1, Zenon DEF ServerSide
  <2> QED BY <2>1, <2>2, <2>3 DEF ServerSide
<1>8. ForServerApp' = ForServerApp
  BY <1>2, <1>4 DEF ForServerApp, Names, IsAnswered
<1>9. \A i \in ForServerApp : MeantUp'[i] = MeantUp[i]
  <2> SUFFICES ASSUME NEW i \in ForServerApp PROVE MeantUp'[i] = MeantUp[i]
    OBVIOUS
  <2>1. i \in 1..ReadByServer
    BY DEF ForServerApp
  <2>2. i \in DOMAIN sentUp /\ i \in DOMAIN sentUp' /\ sentUp'[i] = sentUp[i]
    BY <1>1, <1>2, <1>4, <2>1
  <2> QED BY <2>2 DEF MeantUp
<1>10. ServerHeard'
  <2>1. Track(serverGot, serverQueue, ForServerApp, MeantUp')
    BY <1>9, TrackSame DEF ServerHeard
  <2>2. Track(serverGot, serverQueue, ForServerApp, MeantUp)'
    BY <1>8, <2>1
  <2> QED BY <2>2 DEF ServerHeard
<1>11. PingsOf(id)' = PingsOf(id) /\ Pongs' = Pongs
  BY <1>2, <1>4 DEF PingsOf, Pongs, IsAnswered
<1>12. Answered'
  BY <1>6, <1>11 DEF Answered
<1> QED BY <1>3, <1>7, <1>10, <1>12

LEMMA PongsAreFinite ==
  ASSUME Downward
  PROVE  /\ IsFiniteSet({i \in DOMAIN sentDown : sentDown[i] = PongSent})
         /\ Pongs \in Nat
<1> DEFINE T == {i \in DOMAIN sentDown : sentDown[i] = PongSent}
<1>1. T \subseteq 1..Len(sentDown) /\ Len(sentDown) \in Int
  BY ReadSoFar
<1>2. IsFiniteSet(1..Len(sentDown))
  BY <1>1, FS_Interval
<1> HIDE DEF T
<1>3. IsFiniteSet(T)
  BY <1>1, <1>2, FS_Subset
<1>4. Cardinality(T) \in Nat
  BY <1>3, FS_CardinalityType
<1> QED BY <1>3, <1>4 DEF T, Pongs

LEMMA DownSendKeeps ==
  ASSUME Settings, Downward, ClientHeard, NEW m \in DownSent, SendDown(OnWire(m), m),
         UNCHANGED <<clientQueue, clientGot>>
  PROVE  /\ Downward' /\ ClientHeard' /\ downOpen' \in BOOLEAN /\ Pongs \in Nat
         /\ downOpen => Pongs' = Pongs + (IF m = PongSent THEN 1 ELSE 0)
         /\ ~downOpen => Pongs' = Pongs /\ ~downOpen'
<1>1. CASE ~downOpen
  <2>1. down' = down /\ sentDown' = sentDown /\ downOpen' = downOpen
    BY <1>1 DEF SendDown, downward
  <2>2. Downward'
    BY <2>1 DEF Downward
  <2>3. ForClientApp' = ForClientApp
    BY <2>1 DEF ForClientApp, ReadByClient
  <2>4. ClientHeard'
    BY <2>1, <2>3 DEF ClientHeard
  <2>5. Pongs' = Pongs
    BY <2>1 DEF Pongs
  <2> QED BY <1>1, <2>1, <2>2, <2>4, <2>5, PongsAreFinite DEF Settings
<1>2. CASE downOpen
  <2>1. down' = Append(down, OnWire(m)) /\ sentDown' = Append(sentDown, m) /\ downOpen' \in BOOLEAN
    BY <1>2 DEF SendDown, GoesOn
  <2>2. /\ sentDown' \in Seq(DownSent) /\ down' \in Seq(Seq(Byte)) /\ InFlight(down', sentDown')
        /\ Len(sentDown') = Len(sentDown) + 1
        /\ Len(sentDown') - Len(down') = Len(sentDown) - Len(down)
        /\ \A i \in 1..Len(sentDown) : sentDown'[i] = sentDown[i]
        /\ sentDown'[Len(sentDown) + 1] = m
    <3>1. sentDown \in Seq(DownSent) /\ down \in Seq(Seq(Byte)) /\ InFlight(down, sentDown)
      BY DEF Downward
    <3>2. OnWire(m) \in Seq(Byte)
      BY FramesAreBytes
    <3> QED BY <2>1, <3>1, <3>2, Sends
  <2>3. /\ ReadByClient' = ReadByClient /\ ReadByClient \in Nat /\ ReadByClient <= Len(sentDown)
        /\ Len(sentDown) \in Nat /\ DOMAIN sentDown = 1..Len(sentDown)
        /\ DOMAIN sentDown' = 1..Len(sentDown')
    <3>1. DOMAIN sentDown' = 1..Len(sentDown')
      BY <2>2, LenProperties
    <3> QED BY <2>2, <3>1, ReadSoFar DEF ReadByClient
  <2>4. \A i \in 1..ReadByClient : sentDown'[i] = sentDown[i]
    <3> SUFFICES ASSUME NEW i \in 1..ReadByClient PROVE sentDown'[i] = sentDown[i]
      OBVIOUS
    <3>1. i \in 1..Len(sentDown)
      BY <2>3
    <3> QED BY <2>2, <3>1
  <2>5. Downward'
    BY <2>2 DEF Downward
  <2>6. ForClientApp' = ForClientApp
    BY <2>3, <2>4 DEF ForClientApp
  <2>7. ClientHeard'
    <3>1. \A i \in ForClientApp : sentDown'[i] = sentDown[i]
      BY <2>4 DEF ForClientApp
    <3>2. Track(clientGot, clientQueue, ForClientApp, sentDown')
      BY <3>1, TrackSame DEF ClientHeard
    <3> QED BY <2>6, <3>2 DEF ClientHeard
  <2>8. Pongs \in Nat /\ Pongs' = Pongs + (IF m = PongSent THEN 1 ELSE 0)
    <3> DEFINE n == Len(sentDown)
               T == {i \in DOMAIN sentDown : sentDown[i] = PongSent}
               T2 == {i \in DOMAIN sentDown' : sentDown'[i] = PongSent}
    <3>2. T2 = IF m = PongSent THEN T \cup {n + 1} ELSE T
      <4>1. DOMAIN sentDown' = DOMAIN sentDown \cup {n + 1}
        BY <2>2, <2>3
      <4>2. /\ sentDown'[n + 1] = m
            /\ \A i \in DOMAIN sentDown : sentDown'[i] = sentDown[i]
        BY <2>2, <2>3
      <4> HIDE DEF n
      <4> QED BY <4>1, <4>2, Zenon
    <3>3. IsFiniteSet(T) /\ Cardinality(T) \in Nat
      BY PongsAreFinite, FS_CardinalityType
    <3>4. n \in Nat /\ n + 1 \notin T /\ (T2 = T \/ T2 = T \cup {n + 1})
      BY <2>3, <3>2
    <3>5. m = PongSent <=> T2 # T
      <4> HIDE DEF n, T2
      <4>1. n + 1 \notin T
        BY <3>4
      <4> HIDE DEF T
      <4> QED BY <3>2, <4>1
    <3> HIDE DEF n, T, T2
    <3>6. Cardinality(T2) = Cardinality(T) + (IF T2 = T THEN 0 ELSE 1)
      BY <3>3, <3>4, CountOneMore
    <3>7. Pongs = Cardinality(T) /\ Pongs' = Cardinality(T2)
      BY DEF Pongs, T, T2
    <3> QED BY <3>3, <3>5, <3>6, <3>7
  <2> QED BY <1>2, <2>1, <2>5, <2>7, <2>8
<1> QED BY <1>1, <1>2

\* The client's reader takes the next frame.
LEMMA ClientTakes ==
  ASSUME Downward, down # <<>>, down' = Tail(down), UNCHANGED sentDown,
         NEW k, k = ReadByClient + 1
  PROVE  /\ Downward' /\ k \in Nat /\ ReadByClient' = k
         /\ sentDown[k] \in DownSent /\ Head(down) = OnWire(sentDown[k])
         /\ k \notin ForClientApp /\ \A i \in ForClientApp : i \in Nat /\ i < k
         /\ ForClientApp' =
              IF /\ sentDown[k].category \notin {Category.Pong, Category.Disconnect}
                 /\ HasCategory(sentDown[k])
              THEN ForClientApp \cup {k} ELSE ForClientApp
<1>1. sentDown \in Seq(DownSent) /\ down \in Seq(Seq(Byte)) /\ InFlight(down, sentDown)
  BY DEF Downward
<1>2. /\ k \in 1..Len(sentDown) /\ k \in Nat /\ sentDown[k] \in DownSent
      /\ Head(down) = OnWire(sentDown[k])
      /\ Tail(down) \in Seq(Seq(Byte)) /\ InFlight(Tail(down), sentDown)
      /\ Len(sentDown) - Len(Tail(down)) = k
  <2>1. k = Len(sentDown) - Len(down) + 1
    BY DEF ReadByClient
  <2> QED BY <1>1, <2>1, Reads
<1>3. Downward'
  BY <1>1, <1>2 DEF Downward
<1>4. ReadByClient' = k /\ ReadByClient \in Nat
  BY <1>2, ReadSoFar DEF ReadByClient
<1>5. 1..k = (1..ReadByClient) \cup {k} /\ k \notin 1..ReadByClient
      /\ \A i \in 1..ReadByClient : i \in Nat /\ i < k
  BY <1>2, <1>4
<1>6. k \notin ForClientApp /\ \A i \in ForClientApp : i \in Nat /\ i < k
  BY <1>5 DEF ForClientApp
<1>7. ForClientApp' = {i \in (1..ReadByClient) \cup {k} :
                         /\ sentDown[i].category \notin {Category.Pong, Category.Disconnect}
                         /\ HasCategory(sentDown[i])}
  BY <1>4, <1>5 DEF ForClientApp
<1>8. ForClientApp' =
        IF /\ sentDown[k].category \notin {Category.Pong, Category.Disconnect}
           /\ HasCategory(sentDown[k])
        THEN ForClientApp \cup {k} ELSE ForClientApp
  BY <1>7, Zenon DEF ForClientApp
<1> QED BY <1>2, <1>3, <1>4, <1>6, <1>8

LEMMA ClientReadKeeps ==
  ASSUME Settings, Downward, ClientHeard, ClientReads
  PROVE  Downward' /\ ClientHeard'
<1> DEFINE k == ReadByClient + 1
           m == sentDown[k]
           data == GetDataSchema(Head(down))
           heard == /\ m.category \notin {Category.Pong, Category.Disconnect}
                    /\ HasCategory(m)
<1>1. /\ down # <<>> /\ down' = Tail(down) /\ sentDown' = sentDown /\ clientGot' = clientGot
  BY DEF ClientReads
<1>2. /\ Downward' /\ k \in Nat /\ ReadByClient' = k
      /\ m \in DownSent /\ Head(down) = OnWire(m)
      /\ \A i \in ForClientApp : i \in Nat /\ i < k
      /\ ForClientApp' = IF heard THEN ForClientApp \cup {k} ELSE ForClientApp
  BY <1>1, ClientTakes
<1>3. CASE heard
  <2>1. IsMessage(m) /\ HasCategory(m) /\ m.category \in U16
    BY <1>2, <1>3, SentMessages, PongParts
  <2>2. data = [category |-> m.category, datas |-> Shown(m)] /\ data # NoData
    BY <1>2, <2>1, RecordsAreNotEmpty, FrameRead
  <2>3. clientQueue' = Append(clientQueue, Forwarded(data))
    <3>1. ~(data = NoData \/ data.category = Category.Pong) /\ data.category # Category.Disconnect
      <4>1. data.category = m.category
        BY <2>2
      <4> QED BY <1>3, <2>2, <4>1
    <3> QED BY <3>1 DEF ClientReads
  <2> DEFINE q == Forwarded(data)
  <2>4. q \in Queued /\ Carries(q, m)
    BY <2>1, <2>2, ForwardedCarries
  <2> HIDE DEF q, m, data
  <2>5. Track(clientGot, Append(clientQueue, q), ForClientApp \cup {k}, sentDown)
    <3>1. Carries(q, sentDown[k])
      BY <2>4 DEF m
    <3> QED BY <1>2, <2>4, <3>1, TrackAppend DEF ClientHeard
  <2>6. clientQueue' \in Seq(Queued)
    BY <2>3, <2>4, AppendProperties DEF ClientHeard, q
  <2>7. ForClientApp' = ForClientApp \cup {k}
    BY <1>2, <1>3
  <2> QED BY <1>1, <1>2, <2>3, <2>5, <2>6, <2>7 DEF ClientHeard, q
<1>4. CASE ~heard
  <2>1. data = NoData \/ data.category = Category.Pong \/ data.category = Category.Disconnect
    <3>1. CASE m = PongSent
      <4>1. Head(down) = MakePong
        BY <1>2, <3>1, SentMessages, LibraryFrames
      <4> QED BY <4>1, PongRead
    <3>2. CASE m # PongSent
      <4>1. IsMessage(m) /\ Head(down) = Frame(m)
        BY <1>2, <3>2, SentMessages, RecordsAreNotEmpty
      <4>2. CASE HasCategory(m)
        <5>1. data.category = m.category
          BY <4>1, <4>2, FrameRead
        <5> QED BY <1>4, <3>2, <4>2, <5>1
      <4>3. CASE ~HasCategory(m)
        BY <4>1, <4>3, FrameRead
      <4> QED BY <4>2, <4>3
    <3> QED BY <3>1, <3>2
  <2>2. clientQueue' = clientQueue
    BY <2>1 DEF ClientReads
  <2>3. ForClientApp' = ForClientApp
    BY <1>2, <1>4
  <2> QED BY <1>1, <1>2, <2>2, <2>3 DEF ClientHeard
<1> QED BY <1>3, <1>4

LEMMA DownSame ==
  ASSUME Downward, ClientHeard, UNCHANGED <<down, sentDown, clientQueue, clientGot>>
  PROVE  Downward' /\ ClientHeard' /\ Pongs' = Pongs
<1>1. Downward' /\ Pongs' = Pongs
  BY DEF Downward, Pongs
<1>2. ForClientApp' = ForClientApp
  BY DEF ForClientApp, ReadByClient
<1> QED BY <1>1, <1>2 DEF ClientHeard

LEMMA UpSame ==
  ASSUME Upward, ServerSide, ServerHeard,
         UNCHANGED <<up, sentUp, server, id, usePing, proxyPing, serverQueue, serverGot>>
  PROVE  /\ Upward' /\ ServerSide' /\ ServerHeard' /\ (Named' <=> Named)
         /\ PingsOf(id)' = PingsOf(id)
<1>1. Upward' /\ ReadByServer' = ReadByServer
  BY DEF Upward, ReadByServer
<1>2. Named' <=> Named
  BY DEF Named, Names
<1>3. ServerSide'
  BY <1>1, <1>2 DEF ServerSide, Names
<1>4. ForServerApp' = ForServerApp /\ MeantUp' = MeantUp
  BY <1>1 DEF ForServerApp, MeantUp, Names, IsAnswered
<1>5. ServerHeard'
  BY <1>4 DEF ServerHeard
<1>6. PingsOf(id)' = PingsOf(id)
  BY <1>1 DEF PingsOf, IsAnswered
<1> QED BY <1>1, <1>2, <1>3, <1>5, <1>6

\* The server's reader takes the next frame.
LEMMA ServerTakes ==
  ASSUME Upward, up # <<>>, up' = Tail(up), UNCHANGED <<sentUp, usePing, proxyPing>>,
         NEW k, k = ReadByServer + 1
  PROVE  /\ Upward' /\ k \in 1..Len(sentUp) /\ k \in Nat /\ ReadByServer' = k
         /\ sentUp[k] \in UpSent /\ IsMessage(sentUp[k]) /\ Head(up) = Frame(sentUp[k])
         /\ k \notin ForServerApp /\ \A i \in ForServerApp : i \in Nat /\ i < k
         /\ ForServerApp' =
              IF /\ Names(sentUp[1]) /\ ~IsAnswered(sentUp[k])
                 /\ k = 1 \/ (HasCategory(sentUp[k]) /\ sentUp[k].category # Category.Disconnect)
              THEN ForServerApp \cup {k} ELSE ForServerApp
         /\ MeantUp' = MeantUp
         /\ MeantUp[k].category = IF k = 1 /\ proxyPing > 0 THEN proxyPing ELSE sentUp[k].category
         /\ MeantUp[k].values = sentUp[k].values /\ MeantUp[k].dropped = sentUp[k].dropped
<1>1. sentUp \in Seq(UpSent) /\ up \in Seq(Seq(Byte)) /\ InFlight(up, sentUp)
  BY DEF Upward
<1>2. /\ k \in 1..Len(sentUp) /\ k \in Nat /\ sentUp[k] \in UpSent
      /\ Head(up) = OnWire(sentUp[k])
      /\ Tail(up) \in Seq(Seq(Byte)) /\ InFlight(Tail(up), sentUp)
      /\ Len(sentUp) - Len(Tail(up)) = k
  <2>1. k = Len(sentUp) - Len(up) + 1
    BY DEF ReadByServer
  <2> QED BY <1>1, <2>1, Reads
<1>3. Upward'
  BY <1>1, <1>2 DEF Upward
<1>4. ReadByServer' = k /\ ReadByServer \in Nat /\ DOMAIN sentUp = 1..Len(sentUp)
  BY <1>2, ReadSoFar DEF ReadByServer
<1>5. 1..k = (1..ReadByServer) \cup {k} /\ k \notin 1..ReadByServer
      /\ \A i \in 1..ReadByServer : i \in Nat /\ i < k
  BY <1>2, <1>4
<1>6. k \notin ForServerApp /\ \A i \in ForServerApp : i \in Nat /\ i < k
  BY <1>5 DEF ForServerApp
<1>7. ForServerApp' = {i \in (1..ReadByServer) \cup {k} :
                         /\ Names(sentUp[1]) /\ ~IsAnswered(sentUp[i])
                         /\ i = 1 \/ (/\ HasCategory(sentUp[i])
                                      /\ sentUp[i].category # Category.Disconnect)}
  BY <1>4, <1>5 DEF ForServerApp, Names, IsAnswered
<1>8. ForServerApp' =
        IF /\ Names(sentUp[1]) /\ ~IsAnswered(sentUp[k])
           /\ k = 1 \/ (HasCategory(sentUp[k]) /\ sentUp[k].category # Category.Disconnect)
        THEN ForServerApp \cup {k} ELSE ForServerApp
  BY <1>7, Zenon DEF ForServerApp
<1>9. IsMessage(sentUp[k]) /\ Head(up) = Frame(sentUp[k])
  BY <1>2, FramesAreBytes
<1>10. MeantUp' = MeantUp
  BY DEF MeantUp
<1>11. /\ MeantUp[k].category = IF k = 1 /\ proxyPing > 0 THEN proxyPing ELSE sentUp[k].category
       /\ MeantUp[k].values = sentUp[k].values /\ MeantUp[k].dropped = sentUp[k].dropped
  <2> DEFINE m == sentUp[k]
             c == IF k = 1 /\ proxyPing > 0 THEN proxyPing ELSE m.category
  <2>1. DOMAIN m = {"category", "values", "dropped"}
    BY <1>9 DEF IsMessage
  <2>2. MeantUp[k] = [m EXCEPT !.category = c]
    BY <1>2, <1>4 DEF MeantUp
  <2> HIDE DEF c, m
  <2>3. /\ MeantUp[k].category = c /\ MeantUp[k].values = m.values
        /\ MeantUp[k].dropped = m.dropped
    BY <2>1, <2>2
  <2> QED BY <2>3 DEF c, m
<1> QED BY <1>2, <1>3, <1>4, <1>6, <1>8, <1>9, <1>10, <1>11

LEMMA PingsAreFinite ==
  ASSUME Upward
  PROVE  /\ IsFiniteSet({i \in 1..ReadByServer : IsAnswered(sentUp[i]) /\ sentUp[i].values[1] = id})
         /\ PingsOf(id) \in Nat
<1> DEFINE T == {i \in 1..ReadByServer : IsAnswered(sentUp[i]) /\ sentUp[i].values[1] = id}
<1>1. T \subseteq 1..ReadByServer /\ ReadByServer \in Int
  BY ReadSoFar
<1>2. IsFiniteSet(1..ReadByServer)
  BY <1>1, FS_Interval
<1> HIDE DEF T
<1>3. IsFiniteSet(T)
  BY <1>1, <1>2, FS_Subset
<1>4. Cardinality(T) \in Nat
  BY <1>3, FS_CardinalityType
<1> QED BY <1>3, <1>4 DEF T, PingsOf

LEMMA PingsCounted ==
  ASSUME Upward, UNCHANGED <<sentUp, usePing, id>>, NEW k, k = ReadByServer + 1, ReadByServer' = k
  PROVE  PingsOf(id)' =
           PingsOf(id) + (IF IsAnswered(sentUp[k]) /\ sentUp[k].values[1] = id THEN 1 ELSE 0)
<1> DEFINE n == ReadByServer
           T == {i \in 1..n : IsAnswered(sentUp[i]) /\ sentUp[i].values[1] = id}
           T2 == {i \in 1..k : IsAnswered(sentUp[i]) /\ sentUp[i].values[1] = id}
           counts == IsAnswered(sentUp[k]) /\ sentUp[k].values[1] = id
<1>1. n \in Nat /\ k = n + 1
  BY ReadSoFar
<1>2. 1..k = (1..n) \cup {k} /\ k \notin 1..n
  <2> HIDE DEF n
  <2> QED BY <1>1
<1>3. k \notin T /\ T2 = IF counts THEN T \cup {k} ELSE T
  BY <1>2, Zenon
<1>4. IsFiniteSet(T) /\ Cardinality(T) \in Nat
  BY PingsAreFinite, FS_CardinalityType
<1>5. PingsOf(id) = Cardinality(T) /\ PingsOf(id)' = Cardinality(T2)
  BY DEF PingsOf, IsAnswered
<1> HIDE DEF n, T, T2, counts
<1>6. counts <=> T2 # T
  BY <1>3
<1>7. Cardinality(T2) = Cardinality(T) + (IF T2 = T THEN 0 ELSE 1)
  BY <1>1, <1>3, <1>4, CountOneMore
<1>8. PingsOf(id)' = PingsOf(id) + (IF counts THEN 1 ELSE 0)
  BY <1>5, <1>6, <1>7
<1> QED BY <1>8 DEF counts

\* What a reader makes of a message under a category that stands for pings.
LEMMA PingRead ==
  ASSUME Settings, NEW m, IsMessage(m), HasCategory(m), m.category \in {Category.Ping, proxyPing}
  PROVE  /\ Protocol[m.category] = "Ping"
         /\ Decodes("Ping", Shown(m)) <=> m.dropped = 0
         /\ m.dropped = 0 => Deserialize(PingFields, Shown(m)).value[1] = m.values[1]
         /\ m.values[1] \in Seq(Byte)
<1>1. /\ m.category \in U16 /\ m.dropped \in 0..Len(Payload(m)) + 2
      /\ Schema[Protocol[m.category]] \in Fields
      /\ IsRecord(Schema[Protocol[m.category]], m.values) /\ Len(Payload(m)) \in Nat
  BY MessageParts
<1>2. Protocol[m.category] = "Ping"
  <2>1. m.category \in Nat
    BY <1>1, Naturals16
  <2>2. m.category # -1
    BY <2>1
  <2>3. m.category = Category.Ping \/ m.category = Proxied
    BY <2>2 DEF Settings
  <2> QED BY <2>3, ProtocolAssumption
<1>3. Schema[Protocol[m.category]] = PingFields
  BY <1>2, Schemas
<1>4. LET content == Deserialize(PingFields, Shown(m))
      IN /\ m.dropped = 0 => content.value = m.values /\ content.missing = 0
         /\ m.dropped # 0 => content.missing \in 1..m.dropped
  <2> HIDE DEF HasCategory
  <2> QED BY <1>3, ContentRead
<1>5. Decodes("Ping", Shown(m)) <=> m.dropped = 0
  <2>1. Decodes("Ping", Shown(m)) <=> Deserialize(PingFields, Shown(m)).missing = 0
    BY Schemas DEF Decodes
  <2> DEFINE missing == Deserialize(PingFields, Shown(m)).missing
  <2>2. /\ m.dropped = 0 => missing = 0
        /\ m.dropped # 0 => missing \in 1..m.dropped
    BY <1>4
  <2> HIDE DEF missing
  <2>3. missing = 0 <=> m.dropped = 0
    BY <1>1, <2>2
  <2> QED BY <2>1, <2>3 DEF missing
<1>6. m.values[1] \in Seq(Byte)
  <2>1. m.values[1] \in FieldValues[PingFields[1]]
    BY <1>1, <1>3, RecordBytes
  <2>2. PingFields[1] = "str"
    BY DEF PingFields
  <2> QED BY <2>1, <2>2, ValuesOf
<1> QED BY <1>2, <1>4, <1>5, <1>6

LEMMA ServerNamesKeeps ==
  ASSUME IInv, ServerNames
  PROVE  Upward' /\ Downward' /\ ServerSide' /\ ServerHeard' /\ ClientHeard' /\ Answered'
           /\ downOpen' \in BOOLEAN /\ server' \in {"on", "closed"}
<1> DEFINE m == sentUp[1]
           data == GetDataSchema(Head(up))
           guard == /\ data # NoData /\ data.category \in {Category.Ping, proxyPing}
                    /\ Decodes("Ping", data.datas)
<1>1. Settings /\ Upward /\ Downward /\ ServerSide /\ ServerHeard /\ ClientHeard /\ Answered
  BY DEF IInv
<1>2. /\ server = "first" /\ up # <<>> /\ up' = Tail(up)
      /\ sentUp' = sentUp /\ usePing' = usePing /\ proxyPing' = proxyPing
      /\ clientQueue' = clientQueue /\ clientGot' = clientGot /\ serverGot' = serverGot
  BY DEF ServerNames, options
<1>3. 1 = ReadByServer + 1 /\ sentDown = <<>> /\ downOpen /\ id = <<>>
  BY <1>1, <1>2, ReadSoFar DEF ServerSide, Answered, Named
<1>4. /\ Upward' /\ ReadByServer' = 1
      /\ IsMessage(m) /\ Head(up) = Frame(m)
      /\ \A i \in ForServerApp : i \in Nat /\ i < 1
      /\ ForServerApp' = IF Names(m) /\ ~IsAnswered(m) THEN ForServerApp \cup {1} ELSE ForServerApp
      /\ MeantUp' = MeantUp
      /\ MeantUp[1].category = IF proxyPing > 0 THEN proxyPing ELSE m.category
      /\ MeantUp[1].values = m.values /\ MeantUp[1].dropped = m.dropped
  BY <1>1, <1>2, <1>3, ServerTakes
<1>5. HasCategory(m) => data = [category |-> m.category, datas |-> Shown(m)] /\ data # NoData
  BY <1>4, FrameRead
<1>6. ~HasCategory(m) => data = NoData
  BY <1>4, FrameRead
<1>7. Names(m) => HasCategory(m)
  BY DEF Names, HasCategory
<1>8. guard <=> Names(m)
  <2>1. CASE HasCategory(m) /\ m.category \in {Category.Ping, proxyPing}
    <3>1. Decodes("Ping", Shown(m)) <=> m.dropped = 0
      BY <1>1, <1>4, <2>1, PingRead
    <3>2. data # NoData /\ data.category = m.category /\ data.datas = Shown(m)
      BY <1>5, <2>1
    <3> HIDE DEF m, data
    <3> QED BY <2>1, <3>1, <3>2 DEF Names
  <2>2. CASE HasCategory(m) /\ m.category \notin {Category.Ping, proxyPing}
    <3>1. data.category = m.category
      BY <1>5, <2>2
    <3> HIDE DEF m, data
    <3> QED BY <2>2, <3>1 DEF Names
  <2>3. CASE ~HasCategory(m)
    BY <1>6, <1>7, <2>3
  <2> QED BY <2>1, <2>2, <2>3
<1>9. Pongs = 0 /\ Named' = Names(m)' /\ (Names(m)' <=> Names(m)) /\ m' = m
  <2>1. {i \in DOMAIN sentDown : sentDown[i] = PongSent} = {}
    BY <1>3
  <2>2. Pongs = 0
    BY <2>1, FS_EmptySet DEF Pongs
  <2>3. server' # "first"
    BY DEF ServerNames, Close
  <2> QED BY <1>2, <2>2, <2>3 DEF Named, Names
<1>10. CASE Names(m)
  <2>1. /\ server' = "on" /\ id' = PingOf(data).value[1]
        /\ IF usePing /\ data.category = Category.Ping
           THEN Pong /\ UNCHANGED serverQueue
           ELSE /\ serverQueue' = Append(serverQueue, Forwarded(AsProxied(data)))
                /\ UNCHANGED downward
    <3>1. guard
      BY <1>8, <1>10
    <3> QED BY <3>1 DEF ServerNames
  <2>2. data = [category |-> m.category, datas |-> Shown(m)] /\ HasCategory(m) /\ m.dropped = 0
        /\ m.category \in {Category.Ping, proxyPing}
    BY <1>5, <1>7, <1>10 DEF Names
  <2>3. id' = m.values[1] /\ Protocol[m.category] = "Ping"
    <3>1. Deserialize(PingFields, Shown(m)).value[1] = m.values[1] /\ Protocol[m.category] = "Ping"
      BY <1>1, <1>4, <2>2, PingRead
    <3>2. data.datas = Shown(m)
      BY <2>2
    <3> QED BY <2>1, <3>1, <3>2 DEF PingOf
  <2>4. ServerSide'
    BY <1>2, <1>4, <1>9, <1>10, <2>1, <2>3 DEF ServerSide
  <2>5. PingsOf(id)' = IF IsAnswered(m) THEN 1 ELSE 0
    <3> DEFINE T2 == {i \in {1} : IsAnswered(sentUp[i]) /\ sentUp[i].values[1] = m.values[1]}
    <3>1. PingsOf(id)' = Cardinality(T2)
      <4>1. 1..1 = {1}
        OBVIOUS
      <4> QED BY <1>2, <1>4, <2>3, <4>1 DEF PingsOf, IsAnswered
    <3>2. T2 = IF IsAnswered(m) THEN {1} ELSE {}
      BY Zenon
    <3>3. Cardinality({1}) = 1 /\ Cardinality({}) = 0
      BY FS_Singleton, FS_EmptySet
    <3> HIDE DEF T2, m
    <3> QED BY <3>1, <3>2, <3>3
  <2>6. CASE IsAnswered(m)
    <3>1. Pong /\ serverQueue' = serverQueue
      <4>1. usePing /\ data.category = Category.Ping
        BY <2>2, <2>6 DEF IsAnswered, CompletePing
      <4> QED BY <2>1, <4>1
    <3>2. SendDown(OnWire(PongSent), PongSent)
      BY <3>1, LibraryFrames DEF Pong
    <3>3. PongSent \in DownSent
      BY LibraryMessages, WholeParts
    <3>4. Downward' /\ ClientHeard' /\ downOpen' \in BOOLEAN /\ Pongs' = Pongs + 1
      BY <1>1, <1>2, <1>3, <3>2, <3>3, DownSendKeeps
    <3>5. ForServerApp' = ForServerApp
      BY <1>4, <2>6
    <3>6. ServerHeard'
      BY <1>1, <1>2, <1>4, <3>1, <3>5 DEF ServerHeard
    <3>7. Answered'
      <4>1. Pongs' = 1 /\ PingsOf(id)' = 1
        BY <1>9, <2>5, <2>6, <3>4
      <4> QED BY <2>1, <4>1 DEF Answered
    <3> QED BY <1>4, <2>1, <2>4, <3>4, <3>6, <3>7
  <2>7. CASE ~IsAnswered(m)
    <3> DEFINE q == Forwarded(AsProxied(data))
               c == IF proxyPing > 0 THEN proxyPing ELSE m.category
    <3>1. serverQueue' = Append(serverQueue, q) /\ UNCHANGED downward
      <4>1. ~(usePing /\ data.category = Category.Ping)
        BY <2>2, <2>7 DEF IsAnswered, CompletePing
      <4> QED BY <2>1, <4>1
    <3>2. AsProxied(data) = [category |-> c, datas |-> Shown(m)]
      BY <2>2 DEF AsProxied
    <3>3. c \in U16 /\ Protocol[c] = Protocol[m.category]
      <4>1. proxyPing > 0 => proxyPing = Proxied
        BY <1>1 DEF Settings
      <4>2. Proxied \in U16
        BY ProxiedType
      <4>3. m.category \in U16
        BY <1>4, MessageParts
      <4> QED BY <2>3, <4>1, <4>2, <4>3, ProtocolAssumption
    <3>4. q \in Queued /\ Carries(q, MeantUp[1])
      <4> HIDE DEF c, m, data, q
      <4>1. /\ MeantUp[1].category = c /\ MeantUp[1].values = m.values
            /\ MeantUp[1].dropped = m.dropped
        BY <1>4 DEF c
      <4> QED BY <1>4, <2>2, <3>2, <3>3, <4>1, ForwardedCarries DEF q
    <3> HIDE DEF q, c
    <3>5. Track(serverGot, Append(serverQueue, q), ForServerApp \cup {1}, MeantUp)
      BY <1>1, <1>4, <3>4, TrackAppend DEF ServerHeard
    <3>6. serverQueue' \in Seq(Queued)
      BY <1>1, <3>1, <3>4, AppendProperties DEF ServerHeard
    <3>7. ForServerApp' = ForServerApp \cup {1}
      BY <1>4, <1>10, <2>7
    <3>8. ServerHeard'
      BY <1>1, <1>2, <1>4, <3>1, <3>5, <3>6, <3>7 DEF ServerHeard
    <3>9. Downward' /\ ClientHeard' /\ Pongs' = Pongs /\ downOpen' = downOpen
      <4>1. UNCHANGED <<down, sentDown, clientQueue, clientGot>> /\ downOpen' = downOpen
        BY <1>2, <3>1 DEF downward
      <4> QED BY <1>1, <4>1, DownSame
    <3>10. Answered'
      <4>1. Pongs' = 0 /\ PingsOf(id)' = 0
        BY <1>9, <2>5, <2>7, <3>9
      <4> QED BY <2>1, <4>1 DEF Answered
    <3> QED BY <1>3, <1>4, <2>1, <2>4, <3>8, <3>9, <3>10
  <2> QED BY <2>6, <2>7
<1>11. CASE ~Names(m)
  <2>1. Close /\ id' = id /\ serverQueue' = serverQueue
    <3>1. ~guard
      BY <1>8, <1>11
    <3> QED BY <3>1 DEF ServerNames
  <2>2. server' = "closed"
        /\ SendDown(OnWire(Whole(Category.Disconnect, <<Address>>)), Whole(Category.Disconnect, <<Address>>))
    BY <2>1, LibraryFrames DEF Close
  <2>3. Whole(Category.Disconnect, <<Address>>) \in DownSent
    BY LibraryMessages
  <2>4. Downward' /\ ClientHeard' /\ downOpen' \in BOOLEAN
    BY <1>1, <1>2, <2>2, <2>3, DownSendKeeps
  <2>5. ServerSide'
    BY <1>2, <1>3, <1>4, <1>9, <1>11, <2>1, <2>2 DEF ServerSide
  <2>6. ServerHeard'
    BY <1>1, <1>2, <1>4, <1>11, <2>1 DEF ServerHeard
  <2>7. Answered'
    BY <1>9, <1>11, <2>2 DEF Answered
  <2> QED BY <1>4, <2>2, <2>4, <2>5, <2>6, <2>7
<1> QED BY <1>10, <1>11

LEMMA ServerReadsKeeps ==
  ASSUME IInv, ServerReads
  PROVE  Upward' /\ Downward' /\ ServerSide' /\ ServerHeard' /\ ClientHeard' /\ Answered'
           /\ downOpen' \in BOOLEAN /\ server' \in {"on", "closed"}
<1> DEFINE k == ReadByServer + 1
           m == sentUp[k]
           data == GetDataSchema(Head(up))
<1>1. Settings /\ Upward /\ Downward /\ ServerSide /\ ServerHeard /\ ClientHeard /\ Answered
  BY DEF IInv
<1>2. /\ server = "on" /\ up # <<>> /\ up' = Tail(up) /\ id' = id
      /\ sentUp' = sentUp /\ usePing' = usePing /\ proxyPing' = proxyPing
      /\ clientQueue' = clientQueue /\ clientGot' = clientGot /\ serverGot' = serverGot
  BY DEF ServerReads, options
<1>3. k \in Nat /\ k # 1 /\ Names(sentUp[1]) /\ Named /\ id = sentUp[1].values[1]
  <2>1. ReadByServer # 0 /\ Names(sentUp[1])
    BY <1>1, <1>2 DEF ServerSide
  <2> QED BY <1>1, <1>2, <2>1, ReadSoFar DEF ServerSide, Named
<1>4. /\ Upward' /\ ReadByServer' = k
      /\ IsMessage(m) /\ Head(up) = Frame(m)
      /\ \A i \in ForServerApp : i \in Nat /\ i < k
      /\ ForServerApp' = IF ~IsAnswered(m) /\ HasCategory(m) /\ m.category # Category.Disconnect
                         THEN ForServerApp \cup {k} ELSE ForServerApp
      /\ MeantUp' = MeantUp
      /\ MeantUp[k].category = m.category
      /\ MeantUp[k].values = m.values /\ MeantUp[k].dropped = m.dropped
  BY <1>1, <1>2, <1>3, ServerTakes
<1>5. HasCategory(m) => data = [category |-> m.category, datas |-> Shown(m)] /\ data # NoData
  BY <1>4, FrameRead
<1>6. ~HasCategory(m) => data = NoData
  BY <1>4, FrameRead
<1>7. Named' /\ Pongs \in Nat /\ PingsOf(id) \in Nat
      /\ Pongs <= PingsOf(id) /\ (downOpen => Pongs = PingsOf(id))
      /\ PingsOf(id)' = PingsOf(id) + (IF IsAnswered(m) /\ m.values[1] = id THEN 1 ELSE 0)
  <2>1. Named'
    <3>1. server' # "first"
      BY <1>2 DEF ServerReads, Close
    <3> QED BY <1>2, <1>3, <3>1 DEF Named, Names
  <2>2. PingsOf(id)' = PingsOf(id) + (IF IsAnswered(m) /\ m.values[1] = id THEN 1 ELSE 0)
    BY <1>1, <1>2, <1>4, PingsCounted
  <2> QED BY <1>1, <1>3, <2>1, <2>2, PongsAreFinite, PingsAreFinite DEF Answered
<1>8. ServerSide'
  <2>1. server' \in {"on", "closed"}
    BY <1>2 DEF ServerReads, Close
  <2>2. ReadByServer' # 0
    <3>1. ReadByServer \in Nat
      BY <1>1, ReadSoFar
    <3> QED BY <1>4, <3>1
  <2>3. Names(sentUp[1])'
    BY <1>2, <1>3 DEF Names
  <2> QED BY <1>2, <1>3, <1>7, <2>1, <2>2, <2>3 DEF ServerSide
<1>9. HasCategory(m) /\ m.category = Category.Ping =>
        /\ Decodes("Ping", data.datas) <=> m.dropped = 0
        /\ m.dropped = 0 => PingOf(data).value[1] = m.values[1]
  <2> SUFFICES ASSUME HasCategory(m), m.category = Category.Ping
               PROVE  /\ Decodes("Ping", data.datas) <=> m.dropped = 0
                      /\ m.dropped = 0 => PingOf(data).value[1] = m.values[1]
    OBVIOUS
  <2>1. data.datas = Shown(m)
    BY <1>5
  <2> QED BY <1>1, <1>4, <2>1, PingRead DEF PingOf
<1>10. CASE IsAnswered(m)
  <2>1. m.category = Category.Ping /\ m.dropped = 0 /\ usePing /\ HasCategory(m)
    BY <1>10 DEF IsAnswered, CompletePing, HasCategory
  <2>2. data # NoData /\ data.category = Category.Ping /\ Decodes("Ping", data.datas)
        /\ PingOf(data).value[1] = m.values[1]
    BY <1>5, <1>9, <2>1
  <2>3. Answer(data) /\ server' = server /\ serverQueue' = serverQueue
    <3>1. data.category # Category.Disconnect
      BY <2>2, Categories
    <3> QED BY <2>1, <2>2, <3>1 DEF ServerReads
  <2>4. ServerHeard'
    BY <1>1, <1>2, <1>4, <1>10, <2>3 DEF ServerHeard
  <2>5. CASE m.values[1] = id
    <3>1. SendDown(OnWire(PongSent), PongSent)
      BY <2>2, <2>3, <2>5, LibraryFrames DEF Answer, Pong
    <3>2. PongSent \in DownSent
      BY LibraryMessages, WholeParts
    <3>3. /\ Downward' /\ ClientHeard' /\ downOpen' \in BOOLEAN
          /\ downOpen => Pongs' = Pongs + 1
          /\ ~downOpen => Pongs' = Pongs /\ ~downOpen'
      BY <1>1, <1>2, <3>1, <3>2, DownSendKeeps
    <3>4. PingsOf(id)' = PingsOf(id) + 1
      BY <1>7, <1>10, <2>5
    <3>5. Pongs' <= PingsOf(id)' /\ (downOpen' => Pongs' = PingsOf(id)')
      BY <1>1, <1>7, <3>3, <3>4 DEF Settings
    <3>6. Answered'
      BY <1>2, <2>3, <3>5 DEF Answered
    <3> QED BY <1>2, <1>4, <1>8, <2>3, <2>4, <3>3, <3>6
  <2>6. CASE m.values[1] # id
    <3>1. UNCHANGED downward
      BY <2>2, <2>3, <2>6 DEF Answer
    <3>2. UNCHANGED <<down, sentDown, clientQueue, clientGot>> /\ downOpen' = downOpen
      BY <1>2, <3>1 DEF downward
    <3>3. Downward' /\ ClientHeard' /\ Pongs' = Pongs
      BY <1>1, <3>2, DownSame
    <3>4. PingsOf(id)' = PingsOf(id)
      BY <1>7, <2>6
    <3>5. Answered'
      BY <1>2, <1>7, <2>3, <3>2, <3>3, <3>4 DEF Answered
    <3> QED BY <1>1, <1>2, <1>4, <1>8, <2>3, <2>4, <3>2, <3>3, <3>5 DEF Settings
  <2> QED BY <2>5, <2>6
<1>11. CASE HasCategory(m) /\ m.category = Category.Disconnect
  <2>1. data # NoData /\ data.category = Category.Disconnect /\ data.category # Category.Ping
    BY <1>5, <1>11, Categories
  <2>2. Close /\ serverQueue' = serverQueue
    BY <2>1 DEF ServerReads
  <2>3. server' = "closed"
        /\ SendDown(OnWire(Whole(Category.Disconnect, <<Address>>)), Whole(Category.Disconnect, <<Address>>))
    BY <2>2, LibraryFrames DEF Close
  <2>4. Whole(Category.Disconnect, <<Address>>) \in DownSent
        /\ Whole(Category.Disconnect, <<Address>>) # PongSent
    BY LibraryMessages, WholeParts, PongParts, Categories
  <2>5. /\ Downward' /\ ClientHeard' /\ downOpen' \in BOOLEAN
        /\ downOpen => Pongs' = Pongs
        /\ ~downOpen => Pongs' = Pongs /\ ~downOpen'
    BY <1>1, <1>2, <1>7, <2>3, <2>4, DownSendKeeps
  <2>6. ServerHeard'
    BY <1>1, <1>2, <1>4, <1>11, <2>2 DEF ServerHeard
  <2>7. PingsOf(id)' = PingsOf(id)
    <3>1. ~IsAnswered(m)
      BY <1>11, Categories DEF IsAnswered, CompletePing
    <3> QED BY <1>7, <3>1
  <2>8. Answered'
    BY <1>1, <1>7, <2>3, <2>5, <2>7 DEF Answered, Settings
  <2> QED BY <1>4, <1>8, <2>3, <2>5, <2>6, <2>8
<1>12. CASE ~IsAnswered(m) /\ ~(HasCategory(m) /\ m.category = Category.Disconnect)
  <2>1. /\ server' = server /\ UNCHANGED downward
        /\ serverQueue' = IF HasCategory(m) THEN Append(serverQueue, Forwarded(data)) ELSE serverQueue
    <3>1. CASE HasCategory(m)
      <4>1. data # NoData /\ data.category = m.category /\ m.category # Category.Disconnect
        BY <1>5, <1>12, <3>1
      <4>2. ~(data.category = Category.Ping /\ usePing /\ Decodes("Ping", data.datas))
        BY <1>9, <1>12, <3>1, <4>1 DEF IsAnswered, CompletePing
      <4> QED BY <3>1, <4>1, <4>2 DEF ServerReads
    <3>2. CASE ~HasCategory(m)
      <4>1. data = NoData /\ data.category # Category.Ping /\ data.category # Category.Disconnect
        BY <1>6, <3>2, Categories DEF NoData
      <4> QED BY <3>2, <4>1 DEF ServerReads
    <3> QED BY <3>1, <3>2
  <2>2. Downward' /\ ClientHeard' /\ Pongs' = Pongs /\ downOpen' = downOpen
    <3>1. UNCHANGED <<down, sentDown, clientQueue, clientGot>> /\ downOpen' = downOpen
      BY <1>2, <2>1 DEF downward
    <3> QED BY <1>1, <3>1, DownSame
  <2>3. PingsOf(id)' = PingsOf(id)
    BY <1>7, <1>12
  <2>4. Answered'
    BY <1>2, <1>7, <2>1, <2>2, <2>3 DEF Answered
  <2>5. ServerHeard'
    <3>1. CASE HasCategory(m)
      <4> DEFINE q == Forwarded(data)
      <4>1. q \in Queued /\ Carries(q, MeantUp[k])
        <5>1. m.category \in U16
          BY <1>4, MessageParts
        <5>2. data = [category |-> m.category, datas |-> Shown(m)]
          BY <1>5, <3>1
        <5> HIDE DEF m, data, k
        <5> QED BY <1>4, <3>1, <5>1, <5>2, ForwardedCarries
      <4> HIDE DEF q, k
      <4>2. Track(serverGot, Append(serverQueue, q), ForServerApp \cup {k}, MeantUp)
        BY <1>1, <1>3, <1>4, <4>1, TrackAppend DEF ServerHeard
      <4>3. serverQueue' = Append(serverQueue, q)
        BY <2>1, <3>1 DEF q
      <4>4. serverQueue' \in Seq(Queued)
        BY <1>1, <4>1, <4>3, AppendProperties DEF ServerHeard
      <4>5. ForServerApp' = ForServerApp \cup {k}
        BY <1>4, <1>12, <3>1
      <4> QED BY <1>1, <1>2, <1>4, <4>2, <4>3, <4>4, <4>5 DEF ServerHeard
    <3>2. CASE ~HasCategory(m)
      <4>1. ForServerApp' = ForServerApp /\ serverQueue' = serverQueue
        BY <1>4, <2>1, <3>2
      <4> QED BY <1>1, <1>2, <1>4, <4>1 DEF ServerHeard
    <3> QED BY <3>1, <3>2
  <2> QED BY <1>1, <1>2, <1>4, <1>8, <2>1, <2>2, <2>4, <2>5 DEF Settings
<1> QED BY <1>10, <1>11, <1>12

LEMMA ServerAppKeeps ==
  ASSUME IInv, ServerApp
  PROVE  Upward' /\ ServerSide' /\ ServerHeard' /\ Answered'
<1>1. Upward /\ ServerSide /\ ServerHeard /\ Answered
  BY DEF IInv
<1>2. /\ UNCHANGED <<up, sentUp, server, id, usePing, proxyPing, sentDown, downOpen>>
      /\ serverQueue # <<>> /\ serverQueue' = Tail(serverQueue)
  BY DEF ServerApp, options, upward, downward
<1>3. PICK schema \in {Schema, OwnedSchema} :
        serverGot' = Append(serverGot, Understood(Head(serverQueue), schema))
  BY DEF ServerApp
<1>4. Upward' /\ ReadByServer' = ReadByServer
  BY <1>1, <1>2 DEF Upward, ReadByServer
<1>5. Named' <=> Named
  BY <1>2 DEF Named, Names
<1>6. ServerSide'
  BY <1>1, <1>2, <1>4, <1>5 DEF ServerSide, Names
<1>7. PingsOf(id)' = PingsOf(id) /\ Pongs' = Pongs
  BY <1>2, <1>4 DEF PingsOf, Pongs, IsAnswered
<1>8. Answered'
  BY <1>1, <1>2, <1>5, <1>7 DEF Answered
<1>9. ForServerApp' = ForServerApp /\ MeantUp' = MeantUp
  BY <1>2, <1>4 DEF ForServerApp, MeantUp, Names, IsAnswered
<1>10. ServerHeard'
  <2> DEFINE g == Understood(Head(serverQueue), schema)
  <2>1. serverQueue \in Seq(Queued) /\ serverGot \in Seq(Gots)
        /\ Track(serverGot, serverQueue, ForServerApp, MeantUp)
    BY <1>1 DEF ServerHeard
  <2>2. Head(serverQueue) \in Queued /\ Tail(serverQueue) \in Seq(Queued)
    BY <1>2, <2>1, HeadTailProperties
  <2>3. g \in Gots
    BY <2>2 DEF Gots
  <2>4. Append(serverGot, g) \in Seq(Gots)
    <3> HIDE DEF g
    <3> QED BY <2>1, <2>3, AppendProperties
  <2>5. Track(Append(serverGot, g), Tail(serverQueue), ForServerApp, MeantUp)
    BY <1>2, <2>1, <2>3, TrackTake
  <2> QED BY <1>2, <1>3, <1>9, <2>2, <2>4, <2>5 DEF ServerHeard
<1> QED BY <1>4, <1>6, <1>8, <1>10

LEMMA ClientAppKeeps ==
  ASSUME IInv, ClientApp
  PROVE  Downward' /\ ClientHeard'
<1>1. Downward /\ ClientHeard
  BY DEF IInv
<1>2. /\ UNCHANGED <<down, sentDown>>
      /\ clientQueue # <<>> /\ clientQueue' = Tail(clientQueue)
  BY DEF ClientApp, downward
<1>3. PICK schema \in {Schema, OwnedSchema} :
        clientGot' = Append(clientGot, Understood(Head(clientQueue), schema))
  BY DEF ClientApp
<1>4. Downward' /\ ForClientApp' = ForClientApp
  BY <1>1, <1>2 DEF Downward, ForClientApp, ReadByClient
<1>5. ClientHeard'
  <2> DEFINE g == Understood(Head(clientQueue), schema)
  <2>1. clientQueue \in Seq(Queued) /\ clientGot \in Seq(Gots)
        /\ Track(clientGot, clientQueue, ForClientApp, sentDown)
    BY <1>1 DEF ClientHeard
  <2>2. Head(clientQueue) \in Queued /\ Tail(clientQueue) \in Seq(Queued)
    BY <1>2, <2>1, HeadTailProperties
  <2>3. g \in Gots
    BY <2>2 DEF Gots
  <2>4. Append(clientGot, g) \in Seq(Gots)
    <3> HIDE DEF g
    <3> QED BY <2>1, <2>3, AppendProperties
  <2>5. Track(Append(clientGot, g), Tail(clientQueue), ForClientApp, sentDown)
    BY <1>2, <2>1, <2>3, TrackTake
  <2> QED BY <1>2, <1>3, <1>4, <2>2, <2>4, <2>5 DEF ClientHeard
<1> QED BY <1>4, <1>5

\* A step at the client that sends at most a frame.
LEMMA UpStepKeeps ==
  ASSUME IInv, NEW m \in UpSent, SendUp(OnWire(m), m),
         UNCHANGED <<options, downOpen, sentDown, server, id, serverQueue, serverGot>>
  PROVE  Upward' /\ ServerSide' /\ ServerHeard' /\ Answered' /\ upOpen' \in BOOLEAN
<1>1. up' = Append(up, OnWire(m)) /\ sentUp' = Append(sentUp, m) /\ upOpen' \in BOOLEAN
  BY DEF SendUp, GoesOn
<1> QED BY <1>1, UpSendKeeps DEF IInv, options

\* A step at the server that sends anything but a pong.
LEMMA DownStepKeeps ==
  ASSUME IInv, server = "on", NEW m \in DownSent, m # PongSent,
         SendDown(OnWire(m), m), UNCHANGED <<options, upward, server, client, id, applications>>
  PROVE  IInv'
<1>1. Settings /\ Upward /\ Downward /\ ServerSide /\ ServerHeard /\ ClientHeard /\ Answered
  BY DEF IInv
<1>2. UNCHANGED <<up, upOpen, sentUp, server, client, id, usePing, proxyPing, serverQueue,
                  serverGot, clientQueue, clientGot>>
  BY DEF options, upward, applications
<1>3. /\ Upward' /\ ServerSide' /\ ServerHeard' /\ (Named' <=> Named)
      /\ PingsOf(id)' = PingsOf(id)
  BY <1>1, <1>2, UpSame
<1>4. /\ Downward' /\ ClientHeard' /\ downOpen' \in BOOLEAN /\ Pongs \in Nat
      /\ downOpen => Pongs' = Pongs + 0
      /\ ~downOpen => Pongs' = Pongs /\ ~downOpen'
  BY <1>1, <1>2, DownSendKeeps
<1>5. Answered'
  <2>1. Pongs' = Pongs /\ (downOpen' => downOpen)
    BY <1>1, <1>4 DEF Settings
  <2> QED BY <1>1, <1>2, <1>3, <2>1 DEF Answered
<1>6. Settings'
  BY <1>1, <1>2, <1>4 DEF Settings
<1> QED BY <1>3, <1>4, <1>5, <1>6 DEF IInv

LEMMA InitIInv == Init => IInv
<1> SUFFICES ASSUME Init PROVE IInv
  OBVIOUS
<1>1. Settings
  BY DEF Init, Settings
<1>2. /\ up = <<>> /\ down = <<>> /\ sentUp = <<>> /\ sentDown = <<>>
      /\ serverQueue = <<>> /\ clientQueue = <<>> /\ serverGot = <<>> /\ clientGot = <<>>
      /\ server = "first" /\ id = <<>> /\ downOpen
  BY DEF Init
<1>3. \A S : <<>> \in Seq(S) /\ Len(<<>>) = 0
  BY EmptySeq
<1>4. InFlight(<<>>, <<>>)
  BY <1>3 DEF InFlight
<1>5. Upward /\ Downward
  BY <1>2, <1>3, <1>4 DEF Upward, Downward
<1>6. ReadByServer = 0 /\ ReadByClient = 0
  BY <1>2, <1>3 DEF ReadByServer, ReadByClient
<1>7. ForServerApp = {} /\ ForClientApp = {}
  BY <1>6 DEF ForServerApp, ForClientApp
<1>8. ~Named
  BY <1>2 DEF Named
<1>9. ServerSide
  BY <1>2, <1>6, <1>8 DEF ServerSide
<1>10. ASSUME NEW meant PROVE Track(<<>>, <<>>, {}, meant)
  <2>1. IsFiniteSet({}) /\ Cardinality({}) = 0
    BY FS_EmptySet
  <2> QED BY <1>3, <2>1 DEF Track
<1>11. ServerHeard /\ ClientHeard
  BY <1>2, <1>3, <1>7, <1>10 DEF ServerHeard, ClientHeard
<1>12. Answered
  BY <1>2, <1>8 DEF Answered
<1> QED BY <1>1, <1>5, <1>9, <1>11, <1>12 DEF IInv

LEMMA NextIInv == IInv /\ [Next]_vars => IInv'
<1> SUFFICES ASSUME IInv, [Next]_vars PROVE IInv'
  OBVIOUS
<1> USE DEF IInv
<1>1. ASSUME NEW m \in UpSent, SendUp(OnWire(m), m),
             UNCHANGED <<options, downward, server, client, id, applications>>
      PROVE  IInv'
  <2>1. UNCHANGED <<usePing, proxyPing, down, downOpen, sentDown, server, client, id, serverQueue,
                    serverGot, clientQueue, clientGot>>
    BY <1>1 DEF options, downward, applications
  <2>2. Upward' /\ ServerSide' /\ ServerHeard' /\ Answered' /\ upOpen' \in BOOLEAN
    BY <1>1, <2>1, UpStepKeeps
  <2>3. Downward' /\ ClientHeard'
    BY <2>1, DownSame
  <2>4. Settings'
    BY <2>1, <2>2 DEF Settings
  <2> QED BY <2>2, <2>3, <2>4
<1>2. ASSUME NEW p \in Peers, ClientPings(p) PROVE IInv'
  BY <1>1, <1>2, LibraryFrames, LibraryMessages DEF ClientPings
<1>3. ASSUME NEW m \in UpMessages, ClientSends(m) PROVE IInv'
  <2>1. m \in UpSent /\ Frame(m) = OnWire(m)
    BY LibraryMessages, FramesAreBytes
  <2> QED BY <1>1, <1>3, <2>1 DEF ClientSends
<1>4. ASSUME NEW m \in DownMessages, ServerSends(m) PROVE IInv'
  <2>1. IsMessage(m) /\ m # PongSent /\ m \in DownSent
    BY MessagesAssumption, LibraryMessages, RecordsAreNotEmpty, PongParts
  <2>2. Frame(m) = OnWire(m)
    BY <2>1, RecordsAreNotEmpty
  <2> QED BY <1>4, <2>1, <2>2, DownStepKeeps DEF ServerSends
<1>5. CASE ClientDisconnects
  BY <1>1, <1>5, LibraryFrames, LibraryMessages DEF ClientDisconnects
<1>6. CASE ServerExpires
  <2>1. Whole(Category.Expired, <<TRUE>>) \in DownSent
        /\ Whole(Category.Expired, <<TRUE>>) # PongSent
    BY LibraryMessages, WholeParts, PongParts, Categories
  <2> QED BY <1>6, <2>1, LibraryFrames, DownStepKeeps DEF ServerExpires
<1>7. CASE ServerNames
  <2>1. UNCHANGED <<usePing, proxyPing, upOpen, client>>
    BY <1>7 DEF ServerNames, options
  <2>2. Upward' /\ Downward' /\ ServerSide' /\ ServerHeard' /\ ClientHeard' /\ Answered'
          /\ downOpen' \in BOOLEAN /\ server' \in {"on", "closed"}
    BY <1>7, ServerNamesKeeps
  <2> QED BY <2>1, <2>2 DEF Settings
<1>8. CASE ServerReads
  <2>1. UNCHANGED <<usePing, proxyPing, upOpen, client>>
    BY <1>8 DEF ServerReads, options
  <2>2. Upward' /\ Downward' /\ ServerSide' /\ ServerHeard' /\ ClientHeard' /\ Answered'
          /\ downOpen' \in BOOLEAN /\ server' \in {"on", "closed"}
    BY <1>8, ServerReadsKeeps
  <2> QED BY <2>1, <2>2 DEF Settings
<1>9. CASE ClientReads
  <2>1. UNCHANGED <<usePing, proxyPing, downOpen, sentDown, server, id, serverQueue, serverGot>>
    BY <1>9 DEF ClientReads, options
  <2>2. Downward' /\ ClientHeard' /\ client' \in {"on", "closed"}
    BY <1>9, ClientReadKeeps DEF ClientReads, Settings
  <2>3. Upward' /\ ServerSide' /\ ServerHeard' /\ Answered' /\ upOpen' \in BOOLEAN
    <3>1. CASE UNCHANGED <<up, sentUp>> /\ upOpen' \in BOOLEAN
      <4>1. /\ Upward' /\ ServerSide' /\ ServerHeard' /\ (Named' <=> Named)
            /\ PingsOf(id)' = PingsOf(id)
        BY <2>1, <3>1, UpSame
      <4>2. Pongs' = Pongs
        BY <2>1 DEF Pongs
      <4> QED BY <2>1, <3>1, <4>1, <4>2 DEF Answered
    <3>2. CASE SendUp(MakeDisconnect(Address), Whole(Category.Disconnect, <<Address>>))
      BY <2>1, <3>2, LibraryFrames, LibraryMessages, UpStepKeeps DEF options
    <3>3. \/ UNCHANGED <<up, sentUp>> /\ upOpen' \in BOOLEAN
          \/ SendUp(MakeDisconnect(Address), Whole(Category.Disconnect, <<Address>>))
      BY <1>9 DEF ClientReads, upward, Settings
    <3> QED BY <3>1, <3>2, <3>3
  <2> QED BY <2>1, <2>2, <2>3 DEF Settings
<1>10. CASE ServerApp
  <2>1. UNCHANGED <<usePing, proxyPing, upOpen, downOpen, server, client, down, sentDown,
                    clientQueue, clientGot>>
    BY <1>10 DEF ServerApp, options, upward, downward
  <2>2. Upward' /\ ServerSide' /\ ServerHeard' /\ Answered'
    BY <1>10, ServerAppKeeps
  <2>3. Downward' /\ ClientHeard'
    BY <2>1, DownSame
  <2> QED BY <2>1, <2>2, <2>3 DEF Settings
<1>11. CASE ClientApp
  <2>1. UNCHANGED <<usePing, proxyPing, up, upOpen, sentUp, downOpen, sentDown, server, client, id,
                    serverQueue, serverGot>>
    BY <1>11 DEF ClientApp, options, upward, downward
  <2>2. Downward' /\ ClientHeard'
    BY <1>11, ClientAppKeeps
  <2>3. /\ Upward' /\ ServerSide' /\ ServerHeard' /\ (Named' <=> Named)
        /\ PingsOf(id)' = PingsOf(id)
    BY <2>1, UpSame
  <2>4. Pongs' = Pongs
    BY <2>1 DEF Pongs
  <2>5. Answered'
    BY <2>1, <2>3, <2>4 DEF Answered
  <2> QED BY <2>1, <2>2, <2>3, <2>5 DEF Settings
<1>12. CASE UNCHANGED vars
  <2>1. UNCHANGED <<usePing, proxyPing, up, upOpen, sentUp, down, downOpen, sentDown, server,
                    client, id, serverQueue, serverGot, clientQueue, clientGot>>
    BY <1>12 DEF vars, options, upward, downward, applications
  <2>2. Downward' /\ ClientHeard' /\ Pongs' = Pongs
    BY <2>1, DownSame
  <2>3. /\ Upward' /\ ServerSide' /\ ServerHeard' /\ (Named' <=> Named)
        /\ PingsOf(id)' = PingsOf(id)
    BY <2>1, UpSame
  <2>4. Answered'
    BY <2>1, <2>2, <2>3 DEF Answered
  <2> QED BY <2>1, <2>2, <2>3, <2>4 DEF Settings
<1> QED
  BY <1>2, <1>3, <1>4, <1>5, <1>6, <1>7, <1>8, <1>9, <1>10, <1>11, <1>12 DEF Next

LEMMA Invariance == Spec => []IInv
<1> QED BY InitIInv, NextIInv, PTL DEF Spec

-----------------------------------------------------------------------------
(* What the invariant says.                                                *)

\* Frames and queued data are bytes and categories 16 bits wide, whatever the
\* applications send and in whatever order the readers take it
\* (schema.rs:1140-1147, 1166-1170).
THEOREM TypeCorrect == Spec => []TypeOK
<1>1. IInv => TypeOK
  <2> SUFFICES ASSUME IInv PROVE TypeOK
    OBVIOUS
  <2>1. Settings /\ Upward /\ Downward /\ ServerSide /\ ServerHeard /\ ClientHeard
    BY DEF IInv
  <2>2. \A s \in Seq(Byte) : IsBytes(s)
    BY ElementOfSeq, LenProperties DEF IsBytes
  <2>3. IsBytes(id)
    <3>1. CASE Named
      <4>1. 1 \in 1..Len(sentUp) /\ sentUp \in Seq(UpSent)
        <5>1. ReadByServer \in Nat /\ ReadByServer # 0 /\ ReadByServer <= Len(sentUp)
              /\ Len(sentUp) \in Nat
          BY <2>1, <3>1, ReadSoFar DEF Named, ServerSide
        <5> QED BY <2>1, <5>1 DEF Upward
      <4>2. IsMessage(sentUp[1]) /\ HasCategory(sentUp[1])
            /\ sentUp[1].category \in {Category.Ping, proxyPing}
        BY <3>1, <4>1, ElementOfSeq, FramesAreBytes DEF Named, Names, HasCategory
      <4>3. sentUp[1].values[1] \in Seq(Byte)
        BY <2>1, <4>2, PingRead
      <4> QED BY <2>1, <2>2, <3>1, <4>3 DEF ServerSide
    <3>2. CASE ~Named
      BY <2>1, <3>2 DEF ServerSide, IsBytes
    <3> QED BY <3>1, <3>2
  <2>4. \A q \in Queued : q \in Seq(Byte)
    BY DEF Queued
  <2>5. ASSUME NEW q \in Seq(Seq(Byte)) \cup Seq(Queued), NEW i \in DOMAIN q PROVE IsBytes(q[i])
    <3>1. CASE q \in Seq(Seq(Byte))
      BY <2>2, <2>5, <3>1, ElementOfSeq, LenProperties
    <3>2. CASE q \in Seq(Queued)
      BY <2>2, <2>4, <2>5, <3>2, ElementOfSeq, LenProperties
    <3> QED BY <3>1, <3>2
  <2>6. \A q \in {up, down, serverQueue, clientQueue} : \A i \in DOMAIN q : IsBytes(q[i])
    BY <2>1, <2>5 DEF Upward, Downward, ServerHeard, ClientHeard
  <2>7. \A g \in Gots : g.category \in U16
    BY DEF Gots, Queued
  <2>8. ASSUME NEW got \in Seq(Gots), NEW i \in DOMAIN got PROVE got[i].category \in U16
    BY <2>7, <2>8, ElementOfSeq, LenProperties
  <2>9. \A got \in {serverGot, clientGot} : \A i \in DOMAIN got : got[i].category \in U16
    BY <2>1, <2>8 DEF ServerHeard, ClientHeard
  <2>10. Len(up) <= Len(sentUp) /\ Len(down) <= Len(sentDown)
    BY <2>1 DEF Upward, Downward, InFlight
  <2> QED BY <2>1, <2>3, <2>6, <2>9, <2>10 DEF TypeOK, Settings
<1> QED BY <1>1, Invariance, PTL

\* Whatever the messages and the options, either application hears what was
\* meant for it, once each and in order, as it was sent (AppsHear).
THEOREM ApplicationsHear == Spec => []AppsHear
<1>1. IInv => AppsHear
  BY TrackHears DEF IInv, ServerHeard, ClientHeard, AppsHear
<1> QED BY <1>1, Invariance, PTL

\* No record that lost bytes passes for a whole one, at either end (CutIsNoticed).
THEOREM LossIsNoticed == Spec => []CutIsNoticed
<1>1. IInv => CutIsNoticed
  BY TrackHears DEF IInv, ServerHeard, ClientHeard, CutIsNoticed
<1> QED BY <1>1, Invariance, PTL

\* A client gets a pong for every ping of its name and for nothing else (PongForPing).
THEOREM PongsAnswerPings == Spec => []PongForPing
<1>1. IInv => PongForPing
  BY DEF IInv, ServerSide, Named, Answered, PongForPing
<1> QED BY <1>1, Invariance, PTL
=============================================================================
