---------------------------- MODULE PacketProofs ----------------------------
(***************************************************************************)
(* A device decodes the request that was encoded, for all widths of the    *)
(* length fields and all sizes of the buffers.                             *)
(***************************************************************************)
EXTENDS Packet, TLAPS

\* A length below the modulus of its field is stored unchanged, the modulus itself as 0.
LEMMA LengthFits ==
    ASSUME NEW n \in Nat, NEW m \in Nat \ {0}, n < m
    PROVE  n % m = n
OBVIOUS

LEMMA LengthWraps ==
    ASSUME NEW m \in Nat \ {0}
    PROVE  m % m = 0
OBVIOUS

\* A string without NUL is found again by its length: decoding a packet whose data
\* starts with name_length bytes other than NUL returns exactly these bytes.
LEMMA NameFound ==
    ASSUME NEW p, p.name_length \in Nat,
           \A i \in 0 .. p.name_length - 1 : p.data[i] # NUL
    PROVE  NameEnd(p) = p.name_length
<1> DEFINE Stops(n) == /\ n = p.name_length \/ p.data[n] = NUL
                       /\ \A i \in 0 .. n - 1 : p.data[i] # NUL
<1>1. p.name_length \in 0 .. p.name_length /\ Stops(p.name_length)
  OBVIOUS
<1>2. \A n \in 0 .. p.name_length : Stops(n) => n = p.name_length
  OBVIOUS
<1>3. NameEnd(p) = CHOOSE n \in 0 .. p.name_length : Stops(n)
  BY DEF NameEnd
<1> HIDE DEF Stops
<1> QED
  BY <1>1, <1>2, <1>3

\* What the two copies of create_request_packet leave in the buffer: the name at the
\* start, the value from index k, behind the name or over it.
LEMMA Laid ==
    ASSUME NEW n \in Seq(Chars), NEW v \in Seq(Bytes), NEW k \in Nat,
           Len(n) <= NameMax, Len(v) <= ValueMax, k <= Len(n),
           NEW data, data = MemCpy(StrCpy(Zeroed, n), k, v)
    PROVE  /\ data \in [0 .. NameMax + ValueMax - 1 -> Bytes]
           /\ \A i \in 0 .. k - 1 : data[i] = n[i + 1]
           /\ \A i \in 0 .. Len(v) - 1 : data[k + i] = v[i + 1]
<1>1. /\ Len(n) \in Nat /\ Len(v) \in Nat
      /\ NameMax \in Nat /\ ValueMax \in Nat
      /\ \A i \in 1 .. Len(n) : n[i] \in Chars
      /\ \A i \in 1 .. Len(v) : v[i] \in Bytes
  BY SizeAssumption
<1> DEFINE At(i) == IF i \in k .. k + Len(v) - 1 THEN v[i - k + 1]
                    ELSE IF i < Len(n) THEN n[i + 1]
                    ELSE IF i = Len(n) THEN NUL
                    ELSE NUL
<1>2. data = [i \in 0 .. NameMax + ValueMax - 1 |-> At(i)]
  BY DEF MemCpy, StrCpy, Zeroed
<1>3. \A i \in Nat : At(i) \in Bytes
  <2> SUFFICES ASSUME NEW i \in Nat PROVE At(i) \in Bytes
    OBVIOUS
  <2>1. CASE i \in k .. k + Len(v) - 1
    <3>1. i - k + 1 \in 1 .. Len(v)
      BY <1>1, <2>1
    <3> QED
      BY <1>1, <2>1, <3>1
  <2>2. CASE i \notin k .. k + Len(v) - 1 /\ i < Len(n)
    <3>1. i + 1 \in 1 .. Len(n)
      BY <1>1, <2>2
    <3> QED
      BY <1>1, <2>2, <3>1 DEF Bytes
  <2>3. CASE i \notin k .. k + Len(v) - 1 /\ ~(i < Len(n))
    BY <2>3 DEF Bytes
  <2> QED
    BY <2>1, <2>2, <2>3
<1>4. \A i \in 0 .. k - 1 : At(i) = n[i + 1]
  BY <1>1
<1>5. \A i \in 0 .. Len(v) - 1 : At(k + i) = v[i + 1]
  <2> SUFFICES ASSUME NEW i \in 0 .. Len(v) - 1 PROVE At(k + i) = v[i + 1]
    OBVIOUS
  <2>1. k + i \in k .. k + Len(v) - 1 /\ (k + i) - k + 1 = i + 1
    BY <1>1
  <2> QED
    BY <2>1
<1> HIDE DEF At
<1>6. data \in [0 .. NameMax + ValueMax - 1 -> Bytes]
  BY <1>1, <1>2, <1>3
<1>7. \A i \in 0 .. k - 1 : data[i] = n[i + 1]
  BY <1>1, <1>2, <1>4
<1>8. \A i \in 0 .. Len(v) - 1 : data[k + i] = v[i + 1]
  <2> SUFFICES ASSUME NEW i \in 0 .. Len(v) - 1 PROVE data[k + i] = v[i + 1]
    OBVIOUS
  <2>1. k + i \in 0 .. NameMax + ValueMax - 1
    BY <1>1
  <2> QED
    BY <1>2, <1>5, <2>1
<1> QED
  BY <1>6, <1>7, <1>8

\* The length of the name as it is sent: 0 for a name of ByteMod bytes.
SentLength(n) == IF Len(n) < ByteMod THEN Len(n) ELSE 0

\* The fields of an encoded packet.
LEMMA Encoded ==
    ASSUME NEW n \in Seq(Chars), NEW v \in Seq(Bytes), Accepted(n, v),
           NEW p, p = Encode(n, v)
    PROVE  /\ p.name_length = SentLength(n)
           /\ p.value_length = Len(v)
           /\ p.data \in [0 .. NameMax + ValueMax - 1 -> Bytes]
           /\ \A i \in 0 .. SentLength(n) - 1 : p.data[i] = n[i + 1]
           /\ \A i \in 0 .. Len(v) - 1 : p.data[SentLength(n) + i] = v[i + 1]
<1>1. /\ Len(n) \in Nat /\ Len(v) \in Nat
      /\ Len(n) <= NameMax /\ Len(v) <= ValueMax
      /\ NameMax \in Nat /\ NameMax <= ByteMod /\ ByteMod \in Nat \ {0}
      /\ ShortMod \in Nat \ {0} /\ Len(v) < ShortMod
  BY SizeAssumption DEF Accepted
<1>2. Len(n) % ByteMod = SentLength(n)
  <2>1. CASE Len(n) < ByteMod
    BY <1>1, <2>1, LengthFits DEF SentLength
  <2>2. CASE ~(Len(n) < ByteMod)
    <3>1. Len(n) = ByteMod
      BY <1>1, <2>2
    <3> QED
      BY <1>1, <2>2, <3>1, LengthWraps DEF SentLength
  <2> QED
    BY <2>1, <2>2
<1>3. Len(v) % ShortMod = Len(v)
  BY <1>1, LengthFits
<1>4. SentLength(n) \in Nat /\ SentLength(n) <= Len(n)
  BY <1>1 DEF SentLength
<1>5. /\ p.name_length = SentLength(n)
      /\ p.value_length = Len(v)
      /\ p.data = MemCpy(StrCpy(Zeroed, n), SentLength(n), v)
  BY <1>2, <1>3 DEF Encode, ValueOffset
<1> QED
  BY <1>1, <1>4, <1>5, Laid

\* A device decodes the name and the value that the client encoded; a name of ByteMod
\* bytes arrives as the empty name.
THEOREM RoundTrip ==
    ASSUME NEW n \in Seq(Chars), NEW v \in Seq(Bytes), Accepted(n, v)
    PROVE  /\ DecodeName(Encode(n, v)) = IF Len(n) < ByteMod THEN n ELSE <<>>
           /\ DecodeValue(Encode(n, v)) = v
<1> DEFINE p == Encode(n, v)
<1>1. /\ p.name_length = SentLength(n)
      /\ p.value_length = Len(v)
      /\ \A i \in 0 .. SentLength(n) - 1 : p.data[i] = n[i + 1]
      /\ \A i \in 0 .. Len(v) - 1 : p.data[SentLength(n) + i] = v[i + 1]
  BY Encoded
<1> HIDE DEF p
<1>2. /\ Len(n) \in Nat /\ Len(v) \in Nat
      /\ SentLength(n) \in Nat /\ SentLength(n) <= Len(n)
      /\ ByteMod \in Nat
  BY SizeAssumption DEF SentLength
<1>3. \A i \in 0 .. SentLength(n) - 1 : p.data[i] # NUL
  <2> SUFFICES ASSUME NEW i \in 0 .. SentLength(n) - 1 PROVE p.data[i] # NUL
    OBVIOUS
  <2>1. i + 1 \in 1 .. Len(n)
    BY <1>2
  <2>2. n[i + 1] \in Chars
    BY <2>1
  <2> QED
    BY <1>1, <2>2, SizeAssumption
<1>4. NameEnd(p) = SentLength(n)
  BY <1>1, <1>2, <1>3, NameFound
<1>5. DecodeName(p) = [i \in 1 .. SentLength(n) |-> n[i]]
  <2>1. \A i \in 1 .. SentLength(n) : p.data[i - 1] = n[i]
    <3> SUFFICES ASSUME NEW i \in 1 .. SentLength(n) PROVE p.data[i - 1] = n[i]
      OBVIOUS
    <3>1. i - 1 \in 0 .. SentLength(n) - 1 /\ (i - 1) + 1 = i
      BY <1>2
    <3> QED
      BY <1>1, <3>1
  <2> QED
    BY <1>4, <2>1 DEF DecodeName
<1>6. DecodeName(p) = IF Len(n) < ByteMod THEN n ELSE <<>>
  <2>1. CASE Len(n) < ByteMod
    BY <1>5, <2>1 DEF SentLength
  <2>2. CASE ~(Len(n) < ByteMod)
    BY <1>5, <2>2 DEF SentLength
  <2> QED
    BY <2>1, <2>2
<1>7. DecodeValue(p) = [i \in 1 .. Len(v) |-> v[i]]
  <2>1. \A i \in 1 .. Len(v) : p.data[SentLength(n) + i - 1] = v[i]
    <3> SUFFICES ASSUME NEW i \in 1 .. Len(v)
                 PROVE  p.data[SentLength(n) + i - 1] = v[i]
      OBVIOUS
    <3>1. /\ i - 1 \in 0 .. Len(v) - 1 /\ (i - 1) + 1 = i
          /\ SentLength(n) + (i - 1) = SentLength(n) + i - 1
      BY <1>2
    <3> QED
      BY <1>1, <3>1
  <2> QED
    BY <1>1, <2>1 DEF DecodeValue
<1>8. DecodeValue(p) = v
  BY <1>7
<1> QED
  BY <1>6, <1>8 DEF p

-----------------------------------------------------------------------------
(***************************************************************************)
(* The invariant: a packet that was created encodes the arguments, and     *)
(* decoding it gave the value of the decoder's operators.                  *)
(***************************************************************************)
PacketInv ==
    /\ pc \in {"nothing", "created", "refused", "decoded"}
    /\ name \in Seq(Chars)
    /\ value \in Seq(Bytes)
    /\ pc \in {"nothing", "refused"} =>
        packet = Empty /\ gotName = <<>> /\ gotValue = <<>>
    /\ pc \in {"created", "decoded"} =>
        Accepted(name, value) /\ packet = Encode(name, value)
    /\ pc = "created" => gotName = <<>> /\ gotValue = <<>>
    /\ pc = "decoded" =>
        gotName = DecodeName(packet) /\ gotValue = DecodeValue(packet)

\* The empty sequence is a name and a value.
LEMMA NoBytes == <<>> \in Seq(Chars) /\ <<>> \in Seq(Bytes)
OBVIOUS

\* A packet is the encoding of accepted arguments from its creation on.
THEOREM PacketInvariant == Spec => []PacketInv
<1>1. Init => PacketInv
  BY NoBytes DEF Init, PacketInv
<1>2. PacketInv /\ [Next]_vars => PacketInv'
  <2> SUFFICES ASSUME PacketInv, [Next]_vars PROVE PacketInv'
    OBVIOUS
  <2>1. CASE Create
    <3>1. name' \in Seq(Chars) /\ value' \in Seq(Bytes)
      <4>1. name' \in Names /\ value' \in Values \cup {<<>>}
        BY <2>1 DEF Create
      <4> QED
        BY <4>1, NoBytes, InputAssumption
    <3> QED
      BY <2>1, <3>1 DEF Create, PacketInv
  <2>2. CASE Refuse
    <3>1. name' \in Seq(Chars) /\ value' \in Seq(Bytes)
      <4>1. name' \in Names /\ value' \in Values \cup {<<>>}
        BY <2>2 DEF Refuse
      <4> QED
        BY <4>1, NoBytes, InputAssumption
    <3> QED
      BY <2>2, <3>1 DEF Refuse, PacketInv
  <2>3. CASE Decode
    BY <2>3 DEF Decode, PacketInv
  <2>4. CASE UNCHANGED vars
    BY <2>4 DEF vars, PacketInv
  <2> QED
    BY <2>1, <2>2, <2>3, <2>4 DEF Next
<1> QED
  BY <1>1, <1>2, PTL DEF Spec

\* What a device decodes is what the client encoded, in every reachable state.
THEOREM DecodedIsSent == Spec => []DecodesWhatWasSent
<1>1. PacketInv => DecodesWhatWasSent
  <2> SUFFICES ASSUME PacketInv, pc = "decoded"
               PROVE  /\ gotName = IF Len(name) < ByteMod THEN name ELSE <<>>
                      /\ gotValue = value
    BY DEF DecodesWhatWasSent
  <2>1. /\ name \in Seq(Chars) /\ value \in Seq(Bytes) /\ Accepted(name, value)
        /\ gotName = DecodeName(Encode(name, value))
        /\ gotValue = DecodeValue(Encode(name, value))
    BY DEF PacketInv
  <2> QED
    BY <2>1, RoundTrip
<1> QED
  BY <1>1, PacketInvariant, PTL

\* The lengths fit their fields and the data its buffer, in every reachable state.
THEOREM PacketTypes == Spec => []TypeOK
<1>1. /\ ByteMod \in Nat \ {0} /\ NameMax \in Nat /\ ValueMax \in Nat \ {0}
      /\ Empty.data \in [0 .. NameMax + ValueMax - 1 -> Bytes]
  BY SizeAssumption DEF Empty, Zeroed, Bytes
<1>2. PacketInv => TypeOK
  <2> SUFFICES ASSUME PacketInv PROVE TypeOK
    OBVIOUS
  <2>1. CASE pc \in {"nothing", "refused"}
    <3>1. packet = Empty /\ gotName = <<>> /\ gotValue = <<>>
      BY <2>1 DEF PacketInv
    <3>2. packet.name_length = 0 /\ packet.value_length = 0
      BY <3>1 DEF Empty
    <3> QED
      BY <1>1, <2>1, <3>1, <3>2, NoBytes DEF PacketInv, TypeOK
  <2>2. CASE pc \in {"created", "decoded"}
    <3>1. /\ name \in Seq(Chars) /\ value \in Seq(Bytes) /\ Accepted(name, value)
          /\ packet = Encode(name, value)
      BY <2>2 DEF PacketInv
    <3>2. /\ packet.name_length \in 0 .. ByteMod - 1
          /\ packet.value_length \in 0 .. ValueMax
          /\ packet.data \in [0 .. NameMax + ValueMax - 1 -> Bytes]
      <4>1. Len(name) \in Nat /\ Len(value) \in Nat /\ Len(value) <= ValueMax
        BY <3>1 DEF Accepted
      <4>2. SentLength(name) \in 0 .. ByteMod - 1
        BY <1>1, <4>1 DEF SentLength
      <4> QED
        BY <1>1, <3>1, <4>1, <4>2, Encoded
    <3>3. gotName \in Seq(Chars) /\ gotValue \in Seq(Bytes)
      <4>1. CASE pc = "created"
        BY <4>1, NoBytes DEF PacketInv
      <4>2. CASE pc = "decoded"
        <5>1. /\ gotName = DecodeName(Encode(name, value))
              /\ gotValue = DecodeValue(Encode(name, value))
          BY <3>1, <4>2 DEF PacketInv
        <5>2. /\ gotName = IF Len(name) < ByteMod THEN name ELSE <<>>
              /\ gotValue = value
          BY <3>1, <5>1, RoundTrip
        <5> QED
          BY <3>1, <5>2, NoBytes
      <4> QED
        BY <2>2, <4>1, <4>2
    <3> QED
      BY <2>2, <3>1, <3>2, <3>3 DEF TypeOK
  <2> QED
    BY <2>1, <2>2 DEF PacketInv
<1> QED
  BY <1>2, PacketInvariant, PTL
=============================================================================
