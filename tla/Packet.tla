------------------------------- MODULE Packet -------------------------------
(***************************************************************************)
(* The request packets of the sensact protocol (packet.c): a client        *)
(* encodes the name of a variable and the value to set it to, a device     *)
(* decodes them.  The subject is what the widths of the length fields and  *)
(* the buffers do to names and values; transport is the subject of         *)
(* Exchange.                                                               *)
(***************************************************************************)
EXTENDS Integers, Sequences

CONSTANTS
    Chars,          \* the bytes other than NUL
    NUL,            \* the byte 0
    ByteMod,        \* values of an unsigned char, 256 in the code
    ShortMod,       \* values of an unsigned short, 2^16 in the code
    NameMax,        \* PACKET_NAME_MAX_SIZE, 256 in the code
    ValueMax,       \* PACKET_VALUE_MAX_SIZE, 1024 in the code
    Names,          \* the names that applications use
    Values          \* the values that applications set

Bytes == Chars \cup {NUL}

ASSUME SizeAssumption ==
    /\ NUL \notin Chars
    /\ ByteMod \in Nat \ {0}
    /\ NameMax \in 0 .. ByteMod
    /\ ValueMax \in Nat \ {0}
    /\ ShortMod \in Nat /\ ValueMax < ShortMod

ASSUME InputAssumption ==
    /\ Names \subseteq Seq(Chars)
    /\ Values \subseteq Seq(Bytes)

VARIABLES
    pc,             \* what was done last: "nothing", "created", "refused", "decoded"
    name,           \* the arguments of create_request_packet
    value,
    packet,         \* request_packet
    gotName,        \* what decode_request_packet returned
    gotValue

vars == <<pc, name, value, packet, gotName, gotValue>>

-----------------------------------------------------------------------------
(***************************************************************************)
(* Buffers, from index 0.                                                  *)
(***************************************************************************)

\* struct request_packet_t request_packet = {}
Zeroed == [i \in 0 .. NameMax + ValueMax - 1 |-> NUL]

StrCpy(buffer, string) ==
    [i \in DOMAIN buffer |->
        IF i < Len(string) THEN string[i + 1]
        ELSE IF i = Len(string) THEN NUL
        ELSE buffer[i]]

MemCpy(buffer, at, bytes) ==
    [i \in DOMAIN buffer |->
        IF i \in at .. at + Len(bytes) - 1 THEN bytes[i - at + 1] ELSE buffer[i]]

-----------------------------------------------------------------------------
(***************************************************************************)
(* create_request_packet and decode_request_packet                         *)
(***************************************************************************)

\* Variants for testing the properties: the value is put behind the terminator of the
\* name; the length of the value is not tested.
ValueOffsetTerminated(n) == (Len(n) % ByteMod) + 1
AcceptedName(n, v) == Len(n) <= NameMax

Accepted(n, v) == Len(n) <= NameMax /\ Len(v) <= ValueMax

\* Where the value goes: packet->name_length.
ValueOffset(n) == Len(n) % ByteMod

\* The lengths are stored in an unsigned char and an unsigned short.  A get has an
\* empty value.
Encode(n, v) ==
    [name_length |-> Len(n) % ByteMod,
     value_length |-> Len(v) % ShortMod,
     data |-> MemCpy(StrCpy(Zeroed, n), ValueOffset(n), v)]

\* strncpy stops at a NUL in the first name_length bytes.
NameEnd(p) ==
    CHOOSE n \in 0 .. p.name_length :
        /\ n = p.name_length \/ p.data[n] = NUL
        /\ \A i \in 0 .. n - 1 : p.data[i] # NUL

DecodeName(p) == [i \in 1 .. NameEnd(p) |-> p.data[i - 1]]

DecodeValue(p) == [i \in 1 .. p.value_length |-> p.data[p.name_length + i - 1]]

-----------------------------------------------------------------------------
Empty == [name_length |-> 0, value_length |-> 0, data |-> Zeroed]

Init ==
    /\ pc = "nothing"
    /\ name = <<>>
    /\ value = <<>>
    /\ packet = Empty
    /\ gotName = <<>>
    /\ gotValue = <<>>

\* The application asks for a get (with the empty value) or a set.
Create ==
    /\ pc = "nothing"
    /\ name' \in Names
    /\ value' \in Values \cup {<<>>}
    /\ Accepted(name', value')
    /\ packet' = Encode(name', value')
    /\ pc' = "created"
    /\ UNCHANGED <<gotName, gotValue>>

\* A name or a value that is too long: no packet is made.
Refuse ==
    /\ pc = "nothing"
    /\ name' \in Names
    /\ value' \in Values \cup {<<>>}
    /\ ~Accepted(name', value')
    /\ pc' = "refused"
    /\ UNCHANGED <<packet, gotName, gotValue>>

\* The device decodes the packet.
Decode ==
    /\ pc = "created"
    /\ gotName' = DecodeName(packet)
    /\ gotValue' = DecodeValue(packet)
    /\ pc' = "decoded"
    /\ UNCHANGED <<name, value, packet>>

Next == Create \/ Refuse \/ Decode

Spec == Init /\ [][Next]_vars

-----------------------------------------------------------------------------
\* The type invariant of the call, the packet and what the device decoded.
TypeOK ==
    /\ pc \in {"nothing", "created", "refused", "decoded"}
    /\ name \in Seq(Chars)
    /\ value \in Seq(Bytes)
    /\ packet.name_length \in 0 .. ByteMod - 1
    /\ packet.value_length \in 0 .. ValueMax
    /\ packet.data \in [0 .. NameMax + ValueMax - 1 -> Bytes]
    /\ gotName \in Seq(Chars)
    /\ gotValue \in Seq(Bytes)

\* A device decodes the name and the value that the client encoded, as long as the
\* length of the name fits its field: packet.h allows names of 256 bytes, whose length
\* is sent as 0.  Then the device sees no name, and still the right value.
DecodesWhatWasSent ==
    pc = "decoded" =>
        /\ gotName = IF Len(name) < ByteMod THEN name ELSE <<>>
        /\ gotValue = value
=============================================================================
