----------------------------- MODULE PackedInt -----------------------------
(***************************************************************************)
(* packed_int.h: Packed<MaxStoredType, MinStoredType, MinMaxStoredValue>,  *)
(* an integer of variable length.  Range r is stored in 2^(r-1) bytes and  *)
(* holds the values Limit[r-1].kUpper .. Limit[r].kUpper - 1.              *)
(*                                                                         *)
(* ByteBits is 8 in the code, MinMaxStoredValue 250 and Ranges 4; smaller  *)
(* ones keep the numbers within reach.                                     *)
(***************************************************************************)
EXTENDS Integers, Sequences, SequencesExt

CONSTANTS
    ByteBits,           \* digits of MinStoredType
    MinMaxStoredValue,  \* the largest value stored in one byte
    Ranges              \* number of types in RangeTypeList

ASSUME PackedAssumption ==
    /\ ByteBits \in Nat \ {0, 1} /\ Ranges \in Nat \ {0}
    /\ MinMaxStoredValue \in 0 .. 2 ^ ByteBits - 1

Byte == 0 .. 2 ^ ByteBits - 1

\* Bytes and number of values of the type of range r.
SizeOf(r) == 2 ^ (r - 1)
Modulus(r) == 2 ^ (ByteBits * SizeOf(r))

\* kP: half the digits of the type.
HalfPower(r) == 2 ^ ((ByteBits * SizeOf(r)) \div 2)

\* Limit: the constants of each range, from those of the range below.
Limit[r \in 1 .. Ranges] ==
    IF r = 1
    THEN LET borrow == Modulus(1) - 1 - MinMaxStoredValue
         IN  [kMaxStored |-> Modulus(1), kBorrowCount |-> borrow,
              kUpper |-> Modulus(1) - borrow, kP |-> HalfPower(1)]
    ELSE LET prev == Limit[r - 1]
             max == prev.kMaxStored - prev.kBorrowCount + prev.kBorrowCount * Modulus(r - 1)
         IN  [kMaxStored |-> max, kBorrowCount |-> prev.kP, kUpper |-> max - prev.kP,
              kP |-> HalfPower(r)]

\* The size bytes of a number in memory, the lowest first.
ToBytes(number, size) == [j \in 1 .. size |-> (number \div 2 ^ (ByteBits * (j - 1))) % 2 ^ ByteBits]
FromBytes(bytes) == FoldRight(LAMBDA byte, acc : byte + 2 ^ ByteBits * acc, bytes, 0)

\* Packed::Serialize of range r.
Serialize[r \in 1 .. Ranges, value \in Nat] ==
    IF r = 1 THEN <<value % Modulus(1)>>
    ELSE LET prev_upper == Limit[r - 1].kUpper
             modified == value - prev_upper
             high == modified \div Modulus(r - 1)
             low == modified % Modulus(r - 1)
         IN  IF value >= prev_upper
             THEN Serialize[r - 1, (high + prev_upper) % Modulus(r - 1)]
                  \o ToBytes(low, SizeOf(r - 1))
             ELSE Serialize[r - 1, value % Modulus(r - 1)]

\* PackedDeserializeRes with the value and the bytes used so far.
NotRead == [res |-> "kNo", value |-> 0, used |-> 0]

\* Mutant: kUpper itself belongs to the range.
ReadPast(kUpper, value, used) ==
    IF value > kUpper THEN [res |-> "kNext", value |-> value - kUpper, used |-> used]
    ELSE [res |-> "kFinished", value |-> value, used |-> used]

\* A value of kUpper or more goes on in the next range.
Read(kUpper, value, used) ==
    IF value >= kUpper THEN [res |-> "kNext", value |-> value - kUpper, used |-> used]
    ELSE [res |-> "kFinished", value |-> value, used |-> used]

\* Packed::Deserialize of range r from bytes.  The sum stays within the type:
\* high.value is less than Modulus(r - 1) - kUpper.
Deserialize[r \in 1 .. Ranges, bytes \in Seq(Byte)] ==
    IF r = 1
    THEN IF bytes = <<>> THEN NotRead ELSE Read(Limit[1].kUpper, Head(bytes), 1)
    ELSE LET high == Deserialize[r - 1, bytes]
             used == high.used + SizeOf(r - 1)
             low == FromBytes(SubSeq(bytes, high.used + 1, used))
         IN  IF high.res # "kNext" THEN high
             ELSE IF used > Len(bytes) THEN NotRead
             ELSE Read(Limit[r].kUpper, high.value * Modulus(r - 1) + low + Limit[r - 1].kUpper, used)

(***************************************************************************)
(* transport/low_level/tcp/data_packet_collector.cpp: the byte stream of a *)
(* TCP connection is cut into packets again.  A collector is a record of   *)
(*   packets : <<[expected_packet_size, data], ...>>, packets_;            *)
(*   temp    : temp_data_buffer_, an incomplete packet size.               *)
(***************************************************************************)
SmallerOf(a, b) == IF a < b THEN a ELSE b

Collectors == [packets : Seq([expected_packet_size : Nat, data : Seq(Byte)]), temp : Seq(Byte)]
EmptyCollector == [packets |-> <<>>, temp |-> <<>>]

\* os << data in UnixTcpTransport::Send: the size and the bytes of a packet.
Frame(data) == Serialize[Ranges, Len(data)] \o data

IsPacketComplete(packet) == Len(packet.data) = packet.expected_packet_size

\* Mutant: the bytes of an incomplete size are forgotten.
GetPacketSizeForgetting(temp, data) ==
    LET size == Deserialize[Ranges, data]
    IN  [size |-> size.value, offset |-> size.used, temp |-> <<>>]

\* GetPacketSize: at most SizeOf(Ranges) bytes of data join the ones kept.
GetPacketSize(temp, data) ==
    LET joined == temp \o SubSeq(data, 1, SmallerOf(SizeOf(Ranges), Len(data)))
        size == Deserialize[Ranges, joined]
    IN  IF size.res = "kNo"
        THEN [size |-> 0, offset |-> Len(data), temp |-> joined]
        ELSE [size |-> size.value, offset |-> size.used - Len(temp), temp |-> <<>>]

\* WriteToPacket: the last packet takes what it lacks of data.
WriteToPacket(packets, data) ==
    LET packet == Last(packets)
        size == SmallerOf(packet.expected_packet_size - Len(packet.data), Len(data))
    IN  [packets |-> [packets EXCEPT ![Len(packets)].data = @ \o SubSeq(data, 1, size)],
         rest |-> SubSeq(data, size + 1, Len(data))]

\* AddData's loop over data.  A size of zero, read or not, ends it.
AddData[collector \in Collectors, data \in Seq(Byte)] ==
    LET Fill(packets, rest) ==
            LET written == WriteToPacket(packets, rest)
            IN  AddData[[packets |-> written.packets, temp |-> <<>>], written.rest]
        next == GetPacketSize(collector.temp, data)
    IN  IF data = <<>> THEN collector
        ELSE IF collector.packets # <<>> /\ ~IsPacketComplete(Last(collector.packets))
        THEN Fill(collector.packets, data)
        ELSE IF next.size = 0 THEN [collector EXCEPT !.temp = next.temp]
        ELSE Fill(Append(collector.packets, [expected_packet_size |-> next.size, data |-> <<>>]),
                  SubSeq(data, next.offset + 1, Len(data)))

\* How many packets PopPacket returns until it returns nothing.
Complete(packets) ==
    LET incomplete == SelectInSeq(packets, LAMBDA packet : ~IsPacketComplete(packet))
    IN  IF incomplete = 0 THEN Len(packets) ELSE incomplete - 1
=============================================================================
