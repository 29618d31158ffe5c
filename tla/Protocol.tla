------------------------------- MODULE Protocol -------------------------------
(***************************************************************************)
(* The packets of src/src/IndexTSDB_protocol.cpp: a sender that fills one  *)
(* global packet with the Fmt functions in the order of Serialize, and a   *)
(* receiver that is given what recv returned.  It either decodes packet    *)
(* after packet (DecodeTestHandler), or does what readData does with it:   *)
(* checkCommand and ProtocolProcessing, on the first packet only.          *)
(*                                                                         *)
(* Bytes and widths are the program's.  A header is four bytes: command,   *)
(* msgLength and crc16, lowest byte first; the first three are coded by    *)
(* exclusive or with R_CODE, and decoded in place.                         *)
(***************************************************************************)
EXTENDS Crc16

CONSTANTS Loads   \* the senders considered, records [commands, chunks, packets, cuts]:
                  \*   the commands and the data (one call of a Fmt function each) they use,
                  \*   how many packets they send, and after how many bytes recv may stop
                  \*   (it may always take all that fits its buffer)

ASSUME ProtocolAssumption ==
  \A x \in Loads :
    x \in [commands : SUBSET Byte, chunks : SUBSET Seq(Byte), packets : Nat, cuts : SUBSET Nat]

\* Mutant: a length is kept as it is.
U8_Wide(n) == n

U8(n) == n % 256

R_CODE == 143
Header == 4            \* sizeof(IndexProtocol) - SEND_BUFFER
SendBuffer == 1024
BufSize == 1024        \* of epollReactor's buf

VARIABLES
  load,
  sender,              \* the Fmt function to be called next
  packet,              \* transferProtocol: the header's fields as coded
  MsgPayLoad,          \* ... and its SendProtocolLength first bytes of data
  wire,                \* bytes on their way
  sent, torn,          \* the packets on the wire, each with its place there; was one cut
  receiver,            \* its place: "idle", "decode", "decoded", "process" or "processed"
  data, indexof,       \* the receiver's buffer and its place in it
  expected, seen,      \* the packets that make up data; those the decoder found
  known, handled       \* checkCommand's answer; the function handleCommand called

sending   == <<load, sender, packet, MsgPayLoad>>
receiving == <<receiver, data, indexof, expected, seen, known, handled>>
vars      == <<sending, wire, sent, torn, receiving>>

SendProtocolLength == Len(MsgPayLoad)

Init ==
  /\ load \in Loads
  /\ sender = "cmd" /\ packet = [command |-> 0, msgLength |-> 0, crc16 |-> 0] /\ MsgPayLoad = <<>>
  /\ wire = <<>> /\ sent = <<>> /\ torn = FALSE
  /\ receiver = "idle" /\ data = <<>> /\ indexof = 0 /\ expected = <<>> /\ seen = {}
  /\ known = FALSE /\ handled = "none"
-----------------------------------------------------------------------------
(* The sender *)

FmtCmd(cmd) ==
  /\ sender = "cmd" /\ load.packets > 0
  /\ packet' = [packet EXCEPT !.command = Xor(cmd, R_CODE)]
  /\ sender' = "data"
  /\ UNCHANGED <<load, MsgPayLoad, wire, sent, torn, receiving>>

\* FmtU8, FmtU16, FmtU32, FmtStr or FmtHex.  SendProtocolLength is not reset for a new packet, and
\* not compared with SEND_BUFFER: beyond it nothing is claimed.
Fmt(bytes) ==
  /\ sender = "data"
  /\ MsgPayLoad' = MsgPayLoad \o bytes
  /\ sender' = IF SendProtocolLength' <= SendBuffer THEN "crc" ELSE "overrun"
  /\ UNCHANGED <<load, packet, wire, sent, torn, receiving>>

\* The length of the data is handed to the checksum as a u8.
FmtCrc16 ==
  /\ sender = "crc"
  /\ packet' = [packet EXCEPT
       !.crc16 = Xor(Message_count_CRC_2(SubSeq(MsgPayLoad, 1, U8(SendProtocolLength))), R_CODE)]
  /\ sender' = "end"
  /\ UNCHANGED <<load, MsgPayLoad, wire, sent, torn, receiving>>

\* Mutant: the length of the data without the header.
TotalLength_NoHeader == SendProtocolLength

TotalLength == SendProtocolLength + Header

\* msgLength is a u8.
FmtEnd ==
  /\ sender = "end"
  /\ packet' = [packet EXCEPT !.msgLength = U8(Xor(TotalLength, R_CODE))]
  /\ sender' = "send"
  /\ UNCHANGED <<load, MsgPayLoad, wire, sent, torn, receiving>>

\* GetBuffer and GetLength.
Send ==
  /\ sender = "send"
  /\ wire' = wire \o <<packet.command, packet.msgLength, packet.crc16 % 256, packet.crc16 \div 256>>
                  \o MsgPayLoad
  /\ sent' = Append(sent, [at |-> Len(wire), command |-> Xor(packet.command, R_CODE),
                           payload |-> MsgPayLoad])
  /\ load' = [load EXCEPT !.packets = @ - 1]
  /\ sender' = "cmd"
  /\ UNCHANGED <<packet, MsgPayLoad, torn, receiving>>
-----------------------------------------------------------------------------
(* The receiver *)

\* recv takes all there is and fits the buffer, or less.
Recv ==
  /\ receiver \notin {"decode", "process"} /\ wire # <<>>
  /\ \E n \in load.cuts \cup {Len(wire), BufSize} :
       /\ n \in 1..Len(wire) /\ n <= BufSize
       /\ data' = SubSeq(wire, 1, n)
       /\ wire' = SubSeq(wire, n + 1, Len(wire))
       /\ torn' = (torn \/ n < Len(wire))
       /\ expected' = IF torn' THEN <<>> ELSE sent
  /\ sent' = <<>> /\ indexof' = 0 /\ seen' = {} /\ known' = FALSE /\ handled' = "none"
  /\ receiver' \in {"decode", "process"}
  /\ UNCHANGED sending

\* Mutant: the header is decoded in a copy.
Protocol_Analysis_Copied(o) == data

\* The header at offset o is decoded where it is.
Protocol_Analysis(o) ==
  [k \in DOMAIN data |-> IF k \in o+1..o+3 THEN Xor(data[k], R_CODE) ELSE data[k]]

\* One turn of DecodeTestHandler's loop, or its end.
Decode ==
  /\ receiver = "decode"
  /\ IF Len(data) - indexof >= 7
     THEN LET p == [k \in 1..4 |-> IF k = 4 THEN data[indexof + 4] ELSE Xor(data[indexof + k], R_CODE)]
          IN /\ data' = Protocol_Analysis(indexof)
             /\ seen' = seen \cup {[at |-> indexof, command |-> p[1], length |-> p[2],
                                      crc16 |-> p[3] + 256 * p[4]]}
             /\ indexof' = (indexof + p[2]) % 65536
             /\ UNCHANGED receiver
     ELSE receiver' = "decoded" /\ UNCHANGED <<data, seen, indexof>>
  /\ UNCHANGED <<sending, wire, sent, torn, expected, known, handled>>

commandCollect == 0..10 \cup 64..67 \cup {128, 129, 130, 132, 133, 135, 136, 137}

checkCommand(cmd) == Xor(cmd, R_CODE) \in commandCollect

\* The function handleCommand calls: it takes the exclusive or with C_Code for the type.
handleCommand(command) ==
  LET cmdType == Xor(command, 192)
  IN CASE cmdType = 0   -> "DDLCommand"
       [] cmdType = 64  -> "DMLCommand"
       [] cmdType = 128 -> "CliCommand"
       [] OTHER         -> "none"

\* readData: a command that is not known is only reported.
Process ==
  /\ receiver = "process"
  /\ known' = checkCommand(data[1])
  /\ data' = Protocol_Analysis(0)
  /\ handled' = handleCommand(data'[1])
  /\ receiver' = "processed"
  /\ UNCHANGED <<sending, wire, sent, torn, indexof, expected, seen>>

Next == \/ \E c \in load.commands : FmtCmd(c)
        \/ \E b \in load.chunks : Fmt(b)
        \/ FmtCrc16 \/ FmtEnd \/ Send \/ Recv \/ Decode \/ Process

Spec == Init /\ [][Next]_vars

\* DecodeTestHandler runs.
FairSpec == Spec /\ WF_vars(Decode)
-----------------------------------------------------------------------------
(* Properties *)

\* The widths of the fields.
TypeOK ==
  /\ {packet.command, packet.msgLength} \subseteq Byte /\ packet.crc16 \in U16
  /\ MsgPayLoad \in Seq(Byte) /\ wire \in Seq(Byte) /\ data \in Seq(Byte) /\ indexof \in U16
  /\ sender \in {"cmd", "data", "crc", "end", "send", "overrun"}
  /\ receiver \in {"idle", "decode", "decoded", "process", "processed"}
  /\ torn \in BOOLEAN /\ known \in BOOLEAN

\* The two checksums of the repository are the same code: each entry of the tables is right.
CrcsAgree == sender = "crc" /\ SendProtocolLength <= 4 => SameCode(MsgPayLoad)

SizeOf(p) == Len(p.payload) + Header
Offset(k) == IF k \in DOMAIN expected THEN expected[k].at ELSE Len(data)

\* The decoder finds one packet of the buffer after the other, each with its command and a checksum
\* that fits its data, up to a last one of less than seven bytes.
Decoded ==
  LET of(k) == LET p == expected[k] IN
               [at |-> Offset(k), command |-> p.command, length |-> SizeOf(p),
                crc16 |-> Message_count_CRC_2(p.payload)]
      whole == {k \in DOMAIN expected : Len(data) - Offset(k) >= 7}
  IN \E m \in 0..Len(expected) :
       /\ indexof = Offset(m + 1) /\ seen = {of(k) : k \in 1..m}
       /\ receiver = "decoded" => 1..m = whole

\* checkCommand, called before the header is decoded, knows the commands of the list and no other.
Known == receiver = "processed" => known = (expected[1].command \in commandCollect)

\* A buffer of whole packets, none longer than a u8 can say, is taken apart where it was put
\* together, although data grow from packet to packet (the length is never reset) and the
\* receiver changes the buffer as it goes.
PacketsArrive ==
  expected # <<>> /\ (\A k \in DOMAIN expected : SizeOf(expected[k]) < 256) => Decoded /\ Known

\* The decoder comes to an end, whatever lengths it is given: a length of zero, which it meets
\* after a packet of 256 bytes, is decoded again in place and is not zero the second time.
DecodeEnds == receiver = "decode" ~> receiver # "decode"
=============================================================================
