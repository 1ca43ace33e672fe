------------------------------- MODULE Packet -------------------------------
(***************************************************************************)
(* The packets of the fingerprint sensor (packet.c): what SendToUart       *)
(* writes and what GetFromUart makes of the bytes it has read, a header of *)
(* nine bytes and a body whose length the header announces.  Packets are   *)
(* sequences of bytes.                                                     *)
(***************************************************************************)
EXTENDS Integers, Sequences

MIN_SIZE_PACKET == 9
SIZE            == 64

FINGERPRINT_COMMANDPACKET == 1
FINGERPRINT_ACKPACKET     == 7

\* Confirmation codes of the sensor.
FINGERPRINT_OK             == 0
FINGERPRINT_PACKETRECIEVER == 1
FINGERPRINT_NOFINGER       == 2
FINGERPRINT_IMAGEFAIL      == 3
FINGERPRINT_IMAGEMESS      == 6
FINGERPRINT_NOTFOUND       == 9
FINGERPRINT_ENROLLMISMATCH == 10
FINGERPRINT_BADLOCATION    == 11
FINGERPRINT_DELETEFAIL     == 16
FINGERPRINT_INVALIDIMAGE   == 21
FINGERPRINT_FLASHERR       == 24

\* The codes GetFromUart makes up.
FINGERPRINT_TIMEOUT   == 255
FINGERPRINT_BADPACKET == 254

\* FINGERPRINT_STARTCODE and the default address.
StartCode == <<239, 1>>
Address   == <<255, 255, 255, 255>>

Byte == 0..255

HighByte(n)  == (n \div 256) % 256
LowByte(n)   == n % 256
Word(hi, lo) == 256 * hi + lo

Total(bytes) ==
    LET sum[i \in 0..Len(bytes)] == IF i = 0 THEN 0 ELSE sum[i - 1] + bytes[i]
    IN  sum[Len(bytes)]

\* What SendToUart writes for a packet of the given type and data.  The sensor
\* writes its replies in the same form.
SendToUart(type, data) ==
    LET length == Len(data) + 2
        Sum    == (HighByte(length) + LowByte(length) + type + Total(data)) % 65536
    IN  StartCode \o Address \o <<type, HighByte(length), LowByte(length)>>
            \o data \o <<HighByte(Sum), LowByte(Sum)>>

\* The length a header announces, and whether the buffer has room for it.
Length(header) == Word(header[8], header[9])

Fits(length) == length <= SIZE - MIN_SIZE_PACKET

\* Plausible slips: the sum is not compared, and it leaves out the type.
ChecksumRight_Always(length, type, body) == TRUE
ChecksumRight_NoType(length, type, body) ==
    length + Total(SubSeq(body, 1, length - 2)) = Word(body[length - 1], body[length])

\* chkSum == packet->Checksum: the length as a number, not its two bytes.
ChecksumRight(length, type, body) ==
    length + type + Total(SubSeq(body, 1, length - 2))
        = Word(body[length - 1], body[length])

\* A plausible slip: the sum is copied with the data.
Accepted_WithSum(header, body) ==
    IF ChecksumRight(Length(header), header[7], body) THEN body ELSE <<FINGERPRINT_BADPACKET>>

\* The data of the reply GetFromUart accepts, or its code for one it does not.
\* Only a length of two or more is meant: with a shorter one the code would copy
\* a negative number of bytes.
Accepted(header, body) ==
    LET length == Length(header)
        type   == header[7]
    IN  IF SubSeq(header, 1, 2) # StartCode THEN <<FINGERPRINT_BADPACKET>>
        ELSE IF type # FINGERPRINT_ACKPACKET THEN <<FINGERPRINT_PACKETRECIEVER>>
        ELSE IF ~ChecksumRight(length, type, body) THEN <<FINGERPRINT_BADPACKET>>
        ELSE SubSeq(body, 1, length - 2)
=============================================================================
