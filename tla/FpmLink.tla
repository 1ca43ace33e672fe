------------------------------ MODULE FpmLink -------------------------------
(***************************************************************************)
(* The serial line to the fingerprint sensor, byte by byte (packet.c over  *)
(* UART.c).  The main thread and post_requestThread send commands over one *)
(* descriptor without a mutex; each GetFromUart sends its command, then    *)
(* reads a header and a body by UART_read.                                 *)
(*                                                                         *)
(* The descriptor is opened with VMIN = 1: read(2) waits until a byte is   *)
(* there, without any limit, and returns as many as have come.  UART_read  *)
(* takes every count but the one it asked for as an error, drops the bytes *)
(* and reads afresh.  Nothing is flushed after UART_Init.                  *)
(*                                                                         *)
(* The sensor answers in the order of the commands.  A reply may be        *)
(* missing, or have one byte changed.                                      *)
(***************************************************************************)
EXTENDS Packet

CONSTANTS
    Threads,       \* who sends commands
    Replies,       \* the data of the sensor's replies
    Silence,       \* no reply
    Noise,         \* bound: the values a changed byte may get
    MaxRetries,    \* g_max_retries
    MaxCommands,   \* bound: commands sent
    MaxShort,      \* bound: reads that return less than there is
    MaxFaults      \* bound: replies that are missing or changed

\* Noise that announces a packet without content is left out: see Packet.
FpmLinkAssumption ==
    /\ Replies \subseteq Seq(Byte)
    /\ \A r \in Replies : Len(r) \in 1..SIZE - MIN_SIZE_PACKET - 2
    /\ Silence \notin Seq(Byte)
    /\ Noise \subseteq Byte \ {0, 1}
    /\ MaxRetries \in Nat \ {0}
    /\ MaxCommands \in Nat /\ MaxShort \in Nat /\ MaxFaults \in Nat

ASSUME FpmLinkAssumption

Errors == {<<FINGERPRINT_TIMEOUT>>, <<FINGERPRINT_BADPACKET>>, <<FINGERPRINT_PACKETRECIEVER>>}

VARIABLES
    line,       \* bytes of the sensor not yet read
    place,      \* where each thread is in GetFromUart
    header,     \* pData of each thread, as far as the header
    tries,      \* retries_UART_read of each thread
    answer,     \* history: the sensor's answer to the command of each thread that asks
    heard,      \* what GetFromUart returned last
    sent,       \* history: the answers since the line was quiet
    disturbed,  \* history: replies may have got out of step since then
    commands, shorts, faults   \* counters for the bounds

bounds == <<commands, shorts, faults>>
vars   == <<line, place, header, tries, answer, heard, sent, disturbed, bounds>>

asking == {t \in Threads : place[t] # "idle"}

Init ==
    /\ line = <<>>
    /\ place = [t \in Threads |-> "idle"]
    /\ header = [t \in Threads |-> <<>>]
    /\ tries = [t \in Threads |-> 0]
    /\ answer = [t \in Threads |-> Silence] /\ heard = [t \in Threads |-> Silence]
    /\ sent = {} /\ disturbed = FALSE
    /\ commands = 0 /\ shorts = 0 /\ faults = 0

-----------------------------------------------------------------------------
(* Sending *)

\* Nobody waits for a reply and no byte of one is left.
Quiet == asking = {} /\ line = <<>>

\* t sends a command; a is what the sensor answers and bytes what arrives of it.
SendCommand(t, a, bytes) ==
    /\ place[t] = "idle" /\ commands < MaxCommands
    /\ place' = [place EXCEPT ![t] = "header"]
    /\ line' = line \o bytes
    /\ answer' = [answer EXCEPT ![t] = a]
    /\ sent' = (IF Quiet THEN {} ELSE sent) \cup ({a} \ {Silence})
    /\ commands' = commands + 1
    /\ heard' = [heard EXCEPT ![t] = Silence]
    /\ UNCHANGED <<header, tries, shorts>>

Answered(t) ==
    /\ \E a \in Replies : SendCommand(t, a, SendToUart(FINGERPRINT_ACKPACKET, a))
    /\ disturbed' = ~Quiet
    /\ UNCHANGED faults

\* The line spoils one byte of the reply, or the sensor says nothing.
Fault(t) ==
    /\ faults < MaxFaults
    /\ \/ SendCommand(t, Silence, <<>>)
       \/ \E a \in Replies, x \in Noise :
             LET bytes == SendToUart(FINGERPRINT_ACKPACKET, a)
             IN  \E i \in DOMAIN bytes : SendCommand(t, a, [bytes EXCEPT ![i] = x])
    /\ disturbed' = TRUE
    /\ faults' = faults + 1

-----------------------------------------------------------------------------
(* Receiving *)

Received(n) == SubSeq(line, 1, n)

\* A plausible slip: the input is flushed after a read.
Rest_Flushed(n) == <<>>

Rest(n) == SubSeq(line, n + 1, Len(line))

\* The count UART_read asks for.
Wanted(t) == IF place[t] = "header" THEN MIN_SIZE_PACKET ELSE Length(header[t])

\* GetFromUart returns r.
Return(t, r) ==
    /\ place' = [place EXCEPT ![t] = "idle"]
    /\ header' = [header EXCEPT ![t] = <<>>]
    /\ tries' = [tries EXCEPT ![t] = 0]
    /\ heard' = [heard EXCEPT ![t] = r]
    /\ answer' = [answer EXCEPT ![t] = Silence]

\* A plausible slip: the two bytes of the sum stay on the line.
BodyRead_NoSum(length) == IF length > 2 THEN length - 2 ELSE length

\* How many bytes the second UART_read takes.
BodyRead(length) == length

\* The header is complete.  A length that does not fit ends the command.
ReadHeader(t) ==
    /\ place[t] = "header" /\ Len(line) >= MIN_SIZE_PACKET
    /\ line' = Rest(MIN_SIZE_PACKET)
    /\ IF Fits(Length(Received(MIN_SIZE_PACKET)))
       THEN /\ place' = [place EXCEPT ![t] = "body"]
            /\ header' = [header EXCEPT ![t] = Received(MIN_SIZE_PACKET)]
            /\ tries' = [tries EXCEPT ![t] = 0]
            /\ UNCHANGED <<answer, heard>>
       ELSE Return(t, <<FINGERPRINT_TIMEOUT>>)
    /\ UNCHANGED <<sent, disturbed, bounds>>

\* The body is complete.
ReadBody(t) ==
    /\ place[t] = "body" /\ Len(line) >= Wanted(t)
    /\ line' = Rest(BodyRead(Wanted(t)))
    /\ Return(t, Accepted(header[t], Received(Wanted(t))))
    /\ UNCHANGED <<sent, disturbed, bounds>>

\* read(2) returns n bytes, fewer than wanted: they are lost.
ReadShort(t, n) ==
    /\ t \in asking /\ n < Wanted(t)
    /\ line' = Rest(n)
    /\ IF tries[t] + 1 = MaxRetries
       THEN Return(t, <<FINGERPRINT_TIMEOUT>>)
       ELSE /\ tries' = [tries EXCEPT ![t] = @ + 1]
            /\ UNCHANGED <<place, header, answer, heard>>
    /\ disturbed' = TRUE
    /\ UNCHANGED <<sent, commands, faults>>

\* Either the rest has not come yet, or there is no more.
FallShort(t) ==
    \/ /\ shorts < MaxShort
       /\ \E n \in 1..Len(line) : ReadShort(t, n)
       /\ shorts' = shorts + 1
    \/ /\ line # <<>> /\ ReadShort(t, Len(line))
       /\ UNCHANGED shorts

-----------------------------------------------------------------------------
Next ==
    \E t \in Threads :
        Answered(t) \/ Fault(t) \/ ReadHeader(t) \/ ReadBody(t) \/ FallShort(t)

Fairness == \A t \in Threads : WF_vars(ReadHeader(t)) /\ WF_vars(ReadBody(t)) /\ WF_vars(FallShort(t))

Spec     == Init /\ [][Next]_vars
FairSpec == Spec /\ Fairness

-----------------------------------------------------------------------------
(* Properties *)

TypeOK ==
    /\ line \in Seq(Byte)
    /\ place \in [Threads -> {"idle", "header", "body"}]
    /\ header \in [Threads -> Seq(Byte)]
    /\ tries \in [Threads -> 0..MaxRetries - 1]
    /\ \A t \in Threads :
          /\ Len(header[t]) = IF place[t] = "body" THEN MIN_SIZE_PACKET ELSE 0
          /\ place[t] = "idle" => tries[t] = 0
    /\ answer \in [Threads -> Replies \cup {Silence}]
    /\ sent \subseteq Replies
    /\ disturbed \in BOOLEAN

\* A command that nothing has disturbed returns the sensor's answer to it, and
\* not that to another command or an error (GetFromUart, packet.c:327).
OwnAnswer ==
    [][\A t \in Threads :
         t \in asking /\ t \notin asking' /\ ~disturbed' => heard'[t] = answer[t]]_vars

\* Whatever disturbs the line, what a command returns was said by the sensor or is
\* one of the errors GetFromUart makes up: a window of bytes that begins in the
\* middle of a reply, a reply put together from two, or a spoilt one, does not pass
\* the start code, the type and the sum.  It depends on the replies: a sum of
\* sixteen bits can be right by chance.
RepliesAreReal ==
    [][\A t \in Threads :
         heard'[t] # heard[t] => heard'[t] \in sent \cup Errors \cup {Silence}]_vars

\* After a command that nothing has disturbed no byte is left on the line, so the
\* next command begins at the start of its reply.
InStep == asking = {} /\ ~disturbed => line = <<>>

\* UART_read gives up after g_max_retries reads, but has no time limit: a command
\* returns when nothing has disturbed the line.
CommandsReturn ==
    \A t \in Threads : t \in asking ~> t \notin asking \/ disturbed

\* The line carries out what CommandLink says of commands.
Commands == INSTANCE CommandLink WITH Answers <- Replies

CommandStep ==
    \/ \E t \in Threads, a \in Replies \cup {Silence} : Commands!Command(t, a)
    \/ \E t \in Threads : Commands!Return(t, heard'[t])
    \/ Commands!Disturb

CommandSpec == Commands!LinkInit /\ [][CommandStep]_(Commands!linkVars)
=============================================================================
