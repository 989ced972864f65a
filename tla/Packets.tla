------------------------------ MODULE Packets ------------------------------
(***************************************************************************)
(* The bytes of a mysqlConn: a prepared statement is executed with its     *)
(* parameters, the rows of the answer are read through the connection's    *)
(* buffer and scanned.  A message longer than maxPacketSize is split into  *)
(* packets, numbered by a byte that wraps around; bytes arrive in pieces   *)
(* of any size; the buffer's memory is used again for what comes next.     *)
(*                                                                         *)
(* The numbers of the code are scaled down with the byte: the length of a  *)
(* packet has LenBytes bytes (3 in the code), and maxPacketSize is the     *)
(* largest it can hold.                                                    *)
(***************************************************************************)
EXTENDS Codec

CONSTANTS
    LenBytes,
    MaxAllowed,      \* maxAllowedPacket
    MinLong,         \* 64: the least length of a parameter sent ahead
    DefaultBufSize, MaxCachedBufSize,
    Statements,      \* what is executed, and what the server answers
    MaxExecutions    \* bound

MaxPacket == Power(Radix, LenBytes) - 1
Header    == LenBytes + 1
EOFLen    == 5

(* The commands, and what stands before the data of a parameter sent ahead:
   the command and the number of the parameter. *)
ExecCmd  == 1
LongCmd  == 2
LongHead == 2

Statement == [args : Seq([null : BOOLEAN, val : Seq(Byte)]), binary : BOOLEAN,
              types : Seq(Types), rows : Seq(Seq([null : BOOLEAN, val : Seq(Int)]))]

(* Parameters are strings, the answer has columns, and a row fits them. *)
WellTyped(s) ==
    /\ \A i \in DOMAIN s.args : Holds("string", s.args[i])
    /\ s.types # <<>>
    /\ \A j \in DOMAIN s.rows :
          /\ Len(s.rows[j]) = Len(s.types)
          /\ \A i \in DOMAIN s.types :
                Holds(IF s.binary THEN s.types[i] ELSE "string", s.rows[j][i])

ASSUME PacketsAssumption ==
    /\ LenBytes \in Nat \ {0}
    /\ {MaxAllowed, MinLong, DefaultBufSize, MaxCachedBufSize, MaxExecutions} \subseteq Nat
    /\ MinLong > 0 /\ MaxAllowed > 1 + LongHead
    /\ Header <= DefaultBufSize /\ DefaultBufSize <= MaxCachedBufSize
    /\ Statements # {} /\ Statements \subseteq Statement
    /\ \A s \in Statements : WellTyped(s)

VARIABLES
    pc,
    statement,   \* the statement in hand
    executions,  \* MaxExecutions used so far
    queue,       \* what of its messages has not been written
    fresh,       \* nothing of the first of them has been written
    sequence,    \* mc.sequence
    cachedBuf,   \* the memory of the buffer
    bigBuf,      \* the memory it last took for a packet that is too large
    buf,         \* the bytes read and not consumed: where they are
    pktLen, prevData, invalidSequence,   \* locals of readPacket
    packet,      \* the packet read last: a slice of memory, or its own
    toServer,    \* on the way to the server: messages, and a part of one
    wire,        \* bytes on the way to the client
    link,        \* "up" or "down"
    bound,       \* history: the parameters the server has executed it with
    skew,        \* history: where the server began to misnumber its answer
    fault,       \* history: the server or the network has gone wrong, once
    got          \* the rows scanned

callVars   == <<statement, executions, queue, fresh>>
bufferVars == <<cachedBuf, bigBuf, buf>>
readVars   == <<pktLen, prevData, invalidSequence, packet>>
netVars    == <<toServer, wire, link, bound, skew, fault>>
vars       == <<pc, callVars, sequence, bufferVars, readVars, netVars, got>>

Never == <<0, 0>>
Nothing == [done |-> <<>>, part |-> <<>>, seq |-> 0]

Memory(arr) == IF arr = "cached" THEN cachedBuf ELSE bigBuf
Bytes(s)    == IF s.arr = "own" THEN s.own
               ELSE Part(Memory(s.arr), s.off, s.off + s.len)
SliceOf(arr, off, len) == [arr |-> arr, off |-> off, len |-> len, own |-> <<>>]
Own(data)   == [arr |-> "own", off |-> 0, len |-> Len(data), own |-> data]
Nil         == Own(<<>>)
Zeros(n)    == [i \in 1 .. n |-> 0]

(* Mutant: the number does not wrap around. *)
MutSuccessor(n) == n + 1

(* mc.sequence is a byte. *)
Successor(n) == (n + 1) % Radix

Init ==
    /\ pc = "idle"
    /\ statement \in {CHOOSE s \in Statements : TRUE}
    /\ executions = 0
    /\ queue = <<>> /\ fresh = FALSE
    /\ sequence = 0
    /\ cachedBuf = Zeros(DefaultBufSize) /\ bigBuf = <<>>
    /\ buf = SliceOf("cached", 0, 0) /\ packet = Nil
    /\ pktLen = 0 /\ prevData = Nil /\ invalidSequence = FALSE
    /\ toServer = Nothing /\ wire = <<>> /\ link = "up"
    /\ bound = <<>> /\ skew = Never /\ fault = FALSE /\ got = <<>>

-----------------------------------------------------------------------------
(* The messages of an execution: parameters that are too long go ahead of it,
   each cut into messages of at most MaxAllowed - 1 bytes. *)
LongDataSize(args) ==
    LET share == MaxAllowed \div (Len(args) + 1)
    IN  IF share < MinLong THEN MinLong ELSE share

Ahead(args) ==
    {i \in DOMAIN args : ~args[i].null /\ Len(args[i].val) >= LongDataSize(args)}

(* Mutant: a piece starts where a whole message of the one before would end. *)
MutLongData(i, v) ==
    LET room == MaxAllowed - 1 - LongHead
        step == MaxAllowed - 1
    IN  [k \in 1 .. (Len(v) + room - 1) \div room |->
            <<LongCmd, i>> \o SubSeq(v, (k - 1) * step + 1,
                                     IF k * room < Len(v) THEN k * room ELSE Len(v))]

LongData(i, v) ==
    LET room == MaxAllowed - 1 - LongHead
    IN  [k \in 1 .. (Len(v) + room - 1) \div room |->
            <<LongCmd, i>> \o SubSeq(v, (k - 1) * room + 1,
                                     IF k * room < Len(v) THEN k * room ELSE Len(v))]

ExecuteMessage(args) == <<ExecCmd>> \o Parameters(args, Ahead(args))

Messages(args) ==
    FlattenSeq([i \in DOMAIN args |->
        IF i \in Ahead(args) THEN LongData(i, args[i].val) ELSE <<>>])
        \o <<ExecuteMessage(args)>>

(* The message is put together in the buffer, or in a larger one that the
   buffer keeps if it may. *)
Overwritten(message) ==
    LET data == Zeros(Header) \o message
    IN  IF Len(data) <= Len(cachedBuf)
        THEN data \o From(cachedBuf, Len(data))
        ELSE IF Len(data) <= MaxCachedBufSize THEN data
        ELSE Part(data, 0, Len(cachedBuf))

Execute(s) ==
    /\ pc = "idle" /\ executions < MaxExecutions
    /\ executions' = executions + 1
    /\ statement' = s
    /\ sequence' = 0
    /\ got' = <<>> /\ bound' = <<>> /\ skew' = Never
    /\ IF buf.len > 0   \* ErrBusyBuffer
       THEN UNCHANGED <<pc, queue, fresh, bufferVars>>
       ELSE /\ pc' = "write"
            /\ queue' = Messages(s.args)
            /\ fresh' = TRUE
            /\ cachedBuf' = Overwritten(ExecuteMessage(s.args))
            /\ UNCHANGED <<bigBuf, buf>>
    /\ UNCHANGED <<readVars, toServer, wire, link, fault>>

(* ErrPktTooLarge: nothing of the message is written. *)
TooLarge == fresh /\ Len(Head(queue)) > MaxAllowed

WriteTooLarge ==
    /\ pc = "write" /\ TooLarge
    /\ pc' = "idle"
    /\ queue' = <<>>
    /\ toServer' = Nothing   \* with the statement, the server drops what came ahead
    /\ UNCHANGED <<statement, executions, fresh, sequence, bufferVars, readVars,
                   wire, link, bound, skew, fault, got>>

(* Mutant: a last packet of maxPacketSize bytes is not followed by an empty one. *)
MutLastPacket(size) == size = Len(Head(queue))

LastPacket(size) == size # MaxPacket

WritePacket ==
    /\ pc = "write" /\ ~TooLarge
    /\ LET message == Head(queue)
           size    == IF Len(message) < MaxPacket THEN Len(message) ELSE MaxPacket
           whole   == toServer.part \o Part(message, 0, size)
       IN  /\ toServer' = IF size < MaxPacket
                          THEN [done |-> Append(toServer.done, whole), part |-> <<>>,
                                seq |-> sequence]
                          ELSE [done |-> toServer.done, part |-> whole, seq |-> sequence]
           /\ IF LastPacket(size)
              THEN /\ queue' = Tail(queue) /\ fresh' = TRUE
                   /\ IF Tail(queue) = <<>>
                      THEN pc' = "header" /\ sequence' = Successor(sequence)
                      ELSE sequence' = 0 /\ UNCHANGED pc
              ELSE /\ queue' = <<From(message, size)>> \o Tail(queue)
                   /\ fresh' = FALSE
                   /\ sequence' = Successor(sequence)
                   /\ UNCHANGED pc
    /\ prevData' = Nil /\ invalidSequence' = FALSE
    /\ UNCHANGED <<statement, executions, bufferVars, pktLen, packet, wire, link,
                   bound, skew, fault, got>>

(* mc.cleanup() or mc.close() *)
Close ==
    /\ pc' = "closed"
    /\ link' = "down"
    /\ UNCHANGED <<callVars, sequence, bufferVars, readVars, toServer, wire,
                   bound, skew, fault, got>>

WriteFails == pc = "write" /\ link = "down" /\ Close

-----------------------------------------------------------------------------
Need == IF pc = "header" THEN Header ELSE pktLen

(* buffer.fill: what is left is moved to the start of the memory, which is
   made larger first if need be, and bytes are read behind it until there are
   enough.  Bound: the last read takes no more than needed, or all it can. *)
Grown == ((Need \div DefaultBufSize) + 1) * DefaultBufSize

Fill ==
    /\ pc \in {"header", "body"} /\ buf.len < Need
    /\ LET grows == Need > Len(cachedBuf)
           size  == IF grows THEN Grown ELSE Len(cachedBuf)
           arr   == IF grows /\ size > MaxCachedBufSize THEN "big" ELSE "cached"
           old   == IF grows THEN Zeros(size) ELSE cachedBuf
           room  == size - buf.len
           all   == IF Len(wire) < room THEN Len(wire) ELSE room
       IN  \E n \in {Need - buf.len, all} :
              /\ Need - buf.len <= n /\ n <= Len(wire)
              /\ LET dest == Bytes(buf) \o Part(wire, 0, n) \o From(old, buf.len + n)
                 IN  IF arr = "big" THEN bigBuf' = dest /\ UNCHANGED cachedBuf
                                    ELSE cachedBuf' = dest /\ UNCHANGED bigBuf
              /\ buf' = SliceOf(arr, 0, buf.len + n)
              /\ wire' = From(wire, n)
    /\ UNCHANGED <<pc, callVars, sequence, readVars, toServer, link, bound, skew, fault, got>>

(* io.ErrUnexpectedEOF *)
FillFails ==
    /\ pc \in {"header", "body"}
    /\ buf.len + Len(wire) < Need /\ link = "down"
    /\ Close

(* buf.readNext *)
Taken    == SliceOf(buf.arr, buf.off, Need)
Consumed == SliceOf(buf.arr, buf.off + Need, buf.len - Need)

Returns(s) == pc' = "row" /\ packet' = s

(* The header of a packet.  An empty one ends a message of full packets. *)
ReadHeader ==
    /\ pc = "header" /\ buf.len >= Need
    /\ LET data == Bytes(Taken)
           seq  == data[Header]
           len  == Number(Part(data, 0, LenBytes))
       IN  IF (seq # sequence /\ prevData # Nil) \/ (len = 0 /\ prevData = Nil)
           THEN Close   \* ErrPktSyncMul, ErrInvalidConn
           ELSE /\ buf' = Consumed
                /\ sequence' = Successor(seq)
                /\ invalidSequence' = (invalidSequence \/ seq # sequence)
                /\ pktLen' = len
                /\ IF len = 0 THEN Returns(prevData)
                              ELSE pc' = "body" /\ UNCHANGED packet
                /\ UNCHANGED <<callVars, cachedBuf, bigBuf, prevData, netVars, got>>

(* Mutant: a full packet takes the place of the ones before. *)
MutKept(data) == Own(Bytes(data))

(* append(prevData, data...) copies. *)
Kept(data) == Own(Bytes(prevData) \o Bytes(data))

(* Mutant: wrong numbers are let pass, as those of errors are. *)
MutRefused(message) == FALSE

(* ErrPktSync, unless the server reports an error. *)
Refused(message) == invalidSequence /\ message[1] # iERR

ReadBody ==
    /\ pc = "body" /\ buf.len >= Need
    /\ LET message == Bytes(prevData) \o Bytes(Taken)
       IN  IF pktLen = MaxPacket
           THEN /\ prevData' = Kept(Taken)
                /\ pc' = "header"
                /\ buf' = Consumed
                /\ UNCHANGED <<callVars, sequence, cachedBuf, bigBuf, pktLen,
                               invalidSequence, packet, netVars, got>>
           ELSE IF Refused(message) THEN Close
           ELSE /\ Returns(IF prevData = Nil THEN Taken ELSE Own(message))
                /\ buf' = Consumed
                /\ link' = IF invalidSequence THEN "down" ELSE link
                /\ UNCHANGED <<callVars, sequence, cachedBuf, bigBuf, pktLen,
                               prevData, invalidSequence, toServer, wire, bound,
                               skew, fault, got>>

(* What readRow makes of it, and Scan of the row. *)
Decoded(data) ==
    IF statement.binary THEN BinaryRow(data, statement.types)
                        ELSE TextRow(data, statement.types)

Scan ==
    /\ pc = "row"
    /\ LET data == Bytes(packet)
       IN  IF data[1] = iERR \/ (data[1] = iEOF /\ Len(data) = EOFLen)
           THEN /\ pc' = IF invalidSequence THEN "closed" ELSE "idle"
                /\ UNCHANGED got
           ELSE /\ got' = Append(got, Decoded(data))
                /\ pc' = "header"
    /\ prevData' = Nil /\ invalidSequence' = FALSE
    /\ UNCHANGED <<callVars, sequence, bufferVars, pktLen, packet, netVars>>

-----------------------------------------------------------------------------
(* The server. *)
PacketsOf(message) == Len(message) \div MaxPacket + 1

Chunk(message, k) ==
    SubSeq(message, (k - 1) * MaxPacket + 1,
           IF k * MaxPacket < Len(message) THEN k * MaxPacket ELSE Len(message))

Framed(data, seq) == LittleEndian(Len(data), LenBytes) \o <<seq % Radix>> \o data

EOFMessage == <<iEOF, 0, 0, 0, 0>>
ErrMessage == <<iERR, 0>>

Answer ==
    [i \in DOMAIN statement.rows |->
        IF statement.binary THEN EncodedBinary(statement.rows[i], statement.types)
                            ELSE EncodedText(statement.rows[i])] \o <<EOFMessage>>

(* All packets of the answer; from packet k of message j on, their numbers are
   off by one if "from" is <<j, k>>. *)
Off(from, j, k) ==
    IF from # Never /\ (j > from[1] \/ (j = from[1] /\ k >= from[2])) THEN 1 ELSE 0

Split(messages, from) ==
    FlattenSeq([j \in DOMAIN messages |->
        [k \in 1 .. PacketsOf(messages[j]) |->
            [data |-> Chunk(messages[j], k), off |-> Off(from, j, k)]]])

Packed(messages, seq, from) ==
    LET packets == Split(messages, from)
    IN  FlattenSeq([i \in DOMAIN packets |->
            Framed(packets[i].data, seq + i - 1 + packets[i].off)])

LongReceived(i) ==
    FlattenSeq([m \in DOMAIN toServer.done |->
        IF toServer.done[m][1] = LongCmd /\ toServer.done[m][2] = i
        THEN From(toServer.done[m], LongHead) ELSE <<>>])

(* A COM_STMT_EXECUTE has arrived to its end. *)
Asked ==
    /\ link = "up"
    /\ toServer.done # <<>> /\ toServer.part = <<>>
    /\ Last(toServer.done)[1] = ExecCmd

ServerAnswers(from) ==
    /\ Asked
    /\ LET n == Len(statement.args)
       IN  bound' = BoundParameters(From(Last(toServer.done), 1), n,
                                    [i \in 1 .. n |-> LongReceived(i)])
    /\ wire' = wire \o Packed(Answer, toServer.seq + 1, from)
    /\ skew' = from
    /\ toServer' = Nothing
    /\ UNCHANGED <<pc, callVars, sequence, bufferVars, readVars, link, got>>

ServerRefuses ==
    /\ Asked
    /\ wire' = wire \o Framed(ErrMessage, toServer.seq + 1)
    /\ toServer' = Nothing
    /\ UNCHANGED <<pc, callVars, sequence, bufferVars, readVars, link, bound,
                   skew, got>>

Server == (ServerAnswers(Never) \/ ServerRefuses) /\ UNCHANGED fault

(* What goes wrong, once: an answer is misnumbered, ... *)
Misnumbered ==
    \E j \in DOMAIN Answer : \E k \in 1 .. PacketsOf(Answer[j]) :
        ServerAnswers(<<j, k>>)

(* ... the server says goodbye to an idle client, ... *)
Goodbye ==
    /\ link = "up" /\ toServer.done = <<>> /\ toServer.part = <<>>
    /\ link' = "down"
    /\ wire' = wire \o Framed(ErrMessage, 0)
    /\ UNCHANGED <<pc, callVars, sequence, bufferVars, readVars, toServer, bound,
                   skew, got>>

(* ... or the connection is lost after any part of an answer. *)
Lost ==
    /\ link = "up"
    /\ link' = "down"
    /\ \E n \in 0 .. Len(wire) : wire' = Part(wire, 0, n)
    /\ UNCHANGED <<pc, callVars, sequence, bufferVars, readVars, toServer, bound,
                   skew, got>>

-----------------------------------------------------------------------------
Client ==
    \/ WriteTooLarge \/ WritePacket \/ WriteFails
    \/ Fill \/ FillFails \/ ReadHeader \/ ReadBody \/ Scan

Next ==
    \/ \E s \in Statements : Execute(s)
    \/ Client
    \/ Server
    \/ ~fault /\ fault' = TRUE /\ (Misnumbered \/ Goodbye \/ Lost)

Spec == Init /\ [][Next]_vars

-----------------------------------------------------------------------------
(* Properties. *)

(* The server executes a statement with the parameters it was called with,
   whatever goes ahead of it and however it is split. *)
ParametersArrive == bound # <<>> => bound = statement.args

(* What is scanned are the rows of the server, each of them whole, however
   they are split, in whatever pieces they arrive, wherever the connection
   breaks, and although the memory a row lies in is used for the next one. *)
RowsIntact == IsPrefix(got, statement.rows)

(* The driver gives up a connection only after something has gone wrong: the
   numbers of the packets never run apart, over a wrap-around either, and the
   buffer is empty when the next statement takes it. *)
NoFalseAlarm ==
    ~fault => pc # "closed" /\ (pc = "idle" => buf.len = 0)

(* Nothing is scanned of an answer from where its numbers are wrong on; only a
   message of nothing but full packets escapes the test, which is not made for
   the empty packet that ends it. *)
MisnumberedRefused ==
    skew # Never /\ Len(got) >= skew[1] =>
        Len(Answer[skew[1]]) % MaxPacket = 0 /\ skew[2] = 1

(* The two never wait for each other: while the connection is up, the bytes the
   driver wants are on their way, or the server has a whole command to answer.
   No packet that one of them believes to have sent is missing. *)
NoMutualWait ==
    pc \in {"header", "body"} /\ buf.len + Len(wire) < Need /\ link = "up" => Asked
=============================================================================
