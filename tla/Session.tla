------------------------------ MODULE Session ------------------------------
(***************************************************************************)
(* A sequence of statements through sql.DB and the MySQL driver: the retry *)
(* of database/sql over pooled and new connections, and mysqlConn's        *)
(* exchange with the server for each statement.                            *)
(*                                                                         *)
(* Packets are their kind, the statement they answer, the flag that more   *)
(* result sets follow, and the sequence number.  The program never cancels *)
(* a context and opens no transaction, so neither does the model.          *)
(***************************************************************************)
EXTENDS Naturals, Sequences

CONSTANTS
    MaxStmts,   \* bound: statements
    MaxBreaks,  \* bound: failures of the network and closings by the server
    MaxRows,    \* bound: rows of a result set
    MaxPackets  \* bound: packets of an answer

ASSUME ConstantsAssumption ==
    {MaxStmts, MaxBreaks, MaxRows, MaxPackets} \subseteq Nat

Stmts == 1 .. MaxStmts
Kinds == {"ping", "text", "exec", "query"}   \* the last two take parameters

VARIABLES
    (* the program and database/sql *)
    pc,         \* what the statement waits for
    stmt,       \* the statement in progress, or the last one
    kind,       \* its kind
    tries,      \* connections it has been tried on before
    result,     \* what the call will return
    call,       \* outcome of every statement
    (* mysqlConn *)
    conn,       \* the connection: "none", "open", or "closed" but still held
    sequence,   \* number expected of the next packet
    buf,        \* packets read from the network and not consumed
    more,       \* statusMoreResultsExists
    discard,    \* the rest of the answer is read to be thrown away
    prepared,   \* a statement handle is to be closed
    (* network and server *)
    link,       \* "up" or "down"
    inbox,      \* commands written, not served
    out,        \* packets of the answer, not on their way
    wire,       \* packets that have arrived at the client's socket
    late,       \* statements of lost connections the server may still execute
    breaks,     \* MaxBreaks used so far
    (* history *)
    effects,    \* how often each statement was executed
    origin      \* statements whose packets were read for each statement

callVars == <<stmt, kind, tries, call>>
connVars == <<conn, sequence, buf, more, discard, prepared>>
netVars  == <<link, inbox, out, wire, late, breaks>>
vars     == <<pc, callVars, result, connVars, netVars, effects, origin>>

Sending == {"send", "execute"}
Reading == {"pong", "prepared", "paramDefs", "colDefs", "header", "columns",
            "nextHeader", "rows"}

Command == [cmd : {"ping", "prepare", "run"}, of : Stmts]
Packet  == [is : {"OK", "ERR", "EOF", "header", "def", "row"},
            more : BOOLEAN, of : Stmts \cup {0}, seq : Nat]

TypeOK ==
    /\ pc \in {"idle", "checkout", "connect", "hold", "closeStmt", "release"}
               \cup Sending \cup Reading
    /\ stmt \in Stmts \cup {0} /\ kind \in Kinds /\ tries \in 0 .. 2
    /\ result \in {"ok", "error"}
    /\ call \in [Stmts -> {"none", "open", "ok", "error"}]
    /\ conn \in {"none", "open", "closed"} /\ sequence \in Nat
    /\ buf \in Seq(Packet) /\ wire \in Seq(Packet) /\ out \in Seq(Packet)
    /\ more \in BOOLEAN /\ discard \in BOOLEAN /\ prepared \in BOOLEAN
    /\ link \in {"up", "down"} /\ inbox \in Seq(Command)
    /\ late \subseteq Stmts /\ breaks \in Nat
    /\ effects \in [Stmts -> Nat] /\ origin \in [Stmts -> SUBSET (Stmts \cup {0})]

Init ==
    /\ pc = "idle" /\ stmt = 0 /\ kind = "ping" /\ tries = 0 /\ result = "ok"
    /\ call = [s \in Stmts |-> "none"]
    /\ conn = "none" /\ sequence = 0 /\ buf = <<>> /\ more = FALSE
    /\ discard = FALSE /\ prepared = FALSE
    /\ link = "down" /\ inbox = <<>> /\ out = <<>> /\ wire = <<>>
    /\ late = {} /\ breaks = 0
    /\ effects = [s \in Stmts |-> 0]
    /\ origin = [s \in Stmts |-> {}]

-----------------------------------------------------------------------------
(* database/sql: up to two tries on a pooled connection, or a new one if none
   is idle, and a last one on a new connection; only after ErrBadConn. *)

(* The program hands over its next statement; NewSherryDB begins with Ping. *)
Issue(k) ==
    /\ pc = "idle" /\ stmt < MaxStmts
    /\ (stmt = 0) = (k = "ping")
    /\ stmt' = stmt + 1 /\ kind' = k /\ tries' = 0
    /\ call' = [call EXCEPT ![stmt'] = "open"]
    /\ pc' = "checkout"
    /\ UNCHANGED <<result, connVars, netVars, effects, origin>>

Unserved == {inbox[i].of : i \in {j \in DOMAIN inbox :
                                     inbox[j].cmd # "prepare"}}

(* The connection is given up.  What it was sent may still be executed. *)
Drop ==
    /\ conn' = "none" /\ link' = "down"
    /\ inbox' = <<>> /\ out' = <<>> /\ wire' = <<>> /\ buf' = <<>>
    /\ late' = late \cup Unserved

(* driver.ErrBadConn *)
Retry ==
    /\ Drop
    /\ prepared' = FALSE
    /\ IF tries < 2
       THEN tries' = tries + 1 /\ pc' = "checkout" /\ UNCHANGED result
       ELSE result' = "error" /\ pc' = "release" /\ UNCHANGED tries
    /\ UNCHANGED <<stmt, kind, call, sequence, more, discard, breaks,
                   effects, origin>>

(* ResetSession, with the check that nothing has arrived on the idle socket.
   A link can be down without that being known here. *)
Reuse ==
    /\ pc = "checkout" /\ conn = "open"
    /\ buf = <<>> /\ wire = <<>>
    /\ pc' = "send"
    /\ UNCHANGED <<callVars, result, connVars, netVars, effects, origin>>

FoundStale ==
    /\ pc = "checkout" /\ conn = "open"
    /\ buf # <<>> \/ wire # <<>> \/ link = "down"
    /\ Retry

Dial ==
    /\ pc = "checkout" /\ conn = "none"
    /\ pc' = "connect"
    /\ UNCHANGED <<callVars, result, connVars, netVars, effects, origin>>

(* connector.Connect, whose steps are those of Handshake. *)
Connected ==
    /\ pc = "connect"
    /\ conn' = "open" /\ link' = "up"
    /\ sequence' = 0 /\ more' = FALSE
    /\ pc' = "send"
    /\ UNCHANGED <<callVars, result, buf, discard, prepared, inbox, out, wire,
                   late, breaks, effects, origin>>

ConnectFails ==
    /\ pc = "connect"
    /\ result' = "error" /\ pc' = "release"
    /\ UNCHANGED <<callVars, connVars, netVars, effects, origin>>

(* ErrBadConn, from SET NAMES. *)
ConnectBad == pc = "connect" /\ Retry

(* putConn: a connection that is closed or has unread data is dropped. *)
Release ==
    /\ pc = "release"
    /\ IF conn = "open" /\ buf = <<>>
       THEN UNCHANGED <<conn, link, inbox, out, wire, buf, late>>
       ELSE Drop
    /\ call' = [call EXCEPT ![stmt] = result]
    /\ pc' = "idle"
    /\ UNCHANGED <<stmt, kind, tries, result, sequence, more, discard, prepared,
                   breaks, effects, origin>>

-----------------------------------------------------------------------------
(* Commands: writeCommandPacket, writeCommandPacketStr, writeExecutePacket. *)

(* The call is over; a handle that was prepared is closed first. *)
Finish(outcome) == result' = outcome /\ pc' = "closeStmt"

NextCommand ==
    IF kind = "ping" THEN "ping"
    ELSE IF kind = "text" \/ pc = "execute" THEN "run"
    ELSE "prepare"

Answer ==
    IF NextCommand = "ping" THEN "pong"
    ELSE IF NextCommand = "prepare" THEN "prepared"
    ELSE "header"

(* Mutant: resetSequence is forgotten. *)
MutSendCountsOn ==
    /\ pc \in Sending /\ buf = <<>>
    /\ IF link = "up"
       THEN inbox' = Append(inbox, [cmd |-> NextCommand, of |-> stmt])
       ELSE UNCHANGED inbox
    /\ sequence' = (sequence + 1) % 256
    /\ pc' = Answer
    /\ discard' = (kind = "exec")
    /\ UNCHANGED <<callVars, result, conn, buf, more, prepared, link, out, wire,
                   late, breaks, effects, origin>>

(* resetSequence and writePacket; a dead link can still take the packet. *)
Send ==
    /\ pc \in Sending /\ buf = <<>>
    /\ IF link = "up"
       THEN inbox' = Append(inbox, [cmd |-> NextCommand, of |-> stmt])
       ELSE UNCHANGED inbox
    /\ sequence' = 1
    /\ pc' = Answer
    /\ discard' = (kind = "exec")
    /\ UNCHANGED <<callVars, result, conn, buf, more, prepared, link, out, wire,
                   late, breaks, effects, origin>>

(* errBadConnNoWrite: not a byte was written, and the statement is retried. *)
SendsNothing ==
    /\ pc \in Sending /\ buf = <<>> /\ link = "down"
    /\ Retry

(* Some bytes were written.  Only Prepare retries then. *)
SendsPart ==
    /\ pc \in Sending /\ buf = <<>> /\ link = "down"
    /\ IF NextCommand = "prepare" THEN Retry
       ELSE /\ conn' = "closed"
            /\ Finish("error")
            /\ UNCHANGED <<callVars, sequence, buf, more, discard, prepared,
                           netVars, effects, origin>>

(* ErrBusyBuffer: something was read behind the last answer. *)
BufferBusy ==
    /\ pc \in Sending /\ buf # <<>>
    /\ IF NextCommand = "prepare" THEN Retry
       ELSE /\ Finish("error")
            /\ UNCHANGED <<callVars, connVars, netVars, effects, origin>>

(* mysqlStmt.Close writes its command and waits for nothing; the server does
   nothing that shows.  The write may find the link down. *)
CloseStmt ==
    /\ pc = "closeStmt"
    /\ pc' = "release"
    /\ conn' \in IF prepared /\ conn = "open" /\ link = "down"
                 THEN {"open", "closed"} ELSE {conn}
    /\ prepared' = FALSE
    /\ UNCHANGED <<callVars, result, sequence, buf, more, discard, netVars,
                   effects, origin>>
-----------------------------------------------------------------------------
(* readPacket: the buffer is filled with what has arrived; a packet out of
   sequence closes the connection, and is an error unless it says ERR. *)
Arrived == buf \o wire
Pkt     == Head(Arrived)

ReadPacket ==
    /\ conn = "open" /\ Arrived # <<>>
    /\ buf' = IF buf = <<>> THEN Tail(wire) ELSE Tail(buf)
    /\ wire' = IF buf = <<>> THEN <<>> ELSE wire
    /\ sequence' = (Pkt.seq + 1) % 256
    /\ conn' = IF Pkt.seq = sequence THEN "open" ELSE "closed"
    /\ origin' = [origin EXCEPT ![stmt] = @ \cup {Pkt.of}]
    /\ UNCHANGED <<callVars, link, inbox, out, late, breaks, effects>>

(* A packet of the answer, in sequence. *)
Reads(kinds) == ReadPacket /\ Pkt.seq = sequence /\ Pkt.is \in kinds

(* ErrPktSync, handleErrorPacket, or ErrMalformPkt. *)
ReadsError ==
    /\ pc \in Reading
    /\ ReadPacket
    /\ Pkt.is = "ERR" \/ Pkt.seq # sequence
    /\ more' = (more /\ ~(pc = "nextHeader" /\ ~discard))
    /\ Finish("error")
    /\ UNCHANGED <<discard, prepared>>

(* Mutant: an answer that does not come counts as a bad connection. *)
MutReadFailsRetries ==
    /\ pc \in Reading
    /\ Arrived = <<>> /\ link = "down"
    /\ Retry

(* ErrInvalidConn: nothing more will come. *)
ReadFails ==
    /\ pc \in Reading
    /\ Arrived = <<>> /\ link = "down"
    /\ conn' = "closed"
    /\ more' = (more /\ ~(pc = "nextHeader" /\ ~discard))
    /\ Finish("error")
    /\ UNCHANGED <<callVars, sequence, buf, discard, prepared, netVars,
                   effects, origin>>

ReadResultOK ==
    /\ pc = "pong"
    /\ Reads({"OK"})
    /\ more' = Pkt.more
    /\ Finish("ok")
    /\ UNCHANGED <<discard, prepared>>

ReadPrepareResultPacket ==
    /\ pc = "prepared"
    /\ Reads({"OK"})
    /\ pc' = "paramDefs"
    /\ UNCHANGED <<result, more, discard, prepared>>

(* readUntilEOF over the parameters, then over the columns, if any. *)
ReadDefinitions ==
    /\ pc \in {"paramDefs", "colDefs"}
    /\ \/ Reads({"def"}) /\ UNCHANGED <<pc, more, prepared>>
       \/ /\ Reads({"EOF"})
          /\ more' = Pkt.more
          /\ pc' = IF pc = "paramDefs" /\ kind = "query" THEN "colDefs"
                   ELSE "execute"
          /\ prepared' = (pc' = "execute")
    /\ UNCHANGED <<result, discard>>

(* After a result set: the next one, or the end of the answer. *)
AfterResults ==
    IF more' THEN pc' = "nextHeader" /\ UNCHANGED result ELSE Finish("ok")

(* Mutant: the status flags of one result set stay for the next. *)
MutReadHeaderKeepsMore ==
    /\ pc \in {"header", "nextHeader"}
    /\ \/ Reads({"OK"}) /\ more' = (more \/ Pkt.more) /\ AfterResults
       \/ Reads({"header"}) /\ pc' = "columns" /\ UNCHANGED <<result, more>>
    /\ UNCHANGED <<discard, prepared>>

(* readResultSetHeaderPacket *)
ReadHeader ==
    /\ pc \in {"header", "nextHeader"}
    /\ \/ Reads({"OK"}) /\ more' = Pkt.more /\ AfterResults
       \/ Reads({"header"}) /\ pc' = "columns" /\ UNCHANGED <<result, more>>
    /\ UNCHANGED <<discard, prepared>>

(* readColumns leaves the status alone, readUntilEOF sets it. *)
ReadColumns ==
    /\ pc = "columns"
    /\ \/ Reads({"def"}) /\ UNCHANGED <<pc, more>>
       \/ /\ Reads({"EOF"})
          /\ more' = IF discard THEN Pkt.more ELSE more
          /\ pc' = "rows"
    /\ UNCHANGED <<result, discard, prepared>>

(* Rows: read by the program one by one, or thrown away.  Rows that have more
   result sets behind them stay open until the program closes them. *)
ReadRow ==
    /\ pc = "rows"
    /\ \/ Reads({"row"}) /\ UNCHANGED <<pc, result, more>>
       \/ /\ Reads({"EOF"})
          /\ more' = Pkt.more
          /\ IF more' /\ ~discard THEN pc' = "hold" /\ UNCHANGED result
             ELSE AfterResults
    /\ UNCHANGED <<discard, prepared>>

(* Mutant: Close does not drain the rows. *)
MutCloseRowsLeaves ==
    /\ pc \in {"rows", "hold"} /\ ~discard
    /\ Finish("ok")
    /\ UNCHANGED <<callVars, conn, sequence, buf, more, discard, prepared,
                   netVars, effects, origin>>

(* rows.Close, at any row: drain the rows, then discardResults. *)
CloseRows ==
    /\ pc \in {"rows", "hold"} /\ ~discard
    /\ discard' = TRUE
    /\ pc' = IF pc = "rows" THEN "rows" ELSE "nextHeader"
    /\ UNCHANGED <<callVars, result, conn, sequence, buf, more, prepared,
                   netVars, effects, origin>>

-----------------------------------------------------------------------------
(* The server and the network. *)

OK(m)  == <<[is |-> "OK", more |-> m]>>
ERR    == <<[is |-> "ERR", more |-> FALSE]>>
EOF(m) == <<[is |-> "EOF", more |-> m]>>
Many(kind_, n) == [i \in 1 .. n |-> [is |-> kind_, more |-> FALSE]]

Definitions == Many("def", 1) \o EOF(FALSE)

RowsOf(m, end) ==
    {Many("header", 1) \o Many("def", 1) \o EOF(m) \o Many("row", n) \o end :
        n \in 0 .. MaxRows}

ResultSet(m) == {OK(m)} \cup RowsOf(m, EOF(m))
LastResult   == ResultSet(FALSE) \cup {ERR} \cup RowsOf(FALSE, ERR)

TwoResults == UNION {{a \o b : b \in LastResult} : a \in ResultSet(TRUE)}

Answers(c) ==
    IF c.cmd = "ping" THEN {OK(FALSE), ERR}
    ELSE IF c.cmd = "prepare"
    THEN {ERR, OK(FALSE) \o Definitions \o
                  (IF kind = "query" THEN Definitions ELSE <<>>)}
    ELSE {a \in LastResult \cup TwoResults : Len(a) <= MaxPackets}

(* The server numbers an answer from 1; ERR alone refuses the command. *)
Serve ==
    /\ link = "up" /\ inbox # <<>> /\ out = <<>>
    /\ LET c == Head(inbox) IN \E a \in Answers(c) :
          /\ out' = [i \in 1 .. Len(a) |->
                        [is |-> a[i].is, more |-> a[i].more, of |-> c.of,
                         seq |-> i % 256]]
          /\ effects' = IF c.cmd = "prepare" \/ a = ERR THEN effects
                        ELSE [effects EXCEPT ![c.of] = @ + 1]
    /\ inbox' = Tail(inbox)
    /\ UNCHANGED <<pc, callVars, result, connVars, link, wire, late, breaks,
                   origin>>

Deliver ==
    /\ link = "up" /\ out # <<>>
    /\ wire' = Append(wire, Head(out))
    /\ out' = Tail(out)
    /\ UNCHANGED <<pc, callVars, result, connVars, link, inbox, late, breaks,
                   effects, origin>>

Breaks == link = "up" /\ breaks < MaxBreaks /\ breaks' = breaks + 1

(* The connection is lost; what was on its way may or may not arrive. *)
Break ==
    /\ Breaks
    /\ link' = "down" /\ out' = <<>> /\ inbox' = <<>>
    /\ wire' \in {wire, <<>>}
    /\ late' \in {late, late \cup Unserved}
    /\ UNCHANGED <<pc, callVars, result, connVars, effects, origin>>

(* wait_timeout, or a shutdown: the server says so, unasked, and leaves. *)
KillIdle ==
    /\ Breaks
    /\ inbox = <<>> /\ out = <<>>
    /\ wire' = Append(wire, [is |-> "ERR", more |-> FALSE, of |-> 0, seq |-> 0])
    /\ link' = "down"
    /\ UNCHANGED <<pc, callVars, result, connVars, inbox, out, late, effects,
                   origin>>

ExecuteLate(s) ==
    /\ s \in late
    /\ effects' = [effects EXCEPT ![s] = @ + 1]
    /\ late' = late \ {s}
    /\ UNCHANGED <<pc, callVars, result, connVars, link, inbox, out, wire,
                   breaks, origin>>

Opens == Dial \/ Connected \/ ConnectFails \/ ConnectBad

Exchange ==
    \/ Reuse \/ FoundStale
    \/ Send \/ SendsNothing \/ SendsPart \/ BufferBusy
    \/ ReadsError \/ ReadFails \/ ReadResultOK \/ ReadPrepareResultPacket
    \/ ReadDefinitions \/ ReadHeader \/ ReadColumns \/ ReadRow \/ CloseRows
    \/ CloseStmt \/ Release

Client == Opens \/ Exchange
Server == Serve \/ Deliver

Next ==
    \/ \E k \in Kinds : Issue(k)
    \/ Client \/ Server \/ Break \/ KillIdle
    \/ \E s \in Stmts : ExecuteLate(s)

Spec == Init /\ [][Next]_vars

-----------------------------------------------------------------------------
(* Properties. *)

(* What is read for a statement is its own answer, whatever an earlier one
   left unread, and whichever connection it ends up on. *)
OwnAnswers == \A s \in Stmts : origin[s] \subseteq {0, s}

(* Packets arrive in the order the driver counts, and nothing of an answer is
   left when the next command is sent or the connection is pooled: ErrPktSync
   never happens, ErrBusyBuffer only if the server has said goodbye. *)
InStep ==
    /\ pc \in Reading /\ Arrived # <<>> =>
          Pkt.seq = sequence \/ Pkt.of = 0
    /\ pc \in Sending \cup {"idle"} /\ conn = "open" =>
          inbox = <<>> /\ out = <<>> /\ \A i \in DOMAIN Arrived : Arrived[i].of = 0

(* The calls of the program are calls of DbSpec: no retry, late answer or
   broken connection executes a statement twice, and one that succeeded was
   executed. *)
Promise == INSTANCE DbSpec
ImplementsDbSpec == Promise!Spec

(* A statement always returns while the server answers. *)
StatementEnds == pc # "idle" ~> pc = "idle"
=============================================================================
