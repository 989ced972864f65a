------------------------------ MODULE Database ------------------------------
(***************************************************************************)
(* The sql.DB that NewSherryDB opens with the Config that Dsn parses: every *)
(* connection the pool of Session asks for goes through the dialogue of    *)
(* Handshake.                                                              *)
(***************************************************************************)
EXTENDS Session, Handshake, Dsn

CONSTANTS UsualConfig, UsualAccount   \* the pair whose statements go on

ASSUME UsualAssumption == UsualConfig \in Configs /\ UsualAccount \in Accounts

sessionVars == <<pc, callVars, result, connVars, netVars, effects, origin>>
dbVars      == <<sessionVars, hsVars, dsnVars>>

NoSettings == [s \in Settings |-> <<>>]

Forgotten ==
    config = NoSettings /\ dsn = <<>> /\ parsed = NewConfig /\ params = <<>>

(* The program starts from its settings; a Config made in another way, with
   what the driver has besides, from the connector. *)
DbInit ==
    /\ Init
    /\ \/ HsInit /\ opening = "opened" /\ Forgotten
       \/ HsInit /\ cfg = UsualConfig /\ account = UsualAccount /\ DsnInit

(* What Handshake looks at. *)
HandshakeConfig(c, passwd_) ==
    [tls    |-> IF c.TLS \in {<<>>, <<"false">>} THEN "no"
                ELSE IF "allowFallbackToPlaintext" \in c.flags THEN "preferred"
                ELSE "required",
     unix   |-> c.Net = <<"unix">>,
     key    |-> FALSE,
     allow  |-> {p \in {Native, Old, Clear} :
                    \/ p = Native /\ "allowNativePasswords" \in c.flags
                    \/ p = Old    /\ "allowOldPasswords" \in c.flags
                    \/ p = Clear  /\ "allowCleartextPasswords" \in c.flags},
     passwd |-> passwd_,
     names  |-> Len(c.charsets)]

(* sql.Open returns.  The address leads to some server, where the password is
   right or wrong. *)
DbOpen ==
    /\ opening = "parsed" /\ opening' = "opened"
    /\ \E p \in IF parsed.Passwd = <<>> THEN {""}
                ELSE IF parsed.Passwd = config.DbPasswd THEN {"right", "wrong"}
                ELSE {"wrong"} :
          cfg' = HandshakeConfig(parsed, p)
    /\ account' \in Accounts
    /\ config' = NoSettings /\ dsn' = <<>> /\ parsed' = NewConfig /\ params' = <<>>
    /\ UNCHANGED <<sessionVars, phase, plugin, nonce, secure, count, charset,
                   server, wants, serverCount, accepted, toServer, toClient,
                   failures>>

DbSettings == (Configure \/ ParseDSN) /\ UNCHANGED <<sessionVars, hsVars>>

(* Bound: the others are tried with the Ping only, and connect or do not. *)
Usual == cfg = UsualConfig /\ account = UsualAccount

DbIssue(k) ==
    opening = "opened" /\ Issue(k) /\ (stmt > 0 => Usual) /\ UNCHANGED hsVars

(* Bound: a broken connection leaves room for fewer failures to connect. *)
Room == failures' + 2 * breaks' <= MaxFailures

DbBreak ==
    \/ Usual /\ (Break \/ KillIdle) /\ UNCHANGED hsVars /\ Room
    \/ \E s \in Stmts : ExecuteLate(s) /\ UNCHANGED hsVars

(* A DialContext that fails is a connection lost before the greeting. *)
DbDial == Dial /\ Open

(* What Connect returns is what the pool gets. *)
DbConnect ==
    \/ pc = "connect" /\ (HsNext /\ UNCHANGED sessionVars /\ Room)
    \/ Connected    /\ phase = "connected" /\ UNCHANGED hsVars
    \/ ConnectFails /\ phase = "failed"    /\ UNCHANGED hsVars
    \/ ConnectBad   /\ phase = "bad"       /\ UNCHANGED hsVars

DbClient == (Exchange /\ UNCHANGED hsVars) \/ DbDial \/ DbConnect
DbServer == Server /\ UNCHANGED hsVars

DbNext ==
    \/ DbSettings \/ DbOpen
    \/ UNCHANGED dsnVars /\ \/ \E k \in Kinds : DbIssue(k)
                            \/ DbClient \/ DbServer \/ DbBreak

(* The program goes on, and so does a server whose connection is up: the DSN
   sets no timeout, so a server that keeps silent holds the program up. *)
DbFairSpec ==
    DbInit /\ [][DbNext]_dbVars
    /\ WF_dbVars(DbClient /\ UNCHANGED dsnVars)
    /\ WF_dbVars(DbServer /\ UNCHANGED dsnVars)
=============================================================================
