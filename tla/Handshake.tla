----------------------------- MODULE Handshake -----------------------------
(***************************************************************************)
(* connector.Connect once the network connection is there: the greeting,   *)
(* the choice of an authentication plugin, the client's answer, at most    *)
(* one change of plugin, what the plugins exchange, and SET NAMES.         *)
(*                                                                         *)
(* A password, a nonce and a response are what the server can tell of      *)
(* them: whether the password is the account's, which nonce was used, and  *)
(* how.  The server is external; it authenticates as its plugins document. *)
(***************************************************************************)
EXTENDS Naturals, Sequences

CONSTANTS
    Configs,    \* what of mysql.Config the handshake looks at
    Accounts,   \* servers and accounts
    MaxFailures \* bound: network failures and refused connections

Native  == "mysql_native_password"    \* defaultAuthPlugin
Sha2    == "caching_sha2_password"
Sha256  == "sha256_password"
Old     == "mysql_old_password"
Clear   == "mysql_clear_password"
Ed25519 == "client_ed25519"
Plugins == {Native, Sha2, Sha256, Old, Clear, Ed25519}

(* key: a public key is registered; names: how many charsets are listed. *)
Config  == [tls : {"no", "preferred", "required"}, unix : BOOLEAN, key : BOOLEAN,
            allow : SUBSET {Native, Old, Clear}, passwd : {"", "right", "wrong"},
            names : Nat]
(* first: the plugin of the greeting, "" if it names none; "other" stands for
   a plugin the driver does not know. *)
Account == [plugin : Plugins \cup {"other"}, first : Plugins \cup {"", "other"},
            passwd : {"", "right"}, cached : BOOLEAN, tls : BOOLEAN]

ASSUME HandshakeAssumption ==
    /\ Configs \subseteq Config /\ Accounts \subseteq Account
    /\ MaxFailures \in Nat

VARIABLES
    (* the client *)
    cfg,         \* mc.cfg
    phase,       \* what Connect does next
    plugin,      \* plugin
    nonce,       \* authData, later oldAuthData
    secure,      \* the connection has been switched to TLS
    count,       \* mc.sequence
    charset,     \* index of the charset being set
    (* the server and the network *)
    account,
    server,      \* what the server does next
    wants,       \* the nonce it expects to be used
    serverCount,
    accepted,    \* it let the client in
    toServer, toClient,
    failures     \* MaxFailures used so far

clientVars == <<cfg, phase, plugin, nonce, secure, count, charset>>
serverVars == <<account, server, wants, serverCount, accepted>>
hsVars     == <<clientVars, serverVars, toServer, toClient, failures>>

Waiting  == {"greeting", "result", "switchResult", "fastResult", "key",
             "verdict", "names"}
Ended    == {"none", "connected", "failed", "bad"}

(* The network connection is there: a new mysqlConn, and a server to greet it.
   The Config is the connector's and keeps what an earlier Connect changed. *)
Open ==
    /\ phase \in Ended
    /\ phase' = "greeting" /\ plugin' = "" /\ nonce' = "none" /\ secure' = FALSE
    /\ count' = 0 /\ charset' = 1
    /\ server' = "greet" /\ wants' = "none" /\ serverCount' = 0
    /\ accepted' = FALSE
    /\ toServer' = <<>> /\ toClient' = <<>>
    /\ UNCHANGED <<cfg, account, failures>>

HsInit ==
    /\ cfg \in Configs /\ account \in Accounts
    /\ phase = "none" /\ plugin = "" /\ nonce = "none" /\ secure = FALSE
    /\ count = 0 /\ charset = 1
    /\ server = "greet" /\ wants = "none" /\ serverCount = 0
    /\ accepted = FALSE
    /\ toServer = <<>> /\ toClient = <<>>
    /\ failures = 0

-----------------------------------------------------------------------------
(* The response of a plugin, made with the nonce of the moment. *)
Respond(how) == [how |-> how, nonce |-> nonce']
NoPasswd     == cfg.passwd = ""

(* Mutant: the password in the clear needs no permission. *)
MutRefusesButClear(p, switched) ==
    \/ p \in {Native, Old} \ cfg.allow
    \/ p = Ed25519 /\ ~switched
    \/ p \notin Plugins

(* auth has no response.  The 32 bytes client_ed25519 wants come with a change
   of plugin only. *)
Refuses(p, switched) ==
    \/ p \in {Native, Old, Clear} \ cfg.allow
    \/ p = Ed25519 /\ ~switched
    \/ p \notin Plugins

How(p) ==
    IF p = Clear THEN "clear"
    ELSE IF p = Ed25519 \/ (~NoPasswd /\ p # Sha256) THEN "scramble"
    ELSE IF NoPasswd THEN "empty"
    ELSE IF cfg.tls # "no" THEN "clear"
    ELSE IF cfg.key THEN "encrypted" ELSE "askKey"

(* writePacket, and the packet the server reads. *)
ToServer(r, n) ==
    /\ toServer' = Append(toServer, [how |-> r.how, nonce |-> r.nonce,
                                     plugin |-> plugin', seq |-> count + n])
    /\ count' = count + n + 1

(* readPacket: one packet, in sequence; an ERR may be out of sequence. *)
FromServer(kinds) ==
    /\ toClient # <<>>
    /\ Head(toClient).is \in kinds
    /\ Head(toClient).seq = count
    /\ toClient' = Tail(toClient)

Gets(kinds) == FromServer(kinds) /\ count' = count + 1

Received == Head(toClient)

Fail ==
    /\ phase' = "failed"
    /\ UNCHANGED <<cfg, plugin, nonce, secure, charset, toServer>>

-----------------------------------------------------------------------------
(* readHandshakePacket; tls=preferred gives TLS up for good: the Config is
   the connector's, and every later connection finds it changed. *)
ReadGreeting ==
    /\ phase = "greeting"
    /\ Gets({"greeting"})
    /\ IF ~account.tls /\ cfg.tls = "required" THEN Fail
       ELSE /\ cfg' = IF account.tls THEN cfg ELSE [cfg EXCEPT !.tls = "no"]
            /\ plugin' = IF Received.plugin = "" THEN Native ELSE Received.plugin
            /\ nonce' = "first"
            /\ phase' = "auth"
            /\ UNCHANGED <<secure, charset, toServer>>
    /\ UNCHANGED <<serverVars, failures>>

(* mc.auth, once more with the default plugin if the first one is refused, and
   writeHandshakeResponsePacket, preceded by SSLRequest and the TLS handshake. *)
Chosen == IF Refuses(plugin, FALSE) THEN Native ELSE plugin

AuthFails ==
    /\ phase = "auth"
    /\ Refuses(Chosen, FALSE)
    /\ Fail
    /\ UNCHANGED <<nonce, count, serverVars, toClient, failures>>

SendResponse ==
    /\ phase = "auth"
    /\ ~Refuses(Chosen, FALSE)
    /\ plugin' = Chosen
    /\ secure' = (cfg.tls # "no")
    /\ UNCHANGED nonce
    /\ ToServer(Respond(How(Chosen)), IF secure' THEN 1 ELSE 0)
    /\ phase' = "result"
    /\ UNCHANGED <<cfg, charset, serverVars, toClient, failures>>

(* Mutant: the nonce of the change is not copied. *)
MutReadSwitchOldNonce ==
    /\ phase = "result"
    /\ FromServer({"switch"})
    /\ nonce' = nonce
    /\ plugin' = Received.plugin
    /\ IF Refuses(plugin', TRUE)
       THEN phase' = "failed" /\ count' = count + 1 /\ UNCHANGED toServer
       ELSE ToServer(Respond(How(plugin')), 1) /\ phase' = "switchResult"
    /\ UNCHANGED <<cfg, secure, charset, serverVars, failures>>

(* handleAuthResult, a request to change the plugin: the new nonce, if there
   is one, replaces the old, for what is encrypted later, too. *)
ReadSwitch ==
    /\ phase = "result"
    /\ FromServer({"switch"})
    /\ nonce' = IF Received.nonce = "none" THEN nonce ELSE Received.nonce
    /\ plugin' = Received.plugin
    /\ IF Refuses(plugin', TRUE)
       THEN phase' = "failed" /\ count' = count + 1 /\ UNCHANGED toServer
       ELSE ToServer(Respond(How(plugin')), 1) /\ phase' = "switchResult"
    /\ UNCHANGED <<cfg, secure, charset, serverVars, failures>>

Results == {"result", "switchResult"}

(* Mutant: the OK behind the fast result is not read. *)
MutReadResultFastIsOK ==
    /\ phase \in Results
    /\ Gets({"OK", "ERR", "fast", "full", "key", "switch"})
    /\ phase = "result" => Received.is # "switch"
    /\ IF Received.is \in {"ERR", "switch"} THEN Fail
       ELSE /\ phase' = "setNames"
            /\ UNCHANGED <<cfg, plugin, nonce, secure, charset, toServer>>
    /\ UNCHANGED <<serverVars, failures>>

(* No more than one change of plugin; any plugin without a dialogue of its own
   is content with whatever is neither an error nor a change. *)
ReadResult ==
    /\ phase \in Results
    /\ Gets({"OK", "ERR", "fast", "full", "key", "switch"})
    /\ phase = "result" => Received.is # "switch"
    /\ \/ /\ \/ Received.is = "OK"
             \/ plugin \notin {Sha2, Sha256} /\ Received.is \notin {"ERR", "switch"}
          /\ phase' = "setNames"
          /\ UNCHANGED <<cfg, plugin, nonce, secure, charset, toServer>>
       \/ Received.is \in {"ERR", "switch"} /\ Fail
       \/ /\ plugin = Sha2 /\ Received.is = "fast"
          /\ phase' = "fastResult"
          /\ UNCHANGED <<cfg, plugin, nonce, secure, charset, toServer>>
    /\ UNCHANGED <<serverVars, failures>>

(* perform_full_authentication: in the clear where nobody listens, or
   encrypted with the server's key, asked for unless it is registered. *)
FullAuthentication ==
    /\ phase \in Results /\ plugin = Sha2
    /\ FromServer({"full"})
    /\ UNCHANGED <<plugin, nonce>>
    /\ IF cfg.tls # "no" \/ cfg.unix THEN ToServer(Respond("clear"), 1) /\ phase' = "verdict"
       ELSE IF cfg.key THEN ToServer(Respond("encrypted"), 1) /\ phase' = "verdict"
       ELSE ToServer(Respond("askKey"), 1) /\ phase' = "key"
    /\ UNCHANGED <<cfg, secure, charset, serverVars, failures>>

(* The key of caching_sha2_password or sha256_password: sendEncryptedPassword. *)
ReadKey ==
    /\ \/ phase = "key"
       \/ phase \in Results /\ plugin = Sha256
    /\ FromServer({"key"})
    /\ UNCHANGED <<plugin, nonce>>
    /\ ToServer(Respond("encrypted"), 1)
    /\ phase' = "verdict"
    /\ UNCHANGED <<cfg, secure, charset, serverVars, failures>>

(* readResultOK *)
ReadVerdict ==
    /\ phase \in {"fastResult", "verdict"}
    /\ Gets({"OK", "ERR"})
    /\ IF Received.is = "OK"
       THEN phase' = "setNames"
            /\ UNCHANGED <<cfg, plugin, nonce, secure, charset, toServer>>
       ELSE Fail
    /\ UNCHANGED <<serverVars, failures>>

(* mc.exec("SET NAMES " + cs), a new command each, until one is accepted. *)
SetNames ==
    /\ phase = "setNames"
    /\ IF cfg.names = 0
       THEN phase' = "connected" /\ UNCHANGED <<count, toServer>>
       ELSE /\ toServer' = Append(toServer, [how |-> "command", nonce |-> "none",
                                             plugin |-> plugin, seq |-> 0])
            /\ count' = 1
            /\ phase' = "names"
    /\ UNCHANGED <<cfg, plugin, nonce, secure, charset, serverVars, toClient,
                   failures>>

ReadNames ==
    /\ phase = "names"
    /\ Gets({"OK", "ERR"})
    /\ IF Received.is = "OK" THEN phase' = "connected" /\ UNCHANGED charset
       ELSE IF charset < cfg.names THEN phase' = "setNames" /\ charset' = charset + 1
       ELSE phase' = "failed" /\ UNCHANGED charset
    /\ UNCHANGED <<cfg, plugin, nonce, secure, toServer, serverVars, failures>>
(* The server refuses to greet: too many connections, say. *)
ReadRefusal ==
    /\ phase = "greeting"
    /\ Gets({"ERR"})
    /\ Fail
    /\ UNCHANGED <<serverVars, failures>>

(* The network fails.  The error of one charset is ignored in favour of the
   next, which a dead connection refuses with nothing written: ErrBadConn. *)
Lose ==
    /\ phase \notin Ended
    /\ failures < MaxFailures /\ failures' = failures + 1
    /\ phase' \in IF phase \in {"setNames", "names"} /\ charset < cfg.names
                  THEN {"bad"}
                  ELSE IF phase = "setNames" /\ cfg.names > 0
                  THEN {"bad", "failed"} ELSE {"failed"}
    /\ UNCHANGED <<cfg, plugin, nonce, secure, count, charset, serverVars,
                   toServer, toClient>>

-----------------------------------------------------------------------------
(* The server. *)

HsPacket(is, p, n, k) == [is |-> is, plugin |-> p, nonce |-> n, seq |-> k]

Matches == cfg.passwd = account.passwd

Good(m) == Matches /\ (m.how \in {"empty", "clear"} \/ m.nonce = wants)

(* Its packets follow the one it has just read. *)
Says(m, kinds) ==
    /\ toServer' = Tail(toServer)
    /\ toClient' = toClient \o [i \in 1 .. Len(kinds) |->
                                   HsPacket(kinds[i], "", "none", m.seq + i)]
    /\ serverCount' = m.seq + 1 + Len(kinds)

Verdict(m, kinds, ok) ==
    /\ Says(m, kinds)
    /\ accepted' = ok
    /\ server' = IF ok THEN "command" ELSE "closed"
    /\ UNCHANGED wants

Decide(m) == Verdict(m, IF Good(m) THEN <<"OK">> ELSE <<"ERR">>, Good(m))

Ask(m, what, next) ==
    /\ Says(m, <<what>>)
    /\ server' = next
    /\ UNCHANGED <<wants, accepted>>

Greet ==
    /\ server = "greet"
    /\ \/ /\ toClient' = <<HsPacket("greeting", account.first, "first", 0)>>
          /\ wants' = "first" /\ server' = "response"
          /\ UNCHANGED failures
       \/ /\ toClient' = <<HsPacket("ERR", "", "none", 0)>>
          /\ failures < MaxFailures /\ failures' = failures + 1
          /\ server' = "closed" /\ UNCHANGED wants
    /\ serverCount' = 1
    /\ UNCHANGED <<clientVars, account, accepted, toServer>>

(* The account's plugin looks at a response. *)
Judge(m) ==
    IF account.plugin = Sha2 /\ m.how # "empty"
    THEN IF account.cached /\ Good(m) THEN Verdict(m, <<"fast", "OK">>, TRUE)
         ELSE Ask(m, "full", "full")
    ELSE IF m.how = "askKey" THEN Ask(m, "key", "encrypted")
    ELSE Decide(m)

(* The response is another plugin's: a change, with a new nonce but for the
   oldest plugin. *)
Change(m) ==
    /\ wants' = IF account.plugin = Old THEN "first" ELSE "second"
    /\ toServer' = Tail(toServer)
    /\ toClient' = Append(toClient,
                         HsPacket("switch", account.plugin,
                                  IF account.plugin = Old THEN "none" ELSE "second",
                                  m.seq + 1))
    /\ serverCount' = m.seq + 2
    /\ server' = "switched" /\ UNCHANGED accepted

Examine ==
    /\ toServer # <<>>
    /\ LET m == Head(toServer) IN
       \/ server = "response" /\ m.plugin # account.plugin /\ Change(m)
       \/ server = "response" /\ m.plugin = account.plugin /\ Judge(m)
       \/ server = "switched" /\ Judge(m)
       \/ server = "full" /\ m.how = "askKey" /\ Ask(m, "key", "encrypted")
       \/ server \in {"full", "encrypted"} /\ m.how # "askKey" /\ Decide(m)
    /\ UNCHANGED <<clientVars, account, failures>>

(* SET NAMES: a charset may not exist. *)
Execute ==
    /\ server = "command" /\ toServer # <<>>
    /\ \E answer \in {"OK", "ERR"} : Ask(Head(toServer), answer, "command")
    /\ UNCHANGED <<clientVars, account, failures>>

Connect ==
    \/ ReadGreeting \/ ReadRefusal \/ AuthFails \/ SendResponse \/ ReadSwitch
    \/ ReadResult \/ FullAuthentication \/ ReadKey \/ ReadVerdict
    \/ SetNames \/ ReadNames

Authenticate == Greet \/ Examine \/ Execute

HsNext == Connect \/ Authenticate \/ Lose

-----------------------------------------------------------------------------
(* Properties. *)

(* Client and server never both wait for the other, each numbers its packets
   as the other expects, and nothing is left unread when commands begin. *)
Lockstep ==
    /\ phase \in Waiting => toClient # <<>> \/ toServer # <<>> \/ server = "greet"
    /\ toClient # <<>> => Head(toClient).seq = count
    /\ phase \in {"setNames", "connected"} => toClient = <<>> /\ toServer = <<>>

(* The right password is not enough to fail: the response always uses the
   nonce the server wants, also after a change of plugin, and whatever way
   the plugin takes. *)
RightPasswordConnects ==
    phase = "failed" /\ Matches /\ failures = 0 =>
        \/ ~account.tls /\ cfg.tls = "required"
        \/ account.plugin \in ({Native, Old, Clear} \ cfg.allow) \cup {"other"}
        \/ Native \notin cfg.allow /\ count = 1   \* nothing to answer with
        \/ accepted /\ ~(charset < cfg.names)  \* no charset that exists

(* The password itself is sent only over TLS or a local socket, or where the
   configuration allows it. *)
ClearOnlyWhereAllowed ==
    \A i \in 1 .. Len(toServer) :
        toServer[i].how = "clear" =>
            secure \/ cfg.unix \/ (Clear \in cfg.allow /\ plugin = Clear)

=============================================================================
