-------------------------------- MODULE Dsn --------------------------------
(***************************************************************************)
(* From the Dbconnect settings to the mysql.Config of the connector:       *)
(* NewSherryDB writes a DSN, without escaping anything, and the driver's   *)
(* ParseDSN finds its parts again.                                         *)
(*                                                                         *)
(* A setting is a sequence of tokens: the characters that mean something   *)
(* in a DSN, "%2F" for an escaped slash, "%" for an escape that is none,   *)
(* and words without any of these.                                         *)
(***************************************************************************)
EXTENDS Naturals, SequencesExt

CONSTANTS
    DBConnects,  \* Dbconnect in config.json
    Zones,       \* what time.LoadLocation knows
    Spans,       \* what time.ParseDuration understands
    Numerals     \* what strconv.Atoi does

Settings == {"DBMS", "DbServer", "DbPort", "DbName", "DbLogin", "DbPasswd",
             "Charset", "ParseTime", "Loc"}

Flags == {"allowAllFiles", "allowCleartextPasswords", "allowFallbackToPlaintext",
          "allowNativePasswords", "allowOldPasswords", "checkConnLiveness",
          "clientFoundRows", "columnsWithAlias", "compress", "interpolateParams",
          "multiStatements", "parseTime", "rejectReadOnly"}
Durations == {"timeout", "readTimeout", "writeTimeout", "timeTruncate"}

ASSUME DsnAssumption ==
    /\ \A c \in DBConnects :
          DOMAIN c = Settings /\ \A s \in Settings : c[s] \in Seq(STRING)
    /\ {<<"UTC">>, <<"Local">>} \subseteq Zones
    /\ Zones \cup Spans \cup Numerals \subseteq Seq(STRING)

VARIABLES
    opening,  \* what sql.Open does next, "opened" once it has returned
    config,   \* DBConnect
    dsn,
    parsed,   \* cfg of ParseDSN
    params    \* what is left to read of the parameters

dsnVars == <<opening, config, dsn, parsed, params>>

(* NewConfig *)
NewConfig ==
    [User |-> <<>>, Passwd |-> <<>>, Net |-> <<>>, Addr |-> <<>>, DBName |-> <<>>,
     charsets |-> <<>>, Loc |-> <<"UTC">>, TLS |-> <<>>, ServerPubKey |-> <<>>,
     durations |-> {}, Params |-> {},
     flags |-> {"allowNativePasswords", "checkConnLiveness"}]

DsnInit ==
    /\ opening = "configure"
    /\ config \in DBConnects
    /\ dsn = <<>> /\ parsed = NewConfig /\ params = <<>>

-----------------------------------------------------------------------------
(* The first position of a token, Len + 1 if there is none; the last, or 0. *)
First(t, s) == Min({i \in DOMAIN s : s[i] = t} \cup {Len(s) + 1})
Final(t, s) == Max({i \in DOMAIN s : s[i] = t} \cup {0})
Before(s, i) == SubSeq(s, 1, i - 1)
After(s, i)  == SubSeq(s, i + 1, Len(s))
Has(t, s)    == t \in Range(s)

(* strings.Split *)
Pieces(t, s) ==
    FoldLeft(LAMBDA acc, x :
                 IF x = t THEN Append(acc, <<>>)
                 ELSE [acc EXCEPT ![Len(acc)] = Append(@, x)], <<<<>>>>, s)

(* url.PathUnescape and QueryUnescape *)
Escaped(s)  == Has("%", s)
Unescape(s) == [i \in DOMAIN s |-> IF s[i] = "%2F" THEN "/" ELSE s[i]]

True_  == {<<"1">>, <<"true">>, <<"TRUE">>, <<"True">>}
False_ == {<<"0">>, <<"false">>, <<"FALSE">>, <<"False">>}

Default(value, default) == IF value = <<>> THEN default ELSE value

MysqlDSN(c) ==
    c.DbLogin \o <<":">> \o c.DbPasswd \o <<"@", "tcp", "(">>
    \o c.DbServer \o <<":">> \o c.DbPort \o <<")", "/">> \o c.DbName
    \o <<"?", "charset", "=">> \o Default(c.Charset, <<"utf8">>)
    \o <<"&", "parseTime", "=">> \o Default(c.ParseTime, <<"True">>)
    \o <<"&", "loc", "=">> \o Default(c.Loc, <<"Local">>)

(* Settings that are missing refuse the whole. *)
Configure ==
    /\ opening = "configure"
    /\ IF \/ config.DBMS \notin {<<>>, <<"mysql">>}
          \/ \E s \in {"DbServer", "DbPort", "DbName", "DbLogin"} : config[s] = <<>>
       THEN opening' = "refused" /\ UNCHANGED dsn
       ELSE opening' = "address" /\ dsn' = MysqlDSN(config)
    /\ UNCHANGED <<config, parsed, params>>

-----------------------------------------------------------------------------
(* ParseDSN.  What mysqlDSN writes always has a slash, and an @ before it. *)

(* Mutant: the first @ separates the user from the server. *)
MutReadAddressFirst ==
    /\ opening = "address"
    /\ LET left  == Before(dsn, Final("/", dsn))
           right == After(dsn, Final("/", dsn))
           user  == Before(left, First("@", left))
           net   == After(left, First("@", left))
           paren == First("(", net)
       IN  IF Has("(", net) /\ Last(net) # ")"
           THEN opening' = "refused" /\ UNCHANGED <<parsed, params>>
           ELSE /\ parsed' = [parsed EXCEPT
                      !.User = Before(user, First(":", user)),
                      !.Passwd = After(user, First(":", user)),
                      !.Net = Before(net, paren),
                      !.Addr = SubSeq(net, paren + 1, Len(net) - 1),
                      !.DBName = Before(right, First("?", right))]
                /\ params' = After(right, First("?", right))
                /\ opening' = "params"
    /\ UNCHANGED <<config, dsn>>

(* The last slash, the last @ before it, the first colon before that, and the
   first parenthesis in between; without one, there is no address. *)
ReadAddress ==
    /\ opening = "address"
    /\ LET left  == Before(dsn, Final("/", dsn))
           right == After(dsn, Final("/", dsn))
           user  == Before(left, Final("@", left))
           net   == After(left, Final("@", left))
           paren == First("(", net)
       IN  IF Has("(", net) /\ Last(net) # ")"
           THEN opening' = "refused" /\ UNCHANGED <<parsed, params>>
           ELSE /\ parsed' = [parsed EXCEPT
                      !.User = Before(user, First(":", user)),
                      !.Passwd = After(user, First(":", user)),
                      !.Net = Before(net, paren),
                      !.Addr = SubSeq(net, paren + 1, Len(net) - 1),
                      !.DBName = Before(right, First("?", right))]
                /\ params' = After(right, First("?", right))
                /\ opening' = "params"
    /\ UNCHANGED <<config, dsn>>

(* parseDSNParams: what one parameter makes of the Config. *)
Flag(cfg_, key, value) ==
    [cfg_ EXCEPT !.flags = IF value \in True_ THEN @ \cup {key} ELSE @ \ {key}]

Set(cfg_, key, value) ==
    CASE key \in Flags           -> Flag(cfg_, key, value)
      [] key \in Durations       -> [cfg_ EXCEPT !.durations = @ \cup {key}]
      [] key = "charset"         -> [cfg_ EXCEPT !.charsets = Pieces(",", value)]
      [] key = "loc"             -> [cfg_ EXCEPT !.Loc = Unescape(value)]
      [] key = "tls"             -> [cfg_ EXCEPT !.TLS =
                                        IF value \in True_ THEN <<"true">>
                                        ELSE IF value \in False_ THEN <<"false">>
                                        ELSE Unescape(value)]
      [] key = "serverPubKey"    -> [cfg_ EXCEPT !.ServerPubKey = Unescape(value)]
      [] OTHER                   -> [cfg_ EXCEPT !.Params = @ \cup {<<key, value>>}]

(* Values that are of the wrong type, or do not unescape. *)
BadValue(key, value) ==
    \/ key \in Flags /\ value \notin True_ \cup False_
    \/ key \in Durations /\ value \notin Spans
    \/ key = "maxAllowedPacket" /\ value \notin Numerals
    \/ key = "loc" /\ (Escaped(value) \/ Unescape(value) \notin Zones)
    \/ key = "tls" /\ value \notin True_ \cup False_ /\ Escaped(value)
    \/ key \notin Flags \cup Durations \cup {"charset", "collation", "tls", "loc"}
       /\ Escaped(value)

(* The next of the parameters that "&" separates. *)
ReadParam ==
    /\ opening = "params" /\ params # <<>>
    /\ LET v     == Before(params, First("&", params))
           key   == IF First("=", v) = 2 THEN v[1] ELSE "unknown"
           value == After(v, First("=", v))
       IN  IF Has("=", v) /\ (key = "strict" \/ BadValue(key, value))
           THEN /\ opening' = IF key = "strict" THEN "panicked" ELSE "refused"
                /\ UNCHANGED <<parsed, params>>
           ELSE /\ parsed' = IF Has("=", v) THEN Set(parsed, key, value) ELSE parsed
                /\ params' = After(params, First("&", params))
                /\ UNCHANGED opening
    /\ UNCHANGED <<config, dsn>>

(* net.SplitHostPort understands it: one colon, or a pair of brackets around all but
   the last one; and no other bracket. *)
HavePort(addr) ==
    LET colon == Final(":", addr)
    IN  /\ colon # 0
        /\ IF addr[1] = "["
           THEN /\ First("]", addr) = colon - 1 /\ Final("]", addr) = colon - 1
                /\ Final("[", addr) = 1
           ELSE First(":", addr) = colon /\ ~Has("[", addr) /\ ~Has("]", addr)

EnsureHavePort(addr) ==
    IF HavePort(addr) THEN addr
    ELSE (IF Has(":", addr) THEN <<"[">> \o addr \o <<"]">> ELSE addr) \o <<":", "3306">>

NamedTLS == {<<"true">>, <<"skip-verify">>, <<"preferred">>}

(* The name of the database, and normalize.  Nobody registers a TLS
   configuration or a public key. *)
Normalize ==
    /\ opening = "params" /\ params = <<>>
    /\ IF \/ Escaped(parsed.DBName)
          \/ parsed.Addr = <<>> /\ parsed.Net \notin {<<>>, <<"tcp">>, <<"unix">>}
          \/ parsed.TLS \notin NamedTLS \cup {<<>>, <<"false">>}
          \/ parsed.ServerPubKey # <<>>
       THEN opening' = "refused" /\ UNCHANGED parsed
       ELSE /\ opening' = "parsed"
            /\ parsed' = [parsed EXCEPT
                  !.DBName = Unescape(@),
                  !.Net = Default(@, <<"tcp">>),
                  !.Addr = IF @ = <<>>
                           THEN IF parsed.Net = <<"unix">> THEN <<"/tmp/mysql.sock">>
                                ELSE <<"127.0.0.1", ":", "3306">>
                           ELSE IF parsed.Net \in {<<>>, <<"tcp">>} THEN EnsureHavePort(@)
                           ELSE @,
                  !.flags = IF parsed.TLS = <<"preferred">>
                            THEN @ \cup {"allowFallbackToPlaintext"} ELSE @]
    /\ UNCHANGED <<config, dsn, params>>

ParseDSN == ReadAddress \/ ReadParam \/ Normalize

-----------------------------------------------------------------------------
(* Properties. *)

Free(tokens, settings) ==
    \A s \in settings : tokens \cap Range(config[s]) = {}

(* What an address is told by; an IPv6 address in brackets. *)
HostMarks == {":", "[", "]"}

Bracketed(s) ==
    s # <<>> /\ \A i \in DOMAIN s :
                   (s[i] = "[" <=> i = 1) /\ (s[i] = "]" <=> i = Len(s))

(* What is configured is what the driver is given, although nothing is escaped:
   the password may hold any character, the other settings all but the few
   that a DSN separates them with; the server is a name, or an IPv6 address in
   brackets, and it and the port have no colon or bracket else; and what is not
   written is not set. *)
SettingsKept ==
    opening = "parsed" /\ Free({"/"}, {"DbName", "Charset", "ParseTime", "Loc"})
                       /\ Free({"@"}, {"DbServer", "DbPort"}) =>
        /\ Free({":"}, {"DbLogin"}) =>
              parsed.User = config.DbLogin /\ parsed.Passwd = config.DbPasswd
        /\ (Free(HostMarks, {"DbServer"}) \/ Bracketed(config.DbServer))
           /\ Free(HostMarks, {"DbPort"}) =>
              parsed.Addr = config.DbServer \o <<":">> \o config.DbPort
        /\ Free({"?", "%2F"}, {"DbName"}) =>
              /\ parsed.DBName = config.DbName
              /\ Free({"&"}, {"Charset", "ParseTime", "Loc"}) =>
                    /\ parsed.charsets = Pieces(",", Default(config.Charset, <<"utf8">>))
                    /\ parsed.Loc = Unescape(Default(config.Loc, <<"Local">>))
                    /\ parsed.durations = {} /\ parsed.TLS = <<>>
=============================================================================
