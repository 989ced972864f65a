----------------------------- MODULE MCDatabase -----------------------------
(* An instance of Database for TLC. *)
EXTENDS Database

Connector(tls, unix, key, allow, names) ==
    [tls : {tls}, unix : {unix}, key : {key}, allow : {allow},
     passwd : {"", "right", "wrong"}, names : {names}]

MCUsualConfig ==
    [tls |-> "no", unix |-> FALSE, key |-> FALSE, allow |-> {Native},
     passwd |-> "right", names |-> 1]

(* What a Config can be besides what the program makes of its settings. *)
MCConfigs ==
    {MCUsualConfig}
    \cup Connector("no", TRUE, FALSE, {Native}, 2)
    \cup Connector("no", FALSE, TRUE, {}, 0)
    \cup Connector("preferred", FALSE, FALSE, {Native, Old, Clear}, 1)
    \cup Connector("required", FALSE, FALSE, {Native}, 1)

MCAccounts ==
    [plugin : Plugins \cup {"other"}, first : {"", "other", Sha2},
     passwd : {"", "right"}, cached : {FALSE}, tls : BOOLEAN]
    \cup [plugin : {Sha2}, first : {Sha2}, passwd : {"right"}, cached : {TRUE},
          tls : BOOLEAN]

MCUsualAccount ==
    [plugin |-> Sha2, first |-> Sha2, passwd |-> "right", cached |-> TRUE,
     tls |-> FALSE]

(* Settings: the usual ones, and one or two of them replaced; the password has
   every character that separates the parts of a DSN. *)
Plain ==
    [DBMS |-> <<>>, DbServer |-> <<"db.local">>, DbPort |-> <<"3306">>,
     DbName |-> <<"bpm">>, DbLogin |-> <<"tester">>, DbPasswd |-> <<"secret">>,
     Charset |-> <<>>, ParseTime |-> <<>>, Loc |-> <<>>]

With(s, values) == {[Plain EXCEPT ![s] = v] : v \in values}

Slashed == <<"Asia", "/", "Taipei">>
Text(n) == [1 .. n -> {"a", ":", "@", "/", "(", ")", "?"}]

MCDBConnects ==
    {Plain}
    \cup With("DBMS", {<<"mysql">>, <<"oracle">>})
    \cup With("DbServer", {<<>>, <<":", ":", "1">>, <<"[", ":", ":", "1", "]">>,
                          <<"a", "]", "b">>, <<"[", "[", "a", "]">>, <<"[", "a", "]", "b">>})
    \cup With("DbPort", {<<>>, <<"3306", "@", "x">>, <<"33", "]", "06">>, <<"33", ":">>})
    \cup {[Plain EXCEPT !.DbServer = <<"[", "a", "]">>, !.DbPort = <<"33", "[">>]}
    \cup With("DbName", {<<>>, <<"b", "/", "p">>, <<"b", "?", "p">>, <<"b", "%">>})
    \cup With("DbLogin", {<<>>, <<"te", ":", "st">>, <<"te", "@", "st">>})
    \cup With("DbPasswd", {<<>>} \cup Text(3))
    \cup With("Charset", {<<"utf8mb4", ",", "utf8">>,
                         <<"utf8", "&", "tls", "=", "preferred">>,
                         <<"utf8", "&", "tls", "=", "1">>,
                         <<"utf8", "&", "tls", "=", "mine">>,
                         <<"utf8", "&", "allowNativePasswords", "=", "0">>,
                         <<"utf8", "&", "timeout", "=", "5s">>,
                         <<"utf8", "&", "timeout", "=", "5">>,
                         <<"utf8", "&", "maxAllowedPacket", "=", "x">>,
                         <<"utf8", "&", "serverPubKey", "=", "mine">>,
                         <<"utf8", "&", "strict", "=", "1">>,
                         <<"utf8", "&", "sql_mode">>})
    \cup With("ParseTime", {<<"true">>, <<"yes">>})
    \cup With("Loc", {<<"UTC">>, <<"Asia", "%2F", "Taipei">>, Slashed, <<"Nowhere">>})
    \cup {[Plain EXCEPT !.Loc = Slashed, !.DbName = <<"b", "(", "p">>]}

MCZones == {<<"UTC">>, <<"Local">>, Slashed}
MCSpans == {<<"5s">>}
MCNumerals == {<<"64">>}
=============================================================================
