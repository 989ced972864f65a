--------------------------- MODULE ConnectProofs ---------------------------
(***************************************************************************)
(* Theorems about the way of the settings through the DSN: whatever they   *)
(* are, the driver reads back what was written, but for the characters     *)
(* that SettingsKept names.                                                *)
(*                                                                         *)
(* Theorems about connecting, for every Config, account and server choice, *)
(* any number of connections and of network failures: client and server    *)
(* stay in step, the right password is never refused without a reason, and *)
(* it is never sent in the clear where the configuration forbids it.       *)
(***************************************************************************)
EXTENDS Database, SequenceTheorems, FiniteSetTheorems, TLAPS

(* Every token is a string; those that a DSN is written with are named. *)
Token == STRING \cup {":", "@", "/", "?", "&", "=", "(", ")", "tcp", "charset",
                      "parseTime", "loc", "utf8", "True", "Local"}
Text  == Seq(Token)

-----------------------------------------------------------------------------
(* Where the parts of a sequence of tokens are. *)

LEMMA RangeOfConcat ==
  ASSUME NEW s \in Text, NEW t \in Text
  PROVE  /\ s \o t \in Text
         /\ Range(s \o t) = Range(s) \cup Range(t)
<1>1. /\ s \o t \in Text /\ Len(s \o t) = Len(s) + Len(t)
      /\ \A i \in 1 .. Len(s) + Len(t) :
            (s \o t)[i] = IF i <= Len(s) THEN s[i] ELSE t[i - Len(s)]
  BY ConcatProperties DEF Text
<1>2. /\ Len(s) \in Nat /\ DOMAIN s = 1 .. Len(s)
      /\ Len(t) \in Nat /\ DOMAIN t = 1 .. Len(t)
      /\ DOMAIN (s \o t) = 1 .. Len(s \o t)
  BY <1>1, LenProperties DEF Text
<1>3. ASSUME NEW x \in Range(s \o t) PROVE x \in Range(s) \cup Range(t)
  <2>1. PICK i \in 1 .. Len(s) + Len(t) : x = (s \o t)[i]
    BY <1>1, <1>2, <1>3 DEF Range
  <2>2. CASE i <= Len(s)
    BY <1>1, <1>2, <2>1, <2>2 DEF Range
  <2>3. CASE i > Len(s)
    <3>1. i - Len(s) \in DOMAIN t /\ x = t[i - Len(s)]
      BY <1>1, <1>2, <2>1, <2>3
    <3> QED BY <3>1 DEF Range
  <2> QED BY <1>2, <2>1, <2>2, <2>3
<1>4. ASSUME NEW x \in Range(s) PROVE x \in Range(s \o t)
  <2>1. PICK i \in 1 .. Len(s) : x = s[i]
    BY <1>2, <1>4 DEF Range
  <2>2. i \in DOMAIN (s \o t) /\ x = (s \o t)[i]
    BY <1>1, <1>2, <2>1
  <2> QED BY <2>2 DEF Range
<1>5. ASSUME NEW x \in Range(t) PROVE x \in Range(s \o t)
  <2>1. PICK i \in 1 .. Len(t) : x = t[i]
    BY <1>2, <1>5 DEF Range
  <2>2. Len(s) + i \in DOMAIN (s \o t) /\ x = (s \o t)[Len(s) + i]
    BY <1>1, <1>2, <2>1
  <2> QED BY <2>2 DEF Range
<1> QED BY <1>1, <1>3, <1>4, <1>5

LEMMA RangeOfToken ==
  ASSUME NEW x \in Token
  PROVE  <<x>> \in Text /\ Range(<<x>>) = {x}
BY DEF Text, Range

(* What stands before and after a token. *)
LEMMA Cut ==
  ASSUME NEW s \in Text, NEW x \in Token, NEW t \in Text
  PROVE  LET u == s \o <<x>> \o t
         IN  /\ u \in Text /\ Len(u) = Len(s) + 1 + Len(t)
             /\ u[Len(s) + 1] = x
             /\ \A i \in 1 .. Len(s) : u[i] = s[i]
             /\ \A i \in 1 .. Len(t) : u[Len(s) + 1 + i] = t[i]
             /\ Before(u, Len(s) + 1) = s
             /\ After(u, Len(s) + 1) = t
<1> DEFINE u == s \o <<x>> \o t
<1>1. Len(s) \in Nat /\ Len(t) \in Nat
  BY LenProperties DEF Text
<1>2. <<x>> \in Text /\ Len(<<x>>) = 1 /\ <<x>>[1] = x
  BY DEF Text
<1>3. /\ s \o <<x>> \in Text /\ Len(s \o <<x>>) = Len(s) + 1
      /\ \A i \in 1 .. Len(s) : (s \o <<x>>)[i] = s[i]
      /\ (s \o <<x>>)[Len(s) + 1] = x
  BY <1>1, <1>2, ConcatProperties DEF Text
<1>4. /\ u \in Text /\ Len(u) = Len(s) + 1 + Len(t)
      /\ \A i \in 1 .. Len(s) + 1 : u[i] = (s \o <<x>>)[i]
      /\ \A i \in 1 .. Len(t) : u[Len(s) + 1 + i] = t[i]
  BY <1>1, <1>3, ConcatProperties DEF Text
<1>5. /\ \A i \in 1 .. Len(s) : u[i] = s[i]
      /\ u[Len(s) + 1] = x
  BY <1>1, <1>3, <1>4
<1>6. /\ \A i \in 1 .. Len(s) : s[i] \in Token
      /\ \A i \in 1 .. Len(t) : t[i] \in Token
  BY ElementOfSeq DEF Text
<1> HIDE DEF u
<1>7. Before(u, Len(s) + 1) = s
  <2>1. Before(u, Len(s) + 1) = SubSeq(u, 1, Len(s))
    BY <1>1 DEF Before
  <2>2. /\ SubSeq(u, 1, Len(s)) \in Text
        /\ Len(SubSeq(u, 1, Len(s))) = Len(s)
        /\ \A i \in 1 .. Len(s) : SubSeq(u, 1, Len(s))[i] = u[1 + i - 1]
    BY <1>1, <1>5, <1>6, SubSeqProperties DEF Text
  <2>3. \A i \in 1 .. Len(s) : SubSeq(u, 1, Len(s))[i] = s[i]
    BY <1>1, <1>5, <2>2
  <2>4. SubSeq(u, 1, Len(s)) = s
    BY <2>2, <2>3, SeqEqual DEF Text
  <2> QED BY <2>1, <2>4
<1>8. After(u, Len(s) + 1) = t
  <2> DEFINE a == Len(s) + 2
             b == Len(s) + 1 + Len(t)
  <2>1. After(u, Len(s) + 1) = SubSeq(u, a, b)
    BY <1>1, <1>4 DEF After
  <2>2. \A i \in a .. b : u[i] \in Token
    <3> SUFFICES ASSUME NEW i \in a .. b PROVE u[i] \in Token
      OBVIOUS
    <3>1. i - (Len(s) + 1) \in 1 .. Len(t)
      BY <1>1
    <3>2. u[Len(s) + 1 + (i - (Len(s) + 1))] = t[i - (Len(s) + 1)]
      BY <1>4, <3>1
    <3>3. Len(s) + 1 + (i - (Len(s) + 1)) = i
      BY <1>1
    <3> QED BY <1>6, <3>1, <3>2, <3>3
  <2>3. a \in Int /\ b \in Int
    BY <1>1
  <2> HIDE DEF a, b
  <2>4. /\ SubSeq(u, a, b) \in Text
        /\ Len(SubSeq(u, a, b)) = IF a <= b THEN b - a + 1 ELSE 0
        /\ \A i \in 1 .. b - a + 1 : SubSeq(u, a, b)[i] = u[a + i - 1]
    BY <2>2, <2>3, SubSeqProperties DEF Text
  <2>5. Len(SubSeq(u, a, b)) = Len(t) /\ b - a + 1 = Len(t)
    BY <1>1, <2>4 DEF a, b
  <2>6. \A i \in 1 .. Len(t) : SubSeq(u, a, b)[i] = t[i]
    <3> SUFFICES ASSUME NEW i \in 1 .. Len(t)
                 PROVE  SubSeq(u, a, b)[i] = t[i]
      OBVIOUS
    <3>1. a + i - 1 = Len(s) + 1 + i
      BY <1>1 DEF a
    <3> QED BY <1>4, <2>4, <2>5, <3>1
  <2>7. SubSeq(u, a, b) = t
    BY <2>4, <2>5, <2>6, SeqEqual DEF Text
  <2> QED BY <2>1, <2>7
<1> QED BY <1>4, <1>5, <1>7, <1>8 DEF u

(* The smallest and the largest number of a set. *)
LEMMA Least ==
  ASSUME NEW S, NEW n \in S, \A m \in S : m \in Nat /\ n <= m
  PROVE  Min(S) = n
<1>1. Min(S) \in S /\ \A y \in S : Min(S) =< y
  BY DEF Min
<1> QED BY <1>1

LEMMA Greatest ==
  ASSUME NEW S, NEW n \in S, \A m \in S : m \in Nat /\ m <= n
  PROVE  Max(S) = n
<1>1. Max(S) \in S /\ \A y \in S : Max(S) >= y
  BY DEF Max
<1> QED BY <1>1

(* The first token of its kind, the last one, and none. *)
LEMMA SplitFirst ==
  ASSUME NEW s \in Text, NEW x \in Token, NEW t \in Text, x \notin Range(s)
  PROVE  LET u == s \o <<x>> \o t
         IN  /\ First(x, u) = Len(s) + 1
             /\ Before(u, First(x, u)) = s
             /\ After(u, First(x, u)) = t
             /\ Has(x, u)
<1> DEFINE u == s \o <<x>> \o t
<1>1. /\ u \in Text /\ Len(u) = Len(s) + 1 + Len(t)
      /\ u[Len(s) + 1] = x
      /\ \A i \in 1 .. Len(s) : u[i] = s[i]
      /\ Before(u, Len(s) + 1) = s
      /\ After(u, Len(s) + 1) = t
  BY Cut
<1>2. /\ Len(s) \in Nat /\ DOMAIN s = 1 .. Len(s) /\ Len(t) \in Nat
      /\ DOMAIN u = 1 .. Len(u)
  BY <1>1, LenProperties DEF Text
<1> HIDE DEF u
<1>3. \A i \in 1 .. Len(s) : u[i] # x
  BY <1>1, <1>2 DEF Range
<1> DEFINE S == {i \in DOMAIN u : u[i] = x} \cup {Len(u) + 1}
<1>4. Len(s) + 1 \in S
  BY <1>1, <1>2
<1>5. \A m \in S : m \in Nat /\ Len(s) + 1 <= m
  BY <1>1, <1>2, <1>3
<1> HIDE DEF S
<1>6. Min(S) = Len(s) + 1
  BY <1>4, <1>5, Least
<1>7. First(x, u) = Len(s) + 1
  BY <1>6 DEF First, S
<1>8. Has(x, u)
  BY <1>1, <1>2 DEF Has, Range
<1> QED BY <1>1, <1>7, <1>8 DEF u

LEMMA SplitFinal ==
  ASSUME NEW s \in Text, NEW x \in Token, NEW t \in Text, x \notin Range(t)
  PROVE  LET u == s \o <<x>> \o t
         IN  /\ Final(x, u) = Len(s) + 1
             /\ Before(u, Final(x, u)) = s
             /\ After(u, Final(x, u)) = t
<1> DEFINE u == s \o <<x>> \o t
<1>1. /\ u \in Text /\ Len(u) = Len(s) + 1 + Len(t)
      /\ u[Len(s) + 1] = x
      /\ Before(u, Len(s) + 1) = s
      /\ After(u, Len(s) + 1) = t
  BY Cut
<1>0. \A i \in 1 .. Len(t) : u[Len(s) + 1 + i] = t[i]
  BY Cut
<1>2. /\ Len(s) \in Nat /\ DOMAIN t = 1 .. Len(t) /\ Len(t) \in Nat
      /\ DOMAIN u = 1 .. Len(u)
  BY <1>1, LenProperties DEF Text
<1> HIDE DEF u
<1> DEFINE S == {i \in DOMAIN u : u[i] = x} \cup {0}
<1>3. Len(s) + 1 \in S
  BY <1>1, <1>2
<1>4. ASSUME NEW m \in S PROVE m \in Nat /\ m <= Len(s) + 1
  <2>1. m \in Nat /\ m <= Len(u)
    BY <1>1, <1>2
  <2>2. ASSUME m > Len(s) + 1 PROVE FALSE
    <3>1. m - (Len(s) + 1) \in DOMAIN t
      BY <1>1, <1>2, <2>1, <2>2
    <3>2. u[Len(s) + 1 + (m - (Len(s) + 1))] = t[m - (Len(s) + 1)]
      BY <1>0, <1>2, <3>1
    <3>3. Len(s) + 1 + (m - (Len(s) + 1)) = m /\ m # 0
      BY <1>2, <2>1, <2>2
    <3>4. u[m] = x
      BY <3>3
    <3> QED BY <3>1, <3>2, <3>3, <3>4 DEF Range
  <2> QED BY <1>2, <2>1, <2>2
<1> HIDE DEF S
<1>5. Max(S) = Len(s) + 1
  BY <1>3, <1>4, Greatest
<1>6. Final(x, u) = Len(s) + 1
  BY <1>5 DEF Final, S
<1> QED BY <1>1, <1>6 DEF u

LEMMA SplitNone ==
  ASSUME NEW s \in Text, NEW x, x \notin Range(s)
  PROVE  /\ First(x, s) = Len(s) + 1
         /\ Before(s, First(x, s)) = s
         /\ After(s, First(x, s)) = <<>>
<1>1. Len(s) \in Nat /\ DOMAIN s = 1 .. Len(s)
  BY LenProperties DEF Text
<1>2. {i \in DOMAIN s : s[i] = x} = {}
  BY DEF Range
<1>3. First(x, s) = Min({Len(s) + 1})
  BY <1>2 DEF First
<1>4. Min({Len(s) + 1}) = Len(s) + 1
  <2> DEFINE S == {Len(s) + 1}
  <2>1. Len(s) + 1 \in S /\ \A m \in S : m \in Nat /\ Len(s) + 1 <= m
    BY <1>1
  <2> HIDE DEF S
  <2>2. Min(S) = Len(s) + 1
    BY <2>1, Least
  <2> QED BY <2>2 DEF S
<1>5. SubSeq(s, 1, Len(s)) = s
  BY SubSeqFull DEF Text
<1>6. SubSeq(s, Len(s) + 2, Len(s)) = <<>>
  <2> DEFINE a == Len(s) + 2
             b == Len(s)
  <2>1. a \in Int /\ b \in Int /\ a > b
    BY <1>1
  <2> HIDE DEF a, b
  <2>2. SubSeq(s, a, b) = <<>>
    BY <2>1, SubSeqEmpty
  <2> QED BY <2>2 DEF a, b
<1>7. Len(s) + 1 - 1 = Len(s) /\ Len(s) + 1 + 1 = Len(s) + 2
  BY <1>1
<1>8. First(x, s) = Len(s) + 1
  BY <1>3, <1>4
<1> QED BY <1>5, <1>6, <1>7, <1>8 DEF Before, After

-----------------------------------------------------------------------------
(* The same, with a name for the concatenation. *)

Cat(s, t) == s \o t
One(x)    == <<x>>
Between(s, x, t) == Cat(Cat(s, One(x)), t)

LEMMA Closed == \A s, t \in Text : Cat(s, t) \in Text
BY RangeOfConcat DEF Cat

LEMMA OneText == \A x \in Token : One(x) \in Text
BY RangeOfToken DEF One

LEMMA Assoc == \A s, t, u \in Text : Cat(Cat(s, t), u) = Cat(s, Cat(t, u))
BY ConcatAssociative DEF Text, Cat

LEMMA CatRange == \A s, t \in Text : Range(Cat(s, t)) = Range(s) \cup Range(t)
BY RangeOfConcat DEF Cat

LEMMA OneRange == \A x \in Token : Range(One(x)) = {x}
BY RangeOfToken DEF One

LEMMA BetweenText ==
  \A s, t \in Text, x \in Token :
     /\ Between(s, x, t) \in Text
     /\ Range(Between(s, x, t)) = Range(s) \cup {x} \cup Range(t)
     /\ Between(s, x, t) = Cat(s, Cat(One(x), t))
<1> TAKE s, t \in Text, x \in Token
<1>1. One(x) \in Text /\ Range(One(x)) = {x}
  BY OneText, OneRange
<1>2. Cat(s, One(x)) \in Text /\ Range(Cat(s, One(x))) = Range(s) \cup {x}
  <2>1. Cat(s, One(x)) \in Text
    BY <1>1, Closed
  <2>2. Range(Cat(s, One(x))) = Range(s) \cup {x}
    BY <1>1, CatRange
  <2> QED BY <2>1, <2>2
<1>3. Cat(Cat(s, One(x)), t) = Cat(s, Cat(One(x), t))
  BY <1>1, Assoc
<1>4. /\ Cat(Cat(s, One(x)), t) \in Text
      /\ Range(Cat(Cat(s, One(x)), t)) = Range(s) \cup {x} \cup Range(t)
  <2>1. Cat(Cat(s, One(x)), t) \in Text
    BY <1>2, Closed
  <2>2. Range(Cat(Cat(s, One(x)), t)) = Range(Cat(s, One(x))) \cup Range(t)
    BY <1>2, CatRange
  <2> QED BY <1>2, <2>1, <2>2
<1> QED BY <1>3, <1>4 DEF Between

LEMMA BetweenRange ==
  \A s, x, t : s \in Text /\ x \in Token /\ t \in Text =>
     Range(Between(s, x, t)) = Range(s) \cup {x} \cup Range(t)
BY BetweenText

LEMMA BetweenAt ==
  \A s, x, t : s \in Text /\ x \in Token /\ t \in Text =>
     /\ Len(Between(s, x, t)) = Len(s) + 1 + Len(t)
     /\ Between(s, x, t)[Len(s) + 1] = x
     /\ \A i \in 1 .. Len(s) : Between(s, x, t)[i] = s[i]
     /\ \A i \in 1 .. Len(t) : Between(s, x, t)[Len(s) + 1 + i] = t[i]
<1> TAKE s, x, t
<1> HAVE s \in Text /\ x \in Token /\ t \in Text
<1> DEFINE u == s \o <<x>> \o t
<1>1. /\ Len(u) = Len(s) + 1 + Len(t)
      /\ u[Len(s) + 1] = x
      /\ \A i \in 1 .. Len(s) : u[i] = s[i]
  BY Cut
<1>2. \A i \in 1 .. Len(t) : u[Len(s) + 1 + i] = t[i]
  BY Cut
<1>3. Between(s, x, t) = u
  BY DEF Between, Cat, One
<1> HIDE DEF u
<1> QED BY <1>1, <1>2, <1>3

LEMMA CutFirst ==
  \A s, t \in Text, x \in Token : x \notin Range(s) =>
     LET u == Between(s, x, t)
     IN  /\ Before(u, First(x, u)) = s
         /\ After(u, First(x, u)) = t
         /\ First(x, u) = Len(s) + 1
         /\ Has(x, u)
BY SplitFirst DEF Between, Cat, One

LEMMA CutFinal ==
  \A s, t \in Text, x \in Token : x \notin Range(t) =>
     LET u == Between(s, x, t)
     IN  /\ Before(u, Final(x, u)) = s
         /\ After(u, Final(x, u)) = t
BY SplitFinal DEF Between, Cat, One

-----------------------------------------------------------------------------
(* What one parameter makes of the Config. *)

Fields == {"User", "Passwd", "Net", "Addr", "DBName", "charsets", "Loc", "TLS",
           "ServerPubKey", "durations", "Params", "flags"}
Address == {"User", "Passwd", "Net", "Addr", "DBName"}

IsConfig(c) == DOMAIN c = Fields /\ c = [f \in Fields |-> c[f]]

LEMMA SetKeeps ==
  ASSUME NEW c, IsConfig(c),
         NEW key, NEW value
  PROVE  /\ IsConfig(Set(c, key, value))
         /\ \A f \in Address : Set(c, key, value)[f] = c[f]
<1> DEFINE d == Set(c, key, value)
<1>1. CASE key \in Flags
  <2>1. d = Flag(c, key, value)
    BY <1>1 DEF Set, Flags, Durations
  <2> QED BY <2>1 DEF IsConfig, Flag, Fields, Address
<1>2. CASE key \in Durations
  <2>1. d = [c EXCEPT !.durations = @ \cup {key}]
    BY <1>2 DEF Set, Flags, Durations
  <2> QED BY <2>1 DEF IsConfig, Fields, Address
<1>3. CASE key = "charset"
  <2>1. d = [c EXCEPT !.charsets = Pieces(",", value)]
    BY <1>3 DEF Set, Flags, Durations
  <2> QED BY <2>1 DEF IsConfig, Fields, Address
<1>4. CASE key = "loc"
  <2>1. d = [c EXCEPT !.Loc = Unescape(value)]
    BY <1>4 DEF Set, Flags, Durations
  <2> QED BY <2>1 DEF IsConfig, Fields, Address
<1>5. CASE key = "tls"
  <2>1. d = [c EXCEPT !.TLS = IF value \in True_ THEN <<"true">>
                             ELSE IF value \in False_ THEN <<"false">>
                             ELSE Unescape(value)]
    BY <1>5 DEF Set, Flags, Durations
  <2> QED BY <2>1 DEF IsConfig, Fields, Address
<1>6. CASE key = "serverPubKey"
  <2>1. d = [c EXCEPT !.ServerPubKey = Unescape(value)]
    BY <1>6 DEF Set, Flags, Durations
  <2> QED BY <2>1 DEF IsConfig, Fields, Address
<1>7. CASE key \notin Flags \cup Durations
                     \cup {"charset", "loc", "tls", "serverPubKey"}
  <2>1. d = [c EXCEPT !.Params = @ \cup {<<key, value>>}]
    BY <1>7 DEF Set
  <2> QED BY <2>1 DEF IsConfig, Fields, Address
<1> QED BY <1>1, <1>2, <1>3, <1>4, <1>5, <1>6, <1>7

LEMMA SetCharset ==
  ASSUME NEW c, IsConfig(c), NEW value
  PROVE  LET d == Set(c, "charset", value)
         IN  /\ d.charsets = Pieces(",", value)
             /\ d.Loc = c.Loc /\ d.TLS = c.TLS /\ d.durations = c.durations
<1>1. Set(c, "charset", value) = [c EXCEPT !.charsets = Pieces(",", value)]
  BY DEF Set, Flags, Durations
<1> QED BY <1>1 DEF IsConfig, Fields

LEMMA SetTime ==
  ASSUME NEW c, IsConfig(c), NEW value
  PROVE  LET d == Set(c, "parseTime", value)
         IN  /\ d.charsets = c.charsets
             /\ d.Loc = c.Loc /\ d.TLS = c.TLS /\ d.durations = c.durations
<1>1. Set(c, "parseTime", value) = Flag(c, "parseTime", value)
  BY DEF Set, Flags, Durations
<1> QED BY <1>1 DEF IsConfig, Flag, Fields

LEMMA SetLoc ==
  ASSUME NEW c, IsConfig(c), NEW value
  PROVE  LET d == Set(c, "loc", value)
         IN  /\ d.charsets = c.charsets /\ d.Loc = Unescape(value)
             /\ d.TLS = c.TLS /\ d.durations = c.durations
<1>1. Set(c, "loc", value) = [c EXCEPT !.Loc = Unescape(value)]
  BY DEF Set, Flags, Durations
<1> QED BY <1>1 DEF IsConfig, Fields
-----------------------------------------------------------------------------
(* The DSN, cut where the driver cuts it. *)

IsSettings(c) == \A s \in Settings : c[s] \in Text

CharsetOf(c) == Default(c.Charset, <<"utf8">>)
TimeOf(c)    == Default(c.ParseTime, <<"True">>)
LocOf(c)     == Default(c.Loc, <<"Local">>)

UserPart(c) == Between(c.DbLogin, ":", c.DbPasswd)
AddrPart(c) == Between(c.DbServer, ":", c.DbPort)
NetPart(c)  == Between(One("tcp"), "(", Cat(AddrPart(c), One(")")))
LocArg(c)   == Between(One("loc"), "=", LocOf(c))
TimeArg(c)  == Between(One("parseTime"), "=", TimeOf(c))
NameArg(c)  == Between(One("charset"), "=", CharsetOf(c))
TimeArgs(c) == Between(TimeArg(c), "&", LocArg(c))
Args(c)     == Between(NameArg(c), "&", TimeArgs(c))
LeftPart(c)  == Between(UserPart(c), "@", NetPart(c))
RightPart(c) == Between(c.DbName, "?", Args(c))

LEMMA Tokens ==
  /\ ":" \in Token /\ "@" \in Token /\ "/" \in Token /\ "?" \in Token
  /\ "&" \in Token /\ "=" \in Token /\ "(" \in Token /\ ")" \in Token
  /\ "tcp" \in Token /\ "charset" \in Token /\ "parseTime" \in Token
  /\ "loc" \in Token /\ "utf8" \in Token /\ "True" \in Token
  /\ "Local" \in Token
BY DEF Token

LEMMA TwoTokens ==
  ASSUME NEW x \in Token, NEW y \in Token
  PROVE  <<x, y>> = <<x>> \o <<y>>
<1>1. <<x, y>> \in Text /\ <<x>> \in Text /\ <<y>> \in Text
  BY DEF Text
<1>2. /\ <<x>> \o <<y>> \in Text /\ Len(<<x>> \o <<y>>) = 2
      /\ \A i \in 1 .. 2 : (<<x>> \o <<y>>)[i] =
                IF i <= 1 THEN <<x>>[i] ELSE <<y>>[i - 1]
  BY <1>1, ConcatProperties DEF Text
<1>3. \A i \in 1 .. 2 : (<<x>> \o <<y>>)[i] = <<x, y>>[i]
  BY <1>2
<1> QED BY <1>1, <1>2, <1>3, SeqEqual DEF Text

LEMMA OneAfterOne ==
  ASSUME NEW x \in Token, NEW y \in Token
  PROVE  Cat(One(x), One(y)) = <<x, y>>
BY TwoTokens DEF Cat, One

LEMMA ThreeTokens ==
  ASSUME NEW x \in Token, NEW y \in Token, NEW z \in Token
  PROVE  Cat(One(x), Cat(One(y), One(z))) = <<x, y, z>>
<1>1. <<x, y, z>> = <<x>> \o <<y, z>>
  BY DEF Text
<1> QED BY <1>1, OneAfterOne DEF Cat, One

LEMMA SettingsTexts ==
  ASSUME NEW c, IsSettings(c)
  PROVE  /\ c.DbLogin \in Text /\ c.DbPasswd \in Text /\ c.DbServer \in Text
         /\ c.DbPort \in Text /\ c.DbName \in Text
         /\ CharsetOf(c) \in Text /\ TimeOf(c) \in Text /\ LocOf(c) \in Text
<1>1. \A s \in {"DbLogin", "DbPasswd", "DbServer", "DbPort", "DbName",
               "Charset", "ParseTime", "Loc"} : c[s] \in Text
  BY DEF IsSettings, Settings
<1>2. <<"utf8">> \in Text /\ <<"True">> \in Text /\ <<"Local">> \in Text
  BY RangeOfToken, Tokens
<1> QED BY <1>1, <1>2 DEF CharsetOf, TimeOf, LocOf, Default

LEMMA PartsAreTexts ==
  ASSUME NEW c, IsSettings(c)
  PROVE  /\ UserPart(c) \in Text /\ AddrPart(c) \in Text /\ NetPart(c) \in Text
         /\ LocArg(c) \in Text /\ TimeArg(c) \in Text /\ NameArg(c) \in Text
         /\ TimeArgs(c) \in Text /\ Args(c) \in Text
         /\ LeftPart(c) \in Text /\ RightPart(c) \in Text
<1> USE SettingsTexts, Tokens, OneText, BetweenText
<1>1. UserPart(c) \in Text
  BY DEF UserPart
<1>2. AddrPart(c) \in Text
  BY DEF AddrPart
<1>3. NetPart(c) \in Text
  BY <1>2, Closed DEF NetPart
<1>4. LocArg(c) \in Text
  BY DEF LocArg
<1>5. TimeArg(c) \in Text
  BY DEF TimeArg
<1>6. NameArg(c) \in Text
  BY DEF NameArg
<1>7. TimeArgs(c) \in Text
  BY <1>4, <1>5 DEF TimeArgs
<1>8. Args(c) \in Text
  BY <1>6, <1>7 DEF Args
<1>9. LeftPart(c) \in Text
  BY <1>1, <1>3 DEF LeftPart
<1>10. RightPart(c) \in Text
  BY <1>8 DEF RightPart
<1> QED BY <1>1, <1>2, <1>3, <1>4, <1>5, <1>6, <1>7, <1>8, <1>9, <1>10

(* Rewriting: a key joins its value, and three parts what they belong to. *)
LEMMA Join ==
  \A y, a, k, v \in Text : Cat(Cat(y, Cat(a, k)), v) = Cat(Cat(y, a), Cat(k, v))
<1> TAKE y, a, k, v \in Text
<1>1. Cat(y, Cat(a, k)) = Cat(Cat(y, a), k)
  BY Assoc
<1>2. Cat(y, a) \in Text
  BY Closed
<1>3. Cat(Cat(Cat(y, a), k), v) = Cat(Cat(y, a), Cat(k, v))
  BY <1>2, Assoc
<1> QED BY <1>1, <1>3

LEMMA Gather ==
  \A w, t, a, l \in Text : Cat(Cat(Cat(w, t), a), l) = Cat(w, Cat(Cat(t, a), l))
<1> TAKE w, t, a, l \in Text
<1>1. Cat(Cat(w, t), a) = Cat(w, Cat(t, a))
  BY Assoc
<1>2. Cat(t, a) \in Text
  BY Closed
<1>3. Cat(Cat(w, Cat(t, a)), l) = Cat(w, Cat(Cat(t, a), l))
  BY <1>2, Assoc
<1> QED BY <1>1, <1>3

(* What mysqlDSN writes before the name of the database ... *)
HeadWritten(user, at, net, s, colon, q, paren, slash) ==
    Cat(Cat(Cat(Cat(Cat(user, Cat(at, net)), s), colon), q), Cat(paren, slash))
HeadCut(user, at, net, s, colon, q, paren, slash) ==
    Cat(Cat(Cat(user, at), Cat(net, Cat(Cat(Cat(s, colon), q), paren))), slash)

LEMMA RegroupLeft ==
  \A user, at, net, s, colon, q, paren, slash :
     {user, at, net, s, colon, q, paren, slash} \subseteq Text =>
        HeadWritten(user, at, net, s, colon, q, paren, slash) =
           HeadCut(user, at, net, s, colon, q, paren, slash)
<1> TAKE user, at, net, s, colon, q, paren, slash
<1> HAVE {user, at, net, s, colon, q, paren, slash} \subseteq Text
<1>a. /\ user \in Text /\ at \in Text /\ net \in Text /\ s \in Text
      /\ colon \in Text /\ q \in Text /\ paren \in Text /\ slash \in Text
  OBVIOUS
<1> USE <1>a
<1>1. PICK w \in Text : w = Cat(user, Cat(at, net))
  BY Closed
<1>2. PICK addr \in Text : addr = Cat(Cat(s, colon), q)
  BY Closed
<1>3. Cat(Cat(Cat(w, s), colon), q) = Cat(w, addr)
  BY <1>2, Gather
<1>4. PICK ua \in Text : ua = Cat(user, at)
  BY Closed
<1>5. PICK na \in Text : na = Cat(net, addr)
  BY Closed
<1>6. Cat(w, addr) = Cat(ua, na)
  BY <1>1, <1>4, <1>5, Join
<1>7. PICK un \in Text : un = Cat(ua, na)
  BY Closed
<1>8. Cat(un, Cat(paren, slash)) = Cat(Cat(un, paren), slash)
  BY Assoc
<1>9. Cat(un, paren) = Cat(ua, Cat(net, Cat(addr, paren)))
  <2>1. Cat(un, paren) = Cat(ua, Cat(na, paren))
    BY <1>7, Assoc
  <2>2. Cat(na, paren) = Cat(net, Cat(addr, paren))
    BY <1>5, Assoc
  <2> QED BY <2>1, <2>2
<1> QED BY <1>1, <1>2, <1>3, <1>4, <1>6, <1>7, <1>8, <1>9
        DEF HeadWritten, HeadCut

(* ... and from there on: the name of the database and three parameters. *)
ThreeWritten(y, a1, a2, a3, amp) ==
    Cat(Cat(Cat(Cat(Cat(y, a1), amp), a2), amp), a3)
ThreeCut(y, a1, a2, a3, amp) ==
    Cat(y, Cat(Cat(a1, amp), Cat(Cat(a2, amp), a3)))

LEMMA RegroupArgs ==
  \A y, a1, a2, a3, amp :
     {y, a1, a2, a3, amp} \subseteq Text =>
        ThreeWritten(y, a1, a2, a3, amp) = ThreeCut(y, a1, a2, a3, amp)
<1> SUFFICES ASSUME NEW y \in Text, NEW a1 \in Text, NEW a2 \in Text,
                    NEW a3 \in Text, NEW amp \in Text
             PROVE  ThreeWritten(y, a1, a2, a3, amp) = ThreeCut(y, a1, a2, a3, amp)
  OBVIOUS
<1>1. PICK w \in Text : w = Cat(Cat(y, a1), amp)
  BY Closed
<1>2. PICK r \in Text : r = Cat(Cat(a2, amp), a3)
  BY Closed
<1>3. Cat(Cat(Cat(w, a2), amp), a3) = Cat(w, r)
  BY <1>2, Gather
<1>4. Cat(Cat(Cat(y, a1), amp), r) = Cat(y, Cat(Cat(a1, amp), r))
  BY Gather
<1> QED BY <1>1, <1>2, <1>3, <1>4 DEF ThreeWritten, ThreeCut

LEMMA JoinOne ==
  ASSUME NEW y \in Text, NEW a \in Text, NEW k \in Text, NEW v \in Text
  PROVE  Cat(Cat(y, Cat(a, k)), v) = Cat(Cat(y, a), Cat(k, v))
BY Join

TailWritten(head, b, question, k1, v1, amp, k2, v2, k3, v3) ==
    Cat(Cat(Cat(Cat(Cat(Cat(Cat(head, b), Cat(question, k1)), v1),
                    Cat(amp, k2)), v2), Cat(amp, k3)), v3)
TailCut(head, b, question, k1, v1, amp, k2, v2, k3, v3) ==
    Cat(head, Cat(Cat(b, question),
        Cat(Cat(Cat(k1, v1), amp), Cat(Cat(Cat(k2, v2), amp), Cat(k3, v3)))))

LEMMA RegroupRight ==
  \A head, b, question, k1, v1, amp, k2, v2, k3, v3 :
     {head, b, question, k1, v1, amp, k2, v2, k3, v3} \subseteq Text =>
        TailWritten(head, b, question, k1, v1, amp, k2, v2, k3, v3) =
           TailCut(head, b, question, k1, v1, amp, k2, v2, k3, v3)
<1> TAKE head, b, question, k1, v1, amp, k2, v2, k3, v3
<1> HAVE {head, b, question, k1, v1, amp, k2, v2, k3, v3} \subseteq Text
<1>a. /\ head \in Text /\ b \in Text /\ question \in Text /\ k1 \in Text
      /\ v1 \in Text /\ amp \in Text /\ k2 \in Text /\ v2 \in Text
      /\ k3 \in Text /\ v3 \in Text
  OBVIOUS
<1> USE <1>a
<1>1. PICK a1 \in Text : a1 = Cat(k1, v1)
  BY Closed
<1>2. PICK a2 \in Text : a2 = Cat(k2, v2)
  BY Closed
<1>3. PICK a3 \in Text : a3 = Cat(k3, v3)
  BY Closed
<1>4. PICK y \in Text : y = Cat(head, b)
  BY Closed
<1>5. PICK chars \in Text : chars = Cat(Cat(y, question), a1)
  BY Closed
<1>6. Cat(Cat(y, Cat(question, k1)), v1) = chars
  BY <1>1, <1>5, JoinOne
<1>7. PICK time \in Text : time = Cat(Cat(chars, amp), a2)
  BY Closed
<1>8. Cat(Cat(chars, Cat(amp, k2)), v2) = time
  BY <1>2, <1>7, JoinOne
<1>9. Cat(Cat(time, Cat(amp, k3)), v3) = Cat(Cat(time, amp), a3)
  BY <1>3, JoinOne
<1>10. PICK args \in Text : args = Cat(Cat(a1, amp), Cat(Cat(a2, amp), a3))
  BY Closed
<1>11. PICK nq \in Text : nq = Cat(y, question)
  BY Closed
<1>12. Cat(Cat(Cat(Cat(Cat(nq, a1), amp), a2), amp), a3) = Cat(nq, args)
  <2>1. ThreeWritten(nq, a1, a2, a3, amp) = ThreeCut(nq, a1, a2, a3, amp)
    BY RegroupArgs
  <2> QED BY <1>10, <2>1 DEF ThreeWritten, ThreeCut
<1>13. Cat(Cat(Cat(head, b), question), args) = Cat(head, Cat(Cat(b, question), args))
  <2>1. head \in Text /\ b \in Text /\ question \in Text /\ args \in Text
    BY <1>10
  <2> QED BY <2>1, Gather
<1> QED BY <1>1, <1>2, <1>3, <1>4, <1>5, <1>6, <1>7, <1>8, <1>9, <1>10, <1>11,
           <1>12, <1>13 DEF TailWritten, TailCut

LEMMA Written ==
  ASSUME NEW c, IsSettings(c)
  PROVE  MysqlDSN(c) = Between(LeftPart(c), "/", RightPart(c))
<1> DEFINE at == One("@")
           net == Cat(One("tcp"), One("("))
           colon == One(":")
           k1 == Cat(One("charset"), One("="))
           k2 == Cat(One("parseTime"), One("="))
           k3 == Cat(One("loc"), One("="))
           amp == One("&")
           host == Cat(Cat(Cat(Cat(UserPart(c), Cat(at, net)), c.DbServer), colon), c.DbPort)
           head == Cat(host, Cat(One(")"), One("/")))
           chars == Cat(Cat(Cat(head, c.DbName), Cat(One("?"), k1)), CharsetOf(c))
           time == Cat(Cat(chars, Cat(amp, k2)), TimeOf(c))
<1>1. /\ at \in Text /\ net \in Text /\ colon \in Text /\ k1 \in Text
      /\ k2 \in Text /\ k3 \in Text /\ amp \in Text /\ One(")") \in Text
      /\ One("/") \in Text /\ One("?") \in Text
  BY OneText, Tokens, Closed
<1>2. /\ Cat(at, net) = <<"@", "tcp", "(">>
      /\ Cat(One(")"), One("/")) = <<")", "/">>
      /\ Cat(One("?"), k1) = <<"?", "charset", "=">>
      /\ Cat(amp, k2) = <<"&", "parseTime", "=">>
      /\ Cat(amp, k3) = <<"&", "loc", "=">>
  <2>1. Cat(at, net) = <<"@", "tcp", "(">>
    BY Tokens, ThreeTokens
  <2>2. Cat(One(")"), One("/")) = <<")", "/">>
    BY Tokens, OneAfterOne
  <2>3. Cat(One("?"), k1) = <<"?", "charset", "=">>
    BY Tokens, ThreeTokens
  <2>4. Cat(amp, k2) = <<"&", "parseTime", "=">>
    BY Tokens, ThreeTokens
  <2>5. Cat(amp, k3) = <<"&", "loc", "=">>
    BY Tokens, ThreeTokens
  <2> QED BY <2>1, <2>2, <2>3, <2>4, <2>5
<1>3. MysqlDSN(c) = Cat(Cat(time, Cat(amp, k3)), LocOf(c))
  BY <1>2 DEF MysqlDSN, Cat, UserPart, Between, One, CharsetOf, TimeOf, LocOf
<1>4. UserPart(c) \in Text /\ LeftPart(c) \in Text
  BY PartsAreTexts
<1> HIDE DEF at, net, colon, k1, k2, k3, amp, host, head, chars, time
<1>5. head = Cat(LeftPart(c), One("/"))
  <2>1. HeadWritten(UserPart(c), at, net, c.DbServer, colon, c.DbPort, One(")"), One("/"))
        = HeadCut(UserPart(c), at, net, c.DbServer, colon, c.DbPort, One(")"), One("/"))
    BY <1>1, <1>4, SettingsTexts, RegroupLeft
  <2> QED BY <2>1 DEF head, host, HeadWritten, HeadCut, LeftPart, NetPart,
                      AddrPart, Between, at, net, colon
<1>6. head \in Text
  BY <1>1, <1>4, <1>5, Closed
<1>7. Cat(Cat(time, Cat(amp, k3)), LocOf(c)) = Cat(head, RightPart(c))
  <2>1. TailWritten(head, c.DbName, One("?"), k1, CharsetOf(c), amp, k2, TimeOf(c),
                    k3, LocOf(c))
        = TailCut(head, c.DbName, One("?"), k1, CharsetOf(c), amp, k2, TimeOf(c),
                  k3, LocOf(c))
    BY <1>1, <1>6, SettingsTexts, RegroupRight
  <2> QED BY <2>1 DEF TailWritten, TailCut, time, chars, RightPart, Args, NameArg,
                      TimeArgs, TimeArg, LocArg, Between, k1, k2, k3, amp
<1> QED BY <1>3, <1>5, <1>7 DEF Between
-----------------------------------------------------------------------------
(* What the parts are made of. *)

LEMMA RangesOfParts ==
  ASSUME NEW c, IsSettings(c)
  PROVE  /\ Range(AddrPart(c)) = Range(c.DbServer) \cup {":"} \cup Range(c.DbPort)
         /\ Range(NetPart(c)) = {"tcp", "(", ")"} \cup Range(AddrPart(c))
         /\ Range(NameArg(c)) = {"charset", "="} \cup Range(CharsetOf(c))
         /\ Range(TimeArg(c)) = {"parseTime", "="} \cup Range(TimeOf(c))
         /\ Range(LocArg(c)) = {"loc", "="} \cup Range(LocOf(c))
         /\ Range(RightPart(c)) = Range(c.DbName) \cup {"?", "&"}
               \cup Range(NameArg(c)) \cup Range(TimeArg(c)) \cup Range(LocArg(c))
<1> USE BetweenRange
<1>0. /\ Range(One("tcp")) = {"tcp"} /\ Range(One(")")) = {")"}
      /\ Range(One("charset")) = {"charset"} /\ Range(One("loc")) = {"loc"}
      /\ Range(One("parseTime")) = {"parseTime"}
  BY OneRange, Tokens
<1>a. /\ One("tcp") \in Text /\ One(")") \in Text /\ One("charset") \in Text
      /\ One("loc") \in Text /\ One("parseTime") \in Text
  BY OneText, Tokens
<1>1. Range(AddrPart(c)) = Range(c.DbServer) \cup {":"} \cup Range(c.DbPort)
  BY SettingsTexts, Tokens DEF AddrPart
<1>2. Range(NetPart(c)) = {"tcp", "(", ")"} \cup Range(AddrPart(c))
  <2>1. Cat(AddrPart(c), One(")")) \in Text
    BY <1>a, PartsAreTexts, Closed
  <2>2. Range(Cat(AddrPart(c), One(")"))) = Range(AddrPart(c)) \cup {")"}
    BY <1>0, <1>a, PartsAreTexts, CatRange
  <2>3. Range(NetPart(c)) = {"tcp"} \cup {"("} \cup (Range(AddrPart(c)) \cup {")"})
    BY <1>0, <1>a, <2>1, <2>2, Tokens DEF NetPart
  <2> QED BY <2>3
<1>3. Range(NameArg(c)) = {"charset", "="} \cup Range(CharsetOf(c))
  <2>1. Range(NameArg(c)) = {"charset"} \cup {"="} \cup Range(CharsetOf(c))
    BY <1>0, <1>a, SettingsTexts, Tokens DEF NameArg
  <2> QED BY <2>1
<1>4. Range(TimeArg(c)) = {"parseTime", "="} \cup Range(TimeOf(c))
  <2>1. Range(TimeArg(c)) = {"parseTime"} \cup {"="} \cup Range(TimeOf(c))
    BY <1>0, <1>a, SettingsTexts, Tokens DEF TimeArg
  <2> QED BY <2>1
<1>5. Range(LocArg(c)) = {"loc", "="} \cup Range(LocOf(c))
  <2>1. Range(LocArg(c)) = {"loc"} \cup {"="} \cup Range(LocOf(c))
    BY <1>0, <1>a, SettingsTexts, Tokens DEF LocArg
  <2> QED BY <2>1
<1>6. Range(TimeArgs(c)) = Range(TimeArg(c)) \cup {"&"} \cup Range(LocArg(c))
  BY PartsAreTexts, Tokens DEF TimeArgs
<1>7. Range(Args(c)) = Range(NameArg(c)) \cup {"&"} \cup Range(TimeArgs(c))
  BY PartsAreTexts, Tokens DEF Args
<1>8. Range(RightPart(c)) = Range(c.DbName) \cup {"?"} \cup Range(Args(c))
  BY PartsAreTexts, SettingsTexts, Tokens DEF RightPart
<1>9. Range(RightPart(c)) = Range(c.DbName) \cup {"?", "&"}
         \cup Range(NameArg(c)) \cup Range(TimeArg(c)) \cup Range(LocArg(c))
  BY <1>6, <1>7, <1>8
<1> QED BY <1>1, <1>2, <1>3, <1>4, <1>5, <1>9

(* A value that is missing is replaced by a word. *)
LEMMA RangesOfDefaults ==
  ASSUME NEW c
  PROVE  /\ Range(CharsetOf(c)) \subseteq Range(c["Charset"]) \cup {"utf8"}
         /\ Range(TimeOf(c)) \subseteq Range(c["ParseTime"]) \cup {"True"}
         /\ Range(LocOf(c)) \subseteq Range(c["Loc"]) \cup {"Local"}
<1>1. /\ Range(<<"utf8">>) = {"utf8"} /\ Range(<<"True">>) = {"True"}
      /\ Range(<<"Local">>) = {"Local"}
  BY RangeOfToken, Tokens
<1> QED BY <1>1 DEF CharsetOf, TimeOf, LocOf, Default

(* One parameter. *)
LEMMA ReadOne ==
  \A k \in Token, w \in Text : k # "=" =>
     LET v == Between(One(k), "=", w)
     IN  /\ Has("=", v) /\ First("=", v) = 2
         /\ v[1] = k /\ After(v, First("=", v)) = w
<1> TAKE k \in Token, w \in Text
<1> HAVE k # "="
<1>1. /\ One(k) \in Text /\ Range(One(k)) = {k} /\ Len(One(k)) = 1
      /\ One(k)[1] = k
  BY OneText, OneRange DEF One
<1> DEFINE v == Between(One(k), "=", w)
<1>2. /\ Has("=", v) /\ First("=", v) = Len(One(k)) + 1
      /\ After(v, First("=", v)) = w
  BY <1>1, CutFirst, Tokens
<1>3. v[1] = k
  <2>1. \A i \in 1 .. Len(One(k)) : v[i] = One(k)[i]
    BY <1>1, BetweenAt, Tokens
  <2> QED BY <1>1, <2>1
<1> QED BY <1>1, <1>2, <1>3

(* The address in its parentheses. *)
LEMMA ReadInside ==
  ASSUME NEW s \in Text, NEW x \in Token, NEW a \in Text, NEW y \in Token
  PROVE  LET u == Between(s, x, Cat(a, One(y)))
         IN  /\ Last(u) = y
             /\ SubSeq(u, Len(s) + 1 + 1, Len(u) - 1) = a
<1> DEFINE u == Between(s, x, Cat(a, One(y)))
<1>1. /\ Len(s) \in Nat /\ Len(a) \in Nat /\ One(y) \in Text
      /\ Len(One(y)) = 1 /\ One(y)[1] = y
  BY LenProperties, OneText DEF Text, One
<1>2. /\ Cat(a, One(y)) \in Text /\ Len(Cat(a, One(y))) = Len(a) + 1
      /\ \A i \in 1 .. Len(a) : Cat(a, One(y))[i] = a[i]
      /\ Cat(a, One(y))[Len(a) + 1] = y
  <2>1. /\ a \o One(y) \in Text /\ Len(a \o One(y)) = Len(a) + Len(One(y))
        /\ \A i \in 1 .. Len(a) + Len(One(y)) : (a \o One(y))[i] =
                  IF i <= Len(a) THEN a[i] ELSE One(y)[i - Len(a)]
    BY <1>1, ConcatProperties DEF Text
  <2>2. Len(a) + 1 - Len(a) = 1 /\ ~(Len(a) + 1 <= Len(a))
    BY <1>1
  <2>3. (a \o One(y))[Len(a) + 1] = y
    BY <1>1, <2>1, <2>2
  <2> QED BY <1>1, <2>1, <2>3 DEF Cat
<1>3. /\ Len(u) = Len(s) + 1 + (Len(a) + 1)
      /\ \A i \in 1 .. Len(a) + 1 : u[Len(s) + 1 + i] = Cat(a, One(y))[i]
  <2> DEFINE t == Cat(a, One(y))
  <2>1. t \in Text /\ Len(t) = Len(a) + 1
    BY <1>2
  <2> HIDE DEF t
  <2>2. /\ Len(Between(s, x, t)) = Len(s) + 1 + Len(t)
        /\ \A i \in 1 .. Len(t) : Between(s, x, t)[Len(s) + 1 + i] = t[i]
    BY <2>1, BetweenAt
  <2> QED BY <2>1, <2>2 DEF t
<1> HIDE DEF u
<1>4. Last(u) = y
  <2>1. Last(u) = u[Len(s) + 1 + (Len(a) + 1)]
    BY <1>3 DEF Last
  <2> QED BY <1>1, <1>2, <1>3, <2>1
<1>5. SubSeq(u, Len(s) + 1 + 1, Len(u) - 1) = a
  <2> DEFINE m == Len(s) + 2
             n == Len(s) + 1 + Len(a)
  <2>1. \A i \in 1 .. Len(a) : a[i] \in Token
    BY ElementOfSeq DEF Text
  <2>2. \A i \in 1 .. Len(a) : u[Len(s) + 1 + i] = a[i]
    BY <1>1, <1>2, <1>3
  <2>3. \A i \in m .. n : u[i] \in Token
    <3> SUFFICES ASSUME NEW i \in m .. n PROVE u[i] \in Token
      OBVIOUS
    <3>1. i - (Len(s) + 1) \in 1 .. Len(a)
      BY <1>1
    <3>2. u[Len(s) + 1 + (i - (Len(s) + 1))] = a[i - (Len(s) + 1)]
      BY <2>2, <3>1
    <3>3. Len(s) + 1 + (i - (Len(s) + 1)) = i
      BY <1>1
    <3> QED BY <2>1, <3>1, <3>2, <3>3
  <2>4. /\ m \in Int /\ n \in Int /\ n - m + 1 = Len(a)
        /\ Len(s) + 1 + 1 = m /\ Len(u) - 1 = n
        /\ (IF m <= n THEN n - m + 1 ELSE 0) = Len(a)
    BY <1>1, <1>3
  <2>5. \A i \in 1 .. Len(a) : m + i - 1 = Len(s) + 1 + i
    BY <1>1
  <2> HIDE DEF m, n
  <2>6. /\ SubSeq(u, m, n) \in Text
        /\ Len(SubSeq(u, m, n)) = IF m <= n THEN n - m + 1 ELSE 0
        /\ \A i \in 1 .. n - m + 1 : SubSeq(u, m, n)[i] = u[m + i - 1]
    BY <2>3, <2>4, SubSeqProperties DEF Text
  <2>7. \A i \in 1 .. Len(a) : SubSeq(u, m, n)[i] = a[i]
    BY <2>2, <2>4, <2>5, <2>6
  <2>8. SubSeq(u, m, n) = a
    BY <2>4, <2>6, <2>7, SeqEqual DEF Text
  <2> QED BY <2>4, <2>8
<1> QED BY <1>4, <1>5 DEF u

LEMMA InsideOf ==
  \A s, x, a, y : s \in Text /\ x \in Token /\ a \in Text /\ y \in Token =>
     SubSeq(Between(s, x, Cat(a, One(y))), Len(s) + 1 + 1,
            Len(Between(s, x, Cat(a, One(y)))) - 1) = a
BY ReadInside

-----------------------------------------------------------------------------
(* What the driver has read, at every stage. *)

Separable ==
    Free({"/"}, {"DbName", "Charset", "ParseTime", "Loc"})
    /\ Free({"@"}, {"DbServer", "DbPort"})

AddressRead ==
    /\ parsed.Net = <<"tcp">> /\ parsed.Addr = AddrPart(config)
    /\ config.DbServer # <<>>
    /\ Free({":"}, {"DbLogin"}) =>
          parsed.User = config.DbLogin /\ parsed.Passwd = config.DbPasswd
    /\ Free({"?"}, {"DbName"}) => parsed.DBName = config.DbName

CharsetRead == parsed.charsets = Pieces(",", CharsetOf(config))
LocRead     == parsed.Loc = Unescape(LocOf(config))

ParamsRead ==
    Free({"?", "%2F"}, {"DbName"}) /\ Free({"&"}, {"Charset", "ParseTime", "Loc"}) =>
        /\ parsed.durations = {} /\ parsed.TLS = <<>>
        /\ \/ params = Args(config)
           \/ params = TimeArgs(config) /\ CharsetRead
           \/ params = LocArg(config) /\ CharsetRead
           \/ params = <<>> /\ CharsetRead /\ LocRead

DsnInv ==
    /\ opening # "opened" => config \in DBConnects
    /\ opening \in {"configure", "address"} => parsed = NewConfig
    /\ opening = "address" => dsn = MysqlDSN(config) /\ config.DbServer # <<>>
    /\ opening \in {"address", "params", "parsed"} => IsConfig(parsed)
    /\ opening = "params" /\ Separable => AddressRead /\ ParamsRead
    /\ SettingsKept

LEMMA SettingsTyped == ASSUME config \in DBConnects PROVE IsSettings(config)
<1>1. \A s \in Settings : config[s] \in Seq(STRING)
  BY DsnAssumption
<1>2. \A s \in Settings : config[s] \in Seq(Token)
  <2> SUFFICES ASSUME NEW s \in Settings PROVE config[s] \in Seq(Token)
    OBVIOUS
  <2>1. STRING \subseteq Token
    BY DEF Token
  <2> QED BY <1>1, <2>1, SeqMonotonic
<1> QED BY <1>2 DEF IsSettings, Text

LEMMA FreeOf ==
  ASSUME NEW x, NEW s, Free({x}, {s})
  PROVE  x \notin Range(config[s])
BY DEF Free

LEMMA FreeRanges ==
  ASSUME config \in DBConnects
  PROVE  /\ Free({"@"}, {"DbServer", "DbPort"}) => "@" \notin Range(NetPart(config))
         /\ Free({"/"}, {"DbName", "Charset", "ParseTime", "Loc"}) =>
               "/" \notin Range(RightPart(config))
         /\ Free({"&"}, {"Charset", "ParseTime", "Loc"}) =>
               /\ "&" \notin Range(NameArg(config))
               /\ "&" \notin Range(TimeArg(config))
               /\ "&" \notin Range(LocArg(config))
<1>0. IsSettings(config)
  BY SettingsTyped
<1>1. ASSUME Free({"@"}, {"DbServer", "DbPort"})
      PROVE  "@" \notin Range(NetPart(config))
  BY <1>0, <1>1, RangesOfParts DEF Free
<1>2. ASSUME Free({"&"}, {"Charset", "ParseTime", "Loc"})
      PROVE  /\ "&" \notin Range(NameArg(config))
             /\ "&" \notin Range(TimeArg(config))
             /\ "&" \notin Range(LocArg(config))
  <2>1. /\ "&" \notin Range(CharsetOf(config)) /\ "&" \notin Range(TimeOf(config))
        /\ "&" \notin Range(LocOf(config))
    BY <1>2, RangesOfDefaults DEF Free
  <2> QED BY <1>0, <2>1, RangesOfParts
<1>3. ASSUME Free({"/"}, {"DbName", "Charset", "ParseTime", "Loc"})
      PROVE  "/" \notin Range(RightPart(config))
  <2>1. /\ "/" \notin Range(CharsetOf(config)) /\ "/" \notin Range(TimeOf(config))
        /\ "/" \notin Range(LocOf(config)) /\ "/" \notin Range(config.DbName)
    BY <1>3, RangesOfDefaults DEF Free
  <2> QED BY <1>0, <2>1, RangesOfParts
<1> QED BY <1>1, <1>2, <1>3

(* The address: the last slash, the last @ before it, the parentheses. *)
LEMMA AddressStep ==
  ASSUME DsnInv, ReadAddress
  PROVE  DsnInv'
<1> DEFINE left  == Before(dsn, Final("/", dsn))
           right == After(dsn, Final("/", dsn))
           user  == Before(left, Final("@", left))
           net   == After(left, Final("@", left))
           paren == First("(", net)
           new   == [parsed EXCEPT
                      !.User = Before(user, First(":", user)),
                      !.Passwd = After(user, First(":", user)),
                      !.Net = Before(net, paren),
                      !.Addr = SubSeq(net, paren + 1, Len(net) - 1),
                      !.DBName = Before(right, First("?", right))]
<1>1. /\ opening = "address" /\ config' = config /\ config \in DBConnects
      /\ parsed = NewConfig /\ dsn = MysqlDSN(config) /\ config.DbServer # <<>>
      /\ IsConfig(parsed) /\ IsSettings(config)
  BY SettingsTyped DEF DsnInv, ReadAddress
<1>2. CASE opening' = "refused"
  BY <1>1, <1>2 DEF DsnInv, SettingsKept
<1>3. CASE opening' # "refused"
  <2>1. /\ opening' = "params" /\ parsed' = new
        /\ params' = After(right, First("?", right))
    BY <1>3, Zenon DEF ReadAddress
  <2>2. IsConfig(parsed')
    <3> HIDE DEF left, right, user, net, paren
    <3> QED BY <1>1, <2>1 DEF IsConfig, Fields
  <2>3. ASSUME Separable PROVE AddressRead' /\ ParamsRead'
    <3>0. /\ IsSettings(config) /\ LeftPart(config) \in Text
          /\ RightPart(config) \in Text /\ "/" \in Token
      BY <1>1, PartsAreTexts, Tokens
    <3>1. left = LeftPart(config) /\ right = RightPart(config)
      BY <1>1, <2>3, <3>0, Written, FreeRanges, CutFinal DEF Separable
    <3>2. user = UserPart(config) /\ net = NetPart(config)
      BY <1>1, <2>3, <3>0, <3>1, FreeRanges, CutFinal, PartsAreTexts, Tokens
         DEF Separable, LeftPart
    <3>3. /\ One("tcp") \in Text /\ Len(One("tcp")) = 1 /\ One("tcp") = <<"tcp">>
          /\ Range(One("tcp")) = {"tcp"} /\ Cat(AddrPart(config), One(")")) \in Text
          /\ AddrPart(config) \in Text
      BY <3>0, OneText, OneRange, Tokens, Closed, PartsAreTexts DEF One
    <3>4. Before(net, paren) = <<"tcp">> /\ paren = Len(One("tcp")) + 1
      BY <3>2, <3>3, CutFirst, Tokens DEF NetPart
    <3>5. SubSeq(net, Len(One("tcp")) + 1 + 1, Len(net) - 1) = AddrPart(config)
      BY <3>2, <3>3, InsideOf, Tokens DEF NetPart
    <3>6. ASSUME Free({":"}, {"DbLogin"})
          PROVE  /\ Before(user, First(":", user)) = config.DbLogin
                 /\ After(user, First(":", user)) = config.DbPasswd
      <4>1. ":" \notin Range(config.DbLogin)
        BY <3>6 DEF Free
      <4> QED BY <3>0, <3>2, <4>1, SettingsTexts, CutFirst, Tokens DEF UserPart
    <3>7. ASSUME Free({"?"}, {"DbName"})
          PROVE  /\ Before(right, First("?", right)) = config.DbName
                 /\ After(right, First("?", right)) = Args(config)
      <4>1. "?" \notin Range(config.DbName)
        BY <3>7 DEF Free
      <4> QED BY <3>0, <3>1, <4>1, SettingsTexts, PartsAreTexts, CutFirst, Tokens
              DEF RightPart
    <3> HIDE DEF left, right, user, net, paren
    <3>8. /\ parsed'.User = Before(user, First(":", user))
          /\ parsed'.Passwd = After(user, First(":", user))
          /\ parsed'.Net = Before(net, paren)
          /\ parsed'.Addr = SubSeq(net, paren + 1, Len(net) - 1)
          /\ parsed'.DBName = Before(right, First("?", right))
          /\ parsed'.durations = parsed.durations /\ parsed'.TLS = parsed.TLS
      BY <1>1, <2>1 DEF IsConfig, Fields
    <3>9. AddressRead'
      <4>1. parsed'.Net = <<"tcp">> /\ parsed'.Addr = AddrPart(config)
        BY <3>4, <3>5, <3>8
      <4>2. Free({":"}, {"DbLogin"}) =>
               parsed'.User = config.DbLogin /\ parsed'.Passwd = config.DbPasswd
        BY <3>6, <3>8
      <4>3. Free({"?"}, {"DbName"}) => parsed'.DBName = config.DbName
        BY <3>7, <3>8
      <4> QED BY <1>1, <4>1, <4>2, <4>3 DEF AddressRead, Free
    <3>10. ParamsRead'
      <4>1. parsed.durations = {} /\ parsed.TLS = <<>>
        BY <1>1 DEF NewConfig
      <4>2. Free({"?", "%2F"}, {"DbName"}) => Free({"?"}, {"DbName"})
        BY DEF Free
      <4>3. Free({"?", "%2F"}, {"DbName"}) => params' = Args(config)
        BY <2>1, <3>7, <4>2
      <4>4. Args(config)' = Args(config) /\ (\A S, T : Free(S, T)' = Free(S, T))
        BY <1>1 DEF Free
      <4> QED BY <1>1, <3>8, <4>1, <4>3, <4>4 DEF ParamsRead, Free
    <3> QED BY <3>9, <3>10
  <2> HIDE DEF new
  <2>4. Separable' = Separable
    BY <1>1 DEF Separable, Free
  <2> QED BY <1>1, <2>1, <2>2, <2>3, <2>4 DEF DsnInv, SettingsKept
<1> QED BY <1>2, <1>3

(* The parameters: what is read of them is what was written. *)
LEMMA ParamStep ==
  ASSUME DsnInv, ReadParam
  PROVE  DsnInv'
<1> DEFINE v     == Before(params, First("&", params))
           key   == IF First("=", v) = 2 THEN v[1] ELSE "unknown"
           value == After(v, First("=", v))
<1>1. /\ opening = "params" /\ config' = config /\ config \in DBConnects
      /\ IsConfig(parsed) /\ IsSettings(config) /\ params # <<>>
      /\ Separable => AddressRead /\ ParamsRead
  BY SettingsTyped DEF DsnInv, ReadParam
<1>2. CASE opening' \in {"refused", "panicked"}
  BY <1>1, <1>2 DEF DsnInv, SettingsKept
<1>3. CASE opening' \notin {"refused", "panicked"}
  <2>1. /\ opening' = "params"
        /\ parsed' = IF Has("=", v) THEN Set(parsed, key, value) ELSE parsed
        /\ params' = After(params, First("&", params))
    BY <1>1, <1>3, Zenon DEF ReadParam
  <2>2. IsConfig(parsed') /\ \A f \in Address : parsed'[f] = parsed[f]
    BY <1>1, <2>1, SetKeeps
  <2>3. ASSUME Separable PROVE AddressRead'
    <3>1. /\ parsed'.User = parsed.User /\ parsed'.Passwd = parsed.Passwd
          /\ parsed'.Net = parsed.Net /\ parsed'.Addr = parsed.Addr
          /\ parsed'.DBName = parsed.DBName
      BY <2>2 DEF Address
    <3> QED BY <1>1, <2>3, <3>1 DEF AddressRead, Free
  <2>4. ASSUME Separable PROVE ParamsRead'
    <3>1. SUFFICES ASSUME Free({"?", "%2F"}, {"DbName"}),
                          Free({"&"}, {"Charset", "ParseTime", "Loc"})
                   PROVE  /\ parsed'.durations = {} /\ parsed'.TLS = <<>>
                          /\ \/ params' = TimeArgs(config) /\ CharsetRead'
                             \/ params' = LocArg(config) /\ CharsetRead'
                             \/ params' = <<>> /\ CharsetRead' /\ LocRead'
      BY <1>1 DEF ParamsRead, Free
    <3>2. /\ parsed.durations = {} /\ parsed.TLS = <<>>
          /\ \/ params = Args(config)
             \/ params = TimeArgs(config) /\ CharsetRead
             \/ params = LocArg(config) /\ CharsetRead
      BY <1>1, <2>4, <3>1 DEF ParamsRead
    <3>3. /\ NameArg(config) \in Text /\ TimeArg(config) \in Text
          /\ LocArg(config) \in Text /\ TimeArgs(config) \in Text
          /\ CharsetOf(config) \in Text /\ TimeOf(config) \in Text
          /\ LocOf(config) \in Text
      BY <1>1, PartsAreTexts, SettingsTexts
    <3>4. /\ "&" \notin Range(NameArg(config))
          /\ "&" \notin Range(TimeArg(config))
          /\ "&" \notin Range(LocArg(config))
      BY <1>1, <3>1, FreeRanges
    <3>5. CASE params = Args(config)
      <4>1. v = NameArg(config) /\ params' = TimeArgs(config)
        BY <2>1, <3>3, <3>4, <3>5, CutFirst, Tokens DEF Args
      <4>2. /\ Has("=", v) /\ First("=", v) = 2 /\ v[1] = "charset"
            /\ After(v, First("=", v)) = CharsetOf(config)
        BY <3>3, <4>1, ReadOne, Tokens DEF NameArg
      <4> HIDE DEF v
      <4>3. parsed' = Set(parsed, "charset", CharsetOf(config))
        BY <2>1, <4>2
      <4> QED BY <1>1, <3>2, <4>1, <4>3, SetCharset DEF CharsetRead
    <3>6. CASE params = TimeArgs(config) /\ CharsetRead
      <4>1. v = TimeArg(config) /\ params' = LocArg(config)
        BY <2>1, <3>3, <3>4, <3>6, CutFirst, Tokens DEF TimeArgs
      <4>2. /\ Has("=", v) /\ First("=", v) = 2 /\ v[1] = "parseTime"
            /\ After(v, First("=", v)) = TimeOf(config)
        BY <3>3, <4>1, ReadOne, Tokens DEF TimeArg
      <4> HIDE DEF v
      <4>3. parsed' = Set(parsed, "parseTime", TimeOf(config))
        BY <2>1, <4>2
      <4> QED BY <1>1, <3>2, <3>6, <4>1, <4>3, SetTime DEF CharsetRead
    <3>7. CASE params = LocArg(config) /\ CharsetRead
      <4>1. v = LocArg(config) /\ params' = <<>>
        BY <2>1, <3>3, <3>4, <3>7, SplitNone
      <4>2. /\ Has("=", v) /\ First("=", v) = 2 /\ v[1] = "loc"
            /\ After(v, First("=", v)) = LocOf(config)
        BY <3>3, <4>1, ReadOne, Tokens DEF LocArg
      <4> HIDE DEF v
      <4>3. parsed' = Set(parsed, "loc", LocOf(config))
        BY <2>1, <4>2
      <4> QED BY <1>1, <3>2, <3>7, <4>1, <4>3, SetLoc DEF CharsetRead, LocRead
    <3> QED BY <3>2, <3>5, <3>6, <3>7
  <2>5. Separable' = Separable
    BY <1>1 DEF Separable, Free
  <2> QED BY <1>1, <2>1, <2>2, <2>3, <2>4, <2>5 DEF DsnInv, SettingsKept
<1> QED BY <1>2, <1>3

(* Nothing is left to unescape, and the address has its port. *)
LEMMA NothingEscaped ==
  ASSUME NEW s \in Text, "%2F" \notin Range(s)
  PROVE  Unescape(s) = s
<1>1. s \in [1 .. Len(s) -> Token] /\ DOMAIN s = 1 .. Len(s)
  BY LenProperties DEF Text
<1>2. \A i \in DOMAIN s : s[i] # "%2F"
  BY DEF Range
<1> QED BY <1>1, <1>2 DEF Unescape

(* Where the tokens of server:port are. *)
LEMMA AddrTokens ==
  ASSUME NEW s \in Text, NEW t \in Text, NEW a \in Text, a = Between(s, ":", t),
         s # <<>>, HostMarks \cap Range(t) = {}
  PROVE  /\ Len(s) \in Nat /\ Len(s) > 0 /\ DOMAIN s = 1 .. Len(s)
         /\ Len(a) \in Nat /\ DOMAIN a = 1 .. Len(a) /\ Len(s) + 1 \in DOMAIN a
         /\ \A i \in 1 .. Len(s) : a[i] = s[i]
         /\ a[Len(s) + 1] = ":"
         /\ \A i \in DOMAIN a : i > Len(s) + 1 => a[i] \notin HostMarks
<1>1. /\ Len(s) \in Nat /\ DOMAIN s = 1 .. Len(s)
      /\ Len(t) \in Nat /\ DOMAIN t = 1 .. Len(t) /\ DOMAIN a = 1 .. Len(a)
  BY LenProperties DEF Text
<1>2. Len(s) > 0
  BY <1>1, EmptySeq DEF Text
<1>3. /\ Len(a) = Len(s) + 1 + Len(t) /\ a[Len(s) + 1] = ":"
      /\ \A i \in 1 .. Len(s) : a[i] = s[i]
      /\ \A i \in 1 .. Len(t) : a[Len(s) + 1 + i] = t[i]
  BY BetweenAt, Tokens
<1>4. ASSUME NEW i \in DOMAIN a, i > Len(s) + 1 PROVE a[i] \notin HostMarks
  <2>1. i - (Len(s) + 1) \in 1 .. Len(t)
    BY <1>1, <1>3, <1>4
  <2>2. a[Len(s) + 1 + (i - (Len(s) + 1))] = t[i - (Len(s) + 1)]
    BY <1>3, <2>1
  <2>3. Len(s) + 1 + (i - (Len(s) + 1)) = i
    BY <1>1
  <2>4. t[i - (Len(s) + 1)] \in Range(t)
    BY <1>1, <2>1 DEF Range
  <2> QED BY <2>2, <2>3, <2>4
<1> QED BY <1>1, <1>2, <1>3, <1>4

(* A token that is at one place only. *)
LEMMA OnePlace ==
  ASSUME NEW a \in Text, NEW x, NEW n, {i \in DOMAIN a : a[i] = x} = {n},
         n \in 1 .. Len(a), Len(a) \in Nat
  PROVE  First(x, a) = n /\ Final(x, a) = n
<1>1. First(x, a) = n
  <2> DEFINE S == {n} \cup {Len(a) + 1}
  <2>1. n \in S /\ \A m \in S : m \in Nat /\ n <= m
    OBVIOUS
  <2> HIDE DEF S
  <2>2. Min(S) = n
    BY <2>1, Least
  <2> QED BY <2>2 DEF First, S
<1>2. Final(x, a) = n
  <2> DEFINE S == {n} \cup {0}
  <2>1. n \in S /\ \A m \in S : m \in Nat /\ m <= n
    OBVIOUS
  <2> HIDE DEF S
  <2>2. Max(S) = n
    BY <2>1, Greatest
  <2> QED BY <2>2 DEF Final, S
<1> QED BY <1>1, <1>2

LEMMA HasItsPort ==
  ASSUME NEW s \in Text, NEW t \in Text, NEW a \in Text, a = Between(s, ":", t),
         s # <<>>, HostMarks \cap Range(t) = {},
         HostMarks \cap Range(s) = {} \/ Bracketed(s)
  PROVE  EnsureHavePort(a) = a
<1>1. /\ Len(s) \in Nat /\ Len(s) > 0 /\ DOMAIN s = 1 .. Len(s)
      /\ Len(a) \in Nat /\ DOMAIN a = 1 .. Len(a) /\ Len(s) + 1 \in DOMAIN a
      /\ \A i \in 1 .. Len(s) : a[i] = s[i]
      /\ a[Len(s) + 1] = ":"
      /\ \A i \in DOMAIN a : i > Len(s) + 1 => a[i] \notin HostMarks
  BY AddrTokens
<1>2. Final(":", a) = Len(s) + 1
  <2>1. ":" \notin Range(t)
    BY DEF HostMarks
  <2> QED BY <2>1, SplitFinal, Tokens DEF Between, Cat, One
<1>3. CASE HostMarks \cap Range(s) = {}
  <2>1. \A i \in 1 .. Len(s) : a[i] \notin HostMarks
    BY <1>1, <1>3 DEF Range
  <2>2. \A i \in DOMAIN a : a[i] # "[" /\ a[i] # "]" /\ (a[i] = ":" <=> i = Len(s) + 1)
    BY <1>1, <2>1 DEF HostMarks
  <2>3. First(":", a) = Len(s) + 1
    <3>1. {i \in DOMAIN a : a[i] = ":"} = {Len(s) + 1}
      BY <1>1, <2>2
    <3>2. Len(s) + 1 \in 1 .. Len(a)
      BY <1>1
    <3> QED BY <1>1, <3>1, <3>2, OnePlace
  <2>4. a[1] # "[" /\ ~Has("[", a) /\ ~Has("]", a)
    BY <1>1, <2>2 DEF Has, Range
  <2> QED BY <1>1, <1>2, <2>3, <2>4 DEF HavePort, EnsureHavePort
<1>4. CASE Bracketed(s)
  <2>1. a[1] = "["
    BY <1>1, <1>4 DEF Bracketed
  <2>2. \A i \in DOMAIN a : (a[i] = "[" <=> i = 1) /\ (a[i] = "]" <=> i = Len(s))
    BY <1>1, <1>4 DEF Bracketed, HostMarks
  <2>3. Final("[", a) = 1
    <3>1. PICK n \in 1 .. Len(a) : n = 1
      BY <1>1
    <3>2. {i \in DOMAIN a : a[i] = "["} = {n}
      BY <1>1, <2>2, <3>1
    <3>3. Final("[", a) = n
      BY <1>1, <3>2, OnePlace
    <3> QED BY <3>1, <3>3
  <2>4. First("]", a) = Len(s) /\ Final("]", a) = Len(s)
    <3>1. {i \in DOMAIN a : a[i] = "]"} = {Len(s)}
      BY <1>1, <2>2
    <3>2. Len(s) \in 1 .. Len(a)
      BY <1>1
    <3> QED BY <1>1, <3>1, <3>2, OnePlace
  <2> QED BY <1>1, <1>2, <2>1, <2>3, <2>4 DEF HavePort, EnsureHavePort
<1> QED BY <1>3, <1>4

LEMMA NoneEmpty ==
  ASSUME NEW c, IsSettings(c)
  PROVE  Args(c) # <<>> /\ TimeArgs(c) # <<>> /\ LocArg(c) # <<>>
<1>1. /\ "&" \in Range(Args(c)) /\ "&" \in Range(TimeArgs(c))
      /\ "=" \in Range(LocArg(c))
  <2>1. "&" \in Range(TimeArgs(c))
    BY PartsAreTexts, BetweenRange, Tokens DEF TimeArgs
  <2>2. "&" \in Range(Args(c))
    BY PartsAreTexts, BetweenRange, Tokens DEF Args
  <2>3. "=" \in Range(LocArg(c))
    BY RangesOfParts
  <2> QED BY <2>1, <2>2, <2>3
<1>2. Range(<<>>) = {}
  BY DEF Range
<1> QED BY <1>1, <1>2

(* The last checks: SettingsKept of what comes out. *)
LEMMA NormalizeStep ==
  ASSUME DsnInv, Normalize
  PROVE  DsnInv'
<1>1. /\ opening = "params" /\ config' = config /\ config \in DBConnects
      /\ IsConfig(parsed) /\ IsSettings(config) /\ params = <<>>
      /\ Separable => AddressRead /\ ParamsRead
  BY SettingsTyped DEF DsnInv, Normalize
<1>2. CASE opening' = "refused"
  BY <1>1, <1>2 DEF DsnInv, SettingsKept
<1>3. CASE opening' # "refused"
  <2>1. /\ opening' = "parsed" /\ IsConfig(parsed')
        /\ parsed'.User = parsed.User /\ parsed'.Passwd = parsed.Passwd
        /\ parsed'.DBName = Unescape(parsed.DBName)
        /\ parsed'.charsets = parsed.charsets /\ parsed'.Loc = parsed.Loc
        /\ parsed'.durations = parsed.durations /\ parsed'.TLS = parsed.TLS
        /\ parsed.Addr # <<>> /\ parsed.Net = <<"tcp">> =>
              parsed'.Addr = EnsureHavePort(parsed.Addr)
    BY <1>1, <1>3 DEF Normalize, IsConfig, Fields
  <2>2. ASSUME Separable PROVE SettingsKept'
    <3>1. /\ config.DbServer \in Text /\ config.DbPort \in Text
          /\ config.DbName \in Text /\ AddrPart(config) \in Text
      BY <1>1, SettingsTexts, PartsAreTexts
    <3>2. ASSUME Free({":"}, {"DbLogin"})
          PROVE  parsed'.User = config.DbLogin /\ parsed'.Passwd = config.DbPasswd
      BY <1>1, <2>1, <2>2, <3>2 DEF AddressRead
    <3>3. ASSUME Free(HostMarks, {"DbServer"}) \/ Bracketed(config.DbServer),
                 Free(HostMarks, {"DbPort"})
          PROVE  parsed'.Addr = config.DbServer \o <<":">> \o config.DbPort
      <4>1. /\ parsed.Net = <<"tcp">> /\ parsed.Addr = AddrPart(config)
            /\ config.DbServer # <<>>
        BY <1>1, <2>2 DEF AddressRead
      <4>2. EnsureHavePort(AddrPart(config)) = AddrPart(config)
        BY <3>1, <3>3, <4>1, HasItsPort DEF AddrPart, Free
      <4>3. AddrPart(config) # <<>>
        <5>1. ":" \in Range(AddrPart(config))
          BY <3>1, Tokens, BetweenRange DEF AddrPart
        <5>2. Range(<<>>) = {}
          BY DEF Range
        <5> QED BY <5>1, <5>2
      <4>4. parsed'.Addr = AddrPart(config)
        BY <2>1, <4>1, <4>2, <4>3
      <4> QED BY <4>4 DEF AddrPart, Between, Cat, One
    <3>4. ASSUME Free({"?", "%2F"}, {"DbName"})
          PROVE  parsed'.DBName = config.DbName
      <4>1. Free({"?"}, {"DbName"}) /\ "%2F" \notin Range(config.DbName)
        BY <3>4 DEF Free
      <4>2. Unescape(config.DbName) = config.DbName
        BY <3>1, <4>1, NothingEscaped
      <4> QED BY <1>1, <2>1, <2>2, <4>1, <4>2 DEF AddressRead
    <3>5. ASSUME Free({"?", "%2F"}, {"DbName"}),
                 Free({"&"}, {"Charset", "ParseTime", "Loc"})
          PROVE  /\ parsed'.charsets = Pieces(",", CharsetOf(config))
                 /\ parsed'.Loc = Unescape(LocOf(config))
                 /\ parsed'.durations = {} /\ parsed'.TLS = <<>>
      <4>1. /\ parsed.durations = {} /\ parsed.TLS = <<>>
            /\ \/ params = Args(config)
               \/ params = TimeArgs(config)
               \/ params = LocArg(config)
               \/ CharsetRead /\ LocRead
        BY <1>1, <2>2, <3>5 DEF ParamsRead
      <4>2. Args(config) # <<>> /\ TimeArgs(config) # <<>> /\ LocArg(config) # <<>>
        BY <1>1, NoneEmpty
      <4> QED BY <1>1, <2>1, <4>1, <4>2 DEF CharsetRead, LocRead
    <3> QED BY <1>1, <3>2, <3>3, <3>4, <3>5
            DEF SettingsKept, Free, Bracketed, CharsetOf, LocOf
  <2>3. Separable' = Separable
    BY <1>1 DEF Separable, Free
  <2>4. SettingsKept'
    BY <2>2, <2>3 DEF SettingsKept, Separable
  <2> QED BY <1>1, <2>1, <2>4 DEF DsnInv
<1> QED BY <1>2, <1>3

(* The settings that are missing refuse the whole. *)
LEMMA ConfigureStep ==
  ASSUME DsnInv, Configure
  PROVE  DsnInv'
<1>1. /\ opening = "configure" /\ config' = config /\ config \in DBConnects
      /\ parsed' = parsed /\ parsed = NewConfig
  BY DEF DsnInv, Configure
<1>2. CASE opening' = "refused"
  BY <1>1, <1>2 DEF DsnInv, SettingsKept
<1>3. CASE opening' # "refused"
  <2>1. /\ opening' = "address" /\ dsn' = MysqlDSN(config)
        /\ config["DbServer"] # <<>>
    BY <1>3 DEF Configure
  <2>2. IsConfig(NewConfig)
    BY DEF IsConfig, Fields, NewConfig
  <2> QED BY <1>1, <2>1, <2>2 DEF DsnInv, SettingsKept
<1> QED BY <1>2, <1>3

LEMMA DsnInvInit == DbInit => DsnInv
<1> SUFFICES ASSUME DbInit PROVE DsnInv
  OBVIOUS
<1>1. CASE opening = "opened"
  BY <1>1 DEF DsnInv, SettingsKept
<1>2. CASE DsnInit
  <2>1. IsConfig(NewConfig)
    BY DEF IsConfig, Fields, NewConfig
  <2> QED BY <1>2, <2>1 DEF DsnInit, DsnInv, SettingsKept
<1> QED BY <1>1, <1>2 DEF DbInit

LEMMA DsnStep == DsnInv /\ [DbNext]_dbVars => DsnInv'
<1> SUFFICES ASSUME DsnInv, [DbNext]_dbVars PROVE DsnInv'
  OBVIOUS
<1>1. CASE UNCHANGED dsnVars
  <2>1. SettingsKept'
    BY <1>1 DEF dsnVars, DsnInv, SettingsKept, Free
  <2>2. (opening = "params" /\ Separable => AddressRead /\ ParamsRead)'
    BY <1>1 DEF dsnVars, DsnInv, AddressRead, ParamsRead, Separable, CharsetRead,
                LocRead, Free
  <2> QED BY <1>1, <2>1, <2>2 DEF dsnVars, DsnInv
<1>2. CASE DbSettings
  BY <1>2, ConfigureStep, AddressStep, ParamStep, NormalizeStep
     DEF DbSettings, ParseDSN
<1>3. CASE DbOpen
  <2>1. opening' = "opened"
    BY <1>3 DEF DbOpen
  <2> QED BY <2>1 DEF DsnInv, SettingsKept
<1> QED BY <1>1, <1>2, <1>3 DEF DbNext, dbVars

(* What the driver has read at every stage of sql.Open: at the address, and
   one parameter after the other. *)
THEOREM DsnInvHolds == DbFairSpec => []DsnInv
<1> QED BY DsnInvInit, DsnStep, PTL DEF DbFairSpec

(* NewSherryDB writes the settings into a DSN without escaping anything;
   ParseDSN finds them again, whatever the password holds, unless another one
   holds a character that separates the parts. *)
THEOREM SettingsKeptHolds == DbFairSpec => []SettingsKept
<1>1. DsnInv => SettingsKept
  BY DEF DsnInv
<1> QED BY <1>1, DsnInvHolds, PTL

-----------------------------------------------------------------------------
Hows    == {"command", "empty", "clear", "scramble", "encrypted", "askKey"}
Nonces  == {"none", "first", "second"}
Names   == Plugins \cup {"", "other"}
Replies == {"greeting", "OK", "ERR", "switch", "fast", "full", "key"}

Message == [how : Hows, nonce : Nonces, plugin : Names, seq : Nat]
Reply   == [is : Replies, plugin : Names, nonce : Nonces, seq : Nat]

Scalars ==
    /\ phase \in Waiting \cup Ended \cup {"auth", "setNames"}
    /\ plugin \in Names /\ nonce \in Nonces /\ wants \in Nonces
    /\ count \in Nat /\ charset \in Nat /\ failures \in Nat
    /\ account \in Account /\ "passwd" \in DOMAIN cfg
    /\ server \in {"greet", "response", "switched", "full", "encrypted",
                   "command", "closed"}

Sequences == toServer \in Seq(Message) /\ toClient \in Seq(Reply)

Types == Scalars /\ Sequences

(* One message at a time, or an answer of one packet, of two after a fast
   authentication; numbered as the client expects. *)
Stream ==
    /\ Len(toServer) <= 1 /\ Len(toClient) <= 2
    /\ toServer # <<>> => toClient = <<>> /\ toServer[1].seq + 1 = count
    /\ toClient # <<>> => toClient[1].seq = count
    /\ Len(toClient) = 2 => /\ toClient[1].is = "fast"
                            /\ toClient[2].is = "OK" /\ toClient[2].seq = count + 1
    /\ toClient # <<>> /\ toClient[1].is = "fast" => Len(toClient) = 2
    /\ server = "greet" => toServer = <<>> /\ toClient = <<>> /\ count = 0

Before_ == {"none", "greeting"}

(* Where the server is when the client has sent nothing yet ... *)
Greeting ==
    /\ phase \in Before_ =>
          /\ toServer = <<>> /\ count = 0
          /\ \/ server = "greet"
             \/ toClient # <<>> /\ toClient[1].is = "greeting" /\ server = "response"
             \/ /\ toClient # <<>> /\ toClient[1].is = "ERR"
                /\ server = "closed" /\ failures > 0
    /\ phase = "auth" =>
          /\ toServer = <<>> /\ toClient = <<>> /\ count = 1
          /\ server = "response" /\ nonce = "first"

(* ... when it has to look at a message ... *)
Asked ==
    toServer # <<>> =>
        /\ phase = "result" => server = "response" /\ toServer[1].plugin = plugin
        /\ phase = "switchResult" => server = "switched" /\ plugin = account.plugin
        /\ phase \in Results /\ toServer[1].how = "askKey" => plugin = Sha256
        /\ phase = "key" => server = "full" /\ toServer[1].how = "askKey"
        /\ phase = "verdict" =>
              server \in {"full", "encrypted"} /\ toServer[1].how # "askKey"
        /\ phase = "names" => server = "command"
        /\ phase # "fastResult"

(* ... when it has answered ... *)
Answered ==
    toClient # <<>> /\ phase \in Waiting \ {"greeting"} =>
        /\ toClient[1].is # "greeting"
        /\ toClient[1].is = "switch" =>
              /\ phase = "result" /\ server = "switched"
              /\ toClient[1].plugin = account.plugin
        /\ toClient[1].is = "fast" => phase \in Results /\ plugin = Sha2
        /\ toClient[1].is = "full" =>
              phase \in Results /\ plugin = Sha2 /\ server = "full"
        /\ toClient[1].is = "key" =>
              /\ phase = "key" \/ (phase \in Results /\ plugin = Sha256)
              /\ server = "encrypted"
        /\ toClient[1].is \in {"OK", "fast"} => server = "command"
        /\ toClient[1].is = "ERR" => phase = "names" \/ server = "closed"
        /\ phase = "fastResult" => toClient[1].is = "OK"
        /\ phase = "key" => toClient[1].is = "key"
        /\ phase = "verdict" => toClient[1].is \in {"OK", "ERR"}
        /\ phase = "names" => toClient[1].is \in {"OK", "ERR"} /\ server = "command"

(* ... and when nobody has anything to say. *)
Quiet ==
    /\ phase \in {"setNames", "connected"} =>
          toServer = <<>> /\ toClient = <<>> /\ server = "command"
    /\ phase \in Waiting \ {"greeting"} => toServer # <<>> \/ toClient # <<>>
    /\ phase = "key" => plugin = Sha2

Dialogue == Greeting /\ Asked /\ Answered /\ Quiet

(* The nonce the client uses is the one the server wants, so that nothing but
   another password, or a failure, makes the server give up. *)
Trust ==
    /\ accepted = (server = "command")
    /\ server = "response" => wants = "first"
    /\ phase \in {"result", "switchResult", "key", "verdict"} =>
          /\ toServer # <<>> => toServer[1].nonce = nonce
          /\ toClient # <<>> /\ toClient[1].is = "switch" =>
                wants = IF toClient[1].nonce = "none" THEN nonce ELSE toClient[1].nonce
          /\ ~(toClient # <<>> /\ toClient[1].is = "switch") => wants = nonce
    /\ failures = 0 /\ Matches /\ phase \notin {"failed", "bad"} => server # "closed"

Secured == phase \in Results => secure = (cfg.tls # "no")

HsInv == /\ Types /\ Stream /\ Dialogue /\ Trust /\ Secured
         /\ RightPasswordConnects /\ ClearOnlyWhereAllowed

(* Until sql.Open has returned, nothing is sent. *)
OpenInv == opening # "opened" => pc = "idle" /\ phase = "none"

-----------------------------------------------------------------------------
(* What reading, writing and answering leave on the connection. *)

LEMMA Empty == <<>> \in Seq(Message) /\ <<>> \in Seq(Reply) /\ Len(<<>>) = 0
BY EmptySeq

LEMMA Lengths ==
  ASSUME Types
  PROVE  /\ Len(toServer) \in Nat /\ Len(toClient) \in Nat
         /\ toServer # <<>> => Len(toServer) > 0 /\ toServer[1] \in Message
                               /\ Head(toServer) = toServer[1]
         /\ toClient # <<>> => Len(toClient) > 0 /\ toClient[1] \in Reply
                               /\ Head(toClient) = toClient[1]
<1>1. toServer \in Seq(Message) /\ toClient \in Seq(Reply)
  BY DEF Types, Sequences
<1>2. ASSUME NEW S, NEW s \in Seq(S), s # <<>>
      PROVE  Len(s) \in Nat \ {0} /\ s[1] \in S /\ Head(s) = s[1]
  BY <1>2, EmptySeq, ElementOfSeq, HeadTailProperties
<1> QED BY <1>1, <1>2

LEMMA OneOrTwo ==
  ASSUME NEW n \in Nat, n > 0
  PROVE  (n <= 1 => n = 1) /\ (n <= 2 <=> n \in {1, 2})
OBVIOUS

LEMMA Took ==
  ASSUME Types, Stream, NEW kinds, FromServer(kinds)
  PROVE  /\ toServer = <<>> /\ toClient # <<>> /\ Received = toClient[1]
         /\ toClient[1] \in Reply /\ toClient[1].is \in kinds
         /\ toClient' \in Seq(Reply)
         /\ toClient[1].is # "fast" => toClient' = <<>>
         /\ toClient[1].is = "fast" =>
               Len(toClient') = 1 /\ toClient'[1].is = "OK" /\ toClient'[1].seq = count + 1
<1>1. toServer = <<>> /\ toClient # <<>> /\ toClient' = Tail(toClient)
  BY DEF FromServer, Stream
<1>2. Received = toClient[1] /\ toClient[1] \in Reply /\ Len(toClient) \in {1, 2}
  <2>1. Len(toClient) <= 2 /\ Types
    BY DEF Stream
  <2>2. Len(toClient) > 0 /\ Len(toClient) \in Nat
    BY <1>1, <2>1, Lengths
  <2>3. toClient[1] \in Reply /\ Received = toClient[1]
    BY <1>1, <2>1, Lengths DEF Received
  <2>4. Len(toClient) \in {1, 2}
    BY <2>1, <2>2, OneOrTwo
  <2> QED BY <2>3, <2>4
<1>3. toClient[1].is \in kinds
  BY <1>2 DEF FromServer, Received
<1>4. toClient' \in Seq(Reply) /\ Len(toClient') = Len(toClient) - 1
  BY <1>1 DEF Types, Sequences
<1>5. toClient[1].is # "fast" => toClient' = <<>>
  BY <1>1, <1>2, <1>4 DEF Stream
<1>6. toClient[1].is = "fast" => Len(toClient') = 1 /\ toClient'[1] = toClient[2]
  BY <1>1, <1>4 DEF Stream, Types, Sequences
<1> QED BY <1>1, <1>2, <1>3, <1>4, <1>5, <1>6 DEF Stream

LEMMA Sent ==
  ASSUME Types, toServer = <<>>, NEW h \in Hows, NEW n \in Nat,
         nonce' \in Nonces, plugin' \in Names, ToServer(Respond(h), n)
  PROVE  /\ toServer' \in Seq(Message) /\ toServer' # <<>> /\ Len(toServer') = 1
         /\ toServer'[1].how = h /\ toServer'[1].nonce = nonce'
         /\ toServer'[1].plugin = plugin'
         /\ toServer'[1].seq + 1 = count' /\ count' \in Nat
<1> DEFINE m == [how |-> h, nonce |-> nonce', plugin |-> plugin', seq |-> count + n]
<1>1. m \in Message /\ count' = m.seq + 1
  BY DEF Message, Types, Scalars, ToServer
<1>2. toServer' = Append(toServer, m)
  BY DEF ToServer, Respond
<1>3. toServer' = <<m>>
  BY <1>2
<1> HIDE DEF m
<1>4. toServer' \in Seq(Message) /\ Len(toServer') = 1 /\ toServer'[1] = m
  BY <1>1, <1>3
<1>5. toServer' # <<>>
  BY <1>3
<1> QED BY <1>1, <1>4, <1>5 DEF m, Message, Types, Scalars

LEMMA Said ==
  ASSUME Types, Stream, toServer # <<>>, NEW kinds \in Seq(Replies),
         Says(Head(toServer), kinds)
  PROVE  /\ toServer[1] \in Message /\ Head(toServer) = toServer[1]
         /\ toServer' = <<>> /\ toClient = <<>>
         /\ toClient' \in Seq(Reply) /\ Len(toClient') = Len(kinds)
         /\ \A i \in 1 .. Len(kinds) :
               /\ toClient'[i].is = kinds[i]
               /\ toClient'[i].seq = toServer[1].seq + i
<1>1. Len(toServer) = 1 /\ toClient = <<>> /\ Head(toServer) = toServer[1]
      /\ toServer[1] \in Message
  <2>1. Len(toServer) <= 1 /\ toClient = <<>> /\ Types
    BY DEF Stream
  <2>2. Len(toServer) > 0 /\ Len(toServer) \in Nat
    BY <2>1, Lengths
  <2>3. toServer[1] \in Message /\ Head(toServer) = toServer[1]
    BY <2>1, Lengths
  <2>4. Len(toServer) = 1
    BY <2>1, <2>2, OneOrTwo
  <2> QED BY <2>1, <2>3, <2>4
<1>2. toServer' = <<>>
  <2>1. toServer' = Tail(toServer) /\ toServer \in Seq(Message)
    BY DEF Says, Types, Sequences
  <2>2. Tail(toServer) \in Seq(Message) /\ Len(Tail(toServer)) = 0
    BY <1>1, <2>1, HeadTailProperties
  <2> QED BY <2>1, <2>2, EmptySeq
<1> DEFINE f == [i \in 1 .. Len(kinds) |->
                    HsPacket(kinds[i], "", "none", toServer[1].seq + i)]
<1>3. Len(kinds) \in Nat /\ DOMAIN kinds = 1 .. Len(kinds)
  OBVIOUS
<1>4. ASSUME NEW i \in 1 .. Len(kinds)
      PROVE  HsPacket(kinds[i], "", "none", toServer[1].seq + i) \in Reply
  <2>1. kinds[i] \in Replies
    BY <1>4
  <2>2. toServer[1].seq + i \in Nat
    BY <1>1, <1>4 DEF Message
  <2> QED BY <2>1, <2>2 DEF HsPacket, Reply, Names, Nonces
<1>5. f \in Seq(Reply)
  <2>1. f \in [1 .. Len(kinds) -> Reply]
    BY <1>4
  <2> HIDE DEF f
  <2> QED BY <1>3, <2>1, SeqDef
<1>6. Len(f) = Len(kinds)
  <2>1. DOMAIN f = 1 .. Len(kinds)
    OBVIOUS
  <2> HIDE DEF f
  <2> QED BY <1>3, <1>5, <2>1, LenProperties
<1>7. toClient' = <<>> \o f
  BY <1>1 DEF Says
<1>8. \A i \in 1 .. Len(kinds) :
         f[i].is = kinds[i] /\ f[i].seq = toServer[1].seq + i
  BY DEF HsPacket
<1> HIDE DEF f
<1>9. toClient' = f
  BY <1>5, <1>7
<1> QED BY <1>1, <1>2, <1>5, <1>6, <1>8, <1>9

-----------------------------------------------------------------------------
(* The client. *)

LEMMA OpenStep ==
  ASSUME HsInv, Open
  PROVE  HsInv'
<1>1. Types'
  <2>1. toServer' \in Seq(Message) /\ toClient' \in Seq(Reply)
    BY Empty DEF Open
  <2>2. phase' \in Waiting \cup Ended \cup {"auth", "setNames"}
    BY DEF Open, Waiting
  <2> QED BY <2>1, <2>2 DEF HsInv, Types, Scalars, Sequences, Open, Names, Nonces
<1>2. Stream'
  <2>1. Len(toServer') = 0 /\ Len(toClient') = 0 /\ toServer' = <<>> /\ toClient' = <<>>
    BY Empty DEF Open
  <2>2. count' = 0
    BY DEF Open
  <2> QED BY <2>1, <2>2 DEF Stream
<1>3. Dialogue'
  BY DEF Dialogue, Greeting, Asked, Answered, Quiet, Open, Before_
<1>4. Trust'
  BY DEF Trust, Open
<1>5. Secured' /\ RightPasswordConnects'
  BY DEF Secured, Results, RightPasswordConnects, Open
<1>6. ClearOnlyWhereAllowed'
  <2>1. Len(toServer') = 0
    BY Empty DEF Open
  <2> QED BY <2>1 DEF ClearOnlyWhereAllowed
<1> QED BY <1>1, <1>2, <1>3, <1>4, <1>5, <1>6 DEF HsInv

LEMMA ReadGreetingStep ==
  ASSUME HsInv, ReadGreeting
  PROVE  HsInv'
<1> USE DEF HsInv
<1>1. FromServer({"greeting"}) /\ count' = count + 1
  BY DEF ReadGreeting, Gets
<1>2. /\ toServer = <<>> /\ toClient # <<>> /\ toClient[1].is = "greeting"
      /\ Received \in Reply /\ toClient' = <<>>
  BY <1>1, Took
<1>3. phase = "greeting" /\ toServer' = <<>> /\ UNCHANGED <<serverVars, failures, charset>>
  BY <1>2 DEF ReadGreeting, Fail
<1>4. phase' \in {"auth", "failed"}
  BY DEF ReadGreeting, Fail
<1>5. server = "response" /\ count = 0
  BY <1>2, <1>3 DEF Dialogue, Greeting, Before_, Stream
<1>6. count' = 1
  BY <1>1, <1>5
<1>7. Types'
  <2>1. Sequences'
    BY <1>2, <1>3, Empty DEF Sequences
  <2>2. plugin' \in Names /\ nonce' \in Nonces
    BY <1>2 DEF ReadGreeting, Fail, Types, Scalars, Reply, Names, Nonces, Plugins
  <2>3. phase' \in Waiting \cup Ended \cup {"auth", "setNames"}
    BY <1>4 DEF Ended
  <2>4. "passwd" \in DOMAIN cfg'
    BY DEF ReadGreeting, Fail, Types, Scalars
  <2> QED BY <1>3, <1>6, <2>1, <2>2, <2>3, <2>4 DEF Types, Scalars, serverVars
<1>8. Stream'
  <2>1. toServer' = <<>> /\ toClient' = <<>> /\ Len(toServer') = 0 /\ Len(toClient') = 0
    BY <1>2, <1>3, Empty
  <2>2. server' # "greet"
    BY <1>3, <1>5 DEF serverVars
  <2> QED BY <2>1, <2>2 DEF Stream
<1>9. Dialogue'
  <2>1. phase' = "auth" => nonce' = "first"
    BY DEF ReadGreeting, Fail
  <2> QED BY <1>2, <1>3, <1>4, <1>5, <1>6, <2>1 DEF Dialogue, Greeting, Asked, Answered,
          Quiet, Before_, Waiting, serverVars
<1>10. Trust'
  <2>1. cfg'.passwd = cfg.passwd
    BY DEF ReadGreeting, Fail, Types, Scalars
  <2> QED BY <1>2, <1>3, <1>4, <1>5, <2>1 DEF Trust, serverVars, Matches
<1>11. Secured'
  BY <1>4 DEF Secured, Results
<1>12. ClearOnlyWhereAllowed'
  <2>1. Len(toServer') = 0
    BY <1>3, Empty
  <2> QED BY <2>1 DEF ClearOnlyWhereAllowed
<1>13. RightPasswordConnects'
  BY <1>3 DEF RightPasswordConnects, ReadGreeting, Fail, serverVars
<1> QED BY <1>7, <1>8, <1>9, <1>10, <1>11, <1>12, <1>13

(* After a packet nothing is left, or a message is sent. *)
LEMMA NothingLeft ==
  ASSUME server # "greet", server' = server, toServer' = <<>>, toClient' = <<>>
  PROVE  Sequences' /\ Stream' /\ ClearOnlyWhereAllowed'
<1>1. Len(toServer') = 0 /\ Len(toClient') = 0 /\ Sequences'
  BY Empty DEF Sequences
<1>2. Stream'
  BY <1>1 DEF Stream
<1> QED BY <1>1, <1>2 DEF ClearOnlyWhereAllowed

LEMMA MessageLeft ==
  ASSUME Types, server # "greet", server' = server, toServer = <<>>, toClient' = <<>>,
         NEW h \in Hows, NEW n \in Nat, nonce' \in Nonces, plugin' \in Names,
         ToServer(Respond(h), n), UNCHANGED cfg,
         h = "clear" => secure' \/ cfg.unix \/ (Clear \in cfg.allow /\ plugin' = Clear)
  PROVE  Sequences' /\ Stream' /\ ClearOnlyWhereAllowed' /\ count' \in Nat
<1>1. /\ toServer' \in Seq(Message) /\ toServer' # <<>> /\ Len(toServer') = 1
      /\ toServer'[1].how = h /\ toServer'[1].seq + 1 = count' /\ count' \in Nat
  BY Sent
<1>2. Sequences' /\ Len(toClient') = 0
  BY <1>1, Empty DEF Sequences
<1>3. Stream'
  BY <1>1, <1>2 DEF Stream
<1>4. ClearOnlyWhereAllowed'
  BY <1>1 DEF ClearOnlyWhereAllowed
<1> QED BY <1>1, <1>2, <1>3, <1>4

LEMMA Failing ==
  ASSUME HsInv, phase' \in {"failed", "bad"}, UNCHANGED serverVars
  PROVE  Dialogue' /\ Trust' /\ Secured'
<1>1. phase' \notin Waiting /\ phase' \notin {"none", "auth", "setNames", "connected"}
  BY DEF Waiting
<1>2. Dialogue'
  BY <1>1 DEF Dialogue, Greeting, Asked, Answered, Quiet, Before_, Waiting, Results
<1>3. Trust'
  BY <1>1 DEF HsInv, Trust, serverVars, Waiting
<1>4. Secured'
  BY <1>1 DEF Secured, Results
<1> QED BY <1>2, <1>3, <1>4

LEMMA LoseStep ==
  ASSUME HsInv, Lose
  PROVE  HsInv'
<1> USE DEF HsInv
<1>1. phase' \in {"failed", "bad"}
  BY DEF Lose
<1>2. UNCHANGED <<serverVars, cfg, plugin, nonce, secure, count, charset, toServer, toClient>>
  BY DEF Lose
<1>3. failures' = failures + 1 /\ failures \in Nat
  BY DEF Lose, Types, Scalars
<1>4. Types'
  BY <1>1, <1>2, <1>3 DEF Types, Scalars, Sequences, serverVars, Ended
<1>5. Stream' /\ ClearOnlyWhereAllowed'
  BY <1>2 DEF Stream, ClearOnlyWhereAllowed, serverVars
<1>6. RightPasswordConnects'
  BY <1>3 DEF RightPasswordConnects
<1> QED BY <1>1, <1>2, <1>4, <1>5, <1>6, Failing

LEMMA ReadRefusalStep ==
  ASSUME HsInv, ReadRefusal
  PROVE  HsInv'
<1> USE DEF HsInv
<1>1. FromServer({"ERR"}) /\ count' = count + 1
  BY DEF ReadRefusal, Gets
<1>2. toServer = <<>> /\ toClient # <<>> /\ toClient[1].is = "ERR" /\ toClient' = <<>>
  BY <1>1, Took
<1>3. /\ phase = "greeting" /\ phase' = "failed"
      /\ UNCHANGED <<serverVars, failures, cfg, plugin, nonce, charset, toServer>>
  BY DEF ReadRefusal, Fail
<1>4. failures > 0 /\ server # "greet"
  BY <1>2, <1>3 DEF Dialogue, Greeting, Before_, Stream
<1>5. Sequences' /\ Stream' /\ ClearOnlyWhereAllowed'
  BY <1>2, <1>3, <1>4, NothingLeft DEF serverVars
<1>6. Types'
  BY <1>1, <1>3, <1>5 DEF Types, Scalars, serverVars, Ended
<1>7. RightPasswordConnects'
  BY <1>3, <1>4 DEF RightPasswordConnects
<1> QED BY <1>3, <1>5, <1>6, <1>7, Failing

LEMMA AuthFailsStep ==
  ASSUME HsInv, AuthFails
  PROVE  HsInv'
<1> USE DEF HsInv
<1>1. /\ phase = "auth" /\ phase' = "failed"
      /\ UNCHANGED <<serverVars, failures, cfg, plugin, nonce, secure, charset, count,
                     toServer, toClient>>
  BY DEF AuthFails, Fail
<1>2. Types'
  BY <1>1 DEF Types, Scalars, Sequences, serverVars, Ended
<1>3. Stream' /\ ClearOnlyWhereAllowed'
  BY <1>1 DEF Stream, ClearOnlyWhereAllowed, serverVars
<1>4. Native \notin cfg.allow
  <2>1. Refuses(Native, FALSE)
    BY DEF AuthFails, Chosen
  <2>2. Native \in Plugins /\ Native # Ed25519
    BY DEF Native, Plugins, Ed25519
  <2> QED BY <2>1, <2>2 DEF Refuses
<1>5. count' = 1
  BY <1>1 DEF Dialogue, Greeting
<1>6. RightPasswordConnects'
  BY <1>1, <1>4, <1>5 DEF RightPasswordConnects
<1> QED BY <1>1, <1>2, <1>3, <1>6, Failing

(* What a plugin answers. *)
LEMMA HowFacts ==
  ASSUME NEW p \in Names
  PROVE  /\ How(p) \in Hows
         /\ How(p) = "askKey" => p = Sha256
         /\ How(p) = "clear" => p = Clear \/ cfg.tls # "no"
         /\ \A b \in BOOLEAN : ~Refuses(p, b) => p \in Plugins /\ (p = Clear => p \in cfg.allow)
BY DEF How, Hows, NoPasswd, Refuses, Clear, Sha256, Ed25519, Native, Old, Names

LEMMA SendResponseStep ==
  ASSUME HsInv, SendResponse
  PROVE  HsInv'
<1> USE DEF HsInv
<1>1. /\ phase = "auth" /\ phase' = "result"
      /\ UNCHANGED <<serverVars, failures, cfg, nonce, charset, toClient>>
      /\ plugin' = Chosen /\ ~Refuses(Chosen, FALSE) /\ secure' = (cfg.tls # "no")
  BY DEF SendResponse
<1>2. /\ toServer = <<>> /\ toClient = <<>> /\ server = "response" /\ nonce = "first"
  BY <1>1 DEF Dialogue, Greeting
<1>3. nonce' \in Nonces /\ plugin' \in Names /\ Chosen \in Names
  BY <1>1 DEF Types, Scalars, Chosen, Names, Native, Plugins
<1> DEFINE n == IF secure' THEN 1 ELSE 0
<1>4. ToServer(Respond(How(Chosen)), n) /\ n \in Nat
  BY DEF SendResponse
<1> HIDE DEF n
<1>5. How(Chosen) = "askKey" => Chosen = Sha256
  BY <1>3, HowFacts
<1>6. /\ toServer' # <<>> /\ toServer'[1].how = How(Chosen)
      /\ toServer'[1].nonce = nonce' /\ toServer'[1].plugin = plugin'
  BY <1>2, <1>3, <1>4, Sent, HowFacts
<1>7. How(Chosen) = "clear" => secure' \/ cfg.unix \/ (Clear \in cfg.allow /\ plugin' = Clear)
  BY <1>1, <1>3, HowFacts
<1>8. Sequences' /\ Stream' /\ ClearOnlyWhereAllowed' /\ count' \in Nat
  BY <1>1, <1>2, <1>3, <1>4, <1>7, HowFacts, MessageLeft DEF serverVars
<1>9. Types'
  BY <1>1, <1>3, <1>8 DEF Types, Scalars, serverVars, Waiting
<1>10. Dialogue'
  BY <1>1, <1>2, <1>5, <1>6 DEF Dialogue, Greeting, Asked, Answered, Quiet, Before_,
     Waiting, Results, serverVars
<1>11. Trust'
  BY <1>1, <1>2, <1>6 DEF Trust, serverVars, Matches
<1>12. Secured' /\ RightPasswordConnects'
  BY <1>1 DEF Secured, Results, RightPasswordConnects, Waiting
<1> QED BY <1>8, <1>9, <1>10, <1>11, <1>12

LEMMA ReadSwitchStep ==
  ASSUME HsInv, ReadSwitch
  PROVE  HsInv'
<1> USE DEF HsInv
<1>1. /\ phase = "result" /\ FromServer({"switch"})
      /\ UNCHANGED <<cfg, secure, charset, serverVars, failures>>
      /\ nonce' = IF Received.nonce = "none" THEN nonce ELSE Received.nonce
      /\ plugin' = Received.plugin
  BY DEF ReadSwitch
<1>2. /\ toServer = <<>> /\ toClient # <<>> /\ Received = toClient[1] /\ Received \in Reply
      /\ Received.is = "switch" /\ toClient' = <<>>
  BY <1>1, Took
<1>3. server = "switched" /\ plugin' = account.plugin
  BY <1>1, <1>2 DEF Dialogue, Answered, Waiting
<1>4. wants = nonce'
  BY <1>1, <1>2 DEF Trust
<1>5. nonce' \in Nonces /\ plugin' \in Names
  BY <1>1, <1>2 DEF Types, Scalars, Reply
<1>6. secure = (cfg.tls # "no")
  BY <1>1 DEF Secured, Results
<1>7. CASE Refuses(plugin', TRUE)
  <2>1. phase' = "failed" /\ count' = count + 1 /\ UNCHANGED toServer
    BY <1>7 DEF ReadSwitch
  <2>2. Sequences' /\ Stream' /\ ClearOnlyWhereAllowed'
    BY <1>1, <1>2, <1>3, <2>1, NothingLeft DEF serverVars
  <2>3. Types'
    BY <1>1, <1>5, <2>1, <2>2 DEF Types, Scalars, serverVars, Ended
  <2>4. account.plugin \in ({Native, Old, Clear} \ cfg.allow) \cup {"other"}
    BY <1>3, <1>7 DEF Refuses, Types, Scalars, Account
  <2>5. RightPasswordConnects'
    BY <1>1, <2>4 DEF RightPasswordConnects, serverVars
  <2> QED BY <1>1, <2>1, <2>2, <2>3, <2>5, Failing
<1>8. CASE ~Refuses(plugin', TRUE)
  <2>1. ToServer(Respond(How(plugin')), 1) /\ phase' = "switchResult"
    BY <1>8 DEF ReadSwitch
  <2>2. /\ How(plugin') \in Hows
        /\ How(plugin') = "askKey" => plugin' = Sha256
        /\ How(plugin') = "clear" => secure' \/ cfg.unix \/ (Clear \in cfg.allow /\ plugin' = Clear)
    BY <1>1, <1>5, <1>6, <1>8, HowFacts
  <2>3. /\ toServer' # <<>> /\ toServer'[1].how = How(plugin')
        /\ toServer'[1].nonce = nonce'
    BY <1>2, <1>5, <2>1, <2>2, Sent
  <2>4. Sequences' /\ Stream' /\ ClearOnlyWhereAllowed' /\ count' \in Nat
    BY <1>1, <1>2, <1>3, <1>5, <2>1, <2>2, MessageLeft DEF serverVars
  <2>5. Types'
    BY <1>1, <1>5, <2>1, <2>4 DEF Types, Scalars, serverVars, Waiting
  <2>6. Dialogue'
    BY <1>1, <1>2, <1>3, <2>1, <2>2, <2>3 DEF Dialogue, Greeting, Asked, Answered, Quiet,
       Before_, Waiting, Results, serverVars
  <2>7. Trust'
    BY <1>1, <1>2, <1>3, <1>4, <2>1, <2>3 DEF Trust, serverVars, Matches
  <2>8. Secured' /\ RightPasswordConnects'
    BY <1>1, <1>6, <2>1 DEF Secured, Results, RightPasswordConnects
  <2> QED BY <2>4, <2>5, <2>6, <2>7, <2>8
<1> QED BY <1>7, <1>8

(* The end of the authentication, or of SET NAMES. *)
LEMMA Accepted ==
  ASSUME HsInv, server = "command", phase' \in {"setNames", "connected"},
         toServer' = <<>>, toClient' = <<>>, count' \in Nat, charset' \in Nat,
         UNCHANGED <<cfg, plugin, nonce, secure, serverVars, failures>>
  PROVE  HsInv'
<1> USE DEF HsInv
<1>1. Sequences' /\ Stream' /\ ClearOnlyWhereAllowed'
  BY NothingLeft DEF serverVars
<1>2. Types'
  BY <1>1 DEF Types, Scalars, serverVars, Waiting, Ended
<1>3. Dialogue'
  BY DEF Dialogue, Greeting, Asked, Answered, Quiet, Before_, Waiting, Results, serverVars
<1>4. Trust'
  BY DEF Trust, serverVars, Matches
<1>5. Secured' /\ RightPasswordConnects'
  BY DEF Secured, Results, RightPasswordConnects, Waiting
<1> QED BY <1>1, <1>2, <1>3, <1>4, <1>5

(* An error ends the attempt, and has a reason. *)
LEMMA Rejected ==
  ASSUME HsInv, server = "closed", phase \in Waiting \ {"greeting"}, phase' = "failed",
         toServer' = <<>>, toClient' = <<>>, count' \in Nat,
         UNCHANGED <<cfg, plugin, nonce, secure, charset, serverVars, failures>>
  PROVE  HsInv'
<1> USE DEF HsInv
<1>1. Sequences' /\ Stream' /\ ClearOnlyWhereAllowed'
  BY NothingLeft DEF serverVars
<1>2. Types'
  BY <1>1 DEF Types, Scalars, serverVars, Ended
<1>3. ~(failures = 0 /\ Matches)
  BY DEF Trust, Waiting
<1>4. RightPasswordConnects'
  BY <1>3 DEF RightPasswordConnects, Matches, serverVars
<1> QED BY <1>1, <1>2, <1>4, Failing

LEMMA ReadResultStep ==
  ASSUME HsInv, ReadResult
  PROVE  HsInv'
<1> USE DEF HsInv
<1> DEFINE kinds == {"OK", "ERR", "fast", "full", "key", "switch"}
<1>1. /\ phase \in Results /\ FromServer(kinds) /\ count' = count + 1
      /\ phase = "result" => Received.is # "switch"
      /\ UNCHANGED <<serverVars, failures, cfg, plugin, nonce, secure, charset, toServer>>
  BY DEF ReadResult, Gets, Fail
<1>2. /\ toServer = <<>> /\ toClient # <<>> /\ Received = toClient[1]
      /\ Received.is # "fast" => toClient' = <<>>
      /\ Received.is = "fast" =>
            Len(toClient') = 1 /\ toClient'[1].is = "OK" /\ toClient'[1].seq = count + 1
      /\ toClient' \in Seq(Reply)
  BY <1>1, Took
<1>3. phase \in Waiting \ {"greeting"} /\ phase # "names"
  BY <1>1 DEF Results, Waiting
<1>4. count' \in Nat /\ charset \in Nat
  BY <1>1 DEF Types, Scalars
<1>5. /\ Received.is # "switch"
      /\ Received.is \in {"OK", "fast"} => server = "command"
      /\ Received.is = "fast" => plugin = Sha2
      /\ Received.is = "full" => plugin = Sha2
      /\ Received.is = "key" => plugin = Sha256
      /\ Received.is = "ERR" => server = "closed"
  BY <1>1, <1>2, <1>3 DEF Dialogue, Answered, Results
<1>6. CASE Received.is = "OK" /\ phase' = "setNames"
  BY <1>1, <1>2, <1>4, <1>5, <1>6, Accepted
<1>7. CASE Received.is = "ERR" /\ phase' = "failed"
  BY <1>1, <1>2, <1>3, <1>4, <1>5, <1>7, Rejected
<1>8. CASE Received.is = "fast" /\ phase' = "fastResult"
  <2>1. Len(toClient') = 1 /\ toClient'[1].is = "OK" /\ toClient'[1].seq = count'
    BY <1>1, <1>2, <1>8
  <2>2. toClient' # <<>>
    BY <2>1, Empty
  <2>3. server' = "command" /\ toServer' = <<>>
    BY <1>1, <1>2, <1>5, <1>8 DEF serverVars
  <2>4. Len(toServer') = 0
    BY <2>3, Empty
  <2>5. /\ Len(toClient') = 1 /\ toClient'[1].is = "OK" /\ toClient'[1].seq = count'
        /\ toClient' # <<>> /\ server' = "command" /\ toServer' = <<>> /\ Len(toServer') = 0
    BY <2>1, <2>2, <2>3, <2>4
  <2>6. Sequences'
    BY <1>2, <2>5, Empty DEF Sequences
  <2>7. Stream'
    BY <2>5 DEF Stream
  <2>8. Types'
    BY <1>1, <1>4, <1>8, <2>6 DEF Types, Scalars, serverVars, Waiting
  <2>9. Dialogue'
    BY <1>8, <2>5 DEF Dialogue, Greeting, Asked, Answered, Quiet, Before_, Waiting, Results
  <2>10. Trust'
    BY <1>1, <1>3, <1>8, <2>5 DEF Trust, serverVars, Matches, Waiting
  <2>11. Secured' /\ RightPasswordConnects' /\ ClearOnlyWhereAllowed'
    BY <1>1, <1>3, <1>8, <2>5 DEF Secured, Results, RightPasswordConnects, ClearOnlyWhereAllowed
  <2> QED BY <2>7, <2>8, <2>9, <2>10, <2>11
<1>9. \/ Received.is = "OK" /\ phase' = "setNames"
      \/ Received.is = "ERR" /\ phase' = "failed"
      \/ Received.is = "fast" /\ phase' = "fastResult"
      \/ plugin \notin {Sha2, Sha256} /\ Received.is \notin {"ERR", "switch"}
         /\ phase' = "setNames"
  BY <1>5 DEF ReadResult, Fail
<1>10. Received.is \in kinds
  BY <1>1, <1>2, Took
<1> QED BY <1>5, <1>6, <1>7, <1>8, <1>9, <1>10

LEMMA FullAuthenticationStep ==
  ASSUME HsInv, FullAuthentication
  PROVE  HsInv'
<1> USE DEF HsInv
<1>1. /\ phase \in Results /\ plugin = Sha2 /\ FromServer({"full"})
      /\ UNCHANGED <<plugin, nonce, cfg, secure, charset, serverVars, failures>>
  BY DEF FullAuthentication
<1>2. toServer = <<>> /\ toClient # <<>> /\ toClient[1].is = "full" /\ toClient' = <<>>
  BY <1>1, Took
<1>3. phase \in Waiting \ {"greeting"}
  BY <1>1 DEF Results, Waiting
<1>4. server = "full" /\ secure = (cfg.tls # "no")
  BY <1>1, <1>2, <1>3 DEF Dialogue, Answered, Secured
<1>5. wants = nonce /\ nonce' \in Nonces /\ plugin' \in Names
  BY <1>1, <1>2 DEF Trust, Results, Types, Scalars
<1>6. PICK h \in {"clear", "encrypted", "askKey"} :
         /\ ToServer(Respond(h), 1)
         /\ phase' = IF h = "askKey" THEN "key" ELSE "verdict"
         /\ h = "clear" => secure \/ cfg.unix
  BY <1>4 DEF FullAuthentication
<1>7. h \in Hows
  BY DEF Hows
<1>8. toServer' # <<>> /\ toServer'[1].how = h /\ toServer'[1].nonce = nonce'
  BY <1>2, <1>5, <1>6, <1>7, Sent
<1>9. Sequences' /\ Stream' /\ ClearOnlyWhereAllowed' /\ count' \in Nat
  BY <1>1, <1>2, <1>4, <1>5, <1>6, <1>7, MessageLeft DEF serverVars
<1>10. Types'
  BY <1>1, <1>5, <1>6, <1>9 DEF Types, Scalars, serverVars, Waiting
<1>11. Dialogue'
  BY <1>1, <1>2, <1>4, <1>6, <1>8 DEF Dialogue, Greeting, Asked, Answered, Quiet, Before_,
     Waiting, Results, serverVars
<1>12. Trust'
  BY <1>1, <1>2, <1>4, <1>5, <1>6, <1>8 DEF Trust, serverVars, Matches, Results
<1>13. Secured' /\ RightPasswordConnects'
  BY <1>1, <1>4, <1>6 DEF Secured, Results, RightPasswordConnects
<1> QED BY <1>9, <1>10, <1>11, <1>12, <1>13

LEMMA ReadKeyStep ==
  ASSUME HsInv, ReadKey
  PROVE  HsInv'
<1> USE DEF HsInv
<1>1. /\ phase \in {"key", "result", "switchResult"} /\ FromServer({"key"})
      /\ ToServer(Respond("encrypted"), 1) /\ phase' = "verdict"
      /\ UNCHANGED <<plugin, nonce, cfg, secure, charset, serverVars, failures>>
  BY DEF ReadKey, Results
<1>2. toServer = <<>> /\ toClient # <<>> /\ toClient[1].is = "key" /\ toClient' = <<>>
  BY <1>1, Took
<1>3. phase \in Waiting \ {"greeting"}
  BY <1>1 DEF Waiting
<1>4. server = "encrypted"
  BY <1>2, <1>3 DEF Dialogue, Answered
<1>5. wants = nonce /\ nonce' \in Nonces /\ plugin' \in Names
  BY <1>1, <1>2 DEF Trust, Types, Scalars
<1>6. "encrypted" \in Hows
  BY DEF Hows
<1>7. toServer' # <<>> /\ toServer'[1].how = "encrypted" /\ toServer'[1].nonce = nonce'
  BY <1>1, <1>2, <1>5, <1>6, Sent
<1>8. Sequences' /\ Stream' /\ ClearOnlyWhereAllowed' /\ count' \in Nat
  BY <1>1, <1>2, <1>4, <1>5, <1>6, MessageLeft DEF serverVars
<1>9. Types'
  BY <1>1, <1>5, <1>8 DEF Types, Scalars, serverVars, Waiting
<1>10. Dialogue'
  BY <1>1, <1>2, <1>4, <1>7 DEF Dialogue, Greeting, Asked, Answered, Quiet, Before_,
     Waiting, Results, serverVars
<1>11. Trust'
  BY <1>1, <1>2, <1>4, <1>5, <1>7 DEF Trust, serverVars, Matches
<1>12. Secured' /\ RightPasswordConnects'
  BY <1>1, <1>4 DEF Secured, Results, RightPasswordConnects
<1> QED BY <1>8, <1>9, <1>10, <1>11, <1>12

LEMMA ReadVerdictStep ==
  ASSUME HsInv, ReadVerdict
  PROVE  HsInv'
<1> USE DEF HsInv
<1>1. /\ phase \in {"fastResult", "verdict"} /\ FromServer({"OK", "ERR"}) /\ count' = count + 1
      /\ UNCHANGED <<serverVars, failures, cfg, plugin, nonce, secure, charset, toServer>>
  BY DEF ReadVerdict, Gets, Fail
<1>2. /\ toServer = <<>> /\ toClient # <<>> /\ Received = toClient[1]
      /\ Received.is \in {"OK", "ERR"} /\ toClient' = <<>>
  BY <1>1, Took
<1>3. phase \in Waiting \ {"greeting"} /\ phase # "names"
  BY <1>1 DEF Waiting
<1>4. count' \in Nat /\ charset \in Nat
  BY <1>1 DEF Types, Scalars
<1>5. Received.is = "OK" => server = "command"
  BY <1>2, <1>3 DEF Dialogue, Answered
<1>6. Received.is = "ERR" => server = "closed"
  BY <1>2, <1>3 DEF Dialogue, Answered
<1>7. CASE Received.is = "OK"
  <2>1. phase' = "setNames"
    BY <1>7 DEF ReadVerdict
  <2> QED BY <1>1, <1>2, <1>4, <1>5, <1>7, <2>1, Accepted
<1>8. CASE Received.is = "ERR"
  <2>1. phase' = "failed"
    BY <1>8 DEF ReadVerdict, Fail
  <2> QED BY <1>1, <1>2, <1>3, <1>4, <1>6, <1>8, <2>1, Rejected
<1> QED BY <1>2, <1>7, <1>8

LEMMA SetNamesStep ==
  ASSUME HsInv, SetNames
  PROVE  HsInv'
<1> USE DEF HsInv
<1>1. /\ phase = "setNames"
      /\ UNCHANGED <<cfg, plugin, nonce, secure, charset, serverVars, toClient, failures>>
  BY DEF SetNames
<1>2. toServer = <<>> /\ toClient = <<>> /\ server = "command"
  BY <1>1 DEF Dialogue, Quiet
<1>3. CASE phase' = "connected" /\ UNCHANGED <<count, toServer>>
  <2>1. count \in Nat /\ charset \in Nat
    BY DEF Types, Scalars
  <2> QED BY <1>1, <1>2, <1>3, <2>1, Accepted
<1> DEFINE m == [how |-> "command", nonce |-> "none", plugin |-> plugin, seq |-> 0]
<1>4. CASE toServer' = Append(toServer, m) /\ count' = 1 /\ phase' = "names"
  <2>1. m \in Message /\ m.seq = 0 /\ m.how = "command"
    BY DEF Message, Hows, Nonces, Types, Scalars
  <2> HIDE DEF m
  <2>2. toServer' = <<m>>
    BY <1>2, <1>4
  <2>3. /\ toServer' \in Seq(Message) /\ Len(toServer') = 1 /\ toServer'[1] = m
        /\ toServer' # <<>> /\ toClient' = <<>> /\ Len(toClient') = 0 /\ server' = "command"
    BY <1>1, <1>2, <2>1, <2>2, Empty DEF serverVars
  <2>4. Sequences' /\ Stream'
    BY <1>4, <2>1, <2>3, Empty DEF Sequences, Stream
  <2>5. Types'
    BY <1>1, <1>4, <2>4 DEF Types, Scalars, serverVars, Waiting
  <2>6. Dialogue'
    BY <1>4, <2>3 DEF Dialogue, Greeting, Asked, Answered, Quiet, Before_, Waiting, Results
  <2>7. Trust'
    BY <1>1, <1>4, <2>3 DEF Trust, serverVars, Matches
  <2>8. ClearOnlyWhereAllowed'
    BY <2>1, <2>3 DEF ClearOnlyWhereAllowed
  <2>9. Secured' /\ RightPasswordConnects'
    BY <1>4 DEF Secured, Results, RightPasswordConnects
  <2> QED BY <2>4, <2>5, <2>6, <2>7, <2>8, <2>9
<1> QED BY <1>3, <1>4 DEF SetNames

LEMMA ReadNamesStep ==
  ASSUME HsInv, ReadNames
  PROVE  HsInv'
<1> USE DEF HsInv
<1>1. /\ phase = "names" /\ FromServer({"OK", "ERR"}) /\ count' = count + 1
      /\ UNCHANGED <<cfg, plugin, nonce, secure, toServer, serverVars, failures>>
  BY DEF ReadNames, Gets
<1>2. /\ toServer = <<>> /\ toClient # <<>> /\ toClient[1].is \in {"OK", "ERR"}
      /\ toClient' = <<>>
  BY <1>1, Took
<1>3. server = "command" /\ accepted
  BY <1>1, <1>2 DEF Dialogue, Answered, Trust, Waiting
<1>4. count' \in Nat /\ charset' \in Nat
  BY <1>1 DEF ReadNames, Types, Scalars
<1>5. CASE phase' \in {"setNames", "connected"}
  BY <1>1, <1>2, <1>3, <1>4, <1>5, Accepted
<1>6. CASE phase' = "failed" /\ UNCHANGED charset /\ ~(charset < cfg.names)
  <2>1. Sequences' /\ Stream' /\ ClearOnlyWhereAllowed'
    BY <1>1, <1>2, <1>3, NothingLeft DEF serverVars
  <2>2. Types'
    BY <1>1, <1>4, <1>6, <2>1 DEF Types, Scalars, serverVars, Ended
  <2>3. RightPasswordConnects'
    BY <1>1, <1>3, <1>6 DEF RightPasswordConnects, serverVars
  <2> QED BY <1>1, <1>6, <2>1, <2>2, <2>3, Failing
<1>7. \/ phase' \in {"setNames", "connected"}
      \/ phase' = "failed" /\ UNCHANGED charset /\ ~(charset < cfg.names)
  BY DEF ReadNames
<1> QED BY <1>5, <1>6, <1>7

-----------------------------------------------------------------------------
(* The server. *)

LEMMA GreetStep ==
  ASSUME HsInv, Greet
  PROVE  HsInv'
<1> USE DEF HsInv
<1>1. /\ server = "greet" /\ UNCHANGED <<clientVars, account, accepted, toServer>>
      /\ toServer = <<>> /\ toClient = <<>> /\ count = 0
  BY DEF Greet, Stream
<1> DEFINE g == HsPacket("greeting", account.first, "first", 0)
           e == HsPacket("ERR", "", "none", 0)
<1>2. g \in Reply /\ e \in Reply /\ g.is = "greeting" /\ e.is = "ERR" /\ g.seq = 0 /\ e.seq = 0
  BY DEF HsPacket, Reply, Replies, Names, Nonces, Types, Scalars, Account
<1>3. \/ toClient' = <<g>> /\ wants' = "first" /\ server' = "response" /\ UNCHANGED failures
      \/ /\ toClient' = <<e>> /\ failures' = failures + 1
         /\ server' = "closed" /\ UNCHANGED wants
  BY DEF Greet
<1> HIDE DEF g, e
<1>4. /\ toClient' \in Seq(Reply) /\ Len(toClient') = 1 /\ toClient' # <<>>
      /\ toClient'[1] = IF server' = "response" THEN g ELSE e
  <2>1. ASSUME NEW p \in Reply
        PROVE  <<p>> \in Seq(Reply) /\ Len(<<p>>) = 1 /\ <<p>> # <<>> /\ <<p>>[1] = p
    OBVIOUS
  <2>2. CASE toClient' = <<g>> /\ server' = "response"
    BY <1>2, <2>1, <2>2
  <2>3. CASE toClient' = <<e>> /\ server' = "closed"
    BY <1>2, <2>1, <2>3
  <2> QED BY <1>3, <2>2, <2>3
<1>5. Sequences' /\ Stream'
  BY <1>1, <1>2, <1>3, <1>4, Empty DEF Sequences, Stream, clientVars
<1>6. Types'
  BY <1>1, <1>3, <1>5 DEF Types, Scalars, clientVars, Nonces
<1>7. failures \in Nat
  BY DEF Types, Scalars
<1>8. phase \notin {"auth", "setNames", "connected"} \cup (Waiting \ {"greeting"})
  BY <1>1 DEF Dialogue, Greeting, Quiet
<1>9. Dialogue'
  BY <1>1, <1>2, <1>3, <1>4, <1>7, <1>8 DEF Dialogue, Greeting, Asked, Answered, Quiet,
     Before_, Waiting, Results, clientVars
<1>10. Trust'
  BY <1>1, <1>3, <1>7, <1>8 DEF Trust, Waiting, clientVars
<1>11. Secured' /\ ClearOnlyWhereAllowed'
  BY <1>1 DEF Secured, ClearOnlyWhereAllowed, clientVars
<1>12. RightPasswordConnects'
  BY <1>1, <1>3, <1>7 DEF RightPasswordConnects, Matches, clientVars
<1> QED BY <1>5, <1>6, <1>9, <1>10, <1>11, <1>12

Broken == phase \in {"failed", "bad"}

(* Who waits while the server has a message to look at. *)
LEMMA WhoWaits ==
  ASSUME HsInv, toServer # <<>>
  PROVE  /\ server # "greet"
         /\ phase \in {"result", "switchResult", "key", "verdict", "names"} \/ Broken
BY DEF HsInv, Types, Scalars, Stream, Dialogue, Greeting, Asked, Quiet, Before_, Waiting,
   Ended, Broken

(* An answer leaves what does not depend on its contents. *)
LEMMA Replied ==
  ASSUME HsInv, toServer # <<>>, server # "command" \/ UNCHANGED accepted,
         UNCHANGED <<clientVars, account, failures>>,
         server' \in {"switched", "full", "encrypted", "command", "closed"},
         wants' \in Nonces, toServer' = <<>>, toClient' \in Seq(Reply),
         toClient'[1].seq = toServer[1].seq + 1,
         \/ Len(toClient') = 1 /\ toClient'[1].is # "fast"
         \/ /\ Len(toClient') = 2 /\ toClient'[1].is = "fast" /\ toClient'[2].is = "OK"
            /\ toClient'[2].seq = toServer[1].seq + 2
  PROVE  /\ Types' /\ Stream' /\ Secured' /\ ClearOnlyWhereAllowed'
         /\ RightPasswordConnects' /\ toClient' # <<>>
<1> USE DEF HsInv
<1>1. toServer[1].seq + 1 = count /\ count' = count /\ toServer[1].seq \in Nat
  <2>1. toServer[1] \in Message
    BY Lengths
  <2> QED BY <2>1 DEF Stream, clientVars, Message
<1>2. Len(toClient') \in {1, 2} /\ toClient' # <<>> /\ Len(toServer') = 0
  BY Empty
<1>3. Sequences'
  BY Empty DEF Sequences
<1>4. Types'
  BY <1>3 DEF Types, Scalars, clientVars
<1>5. Stream'
  <2>1. toClient'[1].seq = count' /\ toServer' = <<>> /\ server' # "greet"
    BY <1>1
  <2>2. Len(toClient') = 2 => /\ toClient'[1].is = "fast" /\ toClient'[2].is = "OK"
                              /\ toClient'[2].seq = count' + 1
    BY <1>1
  <2>3. toClient'[1].is = "fast" => Len(toClient') = 2
    OBVIOUS
  <2>4. Len(toServer') <= 1
    BY <1>2
  <2>5. Len(toClient') <= 2
    <3>1. Len(toClient') \in {1, 2}
      BY <1>2
    <3>2. \A n \in {1, 2} : n <= 2
      OBVIOUS
    <3> QED BY <3>1, <3>2
  <2> QED BY <2>5, <2>1, <2>2, <2>3, <2>4 DEF Stream
<1>6. Secured' /\ ClearOnlyWhereAllowed'
  BY <1>2 DEF Secured, Results, ClearOnlyWhereAllowed, clientVars
<1>7. RightPasswordConnects'
  BY DEF Trust, RightPasswordConnects, Matches, clientVars
<1> QED BY <1>2, <1>4, <1>5, <1>6, <1>7

LEMMA AskStep ==
  ASSUME HsInv, toServer # <<>>, server # "command",
         UNCHANGED <<clientVars, account, failures>>,
         \/ Ask(Head(toServer), "full", "full") /\ (Broken \/ (phase \in Results /\ plugin = Sha2))
         \/ /\ Ask(Head(toServer), "key", "encrypted")
            /\ Broken \/ phase = "key" \/ (phase \in Results /\ plugin = Sha256)
  PROVE  HsInv'
<1> USE DEF HsInv
<1>1. PICK what \in {"full", "key"} :
         /\ Says(Head(toServer), <<what>>)
         /\ server' = IF what = "full" THEN "full" ELSE "encrypted"
         /\ UNCHANGED <<wants, accepted>>
         /\ Broken \/ (phase \in Results /\ plugin = Sha2 /\ what = "full")
            \/ (phase = "key" /\ what = "key")
            \/ (phase \in Results /\ plugin = Sha256 /\ what = "key")
  BY DEF Ask
<1>2. <<what>> \in Seq(Replies) /\ Len(<<what>>) = 1 /\ <<what>>[1] = what
  BY DEF Replies
<1>3. /\ toServer' = <<>> /\ toClient' \in Seq(Reply) /\ Len(toClient') = 1
      /\ toClient'[1].is = what /\ toClient'[1].seq = toServer[1].seq + 1
  <2> DEFINE kinds == <<what>>
  <2>1. kinds \in Seq(Replies) /\ Len(kinds) = 1 /\ kinds[1] = what
    BY <1>2
  <2>2. Says(Head(toServer), kinds)
    BY <1>1
  <2> HIDE DEF kinds
  <2>3. /\ toServer' = <<>> /\ toClient' \in Seq(Reply) /\ Len(toClient') = Len(kinds)
        /\ \A i \in 1 .. Len(kinds) :
              toClient'[i].is = kinds[i] /\ toClient'[i].seq = toServer[1].seq + i
    BY <2>1, <2>2, Said
  <2> QED BY <2>1, <2>3
<1>4. wants' \in Nonces
  BY <1>1 DEF Types, Scalars
<1>5. /\ Types' /\ Stream' /\ Secured' /\ ClearOnlyWhereAllowed'
      /\ RightPasswordConnects' /\ toClient' # <<>>
  BY <1>1, <1>3, <1>4, Replied
<1>6. phase' = phase /\ plugin' = plugin /\ nonce' = nonce /\ cfg' = cfg
  BY DEF clientVars
<1>7. Dialogue'
  BY <1>1, <1>3, <1>5, <1>6 DEF Dialogue, Greeting, Asked, Answered, Quiet, Before_,
     Waiting, Results, Broken
<1>8. Trust'
  <2>1. phase \in {"result", "switchResult", "key", "verdict"} => wants = nonce
    <3>1. toClient = <<>>
      BY DEF Stream
    <3> QED BY <3>1 DEF Trust
  <2>2. accepted' = (server' = "command")
    BY <1>1 DEF Trust
  <2> QED BY <1>1, <1>3, <1>6, <2>1, <2>2 DEF Trust, Matches
<1> QED BY <1>5, <1>7, <1>8

LEMMA VerdictStep ==
  ASSUME HsInv, toServer # <<>>, server # "command",
         UNCHANGED <<clientVars, account, failures>>, NEW ok \in BOOLEAN,
         \/ /\ Verdict(Head(toServer), <<"fast", "OK">>, ok) /\ ok = TRUE
            /\ Broken \/ (phase \in Results /\ plugin = Sha2)
         \/ /\ Verdict(Head(toServer), IF ok THEN <<"OK">> ELSE <<"ERR">>, ok)
            /\ Broken \/ phase \in Results \cup {"verdict"},
         Matches /\ ~Broken => ok
  PROVE  HsInv'
<1> USE DEF HsInv
<1>1. /\ accepted' = ok /\ server' = IF ok THEN "command" ELSE "closed"
      /\ UNCHANGED wants
  BY DEF Verdict
<1>2. PICK kinds \in Seq(Replies) :
         /\ Says(Head(toServer), kinds)
         /\ \/ /\ ok /\ kinds = <<"fast", "OK">>
               /\ Broken \/ (phase \in Results /\ plugin = Sha2)
            \/ /\ kinds = IF ok THEN <<"OK">> ELSE <<"ERR">>
               /\ Broken \/ phase \in Results \cup {"verdict"}
  <2>1. <<"OK">> \in Seq(Replies) /\ <<"ERR">> \in Seq(Replies) /\ <<"fast", "OK">> \in Seq(Replies)
    BY DEF Replies
  <2> QED BY <2>1 DEF Verdict
<1>3. /\ kinds = <<"fast", "OK">> =>
            Len(kinds) = 2 /\ kinds[1] = "fast" /\ kinds[2] = "OK"
      /\ kinds = <<"OK">> => Len(kinds) = 1 /\ kinds[1] = "OK"
      /\ kinds = <<"ERR">> => Len(kinds) = 1 /\ kinds[1] = "ERR"
  OBVIOUS
<1>4. /\ toServer' = <<>> /\ toClient' \in Seq(Reply) /\ Len(toClient') = Len(kinds)
      /\ \A i \in 1 .. Len(kinds) :
            toClient'[i].is = kinds[i] /\ toClient'[i].seq = toServer[1].seq + i
  BY <1>2, Said
<1>5. wants' \in Nonces
  BY <1>1 DEF Types, Scalars
<1>6. \/ /\ ok /\ toClient'[1].is = "fast" /\ Len(toClient') = 2 /\ toClient'[2].is = "OK"
         /\ toClient'[2].seq = toServer[1].seq + 2
         /\ Broken \/ (phase \in Results /\ plugin = Sha2)
      \/ /\ toClient'[1].is = IF ok THEN "OK" ELSE "ERR"
         /\ Len(toClient') = 1
         /\ Broken \/ phase \in Results \cup {"verdict"}
  BY <1>2, <1>3, <1>4
<1>7. toClient'[1].seq = toServer[1].seq + 1
  BY <1>2, <1>3, <1>4
<1>8. /\ Types' /\ Stream' /\ Secured' /\ ClearOnlyWhereAllowed'
      /\ RightPasswordConnects' /\ toClient' # <<>>
  BY <1>1, <1>4, <1>5, <1>6, <1>7, Replied
<1>9. phase' = phase /\ plugin' = plugin /\ nonce' = nonce /\ cfg' = cfg
  BY DEF clientVars
<1>10. Dialogue'
  BY <1>1, <1>4, <1>6, <1>8, <1>9 DEF Dialogue, Greeting, Asked, Answered, Quiet, Before_,
     Waiting, Results, Broken
<1>11. Trust'
  <2>1. phase \in {"result", "switchResult", "key", "verdict"} => wants = nonce
    <3>1. toClient = <<>>
      BY DEF Stream
    <3> QED BY <3>1 DEF Trust
  <2>2. accepted' = (server' = "command")
    BY <1>1
  <2>3. toClient'[1].is # "switch"
    BY <1>6
  <2>4. Matches' = Matches
    BY <1>9 DEF Matches
  <2> QED BY <1>1, <1>4, <1>9, <2>1, <2>2, <2>3, <2>4 DEF Trust, Broken
<1> QED BY <1>8, <1>10, <1>11

LEMMA ChangeStep ==
  ASSUME HsInv, toServer # <<>>, server = "response", Change(Head(toServer)),
         UNCHANGED <<clientVars, account, failures>>
  PROVE  HsInv'
<1> USE DEF HsInv
<1> DEFINE n == IF account.plugin = Old THEN "none" ELSE "second"
           s == HsPacket("switch", account.plugin, n, toServer[1].seq + 1)
<1>1. /\ Len(toServer) = 1 /\ toServer[1] \in Message /\ Head(toServer) = toServer[1]
      /\ toClient = <<>>
  <2>1. Len(toServer) <= 1 /\ toClient = <<>>
    BY DEF Stream
  <2>2. Len(toServer) > 0 /\ Len(toServer) \in Nat
    BY Lengths
  <2> QED BY <2>1, <2>2, OneOrTwo, Lengths
<1>2. toServer' = <<>>
  <2>1. toServer' = Tail(toServer) /\ toServer \in Seq(Message)
    BY DEF Change, Types, Sequences
  <2>2. Tail(toServer) \in Seq(Message) /\ Len(Tail(toServer)) = 0
    BY <1>1, <2>1, HeadTailProperties
  <2> QED BY <2>1, <2>2, EmptySeq
<1>3. /\ s \in Reply /\ s.is = "switch" /\ s.nonce = n /\ s.plugin = account.plugin
      /\ s.seq = toServer[1].seq + 1
  <2>1. toServer[1].seq + 1 \in Nat
    BY <1>1 DEF Message
  <2>2. n \in Nonces /\ account.plugin \in Names /\ "switch" \in Replies
    BY DEF Nonces, Names, Replies, Types, Scalars, Account
  <2> QED BY <2>1, <2>2 DEF HsPacket, Reply
<1>4. toClient' = Append(toClient, s)
  BY <1>1 DEF Change
<1> HIDE DEF s
<1>5. toClient' = <<s>>
  BY <1>1, <1>4
<1>6. toClient' \in Seq(Reply) /\ Len(toClient') = 1 /\ toClient'[1] = s
  BY <1>3, <1>5
<1>7. /\ server' = "switched" /\ accepted' = accepted
      /\ wants' = IF account.plugin = Old THEN "first" ELSE "second"
  BY DEF Change
<1>8. /\ Types' /\ Stream' /\ Secured' /\ ClearOnlyWhereAllowed'
      /\ RightPasswordConnects' /\ toClient' # <<>>
  <2>1. wants' \in Nonces
    BY <1>7 DEF Nonces
  <2>2. Len(toClient') = 1 /\ toClient'[1].is # "fast"
    BY <1>3, <1>6
  <2>3. toClient'[1].seq = toServer[1].seq + 1
    BY <1>3, <1>6
  <2> QED BY <1>2, <1>6, <1>7, <2>1, <2>2, <2>3, Replied
<1>9. phase \in {"result", "failed", "bad"}
  BY WhoWaits DEF Dialogue, Asked, Broken
<1>10. phase' = phase /\ plugin' = plugin /\ nonce' = nonce /\ cfg' = cfg /\ account' = account
  BY DEF clientVars
<1>11. Dialogue'
  BY <1>2, <1>3, <1>6, <1>7, <1>8, <1>9, <1>10 DEF Dialogue, Greeting, Asked, Answered,
     Quiet, Before_, Waiting, Results
<1>12. Trust'
  <2>1. phase = "result" => nonce = "first"
    BY <1>1 DEF Trust
  <2>2. accepted' = (server' = "command")
    BY <1>7 DEF Trust
  <2>3. toClient'[1].is = "switch" /\ toClient'[1].nonce = n
    BY <1>3, <1>6
  <2>4. phase = "result" => wants' = IF n = "none" THEN nonce ELSE n
    BY <1>7, <2>1
  <2> QED BY <1>2, <1>7, <1>8, <1>9, <1>10, <2>2, <2>3, <2>4 DEF Trust
<1> QED BY <1>8, <1>11, <1>12

(* A message that has the nonce the server wants, if the password is right. *)
LEMMA RightIsGood ==
  ASSUME HsInv, toServer # <<>>, ~Broken, Matches, server # "command"
  PROVE  Good(Head(toServer))
<1>1. phase \in {"result", "switchResult", "key", "verdict"}
  BY WhoWaits DEF HsInv, Dialogue, Asked
<1>2. toClient = <<>> /\ Head(toServer) = toServer[1]
  BY Lengths DEF HsInv, Stream
<1>3. toServer[1].nonce = wants
  BY <1>1, <1>2 DEF HsInv, Trust
<1> QED BY <1>2, <1>3 DEF Good

LEMMA DecideStep ==
  ASSUME HsInv, toServer # <<>>, server # "command", Decide(Head(toServer)),
         UNCHANGED <<clientVars, account, failures>>,
         Broken \/ phase \in Results \cup {"verdict"}
  PROVE  HsInv'
<1> DEFINE ok == Good(Head(toServer))
<1>1. ok \in BOOLEAN
  BY DEF Good
<1>2. Verdict(Head(toServer), IF ok THEN <<"OK">> ELSE <<"ERR">>, ok)
  BY DEF Decide
<1>3. Matches /\ ~Broken => ok
  BY RightIsGood
<1> HIDE DEF ok
<1> QED BY <1>1, <1>2, <1>3, VerdictStep

LEMMA JudgeStep ==
  ASSUME HsInv, toServer # <<>>, server # "command", Judge(Head(toServer)),
         UNCHANGED <<clientVars, account, failures>>,
         Broken \/ (phase \in Results /\ plugin = account.plugin)
  PROVE  HsInv'
<1>1. Head(toServer) = toServer[1]
  BY Lengths DEF HsInv
<1>2. CASE Decide(Head(toServer))
  BY <1>2, DecideStep
<1>3. CASE account.plugin = Sha2 /\ Verdict(Head(toServer), <<"fast", "OK">>, TRUE)
  <2>1. Broken \/ (phase \in Results /\ plugin = Sha2)
    BY <1>3
  <2> QED BY <1>3, <2>1, VerdictStep
<1>4. CASE account.plugin = Sha2 /\ Ask(Head(toServer), "full", "full")
  BY <1>4, AskStep
<1>5. CASE toServer[1].how = "askKey" /\ Ask(Head(toServer), "key", "encrypted")
  <2>1. Broken \/ (phase \in Results /\ plugin = Sha256)
    BY <1>5 DEF HsInv, Dialogue, Asked
  <2> QED BY <1>5, <2>1, AskStep
<1> QED BY <1>1, <1>2, <1>3, <1>4, <1>5 DEF Judge

LEMMA ExamineStep ==
  ASSUME HsInv, Examine
  PROVE  HsInv'
<1> DEFINE m == Head(toServer)
<1>1. toServer # <<>> /\ UNCHANGED <<clientVars, account, failures>>
  BY DEF Examine
<1>2. /\ server # "greet"
      /\ phase \in {"result", "switchResult", "key", "verdict", "names"} \/ Broken
  BY <1>1, WhoWaits
<1>3. m = toServer[1]
  BY <1>1, Lengths DEF HsInv
<1>4. CASE server = "response" /\ Change(m)
  BY <1>1, <1>4, ChangeStep
<1>5. CASE server = "response" /\ m.plugin = account.plugin /\ Judge(m)
  <2>1. Broken \/ (phase \in Results /\ plugin = account.plugin)
    BY <1>1, <1>2, <1>3, <1>5 DEF HsInv, Dialogue, Asked, Results
  <2> QED BY <1>1, <1>5, <2>1, JudgeStep
<1>6. CASE server = "switched" /\ Judge(m)
  <2>1. Broken \/ (phase \in Results /\ plugin = account.plugin)
    BY <1>1, <1>2, <1>6 DEF HsInv, Dialogue, Asked, Results
  <2> QED BY <1>1, <1>6, <2>1, JudgeStep
<1>7. CASE server = "full" /\ m.how = "askKey" /\ Ask(m, "key", "encrypted")
  <2>1. Broken \/ phase = "key"
    BY <1>1, <1>2, <1>3, <1>7 DEF HsInv, Dialogue, Asked
  <2> QED BY <1>1, <1>7, <2>1, AskStep
<1>8. CASE server \in {"full", "encrypted"} /\ m.how # "askKey" /\ Decide(m)
  <2>1. Broken \/ phase = "verdict"
    BY <1>1, <1>2, <1>3, <1>8 DEF HsInv, Dialogue, Asked
  <2> QED BY <1>1, <1>8, <2>1, DecideStep
<1> QED BY <1>4, <1>5, <1>6, <1>7, <1>8 DEF Examine

LEMMA ExecuteStep ==
  ASSUME HsInv, Execute
  PROVE  HsInv'
<1> USE DEF HsInv
<1>1. /\ server = "command" /\ toServer # <<>>
      /\ UNCHANGED <<clientVars, account, failures>>
  BY DEF Execute
<1>2. PICK answer \in {"OK", "ERR"} : Ask(Head(toServer), answer, "command")
  BY DEF Execute
<1> DEFINE kinds == <<answer>>
<1>3. kinds \in Seq(Replies) /\ Len(kinds) = 1 /\ kinds[1] = answer
  BY DEF Replies
<1>4. Says(Head(toServer), kinds) /\ server' = "command" /\ UNCHANGED <<wants, accepted>>
  BY <1>2 DEF Ask
<1> HIDE DEF kinds
<1>5. /\ toServer' = <<>> /\ toClient' \in Seq(Reply) /\ Len(toClient') = Len(kinds)
      /\ \A i \in 1 .. Len(kinds) :
            toClient'[i].is = kinds[i] /\ toClient'[i].seq = toServer[1].seq + i
  BY <1>1, <1>3, <1>4, Said
<1>6. /\ Len(toClient') = 1 /\ toClient'[1].is = answer
      /\ toClient'[1].seq = toServer[1].seq + 1
  BY <1>3, <1>5
<1>7. wants' \in Nonces
  BY <1>4 DEF Types, Scalars
<1>8. /\ Types' /\ Stream' /\ Secured' /\ ClearOnlyWhereAllowed'
      /\ RightPasswordConnects' /\ toClient' # <<>>
  BY <1>1, <1>4, <1>5, <1>6, <1>7, Replied
<1>9. phase = "names" \/ Broken
  BY <1>1, WhoWaits DEF Dialogue, Asked, Results
<1>10. phase' = phase /\ plugin' = plugin /\ nonce' = nonce /\ cfg' = cfg
  BY <1>1 DEF clientVars
<1>11. Dialogue'
  BY <1>4, <1>5, <1>6, <1>8, <1>9, <1>10 DEF Dialogue, Greeting, Asked, Answered, Quiet,
     Before_, Waiting, Results, Broken
<1>12. Trust'
  BY <1>1, <1>4, <1>9, <1>10 DEF Trust, Broken
<1> QED BY <1>8, <1>11, <1>12

-----------------------------------------------------------------------------
(* The whole. *)

LEMMA HsStep ==
  ASSUME HsInv, HsNext
  PROVE  HsInv'
BY ReadGreetingStep, ReadRefusalStep, AuthFailsStep, SendResponseStep, ReadSwitchStep,
   ReadResultStep, FullAuthenticationStep, ReadKeyStep, ReadVerdictStep, SetNamesStep,
   ReadNamesStep, GreetStep, ExamineStep, ExecuteStep, LoseStep
   DEF HsNext, Connect, Authenticate

LEMMA HsStutter ==
  ASSUME HsInv, UNCHANGED hsVars
  PROVE  HsInv'
BY DEF HsInv, Types, Scalars, Sequences, Stream, Dialogue, Greeting, Asked, Answered, Quiet,
   Trust, Secured, RightPasswordConnects, ClearOnlyWhereAllowed, Matches, hsVars, clientVars,
   serverVars

LEMMA DbOpenStep ==
  ASSUME HsInv, OpenInv, DbOpen
  PROVE  HsInv'
<1> USE DEF HsInv
<1>1. /\ phase = "none" /\ account' \in Account
      /\ UNCHANGED <<phase, plugin, nonce, secure, count, charset, server, wants,
                     accepted, toServer, toClient, failures>>
  BY HandshakeAssumption DEF OpenInv, DbOpen
<1>2. "passwd" \in DOMAIN cfg'
  <2>1. \A a, b, c, d, e, g :
           "passwd" \in DOMAIN [tls |-> a, unix |-> b, key |-> c, allow |-> d,
                               passwd |-> e, names |-> g]
    OBVIOUS
  <2>2. \E p : cfg' = HandshakeConfig(parsed, p)
    BY DEF DbOpen
  <2> QED BY <2>1, <2>2, Zenon DEF HandshakeConfig
<1>3. Types'
  BY <1>1, <1>2 DEF Types, Scalars, Sequences
<1>4. Stream' /\ Secured' /\ RightPasswordConnects'
  BY <1>1 DEF Stream, Secured, Results, RightPasswordConnects
<1>5. Dialogue'
  BY <1>1 DEF Dialogue, Greeting, Asked, Answered, Quiet, Before_, Waiting, Results
<1>6. Trust'
  <2>1. failures = 0 => server # "closed"
    BY <1>1 DEF Dialogue, Greeting, Before_
  <2> QED BY <1>1, <2>1 DEF Trust
<1>7. ClearOnlyWhereAllowed'
  <2>1. Len(toServer') = 0
    BY <1>1, Empty DEF Dialogue, Greeting, Before_
  <2> QED BY <2>1 DEF ClearOnlyWhereAllowed
<1> QED BY <1>3, <1>4, <1>5, <1>6, <1>7

LEMMA DbInitial ==
  ASSUME DbInit
  PROVE  HsInv /\ OpenInv
<1>1. HsInit /\ pc = "idle"
  <2>1. UsualConfig \in Configs /\ UsualAccount \in Accounts
    BY UsualAssumption
  <2>2. phase = "none" /\ plugin = "" /\ nonce = "none" /\ secure = FALSE
    BY DEF DbInit, HsInit
  <2> QED BY <2>1 DEF DbInit, HsInit, Init
<1>2. cfg \in Config /\ account \in Account
  BY <1>1, HandshakeAssumption DEF HsInit
<1>3. "passwd" \in DOMAIN cfg
  BY <1>2 DEF Config
<1>4. Sequences /\ Len(toServer) = 0 /\ Len(toClient) = 0
  BY <1>1, Empty DEF HsInit, Sequences
<1>5. Types
  BY <1>1, <1>2, <1>3, <1>4 DEF HsInit, Types, Scalars, Names, Nonces, Ended
<1>6. Stream /\ ClearOnlyWhereAllowed
  <2>1. toServer = <<>> /\ toClient = <<>> /\ count = 0
    BY <1>1 DEF HsInit
  <2>2. Stream
    BY <1>4, <2>1 DEF Stream
  <2> QED BY <1>4, <2>2 DEF ClearOnlyWhereAllowed
<1>7. Dialogue
  BY <1>1 DEF HsInit, Dialogue, Greeting, Asked, Answered, Quiet, Before_, Waiting, Results
<1>8. Trust /\ Secured /\ RightPasswordConnects
  BY <1>1 DEF HsInit, Trust, Secured, Results, RightPasswordConnects
<1>9. OpenInv
  BY <1>1 DEF HsInit, OpenInv
<1> QED BY <1>5, <1>6, <1>7, <1>8, <1>9 DEF HsInv

LEMMA IdleWaits ==
  ASSUME pc = "idle"
  PROVE  ~Exchange /\ ~Opens
BY DEF Opens, Dial, Connected, ConnectFails, ConnectBad, Exchange, Reuse, FoundStale, Send,
   SendsNothing, SendsPart, BufferBusy, ReadsError, ReadFails, ReadResultOK,
   ReadPrepareResultPacket, ReadDefinitions, ReadHeader, ReadColumns, ReadRow, CloseRows,
   CloseStmt, Release, Sending, Reading

LEMMA OpenInvStep ==
  ASSUME OpenInv, DbNext
  PROVE  OpenInv'
<1> SUFFICES ASSUME opening' # "opened"
             PROVE  pc' = "idle" /\ phase' = "none"
  BY DEF OpenInv
<1>1. CASE DbSettings
  <2>1. opening # "opened"
    BY <1>1 DEF DbSettings, Configure, ParseDSN, ReadAddress, ReadParam, Normalize
  <2> QED BY <1>1, <2>1 DEF OpenInv, DbSettings, sessionVars, hsVars, clientVars
<1>2. CASE DbOpen
  BY <1>2 DEF DbOpen
<1>3. CASE UNCHANGED dsnVars /\ (\/ \E k \in Kinds : DbIssue(k)
                                 \/ DbClient \/ DbServer \/ DbBreak)
  <2>1. opening # "opened" /\ pc = "idle" /\ phase = "none"
    BY <1>3 DEF dsnVars, OpenInv
  <2>2. ~DbClient /\ \A k \in Kinds : ~DbIssue(k)
    BY <2>1, IdleWaits DEF DbClient, DbDial, DbConnect, DbIssue, Opens
  <2>3. DbServer \/ DbBreak
    BY <1>3, <2>2
  <2> QED BY <2>1, <2>3 DEF DbServer, DbBreak, Server, Serve, Deliver, Break, KillIdle,
          ExecuteLate, hsVars, clientVars
<1> QED BY <1>1, <1>2, <1>3 DEF DbNext

LEMMA DbStep ==
  ASSUME HsInv, OpenInv, [DbNext]_dbVars
  PROVE  HsInv' /\ OpenInv'
<1>1. CASE UNCHANGED dbVars
  BY <1>1, HsStutter DEF dbVars, OpenInv, sessionVars, dsnVars, hsVars, clientVars
<1>2. CASE DbNext
  <2>1. UNCHANGED hsVars \/ DbOpen \/ DbDial \/ HsNext
    BY <1>2 DEF DbNext, DbSettings, DbIssue, DbClient, DbConnect, DbServer, DbBreak
  <2> QED BY <1>2, <2>1, HsStutter, DbOpenStep, OpenStep, HsStep, OpenInvStep DEF DbDial
<1> QED BY <1>1, <1>2

(* The inductive invariant of connector.Connect and the server it talks to. *)
THEOREM DbInvariant == DbFairSpec => [](HsInv /\ OpenInv)
<1> USE DEF DbFairSpec
<1>1. DbInit => HsInv /\ OpenInv
  BY DbInitial
<1>2. (HsInv /\ OpenInv) /\ [DbNext]_dbVars => (HsInv /\ OpenInv)'
  BY DbStep
<1> QED BY <1>1, <1>2, PTL

(* connector.Connect: client and server never wait for each other, and number
   their packets alike; whatever the plugins, the Config and the server. *)
THEOREM LockstepHolds == DbFairSpec => []Lockstep
<1>1. HsInv => Lockstep
  <2> SUFFICES ASSUME HsInv PROVE Lockstep
    OBVIOUS
  <2>1. phase \in Waiting => toClient # <<>> \/ toServer # <<>> \/ server = "greet"
    BY DEF HsInv, Dialogue, Greeting, Quiet, Before_
  <2>2. toClient # <<>> => Head(toClient).seq = count
    BY Lengths DEF HsInv, Stream
  <2>3. phase \in {"setNames", "connected"} => toClient = <<>> /\ toServer = <<>>
    BY DEF HsInv, Dialogue, Quiet
  <2> QED BY <2>1, <2>2, <2>3 DEF Lockstep
<1> QED BY <1>1, DbInvariant, PTL

(* mc.auth and handleAuthResult: a right password is refused only for a reason
   of the configuration, or when SET NAMES fails. *)
THEOREM RightPasswordHolds == DbFairSpec => []RightPasswordConnects
<1>1. HsInv => RightPasswordConnects
  BY DEF HsInv
<1> QED BY <1>1, DbInvariant, PTL

(* mc.auth and handleAuthResult: the password itself is written only over TLS,
   on a local socket, or where allowCleartextPasswords says so. *)
THEOREM ClearHolds == DbFairSpec => []ClearOnlyWhereAllowed
<1>1. HsInv => ClearOnlyWhereAllowed
  BY DEF HsInv
<1> QED BY <1>1, DbInvariant, PTL
=============================================================================
