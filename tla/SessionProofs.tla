--------------------------- MODULE SessionProofs ---------------------------
(***************************************************************************)
(* Theorems about the statements of a program over its connections, for    *)
(* any number of statements, rows and broken connections: what is read for *)
(* a statement is its own answer, in step with the server's numbering.     *)
(*                                                                         *)
(* The invariant: what is on its way to the client takes the state it is   *)
(* in, packet by packet, to the end of the answer.                         *)
(***************************************************************************)
EXTENDS Database, SequenceTheorems, TLAPS

(* Everything on its way to the client. *)
Incoming == Arrived \o out

States == {"pong", "prepared", "paramDefs", "colDefs", "header", "nextHeader",
           "columns", "rows", "end"}

Bye == [is |-> "ERR", more |-> FALSE, of |-> 0, seq |-> 0]

(* How the client goes on from state s when it reads p, in a statement of kind
   k; a goodbye ends everything. *)
On(k, s, p, t) ==
    \/ /\ s \in {"pong", "prepared", "header", "nextHeader", "rows"}
       /\ p.is = "ERR" /\ t = "end"
    \/ s = "pong" /\ p.is = "OK" /\ t = "end"
    \/ s = "prepared" /\ p.is = "OK" /\ t = "paramDefs"
    \/ s \in {"paramDefs", "colDefs", "columns"} /\ p.is = "def" /\ t = s
    \/ s = "paramDefs" /\ p.is = "EOF" /\ t = IF k = "query" THEN "colDefs" ELSE "end"
    \/ s = "colDefs" /\ p.is = "EOF" /\ t = "end"
    \/ s = "columns" /\ p.is = "EOF" /\ t = "rows"
    \/ s \in {"header", "nextHeader"} /\ p.is = "header" /\ t = "columns"
    \/ s = "rows" /\ p.is = "row" /\ t = "rows"
    \/ /\ \/ s \in {"header", "nextHeader"} /\ p.is = "OK"
          \/ s = "rows" /\ p.is = "EOF"
       /\ t = IF p.more THEN "nextHeader" ELSE "end"

Step(k, s, p, t) == On(k, s, p, t) \/ (p = Bye /\ t = "end")

(* The packets of R lead from s to t. *)
Leads(k, s, R, t) ==
    \E q \in [0 .. Len(R) -> States] :
        /\ q[0] = s /\ q[Len(R)] = t
        /\ \A i \in 1 .. Len(R) : Step(k, q[i - 1], R[i], q[i])

(* The state of the client.  The program may hold rows with more behind them. *)
Place == IF pc \in Reading THEN pc ELSE IF pc = "hold" THEN "nextHeader" ELSE "end"

(* The number R's i-th packet should have. *)
Number(R, i) == IF i = 1 THEN sequence ELSE (R[i - 1].seq + 1) % 256

Numbered ==
    \A i \in 1 .. Len(Incoming) :
        \/ Incoming[i] = Bye /\ link = "down" /\ i = Len(Incoming)
        \/ Incoming[i].of = stmt /\ Incoming[i].seq = Number(Incoming, i)

(* A command is written when nothing is on its way, and served once. *)
Commanded ==
    inbox # <<>> =>
        /\ link = "up" /\ Incoming = <<>> /\ sequence = 1
        /\ Len(inbox) = 1 /\ inbox[1].of = stmt
        /\ \/ pc = "pong" /\ inbox[1].cmd = "ping"
           \/ pc = "prepared" /\ inbox[1].cmd = "prepare"
           \/ pc = "header" /\ inbox[1].cmd = "run"

Open_ ==
    /\ \E t \in States :
          /\ Leads(kind, Place, Incoming, t)
          /\ link = "up" /\ inbox = <<>> => t = "end"
    /\ Numbered /\ Commanded

Flow ==
    /\ conn = "open" => Open_
    /\ conn = "none" => /\ link = "down" /\ inbox = <<>>
                        /\ out = <<>> /\ wire = <<>> /\ buf = <<>>
    /\ conn = "closed" => link = "down"
    /\ \A i \in 1 .. Len(out) : out[i].of # 0

Control ==
    /\ pc \in Sending \cup Reading \cup {"hold"} => conn = "open"
    /\ pc = "connect" => conn = "none"
    /\ pc \in {"idle", "checkout"} => conn # "closed"
    /\ pc # "idle" \/ conn # "none" => stmt \in Stmts

SessInv == TypeOK /\ Flow /\ Control /\ OwnAnswers

-----------------------------------------------------------------------------
(* Sequences. *)

LEMMA ElementFacts ==
  ASSUME NEW S, NEW s \in Seq(S)
  PROVE  /\ Len(s) \in Nat /\ DOMAIN s = 1 .. Len(s)
         /\ \A i \in 1 .. Len(s) : s[i] \in S
         /\ s # <<>> => Len(s) > 0 /\ Head(s) = s[1] /\ Tail(s) \in Seq(S)
                        /\ Len(Tail(s)) = Len(s) - 1
                        /\ \A i \in 1 .. Len(s) - 1 : Tail(s)[i] = s[i + 1]
         /\ Len(s) = 0 <=> s = <<>>
<1>1. Len(s) \in Nat /\ DOMAIN s = 1 .. Len(s) /\ \A i \in 1 .. Len(s) : s[i] \in S
  BY LenProperties, ElementOfSeq
<1>2. ASSUME s # <<>>
      PROVE  /\ Len(s) \in Nat \ {0} /\ Head(s) = s[1] /\ Tail(s) \in Seq(S)
             /\ Len(Tail(s)) = Len(s) - 1
             /\ \A i \in 1 .. Len(Tail(s)) : Tail(s)[i] = s[i + 1]
  BY <1>2, EmptySeq, HeadTailProperties
<1>3. Len(s) = 0 <=> s = <<>>
  BY EmptySeq
<1> QED BY <1>1, <1>2, <1>3

LEMMA TailOfConcat ==
  ASSUME NEW S, NEW s \in Seq(S), NEW t \in Seq(S), s # <<>>
  PROVE  /\ s \o t # <<>> /\ Head(s \o t) = Head(s)
         /\ Tail(s \o t) = Tail(s) \o t
<1>1. Len(s) \in Nat \ {0} /\ Len(t) \in Nat
  BY EmptySeq, LenProperties
<1>2. /\ s \o t \in Seq(S) /\ Len(s \o t) = Len(s) + Len(t)
      /\ \A i \in 1 .. Len(s) + Len(t) :
            (s \o t)[i] = IF i <= Len(s) THEN s[i] ELSE t[i - Len(s)]
  BY ConcatProperties
<1>3. s \o t # <<>>
  BY ConcatEqualIffEmpty
<1>4. Head(s \o t) = (s \o t)[1] /\ Head(s) = s[1]
  BY <1>2, <1>3, ElementFacts
<1>5. (s \o t)[1] = s[1]
  BY <1>1, <1>2
<1>6. /\ Tail(s) \in Seq(S) /\ Len(Tail(s)) = Len(s) - 1
      /\ \A i \in 1 .. Len(s) - 1 : Tail(s)[i] = s[i + 1]
  BY ElementFacts
<1>7. /\ Tail(s \o t) \in Seq(S) /\ Len(Tail(s \o t)) = Len(s) + Len(t) - 1
      /\ \A i \in 1 .. Len(s) + Len(t) - 1 : Tail(s \o t)[i] = (s \o t)[i + 1]
  BY <1>2, <1>3, ElementFacts
<1>8. /\ Tail(s) \o t \in Seq(S) /\ Len(Tail(s) \o t) = Len(Tail(s)) + Len(t)
      /\ \A i \in 1 .. Len(Tail(s)) + Len(t) :
            (Tail(s) \o t)[i] = IF i <= Len(Tail(s)) THEN Tail(s)[i] ELSE t[i - Len(Tail(s))]
  BY <1>6, ConcatProperties
<1>9. Len(Tail(s \o t)) = Len(Tail(s) \o t)
  BY <1>1, <1>6, <1>7, <1>8
<1>10. ASSUME NEW i \in 1 .. Len(Tail(s \o t))
       PROVE  Tail(s \o t)[i] = (Tail(s) \o t)[i]
  <2>1. i \in 1 .. Len(s) + Len(t) - 1 /\ i + 1 \in 1 .. Len(s) + Len(t) /\ i \in Nat
    BY <1>1, <1>7
  <2>2. Tail(s \o t)[i] = IF i + 1 <= Len(s) THEN s[i + 1] ELSE t[i + 1 - Len(s)]
    BY <1>2, <1>7, <2>1
  <2>3. (Tail(s) \o t)[i] = IF i <= Len(s) - 1 THEN Tail(s)[i] ELSE t[i - (Len(s) - 1)]
    BY <1>1, <1>6, <1>8, <2>1
  <2>4. CASE i <= Len(s) - 1
    BY <1>1, <1>6, <2>1, <2>2, <2>3, <2>4
  <2>5. CASE ~(i <= Len(s) - 1)
    <3>1. i - (Len(s) - 1) = i + 1 - Len(s)
      BY <1>1, <2>1
    <3> QED BY <1>1, <2>1, <2>2, <2>3, <2>5, <3>1
  <2> QED BY <2>4, <2>5
<1>11. Tail(s \o t) = Tail(s) \o t
  BY <1>7, <1>8, <1>9, <1>10, SeqEqual
<1> QED BY <1>3, <1>4, <1>5, <1>11

(* A packet moves from one sequence to the next. *)
LEMMA Moved ==
  ASSUME NEW S, NEW s \in Seq(S), NEW t \in Seq(S), t # <<>>
  PROVE  Append(s, Head(t)) \o Tail(t) = s \o t
<1> DEFINE h == Head(t)
           T == Tail(t)
           u == <<h>>
<1>1. /\ h \in S /\ T \in Seq(S) /\ Len(t) \in Nat \ {0} /\ Len(T) = Len(t) - 1 /\ h = t[1]
      /\ \A i \in 1 .. Len(t) - 1 : T[i] = t[i + 1]
  BY HeadTailProperties, ElementFacts, EmptySeq
<1>2. u \in Seq(S) /\ Len(u) = 1 /\ u[1] = h
  BY <1>1
<1>3. Append(s, h) = s \o u
  BY <1>1, AppendIsConcat
<1> HIDE DEF h, T, u
<1>4. /\ u \o T \in Seq(S) /\ Len(u \o T) = 1 + Len(T)
      /\ \A i \in 1 .. 1 + Len(T) : (u \o T)[i] = IF i <= 1 THEN u[i] ELSE T[i - 1]
  <2>1. /\ u \o T \in Seq(S) /\ Len(u \o T) = Len(u) + Len(T)
        /\ \A i \in 1 .. Len(u) + Len(T) :
              (u \o T)[i] = IF i <= Len(u) THEN u[i] ELSE T[i - Len(u)]
    BY <1>1, <1>2, ConcatProperties
  <2> QED BY <1>2, <2>1
<1>5. Len(u \o T) = Len(t)
  BY <1>1, <1>4
<1>6. ASSUME NEW i \in 1 .. Len(u \o T)
      PROVE  (u \o T)[i] = t[i]
  <2>1. CASE i = 1
    BY <1>1, <1>2, <1>4, <1>5, <2>1
  <2>2. CASE i # 1
    <3>1. i - 1 \in 1 .. Len(t) - 1 /\ (i - 1) + 1 = i /\ ~(i <= 1)
      BY <1>1, <1>5, <2>2
    <3>2. (u \o T)[i] = T[i - 1]
      BY <1>4, <3>1
    <3> QED BY <1>1, <3>1, <3>2
  <2> QED BY <2>1, <2>2
<1>7. u \o T = t
  BY <1>4, <1>5, <1>6, SeqEqual
<1>8. (s \o u) \o T = s \o (u \o T)
  <2>1. u \in Seq(S) /\ T \in Seq(S)
    BY <1>1, <1>2
  <2> QED BY <2>1, ConcatAssociative, SMTT(20)
<1> QED BY <1>3, <1>7, <1>8 DEF h, T

-----------------------------------------------------------------------------
(* Where packets lead. *)

LEMMA LeadsNowhere ==
  ASSUME NEW k, NEW s \in States, NEW t
  PROVE  Leads(k, s, <<>>, t) <=> s = t
<1>1. Len(<<>>) = 0
  OBVIOUS
<1>2. ASSUME s = t PROVE Leads(k, s, <<>>, t)
  <2> DEFINE q == [i \in 0 .. 0 |-> s]
  <2>1. q \in [0 .. 0 -> States] /\ q[0] = s
    OBVIOUS
  <2> HIDE DEF q
  <2> QED BY <1>1, <1>2, <2>1 DEF Leads
<1>3. ASSUME Leads(k, s, <<>>, t) PROVE s = t
  BY <1>1, <1>3 DEF Leads
<1> QED BY <1>2, <1>3

LEMMA LeadsTail ==
  ASSUME NEW S, NEW R \in Seq(S), R # <<>>, NEW k, NEW s, NEW t, Leads(k, s, R, t)
  PROVE  \E u \in States : Step(k, s, R[1], u) /\ Leads(k, u, Tail(R), t)
<1>1. /\ Len(R) \in Nat \ {0} /\ Len(Tail(R)) = Len(R) - 1
      /\ \A i \in 1 .. Len(R) - 1 : Tail(R)[i] = R[i + 1]
  BY ElementFacts
<1>2. PICK q \in [0 .. Len(R) -> States] :
         /\ q[0] = s /\ q[Len(R)] = t
         /\ \A i \in 1 .. Len(R) : Step(k, q[i - 1], R[i], q[i])
  BY DEF Leads
<1> DEFINE r == [i \in 0 .. Len(R) - 1 |-> q[i + 1]]
<1>3. q[1] \in States /\ Step(k, s, R[1], q[1])
  <2>1. 1 \in 1 .. Len(R) /\ 1 \in 0 .. Len(R) /\ 1 - 1 = 0
    BY <1>1
  <2> QED BY <1>2, <2>1
<1>4. r \in [0 .. Len(R) - 1 -> States] /\ r[0] = q[1] /\ r[Len(R) - 1] = t
  <2>1. \A i \in 0 .. Len(R) - 1 : i + 1 \in 0 .. Len(R)
    BY <1>1
  <2>2. 0 \in 0 .. Len(R) - 1 /\ Len(R) - 1 \in 0 .. Len(R) - 1 /\ Len(R) - 1 + 1 = Len(R)
    BY <1>1
  <2> QED BY <1>2, <2>1, <2>2
<1>5. ASSUME NEW i \in 1 .. Len(R) - 1
      PROVE  Step(k, r[i - 1], Tail(R)[i], r[i])
  <2>1. /\ i + 1 \in 1 .. Len(R) /\ (i + 1) - 1 = i /\ i - 1 \in 0 .. Len(R) - 1
        /\ i \in 0 .. Len(R) - 1 /\ (i - 1) + 1 = i
    BY <1>1
  <2>2. Step(k, q[i], R[i + 1], q[i + 1])
    BY <1>2, <2>1
  <2>3. r[i - 1] = q[i] /\ r[i] = q[i + 1] /\ Tail(R)[i] = R[i + 1]
    BY <1>1, <2>1
  <2> QED BY <2>2, <2>3
<1> HIDE DEF r
<1>6. Leads(k, q[1], Tail(R), t)
  BY <1>1, <1>4, <1>5 DEF Leads
<1> QED BY <1>3, <1>6

LEMMA LeadsConcat ==
  ASSUME NEW S, NEW A \in Seq(S), NEW B \in Seq(S), NEW k, NEW s, NEW t, NEW u,
         Leads(k, s, A, t), Leads(k, t, B, u)
  PROVE  Leads(k, s, A \o B, u)
<1>1. /\ Len(A) \in Nat /\ Len(B) \in Nat /\ Len(A \o B) = Len(A) + Len(B)
      /\ \A i \in 1 .. Len(A) + Len(B) :
            (A \o B)[i] = IF i <= Len(A) THEN A[i] ELSE B[i - Len(A)]
  BY ConcatProperties, LenProperties
<1>2. PICK p \in [0 .. Len(A) -> States] :
         /\ p[0] = s /\ p[Len(A)] = t
         /\ \A i \in 1 .. Len(A) : Step(k, p[i - 1], A[i], p[i])
  BY DEF Leads
<1>3. PICK q \in [0 .. Len(B) -> States] :
         /\ q[0] = t /\ q[Len(B)] = u
         /\ \A i \in 1 .. Len(B) : Step(k, q[i - 1], B[i], q[i])
  BY DEF Leads
<1> DEFINE r == [i \in 0 .. Len(A) + Len(B) |-> IF i <= Len(A) THEN p[i] ELSE q[i - Len(A)]]
<1>4. r \in [0 .. Len(A) + Len(B) -> States]
  <2> SUFFICES ASSUME NEW i \in 0 .. Len(A) + Len(B)
               PROVE  (IF i <= Len(A) THEN p[i] ELSE q[i - Len(A)]) \in States
    OBVIOUS
  <2>1. i <= Len(A) => i \in 0 .. Len(A)
    BY <1>1
  <2>2. ~(i <= Len(A)) => i - Len(A) \in 0 .. Len(B)
    BY <1>1
  <2> QED BY <1>2, <1>3, <2>1, <2>2
<1>5. r[0] = s
  BY <1>1, <1>2
<1>6. r[Len(A) + Len(B)] = u
  <2>1. Len(A) + Len(B) \in 0 .. Len(A) + Len(B)
    BY <1>1
  <2>2. CASE Len(B) = 0
    BY <1>1, <1>2, <1>3, <2>1, <2>2
  <2>3. CASE Len(B) # 0
    <3>1. ~(Len(A) + Len(B) <= Len(A)) /\ Len(A) + Len(B) - Len(A) = Len(B)
      BY <1>1, <2>3
    <3> QED BY <1>3, <2>1, <3>1
  <2> QED BY <2>2, <2>3
<1>7. ASSUME NEW i \in 1 .. Len(A) + Len(B)
      PROVE  Step(k, r[i - 1], (A \o B)[i], r[i])
  <2>1. i \in 0 .. Len(A) + Len(B) /\ i - 1 \in 0 .. Len(A) + Len(B)
    BY <1>1
  <2>2. CASE i <= Len(A)
    <3>1. i \in 1 .. Len(A) /\ i - 1 <= Len(A)
      BY <1>1, <2>2
    <3>2. r[i] = p[i] /\ r[i - 1] = p[i - 1] /\ (A \o B)[i] = A[i]
      BY <1>1, <2>1, <2>2, <3>1
    <3> QED BY <1>2, <3>1, <3>2
  <2>3. CASE ~(i <= Len(A))
    <3>1. i - Len(A) \in 1 .. Len(B) /\ (i - Len(A)) - 1 = (i - 1) - Len(A)
      BY <1>1, <2>3
    <3>2. r[i] = q[i - Len(A)] /\ (A \o B)[i] = B[i - Len(A)]
      BY <1>1, <2>1, <2>3
    <3>3. r[i - 1] = q[(i - Len(A)) - 1]
      <4>1. CASE i - 1 <= Len(A)
        <5>1. i - 1 = Len(A) /\ (i - Len(A)) - 1 = 0
          BY <1>1, <2>3, <4>1
        <5> QED BY <1>2, <1>3, <2>1, <4>1, <5>1
      <4>2. CASE ~(i - 1 <= Len(A))
        BY <2>1, <3>1, <4>2
      <4> QED BY <4>1, <4>2
    <3>4. Step(k, q[(i - Len(A)) - 1], B[i - Len(A)], q[i - Len(A)])
      BY <1>3, <3>1
    <3> QED BY <3>2, <3>3, <3>4
  <2> QED BY <2>2, <2>3
<1> HIDE DEF r
<1> QED BY <1>1, <1>4, <1>5, <1>6, <1>7 DEF Leads

LEMMA LeadsOne ==
  ASSUME NEW k, NEW s \in States, NEW R, Len(R) = 1, NEW t \in States, Step(k, s, R[1], t)
  PROVE  Leads(k, s, R, t)
<1> DEFINE q == [i \in 0 .. 1 |-> IF i = 0 THEN s ELSE t]
<1>1. q \in [0 .. 1 -> States] /\ q[0] = s /\ q[1] = t
  OBVIOUS
<1>2. \A i \in 1 .. 1 : i = 1 /\ i - 1 = 0
  OBVIOUS
<1> HIDE DEF q
<1> QED BY <1>1, <1>2 DEF Leads

LEMMA LeadsStay ==
  ASSUME NEW k, NEW s \in States, NEW R, Len(R) \in Nat,
         \A i \in 1 .. Len(R) : Step(k, s, R[i], s)
  PROVE  Leads(k, s, R, s)
<1> DEFINE q == [i \in 0 .. Len(R) |-> s]
<1>1. q \in [0 .. Len(R) -> States] /\ q[0] = s /\ q[Len(R)] = s
  OBVIOUS
<1>2. \A i \in 1 .. Len(R) : q[i - 1] = s /\ q[i] = s
  OBVIOUS
<1> HIDE DEF q
<1> QED BY <1>1, <1>2 DEF Leads

(* What has arrived when the connection breaks leads somewhere. *)
LEMMA LeadsPrefix ==
  ASSUME NEW S, NEW A \in Seq(S), NEW B \in Seq(S), NEW k, NEW s, NEW t,
         Leads(k, s, A \o B, t)
  PROVE  \E u \in States : Leads(k, s, A, u)
<1>1. /\ Len(A) \in Nat /\ Len(B) \in Nat /\ Len(A \o B) = Len(A) + Len(B)
      /\ \A i \in 1 .. Len(A) + Len(B) :
            (A \o B)[i] = IF i <= Len(A) THEN A[i] ELSE B[i - Len(A)]
  BY ConcatProperties, LenProperties
<1>2. PICK q \in [0 .. Len(A) + Len(B) -> States] :
         /\ q[0] = s
         /\ \A i \in 1 .. Len(A) + Len(B) : Step(k, q[i - 1], (A \o B)[i], q[i])
  BY <1>1 DEF Leads
<1> DEFINE r == [i \in 0 .. Len(A) |-> q[i]]
<1>3. \A i \in 0 .. Len(A) : i \in 0 .. Len(A) + Len(B)
  BY <1>1
<1>4. r \in [0 .. Len(A) -> States] /\ r[0] = s
  BY <1>1, <1>2, <1>3
<1>5. r[Len(A)] \in States
  BY <1>1, <1>4
<1>6. ASSUME NEW i \in 1 .. Len(A)
      PROVE  Step(k, r[i - 1], A[i], r[i])
  <2>1. i \in 1 .. Len(A) + Len(B) /\ i - 1 \in 0 .. Len(A) /\ i \in 0 .. Len(A) /\ i <= Len(A)
    BY <1>1
  <2>2. (A \o B)[i] = A[i] /\ r[i] = q[i] /\ r[i - 1] = q[i - 1]
    BY <1>1, <2>1
  <2> QED BY <1>2, <2>1, <2>2
<1> HIDE DEF r
<1> QED BY <1>4, <1>5, <1>6 DEF Leads

-----------------------------------------------------------------------------
(* The answers of the server. *)

Content == [is : {"OK", "ERR", "EOF", "header", "def", "row"}, more : BOOLEAN]

(* A whole answer, or a part of one. *)
Part(k, s, a, t) == a \in Seq(Content) /\ Leads(k, s, a, t)

LEMMA PartConcat ==
  ASSUME NEW k, NEW s, NEW t, NEW u, NEW a, NEW b, Part(k, s, a, t), Part(k, t, b, u)
  PROVE  Part(k, s, a \o b, u)
BY LeadsConcat, ConcatProperties DEF Part

LEMMA PartOne ==
  ASSUME NEW k, NEW s \in States, NEW p \in Content, NEW t \in States, On(k, s, p, t)
  PROVE  Part(k, s, <<p>>, t)
<1> DEFINE R == <<p>>
<1>1. Len(R) = 1 /\ R[1] = p /\ R \in Seq(Content)
  OBVIOUS
<1> HIDE DEF R
<1>2. Leads(k, s, R, t)
  BY <1>1, LeadsOne DEF Step
<1> QED BY <1>1, <1>2 DEF R, Part

LEMMA PartMany ==
  ASSUME NEW kind_ \in {"def", "row", "header"}, NEW n \in Nat
  PROVE  /\ Many(kind_, n) \in Seq(Content) /\ Len(Many(kind_, n)) = n
         /\ \A i \in 1 .. n : Many(kind_, n)[i] = [is |-> kind_, more |-> FALSE]
<1>1. Many(kind_, n) \in [1 .. n -> Content]
  BY DEF Many, Content
<1>2. Many(kind_, n) \in Seq(Content)
  BY <1>1, SeqDef
<1>3. DOMAIN Many(kind_, n) = 1 .. n
  BY DEF Many
<1>4. Len(Many(kind_, n)) = n
  BY <1>2, <1>3, LenProperties
<1> QED BY <1>2, <1>4 DEF Many

LEMMA PartOf ==
  ASSUME NEW k
  PROVE  /\ \A m \in BOOLEAN : OK(m) \in Seq(Content) /\ EOF(m) \in Seq(Content)
         /\ Part(k, "pong", OK(FALSE), "end") /\ Part(k, "prepared", OK(FALSE), "paramDefs")
         /\ \A s \in {"header", "nextHeader"} :
               /\ Part(k, s, OK(TRUE), "nextHeader") /\ Part(k, s, OK(FALSE), "end")
               /\ Part(k, s, Many("header", 1), "columns")
         /\ \A s \in {"pong", "prepared", "header", "nextHeader", "rows"} : Part(k, s, ERR, "end")
         /\ \A s \in {"paramDefs", "colDefs", "columns"} : Part(k, s, Many("def", 1), s)
         /\ Part(k, "paramDefs", EOF(FALSE), IF k = "query" THEN "colDefs" ELSE "end")
         /\ Part(k, "colDefs", EOF(FALSE), "end")
         /\ \A m \in BOOLEAN : Part(k, "columns", EOF(m), "rows")
         /\ Part(k, "rows", EOF(TRUE), "nextHeader") /\ Part(k, "rows", EOF(FALSE), "end")
         /\ \A n \in Nat : Part(k, "rows", Many("row", n), "rows")
<1> DEFINE C(is, m) == [is |-> is, more |-> m]
<1>1. \A m \in BOOLEAN : C("OK", m) \in Content /\ C("EOF", m) \in Content /\ C("ERR", m) \in Content
  BY DEF Content
<1>2. /\ On(k, "pong", C("OK", FALSE), "end") /\ On(k, "prepared", C("OK", FALSE), "paramDefs")
      /\ \A s \in {"header", "nextHeader"} :
            On(k, s, C("OK", TRUE), "nextHeader") /\ On(k, s, C("OK", FALSE), "end")
  BY DEF On
<1>3. \A s \in {"pong", "prepared", "header", "nextHeader", "rows"} : On(k, s, C("ERR", FALSE), "end")
  BY DEF On
<1>4. /\ On(k, "paramDefs", C("EOF", FALSE), IF k = "query" THEN "colDefs" ELSE "end")
      /\ On(k, "colDefs", C("EOF", FALSE), "end")
      /\ \A m \in BOOLEAN : On(k, "columns", C("EOF", m), "rows")
      /\ On(k, "rows", C("EOF", TRUE), "nextHeader") /\ On(k, "rows", C("EOF", FALSE), "end")
  BY DEF On
<1>5. /\ \A s \in {"header", "nextHeader"} : Step(k, s, C("header", FALSE), "columns")
      /\ \A s \in {"paramDefs", "colDefs", "columns"} : Step(k, s, C("def", FALSE), s)
      /\ Step(k, "rows", C("row", FALSE), "rows")
  BY DEF On, Step
<1>6. \A s \in {"header", "nextHeader"} : Part(k, s, Many("header", 1), "columns")
  <2> DEFINE R == Many("header", 1)
  <2>1. R \in Seq(Content) /\ Len(R) = 1 /\ R[1] = C("header", FALSE)
    <3>1. 1 \in Nat /\ 1 \in 1 .. 1
      OBVIOUS
    <3> QED BY <3>1, PartMany
  <2> HIDE DEF R, C
  <2>2. \A s \in {"header", "nextHeader"} : Leads(k, s, R, "columns")
    BY <1>5, <2>1, LeadsOne DEF States
  <2> QED BY <2>1, <2>2 DEF Part, R
<1>7. \A s \in {"paramDefs", "colDefs", "columns"} : Part(k, s, Many("def", 1), s)
  <2> DEFINE R == Many("def", 1)
  <2>1. R \in Seq(Content) /\ Len(R) = 1 /\ R[1] = C("def", FALSE)
    <3>1. 1 \in Nat /\ 1 \in 1 .. 1
      OBVIOUS
    <3> QED BY <3>1, PartMany
  <2> HIDE DEF R, C
  <2>2. \A s \in {"paramDefs", "colDefs", "columns"} : Leads(k, s, R, s)
    BY <1>5, <2>1, LeadsOne DEF States
  <2> QED BY <2>1, <2>2 DEF Part, R
<1>8. \A n \in Nat : Part(k, "rows", Many("row", n), "rows")
  BY <1>5, PartMany, LeadsStay DEF Part, States
<1>9. \A m \in BOOLEAN : OK(m) = <<C("OK", m)>> /\ EOF(m) = <<C("EOF", m)>> /\ ERR = <<C("ERR", FALSE)>>
  BY DEF OK, EOF, ERR
<1>10. \A p \in Content : <<p>> \in Seq(Content)
  OBVIOUS
<1> HIDE DEF C
<1>11. \A m \in BOOLEAN : OK(m) \in Seq(Content) /\ EOF(m) \in Seq(Content)
  BY <1>1, <1>9, <1>10
<1>12. /\ Part(k, "pong", OK(FALSE), "end") /\ Part(k, "prepared", OK(FALSE), "paramDefs")
       /\ \A s \in {"header", "nextHeader"} :
             Part(k, s, OK(TRUE), "nextHeader") /\ Part(k, s, OK(FALSE), "end")
  BY <1>1, <1>2, <1>9, PartOne DEF States
<1>13. \A s \in {"pong", "prepared", "header", "nextHeader", "rows"} : Part(k, s, ERR, "end")
  BY <1>1, <1>3, <1>9, PartOne DEF States
<1>14. /\ Part(k, "paramDefs", EOF(FALSE), IF k = "query" THEN "colDefs" ELSE "end")
       /\ Part(k, "colDefs", EOF(FALSE), "end")
       /\ \A m \in BOOLEAN : Part(k, "columns", EOF(m), "rows")
       /\ Part(k, "rows", EOF(TRUE), "nextHeader") /\ Part(k, "rows", EOF(FALSE), "end")
  BY <1>1, <1>4, <1>9, PartOne DEF States
<1> QED BY <1>6, <1>7, <1>8, <1>11, <1>12, <1>13, <1>14

(* A result set that says m, or fails. *)
LEMMA PartRows ==
  ASSUME NEW k, NEW s \in {"header", "nextHeader"}, NEW m \in BOOLEAN, NEW end, NEW t,
         Part(k, "rows", end, t), NEW a \in RowsOf(m, end)
  PROVE  Part(k, s, a, t)
<1>1. PICK n \in 0 .. MaxRows :
         a = (((Many("header", 1) \o Many("def", 1)) \o EOF(m)) \o Many("row", n)) \o end
  BY DEF RowsOf
<1>2. n \in Nat
  OBVIOUS
<1>3. Part(k, s, Many("header", 1) \o Many("def", 1), "columns")
  BY PartOf, PartConcat
<1>4. Part(k, s, (Many("header", 1) \o Many("def", 1)) \o EOF(m), "rows")
  BY <1>3, PartOf, PartConcat
<1>5. Part(k, s, ((Many("header", 1) \o Many("def", 1)) \o EOF(m)) \o Many("row", n), "rows")
  BY <1>2, <1>4, PartOf, PartConcat
<1> QED BY <1>1, <1>5, PartConcat

LEMMA AnswersLead ==
  ASSUME NEW c, NEW a \in Answers(c), NEW s,
         \/ c.cmd = "ping" /\ s = "pong"
         \/ c.cmd = "prepare" /\ s = "prepared"
         \/ c.cmd = "run" /\ s = "header"
  PROVE  Part(kind, s, a, "end")
<1>1. CASE c.cmd = "ping" /\ s = "pong"
  <2>1. Answers(c) = {OK(FALSE), ERR}
    BY <1>1 DEF Answers
  <2>2. a = OK(FALSE) \/ a = ERR
    BY <2>1
  <2> QED BY <1>1, <2>2, PartOf
<1>2. CASE c.cmd = "prepare" /\ s = "prepared"
  <2> DEFINE d == IF kind = "query" THEN "colDefs" ELSE "end"
             X == IF kind = "query" THEN Definitions ELSE <<>>
  <2>1. Part(kind, "paramDefs", Definitions, d) /\ Part(kind, "colDefs", Definitions, "end")
    BY PartOf, PartConcat DEF Definitions
  <2>2. Part(kind, "prepared", OK(FALSE) \o Definitions, d)
    BY <2>1, PartOf, PartConcat
  <2>3. Part(kind, d, X, "end")
    <3>1. Part(kind, "end", <<>>, "end")
      BY LeadsNowhere, EmptySeq DEF Part, States
    <3> QED BY <2>1, <3>1
  <2>4. a = ERR \/ a = (OK(FALSE) \o Definitions) \o X
    <3>1. Answers(c) = {ERR, OK(FALSE) \o Definitions \o X}
      <4>1. c.cmd # "ping" /\ c.cmd = "prepare"
        BY <1>2
      <4> QED BY <4>1 DEF Answers
    <3> QED BY <3>1
  <2> HIDE DEF d, X
  <2> QED BY <1>2, <2>2, <2>3, <2>4, PartOf, PartConcat
<1>3. CASE c.cmd = "run" /\ s = "header"
  <2>1. \A u \in {"header", "nextHeader"} : \A b \in LastResult : Part(kind, u, b, "end")
    BY PartOf, PartRows DEF LastResult, ResultSet
  <2>2. \A b \in ResultSet(TRUE) : Part(kind, "header", b, "nextHeader")
    BY PartOf, PartRows DEF ResultSet
  <2>3. a \in LastResult \/ \E b \in ResultSet(TRUE), d \in LastResult : a = b \o d
    <3>1. c.cmd # "ping" /\ c.cmd # "prepare"
      BY <1>3
    <3>2. a \in LastResult \/ a \in TwoResults
      BY <3>1 DEF Answers
    <3> QED BY <3>2 DEF TwoResults
  <2> QED BY <1>3, <2>1, <2>2, <2>3, PartConcat
<1> QED BY <1>1, <1>2, <1>3

(* The server stamps the packets of the answer. *)
LEMMA Stamped ==
  ASSUME NEW k, NEW s, NEW t, NEW a, Part(k, s, a, t), NEW R, Len(R) = Len(a),
         \A i \in 1 .. Len(a) : R[i].is = a[i].is /\ R[i].more = a[i].more
  PROVE  Leads(k, s, R, t)
<1>1. PICK q \in [0 .. Len(a) -> States] :
         /\ q[0] = s /\ q[Len(a)] = t
         /\ \A i \in 1 .. Len(a) : Step(k, q[i - 1], a[i], q[i])
  BY DEF Leads, Part
<1>2. \A i \in 1 .. Len(a) : a[i] \in Content
  BY ElementOfSeq DEF Part
<1>3. \A p \in Content : p # Bye
  <2> SUFFICES ASSUME NEW p \in Content, p = Bye PROVE FALSE
    OBVIOUS
  <2>1. DOMAIN p = {"is", "more"}
    BY DEF Content
  <2>2. "of" \in DOMAIN Bye
    BY DEF Bye
  <2> QED BY <2>1, <2>2
<1>4. ASSUME NEW i \in 1 .. Len(a)
      PROVE  Step(k, q[i - 1], R[i], q[i])
  <2>1. On(k, q[i - 1], a[i], q[i])
    BY <1>1, <1>2, <1>3 DEF Step
  <2> QED BY <2>1 DEF On, Step
<1> QED BY <1>1, <1>4 DEF Leads

-----------------------------------------------------------------------------
(* What is on its way. *)

LEMMA OnTheWay ==
  ASSUME TypeOK
  PROVE  /\ Arrived \in Seq(Packet) /\ Incoming \in Seq(Packet)
         /\ Len(Incoming) = Len(Arrived) + Len(out)
         /\ Len(Arrived) \in Nat /\ Len(out) \in Nat /\ Len(Incoming) \in Nat
         /\ \A i \in 1 .. Len(Arrived) : Incoming[i] = Arrived[i]
         /\ \A i \in 1 .. Len(out) : Incoming[Len(Arrived) + i] = out[i]
         /\ Incoming = <<>> <=> buf = <<>> /\ wire = <<>> /\ out = <<>>
         /\ \A i \in 1 .. Len(Incoming) : Incoming[i] \in Packet
         /\ Incoming # <<>> => Len(Incoming) > 0 /\ 1 \in 1 .. Len(Incoming)
<1>1. buf \in Seq(Packet) /\ wire \in Seq(Packet) /\ out \in Seq(Packet)
  BY DEF TypeOK
<1>2. Arrived \in Seq(Packet)
  BY <1>1, ConcatProperties DEF Arrived
<1>3. /\ Incoming \in Seq(Packet) /\ Len(Incoming) = Len(Arrived) + Len(out)
      /\ \A i \in 1 .. Len(Arrived) + Len(out) :
            Incoming[i] = IF i <= Len(Arrived) THEN Arrived[i] ELSE out[i - Len(Arrived)]
  BY <1>1, <1>2, ConcatProperties DEF Incoming
<1>4. Len(Arrived) \in Nat /\ Len(out) \in Nat /\ Len(Incoming) \in Nat
  BY <1>1, <1>2, <1>3, LenProperties
<1>5. \A i \in 1 .. Len(Arrived) : Incoming[i] = Arrived[i]
  BY <1>3, <1>4
<1>6. \A i \in 1 .. Len(out) : Incoming[Len(Arrived) + i] = out[i]
  <2> SUFFICES ASSUME NEW i \in 1 .. Len(out) PROVE Incoming[Len(Arrived) + i] = out[i]
    OBVIOUS
  <2>1. Len(Arrived) + i \in 1 .. Len(Arrived) + Len(out) /\ ~(Len(Arrived) + i <= Len(Arrived))
        /\ Len(Arrived) + i - Len(Arrived) = i
    BY <1>4
  <2> QED BY <1>3, <2>1
<1>7. Incoming = <<>> <=> buf = <<>> /\ wire = <<>> /\ out = <<>>
  BY <1>1, <1>2, ConcatEqualIffEmpty DEF Incoming, Arrived
<1>8. \A i \in 1 .. Len(Incoming) : Incoming[i] \in Packet
  BY <1>3, ElementOfSeq
<1>9. Incoming # <<>> => Len(Incoming) > 0 /\ 1 \in 1 .. Len(Incoming)
  BY <1>3, <1>4, ElementFacts
<1> QED BY <1>2, <1>3, <1>4, <1>5, <1>6, <1>7, <1>8, <1>9

(* readPacket takes the first packet. *)
LEMMA ReadTakes ==
  ASSUME TypeOK, ReadPacket
  PROVE  /\ buf' \in Seq(Packet) /\ wire' \in Seq(Packet)
         /\ Incoming # <<>> /\ Pkt = Incoming[1] /\ Incoming' = Tail(Incoming)
<1>1. /\ buf \in Seq(Packet) /\ wire \in Seq(Packet) /\ out \in Seq(Packet)
      /\ Arrived \in Seq(Packet) /\ Arrived # <<>>
  BY OnTheWay DEF TypeOK, ReadPacket
<1>2. <<>> \in Seq(Packet)
  BY EmptySeq
<1>3. buf' \in Seq(Packet) /\ wire' \in Seq(Packet) /\ buf' \o wire' = Tail(Arrived)
  <2>1. CASE buf = <<>>
    <3>1. Arrived = wire /\ buf' = Tail(wire) /\ wire' = <<>>
      BY <1>1, <2>1, ConcatEmptySeq DEF Arrived, ReadPacket
    <3>2. Tail(wire) \in Seq(Packet)
      BY <1>1, <3>1, HeadTailProperties
    <3> QED BY <1>2, <3>1, <3>2, ConcatEmptySeq
  <2>2. CASE buf # <<>>
    <3>1. buf' = Tail(buf) /\ wire' = wire
      BY <2>2 DEF ReadPacket
    <3>2. Tail(buf) \in Seq(Packet)
      BY <1>1, <2>2, HeadTailProperties
    <3> QED BY <1>1, <2>2, <3>1, <3>2, TailOfConcat DEF Arrived
  <2> QED BY <2>1, <2>2
<1>4. out' = out
  BY DEF ReadPacket
<1>5. Incoming # <<>> /\ Head(Incoming) = Head(Arrived) /\ Tail(Incoming) = Tail(Arrived) \o out
  BY <1>1, TailOfConcat DEF Incoming
<1>6. Incoming' = Tail(Incoming)
  BY <1>3, <1>4, <1>5 DEF Incoming, Arrived
<1>7. Head(Incoming) = Incoming[1]
  BY <1>5, OnTheWay, ElementFacts
<1> QED BY <1>3, <1>5, <1>6, <1>7 DEF Pkt

(* The first packet is of the statement and in step, or the goodbye. *)
LEMMA NextPacket ==
  ASSUME TypeOK, Flow, conn = "open", Incoming # <<>>
  PROVE  \/ Incoming[1] = Bye /\ link = "down" /\ Len(Incoming) = 1
         \/ Incoming[1].of = stmt /\ Incoming[1].seq = sequence
<1>1. 1 \in 1 .. Len(Incoming)
  BY OnTheWay
<1> QED BY <1>1 DEF Flow, Open_, Numbered, Number

(* At the end of an answer there is nothing left, or the goodbye. *)
LEMMA AtEnd ==
  ASSUME TypeOK, Flow, Control, conn = "open", pc \notin Reading \cup {"hold"}
  PROVE  /\ inbox = <<>> /\ out = <<>>
         /\ Incoming # <<>> => link = "down" /\ Len(Incoming) = 1 /\ Incoming[1] = Bye
         /\ \A k : \A s \in States : \E t \in States : Leads(k, s, Incoming, t)
         /\ \A k : Leads(k, "end", Incoming, "end")
<1>1. PICK t \in States : Leads(kind, "end", Incoming, t)
  BY DEF Flow, Open_, Place
<1>2. inbox = <<>>
  BY DEF Flow, Open_, Commanded, Reading
<1>3. ASSUME Incoming # <<>> PROVE link = "down" /\ Len(Incoming) = 1 /\ Incoming[1] = Bye
  <2>1. \E u \in States : Step(kind, "end", Incoming[1], u)
    BY <1>1, <1>3, OnTheWay, LeadsTail
  <2>2. Incoming[1] = Bye
    BY <2>1 DEF Step, On
  <2>3. Incoming[1].of # stmt
    BY <2>2 DEF Control, Bye, Stmts
  <2> QED BY <1>3, <2>2, <2>3, NextPacket
<1>4. out = <<>>
  <2> SUFFICES ASSUME out # <<>> PROVE FALSE
    OBVIOUS
  <2>1. Len(out) > 0
    BY ElementFacts DEF TypeOK
  <2>2. Incoming # <<>>
    BY OnTheWay
  <2>3. Len(out) = 1 /\ Len(Arrived) = 0
    BY <1>3, <2>1, <2>2, OnTheWay
  <2>4. 1 \in 1 .. Len(out) /\ Len(Arrived) + 1 = 1
    BY <2>3
  <2>5. Incoming[1] = out[1]
    BY <2>4, OnTheWay
  <2>6. out[1].of # 0
    BY <2>4 DEF Flow
  <2> QED BY <1>3, <2>2, <2>5, <2>6 DEF Bye
<1>5. ASSUME NEW k, NEW s \in States, Incoming # <<>>
      PROVE  Leads(k, s, Incoming, "end")
  BY <1>3, <1>5, LeadsOne DEF Step, States
<1>6. ASSUME NEW k, NEW s \in States, Incoming = <<>>
      PROVE  Leads(k, s, Incoming, s)
  BY <1>6, LeadsNowhere
<1> QED BY <1>2, <1>3, <1>4, <1>5, <1>6 DEF States

(* InStep follows from the invariant. *)
LEMMA StepsAreInStep ==
  ASSUME TypeOK, Flow, Control
  PROVE  InStep
<1>1. ASSUME pc \in Reading, Arrived # <<>>
      PROVE  Pkt.seq = sequence \/ Pkt.of = 0
  <2>1. conn = "open"
    BY <1>1 DEF Control
  <2>2. Incoming # <<>> /\ Len(Arrived) > 0 /\ Pkt = Arrived[1]
    BY <1>1, OnTheWay, ElementFacts DEF Pkt
  <2>3. Pkt = Incoming[1]
    BY <2>2, OnTheWay
  <2> QED BY <2>1, <2>2, <2>3, NextPacket DEF Bye
<1>2. ASSUME pc \in Sending \cup {"idle"}, conn = "open"
      PROVE  inbox = <<>> /\ out = <<>> /\ \A i \in DOMAIN Arrived : Arrived[i].of = 0
  <2>1. pc \notin Reading \cup {"hold"}
    BY <1>2 DEF Sending, Reading
  <2>2. ASSUME NEW i \in DOMAIN Arrived PROVE Arrived[i].of = 0
    <3>1. i \in 1 .. Len(Arrived)
      BY OnTheWay, LenProperties
    <3>2. Arrived[i] = Incoming[i] /\ Len(Incoming) > 0 /\ i \in 1 .. Len(Incoming)
      BY <3>1, OnTheWay
    <3>3. Incoming # <<>>
      BY <3>2, EmptySeq
    <3>4. Len(Incoming) = 1 /\ Incoming[1] = Bye
      BY <1>2, <2>1, <3>3, AtEnd
    <3> QED BY <3>2, <3>4 DEF Bye
  <2> QED BY <1>2, <2>1, <2>2, AtEnd
<1> QED BY <1>1, <1>2 DEF InStep

-----------------------------------------------------------------------------
(* How the steps change what is on its way. *)

LEMMA ReadingFlow ==
  ASSUME TypeOK, Flow, Control, pc \in Reading, ReadPacket
  PROVE  /\ \E u \in States : Step(kind, pc, Pkt, u) /\ (Place' = u => Flow')
         /\ \/ Pkt = Bye /\ link = "down"
            \/ Pkt.of = stmt /\ Pkt.seq = sequence
<1>1. /\ conn = "open" /\ Incoming # <<>> /\ Pkt = Incoming[1]
      /\ Incoming' = Tail(Incoming) /\ Incoming \in Seq(Packet)
  BY ReadTakes, OnTheWay DEF Control
<1>2. \/ Pkt = Bye /\ link = "down" /\ Len(Incoming) = 1
      \/ Pkt.of = stmt /\ Pkt.seq = sequence
  BY <1>1, NextPacket
<1>3. PICK t \in States : /\ Leads(kind, pc, Incoming, t)
                          /\ link = "up" /\ inbox = <<>> => t = "end"
  BY <1>1 DEF Flow, Open_, Place
<1>4. PICK u \in States : Step(kind, pc, Pkt, u) /\ Leads(kind, u, Incoming', t)
  BY <1>1, <1>3, LeadsTail
<1>5. inbox = <<>>
  BY <1>1 DEF Flow, Open_, Commanded
<1>6. /\ Len(Incoming) \in Nat /\ Len(Incoming) > 0 /\ Len(Incoming') = Len(Incoming) - 1
      /\ \A i \in 1 .. Len(Incoming) - 1 : Incoming'[i] = Incoming[i + 1]
  BY <1>1, ElementFacts
<1>7. /\ UNCHANGED <<stmt, kind, link, inbox, out>> /\ sequence' = (Pkt.seq + 1) % 256
      /\ conn' = IF Pkt.seq = sequence THEN "open" ELSE "closed"
  BY DEF ReadPacket, callVars
<1>8. ASSUME NEW i \in 1 .. Len(Incoming')
      PROVE  \/ Incoming'[i] = Bye /\ link = "down" /\ i = Len(Incoming')
             \/ /\ Incoming'[i].of = stmt
                /\ Incoming'[i].seq = IF i = 1 THEN sequence' ELSE (Incoming'[i - 1].seq + 1) % 256
  <2>1. /\ i + 1 \in 1 .. Len(Incoming) /\ i \in 1 .. Len(Incoming) - 1 /\ (i + 1) - 1 = i
        /\ (i + 1 = Len(Incoming) <=> i = Len(Incoming')) /\ i + 1 # 1
    BY <1>6
  <2>2. Incoming'[i] = Incoming[i + 1]
    BY <1>6, <2>1
  <2>3. \/ Incoming[i + 1] = Bye /\ link = "down" /\ i + 1 = Len(Incoming)
        \/ Incoming[i + 1].of = stmt /\ Incoming[i + 1].seq = (Incoming[i].seq + 1) % 256
    BY <1>1, <2>1 DEF Flow, Open_, Numbered, Number
  <2>4. i = 1 => Incoming[i] = Pkt
    BY <1>1
  <2>5. i # 1 => i - 1 \in 1 .. Len(Incoming) - 1 /\ (i - 1) + 1 = i
    BY <1>6
  <2>6. i # 1 => Incoming'[i - 1] = Incoming[i]
    BY <1>6, <2>5
  <2> QED BY <1>7, <2>1, <2>2, <2>3, <2>4, <2>6
<1>9. Numbered'
  BY <1>7, <1>8 DEF Numbered, Number
<1>10. Place' = u => Open_'
  BY <1>3, <1>4, <1>5, <1>7, <1>9 DEF Open_, Commanded
<1>11. Place' = u => Flow'
  BY <1>2, <1>7, <1>10 DEF Flow
<1> QED BY <1>2, <1>4, <1>11

LEMMA Steady ==
  ASSUME Flow, UNCHANGED <<kind, stmt, sequence, buf, wire, out, link, inbox>>,
         conn' = conn \/ (conn' = "closed" /\ link = "down"),
         conn = "open" => Place' = Place /\ (inbox # <<>> => pc' = pc)
  PROVE  Flow'
<1>1. Incoming' = Incoming
  BY DEF Incoming, Arrived
<1>2. Numbered /\ conn' = "open" => Numbered'
  BY <1>1 DEF Numbered, Number
<1>3. Commanded /\ conn = "open" => Commanded'
  BY <1>1 DEF Commanded
<1>4. conn' = "open" => Open_'
  BY <1>1, <1>2, <1>3 DEF Flow, Open_
<1> QED BY <1>4 DEF Flow

LEMMA Emptied ==
  ASSUME Drop
  PROVE  Flow'
<1>1. Len(out') = 0
  BY DEF Drop
<1> QED BY <1>1 DEF Drop, Flow

(* Between two answers. *)
LEMMA Between ==
  ASSUME TypeOK, Flow, Control, conn = "open", pc \notin Reading \cup {"hold"},
         UNCHANGED <<conn, buf, wire, out, link, inbox>>,
         Place' \in States, Place' = "end" \/ link = "down"
  PROVE  Flow'
<1>1. Incoming' = Incoming
  BY DEF Incoming, Arrived
<1>2. \E t \in States : Leads(kind', Place', Incoming, t) /\ (link = "up" => t = "end")
  <2>1. CASE Place' = "end"
    BY <2>1, AtEnd DEF States
  <2>2. CASE link = "down"
    BY <2>2, AtEnd
  <2> QED BY <2>1, <2>2
<1>3. \A i \in 1 .. Len(Incoming) : Incoming[i] = Bye /\ link = "down" /\ i = Len(Incoming)
  <2> SUFFICES ASSUME NEW i \in 1 .. Len(Incoming)
               PROVE  Incoming[i] = Bye /\ link = "down" /\ i = Len(Incoming)
    OBVIOUS
  <2>1. Incoming # <<>>
    BY OnTheWay, EmptySeq
  <2>2. link = "down" /\ Len(Incoming) = 1 /\ Incoming[1] = Bye
    BY <2>1, AtEnd
  <2> QED BY <2>2
<1>4. Open_'
  BY <1>1, <1>2, <1>3, AtEnd DEF Open_, Numbered, Commanded
<1> QED BY <1>4 DEF Flow

LEMMA SendFlow ==
  ASSUME TypeOK, Flow, Control, Send
  PROVE  Flow'
<1>1. /\ conn = "open" /\ pc \notin Reading \cup {"hold"} /\ pc' = Answer /\ sequence' = 1
      /\ UNCHANGED <<kind, stmt, conn, buf, wire, out, link>>
  BY DEF Control, Send, Sending, Reading, callVars
<1>2. Answer \in {"pong", "prepared", "header"} /\ Place' = Answer
  BY <1>1 DEF Answer, Place, Reading
<1>3. CASE link = "up"
  <2>1. inbox = <<>> /\ Incoming = <<>>
    BY <1>1, <1>3, AtEnd
  <2>2. Incoming' = <<>>
    BY <1>1, <2>1 DEF Incoming, Arrived
  <2>3. Len(inbox') = 1 /\ inbox'[1] = [cmd |-> NextCommand, of |-> stmt] /\ inbox' # <<>>
    <3>1. inbox' = Append(<<>>, [cmd |-> NextCommand, of |-> stmt])
      BY <1>3, <2>1 DEF Send
    <3> QED BY <3>1
  <2>4. /\ Answer = "pong" => NextCommand = "ping"
        /\ Answer = "prepared" => NextCommand = "prepare"
        /\ Answer = "header" => NextCommand = "run"
    BY DEF Answer, NextCommand
  <2>5. Commanded'
    BY <1>1, <1>2, <1>3, <2>2, <2>3, <2>4 DEF Commanded
  <2>6. Numbered'
    <3>1. Len(Incoming') = 0
      BY <2>2
    <3> QED BY <3>1 DEF Numbered
  <2>7. Leads(kind', Place', Incoming', Place') /\ Place' \in States
    BY <1>2, <2>2, LeadsNowhere DEF States
  <2>8. Open_'
    BY <2>3, <2>5, <2>6, <2>7 DEF Open_
  <2> QED BY <1>1, <1>3, <2>8 DEF Flow
<1>4. CASE link # "up"
  <2>1. link = "down" /\ inbox' = inbox
    BY <1>4 DEF TypeOK, Send
  <2> QED BY <1>1, <1>2, <2>1, Between DEF States
<1> QED BY <1>3, <1>4

(* The server's steps, and those of the network. *)

LEMMA Modulo ==
  \A i \in Nat : i % 256 \in Nat /\ (i > 0 => (((i - 1) % 256) + 1) % 256 = i % 256)
OBVIOUS

LEMMA Served ==
  ASSUME TypeOK, Serve
  PROVE  /\ inbox # <<>> /\ inbox[1] \in Command /\ inbox' = Tail(inbox)
         /\ \E a \in Answers(inbox[1]) :
               /\ effects' = IF inbox[1].cmd = "prepare" \/ a = ERR THEN effects
                             ELSE [effects EXCEPT ![inbox[1].of] = @ + 1]
               /\ Len(a) \in Nat /\ Len(out') = Len(a) /\ out' \in Seq(Packet)
               /\ \A i \in 1 .. Len(a) :
                     /\ out'[i].is = a[i].is /\ out'[i].more = a[i].more
                     /\ out'[i].of = inbox[1].of /\ out'[i].seq = i % 256
<1>1. inbox # <<>> /\ inbox[1] = Head(inbox) /\ inbox[1] \in Command
  BY HeadTailProperties, ElementFacts DEF Serve, TypeOK
<1>2. PICK a \in Answers(inbox[1]) :
         /\ out' = [i \in 1 .. Len(a) |->
                       [is |-> a[i].is, more |-> a[i].more, of |-> inbox[1].of,
                        seq |-> i % 256]]
         /\ effects' = IF inbox[1].cmd = "prepare" \/ a = ERR THEN effects
                       ELSE [effects EXCEPT ![inbox[1].of] = @ + 1]
  BY <1>1 DEF Serve
<1>3. a \in Seq(Content)
  <2>1. inbox[1].cmd \in {"ping", "prepare", "run"}
    BY <1>1 DEF Command
  <2> QED BY <2>1, AnswersLead DEF Part
<1>4. Len(a) \in Nat /\ \A i \in 1 .. Len(a) : a[i] \in Content
  BY <1>3, ElementFacts
<1>5. out' \in [1 .. Len(a) -> Packet]
  <2> SUFFICES ASSUME NEW i \in 1 .. Len(a)
               PROVE  [is |-> a[i].is, more |-> a[i].more, of |-> inbox[1].of,
                       seq |-> i % 256] \in Packet
    BY <1>2
  <2>1. i % 256 \in Nat
    BY <1>4, Modulo
  <2> QED BY <1>1, <1>4, <2>1 DEF Content, Command, Packet
<1>6. out' \in Seq(Packet)
  BY <1>4, <1>5, SeqDef
<1>7. Len(out') = Len(a)
  BY <1>2, <1>4, <1>6, LenProperties
<1>8. ASSUME NEW i \in 1 .. Len(a)
      PROVE  /\ out'[i].is = a[i].is /\ out'[i].more = a[i].more
             /\ out'[i].of = inbox[1].of /\ out'[i].seq = i % 256
  BY <1>2
<1> QED BY <1>1, <1>2, <1>4, <1>6, <1>7, <1>8 DEF Serve

LEMMA ServeFlow ==
  ASSUME TypeOK, Flow, Control, Serve
  PROVE  Flow' /\ Commanded /\ inbox' = <<>> /\ Incoming' = out'
<1>1. /\ link = "up" /\ inbox # <<>> /\ out = <<>>
      /\ UNCHANGED <<pc, kind, stmt, conn, sequence, buf, wire, link>>
  BY DEF Serve, callVars, connVars
<1>2. conn = "open"
  BY <1>1 DEF Flow, TypeOK
<1>3. Commanded
  BY <1>2 DEF Flow, Open_
<1>4. inbox' = <<>>
  <2>1. Len(inbox) = 1 /\ inbox \in Seq(Command)
    BY <1>1, <1>3 DEF Commanded, TypeOK
  <2>2. Tail(inbox) \in Seq(Command) /\ Len(Tail(inbox)) = 0
    BY <1>1, <2>1, ElementFacts
  <2>3. Tail(inbox) = <<>>
    BY <2>2, ElementFacts
  <2> QED BY <2>3, Served
<1>5. PICK a \in Answers(inbox[1]) :
         /\ Len(a) \in Nat /\ Len(out') = Len(a) /\ out' \in Seq(Packet)
         /\ \A i \in 1 .. Len(a) :
               /\ out'[i].is = a[i].is /\ out'[i].more = a[i].more
               /\ out'[i].of = inbox[1].of /\ out'[i].seq = i % 256
  BY Served
<1>6. Incoming' = out'
  <2>1. buf' = <<>> /\ wire' = <<>>
    BY <1>1, <1>3, OnTheWay DEF Commanded
  <2> QED BY <1>5, <2>1, ConcatEmptySeq DEF Incoming, Arrived
<1>7. Leads(kind, pc, out', "end")
  <2>1. Part(kind, pc, a, "end")
    BY <1>1, <1>3, AnswersLead DEF Commanded
  <2>2. \A i \in 1 .. Len(a) : out'[i].is = a[i].is /\ out'[i].more = a[i].more
    BY <1>5
  <2> QED BY <1>5, <2>1, <2>2, Stamped
<1>8. Place' = pc
  BY <1>1, <1>3 DEF Commanded, Place, Reading
<1>9. Numbered'
  <2> SUFFICES ASSUME NEW i \in 1 .. Len(out')
               PROVE  /\ out'[i].of = stmt'
                      /\ out'[i].seq = IF i = 1 THEN sequence'
                                       ELSE (out'[i - 1].seq + 1) % 256
    BY <1>6 DEF Numbered, Number
  <2>1. out'[i].of = stmt' /\ out'[i].seq = i % 256
    BY <1>1, <1>3, <1>5 DEF Commanded
  <2>2. CASE i = 1
    BY <1>1, <1>3, <2>1, <2>2 DEF Commanded
  <2>3. CASE i # 1
    <3>1. i - 1 \in 1 .. Len(a) /\ i \in Nat /\ i > 0
      BY <1>5, <2>3
    <3>2. out'[i - 1].seq = (i - 1) % 256
      BY <1>5, <3>1
    <3> QED BY <2>1, <2>3, <3>1, <3>2, Modulo
  <2> QED BY <2>2, <2>3
<1>10. Open_'
  BY <1>1, <1>4, <1>6, <1>7, <1>8, <1>9 DEF Open_, Commanded, States
<1>11. \A i \in 1 .. Len(out') : out'[i].of # 0
  <2>1. inbox[1].of # 0
    BY Served DEF Command, Stmts
  <2> QED BY <1>5, <2>1
<1>12. Flow'
  BY <1>1, <1>2, <1>10, <1>11 DEF Flow
<1> QED BY <1>3, <1>4, <1>6, <1>12

LEMMA DeliverFlow ==
  ASSUME TypeOK, Flow, Control, Deliver
  PROVE  /\ Flow' /\ wire' \in Seq(Packet) /\ out' \in Seq(Packet)
         /\ Incoming' = Incoming
<1>1. /\ out # <<>> /\ wire' = Append(wire, Head(out)) /\ out' = Tail(out)
      /\ buf \in Seq(Packet) /\ wire \in Seq(Packet) /\ out \in Seq(Packet)
      /\ UNCHANGED <<pc, kind, stmt, conn, sequence, buf, link, inbox>>
  BY DEF Deliver, callVars, connVars, TypeOK
<1>2. Head(out) \in Packet /\ Tail(out) \in Seq(Packet) /\ <<Head(out)>> \in Seq(Packet)
  BY <1>1, HeadTailProperties
<1>3. wire' \in Seq(Packet) /\ out' \in Seq(Packet)
  BY <1>1, <1>2, AppendProperties
<1>4. buf \o Append(wire, Head(out)) = Append(Arrived, Head(out))
  <2>1. Append(wire, Head(out)) = wire \o <<Head(out)>>
    BY <1>1, <1>2, AppendIsConcat
  <2>2. Append(Arrived, Head(out)) = Arrived \o <<Head(out)>>
    BY <1>2, OnTheWay, AppendIsConcat
  <2>3. (buf \o wire) \o <<Head(out)>> = buf \o (wire \o <<Head(out)>>)
    BY <1>1, <1>2, ConcatAssociative
  <2> QED BY <2>1, <2>2, <2>3 DEF Arrived
<1>5. Append(Arrived, Head(out)) \o Tail(out) = Arrived \o out
  BY <1>1, OnTheWay, Moved
<1>6. Incoming' = Incoming
  BY <1>1, <1>4, <1>5 DEF Incoming, Arrived
<1>7. Numbered => Numbered'
  BY <1>1, <1>6 DEF Numbered, Number
<1>8. Commanded => Commanded'
  BY <1>1, <1>6 DEF Commanded
<1>9. conn = "open" => Open_'
  BY <1>1, <1>6, <1>7, <1>8 DEF Flow, Open_, Place
<1>10. \A i \in 1 .. Len(out') : out'[i].of # 0
  <2>1. /\ Len(out) \in Nat /\ Len(Tail(out)) = Len(out) - 1
        /\ \A i \in 1 .. Len(out) - 1 : Tail(out)[i] = out[i + 1]
    BY <1>1, ElementFacts
  <2> SUFFICES ASSUME NEW i \in 1 .. Len(out) - 1 PROVE Tail(out)[i].of # 0
    BY <1>1, <2>1
  <2>2. i + 1 \in 1 .. Len(out)
    BY <2>1
  <2> QED BY <2>1, <2>2 DEF Flow
<1>11. conn # "none"
  BY <1>1 DEF Flow
<1> QED BY <1>1, <1>3, <1>6, <1>9, <1>10, <1>11 DEF Flow

LEMMA BreakFlow ==
  ASSUME TypeOK, Flow, Control, Break
  PROVE  /\ Flow'
         /\ Incoming' # <<>> => Incoming # <<>> /\ Incoming'[1] = Incoming[1]
<1>1. /\ link = "up" /\ link' = "down" /\ out' = <<>> /\ inbox' = <<>> /\ wire' \in {wire, <<>>}
      /\ buf \in Seq(Packet) /\ wire \in Seq(Packet) /\ out \in Seq(Packet)
      /\ UNCHANGED <<pc, kind, stmt, conn, sequence, buf>>
  BY DEF Break, Breaks, callVars, connVars, TypeOK
<1>2. \E B \in Seq(Packet) : Incoming' \in Seq(Packet) /\ Incoming = Incoming' \o B
  <2>1. CASE wire' = wire
    <3>1. Incoming' = Arrived
      BY <1>1, <2>1, OnTheWay, ConcatEmptySeq DEF Incoming, Arrived
    <3> QED BY <1>1, <3>1, OnTheWay DEF Incoming
  <2>2. CASE wire' = <<>>
    <3>1. Incoming' = buf
      <4>1. buf \o <<>> = buf
        BY <1>1, ConcatEmptySeq
      <4> QED BY <1>1, <2>2, <4>1 DEF Incoming, Arrived
    <3>2. wire \o out \in Seq(Packet)
      BY <1>1, ConcatProperties
    <3>3. (buf \o wire) \o out = buf \o (wire \o out)
      BY <1>1, ConcatAssociative
    <3> QED BY <1>1, <3>1, <3>2, <3>3 DEF Incoming, Arrived
  <2> QED BY <1>1, <2>1, <2>2
<1>3. PICK B \in Seq(Packet) : Incoming' \in Seq(Packet) /\ Incoming = Incoming' \o B
  BY <1>2
<1>4. /\ Len(Incoming') \in Nat /\ Len(B) \in Nat /\ Len(Incoming) = Len(Incoming') + Len(B)
      /\ \A i \in 1 .. Len(Incoming') : Incoming[i] = Incoming'[i]
  <2>1. Len(Incoming') \in Nat /\ Len(B) \in Nat
    BY <1>3, LenProperties
  <2>2. /\ Len(Incoming' \o B) = Len(Incoming') + Len(B)
        /\ \A i \in 1 .. Len(Incoming') + Len(B) :
              (Incoming' \o B)[i] = IF i <= Len(Incoming') THEN Incoming'[i]
                                    ELSE B[i - Len(Incoming')]
    BY <1>3, ConcatProperties
  <2> QED BY <1>3, <2>1, <2>2
<1>5. ASSUME conn = "open" PROVE Open_'
  <2>1. \E u \in States : Leads(kind, Place, Incoming', u)
    BY <1>3, <1>5, LeadsPrefix DEF Flow, Open_
  <2>2. Numbered'
    <3> SUFFICES ASSUME NEW i \in 1 .. Len(Incoming')
                 PROVE  /\ Incoming'[i].of = stmt
                        /\ Incoming'[i].seq = IF i = 1 THEN sequence
                                              ELSE (Incoming'[i - 1].seq + 1) % 256
      BY <1>1 DEF Numbered, Number
    <3>1. i \in 1 .. Len(Incoming) /\ (i # 1 => i - 1 \in 1 .. Len(Incoming'))
      BY <1>4
    <3>2. Incoming[i].of = stmt /\ Incoming[i].seq = Number(Incoming, i)
      BY <1>1, <1>5, <3>1 DEF Flow, Open_, Numbered
    <3> QED BY <1>4, <3>1, <3>2 DEF Number
  <2>3. Place' = Place
    BY <1>1 DEF Place
  <2> QED BY <1>1, <2>1, <2>2, <2>3 DEF Open_, Commanded
<1>6. Len(out') = 0 /\ conn # "none"
  BY <1>1 DEF Flow
<1>7. ASSUME Incoming' # <<>> PROVE Incoming # <<>> /\ Incoming'[1] = Incoming[1]
  <2>1. Len(Incoming') > 0
    BY <1>3, <1>7, ElementFacts
  <2>2. 1 \in 1 .. Len(Incoming') /\ Len(Incoming) > 0
    BY <1>4, <2>1
  <2>3. Incoming # <<>>
    BY <2>2, EmptySeq
  <2> QED BY <1>4, <2>2, <2>3
<1> QED BY <1>1, <1>5, <1>6, <1>7 DEF Flow

LEMMA KillIdleFlow ==
  ASSUME TypeOK, Flow, Control, KillIdle
  PROVE  /\ Flow' /\ wire' \in Seq(Packet)
         /\ Incoming'[1] = IF Incoming = <<>> THEN Bye ELSE Incoming[1]
<1>1. /\ link = "up" /\ link' = "down" /\ out = <<>> /\ inbox = <<>> /\ wire' = Append(wire, Bye)
      /\ buf \in Seq(Packet) /\ wire \in Seq(Packet)
      /\ UNCHANGED <<pc, kind, stmt, conn, sequence, buf, inbox, out>>
  BY DEF KillIdle, Breaks, callVars, connVars, TypeOK, Bye
<1>2. Bye \in Packet /\ <<Bye>> \in Seq(Packet)
  BY DEF Bye, Packet
<1>3. wire' \in Seq(Packet) /\ wire' = wire \o <<Bye>>
  BY <1>1, <1>2, AppendProperties, AppendIsConcat
<1>4. Incoming = Arrived /\ Incoming' = Incoming \o <<Bye>>
  <2>1. Arrived \in Seq(Packet) /\ buf \o wire' \in Seq(Packet)
    BY <1>1, <1>3, OnTheWay, ConcatProperties
  <2>2. Incoming = Arrived /\ Incoming' = buf \o wire'
    BY <1>1, <2>1, ConcatEmptySeq DEF Incoming, Arrived
  <2>3. (buf \o wire) \o <<Bye>> = buf \o (wire \o <<Bye>>)
    BY <1>1, <1>2, ConcatAssociative
  <2> QED BY <1>3, <2>2, <2>3 DEF Arrived
<1>5. Incoming \in Seq(Packet) /\ Incoming' = Append(Incoming, Bye)
  BY <1>2, <1>4, OnTheWay, AppendIsConcat
<1>6. /\ Len(Incoming) \in Nat /\ Len(Incoming') = Len(Incoming) + 1
      /\ \A i \in 1 .. Len(Incoming) : Incoming'[i] = Incoming[i]
      /\ Incoming'[Len(Incoming) + 1] = Bye
  BY <1>2, <1>5, AppendProperties, LenProperties
<1>7. ASSUME conn = "open" PROVE Open_'
  <2>1. Leads(kind, Place, Incoming, "end")
    BY <1>1, <1>7 DEF Flow, Open_
  <2>2. Leads(kind, "end", <<Bye>>, "end")
    <3> DEFINE R == <<Bye>>
    <3>1. Len(R) = 1 /\ R[1] = Bye
      OBVIOUS
    <3> HIDE DEF R
    <3>2. Leads(kind, "end", R, "end")
      BY <3>1, LeadsOne DEF Step, States
    <3> QED BY <3>2 DEF R
  <2>3. Leads(kind, Place, Incoming', "end")
    BY <1>2, <1>4, <1>5, <2>1, <2>2, LeadsConcat
  <2>4. Numbered'
    <3> SUFFICES ASSUME NEW i \in 1 .. Len(Incoming')
                 PROVE  \/ Incoming'[i] = Bye /\ i = Len(Incoming')
                        \/ /\ Incoming'[i].of = stmt
                           /\ Incoming'[i].seq = IF i = 1 THEN sequence
                                                 ELSE (Incoming'[i - 1].seq + 1) % 256
      BY <1>1 DEF Numbered, Number
    <3>1. CASE i = Len(Incoming) + 1
      BY <1>6, <3>1
    <3>2. CASE i # Len(Incoming) + 1
      <4>1. i \in 1 .. Len(Incoming) /\ (i # 1 => i - 1 \in 1 .. Len(Incoming))
        BY <1>6, <3>2
      <4>2. Incoming[i].of = stmt /\ Incoming[i].seq = Number(Incoming, i)
        BY <1>1, <1>7, <4>1 DEF Flow, Open_, Numbered
      <4> QED BY <1>6, <4>1, <4>2 DEF Number
    <3> QED BY <3>1, <3>2
  <2>5. Place' = Place
    BY <1>1 DEF Place
  <2> QED BY <1>1, <2>3, <2>4, <2>5 DEF Open_, Commanded, States
<1>8. conn # "none"
  BY <1>1 DEF Flow
<1>9. Incoming'[1] = IF Incoming = <<>> THEN Bye ELSE Incoming[1]
  <2>1. CASE Incoming = <<>>
    <3>1. Len(Incoming) + 1 = 1
      BY <2>1
    <3> QED BY <1>6, <2>1, <3>1
  <2>2. CASE Incoming # <<>>
    <3>1. 1 \in 1 .. Len(Incoming)
      BY <2>2, OnTheWay
    <3> QED BY <1>6, <2>2, <3>1
  <2> QED BY <2>1, <2>2
<1> QED BY <1>1, <1>3, <1>7, <1>8, <1>9 DEF Flow

(* What the client does with a packet takes it where the packet leads. *)
LEMMA ReadsFlow ==
  ASSUME TypeOK, Flow, Control,
         \/ ReadsError \/ ReadResultOK \/ ReadPrepareResultPacket \/ ReadDefinitions
         \/ ReadHeader \/ ReadColumns \/ ReadRow
  PROVE  Flow'
<1>1. pc \in Reading /\ ReadPacket /\ kind' = kind
  BY DEF ReadsError, ReadResultOK, ReadPrepareResultPacket, ReadDefinitions,
         ReadHeader, ReadColumns, ReadRow, Reads, ReadPacket, Reading, callVars
<1>2. PICK u \in States : Step(kind, pc, Pkt, u) /\ (Place' = u => Flow')
  BY <1>1, ReadingFlow
<1>3. Pkt = Bye => Pkt.is = "ERR"
  BY DEF Bye
<1>4. CASE ReadsError
  <2>1. CASE Pkt.is = "ERR"
    <3>1. u = "end"
      BY <1>1, <1>2, <2>1 DEF Step, On
    <3>2. Place' = "end"
      BY <1>4 DEF ReadsError, Finish, Place, Reading
    <3> QED BY <1>2, <3>1, <3>2
  <2>2. CASE Pkt.is # "ERR"
    <3>1. conn' = "closed" /\ link' = link /\ out' = out /\ link = "down"
      BY <1>1, <1>3, <1>4, <2>2, ReadingFlow DEF ReadsError, ReadPacket
    <3> QED BY <3>1 DEF Flow
  <2> QED BY <2>1, <2>2
<1>5. CASE ReadResultOK
  <2>1. u = "end"
    BY <1>2, <1>3, <1>5 DEF ReadResultOK, Reads, Step, On
  <2>2. Place' = "end"
    BY <1>5 DEF ReadResultOK, Finish, Place, Reading
  <2> QED BY <1>2, <2>1, <2>2
<1>6. CASE ReadPrepareResultPacket
  <2>1. u = "paramDefs"
    BY <1>2, <1>3, <1>6 DEF ReadPrepareResultPacket, Reads, Step, On
  <2>2. Place' = "paramDefs"
    BY <1>6 DEF ReadPrepareResultPacket, Place, Reading
  <2> QED BY <1>2, <2>1, <2>2
<1>7. CASE ReadDefinitions
  <2>1. CASE Reads({"def"}) /\ pc' = pc
    <3>1. u = pc
      BY <1>2, <1>3, <1>7, <2>1 DEF ReadDefinitions, Reads, Step, On
    <3>2. Place' = pc
      BY <1>1, <2>1 DEF Place
    <3> QED BY <1>2, <3>1, <3>2
  <2>2. CASE /\ Reads({"EOF"})
             /\ pc' = IF pc = "paramDefs" /\ kind = "query" THEN "colDefs" ELSE "execute"
    <3>1. u = IF pc = "paramDefs" /\ kind = "query" THEN "colDefs" ELSE "end"
      BY <1>2, <1>3, <1>7, <2>2 DEF ReadDefinitions, Reads, Step, On
    <3>2. Place' = IF pc = "paramDefs" /\ kind = "query" THEN "colDefs" ELSE "end"
      BY <2>2 DEF Place, Reading
    <3> QED BY <1>2, <3>1, <3>2
  <2> QED BY <1>7, <2>1, <2>2 DEF ReadDefinitions
<1>8. CASE ReadHeader
  <2>1. CASE Reads({"OK"}) /\ more' = Pkt.more /\ AfterResults
    <3>1. u = IF Pkt.more THEN "nextHeader" ELSE "end"
      BY <1>2, <1>3, <1>8, <2>1 DEF ReadHeader, Reads, Step, On
    <3>2. Place' = IF Pkt.more THEN "nextHeader" ELSE "end"
      BY <2>1 DEF AfterResults, Finish, Place, Reading
    <3> QED BY <1>2, <3>1, <3>2
  <2>2. CASE Reads({"header"}) /\ pc' = "columns"
    <3>1. u = "columns"
      BY <1>2, <1>3, <1>8, <2>2 DEF ReadHeader, Reads, Step, On
    <3>2. Place' = "columns"
      BY <2>2 DEF Place, Reading
    <3> QED BY <1>2, <3>1, <3>2
  <2> QED BY <1>8, <2>1, <2>2 DEF ReadHeader
<1>9. CASE ReadColumns
  <2>1. CASE Reads({"def"}) /\ pc' = pc
    <3>1. u = "columns"
      BY <1>2, <1>3, <1>9, <2>1 DEF ReadColumns, Reads, Step, On
    <3>2. Place' = "columns"
      BY <1>9, <2>1 DEF ReadColumns, Place, Reading
    <3> QED BY <1>2, <3>1, <3>2
  <2>2. CASE Reads({"EOF"}) /\ pc' = "rows"
    <3>1. u = "rows"
      BY <1>2, <1>3, <1>9, <2>2 DEF ReadColumns, Reads, Step, On
    <3>2. Place' = "rows"
      BY <2>2 DEF Place, Reading
    <3> QED BY <1>2, <3>1, <3>2
  <2> QED BY <1>9, <2>1, <2>2 DEF ReadColumns
<1>10. CASE ReadRow
  <2>1. CASE Reads({"row"}) /\ pc' = pc
    <3>1. u = "rows"
      BY <1>2, <1>3, <1>10, <2>1 DEF ReadRow, Reads, Step, On
    <3>2. Place' = "rows"
      BY <1>10, <2>1 DEF ReadRow, Place, Reading
    <3> QED BY <1>2, <3>1, <3>2
  <2>2. CASE /\ Reads({"EOF"}) /\ more' = Pkt.more
             /\ IF more' /\ ~discard THEN pc' = "hold" ELSE AfterResults
    <3>1. u = IF Pkt.more THEN "nextHeader" ELSE "end"
      BY <1>2, <1>3, <1>10, <2>2 DEF ReadRow, Reads, Step, On
    <3>2. Place' = IF Pkt.more THEN "nextHeader" ELSE "end"
      BY <2>2 DEF AfterResults, Finish, Place, Reading
    <3> QED BY <1>2, <3>1, <3>2
  <2> QED BY <1>10, <2>1, <2>2 DEF ReadRow
<1> QED BY <1>4, <1>5, <1>6, <1>7, <1>8, <1>9, <1>10

-----------------------------------------------------------------------------
(* Every step keeps the invariant. *)

LEMMA FlowStep ==
  ASSUME TypeOK, Flow, Control, Next
  PROVE  Flow'
<1> USE DEF callVars, connVars, netVars
<1>1. ASSUME NEW k \in Kinds, Issue(k) PROVE Flow'
  <2>1. /\ UNCHANGED <<conn, buf, wire, out, link, inbox>>
        /\ pc \notin Reading \cup {"hold"} /\ Place' = "end" /\ conn # "closed"
    BY <1>1 DEF Issue, Control, Place, Reading
  <2>2. CASE conn = "open"
    BY <2>1, <2>2, Between DEF States
  <2>3. CASE conn = "none"
    BY <2>1, <2>3 DEF Flow
  <2> QED BY <2>1, <2>2, <2>3 DEF TypeOK
<1>2. ASSUME Retry PROVE Flow'
  BY <1>2, Emptied DEF Retry
<1>3. CASE Reuse
  BY <1>3, Steady, AtEnd DEF Reuse, Place, Reading
<1>4. CASE Dial \/ ConnectFails
  BY <1>4, Steady DEF Dial, ConnectFails, Control, Flow
<1>5. CASE Connected
  <2>1. /\ Incoming' = <<>> /\ inbox' = <<>> /\ out' = <<>> /\ Place' = "end"
        /\ conn' = "open" /\ link' = "up"
    <3>1. /\ conn = "none" /\ UNCHANGED <<buf, wire, out, inbox>> /\ pc' = "send"
          /\ conn' = "open" /\ link' = "up"
      BY <1>5 DEF Connected, Control
    <3>2. buf' = <<>> /\ wire' = <<>> /\ out' = <<>> /\ inbox' = <<>>
      BY <3>1 DEF Flow
    <3> QED BY <3>1, <3>2 DEF Incoming, Arrived, Place, Reading
  <2>2. Leads(kind', "end", <<>>, "end") /\ Len(<<>>) = 0
    BY LeadsNowhere DEF States
  <2>3. Open_'
    BY <2>1, <2>2 DEF Open_, Numbered, Commanded, States
  <2> QED BY <2>1, <2>2, <2>3 DEF Flow
<1>6. CASE Release
  <2>1. CASE conn = "open" /\ buf = <<>>
    <3>1. UNCHANGED <<kind, stmt, sequence, buf, wire, out, link, inbox, conn>>
      BY <1>6, <2>1 DEF Release
    <3>2. Place' = Place /\ inbox = <<>>
      BY <1>6, <2>1, AtEnd DEF Release, Place, Reading
    <3> QED BY <3>1, <3>2, Steady
  <2>2. CASE ~(conn = "open" /\ buf = <<>>)
    BY <1>6, <2>2, Emptied DEF Release
  <2> QED BY <2>1, <2>2
<1>7. CASE Send
  BY <1>7, SendFlow
<1>8. CASE SendsPart \/ BufferBusy
  <2>1. CASE ~Retry
    <3>1. /\ UNCHANGED <<kind, stmt, sequence, buf, wire, out, link, inbox>>
          /\ conn' = conn \/ (conn' = "closed" /\ link = "down")
          /\ conn = "open" /\ pc \notin Reading \cup {"hold"} /\ pc' = "closeStmt"
      BY <1>8, <2>1 DEF SendsPart, BufferBusy, Finish, Control, Sending, Reading
    <3>2. Place' = Place /\ inbox = <<>>
      BY <3>1, AtEnd DEF Place, Reading
    <3> QED BY <3>1, <3>2, Steady
  <2> QED BY <1>2, <2>1
<1>9. CASE CloseStmt
  <2>1. /\ UNCHANGED <<kind, stmt, sequence, buf, wire, out, link, inbox>>
        /\ conn' = conn \/ (conn' = "closed" /\ link = "down")
        /\ pc \notin Reading \cup {"hold"} /\ Place' = Place
    BY <1>9 DEF CloseStmt, Reading, Place
  <2>2. conn = "open" => inbox = <<>>
    BY <2>1, AtEnd
  <2> QED BY <2>1, <2>2, Steady
<1>10. CASE ReadFails
  <2>1. link = "down" /\ conn' = "closed" /\ link' = link /\ out' = out
    BY <1>10 DEF ReadFails
  <2> QED BY <2>1 DEF Flow
<1>11. CASE \/ ReadsError \/ ReadResultOK \/ ReadPrepareResultPacket \/ ReadDefinitions
            \/ ReadHeader \/ ReadColumns \/ ReadRow
  BY <1>11, ReadsFlow
<1>12. CASE CloseRows
  <2>1. /\ UNCHANGED <<kind, stmt, sequence, buf, wire, out, link, inbox, conn>>
        /\ conn = "open" /\ Place' = Place /\ pc \in {"rows", "hold"}
    BY <1>12 DEF CloseRows, Control, Reading, Place
  <2>2. inbox = <<>>
    BY <2>1 DEF Flow, Open_, Commanded
  <2> QED BY <2>1, <2>2, Steady
<1>13. CASE Serve
  BY <1>13, ServeFlow
<1>14. CASE Deliver
  BY <1>14, DeliverFlow
<1>15. CASE Break
  BY <1>15, BreakFlow
<1>16. CASE KillIdle
  BY <1>16, KillIdleFlow
<1>17. ASSUME NEW s \in Stmts, ExecuteLate(s) PROVE Flow'
  BY <1>17, Steady DEF ExecuteLate, Place
<1> QED
  BY <1>1, <1>2, <1>3, <1>4, <1>5, <1>6, <1>7, <1>8, <1>9, <1>10, <1>11, <1>12, <1>13,
     <1>14, <1>15, <1>16, <1>17
  DEF Next, Client, Opens, Exchange, Server, FoundStale, ConnectBad, SendsNothing

LEMMA TypeStep ==
  ASSUME TypeOK, Flow, Control, Next
  PROVE  TypeOK'
<1> USE DEF callVars, connVars, netVars
<1> DEFINE Sequences_ == /\ buf \in Seq(Packet) /\ wire \in Seq(Packet) /\ out \in Seq(Packet)
                         /\ inbox \in Seq(Command)
           Program == /\ pc \in {"idle", "checkout", "connect", "hold", "closeStmt", "release"}
                                \cup Sending \cup Reading
                      /\ stmt \in Stmts \cup {0} /\ kind \in Kinds /\ tries \in 0 .. 2
                      /\ result \in {"ok", "error"}
                      /\ call \in [Stmts -> {"none", "open", "ok", "error"}]
                      /\ more \in BOOLEAN /\ discard \in BOOLEAN /\ prepared \in BOOLEAN
           Network == /\ conn \in {"none", "open", "closed"} /\ sequence \in Nat
                      /\ link \in {"up", "down"} /\ late \subseteq Stmts /\ breaks \in Nat
                      /\ effects \in [Stmts -> Nat]
                      /\ origin \in [Stmts -> SUBSET (Stmts \cup {0})]
<1>1. Sequences_ /\ Program /\ Network
  BY DEF TypeOK
<1>2. <<>> \in Seq(Packet) /\ <<>> \in Seq(Command)
  BY EmptySeq
<1>3. Unserved \subseteq Stmts
  <2>1. \A j \in DOMAIN inbox : inbox[j] \in Command
    BY <1>1, LenProperties, ElementOfSeq
  <2> QED BY <2>1 DEF Unserved, Command
<1>4. Drop => Sequences_' /\ late' \subseteq Stmts
  BY <1>1, <1>2, <1>3 DEF Drop
<1>5. ASSUME ReadPacket PROVE Sequences_' /\ Pkt \in Packet
  <2>1. Pkt = Incoming[1] /\ Incoming # <<>> /\ buf' \in Seq(Packet) /\ wire' \in Seq(Packet)
    BY <1>5, ReadTakes
  <2> QED BY <1>1, <1>5, <2>1, OnTheWay DEF ReadPacket
<1>6. ASSUME Serve PROVE Sequences_' /\ Network' /\ Program'
  <2>1. PICK a \in Answers(inbox[1]) :
           effects' = IF inbox[1].cmd = "prepare" \/ a = ERR THEN effects
                      ELSE [effects EXCEPT ![inbox[1].of] = @ + 1]
    BY <1>6, Served
  <2>2. inbox[1].of \in Stmts /\ inbox' = Tail(inbox) /\ out' \in Seq(Packet) /\ inbox # <<>>
    BY <1>6, Served DEF Command
  <2>3. Tail(inbox) \in Seq(Command)
    BY <1>1, <2>2, HeadTailProperties
  <2>4. effects' \in [Stmts -> Nat]
    BY <1>1, <2>1, <2>2
  <2> QED BY <1>1, <1>6, <2>2, <2>3, <2>4, SMTT(20) DEF Serve
<1>7. Sequences_'
  <2>1. ASSUME Send PROVE Sequences_'
    <3>1. [cmd |-> NextCommand, of |-> stmt] \in Command
      <4>1. stmt \in Stmts
        BY <2>1 DEF Send, Control, Sending
      <4> QED BY <4>1 DEF NextCommand, Command
    <3>2. inbox' \in Seq(Command)
      <4>1. Append(inbox, [cmd |-> NextCommand, of |-> stmt]) \in Seq(Command)
        BY <1>1, <3>1, AppendProperties
      <4> QED BY <1>1, <2>1, <4>1 DEF Send
    <3> QED BY <1>1, <2>1, <3>2 DEF Send
  <2>2. ASSUME Break PROVE Sequences_'
    BY <1>1, <1>2, <2>2 DEF Break
  <2>3. ASSUME KillIdle PROVE Sequences_'
    BY <1>1, <2>3, KillIdleFlow DEF KillIdle
  <2>4. ASSUME Deliver PROVE Sequences_'
    BY <1>1, <2>4, DeliverFlow DEF Deliver
  <2>5. ASSUME ~Drop, ~ReadPacket, ~Serve, ~Send, ~Break, ~KillIdle, ~Deliver
        PROVE  UNCHANGED <<buf, wire, out, inbox>>
    BY <2>5 DEF Next, Issue, Client, Opens, Exchange, Server, FoundStale, ConnectBad, SendsNothing,
                Retry, Reuse, Dial, Connected, ConnectFails, Release, SendsPart, BufferBusy,
                Finish, CloseStmt, ReadsError, ReadFails, ReadResultOK, ReadPrepareResultPacket,
                ReadDefinitions, ReadHeader, ReadColumns, ReadRow, CloseRows, Reads, ExecuteLate
  <2>6. UNCHANGED <<buf, wire, out, inbox>> => Sequences_'
    BY <1>1
  <2> QED BY <1>4, <1>5, <1>6, <2>1, <2>2, <2>3, <2>4, <2>5, <2>6
<1>8. Program'
  <2>1. ASSUME NEW k \in Kinds, Issue(k) PROVE Program'
    <3>1. stmt' \in Stmts /\ kind' \in Kinds /\ tries' = 0
      BY <1>1, <2>1, ConstantsAssumption DEF Issue, Stmts
    <3> QED BY <1>1, <2>1, <3>1 DEF Issue
  <2>2. ASSUME Retry PROVE Program'
    <3>1. tries' \in 0 .. 2
      BY <1>1, <2>2 DEF Retry
    <3>2. /\ pc' \in {"checkout", "release"} /\ result' \in {"ok", "error"}
          /\ UNCHANGED <<stmt, kind, call, more, discard>> /\ prepared' = FALSE
      BY <1>1, <2>2 DEF Retry
    <3> QED BY <1>1, <3>1, <3>2
  <2>3. ASSUME Opens PROVE Program'
    BY <1>1, <2>2, <2>3 DEF Opens, Dial, Connected, ConnectFails, ConnectBad, Sending
  <2>4. ASSUME Release PROVE Program'
    BY <1>1, <2>4 DEF Release
  <2>5. ASSUME Send \/ SendsPart \/ BufferBusy \/ CloseStmt \/ ReadFails \/ CloseRows \/ Reuse
        PROVE  Program'
    BY <1>1, <2>2, <2>5 DEF Send, SendsPart, BufferBusy, CloseStmt, ReadFails, CloseRows, Reuse,
                            Finish, Answer, Sending, Reading
  <2>6. ASSUME \/ ReadsError \/ ReadResultOK \/ ReadPrepareResultPacket \/ ReadDefinitions
               \/ ReadHeader \/ ReadColumns \/ ReadRow
        PROVE  Program'
    <3>1. ReadPacket
      BY <2>6 DEF ReadsError, ReadResultOK, ReadPrepareResultPacket, ReadDefinitions,
                  ReadHeader, ReadColumns, ReadRow, Reads
    <3>2. Pkt.more \in BOOLEAN /\ UNCHANGED <<stmt, kind, tries, call>>
      BY <1>5, <3>1 DEF Packet, ReadPacket
    <3> QED BY <1>1, <2>6, <3>2
            DEF ReadsError, ReadResultOK, ReadPrepareResultPacket, ReadDefinitions,
                ReadHeader, ReadColumns, ReadRow, AfterResults, Finish, Sending, Reading
  <2>7. ASSUME Deliver \/ Break \/ KillIdle \/ (\E s \in Stmts : ExecuteLate(s)) PROVE Program'
    BY <1>1, <2>7 DEF Deliver, Break, KillIdle, ExecuteLate
  <2> QED BY <1>6, <2>1, <2>2, <2>3, <2>4, <2>5, <2>6, <2>7
          DEF Next, Client, Exchange, Server, FoundStale, SendsNothing
<1>9. Network'
  <2>1. ASSUME NEW k \in Kinds, Issue(k) PROVE Network'
    BY <1>1, <2>1 DEF Issue
  <2>2. ASSUME Retry PROVE Network'
    BY <1>1, <1>4, <2>2 DEF Retry, Drop
  <2>3. ASSUME Opens PROVE Network'
    BY <1>1, <2>2, <2>3 DEF Opens, Dial, Connected, ConnectFails, ConnectBad
  <2>4. ASSUME Release PROVE Network'
    BY <1>1, <1>4, <2>4 DEF Release, Drop
  <2>5. ASSUME Send \/ SendsPart \/ BufferBusy \/ CloseStmt \/ ReadFails \/ CloseRows \/ Reuse
        PROVE  Network'
    BY <1>1, <2>2, <2>5 DEF Send, SendsPart, BufferBusy, CloseStmt, ReadFails, CloseRows, Reuse
  <2>6. ASSUME \/ ReadsError \/ ReadResultOK \/ ReadPrepareResultPacket \/ ReadDefinitions
               \/ ReadHeader \/ ReadColumns \/ ReadRow
        PROVE  Network'
    <3>1. ReadPacket
      BY <2>6 DEF ReadsError, ReadResultOK, ReadPrepareResultPacket, ReadDefinitions,
                  ReadHeader, ReadColumns, ReadRow, Reads
    <3>2. Pkt.seq \in Nat /\ Pkt.of \in Stmts \cup {0}
      BY <1>5, <3>1 DEF Packet
    <3>3. (Pkt.seq + 1) % 256 \in Nat
      BY <3>2
    <3> QED BY <1>1, <3>1, <3>2, <3>3 DEF ReadPacket
  <2>7. ASSUME Deliver \/ KillIdle PROVE Network'
    BY <1>1, <2>7, SMTT(20) DEF Deliver, KillIdle, Breaks
  <2>8. ASSUME Break PROVE Network'
    BY <1>1, <1>3, <2>8 DEF Break, Breaks
  <2>9. ASSUME NEW s \in Stmts, ExecuteLate(s) PROVE Network'
    BY <1>1, <2>9 DEF ExecuteLate
  <2> QED BY <1>6, <2>1, <2>2, <2>3, <2>4, <2>5, <2>6, <2>7, <2>8, <2>9
          DEF Next, Client, Exchange, Server, FoundStale, SendsNothing
<1> QED BY <1>7, <1>8, <1>9 DEF TypeOK

LEMMA ControlStep ==
  ASSUME TypeOK, Flow, Control, Next
  PROVE  Control'
<1> USE DEF callVars, connVars, netVars
<1>1. ASSUME NEW k \in Kinds, Issue(k) PROVE Control'
  <2>1. stmt' \in Stmts /\ pc' = "checkout" /\ conn' = conn /\ conn # "closed"
    BY <1>1, ConstantsAssumption DEF Issue, TypeOK, Control, Stmts
  <2> QED BY <2>1 DEF Control, Sending, Reading
<1>2. ASSUME Retry, pc # "idle" PROVE Control'
  BY <1>2 DEF Retry, Drop, Control, Sending, Reading
<1>3. ASSUME Opens PROVE Control'
  BY <1>2, <1>3 DEF Opens, Dial, Connected, ConnectFails, ConnectBad, Control, Sending, Reading
<1>4. ASSUME Release PROVE Control'
  BY <1>4 DEF Release, Drop, Control, Sending, Reading
<1>5. ASSUME Send PROVE Control'
  BY <1>5 DEF Send, Answer, Control, Sending, Reading
<1>6. ASSUME SendsPart \/ BufferBusy \/ CloseStmt \/ ReadFails PROVE Control'
  BY <1>2, <1>6 DEF SendsPart, BufferBusy, CloseStmt, ReadFails, Finish, Control, Sending, Reading
<1>7. ASSUME CloseRows \/ Reuse PROVE Control'
  BY <1>7 DEF CloseRows, Reuse, Control, Sending, Reading
<1>8. ASSUME FoundStale \/ SendsNothing PROVE Control'
  BY <1>2, <1>8 DEF FoundStale, SendsNothing, Sending
<1>9. ASSUME ReadsError PROVE Control'
  BY <1>9 DEF ReadsError, ReadPacket, Finish, Control, Sending, Reading
<1>10. ASSUME \/ ReadResultOK \/ ReadPrepareResultPacket \/ ReadDefinitions
              \/ ReadHeader \/ ReadColumns \/ ReadRow
       PROVE  Control'
  <2>1. conn' = "open" /\ stmt' = stmt /\ pc # "idle"
    BY <1>10 DEF ReadResultOK, ReadPrepareResultPacket, ReadDefinitions, ReadHeader, ReadColumns,
                 ReadRow, Reads, ReadPacket, Control, Sending, Reading
  <2>2. pc' \notin {"connect", "idle"}
    BY <1>10 DEF ReadResultOK, ReadPrepareResultPacket, ReadDefinitions, ReadHeader, ReadColumns,
                 ReadRow, AfterResults, Finish
  <2> QED BY <2>1, <2>2 DEF Control
<1>11. ASSUME Server \/ Break \/ KillIdle \/ (\E s \in Stmts : ExecuteLate(s)) PROVE Control'
  BY <1>11 DEF Server, Serve, Deliver, Break, KillIdle, ExecuteLate, Control
<1> QED BY <1>1, <1>3, <1>4, <1>5, <1>6, <1>7, <1>8, <1>9, <1>10, <1>11
        DEF Next, Client, Exchange

LEMMA OwnStep ==
  ASSUME TypeOK, Flow, Control, OwnAnswers, Next
  PROVE  OwnAnswers'
<1> USE DEF callVars, connVars, netVars
<1>1. ASSUME ReadPacket, pc \in Reading PROVE OwnAnswers'
  <2>1. Pkt.of \in {0, stmt}
    BY <1>1, ReadingFlow DEF Bye
  <2>2. origin' = [origin EXCEPT ![stmt] = @ \cup {Pkt.of}]
    BY <1>1 DEF ReadPacket
  <2> QED BY <2>1, <2>2 DEF OwnAnswers, TypeOK
<1>2. ASSUME ~(ReadPacket /\ pc \in Reading) PROVE origin' = origin
  BY <1>2 DEF Next, Issue, Client, Opens, Exchange, Server, FoundStale, ConnectBad, SendsNothing,
              Retry, Reuse, Dial, Connected, ConnectFails, Release, Send, SendsPart, BufferBusy,
              Finish, CloseStmt, ReadsError, ReadFails, ReadResultOK, ReadPrepareResultPacket,
              ReadDefinitions, ReadHeader, ReadColumns, ReadRow, CloseRows, Reads, ExecuteLate,
              Serve, Deliver, Break, KillIdle, Reading
<1> QED BY <1>1, <1>2 DEF OwnAnswers

(* What the pool does with connections is a behaviour of Session. *)
LEMMA DbSteps ==
  ASSUME [DbNext]_dbVars
  PROVE  [Next]_sessionVars
BY DEF DbNext, dbVars, DbSettings, DbOpen, DbIssue, DbClient, DbServer, DbBreak, DbDial, DbConnect,
       Next, Client, Opens, sessionVars

LEMMA Unchanged ==
  ASSUME SessInv, UNCHANGED sessionVars
  PROVE  SessInv'
<1> USE DEF sessionVars, callVars, connVars, netVars
<1>1. Flow'
  BY Steady DEF SessInv, Place
<1>2. TypeOK' /\ Control' /\ OwnAnswers'
  BY DEF SessInv, TypeOK, Control, OwnAnswers
<1> QED BY <1>1, <1>2 DEF SessInv

LEMMA SessInit == Init => SessInv
<1> SUFFICES ASSUME Init PROVE SessInv
  OBVIOUS
<1>1. <<>> \in Seq(Packet) /\ <<>> \in Seq(Command)
  BY EmptySeq
<1>2. TypeOK
  <2>1. /\ call \in [Stmts -> {"none", "open", "ok", "error"}] /\ effects \in [Stmts -> Nat]
        /\ origin \in [Stmts -> SUBSET (Stmts \cup {0})] /\ late \subseteq Stmts
    BY DEF Init
  <2>2. tries \in 0 .. 2 /\ sequence \in Nat /\ breaks \in Nat /\ stmt \in Stmts \cup {0}
    BY DEF Init
  <2>3. buf \in Seq(Packet) /\ wire \in Seq(Packet) /\ out \in Seq(Packet) /\ inbox \in Seq(Command)
    BY <1>1 DEF Init
  <2>4. /\ pc = "idle" /\ kind \in Kinds /\ result = "ok" /\ conn = "none" /\ link = "down"
        /\ more \in BOOLEAN /\ discard \in BOOLEAN /\ prepared \in BOOLEAN
    BY DEF Init, Kinds
  <2> QED BY <2>1, <2>2, <2>3, <2>4 DEF TypeOK
<1>3. Flow
  <2>1. Len(out) = 0
    BY DEF Init
  <2> QED BY <2>1 DEF Init, Flow
<1>4. Control /\ OwnAnswers
  BY DEF Init, Control, OwnAnswers, Sending, Reading
<1> QED BY <1>2, <1>3, <1>4 DEF SessInv

(* The inductive invariant of the statements, over the connections that the
   dialogue with the server opens. *)
THEOREM SessionInvariant == DbFairSpec => []SessInv
<1>1. DbInit => SessInv
  BY SessInit DEF DbInit
<1>2. SessInv /\ [DbNext]_dbVars => SessInv'
  <2> SUFFICES ASSUME SessInv, [DbNext]_dbVars PROVE SessInv'
    OBVIOUS
  <2>1. CASE Next
    BY <2>1, FlowStep, TypeStep, ControlStep, OwnStep DEF SessInv
  <2>2. CASE UNCHANGED sessionVars
    BY <2>2, Unchanged
  <2> QED BY <2>1, <2>2, DbSteps
<1> QED BY <1>1, <1>2, PTL DEF DbFairSpec

(* The state of mysqlConn and of sql.DB. *)
THEOREM SessionTypeCorrect == DbFairSpec => []TypeOK
<1>1. SessInv => TypeOK
  BY DEF SessInv
<1> QED BY <1>1, SessionInvariant, PTL

(* mysqlConn.readPacket: what is read for a statement is its own answer, or
   the goodbye of the server; whatever was left unread, and however often the
   connection broke. *)
THEOREM OwnAnswersHold == DbFairSpec => []OwnAnswers
<1>1. SessInv => OwnAnswers
  BY DEF SessInv
<1> QED BY <1>1, SessionInvariant, PTL

(* mysqlConn.readPacket and putConn: the packets arrive in the order that is
   counted, and a connection is given back, or used, with nothing left. *)
THEOREM InStepHolds == DbFairSpec => []InStep
<1>1. SessInv => InStep
  BY StepsAreInStep DEF SessInv
<1> QED BY <1>1, SessionInvariant, PTL

-----------------------------------------------------------------------------
(* No statement is executed twice, and one that succeeded was executed. *)

Unsent == {"checkout", "connect", "prepared", "paramDefs", "colDefs"} \cup Sending
Answered == {"columns", "nextHeader", "rows", "hold"}

Calls ==
    \A s \in Stmts :
        /\ s > stmt => call[s] = "none" /\ effects[s] = 0
        /\ s < stmt => call[s] \in {"ok", "error"}
        /\ s = stmt => IF pc = "idle" THEN call[s] \in {"ok", "error"} ELSE call[s] = "open"
        /\ effects[s] \in {0, 1}
        /\ s \in late => effects[s] = 0 /\ s <= stmt /\ call[s] # "ok"

(* What has become of the statement in progress. *)
Executed ==
    /\ pc \in Unsent => effects[stmt] = 0 /\ stmt \notin late
    /\ inbox # <<>> => /\ link = "up"
                       /\ pc # "prepared" => effects[stmt] = 0 /\ stmt \notin late
    /\ pc \in {"pong", "header"} /\ Incoming # <<>> /\ Incoming[1].is # "ERR" =>
          effects[stmt] = 1
    /\ pc \in Answered => effects[stmt] = 1
    /\ pc \in {"closeStmt", "release"} /\ result = "ok" => effects[stmt] = 1

EffectInv == Calls /\ Executed

(* Nothing is waiting for the server unless a statement waits for it. *)
LEMMA NothingWaits ==
  ASSUME SessInv, Executed,
         \/ conn # "open" \/ link = "down" \/ Incoming # <<>> \/ pc \notin Reading
  PROVE  inbox = <<>> /\ Unserved = {}
<1>1. inbox = <<>>
  <2>1. CASE conn # "open" \/ link = "down"
    BY <2>1 DEF SessInv, TypeOK, Flow, Executed
  <2>2. CASE conn = "open" /\ (Incoming # <<>> \/ pc \notin Reading)
    BY <2>2 DEF SessInv, Flow, Open_, Commanded, Reading
  <2> QED BY <2>1, <2>2
<1>2. DOMAIN inbox = {}
  BY <1>1
<1> QED BY <1>1, <1>2 DEF Unserved

(* The client goes on with the statement, or ends it. *)
LEMMA GoesOn ==
  ASSUME SessInv, EffectInv, UNCHANGED <<stmt, call, effects, late>>, inbox' = <<>>,
         pc # "idle", pc' \notin {"idle", "pong", "header"},
         pc' \in Unsent => pc \in Unsent,
         pc' \in Answered \/ (pc' \in {"closeStmt", "release"} /\ result' = "ok") =>
            effects[stmt] = 1
  PROVE  EffectInv'
<1>1. Calls'
  BY DEF EffectInv, Calls
<1>2. Executed'
  BY DEF EffectInv, Executed
<1> QED BY <1>1, <1>2 DEF EffectInv

Steps_ == EffectInv' /\ (Promise!Next \/ UNCHANGED <<call, effects>>)

LEMMA IssueEffect ==
  ASSUME SessInv, EffectInv, NEW k \in Kinds, Issue(k)
  PROVE  Steps_
<1>1. /\ pc = "idle" /\ stmt < MaxStmts /\ stmt' = stmt + 1 /\ pc' = "checkout"
      /\ call' = [call EXCEPT ![stmt'] = "open"]
      /\ UNCHANGED <<effects, late, inbox, result>>
  BY DEF Issue, netVars
<1>2. stmt \in Nat /\ stmt' \in Stmts /\ inbox = <<>>
  BY <1>1, ConstantsAssumption, NothingWaits DEF SessInv, TypeOK, Stmts, EffectInv, Reading
<1>3. call \in [Stmts -> {"none", "open", "ok", "error"}] /\ late \subseteq Stmts
  BY DEF SessInv, TypeOK
<1>4. \A s \in Stmts : s \in Nat
  BY DEF Stmts
<1>5. stmt' > stmt /\ call[stmt'] = "none" /\ effects[stmt'] = 0 /\ stmt' \notin late
  BY <1>1, <1>2, <1>4 DEF EffectInv, Calls
<1>6. \A s \in Stmts : call[s] # "open"
  BY <1>1, <1>2, <1>4 DEF EffectInv, Calls
<1>7. Promise!Hand(stmt')
  BY <1>1, <1>5, <1>6 DEF Promise!Hand
<1>8. Calls'
  <2> SUFFICES ASSUME NEW s \in Stmts
               PROVE  /\ s > stmt' => call'[s] = "none" /\ effects[s] = 0
                      /\ s < stmt' => call'[s] \in {"ok", "error"}
                      /\ s = stmt' => call'[s] = "open"
                      /\ effects[s] \in {0, 1}
                      /\ s \in late => effects[s] = 0 /\ s <= stmt' /\ call'[s] # "ok"
    BY <1>1 DEF Calls
  <2>1. call'[s] = IF s = stmt' THEN "open" ELSE call[s]
    BY <1>1, <1>3
  <2>2. /\ s > stmt' => s > stmt
        /\ s < stmt' => s < stmt \/ s = stmt
        /\ s <= stmt => s <= stmt'
        /\ s > stmt' \/ s < stmt' => s # stmt'
    BY <1>1, <1>2, <1>4
  <2> QED BY <1>1, <1>5, <2>1, <2>2 DEF EffectInv, Calls
<1>9. Executed'
  BY <1>1, <1>2, <1>5 DEF Executed, Answered
<1> QED BY <1>2, <1>7, <1>8, <1>9 DEF Steps_, EffectInv, Promise!Next

LEMMA RetryEffect ==
  ASSUME SessInv, EffectInv, Retry, pc \in {"checkout", "connect"} \cup Sending
  PROVE  Steps_
<1>1. inbox' = <<>> /\ late' = late /\ UNCHANGED <<stmt, call, effects>>
  <2>1. pc \notin Reading
    BY DEF Sending, Reading
  <2> QED BY <2>1, NothingWaits DEF EffectInv, Retry, Drop
<1>2. pc \in Unsent /\ pc # "idle"
  BY DEF Unsent, Sending
<1>3. pc' = "checkout" \/ (pc' = "release" /\ result' = "error")
  BY DEF Retry
<1>4. EffectInv'
  BY <1>1, <1>2, <1>3, GoesOn DEF Answered
<1> QED BY <1>1, <1>4 DEF Steps_

LEMMA ReleaseEffect ==
  ASSUME SessInv, EffectInv, Release
  PROVE  Steps_
<1>1. /\ pc = "release" /\ call' = [call EXCEPT ![stmt] = result] /\ pc' = "idle"
      /\ UNCHANGED <<stmt, effects>> /\ inbox' = <<>> /\ late' = late
  <2>1. pc = "release" /\ pc \notin Reading
    BY DEF Release, Reading
  <2> QED BY <2>1, NothingWaits DEF EffectInv, Release, Drop
<1>2. /\ stmt \in Stmts /\ result \in {"ok", "error"} /\ late \subseteq Stmts
      /\ call \in [Stmts -> {"none", "open", "ok", "error"}]
  BY <1>1 DEF SessInv, TypeOK, Control
<1>3. call[stmt] = "open" /\ (result = "ok" => effects[stmt] = 1)
  BY <1>1, <1>2 DEF EffectInv, Calls, Executed
<1>4. Promise!Next
  <2>1. CASE result = "ok"
    <3>1. Promise!Succeed(stmt)
      BY <1>1, <1>3, <2>1 DEF Promise!Succeed
    <3> QED BY <1>2, <3>1 DEF Promise!Next
  <2>2. CASE result = "error"
    <3>1. Promise!Fail(stmt)
      BY <1>1, <1>3, <2>2 DEF Promise!Fail
    <3> QED BY <1>2, <3>1 DEF Promise!Next
  <2> QED BY <1>2, <2>1, <2>2
<1>5. Calls'
  <2> SUFFICES ASSUME NEW s \in Stmts
               PROVE  /\ s > stmt => call'[s] = "none" /\ effects[s] = 0
                      /\ s < stmt => call'[s] \in {"ok", "error"}
                      /\ s = stmt => call'[s] \in {"ok", "error"}
                      /\ effects[s] \in {0, 1}
                      /\ s \in late => effects[s] = 0 /\ s <= stmt /\ call'[s] # "ok"
    BY <1>1 DEF Calls
  <2>1. call'[s] = IF s = stmt THEN result ELSE call[s]
    BY <1>1, <1>2
  <2>2. s > stmt \/ s < stmt => s # stmt
    BY <1>2 DEF Stmts
  <2> QED BY <1>1, <1>2, <1>3, <2>1, <2>2 DEF EffectInv, Calls
<1>6. Executed'
  BY <1>1 DEF Executed, Unsent, Sending, Answered
<1> QED BY <1>4, <1>5, <1>6 DEF Steps_, EffectInv

LEMMA SendEffect ==
  ASSUME SessInv, EffectInv, Send
  PROVE  Steps_
<1>1. /\ UNCHANGED <<stmt, call, effects, late, buf, wire, out, link, conn>>
      /\ pc' \in {"pong", "prepared", "header"} /\ pc \in Sending /\ pc # "idle"
      /\ link # "up" => inbox' = inbox
  BY DEF Send, callVars, Answer, Sending
<1>2. conn = "open" /\ pc \notin Reading \cup {"hold"}
  BY <1>1 DEF SessInv, Control, Sending, Reading
<1>3. Incoming' = Incoming /\ inbox = <<>> /\ (Incoming # <<>> => Incoming[1] = Bye)
  BY <1>1, <1>2, AtEnd DEF SessInv, Incoming, Arrived
<1>4. effects[stmt] = 0 /\ stmt \notin late
  BY <1>1 DEF EffectInv, Executed, Unsent
<1>5. Calls'
  BY <1>1 DEF EffectInv, Calls
<1>6. Executed'
  BY <1>1, <1>3, <1>4 DEF Executed, Answered, Bye
<1> QED BY <1>1, <1>5, <1>6 DEF Steps_, EffectInv

LEMMA ServeEffect ==
  ASSUME SessInv, EffectInv, Serve
  PROVE  Steps_
<1>1. PICK a \in Answers(inbox[1]) :
         /\ effects' = IF inbox[1].cmd = "prepare" \/ a = ERR THEN effects
                       ELSE [effects EXCEPT ![inbox[1].of] = @ + 1]
         /\ Len(a) \in Nat /\ Len(out') = Len(a)
         /\ \A i \in 1 .. Len(a) : out'[i].is = a[i].is
  BY Served DEF SessInv
<1>2. /\ inbox # <<>> /\ inbox' = <<>> /\ Incoming' = out' /\ inbox[1].of = stmt
      /\ pc' = pc /\ UNCHANGED <<stmt, call, late, result>>
      /\ pc \in {"pong", "prepared", "header"} /\ (inbox[1].cmd = "prepare" <=> pc = "prepared")
  BY Served, ServeFlow DEF SessInv, Commanded, Serve, callVars
<1>3. stmt \in Stmts /\ effects \in [Stmts -> Nat] /\ call[stmt] = "open"
  BY <1>2 DEF SessInv, TypeOK, Control, EffectInv, Calls
<1>4. CASE pc = "prepared"
  <2>1. effects' = effects
    BY <1>1, <1>2, <1>4
  <2>2. Calls' /\ Executed'
    BY <1>2, <1>4, <2>1 DEF EffectInv, Calls, Executed
  <2> QED BY <2>1, <2>2, <1>2 DEF Steps_, EffectInv
<1>5. CASE pc # "prepared" /\ a = ERR
  <2>1. effects' = effects
    BY <1>1, <1>5
  <2>2. Incoming'[1].is = "ERR"
    <3>1. Len(a) = 1 /\ a[1].is = "ERR"
      BY <1>5 DEF ERR
    <3> QED BY <1>1, <1>2, <3>1
  <2>3. Calls' /\ Executed'
    BY <1>2, <1>5, <2>1, <2>2 DEF EffectInv, Calls, Executed, Unsent, Sending, Answered
  <2> QED BY <2>1, <2>3, <1>2 DEF Steps_, EffectInv
<1>6. CASE pc # "prepared" /\ a # ERR
  <2>1. effects[stmt] = 0 /\ stmt \notin late
    BY <1>2, <1>6 DEF EffectInv, Executed
  <2>2. effects' = [effects EXCEPT ![stmt] = 1]
    BY <1>1, <1>2, <1>3, <1>6, <2>1
  <2>3. Promise!TakeEffect(stmt)
    BY <1>2, <1>3, <2>1, <2>2 DEF Promise!TakeEffect
  <2>4. effects'[stmt] = 1 /\ \A s \in Stmts \ {stmt} : effects'[s] = effects[s]
    BY <1>3, <2>2
  <2>5. Calls'
    <3> SUFFICES ASSUME NEW s \in Stmts
                 PROVE  /\ s > stmt => call[s] = "none" /\ effects'[s] = 0
                        /\ s < stmt => call[s] \in {"ok", "error"}
                        /\ s = stmt => call[s] = "open"
                        /\ effects'[s] \in {0, 1}
                        /\ s \in late => effects'[s] = 0 /\ s <= stmt /\ call[s] # "ok"
      BY <1>2 DEF Calls
    <3>1. s > stmt => s # stmt
      BY <1>3 DEF Stmts
    <3> QED BY <1>3, <2>1, <2>4, <3>1 DEF EffectInv, Calls
  <2>6. Executed'
    BY <1>2, <1>6, <2>4 DEF Executed, Unsent, Sending, Answered
  <2> QED BY <1>3, <2>3, <2>5, <2>6 DEF Steps_, EffectInv, Promise!Next
<1> QED BY <1>4, <1>5, <1>6

LEMMA NetworkEffect ==
  ASSUME SessInv, EffectInv, Deliver \/ Break \/ KillIdle
  PROVE  Steps_
<1>1. UNCHANGED <<pc, stmt, call, effects, result>>
  BY DEF Deliver, Break, KillIdle, callVars
<1>2. Incoming' # <<>> => \/ Incoming # <<>> /\ Incoming'[1] = Incoming[1]
                          \/ Incoming'[1].is = "ERR"
  BY DeliverFlow, BreakFlow, KillIdleFlow DEF SessInv, Bye
<1>3. CASE late' = late
  <2>1. inbox' = <<>> \/ (inbox' = inbox /\ link' = link)
    BY DEF Deliver, Break, KillIdle
  <2>2. Calls' /\ Executed'
    BY <1>1, <1>2, <1>3, <2>1 DEF EffectInv, Calls, Executed
  <2> QED BY <1>1, <2>2 DEF Steps_, EffectInv
<1>4. CASE late' # late
  <2>1. Break /\ late' = late \cup Unserved /\ Unserved # {} /\ link = "up" /\ inbox' = <<>>
    BY <1>4 DEF Deliver, Break, KillIdle, Breaks
  <2>2. conn = "open" /\ inbox # <<>>
    <3>1. inbox = <<>> => DOMAIN inbox = {}
      OBVIOUS
    <3> QED BY <2>1, <3>1 DEF SessInv, Flow, TypeOK, Unserved
  <2>3. /\ Len(inbox) = 1 /\ inbox[1].of = stmt /\ pc \in {"pong", "prepared", "header"}
        /\ pc = "prepared" => inbox[1].cmd = "prepare"
    BY <2>2 DEF SessInv, Flow, Open_, Commanded
  <2>4. DOMAIN inbox = {1}
    <3>1. DOMAIN inbox = 1 .. Len(inbox)
      BY LenProperties DEF SessInv, TypeOK
    <3> QED BY <2>3, <3>1
  <2>5. Unserved = {stmt} /\ pc # "prepared"
    BY <2>1, <2>3, <2>4 DEF Unserved
  <2>6. effects[stmt] = 0 /\ call[stmt] = "open" /\ stmt \in Stmts
    BY <2>2, <2>3, <2>5 DEF EffectInv, Calls, Executed, SessInv, Control
  <2>7. Calls'
    <3> SUFFICES ASSUME NEW s \in Stmts, s \in late'
                 PROVE  effects[s] = 0 /\ s <= stmt /\ call[s] # "ok"
      BY <1>1 DEF EffectInv, Calls
    <3>1. stmt <= stmt
      BY <2>6 DEF Stmts
    <3> QED BY <2>1, <2>5, <2>6, <3>1 DEF EffectInv, Calls
  <2>8. Executed'
    BY <1>1, <1>2, <2>1, <2>3, <2>5 DEF EffectInv, Executed, Unsent, Sending
  <2> QED BY <1>1, <2>7, <2>8 DEF Steps_, EffectInv
<1> QED BY <1>3, <1>4

LEMMA LateEffect ==
  ASSUME SessInv, EffectInv, NEW s \in Stmts, ExecuteLate(s)
  PROVE  Steps_
<1>1. /\ s \in late /\ effects' = [effects EXCEPT ![s] = @ + 1] /\ late' = late \ {s}
      /\ UNCHANGED <<pc, stmt, call, result, buf, wire, out, inbox, link>>
  BY DEF ExecuteLate, callVars, connVars
<1>2. Incoming' = Incoming
  BY <1>1 DEF Incoming, Arrived
<1>3. effects[s] = 0 /\ s <= stmt /\ call[s] # "ok"
  BY <1>1 DEF EffectInv, Calls
<1>4. effects \in [Stmts -> Nat] /\ call[s] \in {"none", "open", "ok", "error"} /\ stmt \in Nat
  BY SMTT(20) DEF SessInv, TypeOK, Stmts
<1>5. effects' = [effects EXCEPT ![s] = 1]
  BY <1>1, <1>3, <1>4
<1>6. effects'[s] = 1 /\ \A t \in Stmts \ {s} : effects'[t] = effects[t]
  BY <1>4, <1>5
<1>7. call[s] \in {"open", "error"}
  <2>1. s < stmt \/ s = stmt
    BY <1>3, <1>4 DEF Stmts
  <2> QED BY <1>3, <2>1 DEF EffectInv, Calls
<1>8. Promise!TakeEffect(s)
  BY <1>1, <1>3, <1>5, <1>7 DEF Promise!TakeEffect
<1>9. Calls'
  <2> SUFFICES ASSUME NEW t \in Stmts
               PROVE  /\ t > stmt => effects'[t] = 0
                      /\ effects'[t] \in {0, 1}
                      /\ t \in late' => effects'[t] = 0 /\ t <= stmt /\ call[t] # "ok"
    BY <1>1 DEF EffectInv, Calls
  <2>1. t > stmt => t # s
    BY <1>3, <1>4 DEF Stmts
  <2> QED BY <1>1, <1>6, <2>1 DEF EffectInv, Calls
<1>10. stmt \in Stmts \/ stmt = 0
  BY DEF SessInv, TypeOK
<1>11. Executed'
  <2>1. s = stmt => effects'[stmt] = 1
    BY <1>6
  <2>2. s # stmt /\ stmt \in Stmts => effects'[stmt] = effects[stmt]
    BY <1>6
  <2>3. pc # "idle" => stmt \in Stmts
    BY DEF SessInv, Control
  <2>4. inbox # <<>> => pc # "idle"
    BY NothingWaits DEF EffectInv, Reading
  <2>5. pc \in Unsent \cup Answered \cup {"pong", "header", "closeStmt", "release"} => pc # "idle"
    BY DEF Unsent, Answered, Sending
  <2> QED BY <1>1, <1>2, <1>3, <2>1, <2>2, <2>3, <2>4, <2>5 DEF EffectInv, Executed
<1> QED BY <1>8, <1>9, <1>11 DEF Steps_, EffectInv, Promise!Next

LEMMA ReadEffect ==
  ASSUME SessInv, EffectInv,
         \/ ReadsError \/ ReadResultOK \/ ReadPrepareResultPacket \/ ReadDefinitions
         \/ ReadHeader \/ ReadColumns \/ ReadRow
  PROVE  Steps_
<1>1. pc \in Reading /\ ReadPacket
  BY DEF ReadsError, ReadResultOK, ReadPrepareResultPacket, ReadDefinitions,
         ReadHeader, ReadColumns, ReadRow, Reads, Reading
<1>2. Incoming # <<>> /\ Pkt = Incoming[1]
  BY <1>1, ReadTakes DEF SessInv
<1>3. inbox = <<>>
  BY <1>2, NothingWaits DEF EffectInv
<1>4. UNCHANGED <<stmt, call, effects, late>> /\ inbox' = <<>> /\ pc # "idle"
  BY <1>1, <1>3 DEF ReadPacket, callVars, Reading
<1>5. pc' \in {"closeStmt"} \cup Reading \cup {"hold"} \cup Sending => pc' # "idle"
  BY DEF Reading, Sending
<1>6. CASE ReadsError
  <2>1. pc' = "closeStmt" /\ result' = "error"
    BY <1>6 DEF ReadsError, Finish
  <2>2. EffectInv'
    BY <1>4, <2>1, GoesOn DEF Unsent, Sending, Answered
  <2> QED BY <1>4, <2>2 DEF Steps_
<1>7. CASE ReadPrepareResultPacket \/ ReadDefinitions
  <2>1. pc \in Unsent /\ pc' \in Unsent
    BY <1>7 DEF ReadPrepareResultPacket, ReadDefinitions, Unsent, Sending
  <2>2. EffectInv'
    BY <1>4, <2>1, GoesOn DEF Unsent, Sending, Answered
  <2> QED BY <1>4, <2>2 DEF Steps_
<1>8. CASE ReadResultOK \/ ReadHeader \/ ReadColumns \/ ReadRow
  <2>1. effects[stmt] = 1
    <3>1. pc \in {"pong", "header"} => Pkt.is # "ERR"
      BY <1>8 DEF ReadResultOK, ReadHeader, ReadColumns, ReadRow, Reads
    <3>2. pc \in {"pong", "header"} \cup Answered
      BY <1>8 DEF ReadResultOK, ReadHeader, ReadColumns, ReadRow, Answered
    <3> QED BY <1>2, <3>1, <3>2 DEF EffectInv, Executed
  <2>2. pc' \in {"closeStmt", "nextHeader", "columns", "rows", "hold"}
    BY <1>8 DEF ReadResultOK, ReadHeader, ReadColumns, ReadRow, AfterResults, Finish
  <2>3. EffectInv'
    BY <1>4, <2>1, <2>2, GoesOn DEF Unsent, Sending
  <2> QED BY <1>4, <2>3 DEF Steps_
<1> QED BY <1>6, <1>7, <1>8

LEMMA OtherEffect ==
  ASSUME SessInv, EffectInv,
         \/ Reuse \/ Dial \/ Connected \/ ConnectFails \/ (SendsPart /\ ~Retry)
         \/ (BufferBusy /\ ~Retry) \/ CloseStmt \/ ReadFails \/ CloseRows
  PROVE  Steps_
<1> USE DEF callVars, connVars, netVars
<1>1. UNCHANGED <<stmt, call, effects, late, inbox>> /\ pc # "idle"
  BY DEF Reuse, Dial, Connected, ConnectFails, SendsPart, BufferBusy, CloseStmt, ReadFails,
         CloseRows, Finish, Sending, Reading
<1>2. inbox = <<>>
  <2>1. CASE ReadFails
    BY <2>1, NothingWaits DEF EffectInv, ReadFails
  <2>2. CASE CloseRows
    BY <2>2 DEF CloseRows, SessInv, Control, Flow, Open_, Commanded, Reading
  <2>3. CASE ~ReadFails /\ ~CloseRows
    <3>1. pc \notin Reading
      BY <2>3 DEF Reuse, Dial, Connected, ConnectFails, SendsPart, BufferBusy, CloseStmt, Reading,
                  Sending
    <3> QED BY <3>1, NothingWaits DEF EffectInv
  <2> QED BY <2>1, <2>2, <2>3
<1>3. CASE Reuse \/ Dial \/ Connected
  <2>1. pc \in Unsent /\ pc' \in {"connect", "send"}
    BY <1>3 DEF Reuse, Dial, Connected, Unsent
  <2> QED BY <1>1, <1>2, <2>1, GoesOn DEF Steps_, Unsent, Sending, Answered
<1>4. CASE ConnectFails \/ (SendsPart /\ ~Retry) \/ (BufferBusy /\ ~Retry) \/ ReadFails
  <2>1. pc' \in {"closeStmt", "release"} /\ result' = "error"
    BY <1>4 DEF ConnectFails, SendsPart, BufferBusy, ReadFails, Finish
  <2> QED BY <1>1, <1>2, <2>1, GoesOn DEF Steps_, Unsent, Sending, Answered
<1>5. CASE CloseStmt
  <2>1. pc = "closeStmt" /\ pc' = "release" /\ result' = result
    BY <1>5 DEF CloseStmt
  <2>2. result = "ok" => effects[stmt] = 1
    BY <2>1 DEF EffectInv, Executed
  <2> QED BY <1>1, <1>2, <2>1, <2>2, GoesOn DEF Steps_, Unsent, Sending, Answered
<1>6. CASE CloseRows
  <2>1. pc \in Answered /\ pc' \in {"rows", "nextHeader"}
    BY <1>6 DEF CloseRows, Answered
  <2>2. effects[stmt] = 1
    BY <2>1 DEF EffectInv, Executed
  <2> QED BY <1>1, <1>2, <2>1, <2>2, GoesOn DEF Steps_, Unsent, Sending
<1> QED BY <1>3, <1>4, <1>5, <1>6

(* What the program relies on: no retry, no late answer and no broken
   connection executes a statement twice, and one that succeeded was executed. *)
THEOREM Implements == DbFairSpec => ImplementsDbSpec
<1>1. DbInit => EffectInv /\ Promise!Init
  <2> SUFFICES ASSUME Init PROVE EffectInv /\ Promise!Init
    BY DEF DbInit
  <2>1. Calls
    BY DEF Init, Calls, Stmts
  <2>2. Executed
    BY DEF Init, Executed, Unsent, Sending, Answered
  <2> QED BY <2>1, <2>2 DEF EffectInv, Init, Promise!Init
<1>2. SessInv /\ EffectInv /\ [DbNext]_dbVars => Steps_
  <2> SUFFICES ASSUME SessInv, EffectInv, [DbNext]_dbVars PROVE Steps_
    OBVIOUS
  <2>1. ASSUME NEW k \in Kinds, Issue(k) PROVE Steps_
    BY <2>1, IssueEffect
  <2>2. CASE Retry /\ pc \in {"checkout", "connect"} \cup Sending
    BY <2>2, RetryEffect
  <2>3. CASE Release
    BY <2>3, ReleaseEffect
  <2>4. CASE Send
    BY <2>4, SendEffect
  <2>5. CASE Serve
    BY <2>5, ServeEffect
  <2>6. CASE Deliver \/ Break \/ KillIdle
    BY <2>6, NetworkEffect
  <2>7. ASSUME NEW s \in Stmts, ExecuteLate(s) PROVE Steps_
    BY <2>7, LateEffect
  <2>8. CASE \/ ReadsError \/ ReadResultOK \/ ReadPrepareResultPacket \/ ReadDefinitions
             \/ ReadHeader \/ ReadColumns \/ ReadRow
    BY <2>8, ReadEffect
  <2>9. CASE \/ Reuse \/ Dial \/ Connected \/ ConnectFails \/ (SendsPart /\ ~Retry)
             \/ (BufferBusy /\ ~Retry) \/ CloseStmt \/ ReadFails \/ CloseRows
    BY <2>9, OtherEffect
  <2>10. CASE UNCHANGED sessionVars
    <3> USE <2>10 DEF sessionVars, callVars, connVars, netVars
    <3>1. Incoming' = Incoming
      BY DEF Incoming, Arrived
    <3>2. Calls' /\ Executed'
      BY <3>1 DEF EffectInv, Calls, Executed
    <3> QED BY <3>2 DEF Steps_, EffectInv
  <2>11. CASE Next
    <3>1. \/ FoundStale \/ ConnectBad \/ SendsNothing \/ SendsPart \/ BufferBusy =>
             pc \in {"checkout", "connect"} \cup Sending
      BY DEF FoundStale, ConnectBad, SendsNothing, SendsPart, BufferBusy
    <3> QED BY <2>1, <2>2, <2>3, <2>4, <2>5, <2>6, <2>7, <2>8, <2>9, <2>11, <3>1
            DEF Next, Client, Opens, Exchange, Server, FoundStale, ConnectBad, SendsNothing
  <2> QED BY <2>10, <2>11, DbSteps
<1>3. Steps_ => EffectInv' /\ [Promise!Next]_(Promise!vars)
  BY DEF Steps_, Promise!vars
<1> QED BY <1>1, <1>2, <1>3, SessionInvariant, PTL
        DEF DbFairSpec, ImplementsDbSpec, Promise!Spec

=============================================================================
