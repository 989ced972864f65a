-------------------------- MODULE UserMatchProofs --------------------------
(***************************************************************************)
(* Theorems about the lookup of users, for any number of processes and any *)
(* lists and tables: first the types, then who a usrNo belongs to when     *)
(* numbers stay distinct and every id has one owner, how many rows an id   *)
(* can get, and what runs that follow one another leave of a settled list. *)
(***************************************************************************)
EXTENDS UserMatch, SequenceTheorems, FiniteSetTheorems, TLAPS

(* Where a process is in its list. *)
PlaceInv ==
    \A p \in Procs : pc[p] \in Active =>
        at[p] \in DOMAIN people[p] /\ at[p] = Len(usrNos[p]) + 1

(* Every person resolved so far is one of the list; at the end, all are. *)
LengthInv ==
    \A p \in Procs : /\ Len(usrNos[p]) <= Len(people[p])
                     /\ pc[p] = "done" => Len(usrNos[p]) = Len(people[p])

TypeInv == TypeOK /\ PlaceInv /\ LengthInv

LEMMA InHandIsPerson ==
  ASSUME TypeInv, NEW p \in Procs, pc[p] \in Active
  PROVE  InHand(p) \in Person
BY DEF TypeInv, TypeOK, PlaceInv, InHand

LEMMA NumbersAreNat ==
  ASSUME TypeOK
  PROVE  /\ \A k \in DOMAIN table : table[k] \in Row /\ table[k].usrNo \in Nat
         /\ Numbers(table) \subseteq Nat
<1>1. \A k \in DOMAIN table : table[k] \in Row
  BY DEF TypeOK
<1>2. \A row \in Row : row.usrNo \in Nat
  BY DEF Row
<1> QED BY <1>1, <1>2 DEF Numbers

(* The rows the writes leave. *)
LEMMA WritesAreRows ==
  ASSUME TypeInv, NEW p \in Procs
  PROVE  /\ pc[p] = "update" => Updated(p) \in Seq(Row)
         /\ pc[p] = "insert" => Append(table, NewRow(p)) \in Seq(Row)
<1> USE ConstantsAssumption DEF Active
<1>1. \A d \in Depts : Stored(d) \in Depts
  BY DEF Stored
<1>2. ASSUME pc[p] = "update" PROVE Updated(p) \in Seq(Row)
  <2>1. InHand(p) \in Person
    BY <1>2, InHandIsPerson
  <2>2. Trim[InHand(p).sysId] \in Ids /\ Stored(InHand(p).dept) \in Depts
    BY <1>1, <2>1 DEF Person
  <2>3. ASSUME NEW row \in Row
        PROVE  [row EXCEPT !.sso = Trim[InHand(p).sysId],
                           !.dept = Stored(InHand(p).dept)] \in Row
    BY <2>2 DEF Row
  <2>4. Len(table) \in Nat /\ DOMAIN table = 1 .. Len(table)
    BY DEF TypeInv, TypeOK
  <2>5. Updated(p) \in [1 .. Len(table) -> Row]
    BY <2>3, <2>4, NumbersAreNat DEF Updated, TypeInv
  <2> QED BY <2>4, <2>5, SeqDef
<1>3. ASSUME pc[p] = "insert" PROVE Append(table, NewRow(p)) \in Seq(Row)
  <2>1. InHand(p) \in Person
    BY <1>3, InHandIsPerson
  <2>2. NewRow(p) \in Row
    BY <1>1, <2>1 DEF NewRow, Row, Person, TypeInv, TypeOK
  <2> QED BY <2>2 DEF TypeInv, TypeOK
<1> QED BY <1>2, <1>3

(* A number more, and on to the next person or to the end. *)
LEMMA ResolveKeeps ==
  ASSUME TypeInv, NEW p \in Procs, pc[p] \in Active, NEW n \in Nat,
         Resolve(p, n), UNCHANGED people
  PROVE  /\ pc' \in [Procs -> Active \cup Stopped]
         /\ at' \in [Procs -> Nat] /\ usrNos' \in [Procs -> Seq(Nat)]
         /\ PlaceInv' /\ LengthInv'
<1> USE DEF Active, Stopped
<1>1. pc' \in [Procs -> Active \cup Stopped]
  BY DEF Resolve, TypeInv, TypeOK
<1>2. at' \in [Procs -> Nat] /\ usrNos' \in [Procs -> Seq(Nat)]
  BY DEF Resolve, TypeInv, TypeOK
<1>3. usrNos'[p] = Append(usrNos[p], n) /\ Len(usrNos'[p]) = Len(usrNos[p]) + 1
  BY DEF Resolve, TypeInv, TypeOK
<1>4. at[p] \in 1 .. Len(people[p]) /\ at[p] = Len(usrNos[p]) + 1 /\ at'[p] = at[p] + 1
  BY DEF Resolve, TypeInv, TypeOK, PlaceInv
<1>5. \A q \in Procs \ {p} : pc'[q] = pc[q] /\ at'[q] = at[q] /\ usrNos'[q] = usrNos[q]
  BY DEF Resolve, TypeInv, TypeOK
<1>6. ASSUME NEW q \in Procs
      PROVE  /\ Len(usrNos'[q]) <= Len(people'[q])
             /\ pc'[q] = "done" => Len(usrNos'[q]) = Len(people'[q])
  <2>1. Len(people[p]) \in Nat /\ Len(usrNos[p]) \in Nat
    BY DEF TypeInv, TypeOK
  <2>2. /\ Len(usrNos[q]) <= Len(people[q])
        /\ pc[q] = "done" => Len(usrNos[q]) = Len(people[q])
    BY DEF TypeInv, LengthInv
  <2>3. pc'[p] = "done" => ~(at[p] < Len(people[p]))
    BY DEF Resolve, TypeInv, TypeOK
  <2> QED BY <1>3, <1>4, <1>5, <2>1, <2>2, <2>3
<1>7. pc'[p] \in Active => at[p] < Len(people[p])
  BY DEF Resolve, TypeInv, TypeOK
<1>8. ASSUME NEW q \in Procs, pc'[q] \in Active
      PROVE  at'[q] \in DOMAIN people'[q] /\ at'[q] = Len(usrNos'[q]) + 1
  <2>1. DOMAIN people[p] = 1 .. Len(people[p]) /\ Len(people[p]) \in Nat
    BY DEF TypeInv, TypeOK
  <2>2. CASE q = p
    BY <1>3, <1>4, <1>7, <1>8, <2>1, <2>2
  <2>3. CASE q # p
    BY <1>5, <1>8, <2>3 DEF TypeInv, PlaceInv
  <2> QED BY <2>2, <2>3
<1> QED BY <1>1, <1>2, <1>6, <1>8 DEF LengthInv, PlaceInv

(* On to another statement for the same person, or to the end. *)
LEMMA GotoKeeps ==
  ASSUME TypeInv, NEW p \in Procs, pc[p] \in Active,
         NEW label \in Active \cup Stopped, label # "done",
         pc' = [pc EXCEPT ![p] = label], UNCHANGED <<usrNos, at, people>>
  PROVE  /\ pc' \in [Procs -> Active \cup Stopped]
         /\ at' \in [Procs -> Nat] /\ usrNos' \in [Procs -> Seq(Nat)]
         /\ PlaceInv' /\ LengthInv'
BY DEF TypeInv, TypeOK, PlaceInv, LengthInv

LEMMA FoundKeeps ==
  ASSUME TypeInv, NEW p \in Procs, pc[p] \in Active, NEW k \in DOMAIN table,
         Found(p, table[k]), UNCHANGED people
  PROVE  /\ pc' \in [Procs -> Active \cup Stopped]
         /\ at' \in [Procs -> Nat] /\ usrNos' \in [Procs -> Seq(Nat)]
         /\ PlaceInv' /\ LengthInv' /\ found' \in [Procs -> Nat]
<1>1. table[k].usrNo \in Nat
  BY NumbersAreNat DEF TypeInv
<1>2. CASE AlreadyCorrect(p, table[k])
  BY <1>1, <1>2, ResolveKeeps DEF Found, TypeInv, TypeOK
<1>3. CASE ~AlreadyCorrect(p, table[k])
  <2>1. found' \in [Procs -> Nat]
    BY <1>1, <1>3 DEF Found, TypeInv, TypeOK
  <2>2. "update" \in Active \cup Stopped
    BY DEF Active
  <2>3. pc' = [pc EXCEPT ![p] = "update"] /\ UNCHANGED <<usrNos, at, people>>
    BY <1>3 DEF Found
  <2> QED BY <2>1, <2>2, <2>3, GotoKeeps
<1> QED BY <1>2, <1>3

LEMMA SettledKeeps ==
  ASSUME TypeInv, NEW p \in Procs, Settle(p) \/ Unsettle(p)
  PROVE  settled' \in Seq(Person)
<1>1. people[p] \in Seq(Person) /\ settled \in Seq(Person) /\ <<>> \in Seq(Person)
  BY DEF TypeInv, TypeOK
<1> QED BY <1>1 DEF Settle, Unsettle

LEMMA FaultKeeps == ASSUME TypeOK, Fault PROVE faults' \in Nat
BY DEF TypeOK, Fault

-----------------------------------------------------------------------------
LEMMA InitType == Init => TypeInv
BY ConstantsAssumption DEF Init, TypeInv, TypeOK, PlaceInv, LengthInv, Active, Stopped

(* A statement of the users part, or a process that takes the place of another,
   wherever that one was. *)
AnyStep ==
    \/ \E p \in Procs, list \in Lists : Begins(p, list)
    \/ \E p \in Procs : Step(p) \/ Halts(p) \/ AnswerLost(p)

LEMMA NextIsAStep == ASSUME Next PROVE AnyStep
BY DEF Next, AnyStep, Start

LEMMA StepType == ASSUME TypeInv, AnyStep PROVE TypeInv'
<1> USE ConstantsAssumption
<1>1. ASSUME NEW p \in Procs, NEW list \in Lists, Begins(p, list) PROVE TypeInv'
  <2> USE <1>1 DEF Begins
  <2>1. list \in Seq(Person)
    OBVIOUS
  <2>2. Numbers(table) \subseteq Nat
    BY NumbersAreNat DEF TypeInv
  <2>3. TypeOK'
    BY <2>1, <2>2 DEF TypeInv, TypeOK, Active, Stopped
  <2>4. PlaceInv'
    BY <2>1 DEF TypeInv, TypeOK, PlaceInv, Active, Stopped
  <2>5. LengthInv'
    BY <2>1 DEF TypeInv, TypeOK, LengthInv
  <2> QED BY <2>3, <2>4, <2>5 DEF TypeInv
<1>2. ASSUME NEW p \in Procs, BySSO(p) PROVE TypeInv'
  <2>1. pc[p] \in Active /\ {"name", "failed"} \subseteq Active \cup Stopped
    BY <1>2 DEF BySSO, Active, Stopped
  <2>2. settled' \in Seq(Person) /\ UNCHANGED <<table, people, nextNo, known, had, faults>>
    BY <1>2, SettledKeeps DEF BySSO, history
  <2>3. CASE Goto(p, "name") \/ Goto(p, "failed")
    BY <2>1, <2>2, <2>3, GotoKeeps DEF Goto, TypeInv, TypeOK
  <2>4. CASE \E k \in DOMAIN table : Found(p, table[k])
    BY <2>1, <2>2, <2>4, FoundKeeps DEF TypeInv, TypeOK
  <2> QED BY <1>2, <2>3, <2>4 DEF BySSO, RowsOf
<1>3. ASSUME NEW p \in Procs, ByName(p) PROVE TypeInv'
  <2>1. pc[p] \in Active /\ "max" \in Active \cup Stopped
    BY <1>3 DEF ByName, Active, Stopped
  <2>2. settled' \in Seq(Person) /\ UNCHANGED <<table, people, nextNo, known, had>>
    BY <1>3, SettledKeeps DEF ByName, history
  <2>3. faults' \in Nat
    BY <1>3, FaultKeeps DEF ByName, TypeInv, TypeOK
  <2>4. CASE Goto(p, "max")
    BY <2>1, <2>2, <2>3, <2>4, GotoKeeps DEF Goto, TypeInv, TypeOK
  <2>5. CASE \E k \in DOMAIN table : Found(p, table[k])
    BY <2>1, <2>2, <2>3, <2>5, FoundKeeps DEF TypeInv, TypeOK
  <2> QED BY <1>3, <2>4, <2>5 DEF ByName, Named, Preferred, Namesakes
<1>4. ASSUME NEW p \in Procs, Update(p) PROVE TypeInv'
  <2>1. pc[p] \in Active /\ table' \in Seq(Row)
    BY <1>4, WritesAreRows DEF Update, Active
  <2>2. settled' \in Seq(Person) /\ UNCHANGED <<people, found, nextNo, known, had, faults>>
    BY <1>4, SettledKeeps DEF Update, history
  <2>3. Resolve(p, found[p]) /\ found[p] \in Nat
    BY <1>4 DEF Update, TypeInv, TypeOK
  <2> QED BY <2>1, <2>2, <2>3, ResolveKeeps DEF TypeInv, TypeOK
<1>5. ASSUME NEW p \in Procs, ReadMax(p) PROVE TypeInv'
  <2>1. pc[p] \in Active /\ "insert" \in Active \cup Stopped /\ Goto(p, "insert")
    BY <1>5 DEF ReadMax, Active
  <2>2. nextNo' \in [Procs -> Nat]
    <3>1. Numbers(table) \cup {0} \subseteq Nat
      BY NumbersAreNat DEF TypeInv
    <3>2. PICK n \in Numbers(table) \cup {0} : nextNo' = [nextNo EXCEPT ![p] = n + 1]
      BY <1>5 DEF ReadMax
    <3>3. n + 1 \in Nat /\ nextNo \in [Procs -> Nat]
      BY <3>1 DEF TypeInv, TypeOK
    <3> QED BY <3>2, <3>3
  <2>3. UNCHANGED <<table, people, known, had, settled, faults>>
    BY <1>5 DEF ReadMax, history
  <2> QED BY <2>1, <2>2, <2>3, GotoKeeps DEF Goto, TypeInv, TypeOK
<1>6. ASSUME NEW p \in Procs, InsertUser(p) PROVE TypeInv'
  <2>1. pc[p] \in Active /\ table' \in Seq(Row)
    BY <1>6, WritesAreRows DEF InsertUser, Active
  <2>2. settled' \in Seq(Person) /\ UNCHANGED <<people, found, nextNo, known, had, faults>>
    BY <1>6, SettledKeeps DEF InsertUser, history
  <2>3. Resolve(p, nextNo[p]) /\ nextNo[p] \in Nat
    BY <1>6 DEF InsertUser, TypeInv, TypeOK
  <2> QED BY <2>1, <2>2, <2>3, ResolveKeeps DEF TypeInv, TypeOK
<1>7. ASSUME NEW p \in Procs, InsertRefused(p) \/ Halts(p) \/ AnswerLost(p)
      PROVE  TypeInv'
  <2>1. /\ pc[p] \in Active /\ "failed" \in Active \cup Stopped
        /\ Goto(p, "failed") /\ UNCHANGED <<people, nextNo, known, had>>
    BY <1>7 DEF InsertRefused, Halts, AnswerLost, Active, Stopped, history
  <2>2. table' \in Seq(Row)
    BY <1>7, WritesAreRows DEF InsertRefused, Halts, AnswerLost, TypeInv, TypeOK
  <2>3. settled' \in Seq(Person)
    <3>1. settled' = settled \/ settled' = <<>>
      BY <1>7 DEF InsertRefused, Halts, AnswerLost
    <3>2. <<>> \in Seq(Person) /\ settled \in Seq(Person)
      BY DEF TypeInv, TypeOK
    <3> QED BY <3>1, <3>2
  <2>4. faults' \in Nat
    BY <1>7, FaultKeeps DEF InsertRefused, Halts, AnswerLost, TypeInv, TypeOK
  <2> QED BY <2>1, <2>2, <2>3, <2>4, GotoKeeps DEF Goto, TypeInv, TypeOK
<1> QED BY <1>1, <1>2, <1>3, <1>4, <1>5, <1>6, <1>7 DEF AnyStep, Step

(* A step beside the users part: none of its statements, but perhaps a failure. *)
Aside ==
    /\ UNCHANGED <<table, pc, people, at, usrNos, found, nextNo, known, had, settled>>
    /\ faults' \in Nat /\ faults <= faults'

LEMMA AsideType == ASSUME TypeInv, Aside PROVE TypeInv'
BY DEF Aside, TypeInv, TypeOK, PlaceInv, LengthInv

LEMMA StutterAside == ASSUME TypeInv, UNCHANGED vars PROVE Aside
BY DEF vars, history, Aside, TypeInv, TypeOK

(* Types, and the place of every process in its list. *)
THEOREM TypeInvHolds == Spec => []TypeInv
<1>1. TypeInv /\ [Next]_vars => TypeInv'
  BY StepType, NextIsAStep, AsideType, StutterAside
<1> QED BY InitType, <1>1, PTL DEF Spec

(* Every variable keeps its type, for every instance. *)
THEOREM TypeCorrect == Spec => []TypeOK
<1>1. TypeInv => TypeOK
  BY DEF TypeInv
<1> QED BY TypeInvHolds, <1>1, PTL
-----------------------------------------------------------------------------
(* Every id belongs to one name, in the lists and in doreuser, and no person of
   a list is without an id; no two rows have a usrNo in common. *)
RowsOwned(Owner, t) ==
    \A k \in DOMAIN t :
        t[k].sso # Null /\ Trim[t[k].sso] # Blank => t[k].name = Owner[Trim[t[k].sso]]

PeopleOwned(Owner, list) ==
    \A j \in DOMAIN list :
        Trim[list[j].sysId] # Blank /\ list[j].name = Owner[Trim[list[j].sysId]]

DistinctNumbers(t) ==
    \A k, l \in DOMAIN t : t[k].usrNo = t[l].usrNo => k = l

(* usrNo is a key, or processes run one after another: then nobody inserts a
   number that is taken. *)
Keyed == UniqueKey \/ \E p : Procs = {p}

Owned(Owner) ==
    /\ Keyed
    /\ \A list \in Lists : PeopleOwned(Owner, list)
    /\ \A t \in Tables : RowsOwned(Owner, t) /\ DistinctNumbers(t)

(* User n has this name. *)
IsUser(t, n, name) == \E k \in DOMAIN t : t[k].usrNo = n /\ t[k].name = name

ResolvedInv ==
    \A p \in Procs : \A j \in DOMAIN usrNos[p] :
        IsUser(table, usrNos[p][j], people[p][j].name)

FoundInv ==
    \A p \in Procs : pc[p] = "update" => IsUser(table, found[p], InHand(p).name)

OwnerInv(Owner) ==
    /\ RowsOwned(Owner, table) /\ DistinctNumbers(table)
    /\ \A p \in Procs : PeopleOwned(Owner, people[p])
    /\ ResolvedInv /\ FoundInv

(* A write keeps the numbers and the names of the rows there are. *)
Kept == /\ DOMAIN table \subseteq DOMAIN table'
        /\ \A k \in DOMAIN table :
              table'[k].usrNo = table[k].usrNo /\ table'[k].name = table[k].name

LEMMA UsersStay ==
  ASSUME Kept, NEW n, NEW name, IsUser(table, n, name)
  PROVE  IsUser(table', n, name)
BY DEF Kept, IsUser

-----------------------------------------------------------------------------
(* The number a process is about to insert is free, unless it will be refused. *)
FreshInv ==
    \A p \in Procs : pc[p] = "insert" /\ ~Taken(p) => nextNo[p] \notin Numbers(table)

KeyInv == DistinctNumbers(table) /\ FreshInv

(* An update touches no number and no name. *)
LEMMA UpdateKeeps ==
  ASSUME TypeInv, NEW p \in Procs, table' = Updated(p)
  PROVE  /\ Kept /\ DOMAIN table' = DOMAIN table
         /\ \A k \in DOMAIN table :
               IF table[k].usrNo = found[p]
               THEN /\ table'[k].sso = Trim[InHand(p).sysId]
                    /\ table'[k].dept = Stored(InHand(p).dept)
               ELSE table'[k] = table[k]
<1>1. \A k \in DOMAIN table : table[k] \in Row
  BY NumbersAreNat DEF TypeInv
<1> QED BY <1>1 DEF Updated, Row, Kept

(* An insert appends one row. *)
LEMMA InsertKeeps ==
  ASSUME TypeInv, NEW p \in Procs, table' = Append(table, NewRow(p))
  PROVE  /\ Kept /\ DOMAIN table = 1 .. Len(table) /\ Len(table) \in Nat
         /\ DOMAIN table' = 1 .. Len(table) + 1
         /\ \A k \in DOMAIN table : table'[k] = table[k]
         /\ table'[Len(table) + 1] = NewRow(p)
BY DEF TypeInv, TypeOK, Kept

LEMMA InitKey ==
  ASSUME \A t \in Tables : DistinctNumbers(t), Init PROVE KeyInv
BY DEF Init, KeyInv, FreshInv

(* A write of the users part, or none. *)
Written(p) ==
    \/ UNCHANGED table
    \/ pc[p] = "update" /\ table' = Updated(p)
    \/ pc[p] = "insert" /\ ~Taken(p) /\ table' = Append(table, NewRow(p))

LEMMA WriteKeepsKey ==
  ASSUME TypeInv, KeyInv, NEW p \in Procs, Written(p)
  PROVE  Kept /\ DistinctNumbers(table')
<1>1. CASE UNCHANGED table
  BY <1>1 DEF Kept, KeyInv
<1>2. CASE pc[p] = "update" /\ table' = Updated(p)
  BY <1>2, UpdateKeeps DEF Kept, KeyInv, DistinctNumbers
<1>3. CASE pc[p] = "insert" /\ ~Taken(p) /\ table' = Append(table, NewRow(p))
  <2>1. nextNo[p] \notin Numbers(table) /\ NewRow(p).usrNo = nextNo[p]
    BY <1>3 DEF KeyInv, FreshInv, NewRow
  <2> QED BY <1>3, <2>1, InsertKeeps DEF KeyInv, DistinctNumbers, Numbers
<1> QED BY <1>1, <1>2, <1>3 DEF Written

(* No process is brought to its insert by this step, and where usrNo is no key
   the one process there is does not insert now. *)
LEMMA FreshStays ==
  ASSUME TypeInv, KeyInv, Keyed, NEW p \in Procs, Written(p),
         UNCHANGED nextNo, pc'[p] # "insert",
         \A q \in Procs \ {p} : pc'[q] = pc[q]
  PROVE  KeyInv'
<1>1. Kept /\ DistinctNumbers(table')
  BY WriteKeepsKey
<1>2. CASE UniqueKey
  BY <1>1, <1>2 DEF KeyInv, FreshInv, Taken
<1>3. CASE \E q : Procs = {q}
  BY <1>1, <1>3 DEF KeyInv, FreshInv
<1> QED BY <1>1, <1>2, <1>3 DEF Keyed

LEMMA StepKey ==
  ASSUME TypeInv, KeyInv, Keyed, AnyStep PROVE KeyInv'
<1>1. ASSUME NEW p \in Procs, NEW list \in Lists, Begins(p, list) PROVE KeyInv'
  <2>1. Written(p) /\ pc'[p] # "insert" /\ \A q \in Procs \ {p} : pc'[q] = pc[q]
    BY <1>1 DEF Begins, Written, TypeInv, TypeOK
  <2> QED BY <1>1, <2>1, FreshStays DEF Begins
<1>2. ASSUME NEW p \in Procs, BySSO(p) \/ ByName(p) \/ Update(p) \/ InsertUser(p)
      PROVE  KeyInv'
  <2>1. Written(p) /\ UNCHANGED nextNo
    BY <1>2 DEF BySSO, ByName, Update, InsertUser, Written
  <2>2. pc'[p] # "insert" /\ \A q \in Procs \ {p} : pc'[q] = pc[q]
    BY <1>2 DEF BySSO, ByName, Update, InsertUser, Named, Found, Goto, Resolve,
                TypeInv, TypeOK
  <2> QED BY <2>1, <2>2, FreshStays
<1>3. ASSUME NEW p \in Procs, ReadMax(p) PROVE KeyInv'
  <2>1. Numbers(table) \cup {0} \subseteq Nat
    BY NumbersAreNat DEF TypeInv
  <2>2. PICK n \in Numbers(table) \cup {0} :
           /\ \A m \in Numbers(table) : m <= n
           /\ nextNo' = [nextNo EXCEPT ![p] = n + 1]
    BY <1>3 DEF ReadMax
  <2>3. nextNo'[p] \notin Numbers(table)
    BY <2>1, <2>2 DEF TypeInv, TypeOK
  <2>4. \A q \in Procs \ {p} : pc'[q] = pc[q] /\ nextNo'[q] = nextNo[q]
    BY <1>3, <2>2 DEF ReadMax, Goto, TypeInv, TypeOK
  <2> QED BY <1>3, <2>3, <2>4 DEF ReadMax, KeyInv, FreshInv, Taken, Numbers
<1>4. ASSUME NEW p \in Procs, InsertRefused(p) \/ Halts(p) \/ AnswerLost(p)
      PROVE  KeyInv'
  <2>1. Written(p) /\ Goto(p, "failed") /\ UNCHANGED nextNo
    BY <1>4 DEF InsertRefused, Halts, AnswerLost, Written
  <2>2. pc'[p] # "insert" /\ \A q \in Procs \ {p} : pc'[q] = pc[q]
    BY <2>1 DEF Goto, TypeInv, TypeOK
  <2> QED BY <2>1, <2>2, FreshStays
<1> QED BY <1>1, <1>2, <1>3, <1>4 DEF AnyStep, Step

LEMMA AsideKey == ASSUME KeyInv, Aside PROVE KeyInv'
BY DEF Aside, KeyInv, FreshInv, Taken

(* usrNo stays a key of doreuser where the table says so, and also where it
   does not and runs follow one another, whatever fails. *)
THEOREM KeyInvHolds ==
  ASSUME Keyed, \A t \in Tables : DistinctNumbers(t) PROVE Spec => []KeyInv
<1>1. Init => KeyInv
  BY InitKey
<1>2. TypeInv /\ KeyInv /\ [Next]_vars => KeyInv'
  BY StepKey, NextIsAStep, AsideKey, StutterAside
<1> QED BY <1>1, <1>2, TypeInvHolds, PTL DEF Spec
-----------------------------------------------------------------------------
(* What the writes of a process leave. *)
LEMMA UpdateOwned ==
  ASSUME TypeInv, NEW Owner, OwnerInv(Owner), NEW p \in Procs,
         pc[p] = "update", table' = Updated(p)
  PROVE  Kept /\ RowsOwned(Owner, table') /\ DistinctNumbers(table')
<1> USE ConstantsAssumption
<1>1. InHand(p) \in Person /\ Trim[InHand(p).sysId] # Blank
      /\ InHand(p).name = Owner[Trim[InHand(p).sysId]]
  <2>1. InHand(p) \in Person
    BY InHandIsPerson DEF Active
  <2>2. at[p] \in DOMAIN people[p]
    BY DEF TypeInv, PlaceInv, Active
  <2> QED BY <2>1, <2>2 DEF OwnerInv, PeopleOwned, InHand
<1>2. DOMAIN table' = DOMAIN table /\ \A k \in DOMAIN table : table[k] \in Row
  BY NumbersAreNat DEF Updated, TypeInv
<1>3. \A k \in DOMAIN table :
         /\ table'[k].usrNo = table[k].usrNo /\ table'[k].name = table[k].name
         /\ table[k].usrNo # found[p] => table'[k].sso = table[k].sso
         /\ table[k].usrNo = found[p] => table'[k].sso = Trim[InHand(p).sysId]
  BY <1>2 DEF Updated, Row
<1>4. PICK f \in DOMAIN table : table[f].usrNo = found[p] /\ table[f].name = InHand(p).name
  BY DEF OwnerInv, FoundInv, IsUser
<1>5. \A k \in DOMAIN table : table[k].usrNo = found[p] => table[k].name = InHand(p).name
  BY <1>4 DEF OwnerInv, DistinctNumbers
<1>6. Trim[Trim[InHand(p).sysId]] = Trim[InHand(p).sysId]
  BY <1>1 DEF Person
<1>7. RowsOwned(Owner, table')
  BY <1>1, <1>2, <1>3, <1>5, <1>6 DEF OwnerInv, RowsOwned
<1>8. DistinctNumbers(table')
  BY <1>2, <1>3 DEF OwnerInv, DistinctNumbers
<1> QED BY <1>2, <1>3, <1>7, <1>8 DEF Kept

LEMMA InsertOwned ==
  ASSUME TypeInv, KeyInv, NEW Owner, OwnerInv(Owner), NEW p \in Procs,
         pc[p] = "insert", ~Taken(p), table' = Append(table, NewRow(p))
  PROVE  /\ Kept /\ RowsOwned(Owner, table') /\ DistinctNumbers(table')
         /\ IsUser(table', nextNo[p], InHand(p).name)
<1> USE ConstantsAssumption
<1>1. InHand(p).name = Owner[Trim[InHand(p).sysId]]
  <2>1. at[p] \in DOMAIN people[p]
    BY DEF TypeInv, PlaceInv, Active
  <2> QED BY <2>1 DEF OwnerInv, PeopleOwned, InHand
<1>2. NewRow(p).usrNo = nextNo[p] /\ NewRow(p).name = InHand(p).name
      /\ NewRow(p).sso = InHand(p).sysId
  BY DEF NewRow
<1>3. PICK n \in Nat : n = Len(table) /\ DOMAIN table = 1 .. n
  BY DEF TypeInv, TypeOK
<1>4. /\ DOMAIN table' = 1 .. n + 1
      /\ table'[n + 1] = NewRow(p) /\ \A k \in 1 .. n : table'[k] = table[k]
  BY <1>3 DEF TypeInv, TypeOK
<1>5. \A k \in 1 .. n : table[k].usrNo # nextNo[p]
  BY <1>3 DEF KeyInv, FreshInv, Numbers
<1>6. Kept
  BY <1>3, <1>4 DEF Kept
<1>7. RowsOwned(Owner, table')
  BY <1>1, <1>2, <1>3, <1>4 DEF OwnerInv, RowsOwned
<1>8. DistinctNumbers(table')
  BY <1>2, <1>3, <1>4, <1>5 DEF OwnerInv, DistinctNumbers
<1>9. IsUser(table', nextNo[p], InHand(p).name)
  BY <1>2, <1>3, <1>4 DEF IsUser
<1> QED BY <1>6, <1>7, <1>8, <1>9

(* The number of a user with the person's name. *)
LEMMA ResolveOwned ==
  ASSUME TypeInv, NEW Owner, OwnerInv(Owner), NEW p \in Procs, pc[p] \in Active,
         NEW n \in Nat, Resolve(p, n), UNCHANGED people, Kept,
         IsUser(table', n, InHand(p).name),
         found' = found
  PROVE  ResolvedInv' /\ FoundInv'
<1>1. usrNos'[p] = Append(usrNos[p], n) /\ usrNos[p] \in Seq(Nat)
  BY DEF Resolve, TypeInv, TypeOK
<1>2. at[p] = Len(usrNos[p]) + 1 /\ Len(usrNos[p]) \in Nat
  BY <1>1 DEF TypeInv, PlaceInv
<1>3. \A q \in Procs \ {p} : pc'[q] = pc[q] /\ at'[q] = at[q] /\ usrNos'[q] = usrNos[q]
  BY DEF Resolve, TypeInv, TypeOK
<1>4. pc'[p] # "update"
  BY DEF Resolve, TypeInv, TypeOK
<1>5. ASSUME NEW q \in Procs, NEW j \in DOMAIN usrNos'[q]
      PROVE  IsUser(table', usrNos'[q][j], people'[q][j].name)
  <2>1. CASE q # p
    BY <1>3, <1>5, <2>1, UsersStay DEF OwnerInv, ResolvedInv
  <2>2. CASE q = p /\ j = at[p]
    <3>1. usrNos'[q][j] = n /\ people'[q][j] = InHand(p)
      BY <1>1, <1>2, <2>2 DEF InHand
    <3> QED BY <3>1
  <2>3. CASE q = p /\ j # at[p]
    <3>1. j \in DOMAIN usrNos[p] /\ usrNos'[p][j] = usrNos[p][j]
      BY <1>1, <1>2, <1>5, <2>3, SMTT(20)
    <3> QED BY <2>3, <3>1, UsersStay DEF OwnerInv, ResolvedInv
  <2> QED BY <2>1, <2>2, <2>3
<1>6. ASSUME NEW q \in Procs, pc'[q] = "update"
      PROVE  IsUser(table', found'[q], people'[q][at'[q]].name)
  <2>1. q # p
    BY <1>4, <1>6
  <2> QED BY <1>3, <1>6, <2>1, UsersStay DEF OwnerInv, FoundInv, InHand
<1> QED BY <1>5, <1>6 DEF ResolvedInv, FoundInv, InHand
(* Another statement, of which nobody is to be updated. *)
LEMMA GotoOwned ==
  ASSUME TypeInv, NEW Owner, OwnerInv(Owner), NEW p \in Procs,
         NEW label, label # "update",
         pc' = [pc EXCEPT ![p] = label], UNCHANGED <<usrNos, at, found, people>>,
         Kept
  PROVE  ResolvedInv' /\ FoundInv'
<1>1. \A q \in Procs : pc'[q] = "update" => pc[q] = "update"
  BY DEF TypeInv, TypeOK
<1> QED BY <1>1, UsersStay DEF OwnerInv, ResolvedInv, FoundInv, InHand

(* A row that was found has the person's name. *)
LEMMA FoundOwned ==
  ASSUME TypeInv, NEW Owner, OwnerInv(Owner), NEW p \in Procs, pc[p] \in Active,
         NEW k \in DOMAIN table, table[k].name = InHand(p).name,
         Found(p, table[k]), UNCHANGED <<table, people>>
  PROVE  ResolvedInv' /\ FoundInv'
<1>1. Kept /\ IsUser(table', table[k].usrNo, InHand(p).name)
  BY DEF Kept, IsUser
<1>2. table[k].usrNo \in Nat
  BY NumbersAreNat DEF TypeInv
<1>3. CASE AlreadyCorrect(p, table[k])
  BY <1>1, <1>2, <1>3, ResolveOwned DEF Found
<1>4. CASE ~AlreadyCorrect(p, table[k])
  <2>1. /\ found' = [found EXCEPT ![p] = table[k].usrNo]
        /\ pc' = [pc EXCEPT ![p] = "update"] /\ UNCHANGED <<usrNos, at>>
    BY <1>4 DEF Found
  <2>2. found'[p] = table[k].usrNo
        /\ \A q \in Procs \ {p} : found'[q] = found[q] /\ pc'[q] = pc[q]
    BY <2>1 DEF TypeInv, TypeOK
  <2>3. ResolvedInv'
    BY <2>1, <1>1, UsersStay DEF OwnerInv, ResolvedInv
  <2>4. FoundInv'
    BY <1>1, <2>1, <2>2, UsersStay DEF OwnerInv, FoundInv, InHand
  <2> QED BY <2>3, <2>4
<1> QED BY <1>3, <1>4

(* The row an id is found in has the name of the id's owner. *)
LEMMA FoundByIdIsOwner ==
  ASSUME TypeInv, NEW Owner, OwnerInv(Owner), NEW p \in Procs, pc[p] \in Active,
         NEW k \in DOMAIN table, SsoMatches(table[k].sso, InHand(p).sysId)
  PROVE  table[k].name = InHand(p).name
<1>1. Trim[InHand(p).sysId] # Blank /\ InHand(p).name = Owner[Trim[InHand(p).sysId]]
  <2>1. at[p] \in DOMAIN people[p]
    BY DEF TypeInv, PlaceInv
  <2> QED BY <2>1 DEF OwnerInv, PeopleOwned, InHand
<1>2. table[k].sso # Null /\ Trim[table[k].sso] = Trim[InHand(p).sysId]
  BY DEF SsoMatches
<1> QED BY <1>1, <1>2 DEF OwnerInv, RowsOwned

-----------------------------------------------------------------------------
LEMMA InitOwned == ASSUME NEW Owner, Owned(Owner), Init PROVE OwnerInv(Owner)
BY DEF Init, Owned, OwnerInv, PeopleOwned, ResolvedInv, FoundInv

LEMMA StepOwned ==
  ASSUME NEW Owner, Owned(Owner), TypeInv, KeyInv, OwnerInv(Owner), AnyStep
  PROVE  OwnerInv(Owner)'
<1>1. (UNCHANGED table) => Kept /\ RowsOwned(Owner, table') /\ DistinctNumbers(table')
  BY DEF Kept, OwnerInv
<1>2. (UNCHANGED people) => \A p \in Procs : PeopleOwned(Owner, people'[p])
  BY DEF OwnerInv
<1>3. ASSUME NEW p \in Procs, NEW list \in Lists, Begins(p, list)
      PROVE  OwnerInv(Owner)'
  <2> USE <1>3 DEF Begins
  <2>1. PeopleOwned(Owner, list)
    BY DEF Owned
  <2>2. \A q \in Procs : PeopleOwned(Owner, people'[q])
    BY <2>1 DEF OwnerInv, TypeInv, TypeOK
  <2>3. usrNos'[p] = <<>> /\ pc'[p] # "update"
    BY DEF TypeInv, TypeOK
  <2>4. \A q \in Procs \ {p} : /\ pc'[q] = pc[q] /\ usrNos'[q] = usrNos[q]
                               /\ at'[q] = at[q] /\ people'[q] = people[q]
    BY DEF TypeInv, TypeOK
  <2>5. ResolvedInv' /\ FoundInv'
    BY <2>3, <2>4 DEF OwnerInv, ResolvedInv, FoundInv, InHand
  <2> QED BY <1>1, <2>2, <2>5 DEF OwnerInv
<1>4. ASSUME NEW p \in Procs, BySSO(p) PROVE OwnerInv(Owner)'
  <2>1. pc[p] \in Active /\ UNCHANGED <<table, people>>
    BY <1>4 DEF BySSO, Active
  <2>2. CASE Goto(p, "name") \/ Goto(p, "failed")
    BY <1>1, <1>2, <2>1, <2>2, GotoOwned DEF Goto, OwnerInv
  <2>3. ASSUME NEW k \in DOMAIN table,
               SsoMatches(table[k].sso, InHand(p).sysId), Found(p, table[k])
        PROVE  OwnerInv(Owner)'
    <3>1. table[k].name = InHand(p).name
      BY <2>1, <2>3, FoundByIdIsOwner
    <3> QED BY <1>1, <1>2, <2>1, <2>3, <3>1, FoundOwned DEF OwnerInv
  <2> QED BY <1>4, <2>2, <2>3 DEF BySSO, RowsOf
<1>5. ASSUME NEW p \in Procs, ByName(p) PROVE OwnerInv(Owner)'
  <2>1. pc[p] \in Active /\ UNCHANGED <<table, people>>
    BY <1>5 DEF ByName, Active
  <2>2. CASE Goto(p, "max")
    BY <1>1, <1>2, <2>1, <2>2, GotoOwned DEF Goto, OwnerInv
  <2>3. ASSUME NEW k \in Namesakes(InHand(p).name), Found(p, table[k])
        PROVE  OwnerInv(Owner)'
    <3>1. k \in DOMAIN table /\ table[k].name = InHand(p).name
      BY <2>3 DEF Namesakes
    <3> QED BY <1>1, <1>2, <2>1, <2>3, <3>1, FoundOwned DEF OwnerInv
  <2> QED BY <1>5, <2>2, <2>3 DEF ByName, Named, Preferred
<1>6. ASSUME NEW p \in Procs, Update(p) PROVE OwnerInv(Owner)'
  <2>1. pc[p] \in Active /\ pc[p] = "update" /\ table' = Updated(p)
    BY <1>6 DEF Update, Active
  <2>2. Kept /\ RowsOwned(Owner, table') /\ DistinctNumbers(table')
    BY <2>1, UpdateOwned
  <2>3. found[p] \in Nat /\ IsUser(table', found[p], InHand(p).name)
    BY <2>1, <2>2, UsersStay DEF OwnerInv, FoundInv, TypeInv, TypeOK
  <2>4. ResolvedInv' /\ FoundInv'
    BY <1>6, <2>1, <2>2, <2>3, ResolveOwned DEF Update
  <2> QED BY <1>2, <1>6, <2>2, <2>4 DEF OwnerInv, Update
<1>7. ASSUME NEW p \in Procs, ReadMax(p) PROVE OwnerInv(Owner)'
  <2>1. Goto(p, "insert") /\ UNCHANGED <<table, people>>
    BY <1>7 DEF ReadMax
  <2> QED BY <1>1, <1>2, <2>1, GotoOwned DEF Goto, OwnerInv
<1>8. ASSUME NEW p \in Procs, InsertUser(p) PROVE OwnerInv(Owner)'
  <2>1. pc[p] \in Active /\ pc[p] = "insert" /\ nextNo[p] \in Nat
    BY <1>8 DEF InsertUser, Active, TypeInv, TypeOK
  <2>2. /\ Kept /\ RowsOwned(Owner, table') /\ DistinctNumbers(table')
        /\ IsUser(table', nextNo[p], InHand(p).name)
    BY <1>8, <2>1, InsertOwned DEF InsertUser
  <2>3. ResolvedInv' /\ FoundInv'
    BY <1>8, <2>1, <2>2, ResolveOwned DEF InsertUser
  <2> QED BY <1>2, <1>8, <2>2, <2>3 DEF OwnerInv, InsertUser
<1>9. ASSUME NEW p \in Procs, InsertRefused(p) \/ Halts(p) \/ AnswerLost(p)
      PROVE  OwnerInv(Owner)'
  <2>1. Goto(p, "failed") /\ UNCHANGED people
    BY <1>9 DEF InsertRefused, Halts, AnswerLost
  <2>2. Kept /\ RowsOwned(Owner, table') /\ DistinctNumbers(table')
    <3>1. \/ UNCHANGED table
          \/ pc[p] = "update" /\ table' = Updated(p)
          \/ pc[p] = "insert" /\ ~Taken(p) /\ table' = Append(table, NewRow(p))
      BY <1>9 DEF InsertRefused, Halts, AnswerLost
    <3> QED BY <1>1, <3>1, UpdateOwned, InsertOwned
  <2> QED BY <1>2, <2>1, <2>2, GotoOwned DEF Goto, OwnerInv
<1> QED BY <1>3, <1>4, <1>5, <1>6, <1>7, <1>8, <1>9 DEF AnyStep, Step

LEMMA AsideOwned ==
  ASSUME NEW Owner, OwnerInv(Owner), Aside PROVE OwnerInv(Owner)'
BY DEF Aside, OwnerInv, ResolvedInv, FoundInv, InHand

(* Where every id has one owner and usrNo is a key, or runs follow one another,
   the numbers that
   fillUserNumbers has given, and the one it is about to write to, are those of
   users of the right name. *)
THEOREM OwnerInvHolds ==
  ASSUME NEW CONSTANT Owner, Owned(Owner) PROVE Spec => []OwnerInv(Owner)
<1>1. Init => OwnerInv(Owner)
  BY InitOwned
<1>2. TypeInv /\ KeyInv /\ OwnerInv(Owner) /\ [Next]_vars => OwnerInv(Owner)'
  BY StepOwned, NextIsAStep, AsideOwned, StutterAside
<1>3. Spec => []KeyInv
  BY KeyInvHolds DEF Owned
<1> QED BY <1>1, <1>2, <1>3, TypeInvHolds, PTL DEF Spec

(* Where every id has one owner and usrNo is a key, or runs follow one another,
   a person is only ever given
   the number of a user of the person's own name, although processes read the
   same maximum and update and insert in any order. *)
THEOREM ResolvedMatchesHolds ==
  ASSUME NEW CONSTANT Owner, Owned(Owner) PROVE Spec => []ResolvedMatches
<1>1. OwnerInv(Owner) => ResolvedMatches
  BY DEF OwnerInv, ResolvedInv, IsUser, ResolvedMatches
<1> QED BY <1>1, OwnerInvHolds, PTL
-----------------------------------------------------------------------------
(* How many rows an id can get, where the collation ignores the padding: the
   users that have it or are about to, and the processes that may yet insert
   one, are at most as many as there are processes. *)
RowsWithId(id) ==
    {k \in DOMAIN table : table[k].sso # Null /\ Trim[table[k].sso] = id}

NosWithId(id)   == {table[k].usrNo : k \in RowsWithId(id)}
InHandId(p)     == Trim[InHand(p).sysId]
UpdatersOf(id)  == {p \in Procs : pc[p] = "update" /\ InHandId(p) = id}
InsertersOf(id) ==
    {p \in Procs : pc[p] \in {"name", "max", "insert"} /\ InHandId(p) = id}
Claims(id)      == NosWithId(id) \cup {found[p] : p \in UpdatersOf(id)}

IdWeight(id) ==
    Cardinality(Claims(id)) + Cardinality(InsertersOf(id)) <= Cardinality(Procs)

IdWeightInv == \A id \in Ids \ {Blank} : IdWeight(id)

OneRowPerId ==
    \A t \in Tables : \A k, l \in DOMAIN t :
        /\ t[k].sso # Null /\ t[l].sso # Null
        /\ Trim[t[k].sso] = Trim[t[l].sso] /\ Trim[t[k].sso] # Blank
        => k = l

(* The image of a finite set is finite and no larger. *)
LEMMA ImageCardinality ==
  ASSUME NEW S, IsFiniteSet(S), NEW f
  PROVE  LET T == {f[x] : x \in S}
         IN  /\ IsFiniteSet(T) /\ Cardinality(T) <= Cardinality(S)
             /\ (\A x, y \in S : f[x] = f[y] => x = y) => Cardinality(T) = Cardinality(S)
<1> DEFINE T == {f[x] : x \in S}
           g == [x \in S |-> f[x]]
<1>1. g \in Surjection(S, T)
  BY DEF Surjection
<1>2. (\A x, y \in S : f[x] = f[y] => x = y) => g \in Injection(S, T)
  BY <1>1 DEF Surjection, Injection, IsInjective
<1> QED BY <1>1, <1>2, FS_Surjection

LEMMA WeightFinite ==
  ASSUME TypeInv, IsFiniteSet(Procs), NEW id
  PROVE  /\ IsFiniteSet(RowsWithId(id)) /\ IsFiniteSet(NosWithId(id))
         /\ IsFiniteSet(Claims(id)) /\ IsFiniteSet(InsertersOf(id))
<1>1. IsFiniteSet(DOMAIN table)
  BY FS_Interval DEF TypeInv, TypeOK
<1>2. IsFiniteSet(RowsWithId(id))
  BY <1>1, FS_Subset DEF RowsWithId
<1>3. IsFiniteSet(NosWithId(id))
  <2> DEFINE f == [k \in RowsWithId(id) |-> table[k].usrNo]
  <2>1. NosWithId(id) = {f[k] : k \in RowsWithId(id)}
    BY DEF NosWithId
  <2> HIDE DEF f
  <2> QED BY <1>2, <2>1, ImageCardinality
<1>4. IsFiniteSet(UpdatersOf(id)) /\ IsFiniteSet(InsertersOf(id))
  BY FS_Subset DEF UpdatersOf, InsertersOf
<1>5. IsFiniteSet({found[p] : p \in UpdatersOf(id)})
  BY <1>4, ImageCardinality
<1> QED BY <1>2, <1>3, <1>4, <1>5, FS_Union DEF Claims

(* Where usrNo is a key, as many rows as numbers. *)
LEMMA RowsAreNumbers ==
  ASSUME TypeInv, IsFiniteSet(Procs), DistinctNumbers(table), NEW id
  PROVE  Cardinality(RowsWithId(id)) = Cardinality(NosWithId(id))
<1> DEFINE f == [k \in RowsWithId(id) |-> table[k].usrNo]
<1>1. NosWithId(id) = {f[k] : k \in RowsWithId(id)}
  BY DEF NosWithId
<1>2. \A k, l \in RowsWithId(id) : f[k] = f[l] => k = l
  BY DEF DistinctNumbers, RowsWithId
<1>3. IsFiniteSet(RowsWithId(id))
  BY WeightFinite
<1> HIDE DEF f
<1> QED BY <1>1, <1>2, <1>3, ImageCardinality

(* Two sets that only lose elements; of which the first gains one and the second
   loses one; of which the second gains one. *)
LEMMA SumStays ==
  ASSUME NEW A, NEW B, IsFiniteSet(A), IsFiniteSet(B),
         NEW C \in SUBSET A, NEW D \in SUBSET B
  PROVE  /\ IsFiniteSet(C) /\ IsFiniteSet(D)
         /\ {Cardinality(A), Cardinality(B), Cardinality(C), Cardinality(D)} \subseteq Nat
         /\ Cardinality(C) + Cardinality(D) <= Cardinality(A) + Cardinality(B)
<1>1. /\ IsFiniteSet(C) /\ Cardinality(C) <= Cardinality(A)
      /\ IsFiniteSet(D) /\ Cardinality(D) <= Cardinality(B)
  BY FS_Subset
<1>2. {Cardinality(A), Cardinality(B), Cardinality(C), Cardinality(D)} \subseteq Nat
  BY <1>1, FS_CardinalityType
<1> QED BY <1>1, <1>2

LEMMA SumMoves ==
  ASSUME NEW A, NEW B, IsFiniteSet(A), IsFiniteSet(B), NEW x, NEW y \in B,
         NEW C \in SUBSET (A \cup {x}), NEW D \in SUBSET (B \ {y})
  PROVE  /\ {Cardinality(A), Cardinality(B), Cardinality(C), Cardinality(D)} \subseteq Nat
         /\ Cardinality(C) + Cardinality(D) <= Cardinality(A) + Cardinality(B)
<1>1. /\ IsFiniteSet(A \cup {x})
      /\ Cardinality(A \cup {x}) = IF x \in A THEN Cardinality(A) ELSE Cardinality(A) + 1
  BY FS_AddElement
<1>2. IsFiniteSet(B \ {y}) /\ Cardinality(B \ {y}) = Cardinality(B) - 1
  BY FS_RemoveElement
<1>3. /\ {Cardinality(C), Cardinality(D)} \subseteq Nat
      /\ Cardinality(C) + Cardinality(D) <= Cardinality(A \cup {x}) + Cardinality(B \ {y})
  BY <1>1, <1>2, SumStays
<1>4. Cardinality(A) \in Nat /\ Cardinality(B) \in Nat
  BY FS_CardinalityType
<1> QED BY <1>1, <1>2, <1>3, <1>4

LEMMA SumGrows ==
  ASSUME NEW A, NEW B, IsFiniteSet(A), IsFiniteSet(B), NEW y,
         NEW C \in SUBSET A, NEW D \in SUBSET (B \cup {y})
  PROVE  /\ {Cardinality(A), Cardinality(B), Cardinality(C), Cardinality(D)} \subseteq Nat
         /\ Cardinality(C) + Cardinality(D) <= Cardinality(A) + Cardinality(B) + 1
<1>1. /\ IsFiniteSet(B \cup {y})
      /\ Cardinality(B \cup {y}) = IF y \in B THEN Cardinality(B) ELSE Cardinality(B) + 1
  BY FS_AddElement
<1>2. /\ {Cardinality(C), Cardinality(D)} \subseteq Nat
      /\ Cardinality(C) + Cardinality(D) <= Cardinality(A) + Cardinality(B \cup {y})
  BY <1>1, SumStays
<1>3. Cardinality(A) \in Nat /\ Cardinality(B) \in Nat
  BY FS_CardinalityType
<1> QED BY <1>1, <1>2, <1>3

(* A step that adds no claim and no inserter, and one by which an inserter turns
   into at most one claim. *)
LEMMA WeightStays ==
  ASSUME TypeInv, IsFiniteSet(Procs), NEW id, IdWeight(id),
         Claims(id)' \subseteq Claims(id), InsertersOf(id)' \subseteq InsertersOf(id)
  PROVE  IdWeight(id)'
<1>1. IsFiniteSet(Claims(id)) /\ IsFiniteSet(InsertersOf(id)) /\ Cardinality(Procs) \in Nat
  BY WeightFinite, FS_CardinalityType
<1>2. /\ {Cardinality(Claims(id)), Cardinality(InsertersOf(id)),
          Cardinality(Claims(id)'), Cardinality(InsertersOf(id)')} \subseteq Nat
      /\ Cardinality(Claims(id)') + Cardinality(InsertersOf(id)')
            <= Cardinality(Claims(id)) + Cardinality(InsertersOf(id))
  BY <1>1, SumStays
<1> QED BY <1>1, <1>2 DEF IdWeight

LEMMA WeightMoves ==
  ASSUME TypeInv, IsFiniteSet(Procs), NEW id, IdWeight(id), NEW p, NEW n,
         p \in InsertersOf(id), Claims(id)' \subseteq Claims(id) \cup {n},
         InsertersOf(id)' \subseteq InsertersOf(id) \ {p}
  PROVE  IdWeight(id)'
<1>1. IsFiniteSet(Claims(id)) /\ IsFiniteSet(InsertersOf(id)) /\ Cardinality(Procs) \in Nat
  BY WeightFinite, FS_CardinalityType
<1>2. /\ {Cardinality(Claims(id)), Cardinality(InsertersOf(id)),
          Cardinality(Claims(id)'), Cardinality(InsertersOf(id)')} \subseteq Nat
      /\ Cardinality(Claims(id)') + Cardinality(InsertersOf(id)')
            <= Cardinality(Claims(id)) + Cardinality(InsertersOf(id))
  BY <1>1, SumMoves
<1> QED BY <1>1, <1>2 DEF IdWeight

(* While no row has the id, every claim is that of a process. *)
LEMMA WeightOfProcesses ==
  ASSUME IsFiniteSet(Procs), NEW id, NosWithId(id)' = {}
  PROVE  IdWeight(id)'
<1> DEFINE U == UpdatersOf(id)'
           I == InsertersOf(id)'
           T == {found'[p] : p \in U}
<1>1. U \subseteq Procs /\ I \subseteq Procs /\ U \cap I = {} /\ Claims(id)' = T
  BY DEF UpdatersOf, InsertersOf, Claims
<1> HIDE DEF U, I
<1>2. IsFiniteSet(U) /\ IsFiniteSet(I)
  BY <1>1, FS_Subset
<1>3. IsFiniteSet(T) /\ Cardinality(T) <= Cardinality(U)
  BY <1>2, ImageCardinality
<1>4. Cardinality(U \cup I) = Cardinality(U) + Cardinality(I)
  <2>1. Cardinality(U \cap I) = 0
    BY <1>1, FS_EmptySet
  <2>2. Cardinality(U \cup I) = Cardinality(U) + Cardinality(I) - Cardinality(U \cap I)
    BY <1>2, FS_Union
  <2>3. Cardinality(U) \in Nat /\ Cardinality(I) \in Nat
    BY <1>2, FS_CardinalityType
  <2> QED BY <2>1, <2>2, <2>3
<1>5. Cardinality(U \cup I) <= Cardinality(Procs)
  BY <1>1, FS_Subset
<1>6. /\ Cardinality(T) \in Nat /\ Cardinality(U) \in Nat
      /\ Cardinality(I) \in Nat /\ Cardinality(Procs) \in Nat
  BY <1>2, <1>3, FS_CardinalityType
<1>7. IdWeight(id)' <=> Cardinality(T) + Cardinality(I) <= Cardinality(Procs)
  BY <1>1 DEF IdWeight, I
<1> HIDE DEF T
<1> QED BY <1>3, <1>4, <1>5, <1>6, <1>7

(* What is true of the processes that do not take the step. *)
OthersStay(p) ==
    \A q \in Procs \ {p} :
        pc'[q] = pc[q] /\ at'[q] = at[q] /\ people'[q] = people[q] /\ found'[q] = found[q]

LEMMA ClaimsOfStep ==
  ASSUME NEW p \in Procs, OthersStay(p), NEW id, NEW D,
         NosWithId(id)' \subseteq NosWithId(id) \cup D,
         pc'[p] = "update" /\ InHandId(p)' = id => found'[p] \in NosWithId(id) \cup D
  PROVE  /\ Claims(id)' \subseteq Claims(id) \cup D
         /\ ~(pc'[p] \in {"name", "max", "insert"} /\ InHandId(p)' = id)
            => InsertersOf(id)' \subseteq InsertersOf(id) \ {p}
         /\ InsertersOf(id)' \subseteq InsertersOf(id) \cup {p}
<1>1. \A q \in Procs \ {p} : pc'[q] = pc[q] /\ InHandId(q)' = InHandId(q) /\ found'[q] = found[q]
  BY DEF OthersStay, InHandId, InHand
<1>2. Claims(id)' \subseteq Claims(id) \cup D
  BY <1>1 DEF Claims, UpdatersOf
<1> QED BY <1>1, <1>2 DEF InsertersOf

LEMMA QuietStep ==
  ASSUME NEW p \in Procs, OthersStay(p), NEW id,
         NosWithId(id)' \subseteq NosWithId(id),
         pc'[p] = "update" /\ InHandId(p)' = id => found'[p] \in NosWithId(id)
  PROVE  /\ Claims(id)' \subseteq Claims(id)
         /\ ~(pc'[p] \in {"name", "max", "insert"} /\ InHandId(p)' = id)
            => InsertersOf(id)' \subseteq InsertersOf(id) \ {p}
         /\ InsertersOf(id)' \subseteq InsertersOf(id) \cup {p}
<1> DEFINE D == {}
<1>1. NosWithId(id)' \subseteq NosWithId(id) \cup D
      /\ (pc'[p] = "update" /\ InHandId(p)' = id => found'[p] \in NosWithId(id) \cup D)
  OBVIOUS
<1>2. Claims(id) \cup D = Claims(id)
  OBVIOUS
<1> HIDE DEF D
<1> QED BY <1>1, <1>2, ClaimsOfStep

LEMMA OthersStayInStep ==
  ASSUME TypeInv, NEW p \in Procs,
         (\E list \in Lists : Begins(p, list)) \/ Step(p) \/ Halts(p) \/ AnswerLost(p)
  PROVE  OthersStay(p)
BY DEF OthersStay, TypeInv, TypeOK, Begins, Step, BySSO, ByName, Update, ReadMax,
       InsertUser, InsertRefused, Halts, AnswerLost, Named, Found, Goto, Resolve

(* Which ids a write gives to whom. *)
LEMMA WriteOfIds ==
  ASSUME TypeInv, NEW p \in Procs, Written(p), NEW id
  PROVE  NosWithId(id)' \subseteq
           NosWithId(id) \cup
             IF InHandId(p) # id THEN {}
             ELSE IF pc[p] = "update" THEN {found[p]}
             ELSE IF pc[p] = "insert" THEN {nextNo[p]} ELSE {}
<1> USE ConstantsAssumption
<1>1. CASE UNCHANGED table
  BY <1>1 DEF NosWithId, RowsWithId
<1>2. CASE pc[p] = "update" /\ table' = Updated(p)
  <2>1. InHand(p) \in Person
    BY <1>2, InHandIsPerson DEF Active
  <2>2. Trim[InHandId(p)] = InHandId(p)
    BY <2>1 DEF Person, InHandId
  <2>3. ASSUME NEW k \in DOMAIN table', table'[k].sso # Null, Trim[table'[k].sso] = id
        PROVE  table'[k].usrNo \in NosWithId(id)
               \/ (InHandId(p) = id /\ table'[k].usrNo = found[p])
    <3>1. k \in DOMAIN table /\ table'[k].usrNo = table[k].usrNo
      BY <1>2, <2>3, UpdateKeeps DEF Kept
    <3>2. CASE table[k].usrNo = found[p]
      <4>1. table'[k].sso = InHandId(p)
        BY <1>2, <3>1, <3>2, UpdateKeeps DEF InHandId
      <4> QED BY <2>2, <2>3, <3>1, <3>2, <4>1
    <3>3. CASE table[k].usrNo # found[p]
      <4>1. table'[k] = table[k]
        BY <1>2, <3>1, <3>3, UpdateKeeps
      <4>2. k \in RowsWithId(id)
        BY <2>3, <3>1, <4>1 DEF RowsWithId
      <4>3. table[k].usrNo \in NosWithId(id)
        BY <4>2 DEF NosWithId
      <4> QED BY <3>1, <4>3
    <3> QED BY <3>2, <3>3
  <2> QED BY <1>2, <2>3 DEF NosWithId, RowsWithId
<1>3. CASE pc[p] = "insert" /\ ~Taken(p) /\ table' = Append(table, NewRow(p))
  <2>1. NewRow(p).usrNo = nextNo[p] /\ NewRow(p).sso = InHand(p).sysId
    BY DEF NewRow
  <2>2. ASSUME NEW k \in DOMAIN table', table'[k].sso # Null, Trim[table'[k].sso] = id
        PROVE  table'[k].usrNo \in NosWithId(id)
               \/ (InHandId(p) = id /\ table'[k].usrNo = nextNo[p])
    <3>1. k \in DOMAIN table \/ k = Len(table) + 1
      BY <1>3, <2>2, InsertKeeps
    <3>2. CASE k \in DOMAIN table
      <4>1. table'[k] = table[k]
        BY <1>3, <3>2, InsertKeeps
      <4>2. k \in RowsWithId(id)
        BY <2>2, <3>2, <4>1 DEF RowsWithId
      <4>3. table[k].usrNo \in NosWithId(id)
        BY <4>2 DEF NosWithId
      <4> QED BY <4>1, <4>3
    <3>3. CASE k = Len(table) + 1
      <4>1. table'[k] = NewRow(p)
        BY <1>3, <3>3, InsertKeeps
      <4> QED BY <2>1, <2>2, <4>1 DEF InHandId
    <3> QED BY <3>1, <3>2, <3>3
  <2> QED BY <1>3, <2>2 DEF NosWithId, RowsWithId
<1> QED BY <1>1, <1>2, <1>3 DEF Written

LEMMA InitIdWeight ==
  ASSUME Init, OneRowPerId, \A t \in Tables : DistinctNumbers(t),
         IsFiniteSet(Procs), Procs # {}
  PROVE  IdWeightInv
<1> SUFFICES ASSUME NEW id \in Ids \ {Blank} PROVE IdWeight(id)
  BY DEF IdWeightInv
<1>1. InsertersOf(id) = {} /\ UpdatersOf(id) = {}
  BY DEF Init, InsertersOf, UpdatersOf
<1>2. NosWithId(id) = {} \/ \E n : NosWithId(id) = {n}
  <2>1. table \in Tables /\ \A k, l \in RowsWithId(id) : k = l
    BY DEF Init, OneRowPerId, RowsWithId
  <2> QED BY <2>1 DEF NosWithId
<1>3. Claims(id) = NosWithId(id)
  BY <1>1 DEF Claims
<1>4. Cardinality(Claims(id)) \in {0, 1}
  BY <1>2, <1>3, FS_EmptySet, FS_Singleton
<1>5. Cardinality(InsertersOf(id)) = 0
  BY <1>1, FS_EmptySet
<1>6. Cardinality(Procs) \in Nat /\ Cardinality(Procs) # 0
  BY FS_CardinalityType, FS_EmptySet
<1> QED BY <1>4, <1>5, <1>6 DEF IdWeight

LEMMA StepIdWeight ==
  ASSUME TypeInv, IsFiniteSet(Procs), PadSpace, IdWeightInv, AnyStep
  PROVE  IdWeightInv'
<1> SUFFICES ASSUME NEW id \in Ids \ {Blank} PROVE IdWeight(id)'
  BY DEF IdWeightInv
<1>0. IdWeight(id)
  BY DEF IdWeightInv
<1>1. ASSUME NEW p \in Procs, NEW list \in Lists, Begins(p, list)
      PROVE  IdWeight(id)'
  <2>1. OthersStay(p)
    BY <1>1, OthersStayInStep
  <2>2. pc'[p] \in {"done", "sso"} /\ UNCHANGED table
    BY <1>1 DEF Begins, TypeInv, TypeOK
  <2>3. NosWithId(id)' = NosWithId(id)
    BY <2>2 DEF NosWithId, RowsWithId
  <2>4. Claims(id)' \subseteq Claims(id) /\ InsertersOf(id)' \subseteq InsertersOf(id)
    BY <2>1, <2>2, <2>3, QuietStep
  <2> QED BY <1>0, <2>4, WeightStays
<1>2. ASSUME NEW p \in Procs, BySSO(p)
      PROVE  IdWeight(id)'
  <2>1. OthersStay(p)
    BY <1>2, OthersStayInStep DEF Step
  <2>2. pc[p] = "sso" /\ UNCHANGED <<table, people>>
    BY <1>2 DEF BySSO
  <2>3. NosWithId(id)' = NosWithId(id)
    BY <2>2 DEF NosWithId, RowsWithId
  <2>4. CASE Goto(p, "name") /\ InHandId(p) = id
             /\ {k \in DOMAIN table : SsoMatches(table[k].sso, InHand(p).sysId)} = {}
    <3>1. RowsWithId(id) = {}
      BY <2>4 DEF RowsWithId, SsoMatches, InHandId
    <3>2. NosWithId(id)' = {}
      BY <2>3, <3>1 DEF NosWithId
    <3> QED BY <3>2, WeightOfProcesses
  <2>5. CASE \/ Goto(p, "failed")
             \/ Goto(p, "name") /\ InHandId(p) # id
             \/ \E k \in DOMAIN table :
                  SsoMatches(table[k].sso, InHand(p).sysId) /\ Found(p, table[k])
    <3>1. ~(pc'[p] \in {"name", "max", "insert"} /\ InHandId(p)' = id)
      BY <2>2, <2>5 DEF Goto, Found, Resolve, InHandId, InHand, TypeInv, TypeOK
    <3>2. pc'[p] = "update" /\ InHandId(p)' = id => found'[p] \in NosWithId(id)
      <4>1. SUFFICES ASSUME pc'[p] = "update", InHandId(p)' = id
                     PROVE  found'[p] \in NosWithId(id)
        OBVIOUS
      <4>2. PICK k \in DOMAIN table :
               SsoMatches(table[k].sso, InHand(p).sysId) /\ Found(p, table[k])
        BY <2>5, <4>1 DEF Goto, TypeInv, TypeOK
      <4>3. found'[p] = table[k].usrNo /\ UNCHANGED at
        BY <4>1, <4>2 DEF Found, Resolve, TypeInv, TypeOK
      <4>4. InHandId(p) = id
        BY <2>2, <4>1, <4>3 DEF InHandId, InHand
      <4> QED BY <4>2, <4>3, <4>4 DEF SsoMatches, InHandId, NosWithId, RowsWithId
    <3>3. Claims(id)' \subseteq Claims(id)
      BY <2>1, <2>3, <3>2, QuietStep
    <3>4. InsertersOf(id)' \subseteq InsertersOf(id) \ {p}
      BY <2>1, <2>3, <3>1, <3>2, QuietStep
    <3> QED BY <1>0, <3>3, <3>4, WeightStays
  <2>6. \/ Goto(p, "failed")
        \/ /\ Goto(p, "name")
           /\ {k \in DOMAIN table : SsoMatches(table[k].sso, InHand(p).sysId)} = {}
        \/ \E k \in DOMAIN table :
              SsoMatches(table[k].sso, InHand(p).sysId) /\ Found(p, table[k])
    BY <1>2 DEF BySSO, RowsOf
  <2> QED BY <2>4, <2>5, <2>6
<1>3. ASSUME NEW p \in Procs, ByName(p)
      PROVE  IdWeight(id)'
  <2>1. OthersStay(p)
    BY <1>3, OthersStayInStep DEF Step
  <2>2. pc[p] = "name" /\ UNCHANGED <<table, people>>
    BY <1>3 DEF ByName
  <2>3. NosWithId(id)' = NosWithId(id)
    BY <2>2 DEF NosWithId, RowsWithId
  <2>4. pc'[p] \notin {"name", "insert"} /\ (pc'[p] \in {"max", "update"} => UNCHANGED at)
    BY <1>3 DEF ByName, Named, Found, Goto, Resolve, TypeInv, TypeOK
  <2>5. CASE InHandId(p) # id
    <3>1. ~(pc'[p] \in {"name", "max", "insert", "update"} /\ InHandId(p)' = id)
      BY <2>2, <2>4, <2>5 DEF InHandId, InHand
    <3>2. Claims(id)' \subseteq Claims(id) /\ InsertersOf(id)' \subseteq InsertersOf(id) \ {p}
      BY <2>1, <2>3, <3>1, QuietStep
    <3> QED BY <1>0, <3>2, WeightStays
  <2>6. CASE InHandId(p) = id /\ pc'[p] = "max"
    <3>1. Claims(id)' \subseteq Claims(id) /\ InsertersOf(id)' \subseteq InsertersOf(id) \cup {p}
      BY <2>1, <2>3, <2>6, QuietStep
    <3>2. p \in InsertersOf(id)
      BY <2>2, <2>6 DEF InsertersOf
    <3> QED BY <1>0, <3>1, <3>2, WeightStays
  <2>7. CASE InHandId(p) = id /\ pc'[p] # "max"
    <3> DEFINE D == {found'[p]}
    <3>1. ~(pc'[p] \in {"name", "max", "insert"} /\ InHandId(p)' = id)
      BY <2>4, <2>7
    <3>2. NosWithId(id)' \subseteq NosWithId(id) \cup D /\ found'[p] \in NosWithId(id) \cup D
      BY <2>3
    <3>3. Claims(id)' \subseteq Claims(id) \cup D /\ InsertersOf(id)' \subseteq InsertersOf(id) \ {p}
      <4> HIDE DEF D
      <4> QED BY <2>1, <3>1, <3>2, ClaimsOfStep
    <3>4. p \in InsertersOf(id)
      BY <2>2, <2>7 DEF InsertersOf
    <3> QED BY <1>0, <3>3, <3>4, WeightMoves
  <2> QED BY <2>5, <2>6, <2>7
<1>4. ASSUME NEW p \in Procs, ReadMax(p)
      PROVE  IdWeight(id)'
  <2>1. OthersStay(p)
    BY <1>4, OthersStayInStep DEF Step
  <2>2. pc[p] = "max" /\ pc'[p] = "insert" /\ UNCHANGED <<table, people, at>>
    BY <1>4 DEF ReadMax, Goto, TypeInv, TypeOK
  <2>3. NosWithId(id)' = NosWithId(id) /\ InHandId(p)' = InHandId(p)
    BY <2>2 DEF NosWithId, RowsWithId, InHandId, InHand
  <2>4. Claims(id)' \subseteq Claims(id) /\ InsertersOf(id)' \subseteq InsertersOf(id) \cup {p}
    BY <2>1, <2>2, <2>3, QuietStep
  <2>5. InsertersOf(id)' \subseteq InsertersOf(id)
    BY <2>2, <2>3, <2>4 DEF InsertersOf
  <2> QED BY <1>0, <2>4, <2>5, WeightStays
<1>5. ASSUME NEW p \in Procs, Update(p) \/ InsertUser(p) \/ InsertRefused(p)
                              \/ Halts(p) \/ AnswerLost(p)
      PROVE  IdWeight(id)'
  <2>1. OthersStay(p) /\ Written(p) /\ pc[p] \in Active
    BY <1>5, OthersStayInStep DEF Step, Update, InsertUser, InsertRefused, Halts,
                                  AnswerLost, Written, Active
  <2>2. pc'[p] \in {"sso", "done", "failed"}
    BY <1>5 DEF Update, InsertUser, InsertRefused, Halts, AnswerLost, Goto, Resolve,
                TypeInv, TypeOK
  <2> DEFINE D == IF InHandId(p) # id THEN {}
                  ELSE IF pc[p] = "update" THEN {found[p]}
                  ELSE IF pc[p] = "insert" THEN {nextNo[p]} ELSE {}
  <2>3. NosWithId(id)' \subseteq NosWithId(id) \cup D
    BY <2>1, WriteOfIds
  <2>4. Claims(id)' \subseteq Claims(id) \cup D /\ InsertersOf(id)' \subseteq InsertersOf(id) \ {p}
    <3> HIDE DEF D
    <3> QED BY <2>1, <2>2, <2>3, ClaimsOfStep
  <2>5. CASE pc[p] = "insert" /\ InHandId(p) = id
    <3>1. Claims(id)' \subseteq Claims(id) \cup {nextNo[p]} /\ p \in InsertersOf(id)
      BY <2>4, <2>5 DEF InsertersOf
    <3> QED BY <1>0, <2>4, <3>1, WeightMoves
  <2>6. CASE ~(pc[p] = "insert" /\ InHandId(p) = id)
    <3>1. D \subseteq Claims(id)
      BY <2>6 DEF Claims, UpdatersOf
    <3>2. Claims(id)' \subseteq Claims(id) /\ InsertersOf(id)' \subseteq InsertersOf(id)
      BY <2>4, <3>1
    <3> QED BY <1>0, <3>2, WeightStays
  <2> QED BY <2>5, <2>6
<1> QED BY <1>1, <1>2, <1>3, <1>4, <1>5 DEF AnyStep, Step

(* Where the collation minds the padding, two spellings of an id can have a row
   each, and only the lookup by name keeps them one: the rows of a name and the
   processes that may yet insert one, of which each answer broken off can send
   another to its insert. *)
RowsNamed(n)      == {k \in DOMAIN table : table[k].name = n}
InsertersNamed(n) == {p \in Procs : pc[p] \in {"max", "insert"} /\ InHand(p).name = n}

NameWeight(n) ==
    Cardinality(RowsNamed(n)) + Cardinality(InsertersNamed(n))
        <= Cardinality(Procs) + faults

NameWeightInv ==
    /\ \A k \in DOMAIN table : Scannable(table[k])
    /\ \A n \in Names \cup {Null} : NameWeight(n)

OneRowPerName ==
    \A t \in Tables : \A k, l \in DOMAIN t :
        Scannable(t[k]) /\ (t[k].name = t[l].name => k = l)

LEMMA NamesFinite ==
  ASSUME TypeInv, IsFiniteSet(Procs), NEW n
  PROVE  /\ IsFiniteSet(RowsNamed(n)) /\ IsFiniteSet(InsertersNamed(n))
         /\ Cardinality(Procs) \in Nat /\ faults \in Nat
<1>1. IsFiniteSet(DOMAIN table) /\ faults \in Nat
  BY FS_Interval DEF TypeInv, TypeOK
<1>2. IsFiniteSet(RowsNamed(n)) /\ IsFiniteSet(InsertersNamed(n))
  BY <1>1, FS_Subset DEF RowsNamed, InsertersNamed
<1> QED BY <1>1, <1>2, FS_CardinalityType

(* The three steps of NameWeight: nothing new; an insert; a broken answer. *)
LEMMA NameStays ==
  ASSUME TypeInv, IsFiniteSet(Procs), NEW n, NameWeight(n), faults' \in Nat, faults' >= faults,
         RowsNamed(n)' \subseteq RowsNamed(n), InsertersNamed(n)' \subseteq InsertersNamed(n)
  PROVE  NameWeight(n)'
<1>1. /\ {Cardinality(RowsNamed(n)), Cardinality(InsertersNamed(n)),
          Cardinality(RowsNamed(n)'), Cardinality(InsertersNamed(n)')} \subseteq Nat
      /\ Cardinality(RowsNamed(n)') + Cardinality(InsertersNamed(n)')
            <= Cardinality(RowsNamed(n)) + Cardinality(InsertersNamed(n))
  BY NamesFinite, SumStays
<1> QED BY <1>1, NamesFinite DEF NameWeight

LEMMA NameMoves ==
  ASSUME TypeInv, IsFiniteSet(Procs), NEW n, NameWeight(n), faults' \in Nat, faults' >= faults,
         NEW p \in InsertersNamed(n), NEW k, RowsNamed(n)' \subseteq RowsNamed(n) \cup {k},
         InsertersNamed(n)' \subseteq InsertersNamed(n) \ {p}
  PROVE  NameWeight(n)'
<1>1. /\ {Cardinality(RowsNamed(n)), Cardinality(InsertersNamed(n)),
          Cardinality(RowsNamed(n)'), Cardinality(InsertersNamed(n)')} \subseteq Nat
      /\ Cardinality(RowsNamed(n)') + Cardinality(InsertersNamed(n)')
            <= Cardinality(RowsNamed(n)) + Cardinality(InsertersNamed(n))
  BY NamesFinite, SumMoves
<1> QED BY <1>1, NamesFinite DEF NameWeight

LEMMA NameGrows ==
  ASSUME TypeInv, IsFiniteSet(Procs), NEW n, NameWeight(n), faults' = faults + 1, NEW p,
         RowsNamed(n)' \subseteq RowsNamed(n), InsertersNamed(n)' \subseteq InsertersNamed(n) \cup {p}
  PROVE  NameWeight(n)'
<1>1. /\ {Cardinality(RowsNamed(n)), Cardinality(InsertersNamed(n)),
          Cardinality(RowsNamed(n)'), Cardinality(InsertersNamed(n)')} \subseteq Nat
      /\ Cardinality(RowsNamed(n)') + Cardinality(InsertersNamed(n)')
            <= Cardinality(RowsNamed(n)) + Cardinality(InsertersNamed(n)) + 1
  BY NamesFinite, SumGrows
<1> QED BY <1>1, NamesFinite DEF NameWeight

(* While no row has the name, there are at most as many inserters as processes. *)
LEMMA NameOfProcesses ==
  ASSUME TypeInv, IsFiniteSet(Procs), NEW n, RowsNamed(n)' = {}, UNCHANGED faults
  PROVE  NameWeight(n)'
<1>1. Cardinality(RowsNamed(n)') = 0
  BY FS_EmptySet
<1>2. InsertersNamed(n)' \in SUBSET Procs
  BY DEF InsertersNamed
<1>3. /\ Cardinality(InsertersNamed(n)') \in Nat
      /\ Cardinality(InsertersNamed(n)') <= Cardinality(Procs)
  BY <1>2, FS_Subset, FS_CardinalityType
<1> QED BY <1>1, <1>3, NamesFinite DEF NameWeight

LEMMA InitNameWeight ==
  ASSUME Init, OneRowPerName, IsFiniteSet(Procs), Procs # {}
  PROVE  NameWeightInv
<1>1. table \in Tables /\ \A k \in DOMAIN table : Scannable(table[k])
  BY DEF Init, OneRowPerName
<1>2. ASSUME NEW n \in Names \cup {Null} PROVE NameWeight(n)
  <2>1. InsertersNamed(n) = {}
    BY DEF Init, InsertersNamed
  <2>2. RowsNamed(n) = {} \/ \E k : RowsNamed(n) = {k}
    BY <1>1 DEF OneRowPerName, RowsNamed
  <2>3. Cardinality(RowsNamed(n)) \in {0, 1} /\ Cardinality(InsertersNamed(n)) = 0
    BY <2>1, <2>2, FS_EmptySet, FS_Singleton
  <2>4. Cardinality(Procs) \in Nat /\ Cardinality(Procs) # 0 /\ faults = 0
    BY FS_CardinalityType, FS_EmptySet DEF Init
  <2> QED BY <2>3, <2>4 DEF NameWeight
<1> QED BY <1>1, <1>2 DEF NameWeightInv

(* The names a write adds, and its columns are never NULL. *)
LEMMA WriteOfNames ==
  ASSUME TypeInv, NEW p \in Procs, Written(p), NEW n,
         \A k \in DOMAIN table : Scannable(table[k])
  PROVE  /\ \A k \in DOMAIN table' : Scannable(table'[k])
         /\ RowsNamed(n)' \subseteq RowsNamed(n) \cup {Len(table) + 1}
         /\ ~(pc[p] = "insert" /\ InHand(p).name = n) => RowsNamed(n)' \subseteq RowsNamed(n)
<1> USE ConstantsAssumption
<1>1. CASE UNCHANGED table
  BY <1>1 DEF RowsNamed
<1>2. CASE pc[p] = "update" /\ table' = Updated(p)
  <2>1. InHand(p) \in Person
    BY <1>2, InHandIsPerson DEF Active
  <2>2. Trim[InHand(p).sysId] # Null /\ Stored(InHand(p).dept) # Null
    BY <2>1 DEF Person, Stored
  <2>3. DOMAIN table' = DOMAIN table /\ \A k \in DOMAIN table : table'[k].name = table[k].name
    BY <1>2, UpdateKeeps DEF Kept
  <2>4. ASSUME NEW k \in DOMAIN table PROVE Scannable(table'[k])
    <3>1. \/ table'[k] = table[k]
          \/ /\ table'[k].sso = Trim[InHand(p).sysId]
             /\ table'[k].dept = Stored(InHand(p).dept)
      BY <1>2, UpdateKeeps
    <3> QED BY <2>2, <3>1 DEF Scannable
  <2> QED BY <2>3, <2>4 DEF RowsNamed
<1>3. CASE pc[p] = "insert" /\ ~Taken(p) /\ table' = Append(table, NewRow(p))
  <2>1. InHand(p) \in Person
    BY <1>3, InHandIsPerson DEF Active
  <2>2. NewRow(p).name = InHand(p).name /\ Scannable(NewRow(p))
    BY <2>1 DEF NewRow, Person, Stored, Scannable
  <2>3. /\ DOMAIN table' = DOMAIN table \cup {Len(table) + 1}
        /\ \A k \in DOMAIN table : table'[k] = table[k]
        /\ table'[Len(table) + 1] = NewRow(p)
    BY <1>3, InsertKeeps
  <2>4. \A k \in DOMAIN table' : Scannable(table'[k])
    BY <2>2, <2>3
  <2>5. RowsNamed(n)' \subseteq RowsNamed(n) \cup {Len(table) + 1}
    BY <2>3 DEF RowsNamed
  <2>6. InHand(p).name # n => RowsNamed(n)' \subseteq RowsNamed(n)
    BY <2>2, <2>3 DEF RowsNamed
  <2> QED BY <1>3, <2>4, <2>5, <2>6
<1> QED BY <1>1, <1>2, <1>3 DEF Written

LEMMA InsertersOfStep ==
  ASSUME NEW p \in Procs, OthersStay(p), NEW n
  PROVE  /\ InsertersNamed(n)' \subseteq InsertersNamed(n) \cup {p}
         /\ ~(pc'[p] \in {"max", "insert"} /\ InHand(p)'.name = n)
            => InsertersNamed(n)' \subseteq InsertersNamed(n) \ {p}
BY DEF OthersStay, InsertersNamed, InHand

LEMMA StepNameWeight ==
  ASSUME TypeInv, IsFiniteSet(Procs), NameWeightInv, AnyStep PROVE NameWeightInv'
<1>0. \A k \in DOMAIN table : Scannable(table[k])
  BY DEF NameWeightInv
<1>1. ASSUME UNCHANGED table
      PROVE  /\ \A k \in DOMAIN table' : Scannable(table'[k])
             /\ \A n \in Names \cup {Null} : RowsNamed(n)' = RowsNamed(n)
  BY <1>0, <1>1 DEF RowsNamed
<1>2. faults \in Nat
  BY DEF TypeInv, TypeOK
<1>3. ASSUME NEW p \in Procs, NEW list \in Lists, Begins(p, list)
      PROVE  NameWeightInv'
  <2>1. OthersStay(p) /\ UNCHANGED <<table, faults>>
    BY <1>3, OthersStayInStep DEF Begins
  <2>2. pc'[p] \in {"done", "sso"}
    BY <1>3 DEF Begins, TypeInv, TypeOK
  <2>3. \A n \in Names \cup {Null} : InsertersNamed(n)' \subseteq InsertersNamed(n)
    BY <2>1, <2>2, InsertersOfStep
  <2>4. \A n \in Names \cup {Null} : NameWeight(n)'
    BY <1>1, <1>2, <2>1, <2>3, NameStays DEF NameWeightInv
  <2> QED BY <1>1, <2>1, <2>4 DEF NameWeightInv
<1>4. ASSUME NEW p \in Procs, BySSO(p) \/ ReadMax(p)
      PROVE  NameWeightInv'
  <2>1. OthersStay(p) /\ UNCHANGED <<table, faults>>
    BY <1>4, OthersStayInStep DEF Step, BySSO, ReadMax
  <2>2. \/ pc'[p] \notin {"max", "insert"}
        \/ pc[p] = "max" /\ UNCHANGED <<at, people>>
    BY <1>4 DEF BySSO, ReadMax, Found, Goto, Resolve, TypeInv, TypeOK
  <2>3. ASSUME NEW n \in Names \cup {Null} PROVE InsertersNamed(n)' \subseteq InsertersNamed(n)
    <3>1. CASE pc'[p] \notin {"max", "insert"}
      BY <2>1, <3>1, InsertersOfStep
    <3>2. CASE pc[p] = "max" /\ UNCHANGED <<at, people>>
      <4>1. InsertersNamed(n)' \subseteq InsertersNamed(n) \cup {p}
        BY <2>1, InsertersOfStep
      <4> QED BY <3>2, <4>1 DEF InsertersNamed, InHand
    <3> QED BY <2>2, <3>1, <3>2
  <2>4. \A n \in Names \cup {Null} : NameWeight(n)'
    BY <1>1, <1>2, <2>1, <2>3, NameStays DEF NameWeightInv
  <2> QED BY <1>1, <2>1, <2>4 DEF NameWeightInv
<1>5. ASSUME NEW p \in Procs, ByName(p)
      PROVE  NameWeightInv'
  <2>1. OthersStay(p) /\ UNCHANGED <<table, people>>
    BY <1>5, OthersStayInStep DEF Step, ByName
  <2>2. PICK rows \in SUBSET Namesakes(InHand(p).name) :
           /\ Named(p, rows)
           /\ IF rows = Namesakes(InHand(p).name) THEN UNCHANGED faults
              ELSE faults' = faults + 1
    BY <1>5 DEF ByName, Fault
  <2>3. faults' \in Nat /\ faults' >= faults
    BY <1>2, <2>2
  <2>4. \/ rows = {} /\ Goto(p, "max")
        \/ pc'[p] \notin {"max", "insert"}
    BY <1>5, <2>2 DEF ByName, Named, Found, Resolve, TypeInv, TypeOK
  <2>5. ASSUME NEW n \in Names \cup {Null} PROVE NameWeight(n)'
    <3>1. NameWeight(n) /\ RowsNamed(n)' \subseteq RowsNamed(n)
      BY <1>1, <2>1 DEF NameWeightInv
    <3>2. CASE ~(pc'[p] \in {"max", "insert"} /\ InHand(p)'.name = n)
      <4>1. InsertersNamed(n)' \subseteq InsertersNamed(n)
        BY <2>1, <3>2, InsertersOfStep
      <4> QED BY <2>3, <3>1, <4>1, NameStays
    <3>3. CASE (pc'[p] \in {"max", "insert"} /\ InHand(p)'.name = n) /\ UNCHANGED faults
      <4>1. InHand(p).name = n /\ Namesakes(n) = {}
        <5>1. rows = {} /\ rows = Namesakes(InHand(p).name) /\ UNCHANGED at
          BY <1>2, <2>2, <2>4, <3>3 DEF Goto
        <5> QED BY <2>1, <3>3, <5>1 DEF InHand
      <4>2. RowsNamed(n)' = {}
        BY <1>0, <2>1, <4>1 DEF Namesakes, RowsNamed
      <4> QED BY <3>3, <4>2, NameOfProcesses
    <3>4. CASE faults' = faults + 1
      <4>1. InsertersNamed(n)' \subseteq InsertersNamed(n) \cup {p}
        BY <2>1, InsertersOfStep
      <4> QED BY <3>1, <3>4, <4>1, NameGrows
    <3> QED BY <2>2, <3>2, <3>3, <3>4
  <2> QED BY <1>1, <2>1, <2>5 DEF NameWeightInv
<1>6. ASSUME NEW p \in Procs, Update(p) \/ InsertUser(p) \/ InsertRefused(p)
                              \/ Halts(p) \/ AnswerLost(p)
      PROVE  NameWeightInv'
  <2>1. OthersStay(p) /\ Written(p)
    BY <1>6, OthersStayInStep DEF Step, Update, InsertUser, InsertRefused, Halts,
                                  AnswerLost, Written
  <2>2. pc'[p] \notin {"max", "insert"} /\ faults' \in Nat /\ faults' >= faults
    <3>1. pc'[p] \notin {"max", "insert"}
      BY <1>6 DEF Update, InsertUser, InsertRefused, Halts, AnswerLost, Goto, Resolve,
                  TypeInv, TypeOK
    <3>2. faults' = faults \/ faults' = faults + 1
      BY <1>6 DEF Update, InsertUser, InsertRefused, Halts, AnswerLost, Fault
    <3> QED BY <1>2, <3>1, <3>2
  <2>3. ASSUME NEW n \in Names \cup {Null} PROVE NameWeight(n)'
    <3>1. InsertersNamed(n)' \subseteq InsertersNamed(n) \ {p} /\ NameWeight(n)
      BY <2>1, <2>2, InsertersOfStep DEF NameWeightInv
    <3>2. CASE pc[p] = "insert" /\ InHand(p).name = n
      <4>1. p \in InsertersNamed(n)
        BY <3>2 DEF InsertersNamed
      <4>2. RowsNamed(n)' \subseteq RowsNamed(n) \cup {Len(table) + 1}
        BY <1>0, <2>1, WriteOfNames
      <4> QED BY <2>2, <3>1, <4>1, <4>2, NameMoves
    <3>3. CASE ~(pc[p] = "insert" /\ InHand(p).name = n)
      <4>1. RowsNamed(n)' \subseteq RowsNamed(n)
        BY <1>0, <2>1, <3>3, WriteOfNames
      <4> QED BY <2>2, <3>1, <4>1, NameStays
    <3> QED BY <3>2, <3>3
  <2>4. \A k \in DOMAIN table' : Scannable(table'[k])
    BY <1>0, <2>1, WriteOfNames
  <2> QED BY <2>3, <2>4 DEF NameWeightInv
<1> QED BY <1>3, <1>4, <1>5, <1>6 DEF AnyStep, Step

LEMMA AsideWeights ==
  ASSUME Aside
  PROVE  /\ IdWeightInv => IdWeightInv'
         /\ TypeInv /\ IsFiniteSet(Procs) /\ NameWeightInv => NameWeightInv'
<1>1. IdWeightInv => IdWeightInv'
  BY DEF Aside, IdWeightInv, IdWeight, Claims, NosWithId, RowsWithId, UpdatersOf,
         InsertersOf, InHandId, InHand
<1>2. ASSUME TypeInv, IsFiniteSet(Procs), NameWeightInv PROVE NameWeightInv'
  <2>1. ASSUME NEW n \in Names \cup {Null} PROVE NameWeight(n)'
    <3>1. RowsNamed(n)' = RowsNamed(n) /\ InsertersNamed(n)' = InsertersNamed(n)
      BY DEF Aside, RowsNamed, InsertersNamed, InHand
    <3>2. faults' \in Nat /\ faults' >= faults
      BY <1>2 DEF Aside, TypeInv, TypeOK
    <3> QED BY <1>2, <3>1, <3>2, NameStays DEF NameWeightInv
  <2> QED BY <1>2, <2>1 DEF Aside, NameWeightInv
<1> QED BY <1>1, <1>2

(* Where the collation ignores the padding, the rows of an id and the processes
   that may add one are at most as many as there are processes. *)
THEOREM IdWeightHolds ==
  ASSUME IsFiniteSet(Procs), Procs # {}, PadSpace, OneRowPerId,
         \A t \in Tables : DistinctNumbers(t)
  PROVE  Spec => []IdWeightInv
<1>1. Init => IdWeightInv
  BY InitIdWeight
<1>2. TypeInv /\ IdWeightInv /\ [Next]_vars => IdWeightInv'
  BY StepIdWeight, NextIsAStep, AsideWeights, StutterAside
<1> QED BY <1>1, <1>2, TypeInvHolds, PTL DEF Spec

(* Where it minds it, the rows of a name are, but for one more for each answer
   that has broken off. *)
THEOREM NameWeightHolds ==
  ASSUME IsFiniteSet(Procs), Procs # {}, OneRowPerName
  PROVE  Spec => []NameWeightInv
<1>1. Init => NameWeightInv
  BY InitNameWeight
<1>2. TypeInv /\ NameWeightInv /\ [Next]_vars => NameWeightInv'
  BY StepNameWeight, NextIsAStep, AsideWeights, StutterAside
<1> QED BY <1>1, <1>2, TypeInvHolds, PTL DEF Spec

LEMMA RowsBoundedById ==
  ASSUME TypeInv, IsFiniteSet(Procs), DistinctNumbers(table), IdWeightInv, PadSpace
  PROVE  RowsPerIdBounded
<1> SUFFICES ASSUME NEW id \in Ids \ {Blank}
             PROVE  Cardinality(RowsWithId(id)) <= Cardinality(Procs)
  <2>1. Cardinality(Procs) \in Nat
    BY FS_CardinalityType
  <2> QED BY <2>1 DEF RowsPerIdBounded, RowsWithId
<1>1. /\ {Cardinality(Claims(id)), Cardinality(InsertersOf(id)), Cardinality(NosWithId(id))}
            \subseteq Nat
      /\ Cardinality(NosWithId(id)) + Cardinality(InsertersOf(id))
            <= Cardinality(Claims(id)) + Cardinality(InsertersOf(id))
  <2>1. NosWithId(id) \in SUBSET Claims(id)
    BY DEF Claims
  <2> QED BY <2>1, WeightFinite, SumStays
<1>2. IdWeight(id) /\ Cardinality(RowsWithId(id)) = Cardinality(NosWithId(id))
  BY RowsAreNumbers DEF IdWeightInv
<1>3. Cardinality(Procs) \in Nat
  BY FS_CardinalityType
<1> QED BY <1>1, <1>2, <1>3 DEF IdWeight

LEMMA RowsBoundedByName ==
  ASSUME TypeInv, IsFiniteSet(Procs), NEW Owner, RowsOwned(Owner, table),
         NameWeightInv, ~PadSpace
  PROVE  RowsPerIdBounded
<1> SUFFICES ASSUME NEW id \in Ids \ {Blank}
             PROVE  Cardinality(RowsWithId(id)) <= Cardinality(Procs) + faults
  BY DEF RowsPerIdBounded, RowsWithId
<1> DEFINE n == Owner[id]
<1>1. Cardinality(Procs) \in Nat /\ faults \in Nat
  BY NamesFinite
<1>2. CASE RowsWithId(id) = {}
  BY <1>1, <1>2, FS_EmptySet
<1>3. ASSUME RowsWithId(id) # {} PROVE n \in Names \cup {Null}
  <2>1. PICK k \in RowsWithId(id) : table[k].name = n /\ k \in DOMAIN table
    BY <1>3 DEF RowsOwned, RowsWithId
  <2> QED BY <2>1, NumbersAreNat DEF TypeInv, Row
<1>4. RowsWithId(id) \in SUBSET RowsNamed(n)
  BY DEF RowsOwned, RowsWithId, RowsNamed
<1>5. /\ {Cardinality(RowsWithId(id)), Cardinality(InsertersNamed(n)), Cardinality(RowsNamed(n))}
            \subseteq Nat
      /\ Cardinality(RowsWithId(id)) + Cardinality(InsertersNamed(n))
            <= Cardinality(RowsNamed(n)) + Cardinality(InsertersNamed(n))
  BY <1>4, NamesFinite, SumStays
<1>6. RowsWithId(id) # {} => NameWeight(n)
  BY <1>3 DEF NameWeightInv
<1> QED BY <1>1, <1>2, <1>5, <1>6 DEF NameWeight

(* From a table with a row for each id, any number of processes at once leave
   an id no more rows than there are processes, whichever of them fail and
   however often they run.  Where the collation minds the padding of an id, the
   names keep the rows apart: each id must have its own name, one row, and no
   NULL that would hide it, and each broken answer can add a row. *)
THEOREM RowsPerIdBoundedHolds ==
  ASSUME IsFiniteSet(Procs), Procs # {}, Keyed, \A t \in Tables : DistinctNumbers(t),
         PadSpace => OneRowPerId,
         NEW CONSTANT Owner,
         ~PadSpace => Owned(Owner) /\ OneRowPerName
  PROVE  Spec => []RowsPerIdBounded
<1>1. CASE PadSpace
  <2>1. Spec => []IdWeightInv
    BY <1>1, IdWeightHolds
  <2>2. TypeInv /\ KeyInv /\ IdWeightInv => RowsPerIdBounded
    BY <1>1, RowsBoundedById DEF KeyInv
  <2> QED BY <2>1, <2>2, TypeInvHolds, KeyInvHolds, PTL
<1>2. CASE ~PadSpace
  <2>1. Spec => []NameWeightInv /\ []OwnerInv(Owner)
    BY <1>2, NameWeightHolds, OwnerInvHolds
  <2>2. TypeInv /\ OwnerInv(Owner) /\ NameWeightInv => RowsPerIdBounded
    BY <1>2, RowsBoundedByName DEF OwnerInv
  <2> QED BY <2>1, <2>2, TypeInvHolds, PTL
<1> QED BY <1>1, <1>2
-----------------------------------------------------------------------------
(* Runs one after another, where every id has its own name, a row of its own,
   and the collation ignores the padding: which row the lookups find. *)
OneBlankRow ==
    \A t \in Tables : \A k, l \in DOMAIN t :
        /\ Scannable(t[k]) /\ Trim[t[k].sso] = Blank
        /\ Scannable(t[l]) /\ Trim[t[l].sso] = Blank
        /\ t[k].name = t[l].name
        => k = l

OwnRows(Owner) ==
    /\ PadSpace /\ Owned(Owner) /\ OneRowPerId /\ OneBlankRow
    /\ \A x, y \in Ids : Owner[x] = Owner[y] => x = y

IsBlank(k) == Scannable(table[k]) /\ Trim[table[k].sso] = Blank

BlankInv ==
    \A k, l \in DOMAIN table :
        IsBlank(k) /\ IsBlank(l) /\ table[k].name = table[l].name => k = l

SettledInv(Owner) == PeopleOwned(Owner, settled)

AloneInv(Owner) ==
    TypeInv /\ KeyInv /\ OwnerInv(Owner) /\ IdWeightInv /\ BlankInv /\ SettledInv(Owner)

(* Who is in hand has an id and is its owner. *)
LEMMA InHandOwned ==
  ASSUME TypeInv, NEW Owner, OwnerInv(Owner), NEW p \in Procs, pc[p] \in Active
  PROVE  /\ InHandId(p) \in Ids \ {Blank} /\ Trim[InHandId(p)] = InHandId(p)
         /\ InHand(p).name = Owner[InHandId(p)] /\ InHand(p) \in Person
         /\ at[p] \in DOMAIN people[p] /\ InHand(p) = people[p][at[p]]
<1>1. InHand(p) \in Person /\ at[p] \in DOMAIN people[p]
  BY InHandIsPerson DEF TypeInv, PlaceInv
<1> QED BY <1>1, ConstantsAssumption DEF OwnerInv, PeopleOwned, InHandId, InHand, Person

LEMMA AtMostOne ==
  ASSUME NEW S, IsFiniteSet(S), Cardinality(S) <= 1 PROVE \A x, y \in S : x = y
<1> SUFFICES ASSUME NEW x \in S, NEW y \in S, x # y PROVE FALSE
  OBVIOUS
<1>1. Cardinality({x} \cup {y}) = 2
  <2>1. IsFiniteSet({x}) /\ Cardinality({x}) = 1 /\ y \notin {x}
    BY FS_Singleton
  <2>2. Cardinality({x} \cup {y}) = Cardinality({x}) + 1
    BY <2>1, FS_AddElement
  <2> QED BY <2>1, <2>2
<1>2. Cardinality({x} \cup {y}) <= Cardinality(S)
  BY FS_Subset
<1> QED BY <1>1, <1>2, FS_CardinalityType

(* One process has the only claim to an id, or is its only inserter. *)
LEMMA AloneWeight ==
  ASSUME TypeInv, KeyInv, IdWeightInv, NEW p, Procs = {p}, NEW id \in Ids \ {Blank}
  PROVE  /\ \A k, l \in RowsWithId(id) : k = l
         /\ pc[p] \in {"name", "max", "insert"} /\ InHandId(p) = id => RowsWithId(id) = {}
         /\ pc[p] = "update" /\ InHandId(p) = id
            => \A k \in RowsWithId(id) : table[k].usrNo = found[p]
<1>1. IsFiniteSet(Procs) /\ Cardinality(Procs) = 1
  BY FS_Singleton
<1>2. /\ IsFiniteSet(Claims(id)) /\ IsFiniteSet(InsertersOf(id))
      /\ Cardinality(Claims(id)) \in Nat /\ Cardinality(InsertersOf(id)) \in Nat
      /\ Cardinality(Claims(id)) + Cardinality(InsertersOf(id)) <= 1
  BY <1>1, WeightFinite, FS_CardinalityType DEF IdWeightInv, IdWeight
<1>3. \A m, n \in Claims(id) : m = n
  BY <1>2, AtMostOne
<1>4. \A k \in RowsWithId(id) : table[k].usrNo \in Claims(id)
  BY DEF Claims, NosWithId
<1>5. \A k, l \in RowsWithId(id) : k = l
  BY <1>3, <1>4 DEF KeyInv, DistinctNumbers, RowsWithId
<1>6. ASSUME pc[p] \in {"name", "max", "insert"}, InHandId(p) = id
      PROVE  RowsWithId(id) = {}
  <2>1. p \in InsertersOf(id)
    BY <1>6 DEF InsertersOf
  <2>2. Cardinality(InsertersOf(id)) # 0
    BY <1>2, <2>1, FS_EmptySet
  <2>3. Claims(id) = {}
    BY <1>2, <2>2, FS_EmptySet
  <2> QED BY <1>4, <2>3
<1>7. ASSUME pc[p] = "update", InHandId(p) = id
      PROVE  found[p] \in Claims(id)
  BY <1>7 DEF Claims, UpdatersOf
<1> QED BY <1>3, <1>4, <1>5, <1>6, <1>7

LEMMA InitAlone ==
  ASSUME Init, NEW Owner, OwnRows(Owner), NEW p, Procs = {p}
  PROVE  AloneInv(Owner)
<1>1. IsFiniteSet(Procs) /\ Procs # {} /\ \A t \in Tables : DistinctNumbers(t)
  BY FS_Singleton DEF OwnRows, Owned
<1>2. TypeInv /\ KeyInv /\ OwnerInv(Owner) /\ IdWeightInv
  BY <1>1, InitType, InitKey, InitOwned, InitIdWeight DEF OwnRows
<1>3. BlankInv /\ SettledInv(Owner)
  BY DEF Init, OwnRows, OneBlankRow, BlankInv, IsBlank, SettledInv, PeopleOwned
<1> QED BY <1>2, <1>3 DEF AloneInv

(* A write gives a row an id, or adds one that has one. *)
LEMMA WriteKeepsBlank ==
  ASSUME TypeInv, NEW Owner, OwnerInv(Owner), BlankInv, NEW p \in Procs, Written(p)
  PROVE  BlankInv'
<1>1. CASE UNCHANGED table
  BY <1>1 DEF BlankInv, IsBlank
<1>2. CASE pc[p] = "update" /\ table' = Updated(p)
  <2>1. InHandId(p) # Blank /\ Trim[InHandId(p)] = InHandId(p)
    BY <1>2, InHandOwned DEF Active
  <2>2. DOMAIN table' = DOMAIN table /\ \A k \in DOMAIN table : table'[k].name = table[k].name
    BY <1>2, UpdateKeeps DEF Kept
  <2>3. ASSUME NEW k \in DOMAIN table, IsBlank(k)' PROVE IsBlank(k)
    <3>1. table'[k].sso = InHandId(p) \/ table'[k] = table[k]
      BY <1>2, UpdateKeeps DEF InHandId
    <3> QED BY <2>1, <2>3, <3>1 DEF IsBlank
  <2> QED BY <2>2, <2>3 DEF BlankInv
<1>3. CASE pc[p] = "insert" /\ ~Taken(p) /\ table' = Append(table, NewRow(p))
  <2>1. Trim[NewRow(p).sso] # Blank
    BY <1>3, InHandOwned DEF Active, NewRow, InHandId
  <2>2. ASSUME NEW k \in DOMAIN table', IsBlank(k)'
        PROVE  k \in DOMAIN table /\ table'[k] = table[k] /\ IsBlank(k)
    <3>1. k \in DOMAIN table
      BY <1>3, <2>1, <2>2, InsertKeeps DEF IsBlank
    <3>2. table'[k] = table[k]
      BY <1>3, <3>1, InsertKeeps
    <3> QED BY <2>2, <3>1, <3>2 DEF IsBlank
  <2> QED BY <2>2 DEF BlankInv
<1> QED BY <1>1, <1>2, <1>3 DEF Written

LEMMA StepIsWrite ==
  ASSUME AnyStep
  PROVE  /\ \E p \in Procs : Written(p)
         /\ \/ settled' \in {settled, <<>>}
            \/ \E p \in Procs : settled' = people[p]
BY DEF AnyStep, Step, Begins, BySSO, ByName, Update, ReadMax, InsertUser, InsertRefused,
       Halts, AnswerLost, Written, Settle, Unsettle

LEMMA StepAlone ==
  ASSUME NEW Owner, OwnRows(Owner), NEW p, Procs = {p}, AloneInv(Owner), AnyStep
  PROVE  AloneInv(Owner)'
<1>1. IsFiniteSet(Procs) /\ Keyed
  BY FS_Singleton DEF Keyed
<1>2. TypeInv' /\ KeyInv' /\ OwnerInv(Owner)' /\ IdWeightInv'
  BY <1>1, StepType, StepKey, StepOwned, StepIdWeight DEF AloneInv, OwnRows
<1>3. BlankInv'
  BY StepIsWrite, WriteKeepsBlank DEF AloneInv
<1>4. SettledInv(Owner)'
  <2>1. /\ PeopleOwned(Owner, settled) /\ PeopleOwned(Owner, <<>>)
        /\ \A q \in Procs : PeopleOwned(Owner, people[q])
    BY DEF AloneInv, OwnerInv, SettledInv, PeopleOwned
  <2> QED BY <2>1, StepIsWrite DEF SettledInv
<1> QED BY <1>2, <1>3, <1>4 DEF AloneInv

LEMMA AsideAlone ==
  ASSUME NEW Owner, AloneInv(Owner), Aside PROVE AloneInv(Owner)'
<1>1. TypeInv' /\ KeyInv' /\ OwnerInv(Owner)' /\ IdWeightInv'
  BY AsideType, AsideKey, AsideOwned, AsideWeights DEF AloneInv
<1>2. BlankInv' /\ SettledInv(Owner)'
  BY DEF AloneInv, Aside, BlankInv, IsBlank, SettledInv
<1> QED BY <1>1, <1>2 DEF AloneInv

-----------------------------------------------------------------------------
(* A department the list gives the person with this id, as a number. *)
ValidFor(list, id, dept) ==
    \E i \in DOMAIN list : Trim[list[i].sysId] = id /\ isNumericEqual(list[i].dept, dept)

(* The row the lookups find: by the id if a row has it, else by the name. *)
Candidate(k, id, name) ==
    /\ k \in DOMAIN table /\ Scannable(table[k])
    /\ k \in RowsWithId(id) \/ (RowsWithId(id) = {} /\ table[k].name = name)

(* A person the lookups find in a department that is valid. *)
InOrder(list, j) ==
    \E k \in DOMAIN table :
        /\ Candidate(k, Trim[list[j].sysId], list[j].name)
        /\ ValidFor(list, Trim[list[j].sysId], table[k].dept)

(* A user a number stands for is in a department that is valid. *)
NumberInOrder(p, j) ==
    \A k \in DOMAIN table :
        table[k].usrNo = usrNos[p][j] =>
            ValidFor(people[p], Trim[people[p][j].sysId], table[k].dept)

(* A run from the settled list has nothing to write. *)
NothingAgain ==
    \A p \in Procs : pc[p] \in {"update", "max", "insert"} => people[p] # settled

OrderInv ==
    /\ \A p \in Procs : \A j \in DOMAIN usrNos[p] :
          InOrder(people[p], j) /\ NumberInOrder(p, j)
    /\ \A j \in DOMAIN settled : InOrder(settled, j)
    /\ NothingAgain

LEMMA CorrectIsValid ==
  ASSUME NEW p, NEW row
  PROVE  AlreadyCorrect(p, row)
           <=> InHandId(p) # Blank /\ ValidFor(people[p], InHandId(p), row.dept)
BY DEF AlreadyCorrect, ValidDepsBySysID, ValidFor, InHandId

(* It is one row. *)
LEMMA OneCandidate ==
  ASSUME NEW Owner, OwnRows(Owner), NEW p, Procs = {p}, AloneInv(Owner),
         NEW id \in Ids \ {Blank}, NEW k, NEW l,
         Candidate(k, id, Owner[id]), Candidate(l, id, Owner[id])
  PROVE  k = l
<1>1. TypeInv /\ KeyInv /\ IdWeightInv /\ BlankInv /\ RowsOwned(Owner, table)
  BY DEF AloneInv, OwnerInv
<1>2. CASE RowsWithId(id) # {}
  BY <1>1, <1>2, AloneWeight DEF Candidate
<1>3. CASE RowsWithId(id) = {}
  <2>1. ASSUME NEW m \in {k, l} PROVE IsBlank(m)
    <3>1. /\ m \in DOMAIN table /\ Scannable(table[m]) /\ table[m].name = Owner[id]
          /\ m \notin RowsWithId(id)
      BY <1>3, <2>1 DEF Candidate
    <3>2. table[m].sso \in Ids
      BY <1>1, <3>1, NumbersAreNat DEF TypeInv, Row, Scannable
    <3>3. Trim[table[m].sso] \in Ids
      BY <3>2, ConstantsAssumption
    <3>4. Trim[table[m].sso] # id
      BY <3>1 DEF RowsWithId, Scannable
    <3>5. Trim[table[m].sso] = Blank
      BY <1>1, <3>1, <3>3, <3>4 DEF RowsOwned, OwnRows, Scannable
    <3> QED BY <3>1, <3>5 DEF IsBlank
  <2> QED BY <1>1, <1>3, <2>1 DEF Candidate, BlankInv
<1> QED BY <1>2, <1>3

(* What a statement finds is the candidate. *)
LEMMA FoundIsCandidate ==
  ASSUME NEW Owner, OwnRows(Owner), NEW p, Procs = {p}, AloneInv(Owner),
         NEW k \in DOMAIN table, Scannable(table[k]),
         \/ pc[p] = "sso" /\ SsoMatches(table[k].sso, InHand(p).sysId)
         \/ pc[p] = "name" /\ table[k].name = InHand(p).name
  PROVE  Candidate(k, InHandId(p), InHand(p).name)
<1>1. CASE pc[p] = "sso" /\ SsoMatches(table[k].sso, InHand(p).sysId)
  BY <1>1 DEF OwnRows, SsoMatches, Candidate, RowsWithId, InHandId
<1>2. CASE pc[p] = "name" /\ table[k].name = InHand(p).name
  <2>1. InHandId(p) \in Ids \ {Blank}
    BY <1>2, InHandOwned DEF AloneInv, Active
  <2>2. RowsWithId(InHandId(p)) = {}
    BY <1>2, <2>1, AloneWeight DEF AloneInv
  <2> QED BY <1>2, <2>2 DEF Candidate
<1> QED BY <1>1, <1>2

(* In a settled list the candidate needs no update. *)
LEMMA SettledIsCorrect ==
  ASSUME NEW Owner, OwnRows(Owner), NEW p, Procs = {p}, AloneInv(Owner), OrderInv,
         pc[p] \in Active, people[p] = settled
  PROVE  /\ \E k \in DOMAIN table : Candidate(k, InHandId(p), InHand(p).name)
         /\ \A k \in DOMAIN table :
               Candidate(k, InHandId(p), InHand(p).name) => AlreadyCorrect(p, table[k])
<1>1. /\ InHandId(p) \in Ids \ {Blank} /\ InHand(p).name = Owner[InHandId(p)]
      /\ at[p] \in DOMAIN people[p] /\ InHand(p) = people[p][at[p]]
  BY InHandOwned DEF AloneInv
<1>2. InOrder(settled, at[p])
  BY <1>1 DEF OrderInv
<1>3. PICK w \in DOMAIN table :
         /\ Candidate(w, InHandId(p), InHand(p).name)
         /\ ValidFor(people[p], InHandId(p), table[w].dept)
  BY <1>1, <1>2 DEF InOrder, InHandId
<1>4. ASSUME NEW k \in DOMAIN table, Candidate(k, InHandId(p), InHand(p).name)
      PROVE  AlreadyCorrect(p, table[k])
  <2>1. k = w
    BY <1>1, <1>3, <1>4, OneCandidate
  <2> QED BY <1>1, <1>3, <2>1, CorrectIsValid
<1> QED BY <1>3, <1>4

(* A write that is not nothing. *)
Writes(p) ==
    \/ pc[p] = "update" /\ table' = Updated(p)
    \/ pc[p] = "insert" /\ ~Taken(p) /\ table' = Append(table, NewRow(p))

(* What one write leaves of the rows there are, and what it makes. *)
LEMMA WriteOfRows ==
  ASSUME TypeInv, NEW Owner, OwnerInv(Owner), NEW p \in Procs, Writes(p)
  PROVE  /\ Kept
         /\ \A k \in DOMAIN table : \/ table'[k] = table[k]
                                    \/ table[k].name = InHand(p).name
         /\ \E k \in DOMAIN table' :
               /\ Scannable(table'[k]) /\ Trim[table'[k].sso] = InHandId(p)
               /\ table'[k].dept = Stored(InHand(p).dept)
         /\ \A k \in DOMAIN table' :
               \/ k \in DOMAIN table /\ table'[k] = table[k]
               \/ /\ Scannable(table'[k]) /\ Trim[table'[k].sso] = InHandId(p)
                  /\ table'[k].dept = Stored(InHand(p).dept)
                  /\ table'[k].name = InHand(p).name
<1> USE ConstantsAssumption
<1>1. /\ InHandId(p) \in Ids \ {Blank} /\ Trim[InHandId(p)] = InHandId(p)
      /\ InHand(p) \in Person
  BY InHandOwned DEF Writes, Active
<1>2. /\ InHandId(p) # Null /\ InHand(p).sysId # Null /\ Stored(InHand(p).dept) # Null
      /\ Trim[InHand(p).sysId] = InHandId(p)
  BY <1>1 DEF Person, Stored, InHandId
<1>3. CASE pc[p] = "update" /\ table' = Updated(p)
  <2>1. Kept /\ DOMAIN table' = DOMAIN table
    BY <1>3, UpdateKeeps
  <2>2. PICK f \in DOMAIN table : table[f].usrNo = found[p] /\ table[f].name = InHand(p).name
    BY <1>3 DEF OwnerInv, FoundInv, IsUser
  <2>3. \A k \in DOMAIN table : table[k].usrNo = found[p] => k = f
    BY <2>2 DEF OwnerInv, DistinctNumbers
  <2>4. /\ table'[f].sso = InHandId(p) /\ table'[f].dept = Stored(InHand(p).dept)
        /\ table'[f].name = InHand(p).name
    BY <1>3, <2>1, <2>2, UpdateKeeps DEF Kept, InHandId
  <2>5. \A k \in DOMAIN table \ {f} : table'[k] = table[k]
    BY <1>3, <2>3, UpdateKeeps
  <2> QED BY <1>1, <1>2, <2>1, <2>2, <2>4, <2>5 DEF Scannable
<1>4. CASE pc[p] = "insert" /\ ~Taken(p) /\ table' = Append(table, NewRow(p))
  <2>1. /\ Kept /\ Len(table) + 1 \in DOMAIN table'
        /\ DOMAIN table' = DOMAIN table \cup {Len(table) + 1}
        /\ \A k \in DOMAIN table : table'[k] = table[k]
        /\ table'[Len(table) + 1] = NewRow(p)
    BY <1>4, InsertKeeps
  <2>2. /\ Scannable(NewRow(p)) /\ Trim[NewRow(p).sso] = InHandId(p)
        /\ NewRow(p).dept = Stored(InHand(p).dept) /\ NewRow(p).name = InHand(p).name
    BY <1>2 DEF NewRow, Scannable
  <2> QED BY <2>1, <2>2
<1> QED BY <1>3, <1>4 DEF Writes

(* For other people than the one in hand the candidate stays what it is. *)
LEMMA WriteLeavesCandidates ==
  ASSUME NEW Owner, OwnRows(Owner), NEW p \in Procs, AloneInv(Owner), Writes(p),
         NEW id \in Ids \ {Blank}, id # InHandId(p), NEW k, Candidate(k, id, Owner[id])
  PROVE  Candidate(k, id, Owner[id])' /\ table'[k] = table[k]
<1>1. TypeInv /\ OwnerInv(Owner) /\ RowsOwned(Owner, table)
  BY DEF AloneInv, OwnerInv
<1>2. InHand(p).name # Owner[id]
  <2>1. InHandId(p) \in Ids /\ InHand(p).name = Owner[InHandId(p)]
    BY <1>1, InHandOwned DEF Writes, Active
  <2> QED BY <2>1 DEF OwnRows
<1>3. Kept /\ \A l \in DOMAIN table' :
                 \/ l \in DOMAIN table /\ table'[l] = table[l]
                 \/ Scannable(table'[l]) /\ Trim[table'[l].sso] = InHandId(p)
  BY <1>1, WriteOfRows
<1>4. \A l \in DOMAIN table : table[l].name = Owner[id] => table'[l] = table[l]
  BY <1>1, <1>2, WriteOfRows
<1>5. \A l \in RowsWithId(id) : l \in DOMAIN table /\ table[l].name = Owner[id]
  BY <1>1 DEF RowsOwned, RowsWithId
<1>6. \A l : l \in RowsWithId(id) => l \in RowsWithId(id)'
  BY <1>3, <1>4, <1>5 DEF RowsWithId, Kept
<1>7. \A l : l \in RowsWithId(id)' => l \in RowsWithId(id)
  BY <1>3 DEF RowsWithId
<1>8. RowsWithId(id)' = RowsWithId(id)
  BY <1>6, <1>7
<1>9. k \in DOMAIN table /\ table[k].name = Owner[id] /\ Scannable(table[k])
  BY <1>5 DEF Candidate
<1>10. k \in DOMAIN table' /\ table'[k] = table[k]
  BY <1>3, <1>4, <1>9 DEF Kept
<1> QED BY <1>8, <1>9, <1>10 DEF Candidate

(* A write leaves everybody in order who was, and the person in hand. *)
LEMMA WriteKeepsOrder ==
  ASSUME NEW Owner, OwnRows(Owner), NEW p \in Procs, AloneInv(Owner), Writes(p),
         UNCHANGED people, NEW j \in DOMAIN people[p],
         Trim[people[p][j].sysId] = InHandId(p) \/ InOrder(people[p], j)
  PROVE  InOrder(people[p], j)'
<1> DEFINE id == Trim[people[p][j].sysId]
<1>1. TypeInv /\ OwnerInv(Owner) /\ pc[p] \in Active
  BY DEF AloneInv, Writes, Active
<1>2. id \in Ids \ {Blank} /\ people[p][j].name = Owner[id]
  <2>1. people[p][j] \in Person
    BY <1>1 DEF TypeInv, TypeOK
  <2> QED BY <1>1, <2>1, ConstantsAssumption DEF OwnerInv, PeopleOwned, Person
<1>3. CASE id = InHandId(p)
  <2>1. PICK k \in DOMAIN table' :
           /\ Scannable(table'[k]) /\ Trim[table'[k].sso] = InHandId(p)
           /\ table'[k].dept = Stored(InHand(p).dept)
    BY <1>1, WriteOfRows
  <2>2. k \in RowsWithId(id)'
    BY <1>3, <2>1 DEF RowsWithId, Scannable
  <2>3. isNumericEqual(InHand(p).dept, Stored(InHand(p).dept))
    BY <1>1, InHandOwned, ConstantsAssumption DEF isNumericEqual, Stored, Person
  <2>4. ValidFor(people[p], id, table'[k].dept)
    BY <1>1, <1>3, <2>1, <2>3, InHandOwned DEF ValidFor, InHandId
  <2> QED BY <2>1, <2>2, <2>4 DEF InOrder, Candidate
<1>4. CASE id # InHandId(p)
  <2>1. PICK k \in DOMAIN table : Candidate(k, id, Owner[id]) /\ ValidFor(people[p], id, table[k].dept)
    BY <1>2, <1>4 DEF InOrder
  <2>2. Candidate(k, id, Owner[id])' /\ table'[k] = table[k]
    BY <1>2, <1>4, <2>1, WriteLeavesCandidates
  <2>3. k \in DOMAIN table'
    BY <2>2 DEF Candidate
  <2> QED BY <1>2, <2>1, <2>2, <2>3 DEF InOrder
<1> QED BY <1>3, <1>4

(* And the users that have been given to people before. *)
LEMMA WriteKeepsNumbers ==
  ASSUME NEW Owner, OwnRows(Owner), NEW p \in Procs, AloneInv(Owner), Writes(p),
         NEW j \in DOMAIN usrNos[p], NumberInOrder(p, j),
         NEW k \in DOMAIN table', table'[k].usrNo = usrNos[p][j]
  PROVE  ValidFor(people[p], Trim[people[p][j].sysId], table'[k].dept)
<1>1. /\ TypeInv /\ OwnerInv(Owner) /\ pc[p] \in Active
      /\ DistinctNumbers(table') /\ Kept
  <2>1. Written(p)
    BY DEF Writes, Written
  <2> QED BY <2>1, WriteKeepsKey DEF AloneInv, Writes, Active
<1>2. PICK l \in DOMAIN table : table[l].usrNo = usrNos[p][j] /\ table[l].name = people[p][j].name
  BY <1>1 DEF OwnerInv, ResolvedInv, IsUser
<1>3. k = l
  BY <1>1, <1>2 DEF DistinctNumbers, Kept
<1>4. CASE table'[k] = table[k]
  BY <1>2, <1>3, <1>4 DEF NumberInOrder
<1>5. CASE table'[k] # table[k]
  <2>1. table'[k].dept = Stored(InHand(p).dept) /\ people[p][j].name = InHand(p).name
    BY <1>1, <1>2, <1>3, <1>5, WriteOfRows
  <2>2. Trim[people[p][j].sysId] = InHandId(p)
    <3>1. j \in DOMAIN people[p] /\ people[p][j] \in Person
      <4>1. Len(usrNos[p]) <= Len(people[p]) /\ people[p] \in Seq(Person) /\ usrNos[p] \in Seq(Nat)
        BY <1>1 DEF TypeInv, TypeOK, LengthInv
      <4> QED BY <4>1
    <3>2. /\ Trim[people[p][j].sysId] \in Ids
          /\ people[p][j].name = Owner[Trim[people[p][j].sysId]]
      BY <1>1, <3>1, ConstantsAssumption DEF OwnerInv, PeopleOwned, Person
    <3>3. InHandId(p) \in Ids /\ InHand(p).name = Owner[InHandId(p)]
      BY <1>1, InHandOwned
    <3> QED BY <2>1, <3>2, <3>3 DEF OwnRows
  <2>3. isNumericEqual(InHand(p).dept, Stored(InHand(p).dept))
    BY <1>1, InHandOwned, ConstantsAssumption DEF isNumericEqual, Stored, Person
  <2> QED BY <1>1, <2>1, <2>2, <2>3, InHandOwned DEF ValidFor, InHandId
<1> QED BY <1>4, <1>5

LEMMA WriteKeepsAll ==
  ASSUME NEW Owner, OwnRows(Owner), NEW p \in Procs, AloneInv(Owner), OrderInv, Writes(p),
         UNCHANGED people, NEW j \in DOMAIN usrNos[p], usrNos'[p][j] = usrNos[p][j]
  PROVE  InOrder(people[p], j)' /\ NumberInOrder(p, j)'
<1>1. j \in DOMAIN people[p]
  <2>1. Len(usrNos[p]) <= Len(people[p]) /\ people[p] \in Seq(Person) /\ usrNos[p] \in Seq(Nat)
    BY DEF AloneInv, TypeInv, TypeOK, LengthInv
  <2> QED BY <2>1
<1>2. InOrder(people[p], j) /\ NumberInOrder(p, j)
  BY DEF OrderInv
<1>3. InOrder(people[p], j)'
  BY <1>1, <1>2, WriteKeepsOrder
<1>4. \A k \in DOMAIN table' : table'[k].usrNo = usrNos[p][j] =>
         ValidFor(people[p], Trim[people[p][j].sysId], table'[k].dept)
  BY <1>2, WriteKeepsNumbers
<1>5. NumberInOrder(p, j)'
  BY <1>4 DEF NumberInOrder, ValidFor
<1> QED BY <1>3, <1>5

(* A row that was found, up to date: the person is in order. *)
LEMMA CorrectIsInOrder ==
  ASSUME NEW Owner, OwnRows(Owner), NEW p, Procs = {p}, AloneInv(Owner), pc[p] \in Active,
         NEW k \in DOMAIN table, Candidate(k, InHandId(p), InHand(p).name),
         AlreadyCorrect(p, table[k])
  PROVE  /\ InOrder(people[p], at[p])
         /\ \A l \in DOMAIN table : table[l].usrNo = table[k].usrNo =>
               ValidFor(people[p], Trim[people[p][at[p]].sysId], table[l].dept)
<1>1. InHand(p) = people[p][at[p]] /\ ValidFor(people[p], InHandId(p), table[k].dept)
  BY CorrectIsValid DEF InHand
<1> QED BY <1>1 DEF InOrder, InHandId, AloneInv, KeyInv, DistinctNumbers

(* One number more. *)
LEMMA ResolveGrows ==
  ASSUME TypeInv, NEW p \in Procs, pc[p] \in Active, NEW n \in Nat, Resolve(p, n)
  PROVE  /\ DOMAIN usrNos'[p] = DOMAIN usrNos[p] \cup {at[p]}
         /\ \A j \in DOMAIN usrNos[p] : usrNos'[p][j] = usrNos[p][j]
         /\ usrNos'[p][at[p]] = n
         /\ pc'[p] = "done" => DOMAIN people[p] = DOMAIN usrNos'[p]
         /\ pc'[p] \in {"sso", "done"}
<1>1. /\ usrNos[p] \in Seq(Nat) /\ usrNos'[p] = Append(usrNos[p], n)
      /\ at[p] = Len(usrNos[p]) + 1 /\ at[p] \in DOMAIN people[p]
      /\ people[p] \in Seq(Person)
  BY DEF Resolve, TypeInv, TypeOK, PlaceInv
<1>2. /\ DOMAIN usrNos'[p] = DOMAIN usrNos[p] \cup {at[p]}
      /\ \A j \in DOMAIN usrNos[p] : usrNos'[p][j] = usrNos[p][j]
      /\ usrNos'[p][at[p]] = n
  BY <1>1
<1>3. pc'[p] = IF at[p] < Len(people[p]) THEN "sso" ELSE "done"
  BY DEF Resolve, TypeInv, TypeOK
<1>4. pc'[p] = "done" => at[p] = Len(people[p])
  BY <1>1, <1>3
<1>5. DOMAIN usrNos'[p] = 1 .. at[p]
  BY <1>1
<1>6. DOMAIN people[p] = 1 .. Len(people[p])
  BY <1>1
<1> QED BY <1>2, <1>3, <1>4, <1>5, <1>6

LEMMA InitOrder ==
  ASSUME Init PROVE OrderInv
BY DEF Init, OrderInv, NothingAgain

(* The shape of every preservation: the person in hand may have been resolved,
   and the list may have been completed or unsettled. *)
LEMMA OrderStays ==
  ASSUME NEW p, Procs = {p}, TypeInv, TypeInv', UNCHANGED people,
         \A j \in DOMAIN usrNos'[p] : InOrder(people[p], j)' /\ NumberInOrder(p, j)',
         \/ settled' = <<>>
         \/ settled' = people[p] /\ pc'[p] = "done"
         \/ settled' = settled /\ \A j \in DOMAIN settled : InOrder(settled, j)',
         pc'[p] \in {"update", "max", "insert"} => people'[p] # settled'
  PROVE  OrderInv'
<1>1. pc'[p] = "done" => DOMAIN usrNos'[p] = DOMAIN people'[p]
  BY DEF TypeInv, TypeOK, LengthInv
<1>2. ASSUME NEW j \in DOMAIN settled' PROVE InOrder(settled, j)'
  <2>1. CASE settled' = <<>>
    BY <1>2, <2>1
  <2>2. CASE settled' = people[p] /\ pc'[p] = "done"
    <3>1. settled' = people'[p] /\ j \in DOMAIN usrNos'[p]
      BY <1>1, <1>2, <2>2
    <3>2. InOrder(people[p], j)'
      BY <3>1
    <3> QED BY <3>1, <3>2 DEF InOrder, ValidFor
  <2>3. CASE settled' = settled /\ \A i \in DOMAIN settled : InOrder(settled, i)'
    BY <1>2, <2>3
  <2> QED BY <2>1, <2>2, <2>3
<1> QED BY <1>2 DEF OrderInv, NothingAgain

LEMMA SameRowsSameOrder ==
  ASSUME UNCHANGED table
  PROVE  /\ \A j \in DOMAIN settled :
               InOrder(settled, j) /\ settled' = settled => InOrder(settled, j)'
         /\ \A q \in Procs : \A j \in DOMAIN usrNos[q] :
               people'[q] = people[q] /\ usrNos'[q][j] = usrNos[q][j] =>
                  /\ InOrder(people[q], j) => InOrder(people[q], j)'
                  /\ NumberInOrder(q, j) => NumberInOrder(q, j)'
BY DEF InOrder, ValidFor, Candidate, RowsWithId, NumberInOrder

(* A lookup that found a row: resolved, or to be updated, which does not happen
   to a settled list. *)
LEMMA FoundKeepsOrder ==
  ASSUME NEW Owner, OwnRows(Owner), NEW p, Procs = {p}, AloneInv(Owner), OrderInv, TypeInv',
         pc[p] \in Active, NEW k \in DOMAIN table, Candidate(k, InHandId(p), InHand(p).name),
         Found(p, table[k]), UNCHANGED <<table, people>>, Settle(p) \/ Unsettle(p)
  PROVE  OrderInv'
<1>1. TypeInv /\ table[k].usrNo \in Nat /\ people[p] # <<>>
  BY NumbersAreNat DEF AloneInv, TypeInv, PlaceInv
<1>2. CASE AlreadyCorrect(p, table[k])
  <2>1. Resolve(p, table[k].usrNo)
    BY <1>2 DEF Found
  <2>2. /\ DOMAIN usrNos'[p] = DOMAIN usrNos[p] \cup {at[p]}
        /\ \A j \in DOMAIN usrNos[p] : usrNos'[p][j] = usrNos[p][j]
        /\ usrNos'[p][at[p]] = table[k].usrNo
        /\ pc'[p] \in {"sso", "done"}
    BY <1>1, <2>1, ResolveGrows
  <2>3. ASSUME NEW j \in DOMAIN usrNos'[p]
        PROVE  InOrder(people[p], j)' /\ NumberInOrder(p, j)'
    <3>1. CASE j \in DOMAIN usrNos[p]
      BY <2>2, <3>1, SameRowsSameOrder DEF OrderInv
    <3>2. CASE j = at[p]
      <4>1. /\ InOrder(people[p], at[p])
            /\ \A l \in DOMAIN table : table[l].usrNo = table[k].usrNo =>
                  ValidFor(people[p], Trim[people[p][at[p]].sysId], table[l].dept)
        BY <1>2, CorrectIsInOrder
      <4>2. InOrder(people[p], j)'
        BY <3>2, <4>1 DEF InOrder, ValidFor, Candidate, RowsWithId
      <4>3. NumberInOrder(p, j)'
        BY <2>2, <3>2, <4>1 DEF NumberInOrder, ValidFor
      <4> QED BY <4>2, <4>3
    <3> QED BY <2>2, <3>1, <3>2
  <2>4. \/ settled' = <<>>
        \/ settled' = people[p] /\ pc'[p] = "done"
        \/ settled' = settled /\ \A j \in DOMAIN settled : InOrder(settled, j)'
    BY SameRowsSameOrder DEF Settle, Unsettle, OrderInv
  <2> QED BY <1>1, <2>2, <2>3, <2>4, OrderStays
<1>3. CASE ~AlreadyCorrect(p, table[k])
  <2>1. people[p] # settled
    BY <1>3, SettledIsCorrect
  <2>2. pc'[p] = "update" /\ UNCHANGED usrNos
    BY <1>1, <1>3 DEF Found, TypeInv, TypeOK
  <2>3. \A j \in DOMAIN usrNos'[p] : InOrder(people[p], j)' /\ NumberInOrder(p, j)'
    BY <2>2, SameRowsSameOrder DEF OrderInv
  <2>4. \/ settled' = <<>>
        \/ settled' = settled /\ \A j \in DOMAIN settled : InOrder(settled, j)'
    BY <2>2, SameRowsSameOrder DEF Settle, Unsettle, OrderInv
  <2> QED BY <1>1, <2>1, <2>2, <2>3, <2>4, OrderStays
<1> QED BY <1>2, <1>3

(* A statement that finds and writes nothing. *)
LEMMA GotoKeepsOrder ==
  ASSUME NEW Owner, OwnRows(Owner), NEW p, Procs = {p}, AloneInv(Owner), OrderInv, TypeInv',
         UNCHANGED <<table, people, usrNos>>, settled' = settled \/ settled' = <<>>,
         pc'[p] \in {"update", "max", "insert"} => people[p] # settled'
  PROVE  OrderInv'
<1>1. \A j \in DOMAIN usrNos'[p] : InOrder(people[p], j)' /\ NumberInOrder(p, j)'
  BY SameRowsSameOrder DEF OrderInv
<1>2. \/ settled' = <<>>
      \/ settled' = settled /\ \A j \in DOMAIN settled : InOrder(settled, j)'
  BY SameRowsSameOrder DEF OrderInv
<1> QED BY <1>1, <1>2, OrderStays DEF AloneInv

LEMMA StepOrder ==
  ASSUME NEW Owner, OwnRows(Owner), NEW p, Procs = {p}, AloneInv(Owner), OrderInv, AnyStep
  PROVE  OrderInv'
<1>1. TypeInv /\ TypeInv' /\ OwnerInv(Owner)
  BY StepType DEF AloneInv
<1>2. ASSUME NEW list \in Lists, Begins(p, list) PROVE OrderInv'
  <2>1. UNCHANGED <<table, settled>> /\ usrNos'[p] = <<>> /\ pc'[p] \in {"done", "sso"}
    BY <1>1, <1>2 DEF Begins, TypeInv, TypeOK
  <2> QED BY <2>1, SameRowsSameOrder DEF OrderInv, NothingAgain
<1>3. ASSUME BySSO(p) PROVE OrderInv'
  <2>1. pc[p] = "sso" /\ pc[p] \in Active /\ UNCHANGED <<table, people>> /\ Settle(p)
    BY <1>3 DEF BySSO, Active
  <2>2. CASE Goto(p, "name") \/ Goto(p, "failed")
    <3>1. pc'[p] \in {"name", "failed"} /\ UNCHANGED usrNos
      BY <1>1, <2>2 DEF Goto, TypeInv, TypeOK
    <3> QED BY <1>1, <2>1, <3>1, GotoKeepsOrder DEF Settle
  <2>3. ASSUME NEW k \in DOMAIN table, SsoMatches(table[k].sso, InHand(p).sysId),
               Scannable(table[k]), Found(p, table[k])
        PROVE  OrderInv'
    BY <1>1, <2>1, <2>3, FoundIsCandidate, FoundKeepsOrder
  <2> QED BY <1>3, <2>2, <2>3 DEF BySSO, RowsOf
<1>4. ASSUME ByName(p) PROVE OrderInv'
  <2>1. pc[p] = "name" /\ pc[p] \in Active /\ UNCHANGED <<table, people>>
    BY <1>4 DEF ByName, Active
  <2>2. PICK rows \in SUBSET Namesakes(InHand(p).name) :
           /\ Named(p, rows)
           /\ IF rows = Namesakes(InHand(p).name) THEN Settle(p) ELSE Unsettle(p)
    BY <1>4 DEF ByName
  <2>3. CASE rows = {} /\ Goto(p, "max")
    <3>1. pc'[p] = "max" /\ UNCHANGED usrNos /\ people[p] # <<>>
      BY <1>1, <2>1, <2>3 DEF Goto, TypeInv, TypeOK, PlaceInv
    <3>2. CASE rows # Namesakes(InHand(p).name)
      <4>1. settled' = <<>>
        BY <2>2, <3>1, <3>2 DEF Unsettle
      <4> QED BY <1>1, <2>1, <3>1, <4>1, GotoKeepsOrder
    <3>3. CASE rows = Namesakes(InHand(p).name)
      <4>1. settled' = settled
        BY <2>2, <3>1, <3>3 DEF Settle
      <4>2. people[p] # settled
        <5>1. SUFFICES ASSUME people[p] = settled PROVE FALSE
          OBVIOUS
        <5>2. PICK k \in DOMAIN table : Candidate(k, InHandId(p), InHand(p).name)
          BY <2>1, <5>1, SettledIsCorrect
        <5>3. InHandId(p) \in Ids \ {Blank}
          BY <1>1, <2>1, InHandOwned
        <5>4. RowsWithId(InHandId(p)) = {}
          BY <2>1, <5>3, AloneWeight DEF AloneInv
        <5>5. k \in Namesakes(InHand(p).name)
          BY <5>2, <5>4 DEF Candidate, Namesakes
        <5> QED BY <2>3, <3>3, <5>5
      <4> QED BY <1>1, <2>1, <3>1, <4>1, <4>2, GotoKeepsOrder
    <3> QED BY <3>2, <3>3
  <2>4. ASSUME NEW k \in Namesakes(InHand(p).name), Found(p, table[k])
        PROVE  OrderInv'
    <3>1. k \in DOMAIN table /\ Scannable(table[k]) /\ table[k].name = InHand(p).name
      BY <2>4 DEF Namesakes
    <3>2. Candidate(k, InHandId(p), InHand(p).name)
      BY <2>1, <3>1, FoundIsCandidate
    <3> QED BY <1>1, <2>1, <2>2, <2>4, <3>1, <3>2, FoundKeepsOrder
  <2> QED BY <2>2, <2>3, <2>4 DEF Named, Preferred
<1>5. ASSUME Update(p) \/ InsertUser(p) PROVE OrderInv'
  <2>1. Writes(p) /\ pc[p] \in Active /\ UNCHANGED people /\ Unsettle(p)
    BY <1>5 DEF Update, InsertUser, Writes, Active
  <2>2. PICK n \in Nat : Resolve(p, n) /\ n = IF pc[p] = "update" THEN found[p] ELSE nextNo[p]
    BY <1>1, <1>5 DEF Update, InsertUser, TypeInv, TypeOK
  <2>3. /\ DOMAIN usrNos'[p] = DOMAIN usrNos[p] \cup {at[p]}
        /\ \A j \in DOMAIN usrNos[p] : usrNos'[p][j] = usrNos[p][j]
        /\ usrNos'[p][at[p]] = n /\ pc'[p] \in {"sso", "done"}
    BY <1>1, <2>1, <2>2, ResolveGrows
  <2>4. at[p] \in DOMAIN people[p] /\ Trim[people[p][at[p]].sysId] = InHandId(p)
    BY <1>1, <2>1, InHandOwned DEF InHandId
  <2>5. \A j \in DOMAIN usrNos[p] : InOrder(people[p], j)' /\ NumberInOrder(p, j)'
    BY <2>1, <2>3, WriteKeepsAll
  <2>7. ASSUME NEW k \in DOMAIN table', table'[k].usrNo = n
        PROVE  ValidFor(people[p], InHandId(p), table'[k].dept)
    <3>1. table'[k].dept = Stored(InHand(p).dept)
      <4>1. CASE pc[p] = "update"
        <5>1. table' = Updated(p) /\ n = found[p]
          BY <1>5, <2>2, <4>1 DEF Update, InsertUser
        <5> QED BY <1>1, <2>7, <5>1, UpdateKeeps DEF Kept
      <4>2. CASE pc[p] = "insert"
        <5>1. table' = Append(table, NewRow(p)) /\ n = nextNo[p] /\ ~Taken(p)
          BY <1>5, <2>2, <4>2 DEF Update, InsertUser
        <5>2. k \notin DOMAIN table
          <6>1. n \notin Numbers(table)
            BY <4>2, <5>1 DEF AloneInv, KeyInv, FreshInv
          <6>2. k \in DOMAIN table => table'[k] = table[k]
            BY <1>1, <5>1, InsertKeeps
          <6> QED BY <2>7, <6>1, <6>2 DEF Numbers
        <5>3. k = Len(table) + 1 /\ table'[k] = NewRow(p)
          BY <1>1, <2>7, <5>1, <5>2, InsertKeeps
        <5> QED BY <5>3 DEF NewRow
      <4> QED BY <2>1, <4>1, <4>2 DEF Writes
    <3>2. isNumericEqual(InHand(p).dept, Stored(InHand(p).dept))
      BY <1>1, <2>1, InHandOwned, ConstantsAssumption DEF isNumericEqual, Stored, Person
    <3> QED BY <2>4, <3>1, <3>2 DEF ValidFor, InHand
  <2>8. ASSUME NEW j, j = at[p] PROVE InOrder(people[p], j)' /\ NumberInOrder(p, j)'
    <3>1. InOrder(people[p], j)'
      BY <2>1, <2>4, <2>8, WriteKeepsOrder
    <3>2. \A k \in DOMAIN table' : table'[k].usrNo = usrNos'[p][j] =>
             ValidFor(people'[p], Trim[people'[p][j].sysId], table'[k].dept)
      BY <2>1, <2>3, <2>4, <2>7, <2>8
    <3>3. NumberInOrder(p, j)'
      BY <3>2 DEF NumberInOrder, ValidFor
    <3> QED BY <3>1, <3>3
  <2>9. (pc'[p] = "done" /\ settled' = people[p]) \/ settled' = <<>>
    BY <2>1 DEF Unsettle
  <2> QED BY <1>1, <2>1, <2>3, <2>5, <2>8, <2>9, OrderStays
<1>6. ASSUME ReadMax(p) \/ InsertRefused(p) \/ Halts(p) PROVE OrderInv'
  <2>1. UNCHANGED <<table, people, usrNos, settled>>
    BY <1>6 DEF ReadMax, InsertRefused, Halts, Goto
  <2>2. pc'[p] \in {"update", "max", "insert"} => pc[p] = "max"
    BY <1>1, <1>6 DEF ReadMax, InsertRefused, Halts, Goto, TypeInv, TypeOK
  <2> QED BY <1>1, <2>1, <2>2, GotoKeepsOrder DEF OrderInv, NothingAgain
<1>7. ASSUME AnswerLost(p) PROVE OrderInv'
  <2>1. Writes(p) /\ UNCHANGED <<people, usrNos>> /\ settled' = <<>>
    BY <1>7 DEF AnswerLost, Writes, Goto
  <2>2. pc'[p] = "failed"
    BY <1>1, <1>7 DEF AnswerLost, Goto, TypeInv, TypeOK
  <2>3. ASSUME NEW j \in DOMAIN usrNos'[p] PROVE InOrder(people[p], j)' /\ NumberInOrder(p, j)'
    BY <2>1, <2>3, WriteKeepsAll
  <2> QED BY <1>1, <2>1, <2>2, <2>3, OrderStays
<1> QED BY <1>2, <1>3, <1>4, <1>5, <1>6, <1>7 DEF AnyStep, Step

LEMMA AsideOrder == ASSUME OrderInv, Aside PROVE OrderInv'
BY DEF Aside, OrderInv, NothingAgain, InOrder, NumberInOrder, Candidate, ValidFor, RowsWithId

(* The inductive invariant of runs that follow one another. *)
THEOREM OrderInvHolds ==
  ASSUME NEW CONSTANT Owner, OwnRows(Owner), NEW CONSTANT p, Procs = {p}
  PROVE  Spec => []AloneInv(Owner) /\ []OrderInv
<1>1. Init => AloneInv(Owner) /\ OrderInv
  BY InitAlone, InitOrder
<1>2. AloneInv(Owner) /\ OrderInv /\ [Next]_vars => AloneInv(Owner)' /\ OrderInv'
  BY StepAlone, AsideAlone, StepOrder, AsideOrder, NextIsAStep, StutterAside
     DEF AloneInv
<1> QED BY <1>1, <1>2, PTL DEF Spec

LEMMA OrderIsNoChurn == OrderInv => NoChurn
BY DEF OrderInv, NothingAgain, NoChurn

(* Where runs follow one another and every id has its own name and at most one
   row, repeating a completed run writes nothing, whatever has failed before it
   and however the files disagree about somebody's department. *)
THEOREM NoChurnHolds ==
  ASSUME NEW CONSTANT Owner, OwnRows(Owner), NEW CONSTANT p, Procs = {p}
  PROVE  Spec => []NoChurn
BY OrderIsNoChurn, OrderInvHolds, PTL

LEMMA OrderIsListed ==
  ASSUME NEW Owner, AloneInv(Owner), OrderInv PROVE DeptsListed
<1>1. ASSUME NEW q \in Procs, pc[q] = "done", NEW j \in DOMAIN people[q], NEW k \in DOMAIN table,
             table[k].usrNo = usrNos[q][j]
      PROVE  \E dept \in ValidDepsBySysID(q, Trim[people[q][j].sysId]) :
                isNumericEqual(dept, table[k].dept)
  <2>1. DOMAIN usrNos[q] = DOMAIN people[q]
    BY <1>1 DEF AloneInv, TypeInv, TypeOK, LengthInv
  <2>2. NumberInOrder(q, j)
    BY <1>1, <2>1 DEF OrderInv
  <2> QED BY <1>1, <2>2 DEF NumberInOrder, ValidFor, ValidDepsBySysID
<1>2. \A q \in Procs : pc[q] = "done" => DOMAIN usrNos[q] = DOMAIN people[q]
  BY DEF AloneInv, TypeInv, TypeOK, LengthInv
<1> QED BY <1>1 DEF DeptsListed

(* And a completed run leaves every user in a department its files name. *)
THEOREM DeptsListedHolds ==
  ASSUME NEW CONSTANT Owner, OwnRows(Owner), NEW CONSTANT p, Procs = {p}
  PROVE  Spec => []DeptsListed
<1>1. AloneInv(Owner) /\ OrderInv => DeptsListed
  BY OrderIsListed
<1> QED BY <1>1, OrderInvHolds, PTL
-----------------------------------------------------------------------------
(* Runs one after another, and namesakes.  Everybody called like person i had
   a row of his own when the run began. *)
AllHad(p, i) ==
    \A m \in DOMAIN people[p] :
        people[p][m].name = people[p][i].name => m \in had[p]

IdOf(p, i) == Trim[people[p][i].sysId]

(* Then all of them are found by their ids: each has a row as long as the run
   lasts, the numbers given are those of such rows, nobody is looked up by
   name, and an update writes to the row of the person himself. *)
ApartInv(p) ==
    pc[p] \in Active \cup {"done"} =>
        /\ \A i \in DOMAIN people[p] : AllHad(p, i) => NosWithId(IdOf(p, i)) # {}
        /\ \A i \in DOMAIN usrNos[p] : AllHad(p, i) => usrNos[p][i] \in NosWithId(IdOf(p, i))
        /\ pc[p] \in {"name", "max", "insert"} => ~AllHad(p, at[p])
        /\ pc[p] = "update" /\ AllHad(p, at[p]) => found[p] \in NosWithId(IdOf(p, at[p]))

LEMMA PersonOwned ==
  ASSUME TypeInv, NEW Owner, OwnerInv(Owner), NEW p \in Procs, NEW i \in DOMAIN people[p]
  PROVE  IdOf(p, i) \in Ids \ {Blank} /\ people[p][i].name = Owner[IdOf(p, i)]
<1>1. people[p][i] \in Person
  BY DEF TypeInv, TypeOK
<1> QED BY <1>1, ConstantsAssumption DEF OwnerInv, PeopleOwned, IdOf, Person

LEMMA RowsOfId ==
  ASSUME PadSpace, NEW x PROVE RowsOf(x) = RowsWithId(Trim[x])
BY DEF RowsOf, RowsWithId, SsoMatches

LEMMA InitApart == ASSUME NEW p \in Procs, Init PROVE ApartInv(p)
BY DEF Init, ApartInv, Active

(* The row an update writes to keeps its id, if the person it belongs to is
   one of those: it was found by that id. *)
LEMMA UpdateKeepsApart ==
  ASSUME TypeInv, NEW Owner, OwnerInv(Owner), NEW p \in Procs, ApartInv(p),
         pc[p] = "update", table' = Updated(p),
         NEW i \in DOMAIN people[p], AllHad(p, i), NEW id, id = IdOf(p, i)
  PROVE  NosWithId(id) \subseteq NosWithId(id)'
<1>1. id \in Ids \ {Blank} /\ people[p][i].name = Owner[id]
  BY PersonOwned
<1>2. SUFFICES ASSUME NEW k \in RowsWithId(id) PROVE k \in RowsWithId(id)' /\ table'[k].usrNo = table[k].usrNo
  BY DEF NosWithId
<1>3. k \in DOMAIN table /\ table[k].sso # Null /\ Trim[table[k].sso] = id
  BY DEF RowsWithId
<1>4. k \in DOMAIN table' /\ table'[k].usrNo = table[k].usrNo
  BY <1>3, UpdateKeeps DEF Kept
<1>5. CASE table[k].usrNo # found[p]
  BY <1>3, <1>4, <1>5, UpdateKeeps DEF RowsWithId
<1>6. CASE table[k].usrNo = found[p]
  <2>1. at[p] \in DOMAIN people[p] /\ InHand(p) = people[p][at[p]]
    BY DEF TypeInv, PlaceInv, Active, InHand
  <2>2. table[k].name = InHand(p).name
    BY <1>3, <1>6 DEF OwnerInv, FoundInv, IsUser, DistinctNumbers
  <2>3. table[k].name = people[p][i].name
    BY <1>1, <1>3 DEF OwnerInv, RowsOwned
  <2>4. AllHad(p, at[p])
    BY <2>1, <2>2, <2>3 DEF AllHad
  <2>5. PICK l \in RowsWithId(IdOf(p, at[p])) : table[l].usrNo = found[p]
    BY <2>4 DEF ApartInv, Active, NosWithId
  <2>6. l = k
    BY <1>3, <1>6, <2>5 DEF RowsWithId, OwnerInv, DistinctNumbers
  <2>7. IdOf(p, at[p]) = id
    BY <1>3, <2>5, <2>6 DEF RowsWithId
  <2>8. table'[k].sso = id
    BY <1>3, <1>6, <2>1, <2>7, UpdateKeeps DEF IdOf
  <2>9. Trim[id] = id /\ id # Null
    BY <1>1, <1>3, ConstantsAssumption, NumbersAreNat DEF TypeInv, Row
  <2> QED BY <1>4, <2>8, <2>9 DEF RowsWithId
<1> QED BY <1>5, <1>6

LEMMA WriteKeepsApart ==
  ASSUME TypeInv, NEW Owner, OwnerInv(Owner), NEW p \in Procs, ApartInv(p), Written(p),
         UNCHANGED people
  PROVE  \A i \in DOMAIN people[p] :
            AllHad(p, i) => NosWithId(IdOf(p, i)) \subseteq NosWithId(IdOf(p, i))'
<1> SUFFICES ASSUME NEW i \in DOMAIN people[p], AllHad(p, i), NEW id, id = IdOf(p, i)
             PROVE  NosWithId(id) \subseteq NosWithId(id)'
  BY DEF IdOf, NosWithId, RowsWithId
<1>1. CASE UNCHANGED table
  BY <1>1 DEF NosWithId, RowsWithId
<1>2. CASE pc[p] = "update" /\ table' = Updated(p)
  BY <1>2, UpdateKeepsApart
<1>3. CASE pc[p] = "insert" /\ ~Taken(p) /\ table' = Append(table, NewRow(p))
  BY <1>3, InsertKeeps DEF Kept, NosWithId, RowsWithId
<1> QED BY <1>1, <1>2, <1>3 DEF Written

(* The shape of every preservation: one number more, or none, and the next
   statement for the same person. *)
LEMMA ApartStays ==
  ASSUME NEW p \in Procs, TypeInv, TypeInv', ApartInv(p), pc[p] \in Active,
         UNCHANGED <<people, had>>,
         \A i \in DOMAIN people[p] :
            AllHad(p, i) => NosWithId(IdOf(p, i)) \subseteq NosWithId(IdOf(p, i))',
         \A i \in DOMAIN usrNos'[p] :
            \/ i \in DOMAIN usrNos[p] /\ usrNos'[p][i] = usrNos[p][i]
            \/ AllHad(p, i) => usrNos'[p][i] \in NosWithId(IdOf(p, i))',
         pc'[p] \in {"name", "max", "insert"} => at'[p] = at[p] /\ ~AllHad(p, at[p]),
         pc'[p] = "update" =>
            at'[p] = at[p] /\ (AllHad(p, at[p]) => found'[p] \in NosWithId(IdOf(p, at[p]))')
  PROVE  ApartInv(p)'
<1>1. \A i : (AllHad(p, i)') = AllHad(p, i) /\ (IdOf(p, i)') = IdOf(p, i)
  BY DEF AllHad, IdOf
<1>2. DOMAIN usrNos[p] \subseteq DOMAIN people[p]
  BY DEF TypeInv, TypeOK, LengthInv
<1>3. \A i \in DOMAIN people'[p] : AllHad(p, i)' => NosWithId(IdOf(p, i))' # {}
  BY <1>1 DEF ApartInv
<1>4. \A i \in DOMAIN usrNos'[p] : AllHad(p, i)' => usrNos'[p][i] \in NosWithId(IdOf(p, i))'
  BY <1>1, <1>2 DEF ApartInv
<1>5. pc'[p] \in {"name", "max", "insert"} => ~AllHad(p, at[p])'
  BY <1>1
<1>6. pc'[p] = "update" => (AllHad(p, at[p])' => found'[p] \in NosWithId(IdOf(p, at[p]))')
  BY <1>1 DEF AllHad, IdOf
<1> QED BY <1>3, <1>4, <1>5, <1>6 DEF ApartInv

LEMMA FoundKeepsApart ==
  ASSUME NEW p \in Procs, TypeInv, TypeInv', ApartInv(p), pc[p] \in Active,
         UNCHANGED <<table, people, had>>, NEW k \in DOMAIN table, Found(p, table[k]),
         AllHad(p, at[p]) => k \in RowsWithId(IdOf(p, at[p]))
  PROVE  ApartInv(p)'
<1>1. \A i \in DOMAIN people[p] :
         AllHad(p, i) => NosWithId(IdOf(p, i)) \subseteq NosWithId(IdOf(p, i))'
  BY DEF NosWithId, RowsWithId, IdOf
<1> PICK i : i = at[p]
  OBVIOUS
<1>2. table[k].usrNo \in Nat
  BY NumbersAreNat DEF TypeInv
<1>3. AllHad(p, i) => table[k].usrNo \in NosWithId(IdOf(p, i))'
  BY DEF NosWithId, RowsWithId, IdOf
<1>4. CASE AlreadyCorrect(p, table[k])
  <2>1. Resolve(p, table[k].usrNo)
    BY <1>4 DEF Found
  <2> QED BY <1>1, <1>2, <1>3, <2>1, ResolveGrows, ApartStays
<1>5. CASE ~AlreadyCorrect(p, table[k])
  <2>1. pc'[p] = "update" /\ found'[p] = table[k].usrNo /\ UNCHANGED <<usrNos, at>>
    BY <1>5 DEF Found, TypeInv, TypeOK
  <2> QED BY <1>1, <1>3, <2>1, ApartStays
<1> QED BY <1>4, <1>5

LEMMA StepApart ==
  ASSUME PadSpace, NEW Owner, TypeInv, OwnerInv(Owner), NEW p \in Procs,
         Procs = {p}, ApartInv(p), AnyStep
  PROVE  ApartInv(p)'
<1>1. TypeInv'
  BY StepType
<1>2. ASSUME UNCHANGED <<table, people>>
      PROVE  \A i \in DOMAIN people[p] :
                AllHad(p, i) => NosWithId(IdOf(p, i)) \subseteq NosWithId(IdOf(p, i))'
  BY <1>2 DEF NosWithId, RowsWithId, IdOf
<1>3. ASSUME NEW list \in Lists, Begins(p, list) PROVE ApartInv(p)'
  <2>1. /\ people'[p] = list /\ usrNos'[p] = <<>> /\ pc'[p] \in {"done", "sso"}
        /\ had'[p] = {j \in DOMAIN list : RowsOf(list[j].sysId) # {}}
        /\ UNCHANGED table
    BY <1>3 DEF Begins, TypeInv, TypeOK
  <2>2. ASSUME NEW j \in had'[p] PROVE NosWithId(IdOf(p, j))' # {}
    <3>1. RowsOf(list[j].sysId) # {}
      BY <2>1, <2>2
    <3>2. PICK k \in RowsWithId(Trim[list[j].sysId]) : TRUE
      BY <3>1, RowsOfId
    <3>3. /\ k \in DOMAIN table' /\ table'[k].sso # Null
          /\ Trim[table'[k].sso] = Trim[people'[p][j].sysId]
      BY <2>1, <3>2 DEF RowsWithId
    <3>4. k \in RowsWithId(IdOf(p, j))'
      BY <3>3 DEF RowsWithId, IdOf
    <3> QED BY <3>4 DEF NosWithId
  <2>3. \A i \in DOMAIN people'[p] : AllHad(p, i)' => i \in had'[p]
    BY DEF AllHad
  <2> QED BY <2>1, <2>2, <2>3 DEF ApartInv
<1>4. ASSUME BySSO(p) PROVE ApartInv(p)'
  <2>1. /\ pc[p] = "sso" /\ pc[p] \in Active /\ UNCHANGED <<table, people, had>>
        /\ at[p] \in DOMAIN people[p]
        /\ RowsOf(InHand(p).sysId) = RowsWithId(IdOf(p, at[p]))
    BY <1>4, RowsOfId DEF BySSO, Active, history, TypeInv, PlaceInv, InHand, IdOf
  <2>2. CASE RowsOf(InHand(p).sysId) = {} /\ Goto(p, "name")
    <3>1. NosWithId(IdOf(p, at[p])) = {}
      BY <2>1, <2>2 DEF NosWithId
    <3>2. ~AllHad(p, at[p])
      BY <2>1, <3>1 DEF ApartInv
    <3>3. pc'[p] = "name" /\ UNCHANGED <<usrNos, at>>
      BY <2>2 DEF Goto, TypeInv, TypeOK
    <3> QED BY <1>1, <1>2, <2>1, <3>2, <3>3, ApartStays
  <2>3. CASE Goto(p, "failed")
    BY <1>1, <2>3 DEF Goto, ApartInv, Active, TypeInv, TypeOK
  <2>4. ASSUME NEW k \in RowsOf(InHand(p).sysId), Found(p, table[k]) PROVE ApartInv(p)'
    <3>1. k \in DOMAIN table
      BY <2>4 DEF RowsOf
    <3> QED BY <1>1, <2>1, <2>4, <3>1, FoundKeepsApart
  <2> QED BY <1>4, <2>2, <2>3, <2>4 DEF BySSO
<1>5. ASSUME ByName(p) PROVE ApartInv(p)'
  <2>1. /\ pc[p] = "name" /\ pc[p] \in Active /\ UNCHANGED <<table, people, had>>
        /\ ~AllHad(p, at[p])
    BY <1>5 DEF ByName, Active, history, ApartInv
  <2>2. CASE Goto(p, "max")
    <3>1. pc'[p] = "max" /\ UNCHANGED <<usrNos, at>>
      BY <2>2 DEF Goto, TypeInv, TypeOK
    <3> QED BY <1>1, <1>2, <2>1, <3>1, ApartStays
  <2>3. ASSUME NEW k \in Namesakes(InHand(p).name), Found(p, table[k]) PROVE ApartInv(p)'
    BY <1>1, <2>1, <2>3, FoundKeepsApart DEF Namesakes
  <2> QED BY <1>5, <2>2, <2>3 DEF ByName, Named, Preferred
<1>6. ASSUME Update(p) \/ InsertUser(p) PROVE ApartInv(p)'
  <2>1. /\ pc[p] \in Active /\ Written(p) /\ UNCHANGED <<people, had>>
        /\ at[p] \in DOMAIN people[p]
    BY <1>6 DEF Update, InsertUser, Written, Active, history, TypeInv, PlaceInv
  <2>2. \A i \in DOMAIN people[p] :
           AllHad(p, i) => NosWithId(IdOf(p, i)) \subseteq NosWithId(IdOf(p, i))'
    BY <2>1, WriteKeepsApart
  <2>3. PICK n \in Nat : /\ Resolve(p, n)
                         /\ AllHad(p, at[p]) => n \in NosWithId(IdOf(p, at[p]))
    <3>1. CASE Update(p)
      BY <3>1 DEF Update, ApartInv, Active, TypeInv, TypeOK
    <3>2. CASE InsertUser(p)
      BY <3>2 DEF InsertUser, ApartInv, Active, TypeInv, TypeOK
    <3> QED BY <1>6, <3>1, <3>2
  <2>4. ASSUME NEW i, i = at[p], AllHad(p, i) PROVE n \in NosWithId(IdOf(p, i))'
    BY <2>1, <2>2, <2>3, <2>4
  <2> QED BY <1>1, <2>1, <2>2, <2>3, <2>4, ResolveGrows, ApartStays
<1>7. ASSUME ReadMax(p) PROVE ApartInv(p)'
  <2>1. /\ pc[p] = "max" /\ pc[p] \in Active /\ UNCHANGED <<table, people, had, usrNos, at>>
        /\ pc'[p] = "insert" /\ ~AllHad(p, at[p])
    BY <1>7 DEF ReadMax, Goto, Active, history, ApartInv, TypeInv, TypeOK
  <2> QED BY <1>1, <1>2, <2>1, ApartStays
<1>8. ASSUME InsertRefused(p) \/ Halts(p) \/ AnswerLost(p) PROVE ApartInv(p)'
  <2>1. pc'[p] = "failed"
    BY <1>8 DEF InsertRefused, Halts, AnswerLost, Goto, TypeInv, TypeOK
  <2> QED BY <2>1 DEF ApartInv, Active
<1> QED BY <1>3, <1>4, <1>5, <1>6, <1>7, <1>8 DEF AnyStep, Step

LEMMA AsideApart == ASSUME NEW p \in Procs, ApartInv(p), Aside PROVE ApartInv(p)'
BY DEF Aside, ApartInv, AllHad, IdOf, NosWithId, RowsWithId

LEMMA ApartIsKept ==
  ASSUME TypeInv, NEW Owner, OwnerInv(Owner), NEW p \in Procs, Procs = {p}, ApartInv(p)
  PROVE  PeopleKeptApart
<1>1. SUFFICES ASSUME pc[p] = "done", NEW i \in DOMAIN people[p], NEW j \in DOMAIN people[p],
                      IdOf(p, i) # IdOf(p, j), usrNos[p][i] = usrNos[p][j]
               PROVE  people[p][i].name = people[p][j].name /\ ~AllHad(p, i)
  BY DEF PeopleKeptApart, IdOf, AllHad
<1>2. DOMAIN usrNos[p] = DOMAIN people[p]
  BY <1>1 DEF TypeInv, TypeOK, LengthInv
<1>3. people[p][i].name = people[p][j].name
  BY <1>1, <1>2 DEF OwnerInv, ResolvedInv, IsUser, DistinctNumbers
<1>4. ASSUME AllHad(p, i) PROVE FALSE
  <2>1. AllHad(p, j)
    BY <1>3, <1>4 DEF AllHad
  <2>2. PICK k \in RowsWithId(IdOf(p, i)) : table[k].usrNo = usrNos[p][i]
    BY <1>1, <1>2, <1>4 DEF ApartInv, NosWithId
  <2>3. PICK l \in RowsWithId(IdOf(p, j)) : table[l].usrNo = usrNos[p][j]
    BY <1>1, <1>2, <2>1 DEF ApartInv, NosWithId
  <2> QED BY <1>1, <2>2, <2>3 DEF RowsWithId, OwnerInv, DistinctNumbers
<1> QED BY <1>3, <1>4

(* Where runs follow one another, every id belongs to one name, namesakes
   allowed, and the collation ignores the padding: a run gives two people one
   user only if they are namesakes and one of the name had no row when it began. *)
THEOREM PeopleKeptApartHolds ==
  ASSUME PadSpace, NEW CONSTANT Owner, Owned(Owner), NEW CONSTANT p, Procs = {p}
  PROVE  Spec => []PeopleKeptApart
<1>1. Init => ApartInv(p)
  BY InitApart
<1>2. TypeInv /\ OwnerInv(Owner) /\ ApartInv(p) /\ [Next]_vars => ApartInv(p)'
  BY StepApart, AsideApart, NextIsAStep, StutterAside
<1>3. TypeInv /\ OwnerInv(Owner) /\ ApartInv(p) => PeopleKeptApart
  BY ApartIsKept
<1> QED BY <1>1, <1>2, <1>3, TypeInvHolds, OwnerInvHolds, PTL DEF Spec
=============================================================================
