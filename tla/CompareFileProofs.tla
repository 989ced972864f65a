------------------------- MODULE CompareFileProofs -------------------------
(***************************************************************************)
(* Theorems about whole runs: what UserMatchProofs shows of the users part *)
(* stays true beside the role parts, and when a run is over its files and  *)
(* the roles agree.                                                        *)
(***************************************************************************)
EXTENDS CompareFile, UserMatchProofs

AtRole == {"list", "delete", "insert"}

(* What the proofs read of the role part. *)
RoleTyped ==
    /\ DOMAIN rows = Roles
    /\ rolePc \in [Procs -> AtRole \cup {"idle", "skipped", "done", "failed",
                                         "verifyFailed", "crashed"}]
    /\ DOMAIN role = Procs /\ DOMAIN remote = Procs

FilesTyped ==
    /\ filesData \in [Procs -> Seq(File)]
    /\ doing \in [Procs -> Nat \ {0}]
    /\ DOMAIN begins = Procs

(* A statement of the role part touches its own role only, and says "done"
   when it has just read the members that the file names. *)
Listed(p) == {remote[p][i].usrNo : i \in DOMAIN remote[p]} \ {0}

RoleStatement(p) ==
    /\ rolePc[p] \in AtRole
    /\ UNCHANGED faults \/ Fault
    /\ UNCHANGED <<role, remote>>
    /\ DOMAIN rows' = Roles
    /\ \A r \in Roles \ {role[p]} : rows'[r] = rows[r]
    /\ \/ UNCHANGED rolePc
       \/ \E l \in {"delete", "insert", "failed", "verifyFailed", "crashed"} :
             rolePc' = [rolePc EXCEPT ![p] = l]
       \/ /\ rolePc' = [rolePc EXCEPT ![p] = "done"]
          /\ UNCHANGED rows /\ MembersOf(role[p]) = Listed(p)

LEMMA RoleStatements ==
  ASSUME RoleTyped, NEW p \in Procs, RolePart(p)!Step(p) \/ RolePart(p)!Failure(p)
  PROVE  RoleStatement(p)
<1> USE DEF RolePart!dbVars, RoleTyped, AtRole, RoleStatement
<1>1. ASSUME RolePart(p)!ListBefore(p) \/ RolePart(p)!ListUnreadable(p)
      PROVE  RoleStatement(p)
  BY <1>1 DEF RolePart!ListBefore, RolePart!ListUnreadable, RolePart!AtVerify
<1>2. ASSUME NEW u \in UsrNos, RolePart(p)!MarkExisting(p, u) PROVE RoleStatement(p)
  BY <1>2 DEF RolePart!MarkExisting, RolePart!Visit
<1>3. ASSUME NEW u \in UsrNos, RolePart(p)!DeleteOutsider(p, u) PROVE RoleStatement(p)
  BY <1>3 DEF RolePart!DeleteOutsider, RolePart!Visit, RolePart!Delete
<1>4. ASSUME RolePart(p)!DeletesDone(p) PROVE RoleStatement(p)
  BY <1>4 DEF RolePart!DeletesDone
<1>5. ASSUME RolePart(p)!SkipPerson(p) PROVE RoleStatement(p)
  BY <1>5 DEF RolePart!SkipPerson, RolePart!AtPerson
<1>6. ASSUME RolePart(p)!InsertMember(p) PROVE RoleStatement(p)
  BY <1>6 DEF RolePart!InsertMember, RolePart!AtPerson, RolePart!Insert
<1>7. ASSUME RolePart(p)!InsertRefused(p) PROVE RoleStatement(p)
  BY <1>7 DEF RolePart!InsertRefused, RolePart!AtPerson
<1>8. ASSUME RolePart(p)!Verify(p) PROVE RoleStatement(p)
  <2>1. /\ RolePart(p)!Members(role[p]) = MembersOf(role[p])
        /\ RolePart(p)!Named(p) = Listed(p)
    BY DEF RolePart!Members, MembersOf, RolePart!Named, RolePart!NamedIn, Listed
  <2>2. /\ RolePart(p)!Missing(p) = Listed(p) \ MembersOf(role[p])
        /\ RolePart(p)!Unexpected(p) = MembersOf(role[p]) \ Listed(p)
    BY <2>1 DEF RolePart!Missing, RolePart!Unexpected
  <2> QED BY <1>8, <2>2 DEF RolePart!Verify, RolePart!AtVerify
<1>9. ASSUME RolePart(p)!QueryFails(p) PROVE RoleStatement(p)
  BY <1>9 DEF RolePart!QueryFails, RolePart!AtVerify, RolePart!Fault, Fault
<1>10. ASSUME NEW u \in UsrNos, RolePart(p)!DeleteFails(p, u) PROVE RoleStatement(p)
  BY <1>10 DEF RolePart!DeleteFails, RolePart!Visit, RolePart!Delete, RolePart!Fault, Fault
<1>11. ASSUME RolePart(p)!InsertFails(p) PROVE RoleStatement(p)
  BY <1>11 DEF RolePart!InsertFails, RolePart!AtPerson, RolePart!Insert, RolePart!Fault, Fault
<1>12. ASSUME RolePart(p)!Crash(p) PROVE RoleStatement(p)
  BY <1>12 DEF RolePart!Crash, RolePart!Active, RolePart!Fault, Fault
<1> QED
  BY <1>1, <1>2, <1>3, <1>4, <1>5, <1>6, <1>7, <1>8, <1>9, <1>10, <1>11, <1>12
     DEF RolePart!Step, RolePart!Failure

(* The role part begins with the people of the file in hand. *)
LEMMA RoleStarts ==
  ASSUME RoleTyped, NEW p \in Procs, NEW r \in Roles \cup {NoRole}, RolePart(p)!Start(p, r)
  PROVE  /\ UNCHANGED <<rows, faults>>
         /\ role' = [role EXCEPT ![p] = r] /\ remote' = [remote EXCEPT ![p] = Resolved(p)]
         /\ rolePc' = [rolePc EXCEPT ![p] = IF Resolved(p) = <<>> THEN "skipped" ELSE "list"]
<1>1. [q \in Roles \cup {NoRole} |-> Resolved(p)][r] = Resolved(p)
  OBVIOUS
<1> QED BY <1>1 DEF RolePart!Start

-----------------------------------------------------------------------------
(* The users part beside the role parts: every step is one of its own, or
   leaves its variables alone. *)
LEMMA FileInHand ==
  ASSUME FilesTyped, NEW p \in Procs, NEW f \in DOMAIN filesData[p]
  PROVE  /\ filesData[p][f].role \in Roles \cup {NoRole}
         /\ filesData[p][f].people \in Seq(Person)
         /\ Len(filesData[p][f].people) \in Nat
<1>1. filesData[p][f] \in File
  <2>1. filesData[p] \in Seq(File)
    BY DEF FilesTyped
  <2> HIDE DEF File
  <2> QED BY <2>1, ElementOfSeq
<1>2. /\ filesData[p][f].role \in Roles \cup {NoRole}
      /\ filesData[p][f].people \in Seq(Person)
  BY <1>1 DEF File
<1> QED BY <1>2, LenProperties

LEMMA InitTyped == CompareInit => RoleTyped /\ FilesTyped
BY CompareAssumption DEF CompareInit, RoleTyped, FilesTyped, AtRole

LEMMA UserStep ==
  ASSUME TypeInv, RoleTyped, FilesTyped, CompareNext PROVE AnyStep \/ Aside
<1> USE DEF userVars, history
<1>1. (UNCHANGED userVars) /\ (UNCHANGED faults \/ Fault) => Aside
  BY DEF Aside, Fault, TypeInv, TypeOK
<1>2. ASSUME NEW p \in Procs, NEW run \in Runs, CompareStart(p, run) PROVE AnyStep
  <2>1. PeopleOf(run) \in Lists
    BY CompareAssumption
  <2> QED BY <1>2, <2>1 DEF CompareStart, AnyStep
<1>3. ASSUME NEW p \in Procs, LookupFails(p) \/ NextFile(p) PROVE Aside
  BY <1>1, <1>3 DEF LookupFails, NextFile
<1>4. ASSUME NEW p \in Procs, UsersPart(p) PROVE AnyStep
  BY <1>4 DEF UsersPart, AnyStep
<1>5. ASSUME NEW p \in Procs, RolePartStarts(p) PROVE Aside
  <2>1. filesData[p][doing[p]].role \in Roles \cup {NoRole}
    BY <1>5, FileInHand DEF RolePartStarts, Begun, InRun
  <2>2. UNCHANGED faults
    BY <1>5, <2>1, RoleStarts DEF RolePartStarts
  <2> QED BY <1>1, <1>5, <2>2 DEF RolePartStarts
<1>6. ASSUME NEW p \in Procs, RolePartSteps(p) PROVE Aside
  <2>1. UNCHANGED faults \/ Fault
    BY <1>6, RoleStatements DEF RolePartSteps, RoleStatement
  <2> QED BY <1>1, <1>6, <2>1 DEF RolePartSteps
<1> QED BY <1>2, <1>3, <1>4, <1>5, <1>6 DEF CompareNext

LEMMA StepTyped ==
  ASSUME TypeInv, RoleTyped, FilesTyped, CompareNext PROVE RoleTyped' /\ FilesTyped'
<1>1. ASSUME NEW p \in Procs, NEW run \in Runs, CompareStart(p, run)
      PROVE  RoleTyped' /\ FilesTyped'
  BY <1>1, CompareAssumption DEF CompareStart, RoleTyped, FilesTyped
<1>2. ASSUME NEW p \in Procs, LookupFails(p) PROVE RoleTyped' /\ FilesTyped'
  BY <1>2 DEF LookupFails, RoleTyped, FilesTyped
<1>3. ASSUME NEW p \in Procs, UsersPart(p) PROVE RoleTyped' /\ FilesTyped'
  BY <1>3 DEF UsersPart, roleVars, RoleTyped, FilesTyped
<1>4. ASSUME NEW p \in Procs, RolePartStarts(p) PROVE RoleTyped' /\ FilesTyped'
  <2>1. filesData[p][doing[p]].role \in Roles \cup {NoRole}
    BY <1>4, FileInHand DEF RolePartStarts, Begun, InRun
  <2>2. RoleTyped'
    BY <1>4, <2>1, RoleStarts DEF RolePartStarts, RoleTyped, AtRole
  <2> QED BY <1>4, <2>2 DEF RolePartStarts, FilesTyped
<1>5. ASSUME NEW p \in Procs, RolePartSteps(p) PROVE RoleTyped' /\ FilesTyped'
  <2>1. RoleTyped'
    BY <1>5, RoleStatements DEF RolePartSteps, RoleStatement, RoleTyped, AtRole
  <2> QED BY <1>5, <2>1 DEF RolePartSteps, FilesTyped
<1>6. ASSUME NEW p \in Procs, NextFile(p) PROVE RoleTyped' /\ FilesTyped'
  BY <1>6 DEF NextFile, RoleTyped, FilesTyped
<1> QED BY <1>1, <1>2, <1>3, <1>4, <1>5, <1>6 DEF CompareNext

-----------------------------------------------------------------------------
(* The users part of a whole run keeps what it keeps alone. *)
UserTyped == TypeInv /\ RoleTyped /\ FilesTyped

LEMMA CompareBegins == CompareInit => Init /\ UserTyped
BY InitTyped, InitType DEF CompareInit, UserTyped

LEMMA EveryStep ==
  ASSUME UserTyped, [CompareNext]_compareVars PROVE (AnyStep \/ Aside) /\ UserTyped'
<1>1. CASE CompareNext
  <2>1. AnyStep \/ Aside
    BY <1>1, UserStep DEF UserTyped
  <2> QED BY <1>1, <2>1, StepType, AsideType, StepTyped DEF UserTyped
<1>2. CASE UNCHANGED compareVars
  <2>1. Aside
    BY <1>2 DEF compareVars, userVars, history, Aside, UserTyped, TypeInv, TypeOK
  <2>2. RoleTyped' /\ FilesTyped'
    BY <1>2 DEF compareVars, roleVars, RoleTyped, FilesTyped, UserTyped
  <2> QED BY <2>1, <2>2, AsideType DEF UserTyped
<1> QED BY <1>1, <1>2

(* Types, for the files and the two parts. *)
THEOREM UserTypedHolds == CompareSpec => []UserTyped
<1>1. UserTyped /\ [CompareNext]_compareVars => UserTyped'
  BY EveryStep
<1> QED BY CompareBegins, <1>1, PTL DEF CompareSpec

LEMMA CompareKeyInv ==
  ASSUME Keyed, \A t \in Tables : DistinctNumbers(t) PROVE CompareSpec => []KeyInv
<1>1. CompareInit => KeyInv
  BY CompareBegins, InitKey
<1>2. UserTyped /\ KeyInv /\ [CompareNext]_compareVars => KeyInv'
  BY EveryStep, StepKey, AsideKey DEF UserTyped
<1> QED BY <1>1, <1>2, UserTypedHolds, PTL DEF CompareSpec

LEMMA CompareOwnerInv ==
  ASSUME NEW CONSTANT Owner, Owned(Owner) PROVE CompareSpec => []OwnerInv(Owner)
<1>1. CompareInit => OwnerInv(Owner)
  BY CompareBegins, InitOwned
<1>2. UserTyped /\ KeyInv /\ OwnerInv(Owner) /\ [CompareNext]_compareVars => OwnerInv(Owner)'
  BY EveryStep, StepOwned, AsideOwned DEF UserTyped
<1>3. CompareSpec => []KeyInv
  BY CompareKeyInv DEF Owned
<1> QED BY <1>1, <1>2, <1>3, UserTypedHolds, PTL DEF CompareSpec

(* However role parts of the other processes come in between, an id gets no more rows
   than there are processes. *)
THEOREM CompareRowsPerIdBounded ==
  ASSUME IsFiniteSet(Procs), Procs # {}, Keyed, \A t \in Tables : DistinctNumbers(t),
         PadSpace => OneRowPerId,
         NEW CONSTANT Owner,
         ~PadSpace => Owned(Owner) /\ OneRowPerName
  PROVE  CompareSpec => []RowsPerIdBounded
<1>1. CASE PadSpace
  <2>1. CompareInit => IdWeightInv
    BY <1>1, CompareBegins, InitIdWeight
  <2>2. UserTyped /\ IdWeightInv /\ [CompareNext]_compareVars => IdWeightInv'
    BY <1>1, EveryStep, StepIdWeight, AsideWeights DEF UserTyped
  <2>3. UserTyped /\ KeyInv /\ IdWeightInv => RowsPerIdBounded
    BY <1>1, RowsBoundedById DEF KeyInv, UserTyped
  <2> QED BY <2>1, <2>2, <2>3, UserTypedHolds, CompareKeyInv, PTL DEF CompareSpec
<1>2. CASE ~PadSpace
  <2>1. CompareInit => NameWeightInv
    BY <1>2, CompareBegins, InitNameWeight
  <2>2. UserTyped /\ NameWeightInv /\ [CompareNext]_compareVars => NameWeightInv'
    BY <1>2, EveryStep, StepNameWeight, AsideWeights DEF UserTyped
  <2>3. UserTyped /\ OwnerInv(Owner) /\ NameWeightInv => RowsPerIdBounded
    BY <1>2, RowsBoundedByName DEF OwnerInv, UserTyped
  <2>4. CompareSpec => []OwnerInv(Owner)
    BY <1>2, CompareOwnerInv
  <2> QED BY <2>1, <2>2, <2>3, <2>4, UserTypedHolds, PTL DEF CompareSpec
<1> QED BY <1>1, <1>2

(* Over all the files of a run, two people share a user only if they are
   namesakes and one of the name had no row when the run began. *)
THEOREM ComparePeopleKeptApart ==
  ASSUME PadSpace, NEW CONSTANT Owner, Owned(Owner), NEW CONSTANT p, Procs = {p}
  PROVE  CompareSpec => []PeopleKeptApart
<1>1. CompareInit => ApartInv(p)
  BY CompareBegins, InitApart
<1>2. UserTyped /\ OwnerInv(Owner) /\ ApartInv(p) /\ [CompareNext]_compareVars => ApartInv(p)'
  BY EveryStep, StepApart, AsideApart DEF UserTyped
<1>3. UserTyped /\ OwnerInv(Owner) /\ ApartInv(p) => PeopleKeptApart
  BY ApartIsKept DEF UserTyped
<1> QED BY <1>1, <1>2, <1>3, UserTypedHolds, CompareOwnerInv, PTL DEF CompareSpec

(* Whole runs one after another: repeating a completed one writes no user, and
   it leaves every user in a department that some file names. *)
LEMMA CompareOrderInv ==
  ASSUME NEW CONSTANT Owner, OwnRows(Owner), NEW CONSTANT p, Procs = {p}
  PROVE  CompareSpec => []AloneInv(Owner) /\ []OrderInv
<1>1. CompareInit => AloneInv(Owner) /\ OrderInv
  BY CompareBegins, InitAlone, InitOrder
<1>2. UserTyped /\ AloneInv(Owner) /\ OrderInv /\ [CompareNext]_compareVars
        => AloneInv(Owner)' /\ OrderInv'
  BY EveryStep, StepAlone, AsideAlone, StepOrder, AsideOrder
<1> QED BY <1>1, <1>2, UserTypedHolds, PTL DEF CompareSpec

THEOREM CompareSettles ==
  ASSUME NEW CONSTANT Owner, OwnRows(Owner), NEW CONSTANT p, Procs = {p}
  PROVE  CompareSpec => []NoChurn /\ []DeptsListed
<1>1. AloneInv(Owner) /\ OrderInv => NoChurn /\ DeptsListed
  BY OrderIsListed, OrderIsNoChurn
<1> QED BY <1>1, CompareOrderInv, PTL

-----------------------------------------------------------------------------
(* Files and roles, for a process that has the database to itself.  A usrNo is
   never the empty one, and one that a run makes is new to doreuser. *)
NumbersInv ==
    /\ 0 \notin Numbers(table)
    /\ \A p \in Procs :
          /\ at[p] = Len(usrNos[p]) + 1
          /\ known[p] \subseteq Numbers(table)
          /\ \A j \in DOMAIN usrNos[p] : usrNos[p][j] # 0
          /\ pc[p] = "update" => found[p] # 0
          /\ pc[p] = "insert" => nextNo[p] # 0

(* What a statement does to the numbers. *)
Resolves(p, n) ==
    usrNos' = [usrNos EXCEPT ![p] = Append(@, n)] /\ at' = [at EXCEPT ![p] = @ + 1]

Statement(p) ==
    /\ UNCHANGED <<people, known>>
    /\ \A q \in Procs \ {p} : pc'[q] = pc[q] /\ found'[q] = found[q] /\ nextNo'[q] = nextNo[q]
    /\ pc'[p] = "update" => found'[p] # 0
    /\ pc'[p] = "insert" => nextNo'[p] # 0
    /\ UNCHANGED <<usrNos, at>> \/ \E n \in Nat \ {0} : Resolves(p, n)
    /\ \/ Numbers(table') = Numbers(table)
       \/ /\ nextNo[p] \in Nat \ ({0} \cup Numbers(table))
          /\ Numbers(table') = Numbers(table) \cup {nextNo[p]}
          /\ Resolves(p, nextNo[p]) \/ pc'[p] = "failed"

LEMMA FoundNumber ==
  ASSUME TypeInv, NumbersInv, NEW p \in Procs, NEW k \in DOMAIN table, Found(p, table[k])
  PROVE  /\ \A q \in Procs \ {p} : pc'[q] = pc[q] /\ found'[q] = found[q]
         /\ pc'[p] = "update" => found'[p] # 0
         /\ pc'[p] # "insert"
         /\ UNCHANGED <<usrNos, at>> \/ \E n \in Nat \ {0} : Resolves(p, n)
<1>1. table[k].usrNo \in Nat \ {0}
  BY NumbersAreNat DEF NumbersInv, Numbers, TypeInv
<1>2. CASE AlreadyCorrect(p, table[k])
  BY <1>1, <1>2 DEF Found, Resolve, Resolves, TypeInv, TypeOK
<1>3. CASE ~AlreadyCorrect(p, table[k])
  BY <1>1, <1>3 DEF Found, TypeInv, TypeOK
<1> QED BY <1>2, <1>3

LEMMA GotoNumber ==
  ASSUME TypeInv, NEW p \in Procs, NEW l, Goto(p, l)
  PROVE  /\ \A q \in Procs \ {p} : pc'[q] = pc[q] /\ found'[q] = found[q]
         /\ pc'[p] = l /\ UNCHANGED <<usrNos, at>>
BY DEF Goto, TypeInv, TypeOK

LEMMA WriteNumber ==
  ASSUME TypeInv, NumbersInv, KeyInv, NEW p \in Procs
  PROVE  /\ table' = Updated(p) => Numbers(table') = Numbers(table)
         /\ pc[p] = "insert" /\ ~Taken(p) /\ table' = Append(table, NewRow(p)) =>
               /\ nextNo[p] \in Nat \ ({0} \cup Numbers(table))
               /\ Numbers(table') = Numbers(table) \cup {nextNo[p]}
<1>1. ASSUME table' = Updated(p) PROVE Numbers(table') = Numbers(table)
  BY <1>1, UpdateKeeps DEF Kept, Numbers
<1>2. ASSUME pc[p] = "insert", ~Taken(p), table' = Append(table, NewRow(p))
      PROVE  /\ nextNo[p] \in Nat \ ({0} \cup Numbers(table))
             /\ Numbers(table') = Numbers(table) \cup {nextNo[p]}
  <2>1. nextNo[p] \in Nat \ ({0} \cup Numbers(table))
    BY <1>2 DEF KeyInv, FreshInv, NumbersInv, TypeInv, TypeOK
  <2>2. NewRow(p).usrNo = nextNo[p]
    BY DEF NewRow
  <2> QED BY <1>2, <2>1, <2>2, InsertKeeps DEF Numbers
<1> QED BY <1>1, <1>2

LEMMA Statements ==
  ASSUME TypeInv, NumbersInv, KeyInv, NEW p \in Procs, Step(p) \/ Halts(p) \/ AnswerLost(p)
  PROVE  Statement(p)
<1>1. ASSUME BySSO(p) PROVE Statement(p)
  <2>1. CASE Goto(p, "name") \/ Goto(p, "failed")
    BY <1>1, <2>1, GotoNumber DEF BySSO, history, Statement
  <2>2. ASSUME NEW k \in DOMAIN table, Found(p, table[k]) PROVE Statement(p)
    BY <1>1, <2>2, FoundNumber DEF BySSO, history, Statement
  <2> QED BY <1>1, <2>1, <2>2 DEF BySSO, RowsOf
<1>2. ASSUME ByName(p) PROVE Statement(p)
  <2>1. CASE Goto(p, "max")
    BY <1>2, <2>1, GotoNumber DEF ByName, history, Statement
  <2>2. ASSUME NEW k \in DOMAIN table, Found(p, table[k]) PROVE Statement(p)
    BY <1>2, <2>2, FoundNumber DEF ByName, history, Statement
  <2>3. PICK some \in SUBSET Namesakes(InHand(p).name) : Named(p, some)
    BY <1>2 DEF ByName
  <2> QED BY <2>1, <2>2, <2>3 DEF Named, Preferred, Namesakes
<1>3. ASSUME Update(p) PROVE Statement(p)
  <2>1. found[p] \in Nat \ {0} /\ Numbers(table') = Numbers(table)
    BY <1>3, WriteNumber DEF Update, NumbersInv, TypeInv, TypeOK
  <2>2. Resolves(p, found[p]) /\ UNCHANGED <<people, known, found, nextNo>>
    BY <1>3 DEF Update, Resolve, Resolves, history
  <2>3. pc'[p] \in {"sso", "done"} /\ \A q \in Procs \ {p} : pc'[q] = pc[q]
    BY <1>3 DEF Update, Resolve, TypeInv, TypeOK
  <2> QED BY <2>1, <2>2, <2>3 DEF Statement
<1>4. ASSUME ReadMax(p) PROVE Statement(p)
  <2>1. Numbers(table) \cup {0} \subseteq Nat
    BY NumbersAreNat DEF TypeInv
  <2>2. nextNo'[p] # 0 /\ \A q \in Procs \ {p} : nextNo'[q] = nextNo[q]
    BY <1>4, <2>1 DEF ReadMax, history, TypeInv, TypeOK
  <2> QED BY <1>4, <2>2, GotoNumber DEF ReadMax, history, Statement
<1>5. ASSUME InsertUser(p) PROVE Statement(p)
  <2>1. /\ nextNo[p] \in Nat \ ({0} \cup Numbers(table))
        /\ Numbers(table') = Numbers(table) \cup {nextNo[p]}
    BY <1>5, WriteNumber DEF InsertUser
  <2>2. Resolves(p, nextNo[p]) /\ UNCHANGED <<people, known, found, nextNo>>
    BY <1>5 DEF InsertUser, Resolve, Resolves, history
  <2>3. pc'[p] \in {"sso", "done"} /\ \A q \in Procs \ {p} : pc'[q] = pc[q]
    BY <1>5 DEF InsertUser, Resolve, TypeInv, TypeOK
  <2> QED BY <2>1, <2>2, <2>3 DEF Statement
<1>6. ASSUME InsertRefused(p) \/ Halts(p) PROVE Statement(p)
  BY <1>6, GotoNumber DEF InsertRefused, history, Halts, Statement
<1>7. ASSUME AnswerLost(p) PROVE Statement(p)
  BY <1>7, GotoNumber, WriteNumber DEF AnswerLost, history, Statement
<1> QED BY <1>1, <1>2, <1>3, <1>4, <1>5, <1>6, <1>7 DEF Step

LEMMA StatementKeepsNumbers ==
  ASSUME TypeInv, NumbersInv, NEW p \in Procs, Statement(p) PROVE NumbersInv'
<1>1. Numbers(table) \subseteq Numbers(table') /\ 0 \notin Numbers(table')
  BY DEF Statement, NumbersInv
<1>2. ASSUME NEW q \in Procs
      PROVE  at'[q] = Len(usrNos'[q]) + 1 /\ \A j \in DOMAIN usrNos'[q] : usrNos'[q][j] # 0
  <2>1. CASE UNCHANGED <<usrNos, at>>
    BY <2>1 DEF NumbersInv
  <2>2. ASSUME NEW n \in Nat \ {0}, Resolves(p, n)
        PROVE  at'[q] = Len(usrNos'[q]) + 1 /\ \A j \in DOMAIN usrNos'[q] : usrNos'[q][j] # 0
    <3>1. usrNos[q] \in Seq(Nat) /\ at[q] = Len(usrNos[q]) + 1 /\ at[q] \in Nat
      BY DEF TypeInv, TypeOK, NumbersInv
    <3>2. CASE q # p
      BY <2>2, <3>2 DEF Resolves, NumbersInv, TypeInv, TypeOK
    <3>3. CASE q = p
      <4>1. usrNos'[q] = Append(usrNos[q], n) /\ at'[q] = at[q] + 1
        BY <2>2, <3>3 DEF Resolves, TypeInv, TypeOK
      <4> QED BY <3>1, <4>1 DEF NumbersInv
    <3> QED BY <3>2, <3>3
  <2> QED BY <2>1, <2>2 DEF Statement
<1> QED BY <1>1, <1>2 DEF Statement, NumbersInv

LEMMA StepNumbers ==
  ASSUME TypeInv, NumbersInv, KeyInv, AnyStep \/ Aside PROVE NumbersInv'
<1>1. ASSUME NEW p \in Procs, NEW list \in Lists, Begins(p, list) PROVE NumbersInv'
  <2>1. UNCHANGED <<table, found, nextNo>>
    BY <1>1 DEF Begins
  <2>2. /\ usrNos'[p] = <<>> /\ at'[p] = 1 /\ known'[p] = Numbers(table)
        /\ pc'[p] \in {"done", "sso"}
        /\ \A q \in Procs \ {p} : /\ usrNos'[q] = usrNos[q] /\ at'[q] = at[q]
                                   /\ known'[q] = known[q] /\ pc'[q] = pc[q]
    BY <1>1 DEF Begins, TypeInv, TypeOK
  <2> QED BY <2>1, <2>2 DEF NumbersInv
<1>2. ASSUME NEW p \in Procs, Step(p) \/ Halts(p) \/ AnswerLost(p) PROVE NumbersInv'
  BY <1>2, Statements, StatementKeepsNumbers
<1>3. ASSUME Aside PROVE NumbersInv'
  BY <1>3 DEF Aside, NumbersInv
<1> QED BY <1>1, <1>2, <1>3 DEF AnyStep

-----------------------------------------------------------------------------
(* Where a process is in its files. *)
FilesInv(p) ==
    /\ begins[p] \in Seq(Nat) /\ Len(begins[p]) = doing[p]
    /\ doing[p] <= Len(filesData[p]) + 1
    /\ \A f \in 1 .. doing[p] - 1 : Ends(p, f) <= begins[p][doing[p]]
    /\ begins[p][doing[p]] <= Len(usrNos[p])
    /\ \A f \in DOMAIN filesData[p] : f <= doing[p] /\ begins[p][f] < Len(usrNos[p])
                                     /\ filesData[p][f].people # <<>>
                                     => filesData[p][f].role \in Roles
    /\ pc[p] = "failed" => InRun(p) /\ rolePc[p] = "idle"

(* The role part has the people of the file in hand, all of them resolved. *)
RolePartInv(p) ==
    /\ rolePc[p] \in AtRole \cup {"done", "skipped"} =>
          InRun(p) /\ Len(usrNos[p]) = Ends(p, doing[p])
    /\ rolePc[p] = "skipped" => filesData[p][doing[p]].people = <<>>
    /\ rolePc[p] \in AtRole =>
          /\ filesData[p][doing[p]].people # <<>>
          /\ role[p] = filesData[p][doing[p]].role
          /\ Listed(p) = {usrNos[p][j] : j \in Segment(p, doing[p])}

(* The role of a file that has been compared. *)
Compared(p, f) == f < doing[p] \/ (f = doing[p] /\ rolePc[p] = "done")

Agrees(p, f) ==
    LET named == {usrNos[p][j] : j \in Segment(p, f)}
        later == {usrNos[p][j] : j \in DOMAIN usrNos[p] \ Segment(p, f)}
    IN  /\ named \subseteq MembersOf(filesData[p][f].role)
        /\ MembersOf(filesData[p][f].role) \ named \subseteq later \ known[p]

AgreeInv(p) ==
    pc[p] # "failed" =>
        \A f \in DOMAIN filesData[p] : Decides(p, f) /\ Compared(p, f) => Agrees(p, f)

RunsInv(p) == FilesInv(p) /\ RolePartInv(p) /\ AgreeInv(p)

(* A compared file lies in what has been resolved. *)
LEMMA ComparedIsResolved ==
  ASSUME UserTyped, NEW p \in Procs, FilesInv(p), RolePartInv(p),
         NEW f \in DOMAIN filesData[p], Compared(p, f)
  PROVE  /\ Segment(p, f) \subseteq DOMAIN usrNos[p] /\ Ends(p, f) <= Len(usrNos[p])
         /\ begins[p][f] \in Nat /\ Ends(p, f) \in Nat
         /\ filesData[p][f].people # <<>> => filesData[p][f].role \in Roles
<1>1. /\ doing[p] \in Nat \ {0} /\ filesData[p] \in Seq(File)
      /\ usrNos[p] \in Seq(Nat) /\ people[p] \in Seq(Person)
  BY DEF UserTyped, FilesTyped, TypeInv, TypeOK
<1>2. /\ f \in Nat \ {0} /\ f <= doing[p] /\ DOMAIN usrNos[p] = 1 .. Len(usrNos[p])
      /\ Len(usrNos[p]) \in Nat /\ DOMAIN people[p] = 1 .. Len(people[p])
      /\ Len(people[p]) \in Nat
  BY <1>1, LenProperties DEF Compared
<1>3. begins[p][f] \in Nat /\ begins[p][doing[p]] \in Nat
  <2>1. begins[p] \in Seq(Nat) /\ Len(begins[p]) = doing[p]
    BY DEF FilesInv
  <2>2. DOMAIN begins[p] = 1 .. doing[p]
    BY <2>1, LenProperties
  <2>3. f \in DOMAIN begins[p] /\ doing[p] \in DOMAIN begins[p]
    BY <1>1, <1>2, <2>2
  <2> QED BY <2>1, <2>3, ElementOfSeq
<1>4. Len(filesData[p][f].people) \in Nat /\ filesData[p][f].people \in Seq(Person)
  BY FileInHand DEF UserTyped
<1>5. Ends(p, f) \in Nat /\ Ends(p, f) <= Len(usrNos[p])
  <2>1. Ends(p, f) \in Nat
    BY <1>3, <1>4 DEF Ends
  <2>2. CASE f < doing[p]
    <3>1. f \in 1 .. doing[p] - 1
      BY <1>1, <1>2, <2>2
    <3>2. Ends(p, f) <= begins[p][doing[p]] /\ begins[p][doing[p]] <= Len(usrNos[p])
      BY <3>1 DEF FilesInv
    <3> QED BY <1>2, <1>3, <2>1, <3>2
  <2>3. CASE f = doing[p] /\ rolePc[p] = "done"
    BY <1>2, <2>1, <2>3 DEF RolePartInv
  <2> QED BY <2>1, <2>2, <2>3 DEF Compared
<1>6. Segment(p, f) \subseteq DOMAIN usrNos[p]
  BY <1>2, <1>3, <1>5 DEF Segment
<1>7. ASSUME filesData[p][f].people # <<>> PROVE filesData[p][f].role \in Roles
  <2>1. Len(filesData[p][f].people) # 0
    BY <1>4, <1>7, EmptySeq
  <2>2. begins[p][f] < Len(usrNos[p])
    BY <1>2, <1>3, <1>4, <1>5, <2>1 DEF Ends
  <2> QED BY <1>2, <1>7, <2>2 DEF FilesInv
<1> QED BY <1>3, <1>5, <1>6, <1>7

(* A step that leaves the users, the files and the role of a file alone. *)
LEMMA AgreesBeside ==
  ASSUME NEW p \in Procs, NEW f, Agrees(p, f), UNCHANGED userVars, UNCHANGED filesData,
         begins'[p][f] = begins[p][f],
         rows'[filesData[p][f].role] = rows[filesData[p][f].role]
  PROVE  Agrees(p, f)'
BY DEF userVars, history, Agrees, Segment, Ends, MembersOf

(* A statement of the users part: a user who gets a row by it is a later one,
   and not among those the run has found. *)
LEMMA AgreesWithUsers ==
  ASSUME UserTyped, NumbersInv, NEW p \in Procs, FilesInv(p), RolePartInv(p),
         Statement(p), pc'[p] # "failed", UNCHANGED <<filesData, begins, rows>>,
         NEW f \in DOMAIN filesData[p], Compared(p, f), Agrees(p, f)
  PROVE  Agrees(p, f)'
<1> DEFINE r == filesData[p][f].role
           named == {usrNos[p][j] : j \in Segment(p, f)}
<1>1. Segment(p, f) \subseteq DOMAIN usrNos[p] /\ Ends(p, f) <= Len(usrNos[p]) /\ Ends(p, f) \in Nat
  BY ComparedIsResolved
<1>2. UNCHANGED <<people, known>> /\ Segment(p, f)' = Segment(p, f)
  BY DEF Statement, Segment, Ends
<1>3. usrNos[p] \in Seq(Nat) /\ usrNos \in [Procs -> Seq(Nat)]
  BY DEF UserTyped, TypeInv, TypeOK
<1>4. /\ \A j \in DOMAIN usrNos[p] : j \in DOMAIN usrNos'[p] /\ usrNos'[p][j] = usrNos[p][j]
      /\ \A n \in Nat : Resolves(p, n) => /\ Len(usrNos[p]) + 1 \in DOMAIN usrNos'[p]
                                         /\ usrNos'[p][Len(usrNos[p]) + 1] = n
  <2>1. ASSUME NEW n \in Nat, Resolves(p, n) PROVE usrNos'[p] = Append(usrNos[p], n)
    BY <1>3, <2>1 DEF Resolves
  <2>2. ASSUME NEW n \in Nat, usrNos'[p] = Append(usrNos[p], n)
        PROVE  /\ \A j \in DOMAIN usrNos[p] : j \in DOMAIN usrNos'[p] /\ usrNos'[p][j] = usrNos[p][j]
               /\ Len(usrNos[p]) + 1 \in DOMAIN usrNos'[p]
               /\ usrNos'[p][Len(usrNos[p]) + 1] = n
    BY <1>3, <2>2
  <2> QED BY <2>1, <2>2 DEF Statement
<1>5. named' = named
  BY <1>1, <1>2, <1>4
<1>6. Numbers(table) \subseteq Numbers(table') /\ MembersOf(r) \subseteq MembersOf(r)'
  BY DEF Statement, MembersOf
<1>7. ASSUME NEW u \in MembersOf(r)', u \notin MembersOf(r)
      PROVE  /\ u \notin known[p]
             /\ \E j \in DOMAIN usrNos'[p] \ Segment(p, f) : usrNos'[p][j] = u
  <2>1. u \in Numbers(table') \ Numbers(table)
    BY <1>7 DEF MembersOf
  <2>2. u = nextNo[p] /\ u \in Nat /\ Resolves(p, u)
    BY <2>1 DEF Statement
  <2>3. u \notin known[p]
    BY <2>1 DEF NumbersInv
  <2>4. Len(usrNos[p]) + 1 \notin Segment(p, f)
    BY <1>1, <1>3, LenProperties
  <2> QED BY <1>4, <2>2, <2>3, <2>4
<1>8. MembersOf(r) \ named \subseteq {usrNos[p][j] : j \in DOMAIN usrNos[p] \ Segment(p, f)} \ known[p]
  BY DEF Agrees
<1>9. named \subseteq MembersOf(r)
  BY DEF Agrees
<1>10. \A u \in MembersOf(r)' \ named :
          /\ u \notin known[p]
          /\ \E j \in DOMAIN usrNos'[p] \ Segment(p, f) : usrNos'[p][j] = u
  BY <1>4, <1>7, <1>8
<1> HIDE DEF named
<1>11. /\ named \subseteq MembersOf(r)'
       /\ MembersOf(r)' \ named \subseteq
             {usrNos'[p][j] : j \in DOMAIN usrNos'[p] \ Segment(p, f)} \ known[p]
  BY <1>6, <1>9, <1>10
<1> QED BY <1>2, <1>5, <1>11 DEF Agrees, named

-----------------------------------------------------------------------------
(* One action after the other. *)
LEMMA InitRuns ==
  ASSUME CompareInit, NEW p \in Procs, \A t \in Tables : 0 \notin Numbers(t)
  PROVE  NumbersInv /\ RunsInv(p)
<1>1. NumbersInv
  BY DEF CompareInit, Init, NumbersInv
<1>2. /\ filesData[p] = <<>> /\ doing[p] = 1 /\ begins[p] = <<0>> /\ usrNos[p] = <<>>
      /\ pc[p] = "idle" /\ rolePc[p] = "idle"
  BY DEF CompareInit, Init
<1>3. FilesInv(p) /\ RolePartInv(p) /\ AgreeInv(p)
  BY <1>2 DEF FilesInv, RolePartInv, AgreeInv, AtRole
<1> QED BY <1>1, <1>3 DEF RunsInv

LEMMA StartOfRun ==
  ASSUME UserTyped, NEW p \in Procs, NEW run \in Runs, CompareStart(p, run)
  PROVE  RunsInv(p)'
<1>1. /\ filesData'[p] = run /\ doing'[p] = 1 /\ begins'[p] = <<0>> /\ usrNos'[p] = <<>>
      /\ pc'[p] \in {"done", "sso"} /\ rolePc'[p] = "idle" /\ run \in Seq(File)
  BY CompareAssumption DEF CompareStart, Begins, UserTyped, FilesTyped, RoleTyped, TypeInv, TypeOK
<1>2. Len(run) \in Nat /\ DOMAIN run = 1 .. Len(run)
  BY <1>1, LenProperties
<1>3. FilesInv(p)' /\ RolePartInv(p)'
  BY <1>1, <1>2 DEF FilesInv, RolePartInv, AtRole
<1>4. \A f \in DOMAIN filesData'[p] : ~Compared(p, f)'
  BY <1>1, <1>2 DEF Compared
<1> QED BY <1>3, <1>4 DEF RunsInv, AgreeInv

LEMMA FailedLookup ==
  ASSUME UserTyped, NEW p \in Procs, RunsInv(p), LookupFails(p)
  PROVE  RunsInv(p)'
<1>1. /\ UNCHANGED userVars /\ UNCHANGED <<filesData, doing, begins, rows>>
      /\ rolePc'[p] = "failed" /\ pc[p] = "sso"
  BY DEF LookupFails, UserTyped, RoleTyped
<1>2. FilesInv(p)' /\ RolePartInv(p)'
  BY <1>1 DEF RunsInv, FilesInv, RolePartInv, AtRole, Ends, userVars
<1>3. ASSUME NEW f \in DOMAIN filesData[p], Decides(p, f)', Compared(p, f)'
      PROVE  Agrees(p, f)'
  <2>1. Decides(p, f) /\ Compared(p, f)
    BY <1>1, <1>3 DEF Decides, Compared
  <2> QED BY <1>1, <2>1, AgreesBeside DEF RunsInv, AgreeInv
<1> QED BY <1>1, <1>2, <1>3 DEF RunsInv, AgreeInv

LEMMA StepOfUsers ==
  ASSUME UserTyped, UserTyped', NumbersInv, KeyInv, NEW p \in Procs, RunsInv(p), UsersPart(p)
  PROVE  RunsInv(p)'
<1>1. /\ UNCHANGED <<filesData, doing, begins, rows, rolePc>>
      /\ Begun(p) /\ InRun(p) /\ rolePc[p] = "idle" /\ pc[p] # "failed"
      /\ filesData[p][doing[p]].role # NoRole /\ at[p] \in Segment(p, doing[p])
  BY DEF UsersPart, roleVars, Begun, GivenUp
<1>2. Statement(p)
  BY Statements DEF UsersPart, UserTyped
<1>3. /\ usrNos[p] \in Seq(Nat) /\ usrNos'[p] \in Seq(Nat) /\ Len(usrNos[p]) \in Nat
      /\ filesData[p] \in Seq(File) /\ doing[p] \in Nat \ {0}
  BY LenProperties DEF UserTyped, FilesTyped, TypeInv, TypeOK
<1>4. Len(usrNos'[p]) \in Nat /\ Len(usrNos[p]) <= Len(usrNos'[p])
  <2>1. CASE UNCHANGED usrNos
    BY <1>3, <2>1
  <2>2. ASSUME NEW n \in Nat, Resolves(p, n) PROVE Len(usrNos'[p]) = Len(usrNos[p]) + 1
    <3>1. usrNos'[p] = Append(usrNos[p], n)
      BY <2>2 DEF Resolves, UserTyped, TypeInv, TypeOK
    <3> QED BY <1>3, <3>1
  <2> QED BY <1>2, <1>3, <2>1, <2>2 DEF Statement
<1>5. FilesInv(p)'
  <2>1. \A f \in 1 .. doing[p] - 1 : Ends(p, f)' = Ends(p, f)
    BY <1>1 DEF Ends
  <2>2. begins[p] \in Seq(Nat) /\ Len(begins[p]) = doing[p] /\ doing[p] \in DOMAIN begins[p]
        /\ begins[p][doing[p]] \in Nat /\ begins[p][doing[p]] <= Len(usrNos'[p])
    BY <1>3, <1>4, LenProperties, ElementOfSeq DEF RunsInv, FilesInv
  <2>3. ASSUME NEW f \in DOMAIN filesData[p], f <= doing[p], filesData[p][f].people # <<>>
        PROVE  filesData[p][f].role \in Roles
    <3>1. CASE f = doing[p]
      BY <1>1, <3>1, FileInHand DEF UserTyped
    <3>2. CASE f < doing[p]
      BY <2>3, <3>2, ComparedIsResolved DEF RunsInv, Compared
    <3>3. f \in Nat
      BY <1>3
    <3> QED BY <1>3, <2>3, <3>1, <3>2, <3>3
  <2> QED BY <1>1, <2>1, <2>2, <2>3 DEF RunsInv, FilesInv, InRun
<1>6. RolePartInv(p)'
  BY <1>1 DEF RolePartInv, AtRole
<1>7. AgreeInv(p)'
  <2>1. ASSUME pc'[p] # "failed", NEW f \in DOMAIN filesData[p], Decides(p, f)', Compared(p, f)'
        PROVE  Agrees(p, f)'
    <3>1. Decides(p, f) /\ Compared(p, f)
      BY <1>1, <2>1 DEF Decides, Compared
    <3>2. Agrees(p, f)
      BY <1>1, <3>1 DEF RunsInv, AgreeInv
    <3> QED BY <1>1, <1>2, <2>1, <3>1, <3>2, AgreesWithUsers DEF RunsInv
  <2> QED BY <1>1, <2>1 DEF AgreeInv
<1> QED BY <1>5, <1>6, <1>7 DEF RunsInv

(* The list of the role part is the part of usrNos that belongs to the file. *)
LEMMA Shifted ==
  ASSUME NEW n \in Nat, NEW b \in Nat
  PROVE  /\ 1 .. n = {} <=> n = 0
         /\ \A i \in 1 .. n : b + i \in b + 1 .. b + n
         /\ \A j \in b + 1 .. b + n : j - b \in 1 .. n /\ b + (j - b) = j
<1>1. 1 .. n = {} => n = 0
  <2>1. n # 0 => 1 \in 1 .. n
    OBVIOUS
  <2> QED BY <2>1
<1>2. n = 0 => 1 .. n = {}
  OBVIOUS
<1>3. \A i \in 1 .. n : b + i \in b + 1 .. b + n
  OBVIOUS
<1>4. \A j \in b + 1 .. b + n : j - b \in 1 .. n /\ b + (j - b) = j
  OBVIOUS
<1> QED BY <1>1, <1>2, <1>3, <1>4

Persons(s, b, n) == [i \in 1 .. n |-> [usrNo |-> s[b + i], op |-> ""]]
Between(s, b, n) == {s[j] : j \in b + 1 .. b + n}

LEMMA PartOfNumbers ==
  ASSUME NEW n \in Nat, NEW b \in Nat, NEW s, 0 \notin Between(s, b, n)
  PROVE  /\ Persons(s, b, n) = <<>> <=> n = 0
         /\ {Persons(s, b, n)[i].usrNo : i \in DOMAIN Persons(s, b, n)} \ {0} = Between(s, b, n)
<1> DEFINE R == Persons(s, b, n)
<1>1. DOMAIN R = 1 .. n
  BY DEF Persons
<1>2. \A i \in 1 .. n : R[i].usrNo = s[b + i]
  BY DEF Persons
<1>3. n = 0 => R = <<>>
  <2>1. n = 0 => 1 .. n = {}
    BY Shifted
  <2> QED BY <2>1 DEF Persons
<1> HIDE DEF R
<1>4. R = <<>> => n = 0
  <2>1. DOMAIN <<>> = {}
    OBVIOUS
  <2>2. R = <<>> => 1 .. n = {}
    BY <1>1, <2>1
  <2> QED BY <2>2, Shifted
<1>5. ASSUME NEW i \in 1 .. n PROVE R[i].usrNo \in Between(s, b, n)
  <2>1. b + i \in b + 1 .. b + n
    BY Shifted
  <2> QED BY <1>2, <2>1 DEF Between
<1>6. ASSUME NEW u \in Between(s, b, n) PROVE u \in {R[i].usrNo : i \in DOMAIN R}
  <2>1. PICK j \in b + 1 .. b + n : u = s[j]
    BY DEF Between
  <2>2. j - b \in 1 .. n /\ b + (j - b) = j
    BY Shifted
  <2>3. R[j - b].usrNo = u
    BY <1>2, <2>1, <2>2
  <2> QED BY <1>1, <2>2, <2>3
<1>7. {R[i].usrNo : i \in DOMAIN R} \ {0} = Between(s, b, n)
  BY <1>1, <1>5, <1>6
<1> QED BY <1>3, <1>4, <1>7 DEF R

LEMMA StartOfRolePart ==
  ASSUME UserTyped, NumbersInv, NEW p \in Procs, RunsInv(p), RolePartStarts(p)
  PROVE  RunsInv(p)'
<1> DEFINE f == doing[p]
           r == filesData[p][f].role
           named == {usrNos[p][j] : j \in Segment(p, f)}
<1>1. /\ InRun(p) /\ pc[p] # "failed" /\ rolePc[p] = "idle" /\ at[p] = Ends(p, f) + 1
      /\ UNCHANGED userVars /\ UNCHANGED <<filesData, doing, begins>>
  BY DEF RolePartStarts, Begun, GivenUp
<1>2. f \in DOMAIN filesData[p] /\ r \in Roles \cup {NoRole}
  BY <1>1, FileInHand DEF InRun, UserTyped
<1>3. PICK n \in Nat : n = Len(filesData[p][f].people) /\ (n = 0 <=> filesData[p][f].people = <<>>)
  BY <1>1, FileInHand, EmptySeq DEF InRun, UserTyped
<1>4. PICK b \in Nat : b = begins[p][f]
  <2>1. f \in DOMAIN begins[p] /\ begins[p] \in Seq(Nat)
    BY LenProperties DEF RunsInv, FilesInv, UserTyped, FilesTyped
  <2> QED BY <2>1, ElementOfSeq
<1>5. Ends(p, f) = b + n
  BY <1>3, <1>4 DEF Ends
<1>6. Len(usrNos[p]) = b + n
  <2>1. Len(usrNos[p]) \in Nat /\ at[p] = Len(usrNos[p]) + 1
    BY LenProperties DEF NumbersInv, UserTyped, TypeInv, TypeOK
  <2> QED BY <1>1, <1>5, <2>1
<1>7. Segment(p, f) = b + 1 .. b + n /\ named = Between(usrNos[p], b, n)
  <2>1. usrNos[p] \in Seq(Nat) /\ people[p] \in Seq(Person) /\ Len(usrNos[p]) <= Len(people[p])
    BY DEF UserTyped, TypeInv, TypeOK, LengthInv
  <2>2. DOMAIN people[p] = 1 .. Len(people[p]) /\ Len(people[p]) \in Nat
    BY <2>1, LenProperties
  <2>3. PICK m \in Nat : DOMAIN people[p] = 1 .. m /\ b + n <= m
    BY <1>6, <2>1, <2>2
  <2>4. Segment(p, f) = {j \in 1 .. m : b < j /\ j <= b + n}
    BY <1>4, <1>5, <2>3 DEF Segment
  <2>5. {j \in 1 .. m : b < j /\ j <= b + n} = b + 1 .. b + n
    BY <2>3
  <2>6. Segment(p, f) = b + 1 .. b + n
    BY <2>4, <2>5
  <2> QED BY <2>6 DEF Between
<1>8. 0 \notin Between(usrNos[p], b, n)
  <2>1. DOMAIN usrNos[p] = 1 .. b + n
    BY <1>6, LenProperties DEF UserTyped, TypeInv, TypeOK
  <2>2. b + 1 .. b + n \subseteq 1 .. b + n
    OBVIOUS
  <2> QED BY <2>1, <2>2 DEF NumbersInv, Between
<1>9. /\ Resolved(p) = <<>> <=> filesData[p][f].people = <<>>
      /\ {Resolved(p)[i].usrNo : i \in DOMAIN Resolved(p)} \ {0} = named
  <2>1. Resolved(p) = Persons(usrNos[p], b, n)
    BY <1>3, <1>4 DEF Resolved, Persons
  <2> DEFINE R == Persons(usrNos[p], b, n)
  <2>2. /\ R = <<>> <=> n = 0
        /\ {R[i].usrNo : i \in DOMAIN R} \ {0} = Between(usrNos[p], b, n)
    BY <1>8, PartOfNumbers
  <2> HIDE DEF R
  <2>3. Resolved(p) = R
    BY <2>1 DEF R
  <2>4. Resolved(p) = <<>> <=> filesData[p][f].people = <<>>
    BY <1>3, <2>2, <2>3
  <2>5. {Resolved(p)[i].usrNo : i \in DOMAIN Resolved(p)} \ {0} = named
    BY <1>7, <2>2, <2>3
  <2> QED BY <2>4, <2>5
<1>10. /\ UNCHANGED <<rows, faults>>
       /\ role' = [role EXCEPT ![p] = r] /\ remote' = [remote EXCEPT ![p] = Resolved(p)]
       /\ rolePc' = [rolePc EXCEPT ![p] = IF Resolved(p) = <<>> THEN "skipped" ELSE "list"]
  BY <1>2, RoleStarts DEF RolePartStarts, UserTyped
<1>11. /\ role'[p] = r /\ Listed(p)' = named
       /\ rolePc'[p] = IF filesData[p][f].people = <<>> THEN "skipped" ELSE "list"
  BY <1>9, <1>10 DEF UserTyped, RoleTyped, Listed
<1> HIDE DEF r, named
<1>12. FilesInv(p)'
  BY <1>1 DEF RunsInv, FilesInv, InRun, Ends, userVars
<1>13. RolePartInv(p)'
  <2>1. /\ InRun(p)' /\ Len(usrNos'[p]) = Ends(p, doing[p])'
        /\ {usrNos[p][j] : j \in Segment(p, doing[p])}' = named /\ doing'[p] = f
    BY <1>1, <1>5, <1>6 DEF InRun, Ends, Segment, userVars, named
  <2>2. filesData'[p][doing'[p]] = filesData[p][f] /\ filesData[p][f].role = r
    BY <1>1 DEF r
  <2>3. rolePc'[p] \in {"skipped", "list"}
        /\ (rolePc'[p] = "skipped" <=> filesData[p][f].people = <<>>)
    BY <1>11
  <2> QED BY <1>11, <2>1, <2>2, <2>3 DEF RolePartInv, AtRole
<1>14. AgreeInv(p)'
  <2>1. ASSUME NEW g \in DOMAIN filesData[p], Decides(p, g)', Compared(p, g)'
        PROVE  Agrees(p, g)'
    <3>1. Decides(p, g) /\ Compared(p, g)
      BY <1>1, <1>11, <2>1 DEF Decides, Compared
    <3> QED BY <1>1, <1>10, <3>1, AgreesBeside DEF RunsInv, AgreeInv
  <2> QED BY <1>1, <2>1 DEF AgreeInv
<1> QED BY <1>12, <1>13, <1>14 DEF RunsInv

LEMMA StepOfRolePart ==
  ASSUME UserTyped, NEW p \in Procs, RunsInv(p), RolePartSteps(p)
  PROVE  RunsInv(p)'
<1> DEFINE f == doing[p]
           r == filesData[p][f].role
<1>1. /\ InRun(p) /\ pc[p] # "failed" /\ f \in DOMAIN filesData[p] /\ f \in Nat
      /\ UNCHANGED userVars /\ UNCHANGED <<filesData, doing, begins>>
      /\ RoleStatement(p)
  BY RoleStatements DEF RolePartSteps, Begun, GivenUp, InRun, UserTyped, FilesTyped
<1>2. /\ rolePc[p] \in AtRole /\ filesData[p][f].people # <<>> /\ role[p] = r
      /\ Len(usrNos[p]) = Ends(p, f)
      /\ Listed(p) = {usrNos[p][j] : j \in Segment(p, f)}
  BY <1>1 DEF RoleStatement, RunsInv, RolePartInv
<1>3. /\ role' = role /\ Listed(p)' = Listed(p)
      /\ \A q \in Roles \ {r} : rows'[q] = rows[q]
      /\ rolePc'[p] \in AtRole \cup {"failed", "verifyFailed", "crashed", "done"}
      /\ rolePc'[p] = "done" => UNCHANGED rows /\ MembersOf(r) = Listed(p)
  <2>1. rolePc \in [Procs -> AtRole \cup {"idle", "skipped", "done", "failed",
                                          "verifyFailed", "crashed"}]
    BY DEF UserTyped, RoleTyped
  <2> QED BY <1>1, <1>2, <2>1 DEF RoleStatement, Listed, AtRole
<1>4. FilesInv(p)'
  BY <1>1 DEF RunsInv, FilesInv, InRun, Ends, userVars
<1>5. RolePartInv(p)'
  <2>1. /\ InRun(p)' /\ Len(usrNos'[p]) = Ends(p, doing[p])'
        /\ {usrNos[p][j] : j \in Segment(p, doing[p])}' = {usrNos[p][j] : j \in Segment(p, f)}
        /\ filesData'[p][doing'[p]] = filesData[p][f]
    BY <1>1, <1>2 DEF InRun, Ends, Segment, userVars
  <2> QED BY <1>2, <1>3, <2>1 DEF RolePartInv, AtRole
<1>6. AgreeInv(p)'
  <2>1. ASSUME NEW g \in DOMAIN filesData[p], Decides(p, g)', Compared(p, g)', g < f
        PROVE  Agrees(p, g)'
    <3>1. Decides(p, g) /\ Compared(p, g)
      BY <1>1, <2>1 DEF Decides, Compared
    <3>2. filesData[p][g].role \in Roles
      BY <3>1, ComparedIsResolved DEF RunsInv, Decides
    <3>3. filesData[p][g].role # r
      <4>1. g \in Nat /\ ~(f <= g)
        BY <1>1, <2>1 DEF UserTyped, FilesTyped
      <4> QED BY <1>1, <1>2, <3>1, <4>1 DEF Decides
    <3> QED BY <1>1, <1>3, <3>1, <3>2, <3>3, AgreesBeside DEF RunsInv, AgreeInv
  <2>2. ASSUME rolePc'[p] = "done" PROVE Agrees(p, f)'
    <3>1. Agrees(p, f)
      BY <1>2, <1>3, <2>2 DEF Agrees
    <3> QED BY <1>1, <1>3, <2>2, <3>1, AgreesBeside
  <2> QED BY <1>1, <2>1, <2>2 DEF AgreeInv, Compared
<1> QED BY <1>4, <1>5, <1>6 DEF RunsInv

LEMMA StepToNextFile ==
  ASSUME UserTyped, NEW p \in Procs, RunsInv(p), NextFile(p)
  PROVE  RunsInv(p)'
<1>0. PICK d : d = doing[p]
  OBVIOUS
<1>1. /\ UNCHANGED userVars /\ UNCHANGED <<filesData, rows>>
      /\ doing'[p] = d + 1 /\ rolePc'[p] = "idle" /\ rolePc[p] \in {"done", "skipped"}
  BY <1>0 DEF NextFile, UserTyped, RoleTyped, FilesTyped
<1>2. /\ d \in DOMAIN filesData[p] /\ d \in Nat \ {0} /\ pc[p] # "failed"
      /\ rolePc[p] = "skipped" => filesData[p][d].people = <<>>
  BY <1>0, <1>1 DEF RunsInv, FilesInv, RolePartInv, InRun, UserTyped, FilesTyped
<1>3. /\ begins[p] \in Seq(Nat) /\ Len(begins[p]) = d
      /\ \A g \in 1 .. d : begins[p][g] \in Nat
  <2>1. begins[p] \in Seq(Nat) /\ Len(begins[p]) = d
    BY <1>0 DEF RunsInv, FilesInv
  <2> QED BY <2>1, ElementOfSeq, LenProperties
<1>4. PICK e \in Nat : e = Ends(p, d) /\ e = Len(usrNos[p]) /\ begins[p][d] <= e
  <2>1. PICK n \in Nat : n = Len(filesData[p][d].people)
    BY <1>2, FileInHand DEF UserTyped
  <2>2. PICK b \in Nat : b = begins[p][d]
    <3>1. d \in 1 .. d
      BY <1>2
    <3> QED BY <1>3, <3>1
  <2>3. Ends(p, d) = b + n
    BY <2>1, <2>2 DEF Ends
  <2>4. Len(usrNos[p]) = Ends(p, d)
    BY <1>0, <1>1 DEF RunsInv, RolePartInv
  <2> QED BY <2>2, <2>3, <2>4
<1>5. begins'[p] = Append(begins[p], e)
  BY <1>0, <1>4 DEF NextFile, UserTyped, FilesTyped
<1>6. /\ begins'[p] \in Seq(Nat) /\ Len(begins'[p]) = d + 1 /\ begins'[p][d + 1] = e
      /\ \A g \in 1 .. d : begins'[p][g] = begins[p][g]
  BY <1>3, <1>4, <1>5
<1>7. \A g \in 1 .. d : Ends(p, g)' = Ends(p, g) /\ Segment(p, g)' = Segment(p, g)
  BY <1>1, <1>6 DEF Ends, Segment, userVars
<1>8. DOMAIN filesData[p] = 1 .. Len(filesData[p]) /\ Len(filesData[p]) \in Nat
  BY LenProperties DEF UserTyped, FilesTyped
<1>9. FilesInv(p)'
  <2>1. ASSUME NEW g \in 1 .. d PROVE Ends(p, g) <= e
    <3>1. CASE g = d
      <4>1. Ends(p, g) = e
        BY <1>4, <3>1
      <4> QED BY <4>1
    <3>2. CASE g # d
      <4>1. g \in 1 .. d - 1 /\ g \in DOMAIN filesData[p]
        BY <1>2, <1>8, <3>2
      <4>2. Ends(p, g) <= begins[p][d]
        BY <1>0, <4>1 DEF RunsInv, FilesInv
      <4>3. Ends(p, g) \in Nat
        <5>1. Len(filesData[p][g].people) \in Nat /\ begins[p][g] \in Nat
          BY <1>3, <4>1, FileInHand DEF UserTyped
        <5> QED BY <5>1 DEF Ends
      <4>4. begins[p][d] \in Nat
        BY <1>2, <1>3
      <4> QED BY <1>4, <4>2, <4>3, <4>4
    <3> QED BY <3>1, <3>2
  <2>2. \A g \in 1 .. doing'[p] - 1 : Ends(p, g)' <= begins'[p][doing'[p]]
    BY <1>1, <1>2, <1>6, <1>7, <2>1
  <2>3. doing'[p] <= Len(filesData'[p]) + 1
    BY <1>1, <1>2, <1>8
  <2>4. begins'[p][doing'[p]] <= Len(usrNos'[p])
    BY <1>1, <1>4, <1>6 DEF userVars
  <2>5. ASSUME NEW g \in DOMAIN filesData'[p], g <= doing'[p],
               begins'[p][g] < Len(usrNos'[p]), filesData'[p][g].people # <<>>
        PROVE  filesData'[p][g].role \in Roles
    <3>1. g # d + 1
      BY <1>1, <1>4, <1>6, <2>5 DEF userVars
    <3>2. g \in 1 .. d /\ g \in DOMAIN filesData[p]
      BY <1>1, <1>2, <1>8, <2>5, <3>1
    <3>3. /\ filesData' = filesData /\ usrNos' = usrNos /\ g <= d
          /\ begins'[p][g] = begins[p][g]
      BY <1>1, <1>6, <3>2 DEF userVars
    <3> QED BY <1>0, <2>5, <3>2, <3>3 DEF RunsInv, FilesInv
  <2>6. pc'[p] # "failed"
    BY <1>1, <1>2 DEF userVars
  <2> QED BY <1>1, <1>6, <2>2, <2>3, <2>4, <2>5, <2>6 DEF FilesInv
<1>10. RolePartInv(p)'
  BY <1>1 DEF RolePartInv, AtRole
<1>11. AgreeInv(p)'
  <2>1. ASSUME NEW g \in DOMAIN filesData[p], Decides(p, g)', Compared(p, g)'
        PROVE  Agrees(p, g)'
    <3>1. g \in 1 .. d /\ Decides(p, g)
      BY <1>1, <1>2, <1>8, <2>1 DEF Decides, Compared
    <3>2. Compared(p, g)
      BY <1>0, <1>1, <1>2, <1>8, <3>1 DEF Decides, Compared
    <3>3. begins'[p][g] = begins[p][g]
      BY <1>6, <3>1
    <3> QED BY <1>1, <1>2, <3>1, <3>2, <3>3, AgreesBeside DEF RunsInv, AgreeInv
  <2> QED BY <1>1, <2>1 DEF AgreeInv
<1> QED BY <1>9, <1>10, <1>11 DEF RunsInv

LEMMA StepOfRun ==
  ASSUME UserTyped, UserTyped', NumbersInv, KeyInv, NEW p, Procs = {p}, RunsInv(p),
         [CompareNext]_compareVars
  PROVE  NumbersInv' /\ RunsInv(p)'
<1>1. NumbersInv'
  BY EveryStep, StepNumbers DEF UserTyped
<1>2. CASE UNCHANGED compareVars
  <2> /\ UNCHANGED <<filesData, doing, begins, usrNos, pc, rolePc>>
      /\ UNCHANGED <<people, known, table, rows, role, remote>>
    BY <1>2 DEF compareVars, userVars, history, roleVars
  <2>1. FilesInv(p)'
    BY DEF RunsInv, FilesInv, Ends, InRun
  <2>2. RolePartInv(p)'
    BY DEF RunsInv, RolePartInv, Segment, Ends, InRun, Listed
  <2>3. AgreeInv(p)'
    <3>1. ASSUME NEW f \in DOMAIN filesData[p], Decides(p, f)', Compared(p, f)', Agrees(p, f)
          PROVE  Agrees(p, f)'
      BY <1>2, <3>1, AgreesBeside DEF userVars, compareVars
    <3>2. ASSUME NEW f \in DOMAIN filesData[p], Decides(p, f)', Compared(p, f)'
          PROVE  Decides(p, f) /\ Compared(p, f)
      BY <3>2 DEF Decides, Compared
    <3> QED BY <3>1, <3>2 DEF RunsInv, AgreeInv
  <2> QED BY <1>1, <2>1, <2>2, <2>3 DEF RunsInv
<1>3. CASE CompareNext
  <2>1. p \in Procs /\ \A q \in Procs : q = p
    OBVIOUS
  <2>2. \/ \E run \in Runs : CompareStart(p, run)
        \/ LookupFails(p) \/ UsersPart(p) \/ RolePartStarts(p) \/ RolePartSteps(p) \/ NextFile(p)
    BY <1>3, <2>1 DEF CompareNext
  <2>3. ASSUME NEW run \in Runs, CompareStart(p, run) PROVE RunsInv(p)'
    BY <2>1, <2>3, StartOfRun
  <2>4. ASSUME LookupFails(p) \/ UsersPart(p) PROVE RunsInv(p)'
    BY <2>1, <2>4, FailedLookup, StepOfUsers
  <2>5. ASSUME RolePartStarts(p) \/ RolePartSteps(p) \/ NextFile(p) PROVE RunsInv(p)'
    BY <2>1, <2>5, StartOfRolePart, StepOfRolePart, StepToNextFile
  <2> QED BY <1>1, <2>2, <2>3, <2>4, <2>5
<1> QED BY <1>1, <1>2, <1>3

(* Where a run stands in its files, what the role part has in hand, and what
   the files that have been compared have left in doreuserrole. *)
THEOREM RunsInvHolds ==
  ASSUME NEW CONSTANT p, Procs = {p}, Keyed,
         \A t \in Tables : DistinctNumbers(t) /\ 0 \notin Numbers(t)
  PROVE  CompareSpec => []NumbersInv /\ []RunsInv(p)
<1>1. CompareInit => NumbersInv /\ RunsInv(p)
  BY InitRuns
<1>2. UserTyped /\ UserTyped' /\ NumbersInv /\ KeyInv /\ RunsInv(p) /\ [CompareNext]_compareVars
        => NumbersInv' /\ RunsInv(p)'
  BY StepOfRun
<1>3. CompareSpec => []KeyInv
  BY CompareKeyInv
<1> QED BY <1>1, <1>2, <1>3, UserTypedHolds, PTL DEF CompareSpec

-----------------------------------------------------------------------------
(* What a finished run leaves behind. *)
LEMMA FinishedAgrees ==
  ASSUME UserTyped, NEW p \in Procs, RunsInv(p), Finished(p),
         NEW f \in DOMAIN filesData[p], Decides(p, f)
  PROVE  Agrees(p, f) /\ Segment(p, f) \subseteq DOMAIN usrNos[p]
         /\ filesData[p][f].role \in Roles
<1>1. DOMAIN filesData[p] = 1 .. Len(filesData[p]) /\ Len(filesData[p]) \in Nat
      /\ doing[p] \in Nat \ {0} /\ doing[p] \notin DOMAIN filesData[p]
  BY LenProperties DEF UserTyped, FilesTyped, Finished, InRun
<1>2. f < doing[p]
  BY <1>1
<1>3. pc[p] # "failed" /\ Compared(p, f)
  BY <1>1, <1>2 DEF RunsInv, FilesInv, InRun, Compared
<1>4. Agrees(p, f)
  BY <1>3 DEF RunsInv, AgreeInv
<1> QED BY <1>3, <1>4, ComparedIsResolved DEF RunsInv, Decides

(* Once a run is over, every role has the users its file was resolved to, and
   nobody else but users that a later file of the run has added. *)
THEOREM RoleMatchesFileHolds ==
  ASSUME NEW CONSTANT p, Procs = {p}, Keyed,
         \A t \in Tables : DistinctNumbers(t) /\ 0 \notin Numbers(t)
  PROVE  CompareSpec => []RoleMatchesFile
<1>1. UserTyped /\ RunsInv(p) => RoleMatchesFile
  <2> SUFFICES ASSUME UserTyped, RunsInv(p), Finished(p),
                      NEW f \in DOMAIN filesData[p], Decides(p, f)
               PROVE  LET named == {usrNos[p][j] : j \in Segment(p, f)}
                          later == {usrNos[p][j] : j \in DOMAIN people[p] \ Segment(p, f)}
                      IN  /\ named \subseteq MembersOf(filesData[p][f].role)
                          /\ MembersOf(filesData[p][f].role) \ named \subseteq later \ known[p]
    BY DEF RoleMatchesFile
  <2>1. Agrees(p, f)
    BY FinishedAgrees
  <2>2. DOMAIN usrNos[p] \subseteq DOMAIN people[p]
    <3>1. usrNos[p] \in Seq(Nat) /\ people[p] \in Seq(Person)
          /\ Len(usrNos[p]) <= Len(people[p])
      BY DEF UserTyped, TypeInv, TypeOK, LengthInv
    <3> QED BY <3>1, LenProperties
  <2> QED BY <2>1, <2>2 DEF Agrees
<1> QED BY <1>1, RunsInvHolds, UserTypedHolds, PTL

(* From file to role: once a run is over, everybody a file names, by id or by
   name, is a user who has its role. *)
THEOREM ListedPeopleGetTheRoleHolds ==
  ASSUME NEW CONSTANT p, Procs = {p}, NEW CONSTANT Owner, Owned(Owner),
         \A t \in Tables : 0 \notin Numbers(t)
  PROVE  CompareSpec => []ListedPeopleGetTheRole
<1>1. UserTyped /\ OwnerInv(Owner) /\ RunsInv(p) => ListedPeopleGetTheRole
  <2> SUFFICES ASSUME UserTyped, OwnerInv(Owner), RunsInv(p), Finished(p),
                      NEW f \in DOMAIN filesData[p], Decides(p, f), NEW j \in Segment(p, f)
               PROVE  \E k \in DOMAIN table :
                         /\ rows[filesData[p][f].role][table[k].usrNo] > 0
                         /\ \/ table[k].name = people[p][j].name
                            \/ /\ table[k].sso # Null
                               /\ Trim[table[k].sso] = Trim[people[p][j].sysId]
    BY DEF ListedPeopleGetTheRole
  <2>1. j \in DOMAIN usrNos[p] /\ usrNos[p][j] \in MembersOf(filesData[p][f].role)
    BY FinishedAgrees DEF Agrees
  <2>2. ResolvedMatches
    BY DEF OwnerInv, ResolvedInv, IsUser, ResolvedMatches
  <2> QED BY <2>1, <2>2 DEF MembersOf, ResolvedMatches
<1>2. CompareSpec => []OwnerInv(Owner)
  BY CompareOwnerInv
<1>3. CompareSpec => []RunsInv(p)
  BY RunsInvHolds DEF Owned
<1> QED BY <1>1, <1>2, <1>3, UserTypedHolds, PTL
=============================================================================
