--------------------------- MODULE RoleSyncProofs ---------------------------
(***************************************************************************)
(* Theorems about RoleSync, for every set of processes, roles and users,   *)
(* every set of lists and either schema.                                   *)
(***************************************************************************)
EXTENDS RoleSync, TLAPS

USE ConstantsAssumption

(* An entry of a remote list names a user or nobody. *)
LEMMA PersonType ==
  ASSUME NEW list \in Seq(RemotePerson), NEW i \in DOMAIN list
  PROVE  /\ list[i] \in RemotePerson
         /\ list[i].usrNo \in UsrNos \cup {NoUsrNo}
<1>1. list[i] \in RemotePerson
  OBVIOUS
<1> QED BY <1>1 DEF RemotePerson

(* The users a list names are users. *)
LEMMA NamedType ==
  ASSUME NEW list \in Seq(RemotePerson)
  PROVE  NamedIn(list) \subseteq UsrNos
BY PersonType DEF NamedIn

(* What a write does to the types. *)
LEMMA TouchType ==
  ASSUME TypeOK, NEW p \in Procs
  PROVE  Touch(p) \in [Procs -> {"clean", "peer", "foreign"}]
<1> SUFFICES ASSUME NEW q \in Procs
             PROVE  Touch(p)[q] \in {"clean", "peer", "foreign"}
  BY DEF Touch
<1> QED BY DEF Touch, TypeOK

LEMMA WriteType ==
  ASSUME TypeOK, NEW r \in Roles, NEW u \in UsrNos
  PROVE  /\ Delete(r, u) => rows' \in [Roles -> [UsrNos -> Nat]]
         /\ Insert(r, u) => rows' \in [Roles -> [UsrNos -> Nat]]
<1>1. /\ rows \in [Roles -> [UsrNos -> Nat]]
      /\ rows[r] \in [UsrNos -> Nat]
      /\ rows[r][u] \in Nat
  BY DEF TypeOK
<1>2. /\ [rows[r] EXCEPT ![u] = 0] \in [UsrNos -> Nat]
      /\ [rows[r] EXCEPT ![u] = rows[r][u] + 1] \in [UsrNos -> Nat]
  BY <1>1
<1> QED BY <1>1, <1>2 DEF Delete, Insert

(* The initial states, and every step from a state of the right types. *)
LEMMA TypeInit == Init => TypeOK
<1> SUFFICES ASSUME Init PROVE TypeOK
  OBVIOUS
<1>1. (CHOOSE r \in Roles : TRUE) \in Roles
  OBVIOUS
<1>2. role \in [Procs -> Roles]
  BY <1>1 DEF Init
<1>3. remote \in [Procs -> Seq(RemotePerson)]
  BY DEF Init
<1>4. rows \in [Roles -> [UsrNos -> Nat]]
  BY DEF Init
<1> QED BY <1>2, <1>3, <1>4 DEF Init, TypeOK, Active, Stopped

LEMMA TypeStep == TypeOK /\ [Next]_vars => TypeOK'
<1> SUFFICES ASSUME TypeOK, [Next]_vars PROVE TypeOK'
  OBVIOUS
<1> USE DEF TypeOK, dbVars, procVars, Active, Stopped
<1>1. ASSUME NEW p \in Procs, NEW r \in Roles, Start(p, r) PROVE TypeOK'
  <2>2. file[r] \in Seq(RemotePerson)
    OBVIOUS
  <2>1. NamedIn(file[r]) \subseteq UsrNos
    BY <2>2, NamedType
  <2> QED BY <1>1, <2>1, <2>2 DEF Start
<1>2. ASSUME NEW p \in Procs, ListBefore(p) PROVE TypeOK'
  BY <1>2 DEF ListBefore, Listed
<1>3. ASSUME NEW p \in Procs, NEW u \in UsrNos, MarkExisting(p, u)
      PROVE  TypeOK'
  BY <1>3, SMTT(20) DEF MarkExisting, Visit, RemoteByUsrNo
<1>4. ASSUME NEW p \in Procs, NEW u \in UsrNos, DeleteOutsider(p, u)
      PROVE  TypeOK'
  <2>1. /\ rows' \in [Roles -> [UsrNos -> Nat]]
        /\ touched' \in [Procs -> {"clean", "peer", "foreign"}]
    BY <1>4, TouchType, WriteType DEF DeleteOutsider
  <2>2. pending' \in [Procs -> [UsrNos -> Nat]]
    BY <1>4 DEF DeleteOutsider, Visit
  <2>3. deleted' \in [Procs -> SUBSET UsrNos]
    BY <1>4 DEF DeleteOutsider
  <2> QED BY <1>4, <2>1, <2>2, <2>3 DEF DeleteOutsider
<1>5. ASSUME NEW p \in Procs, DeletesDone(p) PROVE TypeOK'
  BY <1>5 DEF DeletesDone
<1>6. ASSUME NEW p \in Procs, SkipPerson(p) PROVE TypeOK'
  BY <1>6 DEF SkipPerson
<1>7. ASSUME NEW p \in Procs, InsertMember(p) PROVE TypeOK'
  <2>1. remote[p][next[p]].usrNo \in UsrNos
    BY <1>7, PersonType DEF InsertMember, AtPerson, MustInsert
  <2>2. /\ rows' \in [Roles -> [UsrNos -> Nat]]
        /\ touched' \in [Procs -> {"clean", "peer", "foreign"}]
    BY <1>7, <2>1, TouchType, WriteType DEF InsertMember
  <2>3. inserted' \in [Procs -> SUBSET UsrNos]
    BY <1>7, <2>1 DEF InsertMember
  <2>4. next' \in [Procs -> Nat \ {0}]
    BY <1>7 DEF InsertMember
  <2> QED BY <1>7, <2>2, <2>3, <2>4 DEF InsertMember
<1>8. ASSUME NEW p \in Procs, InsertRefused(p) PROVE TypeOK'
  BY <1>8 DEF InsertRefused
<1>9. ASSUME NEW p \in Procs, Verify(p) PROVE TypeOK'
  BY <1>9 DEF Verify
<1>10. ASSUME NEW p \in Procs, QueryFails(p) PROVE TypeOK'
  BY <1>10 DEF QueryFails, Fault
<1>11. ASSUME NEW p \in Procs, NEW u \in UsrNos, DeleteFails(p, u)
       PROVE  TypeOK'
  <2>1. /\ rows' \in [Roles -> [UsrNos -> Nat]]
        /\ touched' \in [Procs -> {"clean", "peer", "foreign"}]
    <3>1. CASE UNCHANGED <<rows, touched>>
      BY <3>1
    <3>2. CASE Delete(role[p], u) /\ touched' = Touch(p)
      BY <3>2, TouchType, WriteType
    <3> QED BY <1>11, <3>1, <3>2 DEF DeleteFails
  <2>2. pending' \in [Procs -> [UsrNos -> Nat]]
    BY <1>11 DEF DeleteFails, Visit
  <2>3. pc' \in [Procs -> Active \cup Stopped] /\ faults' \in Nat
    BY <1>11 DEF DeleteFails, Fault
  <2> QED BY <1>11, <2>1, <2>2, <2>3 DEF DeleteFails
<1>12. ASSUME NEW p \in Procs, InsertFails(p) PROVE TypeOK'
  <2>1. remote[p][next[p]].usrNo \in UsrNos
    BY <1>12, PersonType DEF InsertFails, AtPerson, MustInsert
  <2>2. /\ rows' \in [Roles -> [UsrNos -> Nat]]
        /\ touched' \in [Procs -> {"clean", "peer", "foreign"}]
    <3>1. CASE UNCHANGED <<rows, touched>>
      BY <3>1
    <3>2. CASE /\ Insert(role[p], remote[p][next[p]].usrNo)
               /\ touched' = Touch(p)
      BY <2>1, <3>2, TouchType, WriteType
    <3> QED BY <1>12, <3>1, <3>2 DEF InsertFails
  <2>3. pc' \in [Procs -> Active \cup Stopped] /\ faults' \in Nat
    BY <1>12 DEF InsertFails, Fault
  <2> QED BY <1>12, <2>2, <2>3 DEF InsertFails
<1>13. ASSUME NEW p \in Procs, Crash(p) PROVE TypeOK'
  BY <1>13 DEF Crash, Fault
<1>14. ASSUME NEW r \in Roles, NEW u \in UsrNos, OtherGrantOrRevoke(r, u)
       PROVE  TypeOK'
  BY <1>14, WriteType, SMTT(20) DEF OtherGrantOrRevoke, Fault, TouchAll
<1>15. ASSUME NEW u \in UsrNos, OtherUserChange(u) PROVE TypeOK'
  BY <1>15 DEF OtherUserChange, Fault
<1>16. ASSUME NEW r \in Roles, NEW list \in Lists, PublishFile(r, list)
       PROVE  TypeOK'
  BY <1>16 DEF PublishFile, Fault
<1>17. ASSUME NEW p \in Procs, ListUnreadable(p) PROVE TypeOK'
  BY <1>17 DEF ListUnreadable
<1>18. ASSUME NEW u \in UsrNos, OtherNullChange(u) PROVE TypeOK'
  BY <1>18 DEF OtherNullChange, Fault
<1>19. CASE UNCHANGED vars
  BY <1>19 DEF vars
<1> QED
  BY <1>1, <1>2, <1>3, <1>4, <1>5, <1>6, <1>7, <1>8, <1>9, <1>10, <1>11,
     <1>12, <1>13, <1>14, <1>15, <1>16, <1>17, <1>18, <1>19
  DEF Next, Step, Failure, Outside

(* Every variable keeps its type. *)
THEOREM TypeCorrect == Spec => []TypeOK
BY TypeInit, TypeStep, PTL DEF Spec

-----------------------------------------------------------------------------
(* The inductive invariant.  A step of a process leaves what the others hold
   alone and writes the database in one of two ways. *)

Same(q) ==
  /\ pc'[q] = pc[q] /\ role'[q] = role[q] /\ remote'[q] = remote[q]
  /\ pending'[q] = pending[q] /\ marked'[q] = marked[q]
  /\ next'[q] = next[q] /\ base'[q] = base[q]

Quiet == UNCHANGED <<rows, touched>>

Revokes(p) ==
  /\ \E u \in UsrNos \ Named(p) : Delete(role[p], u)
  /\ touched' = Touch(p)

Grants(p) ==
  /\ pc[p] = "insert"
  /\ \E u \in Named(p) : Insert(role[p], u)
  /\ touched' = Touch(p)

Effect(p) ==
  /\ UNCHANGED <<users, role, remote, base>>
  /\ \A q \in Procs \ {p} : Same(q)
  /\ Quiet \/ Revokes(p) \/ Grants(p)

(* A person the insert loop writes is one of the listed users. *)
LEMMA InsertNamed ==
  ASSUME TypeOK, NEW p \in Procs, AtPerson(p), MustInsert(p, next[p])
  PROVE  remote[p][next[p]].usrNo \in Named(p)
BY DEF AtPerson, MustInsert, Named, NamedIn

(* What a step may touch: the process's own variables, and of the database
   nothing, the rows of one outsider, or a row of one listed user. *)
LEMMA StepEffect ==
  ASSUME TypeOK, NEW p \in Procs, Step(p) \/ Failure(p)
  PROVE  Effect(p)
<1> USE DEF dbVars, Same, Effect
<1>1. ASSUME ListBefore(p) PROVE Effect(p)
  BY <1>1 DEF ListBefore, TypeOK, Quiet
<1>2. ASSUME NEW u \in UsrNos, MarkExisting(p, u) PROVE Effect(p)
  BY <1>2 DEF MarkExisting, Visit, TypeOK, Quiet
<1>3. ASSUME NEW u \in UsrNos, DeleteOutsider(p, u) PROVE Effect(p)
  <2>1. Revokes(p)
    BY <1>3 DEF DeleteOutsider, Revokes
  <2> QED BY <1>3, <2>1 DEF DeleteOutsider, Visit, TypeOK
<1>4. ASSUME DeletesDone(p) PROVE Effect(p)
  BY <1>4 DEF DeletesDone, TypeOK, Quiet
<1>5. ASSUME SkipPerson(p) PROVE Effect(p)
  BY <1>5 DEF SkipPerson, TypeOK, Quiet
<1>6. ASSUME InsertMember(p) PROVE Effect(p)
  <2>1. Grants(p)
    BY <1>6, InsertNamed DEF InsertMember, AtPerson, Grants
  <2> QED BY <1>6, <2>1 DEF InsertMember, TypeOK
<1>7. ASSUME InsertRefused(p) PROVE Effect(p)
  BY <1>7 DEF InsertRefused, TypeOK, Quiet
<1>8. ASSUME Verify(p) PROVE Effect(p)
  BY <1>8 DEF Verify, TypeOK, Quiet
<1>9. ASSUME QueryFails(p) PROVE Effect(p)
  BY <1>9 DEF QueryFails, TypeOK, Quiet
<1>10. ASSUME NEW u \in UsrNos, DeleteFails(p, u) PROVE Effect(p)
  <2>1. Quiet \/ Revokes(p)
    BY <1>10 DEF DeleteFails, Revokes, Quiet
  <2> QED BY <1>10, <2>1 DEF DeleteFails, Visit, TypeOK
<1>11. ASSUME InsertFails(p) PROVE Effect(p)
  <2>1. Quiet \/ Grants(p)
    BY <1>11, InsertNamed DEF InsertFails, AtPerson, Grants, Quiet
  <2> QED BY <1>11, <2>1 DEF InsertFails, TypeOK
<1>12. ASSUME Crash(p) PROVE Effect(p)
  BY <1>12 DEF Crash, TypeOK, Quiet
<1>13. ASSUME ListUnreadable(p) PROVE Effect(p)
  BY <1>13 DEF ListUnreadable, TypeOK, Quiet
<1> QED
  BY <1>1, <1>2, <1>3, <1>4, <1>5, <1>6, <1>7, <1>8, <1>9, <1>10, <1>11,
     <1>12, <1>13 DEF Step, Failure

(* What a write does to the members of a role. *)
LEMMA MembersAfter ==
  ASSUME TypeOK, users' = users, NEW r \in Roles, NEW s \in Roles,
         NEW u \in UsrNos
  PROVE  /\ Delete(r, u) =>
              Members(s)' = IF s = r THEN Members(r) \ {u} ELSE Members(s)
         /\ Insert(r, u) /\ u \in users =>
              Members(s)' = IF s = r THEN Members(r) \cup {u} ELSE Members(s)
<1>1. /\ rows \in [Roles -> [UsrNos -> Nat]]
      /\ users \subseteq UsrNos
  BY DEF TypeOK
<1>2. ASSUME Delete(r, u)
      PROVE  Members(s)' = IF s = r THEN Members(r) \ {u} ELSE Members(s)
  <2>1. CASE s = r
    BY <1>1, <1>2, <2>1 DEF Delete, Members
  <2>2. CASE s # r
    BY <1>1, <1>2, <2>2 DEF Delete, Members
  <2> QED BY <2>1, <2>2
<1>3. ASSUME Insert(r, u), u \in users
      PROVE  Members(s)' = IF s = r THEN Members(r) \cup {u} ELSE Members(s)
  <2>1. CASE s = r
    BY <1>1, <1>3, <2>1 DEF Insert, Members
  <2>2. CASE s # r
    BY <1>1, <1>3, <2>2 DEF Insert, Members
  <2> QED BY <2>1, <2>2
<1> QED BY <1>2, <1>3

(* A run stays consistent while its role only loses outsiders, or gains listed
   users once no outsider is left. *)
LEMMA RunFrame ==
  ASSUME TypeOK, NEW p \in Procs, RunInv(p), Same(p), users' = users,
         NEW M2, Members(role[p])' = M2,
         \/ M2 = Members(role[p])
         \/ \E u \in UsrNos \ Named(p) : M2 = Members(role[p]) \ {u}
         \/ /\ Members(role[p]) \subseteq Named(p)
            /\ \E u \in Named(p) : M2 = Members(role[p]) \cup {u}
  PROVE  RunInv(p)'
<1> DEFINE M == Members(role[p])
           N == Named(p)
           L == DOMAIN remote[p]
<1>1. Named(p)' = N /\ Members(role[p])' = M2
  BY DEF Same, Named
<1>2. M2 \ N \subseteq M \ N /\ M \cap N \subseteq M2 /\ (M2 \subseteq M \/ M2 \subseteq N)
  OBVIOUS
<1>3. \A i \in L : remote[p][i].usrNo \in M => remote[p][i].usrNo \in M2
  <2> SUFFICES ASSUME NEW i \in L, remote[p][i].usrNo \in M
               PROVE  remote[p][i].usrNo \in N
    BY <1>2
  <2>1. M \subseteq UsrNos
    BY DEF Members, TypeOK
  <2> QED BY <2>1 DEF Named, NamedIn
<1>4. /\ N \subseteq users' /\ base'[p] \cap N \subseteq M2
      /\ M2 \subseteq base'[p] \/ M2 \subseteq N
  BY <1>2 DEF RunInv, Same
<1>5. /\ pc'[p] = "list" => marked'[p] = {}
      /\ pc'[p] \in {"list", "delete"} => next'[p] = 1
      /\ pc'[p] = "verifyFailed" => \E i \in DOMAIN remote'[p] : remote'[p][i].op # ""
  BY DEF RunInv, Same
<1>6. pc'[p] = "delete" =>
        /\ \A u \in M2 \ N : pending'[p][u] > 0
        /\ \A u \in N : pending'[p][u] > 0 => u \in M2
  BY <1>2 DEF RunInv, Same
<1>7. pc'[p] \in {"delete", "insert"} =>
        \A i \in marked'[p] : i \in DOMAIN remote'[p] /\ remote'[p][i].usrNo \in M2
  BY <1>3 DEF RunInv, Same
<1>8. pc'[p] = "insert" =>
        /\ M2 \subseteq N
        /\ \A i \in DOMAIN remote'[p] : i < next'[p] =>
              \/ remote'[p][i].usrNo = NoUsrNo
              \/ remote'[p][i].op # ""
              \/ remote'[p][i].usrNo \in M2
  <2>1. pc[p] = "insert" => M2 \subseteq N
    BY <1>2 DEF RunInv
  <2> QED BY <1>3, <2>1 DEF RunInv, Same
<1>9. pc'[p] = "done" => M2 = N
  <2>1. pc[p] = "done" => M = N
    BY DEF RunInv
  <2> QED BY <1>2, <2>1 DEF Same
<1> HIDE DEF M, N, L
<1> QED BY <1>1, <1>4, <1>5, <1>6, <1>7, <1>8, <1>9 DEF RunInv

(* Another run's step: what it writes is a revocation of somebody this run
   does not list either, or, after its own delete loop, a grant of somebody
   both list; any other write ends "undisturbed". *)
LEMMA PeerStep ==
  ASSUME IInv, NEW p \in Procs, NEW q \in Procs \ {p}, Effect(p), Begun(p),
         Begun(q)', Undisturbed(q)'
  PROVE  RunInv(q)'
<1> USE DEF IInv
<1>1. Same(q) /\ users' = users /\ TypeOK
  BY DEF Effect
<1>2. Undisturbed(q) /\ RunInv(q)
  BY <1>1 DEF Effect, Quiet, Revokes, Grants, Touch, Undisturbed, Begun, Same,
              TypeOK
<1>3. PICK M2 : M2 = Members(role[q])'
  OBVIOUS
<1>4. CASE Quiet
  <2>1. Members(role[q])' = Members(role[q])
    BY <1>1, <1>4 DEF Quiet, Members, Same
  <2> QED BY <1>1, <1>2, <2>1, <1>3, RunFrame
<1>5. CASE ~Quiet /\ role[q] # role[p]
  <2>1. Members(role[q])' = Members(role[q])
    BY <1>1, <1>5 DEF Effect, Revokes, Grants, Delete, Insert, Members, Same,
                      TypeOK
  <2> QED BY <1>1, <1>2, <2>1, <1>3, RunFrame
<1>6. CASE ~Quiet /\ role[q] = role[p]
  <2>1. Named(p) = Named(q) /\ Undisturbed(p)
    BY <1>6 DEF Effect, Revokes, Grants, Touch, Undisturbed
  <2>2. RunInv(p)
    BY <2>1
  <2>3. CASE Revokes(p)
    <3>1. PICK u \in UsrNos \ Named(p) : Delete(role[p], u)
      BY <2>3 DEF Revokes
    <3>2. M2 = Members(role[q]) \ {u}
      BY <1>1, <1>3, <1>6, <3>1 DEF Delete, Members, Same, TypeOK
    <3> QED BY <1>1, <1>2, <1>3, <2>1, <3>2, RunFrame
  <2>4. CASE Grants(p)
    <3>1. PICK u \in Named(p) : Insert(role[p], u)
      BY <2>4 DEF Grants
    <3>2. u \in users /\ users \subseteq UsrNos
      BY <2>2 DEF RunInv, TypeOK
    <3>3. M2 = Members(role[q]) \cup {u}
      BY <1>1, <1>3, <1>6, <3>1, <3>2, SMTT(20) DEF Insert, Members, Same, TypeOK
    <3>4. Members(role[q]) \subseteq Named(q)
      BY <1>6, <2>1, <2>2, <2>4 DEF RunInv, Grants
    <3> QED BY <1>1, <1>2, <1>3, <2>1, <3>1, <3>3, <3>4, RunFrame
  <2> QED BY <1>6, <2>3, <2>4 DEF Effect
<1> QED BY <1>4, <1>5, <1>6

(* The run's own step.  A statement that stops the run can only lose what
   RunInv says of a loop in progress. *)
LEMMA StoppedRun ==
  ASSUME TypeOK, NEW p \in Procs, RunInv(p), Named(p) \subseteq users',
         Named(p)' = Named(p), base'[p] = base[p], pc'[p] \in {"failed", "crashed"},
         \/ Members(role[p])' = Members(role[p])
         \/ \E u \in UsrNos \ Named(p) :
               Members(role[p])' = Members(role[p]) \ {u}
         \/ /\ Members(role[p]) \subseteq Named(p)
            /\ \E u \in Named(p) :
                  Members(role[p])' = Members(role[p]) \cup {u}
  PROVE  RunInv(p)'
<1> DEFINE M == Members(role[p])
           N == Named(p)
<1>1. PICK M2 : M2 = Members(role[p])'
  OBVIOUS
<1>2. base[p] \cap N \subseteq M2 /\ (M2 \subseteq base[p] \/ M2 \subseteq N)
  BY <1>1 DEF RunInv
<1> HIDE DEF M, N
<1> QED BY <1>1, <1>2 DEF RunInv, M, N

LEMMA OwnStep ==
  ASSUME IInv, NEW p \in Procs, Step(p) \/ Failure(p), Undisturbed(p)'
  PROVE  RunInv(p)'
<1> DEFINE M == Members(role[p])
           N == Named(p)
<1> USE DEF dbVars
<1>1. TypeOK /\ Effect(p)
  BY StepEffect DEF IInv
<1>2. Begun(p) /\ Undisturbed(p)
  <2>1. pc[p] \in Active
    BY DEF Step, Failure, ListBefore, ListUnreadable, MarkExisting, DeleteOutsider, Visit,
       DeletesDone, SkipPerson, InsertMember, InsertRefused, AtPerson, Verify,
       AtVerify, QueryFails, DeleteFails, InsertFails, Crash, Active
  <2>2. touched'[p] = touched[p]
    BY <1>1 DEF Effect, Quiet, Revokes, Grants, Touch
  <2> QED BY <2>1, <2>2 DEF Begun, Undisturbed, Active
<1>3. RunInv(p)
  BY <1>2 DEF IInv
<1>4. /\ users' = users /\ Named(p)' = N /\ role'[p] = role[p]
      /\ remote'[p] = remote[p] /\ base'[p] = base[p]
      /\ N \subseteq users /\ users \subseteq UsrNos
  BY <1>1, <1>3 DEF Effect, Named, RunInv, TypeOK
<1>5. Quiet => Members(role[p])' = M
  BY <1>1, <1>4 DEF Quiet, Members
<1>6. ASSUME ListBefore(p) PROVE RunInv(p)'
  <2>1. /\ pc[p] = "list" /\ pc'[p] = "delete"
        /\ pending'[p] = Listed(role[p]) /\ marked'[p] = marked[p]
        /\ next'[p] = next[p] /\ Quiet
    BY <1>1, <1>6 DEF ListBefore, TypeOK, Quiet
  <2>2. Members(role[p])' = M
    BY <1>5, <2>1
  <2>3. /\ \A u \in M \ N : Listed(role[p])[u] > 0
        /\ \A u \in N : Listed(role[p])[u] > 0 => u \in M
    BY <1>4 DEF Listed, Members
  <2>4. marked[p] = {} /\ next[p] = 1
    BY <1>3, <2>1 DEF RunInv
  <2> HIDE DEF M, N
  <2> QED BY <1>3, <1>4, <2>1, <2>2, <2>3, <2>4 DEF RunInv, M, N
<1>7. ASSUME NEW u \in UsrNos, MarkExisting(p, u) PROVE RunInv(p)'
  <2>1. /\ pc[p] = "delete" /\ pc'[p] = "delete" /\ next'[p] = next[p]
        /\ u \in N /\ pending[p][u] > 0 /\ Quiet
        /\ \A v \in UsrNos \ {u} : pending'[p][v] = pending[p][v]
    BY <1>1, <1>7 DEF MarkExisting, Visit, TypeOK, Quiet
  <2>2. PICK i \in DOMAIN remote[p] : /\ remote[p][i].usrNo = u
                                      /\ marked'[p] = marked[p] \cup {i}
    BY <1>1, <1>7 DEF MarkExisting, RemoteByUsrNo, TypeOK
  <2>3. u \in M
    BY <1>3, <2>1 DEF RunInv
  <2>4. Members(role[p])' = M
    BY <1>5, <2>1
  <2>5. M \subseteq UsrNos
    BY <1>4 DEF Members
  <2> HIDE DEF M, N
  <2>6. /\ \A v \in M \ N : pending'[p][v] > 0
        /\ \A v \in N : pending'[p][v] > 0 => v \in M
    BY <1>3, <1>4, <2>1, <2>3, <2>5 DEF RunInv, M, N
  <2> QED BY <1>3, <1>4, <2>1, <2>2, <2>3, <2>4, <2>6 DEF RunInv, M, N
<1>8. ASSUME NEW u \in UsrNos, DeleteOutsider(p, u) PROVE RunInv(p)'
  <2>1. /\ pc[p] = "delete" /\ pc'[p] = "delete" /\ next'[p] = next[p]
        /\ marked'[p] = marked[p] /\ u \notin N
        /\ \A v \in UsrNos \ {u} : pending'[p][v] = pending[p][v]
        /\ Delete(role[p], u)
    BY <1>1, <1>8 DEF DeleteOutsider, Visit, TypeOK
  <2>2. Members(role[p])' = M \ {u}
    BY <1>1, <1>4, <2>1 DEF Delete, Members, TypeOK
  <2>3. M \subseteq UsrNos
    BY <1>4 DEF Members
  <2>4. \A i \in DOMAIN remote[p] : remote[p][i].usrNo # u
    BY <2>1 DEF Named, NamedIn
  <2> HIDE DEF M, N
  <2>5. /\ \A v \in (M \ {u}) \ N : pending'[p][v] > 0
        /\ \A v \in N : pending'[p][v] > 0 => v \in M \ {u}
    BY <1>3, <1>4, <2>1, <2>3 DEF RunInv, M, N
  <2> QED BY <1>3, <1>4, <2>1, <2>2, <2>4, <2>5 DEF RunInv, M, N
<1>9. ASSUME DeletesDone(p) PROVE RunInv(p)'
  <2>1. /\ pc[p] = "delete" /\ pc'[p] = "insert" /\ next'[p] = next[p]
        /\ marked'[p] = marked[p] /\ Quiet
        /\ \A u \in UsrNos : pending[p][u] = 0
    BY <1>1, <1>9 DEF DeletesDone, TypeOK, Quiet
  <2>2. Members(role[p])' = M
    BY <1>5, <2>1
  <2>3. M \subseteq UsrNos
    BY <1>4 DEF Members
  <2>4. M \subseteq N
    BY <1>3, <2>1, <2>3 DEF RunInv
  <2>5. next[p] = 1 /\ \A i \in DOMAIN remote[p] : ~(i < next[p])
    BY <1>1, <1>3, <2>1 DEF RunInv, TypeOK
  <2> HIDE DEF M, N
  <2> QED BY <1>3, <1>4, <2>1, <2>2, <2>4, <2>5 DEF RunInv, M, N
<1>10. ASSUME SkipPerson(p) PROVE RunInv(p)'
  <2>1. /\ pc[p] = "insert" /\ pc'[p] = "insert" /\ next'[p] = next[p] + 1
        /\ marked'[p] = marked[p] /\ ~MustInsert(p, next[p]) /\ Quiet
    BY <1>1, <1>10 DEF SkipPerson, AtPerson, TypeOK, Quiet
  <2>2. Members(role[p])' = M
    BY <1>5, <2>1
  <2>3. \/ remote[p][next[p]].usrNo = NoUsrNo \/ remote[p][next[p]].op # ""
        \/ remote[p][next[p]].usrNo \in M
    BY <1>3, <2>1 DEF RunInv, MustInsert
  <2>4. \A i \in DOMAIN remote[p] : i < next[p] + 1 => i < next[p] \/ i = next[p]
    BY <1>1 DEF TypeOK
  <2> HIDE DEF M, N
  <2> QED BY <1>3, <1>4, <2>1, <2>2, <2>3, <2>4 DEF RunInv, M, N
<1>11. ASSUME InsertMember(p) PROVE RunInv(p)'
  <2> DEFINE u == remote[p][next[p]].usrNo
  <2>1. /\ pc[p] = "insert" /\ pc'[p] = "insert" /\ next'[p] = next[p] + 1
        /\ marked'[p] = marked[p] /\ Insert(role[p], u)
    BY <1>1, <1>11 DEF InsertMember, AtPerson, TypeOK
  <2>2. u \in N
    BY <1>1, <1>11, InsertNamed DEF InsertMember
  <2>3. Members(role[p])' = M \cup {u}
    BY <1>1, <1>4, <2>1, <2>2 DEF Insert, Members, TypeOK
  <2>4. \A i \in DOMAIN remote[p] : i < next[p] + 1 => i < next[p] \/ i = next[p]
    BY <1>1 DEF TypeOK
  <2> HIDE DEF M, N
  <2> QED BY <1>3, <1>4, <2>1, <2>2, <2>3, <2>4 DEF RunInv, M, N
<1>12. ASSUME Verify(p) PROVE RunInv(p)'
  <2>1. /\ pc[p] = "insert" /\ next[p] > Len(remote[p]) /\ Quiet
        /\ pc'[p] = IF N \ M = {} /\ M \ N = {} THEN "done" ELSE "verifyFailed"
    BY <1>1, <1>12 DEF Verify, AtVerify, Missing, Unexpected, TypeOK, Quiet
  <2>2. Members(role[p])' = M
    BY <1>5, <2>1
  <2>3. M \subseteq N
    BY <1>3, <2>1 DEF RunInv
  <2>4. CASE N \subseteq M
    <3> HIDE DEF M, N
    <3>1. pc'[p] = "done" /\ M = N
      BY <2>1, <2>3, <2>4
    <3> QED BY <1>3, <1>4, <2>2, <3>1 DEF RunInv, M, N
  <2>5. CASE ~(N \subseteq M)
    <3>1. PICK u \in N : u \notin M
      BY <2>5
    <3>2. PICK i \in DOMAIN remote[p] : remote[p][i].usrNo = u
      BY <3>1 DEF Named, NamedIn
    <3>3. i < next[p] /\ u # NoUsrNo
      <4>1. /\ remote[p] \in Seq(RemotePerson) /\ next[p] \in Nat
            /\ i \in 1..Len(remote[p])
        BY <1>1, <3>2 DEF TypeOK
      <4> QED BY <1>4, <2>1, <3>1, <4>1
    <3>4. remote[p][i].op # ""
      BY <1>3, <2>1, <3>1, <3>2, <3>3 DEF RunInv
    <3>5. pc'[p] = "verifyFailed"
      BY <2>1, <3>1
    <3> HIDE DEF M, N
    <3> QED BY <1>3, <1>4, <2>2, <3>4, <3>5 DEF RunInv, M, N
  <2> QED BY <2>4, <2>5
<1>13. ASSUME InsertRefused(p) \/ ListUnreadable(p) \/ QueryFails(p) \/ Crash(p)
       PROVE  RunInv(p)'
  <2>1. pc'[p] \in {"failed", "crashed"} /\ Quiet
    BY <1>1, <1>13 DEF InsertRefused, ListUnreadable, QueryFails, Crash, TypeOK, Quiet
  <2> QED BY <1>1, <1>3, <1>4, <1>5, <2>1, StoppedRun
<1>14. ASSUME NEW u \in UsrNos, DeleteFails(p, u) PROVE RunInv(p)'
  <2>1. /\ pc'[p] = "failed" /\ u \notin N
        /\ Quiet \/ Delete(role[p], u)
    BY <1>1, <1>14 DEF DeleteFails, TypeOK, Quiet
  <2>2. Delete(role[p], u) => Members(role[p])' = M \ {u}
    BY <1>1, <1>4 DEF Delete, Members, TypeOK
  <2> QED BY <1>1, <1>3, <1>4, <1>5, <2>1, <2>2, StoppedRun
<1>15. ASSUME InsertFails(p) PROVE RunInv(p)'
  <2> DEFINE u == remote[p][next[p]].usrNo
  <2>1. /\ pc[p] = "insert" /\ pc'[p] = "failed"
        /\ Quiet \/ Insert(role[p], u)
    BY <1>1, <1>15 DEF InsertFails, AtPerson, TypeOK, Quiet
  <2>2. u \in N
    BY <1>1, <1>15, InsertNamed DEF InsertFails
  <2>3. Insert(role[p], u) => Members(role[p])' = M \cup {u}
    BY <1>1, <1>4, <2>2 DEF Insert, Members, TypeOK
  <2>4. M \subseteq N
    BY <1>3, <2>1 DEF RunInv
  <2> HIDE DEF u
  <2> QED BY <1>1, <1>3, <1>4, <1>5, <2>1, <2>2, <2>3, <2>4, StoppedRun
<1> QED
  BY <1>6, <1>7, <1>8, <1>9, <1>10, <1>11, <1>12, <1>13, <1>14, <1>15
  DEF Step, Failure

(* A step of a process keeps the invariant of every run. *)
LEMMA ProcessStep ==
  ASSUME IInv, TypeOK', NEW p \in Procs, Step(p) \/ Failure(p)
  PROVE  IInv'
<1>1. SUFFICES ASSUME NEW q \in Procs, Begun(q)', Undisturbed(q)'
               PROVE  RunInv(q)'
  BY DEF IInv
<1>2. Effect(p)
  BY StepEffect DEF IInv
<1>3. Begun(p)
  BY DEF Begun, Step, Failure, ListBefore, ListUnreadable, MarkExisting, DeleteOutsider, Visit,
     DeletesDone, SkipPerson, InsertMember, InsertRefused, AtPerson, Verify,
     AtVerify, QueryFails, DeleteFails, InsertFails, Crash, Active
<1>4. CASE q = p
  BY <1>1, <1>4, OwnStep
<1>5. CASE q # p
  BY <1>1, <1>2, <1>3, <1>5, PeerStep
<1> QED BY <1>4, <1>5

(* A new run starts consistent, and changes nothing the other runs rely on
   unless it inserts a user, which ends their "undisturbed". *)
LEMMA RunStart ==
  ASSUME IInv, TypeOK', NEW p \in Procs, NEW r \in Roles, Start(p, r)
  PROVE  IInv'
<1>1. TypeOK
  BY DEF IInv
<1>2. SUFFICES ASSUME NEW q \in Procs, Begun(q)', Undisturbed(q)'
               PROVE  RunInv(q)'
  BY DEF IInv
<1>3. CASE q = p
  <2>1. /\ role'[p] = r /\ remote'[p] = file[r] /\ rows' = rows
        /\ pc'[p] \in {"skipped", "list"} /\ marked'[p] = {} /\ next'[p] = 1
        /\ base'[p] = {u \in users' : rows[r][u] > 0}
        /\ users' = users \cup NamedIn(file[r])
    BY <1>1 DEF Start, TypeOK
  <2>2. Members(role[p])' = base'[p] /\ Named(p)' = NamedIn(file[r])
    BY <2>1 DEF Members, Named, NamedIn
  <2> QED BY <1>3, <2>1, <2>2 DEF RunInv
<1>4. CASE q # p
  <2>1. Same(q)
    BY <1>1, <1>4 DEF Start, Same, TypeOK
  <2>2. users' = users /\ rows' = rows /\ Undisturbed(q) /\ Begun(q)
    BY <1>2, <1>4, <2>1 DEF Start, Undisturbed, Begun, Same
  <2>3. PICK M2 : M2 = Members(role[q])'
    OBVIOUS
  <2>4. M2 = Members(role[q])
    BY <2>1, <2>2, <2>3 DEF Members, Same
  <2> QED BY <1>1, <2>1, <2>2, <2>3, <2>4, RunFrame DEF IInv
<1> QED BY <1>3, <1>4

(* A write of another application is foreign to every run on the role, and
   what is published later is news to later runs only. *)
LEMMA OutsideStep ==
  ASSUME IInv, TypeOK', Outside
  PROVE  IInv'
<1>1. TypeOK
  BY DEF IInv
<1>2. SUFFICES ASSUME NEW q \in Procs, Begun(q)', Undisturbed(q)'
               PROVE  RunInv(q)'
  BY DEF IInv
<1>3. Same(q)
  BY DEF Outside, OtherGrantOrRevoke, OtherUserChange, OtherNullChange,
     PublishFile, procVars,
     Same
<1>4. /\ Undisturbed(q) /\ Begun(q) /\ users' = users
      /\ rows'[role[q]] = rows[role[q]]
  <2> USE DEF Undisturbed, Begun, Same
  <2>1. ASSUME NEW r \in Roles, NEW u \in UsrNos, OtherGrantOrRevoke(r, u)
        PROVE  Undisturbed(q) /\ users' = users /\ rows'[role[q]] = rows[role[q]]
    <3>1. touched' = TouchAll(r) /\ users' = users
      BY <2>1 DEF OtherGrantOrRevoke
    <3>2. role[q] # r /\ touched'[q] = touched[q]
      BY <1>2, <3>1 DEF TouchAll
    <3>3. Insert(r, u) \/ Delete(r, u)
      BY <2>1 DEF OtherGrantOrRevoke
    <3>4. rows'[role[q]] = rows[role[q]]
      BY <1>1, <3>2, <3>3 DEF Insert, Delete, TypeOK
    <3> QED BY <1>2, <3>1, <3>2, <3>4
  <2>2. ASSUME NEW u \in UsrNos, OtherUserChange(u) PROVE FALSE
    BY <1>2, <2>2 DEF OtherUserChange
  <2>3. ASSUME NEW r \in Roles, NEW list \in Lists, PublishFile(r, list)
        PROVE  Undisturbed(q) /\ users' = users /\ rows'[role[q]] = rows[role[q]]
    BY <1>2, <2>3 DEF PublishFile
  <2>4. ASSUME NEW u \in UsrNos, OtherNullChange(u)
        PROVE  Undisturbed(q) /\ users' = users /\ rows'[role[q]] = rows[role[q]]
    BY <1>2, <2>4 DEF OtherNullChange
  <2> QED BY <1>2, <1>3, <2>1, <2>2, <2>3, <2>4 DEF Outside
<1>5. PICK M2 : M2 = Members(role[q])'
  OBVIOUS
<1>6. M2 = Members(role[q])
  BY <1>3, <1>4, <1>5 DEF Members, Same
<1> QED BY <1>1, <1>3, <1>4, <1>5, <1>6, RunFrame DEF IInv

LEMMA InvariantStep == IInv /\ [Next]_vars => IInv'
<1> SUFFICES ASSUME IInv, [Next]_vars PROVE IInv'
  OBVIOUS
<1>1. TypeOK'
  BY TypeStep DEF IInv
<1>2. CASE UNCHANGED vars
  <2> SUFFICES ASSUME NEW q \in Procs, Begun(q)', Undisturbed(q)' PROVE RunInv(q)'
    BY <1>1 DEF IInv
  <2>1. Same(q) /\ Begun(q) /\ Undisturbed(q) /\ users' = users
    BY <1>2 DEF vars, dbVars, procVars, Same, Begun, Undisturbed
  <2>2. PICK M2 : M2 = Members(role[q])'
    OBVIOUS
  <2>3. M2 = Members(role[q])
    BY <1>2, <2>2 DEF vars, dbVars, procVars, Members
  <2> QED BY <2>1, <2>2, <2>3, RunFrame DEF IInv
<1>3. ASSUME NEW p \in Procs, NEW r \in Roles, Start(p, r) PROVE IInv'
  BY <1>1, <1>3, RunStart
<1>4. ASSUME NEW p \in Procs, Step(p) \/ Failure(p) PROVE IInv'
  BY <1>1, <1>4, ProcessStep
<1>5. CASE Outside
  BY <1>1, <1>5, OutsideStep
<1> QED BY <1>2, <1>3, <1>4, <1>5 DEF Next

(* Every undisturbed run satisfies RunInv at every moment. *)
THEOREM InvariantHolds == Spec => []IInv
<1>1. Init => IInv
  BY TypeInit DEF Init, IInv, Begun
<1> QED BY <1>1, InvariantStep, PTL DEF Spec

(* The consequences: no access gap, revocations before grants, a successful
   run leaves exactly its list, and a failed verification has a cause. *)
THEOREM NoGap == Spec => []NoAccessGap
<1>1. IInv => NoAccessGap
  BY DEF IInv, RunInv, NoAccessGap
<1> QED BY <1>1, InvariantHolds, PTL

(* The members never mix people the list removes with people it adds. *)
THEOREM RevokesFirst == Spec => []RevokeBeforeGrant
<1>1. IInv => RevokeBeforeGrant
  BY DEF IInv, RunInv, RevokeBeforeGrant
<1> QED BY <1>1, InvariantHolds, PTL

(* Success is exact. *)
THEOREM DoneIsSynced == Spec => []DoneMeansSynced
<1>1. IInv => DoneMeansSynced
  BY DEF IInv, RunInv, DoneMeansSynced, Begun
<1> QED BY <1>1, InvariantHolds, PTL

(* No false alarm of the verification. *)
THEOREM FailureHasCause == Spec => []VerifyFailureHasCause
<1>1. IInv => VerifyFailureHasCause
  BY DEF IInv, RunInv, VerifyFailureHasCause, Begun
<1> QED BY <1>1, InvariantHolds, PTL
-----------------------------------------------------------------------------
(* The log and the marks of a run nobody else has touched. *)

Alone(p) == Begun(p) /\ touched[p] = "clean" /\ pc[p] # "crashed"

(* The variables of q that the invariant reads. *)
Held(q) == Same(q) /\ deleted'[q] = deleted[q] /\ inserted'[q] = inserted[q]

(* What a run relies on stays true while its role and its users do. *)
LEMMA AloneFrame ==
  ASSUME NEW q \in Procs, Held(q), users' = users,
         rows'[role[q]] = rows[role[q]]
  PROVE  /\ LogInv(q) => LogInv(q)'
         /\ Distinct(remote[q]) /\ MarkInv(q) => MarkInv(q)'
         /\ Distinct(remote[q])' = Distinct(remote[q])
<1>1. Members(role[q])' = Members(role[q]) /\ Named(q)' = Named(q)
  BY DEF Held, Same, Members, Named
<1>2. Unreported(q)' = Unreported(q)
  BY <1>1 DEF Unreported, Held, Same
<1> QED BY <1>1, <1>2 DEF LogInv, MarkInv, Distinct, Held, Same

(* Another process's step: it holds nothing of this run, and a run that is
   still untouched afterwards has kept its rows. *)
LEMMA HeldByOthers ==
  ASSUME TypeOK, NEW p \in Procs, Step(p) \/ Failure(p),
         NEW q \in Procs \ {p}
  PROVE  /\ Held(q) /\ users' = users
         /\ touched'[q] = "clean" =>
               touched[q] = "clean" /\ rows'[role[q]] = rows[role[q]]
<1>1. Effect(p)
  BY StepEffect
<1>2. deleted'[q] = deleted[q] /\ inserted'[q] = inserted[q]
  BY DEF Step, Failure, ListBefore, ListUnreadable, MarkExisting, DeleteOutsider, DeletesDone,
     SkipPerson, InsertMember, InsertRefused, Verify, QueryFails, DeleteFails,
     InsertFails, Crash, TypeOK
<1>3. ASSUME touched'[q] = "clean"
      PROVE  touched[q] = "clean" /\ rows'[role[q]] = rows[role[q]]
  <2>1. CASE Quiet
    BY <1>3, <2>1 DEF Quiet
  <2>2. CASE Revokes(p)
    BY <1>3, <2>2 DEF Revokes, Touch, Delete, TypeOK
  <2>3. CASE Grants(p)
    BY <1>3, <2>3 DEF Grants, Touch, Insert, TypeOK
  <2> QED BY <1>1, <2>1, <2>2, <2>3 DEF Effect
<1> QED BY <1>1, <1>2, <1>3 DEF Effect, Held

(* The run's own step keeps its log in accord with the role. *)
LEMMA OwnLog ==
  ASSUME IInv, NEW p \in Procs, Step(p) \/ Failure(p), Alone(p), Alone(p)',
         LogInv(p)
  PROVE  LogInv(p)'
<1> DEFINE M == Members(role[p])
           N == Named(p)
           D == deleted[p]
           I == inserted[p]
           B == base[p]
<1> USE DEF dbVars
<1>1. TypeOK /\ Effect(p)
  BY StepEffect DEF IInv
<1>2. RunInv(p)
  BY DEF Alone, IInv, Undisturbed
<1>3. /\ users' = users /\ Named(p)' = N /\ role'[p] = role[p] /\ base'[p] = B
      /\ N \subseteq users /\ users \subseteq UsrNos /\ pc[p] # "failed"
  BY <1>1, <1>2 DEF Effect, Named, RunInv, TypeOK, Step, Failure, ListBefore, ListUnreadable,
     MarkExisting, DeleteOutsider, Visit, DeletesDone, SkipPerson,
     InsertMember, InsertRefused, AtPerson, Verify, AtVerify, QueryFails,
     DeleteFails, InsertFails, Crash, Active
<1>4. /\ D \cap (M \cup N) = {} /\ I \subseteq M \cap N
      /\ (B \ M) \ D = {} /\ (M \ B) \ I = {}
  BY <1>3 DEF LogInv, Unreported
<1>5. ASSUME Quiet, deleted'[p] = D, inserted'[p] = I PROVE LogInv(p)'
  <2>1. Members(role[p])' = M
    BY <1>3, <1>5 DEF Quiet, Members
  <2>2. Unreported(p)' = {}
    BY <1>3, <1>4, <1>5, <2>1 DEF Unreported
  <2> QED BY <1>3, <1>4, <1>5, <2>1, <2>2 DEF LogInv
<1>6. ASSUME NEW u \in UsrNos \ N, Delete(role[p], u), inserted'[p] = I,
             \/ deleted'[p] = D \cup {u}
             \/ deleted'[p] = D /\ pc'[p] = "failed"
      PROVE  LogInv(p)'
  <2>1. Members(role[p])' = M \ {u}
    BY <1>1, <1>3, <1>6 DEF Delete, Members, TypeOK
  <2>2. PICK M2, D2 : M2 = M \ {u} /\ D2 = deleted'[p]
    OBVIOUS
  <2> HIDE DEF M, N, D, I, B
  <2>3. ((B \ M2) \ D2) \cup ((M2 \ B) \ I) \subseteq {u} \ D2
    BY <1>4, <1>6, <2>2
  <2> QED BY <1>3, <1>4, <1>6, <2>1, <2>2, <2>3 DEF LogInv, Unreported, M, N, D, I, B
<1>7. ASSUME NEW u \in N, Insert(role[p], u), deleted'[p] = D,
             \/ inserted'[p] = I \cup {u}
             \/ inserted'[p] = I /\ pc'[p] = "failed"
      PROVE  LogInv(p)'
  <2>1. Members(role[p])' = M \cup {u}
    BY <1>1, <1>3, <1>7 DEF Insert, Members, TypeOK
  <2>2. PICK M2, I2 : M2 = M \cup {u} /\ I2 = inserted'[p]
    OBVIOUS
  <2> HIDE DEF M, N, D, I, B
  <2>3. ((B \ M2) \ D) \cup ((M2 \ B) \ I2) \subseteq {u} \ I2
    BY <1>4, <1>7, <2>2
  <2> QED BY <1>3, <1>4, <1>7, <2>1, <2>2, <2>3 DEF LogInv, Unreported, M, N, D, I, B
<1>8. ASSUME \/ ListBefore(p) \/ DeletesDone(p) \/ SkipPerson(p)
             \/ InsertRefused(p) \/ Verify(p) \/ QueryFails(p) \/ Crash(p)
             \/ ListUnreadable(p) \/ \E u \in UsrNos : MarkExisting(p, u)
      PROVE  LogInv(p)'
  <2>1. Quiet /\ deleted'[p] = D /\ inserted'[p] = I
    BY <1>8 DEF ListBefore, DeletesDone, SkipPerson, InsertRefused, Verify,
                ListUnreadable, QueryFails, Crash, MarkExisting, Quiet
  <2> QED BY <1>5, <2>1
<1>9. ASSUME NEW u \in UsrNos, DeleteOutsider(p, u) PROVE LogInv(p)'
  BY <1>1, <1>6, <1>9 DEF DeleteOutsider, TypeOK
<1>10. ASSUME InsertMember(p) PROVE LogInv(p)'
  BY <1>1, <1>7, <1>10, InsertNamed DEF InsertMember, TypeOK
<1>11. ASSUME NEW u \in UsrNos, DeleteFails(p, u) PROVE LogInv(p)'
  <2>1. /\ u \notin N
        /\ Quiet \/ Delete(role[p], u)
        /\ deleted'[p] = D /\ inserted'[p] = I /\ pc'[p] = "failed"
    BY <1>1, <1>11 DEF DeleteFails, TypeOK, Quiet
  <2> QED BY <1>5, <1>6, <1>11, <2>1
<1>12. ASSUME InsertFails(p) PROVE LogInv(p)'
  <2>1. /\ Quiet \/ Insert(role[p], remote[p][next[p]].usrNo)
        /\ deleted'[p] = D /\ inserted'[p] = I /\ pc'[p] = "failed"
    BY <1>1, <1>12 DEF InsertFails, TypeOK, Quiet
  <2>2. remote[p][next[p]].usrNo \in N
    BY <1>1, <1>12, InsertNamed DEF InsertFails
  <2> QED BY <1>5, <1>7, <2>1, <2>2
<1> QED BY <1>8, <1>9, <1>10, <1>11, <1>12 DEF Step, Failure

(* The run's own step keeps the marks, if the list names nobody twice. *)
LEMMA OwnMarks ==
  ASSUME IInv, NEW p \in Procs, Step(p) \/ Failure(p), Alone(p), Alone(p)',
         Distinct(remote[p]), MarkInv(p)
  PROVE  MarkInv(p)'
<1> DEFINE L == DOMAIN remote[p]
           R == rows[role[p]]
<1> USE DEF dbVars
<1>1. TypeOK /\ Effect(p)
  BY StepEffect DEF IInv
<1>2. RunInv(p)
  BY DEF Alone, IInv, Undisturbed
<1>3. /\ remote'[p] = remote[p] /\ role'[p] = role[p]
      /\ R \in [UsrNos -> Nat] /\ next[p] \in Nat
      /\ Named(p) \subseteq users /\ users \subseteq UsrNos
  BY <1>1, <1>2 DEF Effect, RunInv, TypeOK
<1>4. \A i \in L : LET u == remote[p][i].usrNo
                   IN  u # NoUsrNo => u \in Named(p)
  BY DEF Named, NamedIn
<1>5. \A i, j \in L : remote[p][i].usrNo = remote[p][j].usrNo /\ i # j =>
         remote[p][i].usrNo = NoUsrNo
  BY DEF Distinct
<1>6. ASSUME pc'[p] \notin {"delete", "insert"} PROVE MarkInv(p)'
  BY <1>6 DEF MarkInv
<1>7. ASSUME ListBefore(p) PROVE MarkInv(p)'
  <2>1. /\ pc'[p] = "delete" /\ rows'[role[p]] = R
        /\ \A u \in Named(p) : pending'[p][u] = R[u]
    BY <1>1, <1>3, <1>7 DEF ListBefore, Listed, TypeOK
  <2> QED BY <1>3, <1>4, <2>1 DEF MarkInv
<1>8. ASSUME NEW u \in UsrNos, MarkExisting(p, u) PROVE MarkInv(p)'
  <2>1. /\ pc[p] = "delete" /\ pc'[p] = "delete" /\ rows'[role[p]] = R
        /\ \A v \in UsrNos \ {u} : pending'[p][v] = pending[p][v]
        /\ u \in Named(p)
    BY <1>1, <1>8 DEF MarkExisting, Visit, TypeOK
  <2>2. PICK i \in L : remote[p][i].usrNo = u /\ marked'[p] = marked[p] \cup {i}
    BY <1>1, <1>8 DEF MarkExisting, RemoteByUsrNo, TypeOK
  <2>3. u # NoUsrNo
    BY <2>1 DEF Named, NamedIn
  <2>4. ASSUME NEW j \in L, remote[p][j].usrNo # NoUsrNo,
               R[remote[p][j].usrNo] > 0
        PROVE  pending'[p][remote[p][j].usrNo] > 0 \/ j \in marked'[p]
    <3>1. CASE j = i
      BY <2>2, <3>1
    <3>2. CASE j # i
      <4>1. remote[p][j].usrNo \in UsrNos \ {u}
        BY <1>3, <1>4, <1>5, <2>2, <2>3, <2>4, <3>2
      <4>2. pending[p][remote[p][j].usrNo] > 0 \/ j \in marked[p]
        BY <2>1, <2>4 DEF MarkInv
      <4> QED BY <2>1, <2>2, <4>1, <4>2
    <3> QED BY <3>1, <3>2
  <2> QED BY <1>3, <2>1, <2>4 DEF MarkInv
<1>9. ASSUME NEW u \in UsrNos, DeleteOutsider(p, u) PROVE MarkInv(p)'
  <2>1. /\ pc[p] = "delete" /\ pc'[p] = "delete" /\ u \notin Named(p)
        /\ marked'[p] = marked[p]
        /\ \A v \in UsrNos \ {u} : pending'[p][v] = pending[p][v]
        /\ \A v \in UsrNos \ {u} : rows'[role[p]][v] = R[v]
    BY <1>1, <1>9 DEF DeleteOutsider, Visit, Delete, TypeOK
  <2>2. ASSUME NEW j \in L, remote[p][j].usrNo # NoUsrNo,
               rows'[role[p]][remote[p][j].usrNo] > 0
        PROVE  pending'[p][remote[p][j].usrNo] > 0 \/ j \in marked'[p]
    <3>1. remote[p][j].usrNo \in UsrNos \ {u}
      BY <1>3, <1>4, <2>1, <2>2
    <3> QED BY <2>1, <2>2, <3>1 DEF MarkInv
  <2> QED BY <1>3, <2>1, <2>2 DEF MarkInv
<1>10. ASSUME DeletesDone(p) PROVE MarkInv(p)'
  <2>1. /\ pc[p] = "delete" /\ pc'[p] = "insert" /\ rows'[role[p]] = R
        /\ marked'[p] = marked[p] /\ \A u \in UsrNos : pending[p][u] = 0
    BY <1>1, <1>10 DEF DeletesDone, TypeOK
  <2> QED BY <1>3, <1>4, <2>1 DEF MarkInv
<1>11. ASSUME SkipPerson(p) PROVE MarkInv(p)'
  <2>1. /\ pc[p] = "insert" /\ pc'[p] = "insert" /\ rows'[role[p]] = R
        /\ marked'[p] = marked[p] /\ next'[p] = next[p] + 1
    BY <1>1, <1>11 DEF SkipPerson, AtPerson, TypeOK
  <2>2. \A i \in L : i < next[p] => i < next[p] + 1
    BY <1>1, <1>3 DEF TypeOK
  <2> QED BY <1>3, <2>1, <2>2 DEF MarkInv
<1>12. ASSUME InsertMember(p) PROVE MarkInv(p)'
  <2> DEFINE u == remote[p][next[p]].usrNo
  <2>1. /\ pc[p] = "insert" /\ pc'[p] = "insert" /\ next[p] \in L
        /\ marked'[p] = marked[p] /\ next'[p] = next[p] + 1
        /\ u # NoUsrNo /\ Insert(role[p], u)
    BY <1>1, <1>12 DEF InsertMember, AtPerson, MustInsert, TypeOK
  <2>2. u \in UsrNos
    BY <1>3, <1>4, <2>1
  <2>3. \A v \in UsrNos \ {u} : rows'[role[p]][v] = R[v]
    BY <1>1, <2>1, <2>2 DEF Insert, TypeOK
  <2>4. \A i \in L : i < next[p] \/ i = next[p] => i < next[p] + 1
    BY <1>1, <1>3 DEF TypeOK
  <2>5. ASSUME NEW j \in L, remote[p][j].usrNo # NoUsrNo,
               rows'[role[p]][remote[p][j].usrNo] > 0
        PROVE  j < next[p] + 1 \/ j \in marked[p]
    <3>1. CASE j = next[p]
      BY <2>4, <3>1
    <3>2. CASE j # next[p]
      <4>1. remote[p][j].usrNo \in UsrNos \ {u}
        BY <1>3, <1>4, <1>5, <2>1, <2>5, <3>2
      <4>2. j < next[p] \/ j \in marked[p]
        BY <2>1, <2>3, <2>5, <4>1 DEF MarkInv
      <4> QED BY <2>4, <4>2
    <3> QED BY <3>1, <3>2
  <2> QED BY <1>3, <2>1, <2>5 DEF MarkInv
<1>13. ASSUME ListUnreadable(p) \/ InsertRefused(p) \/ Verify(p) \/ Failure(p)
       PROVE  pc'[p] \notin {"delete", "insert"}
  BY <1>1, <1>13 DEF ListUnreadable, InsertRefused, Verify, Failure, QueryFails, DeleteFails,
     InsertFails, Crash, TypeOK
<1> QED
  BY <1>6, <1>7, <1>8, <1>9, <1>10, <1>11, <1>12, <1>13 DEF Step

LEMMA AloneStep == IInv /\ AloneInv /\ [Next]_vars => AloneInv'
<1> SUFFICES ASSUME IInv, AloneInv, [Next]_vars, NEW q \in Procs, Alone(q)'
             PROVE  LogInv(q)' /\ (Distinct(remote[q]) => MarkInv(q))'
  BY DEF AloneInv, Alone
<1>1. TypeOK
  BY DEF IInv
<1>2. Alone(q) => LogInv(q) /\ (Distinct(remote[q]) => MarkInv(q))
  BY DEF AloneInv, Alone
<1>3. ASSUME Held(q), users' = users, rows'[role[q]] = rows[role[q]],
             touched[q] = "clean"
      PROVE  LogInv(q)' /\ (Distinct(remote[q]) => MarkInv(q))'
  <2>1. Alone(q)
    BY <1>3 DEF Alone, Begun, Held, Same
  <2> QED BY <1>2, <1>3, <2>1, AloneFrame
<1>4. CASE UNCHANGED vars
  <2>1. /\ Held(q) /\ users' = users /\ rows'[role[q]] = rows[role[q]]
        /\ touched[q] = "clean"
    BY <1>4 DEF vars, dbVars, procVars, Held, Same, Alone
  <2> QED BY <1>3, <2>1
<1>5. ASSUME NEW p \in Procs, Step(p) \/ Failure(p)
      PROVE  LogInv(q)' /\ (Distinct(remote[q]) => MarkInv(q))'
  <2>1. CASE p = q
    <3>1. Alone(q)
      <4>1. pc[q] \in Active
        BY <1>5, <2>1 DEF Step, Failure, ListBefore, ListUnreadable, MarkExisting,
           DeleteOutsider, Visit, DeletesDone, SkipPerson, InsertMember,
           InsertRefused, AtPerson, Verify, AtVerify, QueryFails, DeleteFails,
           InsertFails, Crash, Active
      <4>2. touched'[q] = touched[q]
        BY <1>1, <1>5, <2>1, StepEffect DEF Effect, Quiet, Revokes, Grants, Touch
      <4> QED BY <4>1, <4>2 DEF Alone, Begun, Active
    <3>2. Distinct(remote[q])' = Distinct(remote[q])
      BY <1>1, <1>5, <2>1, StepEffect DEF Effect, Distinct
    <3> QED BY <1>2, <1>5, <2>1, <3>1, <3>2, OwnLog, OwnMarks
  <2>2. CASE p # q
    BY <1>1, <1>3, <1>5, <2>2, HeldByOthers DEF Alone
  <2> QED BY <2>1, <2>2
<1>6. ASSUME NEW p \in Procs, NEW r \in Roles, Start(p, r)
      PROVE  LogInv(q)' /\ (Distinct(remote[q]) => MarkInv(q))'
  <2>1. CASE p = q
    <3>1. /\ role'[q] = r /\ remote'[q] = file[r] /\ rows' = rows
          /\ pc'[q] \in {"skipped", "list"}
          /\ deleted'[q] = {} /\ inserted'[q] = {}
          /\ base'[q] = {u \in users' : rows[r][u] > 0}
      BY <1>1, <1>6, <2>1 DEF Start, TypeOK
    <3>2. Members(role[q])' = base'[q]
      BY <3>1 DEF Members
    <3> QED BY <3>1, <3>2 DEF LogInv, Unreported, MarkInv
  <2>2. CASE p # q
    <3>1. Held(q)
      BY <1>1, <1>6, <2>2 DEF Start, TypeOK, Held, Same
    <3>2. users' = users /\ rows' = rows /\ touched[q] = "clean"
      BY <1>6, <2>2 DEF Start, Alone
    <3> QED BY <1>3, <3>1, <3>2
  <2> QED BY <2>1, <2>2
<1>7. CASE Outside
  <2>1. Held(q)
    BY <1>7 DEF Outside, OtherGrantOrRevoke, OtherUserChange, OtherNullChange,
     PublishFile,
       procVars, Held, Same
  <2>2. /\ users' = users /\ touched[q] = "clean"
        /\ rows'[role[q]] = rows[role[q]]
    <3>1. ASSUME NEW r \in Roles, NEW u \in UsrNos, OtherGrantOrRevoke(r, u)
          PROVE  /\ users' = users /\ touched[q] = "clean"
                 /\ rows'[role[q]] = rows[role[q]]
      <4>1. users' = users /\ touched[q] = "clean" /\ role[q] # r
        BY <1>1, <2>1, <3>1 DEF OtherGrantOrRevoke, TouchAll, Alone, TypeOK, Held, Same
      <4>2. \A s \in Roles \ {r} : rows'[s] = rows[s]
        BY <1>1, <3>1 DEF OtherGrantOrRevoke, Insert, Delete, TypeOK
      <4> QED BY <1>1, <4>1, <4>2 DEF TypeOK
    <3>2. ASSUME NEW u \in UsrNos, OtherUserChange(u) PROVE FALSE
      BY <1>1, <2>1, <3>2 DEF OtherUserChange, Alone, TypeOK, Held, Same
    <3>3. ASSUME NEW r \in Roles, NEW list \in Lists, PublishFile(r, list)
          PROVE  users' = users /\ rows' = rows /\ touched[q] = "clean"
      BY <2>1, <3>3 DEF PublishFile, Alone, Held, Same
    <3>4. ASSUME NEW u \in UsrNos, OtherNullChange(u)
          PROVE  users' = users /\ rows' = rows /\ touched[q] = "clean"
      BY <2>1, <3>4 DEF OtherNullChange, Alone, Held, Same
    <3> QED BY <1>7, <3>1, <3>2, <3>3, <3>4 DEF Outside
  <2> QED BY <1>3, <2>1, <2>2
<1> QED BY <1>4, <1>5, <1>6, <1>7 DEF Next

(* An untouched run has its log and its marks right at every moment. *)
THEOREM AloneHolds == Spec => []AloneInv
<1>1. Init => AloneInv
  BY DEF Init, AloneInv, Begun
<1> QED BY <1>1, InvariantHolds, AloneStep, PTL DEF Spec

(* The report of a run nobody interferes with: every reported change is in
   force, and at most the one change whose statement failed is missing. *)
THEOREM LogIsTrue == Spec => []ReportMatchesChanges
<1>1. AloneInv => ReportMatchesChanges
  BY DEF AloneInv, LogInv, ReportMatchesChanges
<1> QED BY <1>1, AloneHolds, PTL

(* For a list without repetitions the insert loop never inserts a row that is
   there: whoever the delete loop saw is marked. *)
THEOREM InsertsAreNew == Spec => InsertOnlyAbsent
<1>1. IInv /\ AloneInv => \A p \in Procs :
         InsertMember(p) /\ touched[p] = "clean" /\ Distinct(remote[p]) =>
            rows[role[p]][remote[p][next[p]].usrNo] = 0
  <2> SUFFICES ASSUME IInv, AloneInv, NEW p \in Procs, InsertMember(p),
                      touched[p] = "clean", Distinct(remote[p])
               PROVE  rows[role[p]][remote[p][next[p]].usrNo] = 0
    OBVIOUS
  <2> DEFINE u == remote[p][next[p]].usrNo
  <2>1. TypeOK
    BY DEF IInv
  <2>2. /\ pc[p] = "insert" /\ next[p] \in DOMAIN remote[p]
        /\ u # NoUsrNo /\ next[p] \notin marked[p]
    BY DEF InsertMember, AtPerson, MustInsert
  <2>3. MarkInv(p)
    BY <2>2 DEF AloneInv, Begun
  <2>4. ~(next[p] < next[p])
    BY <2>1 DEF TypeOK
  <2>5. ~(rows[role[p]][u] > 0)
    BY <2>2, <2>3, <2>4 DEF MarkInv
  <2>6. u \in Named(p) /\ Named(p) \subseteq UsrNos
    BY <2>1, <2>2, NamedType DEF Named, NamedIn, TypeOK
  <2>7. rows[role[p]][u] \in Nat
    BY <2>1, <2>6 DEF TypeOK
  <2> QED BY <2>5, <2>7
<1> QED BY <1>1, InvariantHolds, AloneHolds, PTL DEF InsertOnlyAbsent

-----------------------------------------------------------------------------
(* RoleSync implements RoleSpec: every initial state and every step of the
   statements is an initial state and a step, or a stutter, of the phases. *)

(* The marks "clean" of the abstract role follow from who touched it. *)
LEMMA CleanAfter ==
  ASSUME TypeOK, NEW p \in Procs
  PROVE  /\ UNCHANGED touched => Clean' = Clean
         /\ touched' = Touch(p) => Clean' = Abstract!Disturb(p)
<1>1. UNCHANGED touched => Clean' = Clean
  BY DEF Clean, Undisturbed
<1>2. ASSUME touched' = Touch(p), NEW q \in Procs
      PROVE  Undisturbed(q)' = Abstract!Disturb(p)[q]
  BY <1>2 DEF Touch, Undisturbed, Abstract!Disturb, Clean, Targets
<1> QED BY <1>1, <1>2 DEF Clean, Abstract!Disturb

(* The members an application sees after a write. *)
LEMMA MembersNowAfter ==
  ASSUME TypeOK, users' = users, NEW r \in Roles, NEW u \in UsrNos
  PROVE  /\ UNCHANGED rows => MembersNow' = MembersNow
         /\ Delete(r, u) => MembersNow' = [MembersNow EXCEPT ![r] = @ \ {u}]
         /\ Insert(r, u) /\ u \in users =>
               MembersNow' = [MembersNow EXCEPT ![r] = @ \cup {u}]
         /\ Insert(r, u) /\ u \notin users => MembersNow' = MembersNow
<1>1. UNCHANGED rows => MembersNow' = MembersNow
  BY DEF MembersNow, Members
<1>2. ASSUME Delete(r, u)
      PROVE  MembersNow' = [MembersNow EXCEPT ![r] = @ \ {u}]
  <2>1. \A s \in Roles :
           Members(s)' = IF s = r THEN Members(r) \ {u} ELSE Members(s)
    BY <1>2, MembersAfter
  <2> QED BY <2>1 DEF MembersNow
<1>3. ASSUME Insert(r, u), u \in users
      PROVE  MembersNow' = [MembersNow EXCEPT ![r] = @ \cup {u}]
  <2>1. \A s \in Roles :
           Members(s)' = IF s = r THEN Members(r) \cup {u} ELSE Members(s)
    BY <1>3, MembersAfter
  <2> QED BY <2>1 DEF MembersNow
<1>4. ASSUME Insert(r, u), u \notin users
      PROVE  MembersNow' = MembersNow
  <2>1. \A s \in Roles : Members(s)' = Members(s)
    BY <1>4 DEF Insert, Members, TypeOK
  <2> QED BY <2>1 DEF MembersNow
<1> QED BY <1>1, <1>2, <1>3, <1>4

(* Of the phases, a step moves only the one of its own process. *)
LEMMA PhasesAfter ==
  ASSUME TypeOK, NEW p \in Procs, Effect(p)
  PROVE  /\ role' = role /\ Targets' = Targets /\ users' = users
         /\ Phases' = [Phases EXCEPT ![p] = PhaseOf(p)']
<1>1. \A q \in Procs \ {p} : PhaseOf(q)' = PhaseOf(q)
  BY DEF Effect, Same, PhaseOf
<1> QED BY <1>1 DEF Effect, Phases, Targets, Named

(* The initial states. *)
LEMMA RefinesInit == Init => Abstract!Init
<1> SUFFICES ASSUME Init PROVE Abstract!Init
  OBVIOUS
<1>1. TypeOK
  BY TypeInit
<1>2. MembersNow \in [Roles -> SUBSET UsrNos]
  BY <1>1 DEF MembersNow, Members, TypeOK
<1>3. \A p \in Procs : PhaseOf(p) = "off" /\ Named(p) = {} /\ Undisturbed(p)
  <2> SUFFICES ASSUME NEW p \in Procs
               PROVE  PhaseOf(p) = "off" /\ Named(p) = {} /\ Undisturbed(p)
    OBVIOUS
  <2>1. remote[p] = <<>> /\ pc[p] = "idle" /\ touched[p] = "clean"
    BY DEF Init
  <2>2. Named(p) = {}
    BY <2>1 DEF Named, NamedIn
  <2> QED BY <2>1, <2>2 DEF PhaseOf, Undisturbed
<1> QED BY <1>1, <1>2, <1>3 DEF Abstract!Init, Phases, Targets, Clean, TypeOK

(* A step of a run is a step of its phases or a stutter. *)
LEMMA RefinesStep ==
  ASSUME IInv, NEW p \in Procs, Step(p) \/ Failure(p)
  PROVE  Abstract!Next \/ UNCHANGED Abstract!vars
<1>1. TypeOK /\ Effect(p)
  BY StepEffect DEF IInv
<1>2. /\ role' = role /\ Targets' = Targets /\ users' = users
      /\ Phases' = [Phases EXCEPT ![p] = PhaseOf(p)']
  BY <1>1, PhasesAfter
<1>3. /\ Phases \in [Procs -> {"off", "revoking", "granting", "done", "failed"}]
      /\ role[p] \in Roles /\ Targets[p] = Named(p) /\ Phases[p] = PhaseOf(p)
      /\ Clean[p] = Undisturbed(p) /\ MembersNow[role[p]] = Members(role[p])
      /\ Named(p) \subseteq UsrNos
  BY <1>1, NamedType DEF TypeOK, Phases, PhaseOf, Targets, Clean, MembersNow,
                         Active, Stopped, Named
<1>4. Quiet => MembersNow' = MembersNow /\ Clean' = Clean
  <2>1. \E u : u \in UsrNos \/ UsrNos = {}
    OBVIOUS
  <2> QED BY <1>1, <1>2, CleanAfter DEF Quiet, MembersNow, Members
<1>5. ASSUME Quiet, PhaseOf(p)' = PhaseOf(p)
      PROVE  UNCHANGED Abstract!vars
  BY <1>2, <1>3, <1>4, <1>5 DEF Abstract!vars
<1>6. ASSUME Quiet, PhaseOf(p) \in {"revoking", "granting"},
             PhaseOf(p)' = "failed"
      PROVE  Abstract!Fail(p)
  BY <1>2, <1>3, <1>4, <1>6 DEF Abstract!Fail, Abstract!Busy
<1>7. ASSUME NEW u \in UsrNos, u \notin Named(p), PhaseOf(p) = "revoking",
             PhaseOf(p)' \in {"revoking", "failed"},
             Delete(role[p], u), touched' = Touch(p)
      PROVE  Abstract!Revoke(p, u, PhaseOf(p)')
  <2>1. MembersNow' = [MembersNow EXCEPT ![role[p]] = @ \ {u}]
    BY <1>1, <1>2, <1>3, <1>7, MembersNowAfter
  <2>2. Clean' = Abstract!Disturb(p)
    BY <1>1, <1>7, CleanAfter
  <2> QED BY <1>2, <1>3, <1>7, <2>1, <2>2 DEF Abstract!Revoke
<1>8. ASSUME NEW u \in Named(p), PhaseOf(p) = "granting",
             PhaseOf(p)' \in {"granting", "failed"},
             Insert(role[p], u), touched' = Touch(p)
      PROVE  Abstract!Grant(p, u, PhaseOf(p)')
  <2>1. CASE u \in users
    <3>1. MembersNow' = [MembersNow EXCEPT ![role[p]] = @ \cup {u}]
      BY <1>1, <1>2, <1>3, <1>8, <2>1, MembersNowAfter
    <3> QED BY <1>1, <1>2, <1>3, <1>8, <3>1, CleanAfter DEF Abstract!Grant
  <2>2. CASE u \notin users
    <3>1. MembersNow' = MembersNow
      BY <1>1, <1>2, <1>3, <1>8, <2>2, MembersNowAfter
    <3>2. ~Undisturbed(p)
      BY <1>8, <2>2 DEF IInv, Begun, RunInv, PhaseOf
    <3> QED BY <1>1, <1>2, <1>3, <1>8, <3>1, <3>2, CleanAfter
            DEF Abstract!Grant
  <2> QED BY <2>1, <2>2
<1> USE DEF PhaseOf, dbVars
<1>9. ASSUME ListBefore(p) PROVE UNCHANGED Abstract!vars
  BY <1>1, <1>5, <1>9 DEF ListBefore, TypeOK, Quiet
<1>10. ASSUME NEW u \in UsrNos, MarkExisting(p, u) PROVE UNCHANGED Abstract!vars
  BY <1>1, <1>5, <1>10 DEF MarkExisting, TypeOK, Quiet
<1>11. ASSUME NEW u \in UsrNos, DeleteOutsider(p, u)
       PROVE  Abstract!Revoke(p, u, "revoking")
  <2>1. /\ pc[p] = "delete" /\ pc'[p] = "delete" /\ u \notin Named(p)
        /\ Delete(role[p], u) /\ touched' = Touch(p)
    BY <1>1, <1>11 DEF DeleteOutsider, Visit, TypeOK
  <2> QED BY <1>7, <2>1
<1>12. ASSUME DeletesDone(p) PROVE Abstract!TurnToGranting(p)
  <2>1. pc[p] = "delete" /\ pc'[p] = "insert" /\ Quiet
    BY <1>1, <1>12 DEF DeletesDone, TypeOK, Quiet
  <2>2. Undisturbed(p) => Members(role[p]) \subseteq Named(p)
    <3>1. Members(role[p]) \subseteq UsrNos
      BY <1>1 DEF Members, TypeOK
    <3>2. \A u \in UsrNos : pending[p][u] = 0
      BY <1>12 DEF DeletesDone
    <3>3. Undisturbed(p) => RunInv(p)
      BY <2>1 DEF IInv, Begun
    <3>4. RunInv(p) =>
             \A u \in Members(role[p]) \ Named(p) : pending[p][u] > 0
      BY <2>1 DEF RunInv
    <3> QED BY <3>1, <3>2, <3>3, <3>4
  <2> QED BY <1>2, <1>3, <1>4, <2>1, <2>2 DEF Abstract!TurnToGranting
<1>13. ASSUME SkipPerson(p) PROVE UNCHANGED Abstract!vars
  BY <1>1, <1>5, <1>13 DEF SkipPerson, TypeOK, Quiet
<1>14. ASSUME InsertMember(p)
       PROVE  Abstract!Grant(p, remote[p][next[p]].usrNo, "granting")
  <2>1. /\ pc[p] = "insert" /\ pc'[p] = "insert"
        /\ Insert(role[p], remote[p][next[p]].usrNo) /\ touched' = Touch(p)
    BY <1>1, <1>14 DEF InsertMember, AtPerson, TypeOK
  <2>2. remote[p][next[p]].usrNo \in Named(p)
    BY <1>1, <1>14, InsertNamed DEF InsertMember
  <2> QED BY <1>8, <2>1, <2>2
<1>15. ASSUME InsertRefused(p) \/ ListUnreadable(p) \/ QueryFails(p) \/ Crash(p)
       PROVE  Abstract!Fail(p)
  <2>1. /\ pc[p] \in {"list", "delete", "insert"} /\ Quiet
        /\ pc'[p] \in {"failed", "crashed"}
    BY <1>1, <1>15 DEF InsertRefused, ListUnreadable, QueryFails, Crash, AtPerson, AtVerify,
                       TypeOK, Quiet, Active
  <2> QED BY <1>6, <2>1
<1>16. ASSUME Verify(p) PROVE Abstract!Succeed(p) \/ Abstract!Fail(p)
  <2>1. pc[p] = "insert" /\ Quiet
    BY <1>1, <1>16 DEF Verify, AtVerify, TypeOK, Quiet
  <2>2. CASE Missing(p) = {} /\ Unexpected(p) = {}
    <3>1. pc'[p] = "done" /\ Members(role[p]) = Named(p)
      BY <1>1, <1>16, <2>2 DEF Verify, Missing, Unexpected, TypeOK
    <3> QED BY <1>2, <1>3, <1>4, <2>1, <3>1 DEF Abstract!Succeed
  <2>3. CASE ~(Missing(p) = {} /\ Unexpected(p) = {})
    <3>1. pc'[p] = "verifyFailed"
      BY <1>1, <1>16, <2>3 DEF Verify, TypeOK
    <3> QED BY <1>6, <2>1, <3>1
  <2> QED BY <2>2, <2>3
<1>17. ASSUME NEW u \in UsrNos, DeleteFails(p, u)
       PROVE  Abstract!Fail(p) \/ Abstract!Revoke(p, u, "failed")
  <2>1. /\ pc[p] = "delete" /\ pc'[p] = "failed" /\ u \notin Named(p)
        /\ Quiet \/ (Delete(role[p], u) /\ touched' = Touch(p))
    BY <1>1, <1>17 DEF DeleteFails, Visit, TypeOK, Quiet
  <2> QED BY <1>6, <1>7, <2>1
<1>18. ASSUME InsertFails(p)
       PROVE  \/ Abstract!Fail(p)
              \/ Abstract!Grant(p, remote[p][next[p]].usrNo, "failed")
  <2>1. /\ pc[p] = "insert" /\ pc'[p] = "failed"
        /\ \/ Quiet
           \/ /\ Insert(role[p], remote[p][next[p]].usrNo)
              /\ touched' = Touch(p)
    BY <1>1, <1>18 DEF InsertFails, AtPerson, TypeOK, Quiet
  <2>2. remote[p][next[p]].usrNo \in Named(p)
    BY <1>1, <1>18, InsertNamed DEF InsertFails
  <2> QED BY <1>6, <1>8, <2>1, <2>2
<1>19. /\ (\E u \in UsrNos : Abstract!Revoke(p, u, "revoking")) => Abstract!Next
       /\ (\E u \in UsrNos : Abstract!Revoke(p, u, "failed")) => Abstract!Next
       /\ (\E u \in UsrNos : Abstract!Grant(p, u, "granting")) => Abstract!Next
       /\ (\E u \in UsrNos : Abstract!Grant(p, u, "failed")) => Abstract!Next
       /\ Abstract!TurnToGranting(p) => Abstract!Next
       /\ Abstract!Succeed(p) => Abstract!Next
       /\ Abstract!Fail(p) => Abstract!Next
  BY DEF Abstract!Next
<1>20. remote[p][next[p]].usrNo \in UsrNos \/ ~(InsertMember(p) \/ InsertFails(p))
  BY <1>1, <1>3, InsertNamed DEF InsertMember, InsertFails
<1> QED
  BY <1>9, <1>10, <1>11, <1>12, <1>13, <1>14, <1>15, <1>16, <1>17, <1>18,
     <1>19, <1>20 DEF Step, Failure

(* A new run, also when its users bring rows of theirs back to life. *)
LEMMA RefinesStart ==
  ASSUME TypeOK, NEW p \in Procs, NEW r \in Roles, Start(p, r)
  PROVE  Abstract!Begin(p, r, NamedIn(file[r]))
<1> DEFINE T == NamedIn(file[r])
<1>1. /\ pc[p] \in Stopped /\ role' = [role EXCEPT ![p] = r]
      /\ remote' = [remote EXCEPT ![p] = file[r]] /\ rows' = rows
      /\ pc' = [pc EXCEPT ![p] = IF file[r] = <<>> THEN "skipped" ELSE "list"]
      /\ users' = users \cup T
      /\ touched' = [q \in Procs |->
                        IF q = p THEN "clean"
                        ELSE IF users' # users THEN "foreign" ELSE touched[q]]
  BY DEF Start
<1>2. Phases[p] \notin {"revoking", "granting"}
  BY <1>1 DEF Phases, PhaseOf, Stopped
<1>3. Phases' = [Phases EXCEPT ![p] = PhaseOf(p)']
  BY <1>1 DEF Phases, PhaseOf, TypeOK
<1>4. PhaseOf(p)' = "revoking" \/ (T = {} /\ PhaseOf(p)' = "off")
  BY <1>1 DEF PhaseOf, NamedIn, TypeOK
<1>5. Targets' = [Targets EXCEPT ![p] = T]
  <2>1. ASSUME NEW q \in Procs PROVE remote'[q] = IF q = p THEN file[r] ELSE remote[q]
    BY <1>1 DEF TypeOK
  <2>2. ASSUME NEW q \in Procs PROVE Named(q)' = IF q = p THEN T ELSE Named(q)
    BY <2>1 DEF Named, NamedIn
  <2> QED BY <2>2 DEF Targets
<1>6. \/ Clean' = [Clean EXCEPT ![p] = TRUE] /\ MembersNow' = MembersNow
      \/ /\ Clean' = [q \in Procs |-> q = p]
         /\ MembersNow' \in [Roles -> SUBSET UsrNos]
         /\ \A s \in Roles : /\ MembersNow[s] \subseteq MembersNow'[s]
                             /\ MembersNow'[s] \subseteq MembersNow[s] \cup T
  <2>1. CASE users' = users
    BY <1>1, <2>1 DEF Clean, Undisturbed, MembersNow, Members
  <2>2. CASE users' # users
    <3>1. Clean' = [q \in Procs |-> q = p]
      BY <1>1, <2>2 DEF Clean, Undisturbed
    <3>2. users' \subseteq UsrNos
      <4>1. file[r] \in Seq(RemotePerson)
        BY ConstantsAssumption DEF TypeOK
      <4> QED BY <1>1, <4>1, NamedType DEF TypeOK
    <3>3. \A s \in Roles : /\ Members(s) \subseteq Members(s)'
                          /\ Members(s)' \subseteq Members(s) \cup T
                          /\ Members(s)' \subseteq UsrNos
      BY <1>1, <3>2 DEF Members
    <3> QED BY <3>1, <3>3 DEF MembersNow
  <2> QED BY <2>1, <2>2
<1> HIDE DEF T
<1> QED BY <1>1, <1>2, <1>3, <1>4, <1>5, <1>6 DEF Abstract!Begin, Abstract!Busy, T

(* The rest of the world. *)
LEMMA RefinesOutside ==
  ASSUME TypeOK, TypeOK', Outside
  PROVE  Abstract!Outside \/ UNCHANGED Abstract!vars
<1>1. UNCHANGED procVars
  BY DEF Outside, OtherGrantOrRevoke, OtherUserChange, OtherNullChange,
     PublishFile
<1>2. UNCHANGED <<Phases, role, Targets>>
  BY <1>1 DEF procVars, Phases, PhaseOf, Targets, Named
<1>3. MembersNow' \in [Roles -> SUBSET UsrNos]
  BY DEF MembersNow, Members, TypeOK
<1>4. ASSUME NEW r \in Roles, NEW u \in UsrNos, OtherGrantOrRevoke(r, u)
      PROVE  Abstract!Outside
  <2>1. \A s \in Roles \ {r} : rows'[s] = rows[s]
    BY <1>4 DEF OtherGrantOrRevoke, Insert, Delete, TypeOK
  <2>2. \A s \in Roles \ {r} : MembersNow'[s] = MembersNow[s]
    BY <1>4, <2>1 DEF OtherGrantOrRevoke, MembersNow, Members
  <2>3. Clean' = [q \in Procs |-> Clean[q] /\ role[q] # r]
    BY <1>1, <1>4 DEF OtherGrantOrRevoke, TouchAll, Clean, Undisturbed, procVars
  <2> QED BY <1>2, <1>3, <2>2, <2>3 DEF Abstract!Outside
<1>5. ASSUME NEW u \in UsrNos, OtherUserChange(u)
      PROVE  Abstract!Outside
  <2>1. Clean' = [q \in Procs |-> FALSE]
    BY <1>5 DEF OtherUserChange, Clean, Undisturbed
  <2> QED BY <1>2, <1>3, <2>1 DEF Abstract!Outside
<1>6. ASSUME NEW r \in Roles, NEW list \in Lists, PublishFile(r, list)
      PROVE  UNCHANGED Abstract!vars
  <2>1. UNCHANGED <<MembersNow, Clean>>
    BY <1>6 DEF PublishFile, MembersNow, Members, Clean, Undisturbed
  <2> QED BY <1>2, <2>1 DEF Abstract!vars
<1>7. ASSUME NEW u \in UsrNos, OtherNullChange(u)
      PROVE  UNCHANGED Abstract!vars
  <2>1. UNCHANGED <<MembersNow, Clean>>
    BY <1>7 DEF OtherNullChange, MembersNow, Members, Clean, Undisturbed
  <2> QED BY <1>2, <2>1 DEF Abstract!vars
<1> QED BY <1>4, <1>5, <1>6, <1>7 DEF Outside

(* RoleSync implements RoleSpec: whatever is interleaved, fails or dies, the
   statements of syncRoleMembers and verifyRoleMembers revoke outsiders only,
   grant listed people only and after the last revocation, and report success
   only of a role that is exactly its list. *)
THEOREM Implements == Spec => ImplementsRoleSpec
<1>1. IInv /\ IInv' /\ [Next]_vars => [Abstract!Next]_(Abstract!vars)
  <2> SUFFICES ASSUME IInv, IInv', [Next]_vars
               PROVE  Abstract!Next \/ UNCHANGED Abstract!vars
    OBVIOUS
  <2>1. TypeOK /\ TypeOK'
    BY DEF IInv
  <2>2. ASSUME NEW p \in Procs, NEW r \in Roles, Start(p, r)
        PROVE  Abstract!Next
    <3>1. NamedIn(file[r]) \subseteq UsrNos
      <4>1. file[r] \in Seq(RemotePerson)
        BY <2>1, ConstantsAssumption DEF TypeOK
      <4> QED BY <4>1, NamedType
    <3> QED BY <2>1, <2>2, <3>1, RefinesStart DEF Abstract!Next
  <2>3. ASSUME NEW p \in Procs, Step(p) \/ Failure(p)
        PROVE  Abstract!Next \/ UNCHANGED Abstract!vars
    BY <2>3, RefinesStep
  <2>4. CASE Outside
    BY <2>1, <2>4, RefinesOutside DEF Abstract!Next
  <2>5. CASE UNCHANGED vars
    BY <2>5 DEF vars, dbVars, procVars, Abstract!vars, MembersNow, Members,
                Phases, PhaseOf, Targets, Named, Clean, Undisturbed
  <2> QED BY <2>2, <2>3, <2>4, <2>5 DEF Next
<1> QED BY <1>1, RefinesInit, InvariantHolds, PTL
        DEF Spec, ImplementsRoleSpec, Abstract!Spec
=============================================================================
