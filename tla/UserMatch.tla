----------------------------- MODULE UserMatch -----------------------------
(***************************************************************************)
(* PsnTree.fillUserNumbers: every remote person is given the usrNo of a    *)
(* doreuser row, looked up by SSO id, then by name; a row that differs is  *)
(* updated, and a person nobody was found for is inserted.                 *)
(*                                                                         *)
(* Each SQL statement commits alone, so each is one action.  A run is the  *)
(* list of all its files: DoCompare downloads every file, and collects the *)
(* departments they give each person, before the first one is compared.    *)
(***************************************************************************)
EXTENDS Naturals, Sequences, FiniteSets

CONSTANTS
    Procs,      \* reportcli processes
    Names,      \* doreuser.name
    Ids,        \* SSO ids as the files spell them
    Blank,      \* the empty id
    Trim,       \* strings.TrimSpace on Ids
    PadSpace,   \* TRUE if the collation of ssoID ignores the spaces Trim removes
    Depts,      \* departments as the files spell them, depName and depID
    Numeric,    \* a department with its depID as a number is written
    NumericId,  \* TRUE if doreuser.depID keeps the number, not the spelling
    Null,       \* SQL NULL
    Lists,      \* the people of a run
    Tables,     \* initial contents of doreuser
    UniqueKey,  \* TRUE if usrNo is a key of doreuser
    MaxRows,    \* bound: rows of doreuser
    MaxFaults   \* bound: failures

Person == [sysId : Ids, name : Names, dept : Depts]
Row    == [usrNo : Nat, name : Names \cup {Null}, sso : Ids \cup {Null},
           dept : Depts \cup {Null}]

ASSUME ConstantsAssumption ==
    /\ Blank \in Ids
    /\ Trim \in [Ids -> Ids]
    /\ Trim[Blank] = Blank
    /\ \A x \in Ids : Trim[Trim[x]] = Trim[x]
    /\ Numeric \in [Depts -> Depts]
    /\ \A d \in Depts : Numeric[Numeric[d]] = Numeric[d]
    /\ Null \notin Names \cup Ids \cup Depts
    /\ NumericId \in BOOLEAN /\ PadSpace \in BOOLEAN /\ UniqueKey \in BOOLEAN
    /\ Lists \subseteq Seq(Person)
    /\ Tables \subseteq Seq(Row)
    /\ MaxRows \in Nat /\ MaxFaults \in Nat

VARIABLES
    table,    \* the rows of doreuser
    pc,       \* the statement the process is about to run
    people,   \* the people of the run
    at,       \* index of the person in hand
    usrNos,   \* the usrNo given to each person before "at"
    found,    \* usrNo of the row to update
    nextNo,   \* nextUsrNo
    known,    \* history: the usrNos of doreuser when the run started
    had,      \* history: the people whose id had a row then
    settled,  \* history: the last completed list, if nothing was written since
    faults    \* MaxFaults used so far

history == <<known, had>>
vars    == <<table, pc, people, at, usrNos, found, nextNo, history, settled, faults>>

Active  == {"sso", "name", "update", "max", "insert"}
Stopped == {"idle", "done", "failed"}

TypeOK ==
    /\ table \in Seq(Row)
    /\ pc \in [Procs -> Active \cup Stopped]
    /\ people \in [Procs -> Seq(Person)]
    /\ at \in [Procs -> Nat]
    /\ usrNos \in [Procs -> Seq(Nat)]
    /\ found \in [Procs -> Nat]
    /\ nextNo \in [Procs -> Nat]
    /\ known \in [Procs -> SUBSET Nat]
    /\ had \in [Procs -> SUBSET Nat]
    /\ settled \in Seq(Person)
    /\ faults \in Nat

Numbers(t) == {t[k].usrNo : k \in DOMAIN t}

Init ==
    /\ table \in Tables
    /\ pc = [p \in Procs |-> "idle"]
    /\ people = [p \in Procs |-> <<>>]
    /\ at = [p \in Procs |-> 1]
    /\ usrNos = [p \in Procs |-> <<>>]
    /\ found = [p \in Procs |-> 0]
    /\ nextNo = [p \in Procs |-> 0]
    /\ known = [p \in Procs |-> {}]
    /\ had = [p \in Procs |-> {}]
    /\ settled = <<>>
    /\ faults = 0

-----------------------------------------------------------------------------
InHand(p) == people[p][at[p]]

(* where ssoID=?: the parameter is sent as the file spells it. *)
SsoMatches(sso, sysId) ==
    /\ sso # Null
    /\ IF PadSpace THEN Trim[sso] = Trim[sysId] ELSE sso = sysId

RowsOf(sysId) == {k \in DOMAIN table : SsoMatches(table[k].sso, sysId)}

(* Mutant: only the department of the entry in hand is right. *)
MutValidDepsOwn(p, id) == {InHand(p).dept}

(* Every department some file of the run gives the person with this id. *)
ValidDepsBySysID(p, id) ==
    {people[p][j].dept : j \in {k \in DOMAIN people[p] :
                                   Trim[people[p][k].sysId] = id}}

(* The same department, but for leading zeros of its id. *)
isNumericEqual(dept1, dept2) ==
    /\ dept1 \in Depts /\ dept2 \in Depts
    /\ Numeric[dept1] = Numeric[dept2]

(* Mutant: a row found by its id is taken to be up to date. *)
MutAlreadyCorrectById(p, row) == row.sso = Trim[InHand(p).sysId]

(* The row needs no update; its ssoID is not compared. *)
AlreadyCorrect(p, row) ==
    LET id == Trim[InHand(p).sysId]
    IN  /\ id # Blank
        /\ \E dept \in ValidDepsBySysID(p, id) : isNumericEqual(dept, row.dept)

Scannable(row) == row.sso # Null /\ row.dept # Null

(* people[i].UsrNo = usrNo, and the next iteration. *)
Resolve(p, usrNo) ==
    /\ usrNos' = [usrNos EXCEPT ![p] = Append(@, usrNo)]
    /\ at' = [at EXCEPT ![p] = @ + 1]
    /\ pc' = [pc EXCEPT ![p] = IF at[p] < Len(people[p]) THEN "sso" ELSE "done"]

Found(p, row) ==
    IF AlreadyCorrect(p, row)
    THEN Resolve(p, row.usrNo) /\ UNCHANGED found
    ELSE /\ pc' = [pc EXCEPT ![p] = "update"]
         /\ found' = [found EXCEPT ![p] = row.usrNo]
         /\ UNCHANGED <<usrNos, at>>

Goto(p, label) ==
    pc' = [pc EXCEPT ![p] = label] /\ UNCHANGED <<usrNos, at, found>>

(* A list is settled when the run that resolved it has just ended. *)
Settle(p) ==
    settled' = IF pc'[p] = "done" THEN people[p] ELSE settled

Unsettle(p) ==
    settled' = IF pc'[p] = "done" THEN people[p] ELSE <<>>

Fault == faults < MaxFaults /\ faults' = faults + 1

-----------------------------------------------------------------------------
(* A new process takes the place of p. *)
Begins(p, list) ==
    /\ Len(table) < MaxRows
    /\ people' = [people EXCEPT ![p] = list]
    /\ at' = [at EXCEPT ![p] = 1]
    /\ usrNos' = [usrNos EXCEPT ![p] = <<>>]
    /\ known' = [known EXCEPT ![p] = Numbers(table)]
    /\ had' = [had EXCEPT ![p] = {j \in DOMAIN list : RowsOf(list[j].sysId) # {}}]
    /\ pc' = [pc EXCEPT ![p] = IF list = <<>> THEN "done" ELSE "sso"]
    /\ UNCHANGED <<table, found, nextNo, settled, faults>>

Start(p, list) == pc[p] \in Stopped /\ Begins(p, list)

(* Mutant: any error of the lookup, not only ErrNoRows, leads to the name. *)
MutBySSOAnyError(p) ==
    /\ pc[p] = "sso"
    /\ LET rows == RowsOf(InHand(p).sysId)
       IN  \/ rows = {} /\ Goto(p, "name")
           \/ \E k \in rows : IF Scannable(table[k]) THEN Found(p, table[k])
                              ELSE Goto(p, "name")
    /\ Settle(p)
    /\ UNCHANGED <<table, people, nextNo, history, faults>>

(* findUserBySSOID: QueryRow takes one of the matching rows; a NULL column
   is a Scan error, and not ErrNoRows. *)
BySSO(p) ==
    /\ pc[p] = "sso"
    /\ LET rows == RowsOf(InHand(p).sysId)
       IN  \/ rows = {} /\ Goto(p, "name")
           \/ \E k \in rows : IF Scannable(table[k]) THEN Found(p, table[k])
                              ELSE Goto(p, "failed")
    /\ Settle(p)
    /\ UNCHANGED <<table, people, nextNo, history, faults>>

(* findUserByName: rows that do not scan are passed over; among several, one
   without an ssoID is preferred.  Nobody asks rows.Err: an answer that breaks
   off is taken for a shorter one, and one that breaks off at once for "no
   such name". *)
Namesakes(name) ==
    {k \in DOMAIN table : table[k].name = name /\ Scannable(table[k])}

Preferred(rows) ==
    LET blank == {k \in rows : table[k].sso = Blank}
    IN  IF blank = {} THEN rows ELSE blank

Named(p, rows) ==
    \/ rows = {} /\ Goto(p, "max")
    \/ \E k \in Preferred(rows) : Found(p, table[k])

(* Mutant: only people without an id are looked up by name. *)
MutByNameBlankOnly(p) ==
    /\ pc[p] = "name"
    /\ Named(p, IF Trim[InHand(p).sysId] = Blank
                THEN Namesakes(InHand(p).name) ELSE {})
    /\ Settle(p)
    /\ UNCHANGED <<table, people, nextNo, history, faults>>

ByName(p) ==
    /\ pc[p] = "name"
    /\ \E rows \in SUBSET Namesakes(InHand(p).name) :
          /\ Named(p, rows)
          /\ IF rows = Namesakes(InHand(p).name)
             THEN Settle(p) /\ UNCHANGED faults
             ELSE Unsettle(p) /\ Fault
    /\ UNCHANGED <<table, people, nextNo, history>>

(* What the column makes of a department. *)
Stored(dept) == IF NumericId THEN Numeric[dept] ELSE dept

(* update doreuser set ssoID=?,department=?,depID=? where usrNo=?, with
   trimmed values; an update that finds no row is not an error. *)
Updated(p) ==
    [k \in DOMAIN table |->
        IF table[k].usrNo = found[p]
        THEN [table[k] EXCEPT !.sso = Trim[InHand(p).sysId],
                              !.dept = Stored(InHand(p).dept)]
        ELSE table[k]]

Update(p) ==
    /\ pc[p] = "update"
    /\ table' = Updated(p)
    /\ Resolve(p, found[p])
    /\ Unsettle(p)
    /\ UNCHANGED <<people, found, nextNo, history, faults>>

(* select coalesce(max(usrNo), 0) + 1 from doreuser *)
ReadMax(p) ==
    /\ pc[p] = "max"
    /\ \E n \in Numbers(table) \cup {0} :
          /\ \A m \in Numbers(table) : m <= n
          /\ nextNo' = [nextNo EXCEPT ![p] = n + 1]
    /\ Goto(p, "insert")
    /\ UNCHANGED <<table, people, history, settled, faults>>

(* insert into doreuser: the number read before, the file's own spelling. *)
NewRow(p) ==
    [usrNo |-> nextNo[p], name |-> InHand(p).name, sso |-> InHand(p).sysId,
     dept |-> Stored(InHand(p).dept)]

Taken(p) == UniqueKey /\ nextNo[p] \in Numbers(table)

InsertUser(p) ==
    /\ pc[p] = "insert"
    /\ ~Taken(p)
    /\ table' = Append(table, NewRow(p))
    /\ Resolve(p, nextNo[p])
    /\ Unsettle(p)
    /\ UNCHANGED <<people, found, nextNo, history, faults>>

(* Mutant: the error of the insert is dropped and the number kept. *)
MutInsertRefusedKept(p) ==
    /\ pc[p] = "insert"
    /\ Taken(p)
    /\ Resolve(p, nextNo[p])
    /\ UNCHANGED <<table, people, found, nextNo, history, settled, faults>>

InsertRefused(p) ==
    /\ pc[p] = "insert"
    /\ Taken(p)
    /\ Goto(p, "failed")
    /\ UNCHANGED <<table, people, nextNo, history, settled, faults>>

-----------------------------------------------------------------------------
(* The process dies, or its statement fails without having been executed. *)
Halts(p) ==
    /\ pc[p] \in Active
    /\ Fault
    /\ Goto(p, "failed")
    /\ UNCHANGED <<table, people, nextNo, history, settled>>

(* The write was executed and its answer was lost. *)
AnswerLost(p) ==
    /\ \/ pc[p] = "update" /\ table' = Updated(p)
       \/ pc[p] = "insert" /\ ~Taken(p) /\ table' = Append(table, NewRow(p))
    /\ Fault
    /\ Goto(p, "failed")
    /\ settled' = <<>>
    /\ UNCHANGED <<people, nextNo, history>>

Step(p) ==
    \/ BySSO(p) \/ ByName(p) \/ Update(p)
    \/ ReadMax(p) \/ InsertUser(p) \/ InsertRefused(p)

Next ==
    \/ \E p \in Procs, list \in Lists : Start(p, list)
    \/ \E p \in Procs : Step(p) \/ Halts(p) \/ AnswerLost(p)

Spec == Init /\ [][Next]_vars
-----------------------------------------------------------------------------
(* Properties. *)

(* A person's usrNo belongs to a user who has the person's id or name, also
   when another process reads the same maximum: the number of a refused
   insert is never handed on to the role. *)
ResolvedMatches ==
    \A p \in Procs : \A j \in DOMAIN usrNos[p] :
        \E k \in DOMAIN table :
            /\ table[k].usrNo = usrNos[p][j]
            /\ \/ table[k].name = people[p][j].name
               \/ table[k].sso # Null
                  /\ Trim[table[k].sso] = Trim[people[p][j].sysId]

(* Whatever statement fails, is lost or executed without an answer, the next
   run finds the user again: one process after another never makes a second
   row for an id, and processes at once make at most one each, between the
   lookup of one and the insert of another.  The exception is the lookup by
   name, which a collation that minds the padding of an id relies on: each
   time its answer breaks off, one more row may appear. *)
RowsPerIdBounded ==
    \A id \in Ids \ {Blank} :
        Cardinality({k \in DOMAIN table :
                       table[k].sso # Null /\ Trim[table[k].sso] = id})
            <= Cardinality(Procs) + IF PadSpace THEN 0 ELSE faults

(* A completed run gives two people with different ids one user only if they
   are namesakes and one of the name had no row of his own when the run began:
   he is found by name in the row of another.  Where every namesake has a row,
   the lookups by id keep them apart, whatever is updated in between. *)
PeopleKeptApart ==
    \A p \in Procs : pc[p] = "done" =>
        \A i, j \in DOMAIN people[p] :
            LET x == Trim[people[p][i].sysId]
                y == Trim[people[p][j].sysId]
            IN  x # y /\ Blank \notin {x, y} /\ usrNos[p][i] = usrNos[p][j] =>
                    /\ people[p][i].name = people[p][j].name
                    /\ \E m \in DOMAIN people[p] :
                          people[p][m].name = people[p][i].name /\ m \notin had[p]

(* Repeating a completed run writes nothing: somebody the files name in two
   departments is not moved to and fro between them.  Only namesakes are, as
   long as one of them has no row of his own. *)
NoChurn ==
    \A p \in Procs : pc[p] \in {"update", "max", "insert"} /\ people[p] = settled =>
        \E i, j \in DOMAIN people[p] :
            /\ people[p][i].name = people[p][j].name /\ i \notin had[p]
            /\ Trim[people[p][i].sysId] # Trim[people[p][j].sysId]

(* A completed run leaves every user in a department its files name, for him or
   for somebody else who was given his number. *)
DeptsListed ==
    \A p \in Procs : pc[p] = "done" /\ people[p] = settled =>
        \A j \in DOMAIN people[p], k \in DOMAIN table :
            Trim[people[p][j].sysId] # Blank /\ table[k].usrNo = usrNos[p][j] =>
                \E i \in DOMAIN people[p] :
                    /\ usrNos[p][i] = usrNos[p][j]
                    /\ \E dept \in ValidDepsBySysID(p, Trim[people[p][i].sysId]) :
                          isNumericEqual(dept, table[k].dept)

(* README.md:345 says that a remote person without a usrNo in doreuser is not
   added to doreuserrole, so no person leaves here with a new usrNo. *)
OnlyKnownResolved ==
    \A p \in Procs : \A j \in DOMAIN usrNos[p] :
        usrNos[p][j] \in known[p]

(* README.md:11 says that a person whose SysId is not found is looked up by
   name and depID: a user of that name in another department is not taken. *)
FallbackNeedsDept ==
    [][\A p \in Procs :
          ByName(p) /\ (pc'[p] = "update" \/ at'[p] # at[p]) =>
              \E k \in DOMAIN table :
                  /\ table[k].name = InHand(p).name
                  /\ isNumericEqual(table[k].dept, InHand(p).dept)]_vars

(* README.md:250 says that the update runs when ssoID, department or depID has
   to be filled in, so a user found by name leaves with the person's SysId. *)
SsoFilledIn ==
    \A p \in Procs : pc[p] = "done" /\ people[p] = settled =>
        \A j \in DOMAIN people[p], k \in DOMAIN table :
            LET id == Trim[people[p][j].sysId]
            IN  id # Blank /\ table[k].usrNo = usrNos[p][j] =>
                    Trim[table[k].sso] = id
=============================================================================
