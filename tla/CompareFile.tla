---------------------------- MODULE CompareFile ----------------------------
(***************************************************************************)
(* The compare phase of PsnTree.DoCompare: CompareRemoteFile for one file  *)
(* after the other, each the users part of UserMatch and then the role     *)
(* part of RoleSync, on one database: the users a role can hold are the    *)
(* rows of doreuser.                                                       *)
(***************************************************************************)
EXTENDS UserMatch, SequencesExt

CONSTANTS
    Roles,     \* role.roleID
    NoRole,    \* the role of a file whose typez is no role.namez, or empty
    Runs,      \* what a run has downloaded: files, with their role and people
    Grants,    \* initial contents of doreuserrole
    RoleKey,   \* TRUE if (usrNo, roleID) is a key of doreuserrole
    MaxUsrNo   \* bound: the largest usrNo

UsrNos == 1 .. MaxUsrNo
File   == [role : Roles \cup {NoRole}, people : Seq(Person)]

(* DoCompare has the people of all files before it compares the first one. *)
PeopleOf(run) == FlattenSeq([f \in DOMAIN run |-> run[f].people])

ASSUME CompareAssumption ==
    /\ NoRole \notin Roles
    /\ Runs \subseteq Seq(File)
    /\ Lists = {PeopleOf(run) : run \in Runs}
    /\ Grants \subseteq [Roles -> [UsrNos -> Nat]]
    /\ RoleKey \in BOOLEAN

VARIABLES
    filesData,  \* the files of the run
    doing,      \* index of the file in hand
    begins,     \* how many of the people come before those of each file begun
    rows,       \* doreuserrole
    rolePc,     \* where the role part is, "idle" if it is not that far
    role, remote, pending, marked, next, deleted, inserted,   \* as in RoleSync
    base, touched

userVars    == <<table, pc, people, at, usrNos, found, nextNo, history, settled>>
roleVars    == <<rows, rolePc, role, remote, pending, marked, next, deleted,
                 inserted, base, touched>>
compareVars == <<userVars, faults, filesData, doing, begins, roleVars>>

(* The part of people that file f holds. *)
Ends(p, f)    == begins[p][f] + Len(filesData[p][f].people)
Segment(p, f) == {j \in DOMAIN people[p] : begins[p][f] < j /\ j <= Ends(p, f)}

(* The people of the file in hand as fillUserNumbers has left them. *)
Resolved(p) ==
    [j \in 1 .. Len(filesData[p][doing[p]].people) |->
        [usrNo |-> usrNos[p][begins[p][doing[p]] + j], op |-> ""]]

(* Users whose row listPeopleInRole cannot scan: it reads the name as well. *)
Unlistable ==
    {table[k].usrNo : k \in {l \in DOMAIN table :
                               table[l].name = Null \/ ~Scannable(table[l])}}

RolePart(p) ==
    INSTANCE RoleSync WITH
        NoUsrNo <- 0, Lists <- {}, UniqueKey <- RoleKey, MaxCopies <- MaxRows,
        Nullable <- UsrNos, nulls <- Unlistable,
        users <- Numbers(table), file <- [r \in Roles \cup {NoRole} |-> Resolved(p)],
        pc <- rolePc

CompareInit ==
    /\ Init
    /\ filesData = [p \in Procs |-> <<>>]
    /\ doing = [p \in Procs |-> 1]
    /\ begins = [p \in Procs |-> <<0>>]
    /\ rows \in Grants
    /\ rolePc = [p \in Procs |-> "idle"]
    /\ role = [p \in Procs |-> CHOOSE r \in Roles : TRUE]
    /\ remote = [p \in Procs |-> <<>>]
    /\ pending = [p \in Procs |-> [u \in UsrNos |-> 0]]
    /\ marked = [p \in Procs |-> {}]
    /\ next = [p \in Procs |-> 1]
    /\ deleted = [p \in Procs |-> {}]
    /\ inserted = [p \in Procs |-> {}]
    /\ base = [p \in Procs |-> {}]
    /\ touched = [p \in Procs |-> "clean"]

-----------------------------------------------------------------------------
InRun(p)    == doing[p] \in DOMAIN filesData[p]
Finished(p) == filesData[p] # <<>> /\ ~InRun(p)
GivenUp(p)  == pc[p] = "failed" \/ rolePc[p] \in {"failed", "verifyFailed", "crashed"}

CompareStart(p, run) ==
    /\ ~InRun(p) \/ GivenUp(p)
    /\ Begins(p, PeopleOf(run))
    /\ filesData' = [filesData EXCEPT ![p] = run]
    /\ doing' = [doing EXCEPT ![p] = 1]
    /\ begins' = [begins EXCEPT ![p] = <<0>>]
    /\ rolePc' = [rolePc EXCEPT ![p] = "idle"]
    /\ UNCHANGED <<rows, role, remote, pending, marked, next, deleted, inserted,
                   base, touched>>

Begun(p) == InRun(p) /\ ~GivenUp(p)

(* lookupRoleID: no connection, no answer, or no such role.  It comes before
   the first person of the file. *)
LookupFails(p) ==
    /\ Begun(p) /\ rolePc[p] = "idle" /\ pc[p] = "sso"
    /\ at[p] = begins[p][doing[p]] + 1 /\ Segment(p, doing[p]) # {}
    /\ \/ filesData[p][doing[p]].role = NoRole /\ UNCHANGED faults
       \/ Fault
    /\ rolePc' = [rolePc EXCEPT ![p] = "failed"]
    /\ UNCHANGED <<userVars, filesData, doing, begins, rows, role, remote, pending,
                   marked, next, deleted, inserted, base, touched>>

(* app.fillUserNumbers *)
UsersPart(p) ==
    /\ Begun(p) /\ rolePc[p] = "idle"
    /\ filesData[p][doing[p]].role # NoRole
    /\ at[p] \in Segment(p, doing[p])
    /\ Step(p) \/ Halts(p) \/ AnswerLost(p)
    /\ UNCHANGED <<filesData, doing, begins, roleVars>>

(* Mutant: every file is compared with the role of the first. *)
MutRolePartStartsFirst(p) ==
    /\ Begun(p) /\ rolePc[p] = "idle"
    /\ at[p] = Ends(p, doing[p]) + 1
    /\ UNCHANGED <<userVars, filesData, doing, begins>>
    /\ RolePart(p)!Start(p, filesData[p][1].role)

(* listPeopleInRole and the rest; an empty file is passed over. *)
RolePartStarts(p) ==
    /\ Begun(p) /\ rolePc[p] = "idle"
    /\ at[p] = Ends(p, doing[p]) + 1
    /\ UNCHANGED <<userVars, filesData, doing, begins>>
    /\ RolePart(p)!Start(p, filesData[p][doing[p]].role)

RolePartSteps(p) ==
    /\ Begun(p)
    /\ UNCHANGED <<userVars, filesData, doing, begins>>
    /\ RolePart(p)!Step(p) \/ RolePart(p)!Failure(p)

(* The next file of the loop, after os.Remove(fd.name). *)
NextFile(p) ==
    /\ rolePc[p] \in {"done", "skipped"}
    /\ rolePc' = [rolePc EXCEPT ![p] = "idle"]
    /\ doing' = [doing EXCEPT ![p] = @ + 1]
    /\ begins' = [begins EXCEPT ![p] = Append(@, Ends(p, doing[p]))]
    /\ UNCHANGED <<userVars, faults, filesData, rows, role, remote, pending,
                   marked, next, deleted, inserted, base, touched>>

CompareNext ==
    \E p \in Procs :
        \/ \E run \in Runs : CompareStart(p, run)
        \/ LookupFails(p) \/ UsersPart(p) \/ RolePartStarts(p) \/ RolePartSteps(p) \/ NextFile(p)

CompareSpec == CompareInit /\ [][CompareNext]_compareVars

-----------------------------------------------------------------------------
(* Properties. *)

MembersOf(r) == {u \in Numbers(table) : rows[r][u] > 0}

(* The last file for its role decides who has it. *)
Decides(p, f) ==
    /\ filesData[p][f].people # <<>>
    /\ \A g \in DOMAIN filesData[p] :
          filesData[p][g].role = filesData[p][f].role /\ filesData[p][g].people # <<>>
          => g <= f

(* Once a run is over, every role has the users its file was resolved to, and
   nobody else but users that a later file of the run has added: a new usrNo
   can be that of a user deleted before, whose rows in doreuserrole are still
   there and were passed over while they had no user. *)
RoleMatchesFile ==
    \A p \in Procs : Finished(p) =>
        \A f \in DOMAIN filesData[p] : Decides(p, f) =>
            LET named == {usrNos[p][j] : j \in Segment(p, f)}
                later == {usrNos[p][j] : j \in DOMAIN people[p] \ Segment(p, f)}
            IN  /\ named \subseteq MembersOf(filesData[p][f].role)
                /\ MembersOf(filesData[p][f].role) \ named \subseteq later \ known[p]

(* From file to role: everybody a file names, by id or by name, has its role. *)
ListedPeopleGetTheRole ==
    \A p \in Procs : Finished(p) =>
        \A f \in DOMAIN filesData[p] : Decides(p, f) =>
            \A j \in Segment(p, f) : \E k \in DOMAIN table :
                /\ rows[filesData[p][f].role][table[k].usrNo] > 0
                /\ \/ table[k].name = people[p][j].name
                   \/ /\ table[k].sso # Null
                      /\ Trim[table[k].sso] = Trim[people[p][j].sysId]
=============================================================================
