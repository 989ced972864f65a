------------------------------ MODULE RoleSync ------------------------------
(***************************************************************************)
(* The role half of PsnTree.CompareRemoteFile: listPeopleInRole,           *)
(* syncRoleMembers, listPeopleInRole again, verifyRoleMembers.             *)
(*                                                                         *)
(* Several reportcli processes (the scheduled one, one started by hand)    *)
(* and other applications share the BPM database.  No transaction is       *)
(* opened, so every SQL statement commits alone and is one action here;    *)
(* between two of them a process can fail, crash, or be overtaken.         *)
(***************************************************************************)
EXTENDS Naturals, Sequences

CONSTANTS
    Procs,      \* reportcli processes
    Roles,      \* role.roleID
    UsrNos,     \* doreuser.usrNo values
    NoUsrNo,    \* the empty usrNo
    Lists,      \* remote files, as fillUserNumbers leaves them
    UniqueKey,  \* TRUE if the schema makes (usrNo, roleID) a key of doreuserrole
    Nullable,   \* bound: users whose row others may leave with a NULL
    MaxFaults,  \* bound: statement errors, crashes and outside changes, together
    MaxCopies   \* bound: no run starts while a row exists in more copies

(* A remote person: the usrNo found for it and the "op" field of the file.
   Any op that is not empty makes the insert loop pass over the person. *)
RemotePerson == [usrNo : UsrNos \cup {NoUsrNo}, op : {"", "preset"}]

ASSUME ConstantsAssumption ==
    /\ Roles # {}
    /\ NoUsrNo \notin UsrNos
    /\ Lists \subseteq Seq(RemotePerson)
    /\ UniqueKey \in BOOLEAN
    /\ Nullable \subseteq UsrNos
    /\ MaxFaults \in Nat
    /\ MaxCopies \in Nat

VARIABLES
    (* the database and the file server *)
    users,     \* the usrNos that have a doreuser row
    nulls,     \* those whose row has a NULL in a column the listing reads
    rows,      \* rows[r][u]: copies of the row (u, r) in doreuserrole
    file,      \* file[r]: the published list for role r
    (* one process *)
    pc,        \* the statement the process is about to run
    role,      \* roleID
    remote,    \* people, as downloaded and resolved
    pending,   \* rows of dbPeople the delete loop has not visited, with copies
    marked,    \* indices of remote whose Op the delete loop set to "exists"
    next,      \* index of the insert loop
    deleted,   \* users named by the delete lines of ReportLogs
    inserted,  \* users named by the insert lines of ReportLogs
    (* history, read by properties only *)
    base,      \* members of the role when the run started
    touched,   \* who else wrote this role since the run started
    faults     \* MaxFaults used so far

dbVars   == <<users, nulls, rows, file>>
procVars == <<pc, role, remote, pending, marked, next, deleted, inserted>>
vars     == <<dbVars, procVars, base, touched, faults>>

Active  == {"list", "delete", "insert"}
Stopped == {"idle", "skipped", "done", "failed", "verifyFailed", "crashed"}

TypeOK ==
    /\ users \subseteq UsrNos
    /\ nulls \subseteq UsrNos
    /\ rows \in [Roles -> [UsrNos -> Nat]]
    /\ file \in [Roles -> Lists]
    /\ pc \in [Procs -> Active \cup Stopped]
    /\ role \in [Procs -> Roles]
    /\ remote \in [Procs -> Seq(RemotePerson)]
    /\ pending \in [Procs -> [UsrNos -> Nat]]
    /\ marked \in [Procs -> SUBSET Nat]
    /\ next \in [Procs -> Nat \ {0}]
    /\ deleted \in [Procs -> SUBSET UsrNos]
    /\ inserted \in [Procs -> SUBSET UsrNos]
    /\ base \in [Procs -> SUBSET UsrNos]
    /\ touched \in [Procs -> {"clean", "peer", "foreign"}]
    /\ faults \in Nat

-----------------------------------------------------------------------------
(* listPeopleInRole joins doreuserrole with doreuser: a row whose user is
   gone is not listed, a row held in two copies is listed twice. *)
Listed(r)  == [u \in UsrNos |-> IF u \in users THEN rows[r][u] ELSE 0]
Members(r) == {u \in users : rows[r][u] > 0}

(* rows.Scan takes no NULL for a string: one such row spoils the listing. *)
Readable(r) == Members(r) \cap nulls = {}

NamedIn(list) == {list[i].usrNo : i \in DOMAIN list} \ {NoUsrNo}
Named(p)      == NamedIn(remote[p])

(* Mutant: the map holds the position after the person's. *)
MutRemoteByUsrNoNext(p, u, i) ==
    /\ i - 1 \in DOMAIN remote[p]
    /\ remote[p][i - 1].usrNo = u
    /\ \A j \in DOMAIN remote[p] : remote[p][j].usrNo = u => j <= i - 1

(* remoteByUsrNo[u] = i: a later person with the same usrNo wins. *)
RemoteByUsrNo(p, u, i) ==
    /\ i \in DOMAIN remote[p]
    /\ remote[p][i].usrNo = u
    /\ \A j \in DOMAIN remote[p] : remote[p][j].usrNo = u => j <= i

(* Mutant: the insert loop does not look at the marks. *)
MutMustInsertMarked(p, i) ==
    remote[p][i].usrNo # NoUsrNo /\ remote[p][i].op = ""

(* The insert loop's "continue", negated. *)
MustInsert(p, i) ==
    /\ remote[p][i].usrNo # NoUsrNo
    /\ remote[p][i].op = ""
    /\ i \notin marked[p]

(* A write of p is news to every other process on the role.  It counts as a
   peer's write while both work from the same names and p itself has seen no
   outsider; otherwise it is a foreign one. *)
Touch(p) ==
    [q \in Procs |->
        IF q = p \/ role[q] # role[p] THEN touched[q]
        ELSE IF Named(q) # Named(p) \/ touched[p] = "foreign" THEN "foreign"
        ELSE IF touched[q] = "clean" THEN "peer"
        ELSE touched[q]]

TouchAll(r) == [q \in Procs |-> IF role[q] = r THEN "foreign" ELSE touched[q]]

(* Mutants: the delete forgets "and roleID=?", or has its two parameters
   swapped and so finds no row. *)
MutDeleteAllRoles(r, u) == rows' = [s \in Roles |-> [rows[s] EXCEPT ![u] = 0]]
MutDeleteSwapped(r, u)  == rows' = rows

Delete(r, u) == rows' = [rows EXCEPT ![r][u] = 0]
Insert(r, u) == rows' = [rows EXCEPT ![r][u] = @ + 1]

Fault == faults < MaxFaults /\ faults' = faults + 1

Init ==
    /\ users \in SUBSET UsrNos
    /\ nulls \in SUBSET (users \cap Nullable)
    /\ rows \in [Roles -> [UsrNos -> {0, 1}]]
    /\ file \in [Roles -> Lists]
    /\ pc = [p \in Procs |-> "idle"]
    /\ role = [p \in Procs |-> CHOOSE r \in Roles : TRUE]
    /\ remote = [p \in Procs |-> <<>>]
    /\ pending = [p \in Procs |-> [u \in UsrNos |-> 0]]
    /\ marked = [p \in Procs |-> {}]
    /\ next = [p \in Procs |-> 1]
    /\ deleted = [p \in Procs |-> {}]
    /\ inserted = [p \in Procs |-> {}]
    /\ base = [p \in Procs |-> {}]
    /\ touched = [p \in Procs |-> "clean"]
    /\ faults = 0

-----------------------------------------------------------------------------
(* A run reaches the role part for role r with the list fillUserNumbers
   resolved: every usrNo in it was found in doreuser or has just been
   inserted there.  An empty list returns before anything is read. *)
Start(p, r) ==
    /\ pc[p] \in Stopped
    /\ \A s \in Roles, u \in UsrNos : rows[s][u] <= MaxCopies
    /\ role' = [role EXCEPT ![p] = r]
    /\ remote' = [remote EXCEPT ![p] = file[r]]
    /\ pc' = [pc EXCEPT ![p] = IF file[r] = <<>> THEN "skipped" ELSE "list"]
    /\ users' = users \cup NamedIn(file[r])
    /\ touched' = [q \in Procs |->
                      IF q = p THEN "clean"
                      ELSE IF users' # users THEN "foreign" ELSE touched[q]]
    /\ pending' = [pending EXCEPT ![p] = [u \in UsrNos |-> 0]]
    /\ marked' = [marked EXCEPT ![p] = {}]
    /\ next' = [next EXCEPT ![p] = 1]
    /\ deleted' = [deleted EXCEPT ![p] = {}]
    /\ inserted' = [inserted EXCEPT ![p] = {}]
    /\ base' = [base EXCEPT ![p] = {u \in users' : rows[r][u] > 0}]
    /\ UNCHANGED <<nulls, rows, file, faults>>

(* peopleInDB, err := listPeopleInRole(conn.Conn, roleID) *)
ListBefore(p) ==
    /\ pc[p] = "list"
    /\ Readable(role[p])
    /\ pending' = [pending EXCEPT ![p] = Listed(role[p])]
    /\ pc' = [pc EXCEPT ![p] = "delete"]
    /\ UNCHANGED <<dbVars, role, remote, marked, next, deleted, inserted,
                   base, touched, faults>>

(* Mutant: the loop stays at the same row. *)
MutVisitAgain(p, u) == pc[p] = "delete" /\ pending[p][u] > 0 /\ UNCHANGED pending

Visit(p, u) ==
    /\ pc[p] = "delete"
    /\ pending[p][u] > 0
    /\ pending' = [pending EXCEPT ![p][u] = @ - 1]

(* The listed row belongs to a person of the list: Op = "exists". *)
MarkExisting(p, u) ==
    /\ u \in Named(p)
    /\ Visit(p, u)
    /\ \E i \in DOMAIN remote[p] :
          /\ RemoteByUsrNo(p, u, i)
          /\ marked' = [marked EXCEPT ![p] = @ \cup {i}]
    /\ UNCHANGED <<dbVars, pc, role, remote, next, deleted, inserted,
                   base, touched, faults>>

(* Mutant: the role is cleared and refilled. *)
MutClearRole(p, u) ==
    /\ Visit(p, u)
    /\ Delete(role[p], u)
    /\ deleted' = [deleted EXCEPT ![p] = @ \cup {u}]
    /\ touched' = Touch(p)
    /\ UNCHANGED <<users, nulls, file, pc, role, remote, marked, next, inserted,
                   base, faults>>

(* The listed row belongs to nobody on the list: delete, then log. *)
DeleteOutsider(p, u) ==
    /\ u \notin Named(p)
    /\ Visit(p, u)
    /\ Delete(role[p], u)
    /\ deleted' = [deleted EXCEPT ![p] = @ \cup {u}]
    /\ touched' = Touch(p)
    /\ UNCHANGED <<users, nulls, file, pc, role, remote, marked, next, inserted,
                   base, faults>>

(* Mutant: "break" for "continue" at a listed row ends the delete loop early. *)
MutDeletesBreak(p) ==
    /\ pc[p] = "delete"
    /\ \E u \in Named(p) : pending[p][u] > 0
    /\ pc' = [pc EXCEPT ![p] = "insert"]
    /\ UNCHANGED <<dbVars, role, remote, pending, marked, next, deleted,
                   inserted, base, touched, faults>>

DeletesDone(p) ==
    /\ pc[p] = "delete"
    /\ \A u \in UsrNos : pending[p][u] = 0
    /\ pc' = [pc EXCEPT ![p] = "insert"]
    /\ UNCHANGED <<dbVars, role, remote, pending, marked, next, deleted,
                   inserted, base, touched, faults>>

AtPerson(p) == pc[p] = "insert" /\ next[p] \in DOMAIN remote[p]

SkipPerson(p) ==
    /\ AtPerson(p)
    /\ ~MustInsert(p, next[p])
    /\ next' = [next EXCEPT ![p] = @ + 1]
    /\ UNCHANGED <<dbVars, pc, role, remote, pending, marked, deleted,
                   inserted, base, touched, faults>>

InsertMember(p) ==
    /\ AtPerson(p)
    /\ MustInsert(p, next[p])
    /\ LET u == remote[p][next[p]].usrNo IN
          /\ UniqueKey => rows[role[p]][u] = 0
          /\ Insert(role[p], u)
          /\ inserted' = [inserted EXCEPT ![p] = @ \cup {u}]
    /\ next' = [next EXCEPT ![p] = @ + 1]
    /\ touched' = Touch(p)
    /\ UNCHANGED <<users, nulls, file, pc, role, remote, pending, marked, deleted,
                   base, faults>>

(* The schema refuses a second copy of the row: the Exec error ends the run. *)
InsertRefused(p) ==
    /\ AtPerson(p)
    /\ MustInsert(p, next[p])
    /\ UniqueKey /\ rows[role[p]][remote[p][next[p]].usrNo] > 0
    /\ pc' = [pc EXCEPT ![p] = "failed"]
    /\ UNCHANGED <<dbVars, role, remote, pending, marked, next, deleted,
                   inserted, base, touched, faults>>

(* verifyRoleMembers: both lists are turned into sets before they are
   compared, so copies are invisible to it. *)
Missing(p)    == Named(p) \ Members(role[p])
Unexpected(p) == Members(role[p]) \ Named(p)

(* Mutant: the members are listed again before the last person's turn. *)
MutAtVerifyEarly(p) == pc[p] = "insert" /\ next[p] >= Len(remote[p])

(* The second listing and the comparison. *)
AtVerify(p) == pc[p] = "insert" /\ next[p] > Len(remote[p])

Verify(p) ==
    /\ AtVerify(p)
    /\ Readable(role[p])
    /\ pc' = [pc EXCEPT ![p] = IF Missing(p) = {} /\ Unexpected(p) = {}
                               THEN "done" ELSE "verifyFailed"]
    /\ UNCHANGED <<dbVars, role, remote, pending, marked, next, deleted,
                   inserted, base, touched, faults>>

(* Either listing ends at a row with a NULL, in this run and in every other
   until somebody fills the column in. *)
ListUnreadable(p) ==
    /\ pc[p] = "list" \/ AtVerify(p)
    /\ ~Readable(role[p])
    /\ pc' = [pc EXCEPT ![p] = "failed"]
    /\ UNCHANGED <<dbVars, role, remote, pending, marked, next, deleted,
                   inserted, base, touched, faults>>

Step(p) ==
    \/ ListBefore(p) \/ ListUnreadable(p)
    \/ \E u \in UsrNos : MarkExisting(p, u) \/ DeleteOutsider(p, u)
    \/ DeletesDone(p)
    \/ SkipPerson(p) \/ InsertMember(p) \/ InsertRefused(p)
    \/ Verify(p)

-----------------------------------------------------------------------------
(* Failures.  A statement that returns an error ends the run; nothing is
   rolled back and nothing is retried. *)

QueryFails(p) ==
    /\ pc[p] = "list" \/ AtVerify(p)
    /\ Fault
    /\ pc' = [pc EXCEPT ![p] = "failed"]
    /\ UNCHANGED <<dbVars, role, remote, pending, marked, next, deleted,
                   inserted, base, touched>>

(* Mutant: the line is logged before the statement has been answered. *)
MutDeleteLoggedFirst(p, u) ==
    /\ u \notin Named(p)
    /\ Visit(p, u)
    /\ Fault
    /\ deleted' = [deleted EXCEPT ![p] = @ \cup {u}]
    /\ pc' = [pc EXCEPT ![p] = "failed"]
    /\ UNCHANGED <<dbVars, role, remote, marked, next, inserted, base, touched>>

(* The connection can break before the server saw the statement or after it
   executed it; the client gets an error and logs nothing either way. *)
DeleteFails(p, u) ==
    /\ u \notin Named(p)
    /\ Visit(p, u)
    /\ Fault
    /\ \/ UNCHANGED <<rows, touched>>
       \/ Delete(role[p], u) /\ touched' = Touch(p)
    /\ pc' = [pc EXCEPT ![p] = "failed"]
    /\ UNCHANGED <<users, nulls, file, role, remote, marked, next, deleted, inserted,
                   base>>

InsertFails(p) ==
    /\ AtPerson(p)
    /\ MustInsert(p, next[p])
    /\ Fault
    /\ LET u == remote[p][next[p]].usrNo IN
          \/ UNCHANGED <<rows, touched>>
          \/ /\ UniqueKey => rows[role[p]][u] = 0
             /\ Insert(role[p], u) /\ touched' = Touch(p)
    /\ pc' = [pc EXCEPT ![p] = "failed"]
    /\ UNCHANGED <<users, nulls, file, role, remote, pending, marked, next, deleted,
                   inserted, base>>

(* The process dies; its log dies with it. *)
Crash(p) ==
    /\ pc[p] \in Active
    /\ Fault
    /\ pc' = [pc EXCEPT ![p] = "crashed"]
    /\ UNCHANGED <<dbVars, role, remote, pending, marked, next, deleted,
                   inserted, base, touched>>

-----------------------------------------------------------------------------
(* The rest of the world: other BPM applications and the file server. *)

OtherGrantOrRevoke(r, u) ==
    /\ Fault
    /\ IF rows[r][u] = 0 THEN Insert(r, u) ELSE Delete(r, u)
    /\ touched' = TouchAll(r)
    /\ UNCHANGED <<users, nulls, file, procVars, base>>

OtherUserChange(u) ==
    /\ Fault
    /\ IF u \in users
       THEN users' = users \ {u} /\ nulls' = nulls \ {u}
       ELSE users' = users \cup {u} /\ nulls' \in {nulls, nulls \cup ({u} \cap Nullable)}
    /\ touched' = [q \in Procs |-> "foreign"]
    /\ UNCHANGED <<rows, file, procVars, base>>

(* An update of doreuser sets a column to NULL, or fills it in. *)
OtherNullChange(u) ==
    /\ Fault
    /\ u \in users \cap Nullable
    /\ nulls' = IF u \in nulls THEN nulls \ {u} ELSE nulls \cup {u}
    /\ UNCHANGED <<users, rows, file, procVars, base, touched>>

PublishFile(r, list) ==
    /\ Fault
    /\ file[r] # list
    /\ file' = [file EXCEPT ![r] = list]
    /\ UNCHANGED <<users, nulls, rows, procVars, base, touched>>

Failure(p) ==
    \/ QueryFails(p)
    \/ \E u \in UsrNos : DeleteFails(p, u)
    \/ InsertFails(p)
    \/ Crash(p)

Outside ==
    \/ \E r \in Roles, u \in UsrNos : OtherGrantOrRevoke(r, u)
    \/ \E u \in UsrNos : OtherUserChange(u) \/ OtherNullChange(u)
    \/ \E r \in Roles, list \in Lists : PublishFile(r, list)

Next ==
    \/ \E p \in Procs, r \in Roles : Start(p, r)
    \/ \E p \in Procs : Step(p) \/ Failure(p)
    \/ Outside

Spec == Init /\ [][Next]_vars

(* A process keeps running its statements (the database answers each one or
   the driver reports an error), and the scheduler starts a run again after
   the last one has stopped.  Failures and outsiders are never forced. *)
FairSpec ==
    /\ Spec
    /\ \A p \in Procs : WF_vars(Step(p))
    /\ \A p \in Procs, r \in Roles : SF_vars(Start(p, r))

-----------------------------------------------------------------------------
(* Properties.  "Undisturbed": since the run started, its role has been
   written by nobody, or only by runs that work from the same names. *)
Begun(p)       == pc[p] # "idle"
Undisturbed(p) == touched[p] # "foreign"
Distinct(list) ==
    \A i, j \in DOMAIN list :
        list[i].usrNo = list[j].usrNo /\ list[i].usrNo # NoUsrNo => i = j

(* Nobody who was a member and is on the list loses the role, not even for a
   moment, wherever the run or an overlapping one stops or dies: the delete
   loop leaves listed people alone instead of clearing and refilling. *)
NoAccessGap ==
    \A p \in Procs : Begun(p) /\ Undisturbed(p) =>
        base[p] \cap Named(p) \subseteq Members(role[p])

(* The role never holds somebody the list removes together with somebody the
   list adds: all revocations are in before the first grant, so a run that
   stops half-way has revoked too little or granted too little, never both
   kept an outsider and let newcomers in. *)
RevokeBeforeGrant ==
    \A p \in Procs : Begun(p) /\ Undisturbed(p) =>
        \/ Members(role[p]) \subseteq base[p]
        \/ Members(role[p]) \subseteq Named(p)

(* A run that reports success leaves exactly the people of its list in the
   role, whatever an earlier failed or crashed run left behind. *)
DoneMeansSynced ==
    \A p \in Procs : pc[p] = "done" /\ Undisturbed(p) =>
        Members(role[p]) = Named(p)

(* The verification at the end raises no false alarm: it fails only after an
   outsider's write, or for a file that carried an op of its own. *)
VerifyFailureHasCause ==
    \A p \in Procs : pc[p] = "verifyFailed" /\ Undisturbed(p) =>
        \E i \in DOMAIN remote[p] : remote[p][i].op # ""

(* The daily report against the database: every reported change is in force,
   and every change is reported except the one whose statement returned an
   error after the server had executed it. *)
Unreported(p) ==
    LET now == Members(role[p])
    IN  ((base[p] \ now) \ deleted[p]) \cup ((now \ base[p]) \ inserted[p])

ReportMatchesChanges ==
    \A p \in Procs :
        Begun(p) /\ touched[p] = "clean" /\ pc[p] # "crashed" =>
            /\ deleted[p] \cap Members(role[p]) = {}
            /\ inserted[p] \subseteq Members(role[p])
            /\ Unreported(p) # {} => pc[p] = "failed"
            /\ \A u, v \in Unreported(p) : u = v

(* With a list that names each user once, the insert loop only inserts rows
   that are absent: the marks of the delete loop cover everybody listed. *)
InsertOnlyAbsent ==
    [][\A p \in Procs :
          InsertMember(p) /\ touched[p] = "clean" /\ Distinct(remote[p]) =>
              rows[role[p]][remote[p][next[p]].usrNo] = 0]_vars

(* README.md:270 says that people on the list who are not in the role are
   inserted, with no condition on the list. *)
OnlyNonMembersInserted ==
    [][\A p \in Procs :
          InsertMember(p) =>
              remote[p][next[p]].usrNo \notin Members(role[p])]_vars

(* Every run comes to an end. *)
RunsStop == \A p \in Procs : pc[p] \in Active ~> pc[p] \in Stopped

(* Whom a list gives the role to: people who arrive with an op are passed over
   by the insert loop. *)
Due(list) == {list[i].usrNo : i \in {j \in DOMAIN list : list[j].op = ""}} \ {NoUsrNo}

(* What a role needs to be synchronised at all: a file that is not empty and
   names each user once (under a key, the second insert of one ends the run),
   and a listing that no NULL spoils. *)
Syncable(r) == file[r] # <<>> /\ Distinct(file[r]) /\ Readable(r)

(* Daily runs bring a role that stays syncable to its file and keep it there,
   whatever partial runs left: everybody the file is to give it has it, and
   nobody has it whom the file does not name. *)
Converges ==
    \A r \in Roles :
        <>[]Syncable(r) =>
            <>[](/\ Due(file[r]) \subseteq Members(r)
                 /\ Members(r) \subseteq NamedIn(file[r]))
-----------------------------------------------------------------------------
(* Why the properties hold: what is true of an undisturbed run after every
   statement.  The delete loop revokes from a snapshot that only shrinks; the
   insert loop starts when nobody but listed people is left; a mark, and every
   person the insert loop has passed without an op, stands for a member. *)
RunInv(p) ==
    LET M == Members(role[p])
        N == Named(p)
    IN  /\ N \subseteq users
        /\ base[p] \cap N \subseteq M
        /\ M \subseteq base[p] \/ M \subseteq N
        /\ pc[p] = "list" => marked[p] = {}
        /\ pc[p] \in {"list", "delete"} => next[p] = 1
        /\ pc[p] = "delete" =>
              /\ \A u \in M \ N : pending[p][u] > 0
              /\ \A u \in N : pending[p][u] > 0 => u \in M
        /\ pc[p] \in {"delete", "insert"} =>
              \A i \in marked[p] : i \in DOMAIN remote[p]
                                  /\ remote[p][i].usrNo \in M
        /\ pc[p] = "insert" =>
              /\ M \subseteq N
              /\ \A i \in DOMAIN remote[p] : i < next[p] =>
                    \/ remote[p][i].usrNo = NoUsrNo
                    \/ remote[p][i].op # ""
                    \/ remote[p][i].usrNo \in M
        /\ pc[p] = "done" => M = N
        /\ pc[p] = "verifyFailed" =>
              \E i \in DOMAIN remote[p] : remote[p][i].op # ""

IInv == TypeOK /\ \A p \in Procs : Begun(p) /\ Undisturbed(p) => RunInv(p)

(* A run nobody else has touched.  Its log: deletions name outsiders that are
   gone, insertions name listed people that are in, and nothing else has
   changed but by a statement whose answer was lost. *)
LogInv(p) ==
    /\ deleted[p] \cap (Members(role[p]) \cup Named(p)) = {}
    /\ inserted[p] \subseteq Members(role[p]) \cap Named(p)
    /\ Unreported(p) # {} => pc[p] = "failed"
    /\ \A u, v \in Unreported(p) : u = v

(* Its marks: a listed person who has a row is still to be visited by the
   delete loop, is marked, or has been passed by the insert loop. *)
MarkInv(p) ==
    \A i \in DOMAIN remote[p] :
        LET u == remote[p][i].usrNo
        IN  u # NoUsrNo /\ rows[role[p]][u] > 0 =>
              /\ pc[p] = "delete" => pending[p][u] > 0 \/ i \in marked[p]
              /\ pc[p] = "insert" => i < next[p] \/ i \in marked[p]

AloneInv ==
    \A p \in Procs : Begun(p) /\ touched[p] = "clean" /\ pc[p] # "crashed" =>
        LogInv(p) /\ (Distinct(remote[p]) => MarkInv(p))
-----------------------------------------------------------------------------
(* The refinement: the phases of a run, and the members an application sees. *)
PhaseOf(p) ==
    IF pc[p] \in {"list", "delete"} THEN "revoking"
    ELSE IF pc[p] = "insert" THEN "granting"
    ELSE IF pc[p] = "done" THEN "done"
    ELSE IF pc[p] \in {"idle", "skipped"} THEN "off"
    ELSE "failed"

MembersNow == [r \in Roles |-> Members(r)]
Phases     == [p \in Procs |-> PhaseOf(p)]
Targets    == [p \in Procs |-> Named(p)]
Clean      == [p \in Procs |-> Undisturbed(p)]

Abstract ==
    INSTANCE RoleSpec WITH People <- UsrNos, members <- MembersNow,
                           run <- Phases, of <- role, target <- Targets,
                           clean <- Clean

(* Whatever is interleaved, fails or dies, a run is a run of RoleSpec: it
   revokes outsiders only, grants listed people only and only after the last
   revocation, and claims success only of a role that is exactly its list. *)
ImplementsRoleSpec == Abstract!Spec
=============================================================================
