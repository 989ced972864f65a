# A TLA+ model of reportcli

reportcli copies lists of people from an organisation-tree service into roles
of a BPM application: it downloads one JSON file per role, finds or creates the
`doreuser` row of every person, and makes `doreuserrole` equal to the list.
It is a short program, but it rewrites access rights in a shared database,
statement by statement, without a transaction, with no lock against a second
copy of itself, with an HTTP client whose goroutines outlive their calls, and
with a report it writes into a directory other runs clean up. Every one of its
statements rests on the vendored MySQL driver, which retries, splits, numbers
and drains packets on a connection that can break at any of them. That is what
the modules here are about.

## 1. Inventory

| Part | State | Operations | Interaction |
| --- | --- | --- | --- |
| `main`, `syncBPM` (`sync_bpm.go`) | configuration, exit code | load configuration, set proxy, sync, report, notify, exit | calls all the others |
| `PsnTree.DoCompare` (`psntree.go`) | token, downloaded lists, `ValidDepsBySysID`, local copies | token, download every file, compare every file | calls the client, then the two parts below per file |
| HTTP client (`client/client.go`) | `Request` field, one goroutine per call | `Do`, `clientDo` | unbuffered channel, context deadline of 15 s, shared `Request` field |
| User matching, `fillUserNumbers` | `doreuser` rows | find by SSO id, find by name, update, max + 1, insert | shared database |
| Role membership, `syncRoleMembers` and `verifyRoleMembers` | `doreuserrole` rows, the `Op` marks of the list | list, delete, insert, list, verify | shared database; takes `usrNo`s from user matching |
| Daily report, `GenerateReport` | `ReportLogs`, `report_*.txt` | write today's report, list, remove other days' | working directory, clock |
| Notification (`errorexecuter/`) | settings from the environment | one POST, result ignored | called by `main` |
| Database connection (`db.go`) | connection pool | validate, open, ping, exec, query | one per compared file; the driver |
| Driver, data source name (`dsn.go`, `utils.go`) | `Config` | `ParseDSN`, `normalize` | reads what `mysqlDSN` has written |
| Driver, handshake (`connector.go`, `auth.go`, `packets.go`) | plugin, nonce, sequence number, TLS, the shared `Config` | greet, authenticate, change plugin, `SET NAMES` | one dialogue per new connection |
| Driver, statements (`connection.go`, `statement.go`, `rows.go`, `result.go`, and the pool of `database/sql`) | connection, sequence, buffer, status flags, handles | `Ping`, `Exec`, `Query`, `Prepare`, `Close`, `ResetSession` | retries of the pool, server |
| Driver, packets (`packets.go`, `buffer.go`, `utils.go`, `conncheck.go`) | buffer memory, partial packets | write, fill, read, encode, decode | bytes of the connection |

Hard behaviours, each listed at its line in `PROJECT.json` ("hazards"):

- every SQL statement commits alone; errors, lost answers and crashes fall
  between any two of them, and nothing is rolled back or retried by the program;
- two processes (the scheduled one and one started by hand) and other BPM
  applications write the same tables;
- `max(usrNo) + 1` is read and used in two statements, and may revive the role
  rows of a deleted user;
- the marks of the delete loop are kept in the list itself (`Op`), by the last
  index of each `usrNo`;
- a person can be named in several files with different departments, and a
  department has several spellings; two people can have one name, and one of
  them no row yet;
- a NULL in a column of one member makes every listing of the role fail;
- an answer that breaks off while rows are read looks like a shorter one where
  `rows.Err` is not asked;
- `Do` returns at a deadline while its goroutine still runs and shares a field;
  a body that only claims to be gzip panics in that goroutine;
- download and comparison of several files are two phases, and a failure in
  the second one leaves the files before it done;
- reports are named after a day that can end while they are written, and every
  run removes those of other days;
- the DSN is put together without escaping;
- the driver retries a statement only if no byte of it was written; answers of
  several result sets must be drained before a connection is used again;
- plugins can change in the middle of a handshake, and each differs in who
  speaks next;
- packets are split at a maximum size, numbered by one byte, delivered in pieces
  of any length, and read into memory that is used again.

What makes each part correct:

- *roles*: success means that exactly the listed people are members; nobody
  who stays ever loses the role on the way; nobody enters while an outsider is
  left; the report tells what happened; repeated runs bring every role that can
  be synchronised to its file;
- *users*: one row per id as long as one process runs, people who all have a row
  are never mixed up, a repeated run writes nothing, departments are those of the
  files;
- *files to roles*: each role ends with the users its own file was resolved to;
- *runs*: no role is written before everything is downloaded; a list is the
  answer to its own request; a confirmed change is in a report, one whose answer
  was lost makes report and exit code say that the run failed; a run ends;
- *report*: the day's report survives the clean-up of an overlapping run, unless
  that run took its name before midnight;
- *settings*: what is configured is what the driver connects with;
- *connecting*: the two sides never both wait, the right password is enough, and
  it is not sent in the clear where the configuration forbids it;
- *statements*: each is executed at most once, and was executed if it succeeded;
  what is read for it is its own answer;
- *packets*: parameters and rows arrive whole, and nothing misnumbered is used.

## 2. Modules

| Module | Models | State and actions against the code |
| --- | --- | --- |
| `RoleSync` | the role half of `CompareRemoteFile` | `rows` is `doreuserrole`, `users` the keys of `doreuser`; one action per statement or loop iteration: `ListBefore`, `ListUnreadable`, `MarkExisting`, `DeleteOutsider`, `DeletesDone`, `SkipPerson`, `InsertMember`, `Verify`. `pending` is the part of the listing the delete loop has not reached, `marked` the indices whose `Op` is "exists", `next` the index of the insert loop; `nulls` are the users whose row `Scan` refuses |
| `RoleSpec` | what a synchronisation promises | members of a role and runs that revoke outsiders, then grant listed people, then claim success; `RoleSync` implements it (`ImplementsRoleSpec`) |
| `UserMatch` | `fillUserNumbers`, its two lookups, `isNumericEqual` | `table` is `doreuser`; `BySSO`, `ByName`, `Update`, `ReadMax`, `InsertUser` are its statements; `Halts` and `AnswerLost` its failures |
| `CompareFile` | the compare loop of `DoCompare` | extends `UserMatch` and instantiates `RoleSync` on the same database: the users a role can hold are the rows of `doreuser`, the list of a role is what `fillUserNumbers` has left of its file. `begins` remembers how many of the people come before those of each file |
| `SyncRun` | `main`, `syncBPM`, `DoCompare`, `SryClient.Do` and `clientDo` | `pc` and `call` are main's place, `task[c]` the goroutine of call `c`, `request` the shared field, `disk` the local copies, `written` the statements executed and whether they were answered, `ReportLogs` the files with changes in the log; `FileParsed`, `CompareSucceeds`, `Report`, `Finish`, ... |
| `DailyReport` | `log`, `GenerateReport` in several processes | `directory` holds the `report_*.txt`, `today` is the clock, `files[p]` what `filepath.Glob` returned; `Begin`, `Write`, `Glob`, `Remove`, `End`, `CutShort` |
| `DailyRun` | both, in one directory | the report step of `SyncRun` taken apart into those of `DailyReport`, next to other processes |
| `Dsn` | `mysqlDSN`, `ParseDSN`, `parseDSNParams`, `normalize`, `ensureHavePort` | a setting is a sequence of tokens, `params` the query string that is still to be read; `Configure`, `ReadAddress`, `ReadParam`, `Normalize` |
| `Handshake` | `connector.Connect` from the greeting to `SET NAMES` | `phase` is what `Connect` waits for, `server` what the server does next; `ReadGreeting`, `SendResponse`, `ReadSwitch`, `ReadResult`, `FullAuthentication`, ... |
| `Session` | statements through `sql.DB`, the pool and `mysqlConn` | `pc` is what the statement waits for, `buf`, `wire` and `out` the packets read, arrived and to come; one action per packet written or read |
| `DbSpec` | what the program relies on when it hands over a statement | `call` and `effects`; `Session` implements it (`ImplementsDbSpec`) |
| `Database` | `NewSherryDB` | `Dsn`, then `Handshake` for each connection `Session` asks for, and its statements over it |
| `Codec`, `Packets` | the bytes: `writePacket`, `readPacket`, the buffer, encoded parameters and rows | `cachedBuf` and `bigBuf` are the memory, `buf` and `packet` slices of it; `Fill`, `ReadHeader`, `ReadBody`, `Scan`, `WritePacket` |
| `MCRoleSync`, `MCUserMatch`, `MCCompareFile`, `MCDailyRun`, `MCDatabase`, `MCPackets` | instances for TLC | |
| `RoleSyncProofs`, `UserMatchProofs`, `CompareFileProofs`, `SyncRunProofs`, `ConnectProofs`, `SessionProofs`, `CodecProofs`, `PacketsProofs` | theorems | section 5 |

How they fit. A run is `DailyRun`; a comparison is one step of it, that succeeds
or fails having written or not, and many of `CompareFile`. A statement is one
step of `CompareFile`, executed and answered, executed without an answer, or
not executed: these are the outcomes of `DbSpec`, which `Session` implements.
`Session` in turn treats a packet as one step and connecting as an outcome;
`Handshake` is how connecting goes, and `Packets` how one packet does.

`DbSpec` allows one thing that the modules above it do not: a failed statement
may take effect while later ones are already answered, because a server can
still be reading what a lost connection has sent. There, a statement that
fails has taken effect at once or never will.

The order of the delete loop is the order of a query without `order by`, so
`RoleSync` lets it visit the listing in any order. A list entry is a `usrNo`
and an `op`; names, departments and wording of log lines are left out there.
`RoleSync` keeps the code's test for an empty `usrNo` although
`fillUserNumbers` never leaves one; the instances do not use it.

In `UserMatch` a department is a spelling of `depName` and `depID`, and
`Numeric` says which spellings are the same number: `NumericId` is a column that
keeps the number. SSO ids keep their spelling, because one place trims them and
another does not; `PadSpace` says whether the collation of `ssoID` ignores
trailing spaces, as those of the default charset do.

In `Handshake` a password, a nonce and a response are what a server can tell of
them: whether the password is the account's, and which nonce was used, and how.
In `Session` a packet is its kind, the statement it answers, the flag that more
results follow, and its number. In `Packets` a byte has `ByteBits` bits, and the
numbers of the code (the maximum packet size, the limits of the length
encodings, the sizes of the buffer) are scaled down with it.

Server, network, clock, directory and other processes are external: they are
modelled by what the code in the repository has to expect of them.

Definitions whose name begins with `Mut` are deliberately wrong versions of the
definition that follows them: each stands for a plausible mistake in that
code, and each is refuted by the property `PROJECT.json` pairs it with. No
specification uses them.

### The history variables

`base` is the set of members when a run started. `touched[p]` says who else has
written p's role since: nobody ("clean"), only runs that work from the same
names ("peer"), or somebody else ("foreign"). The properties of a run are
claimed while it is undisturbed, that is, not "foreign": against an application
that grants the role again a moment later no run can promise anything. Runs
from the same list, overlapping in every order, do not count as a disturbance.
`deleted` and `inserted` are the log lines of a run.
In `UserMatch`, `known` and `had` remember which rows there were at the start and
whose id had one of them, `settled` the list the last completed run has resolved; in `CompareFile`, `begins` remembers
where in the people of a run those of each file begin. `kept` and `alone` (`DailyReport`) and
`replaced` (`DailyRun`) remember what could not be removed and who else has
changed the directory. `written` (`SyncRun`) is what has been done to the database,
which the program does not know; what it knows is `ReportLogs`. `effects` and `origin` (`Session`) count executions and
remember whose packets were read for a statement; `accepted` (`Handshake`),
`bound`, `skew` and `fault` (`Packets`) what the server has done.

## 3. Runs

| Run | Instance | What it shows |
| --- | --- | --- |
| `role_overlap` | 2 processes, 1 role, 3 users, 3 versions of its list (nobody; a person with an op; a person twice), 1 fault, no key | `IInv` (the inductive invariant), `NoAccessGap`, `RevokeBeforeGrant`, `DoneMeansSynced`, `VerifyFailureHasCause`, `ReportMatchesChanges`, `InsertOnlyAbsent` through every overlap, and `ImplementsRoleSpec` |
| `role_live` | 2 processes, 2 users, 5 versions of a list (nobody; a person with an op; a person twice), a column that is NULL or not, key on (usrNo, roleID), 1 fault, fair | `RunsStop`, `Converges` |
| `compare` | 1 process, run after run, 2 roles, all small `doreuser` tables (NULLs and namesakes included) and 3 `doreuserrole` (orphan rows included), 1 fault, no keys | `RowsPerIdBounded`, `PeopleKeptApart`, `NoChurn`, `DeptsListed`, `RoleMatchesFile`, `ListedPeopleGetTheRole` |
| `user_race` | 2 processes, `usrNo` a key, exact collation, 1 fault | `ResolvedMatches`, `RowsPerIdBounded` |
| `run_phases` | 2 files, 2 runs, another process, one midnight, fair | `AllBeforeAny`, `OwnAnswer`, `NoStaleTask`, `SuccessIsComplete`, `CopyKeptUntilCompared`, `ChangesAreTold`, `TodaysReportStays`, `LoneRunLeavesOne`, `RunEnds` |
| `database` | a Ping and 2 statements, 1 break, every plugin and server, settings with every separator of a DSN, fair | `SettingsKept`, `OwnAnswers`, `InStep`, `Lockstep`, `RightPasswordConnects`, `ClearOnlyWhereAllowed`, `ImplementsDbSpec`, `StatementEnds` |
| `packets` | bytes of 3 bits, packets of at most 7, buffers of 3 to 6, 2 executions | `ParametersArrive`, `RowsIntact`, `NoFalseAlarm`, `MisnumberedRefused`, `NoMutualWait` |
| `role_repeated` | list with the same user twice | violated: `OnlyNonMembersInserted` |
| `user_unknown`, `user_fallback`, `user_ssofill` | 1 process | violated: what the README says of unknown people, of the fallback and of filling in ssoID |
| `run_notify` | unreadable configuration | violated: `FailureExitsNotify` |

Some properties have exceptions written into them, because the code has them:
`RowsPerIdBounded` grants each process one row and, under a collation that minds
padding, one per failure; `RoleMatchesFile` lets users in whose orphan rows a new
`usrNo` revives; `TodaysReportStays` excepts runs that took their name before
midnight; `ChangesAreTold` excepts a run that was killed, one whose report
another run of the day replaced, and one that says with its exit code that it
could not write, and of a change whose answer was lost it says only that report and
exit code tell of a failure: the code logs a statement when its answer is there
(`psntree.go:456-459`, `:471-474`), and one without an answer not at all, or as
failed (`:330`, `:359`). `PeopleKeptApart` excepts namesakes of whom one had no row of
his own when the run began: he is found by name in the row of the other
(`:297`, `:387-415`), an old one or one inserted a moment before. Sharing it, they overwrite each
other's ssoID and department in every run, so `NoChurn` excepts them too, and `DeptsListed`
is content with a department of either. `Converges` is about
the roles that stay syncable: an empty file is skipped (`:197-200`), a NULL in a column of
a member makes every listing fail (`:429-431`), a person named twice is
inserted twice and ends the run where there is a key; and who arrives with an op is
not inserted (`:467`). `SettingsKept` names the characters that each setting may not
hold: server and port no colon or bracket, by which `ensureHavePort` tells them
apart, but for the brackets around an IPv6 address. `MisnumberedRefused` excepts a
message of nothing but full packets.

### Bounds

*Roles.* Three users are enough for one to be kept, one revoked and one granted
in the same run; two processes and several list versions for every kind of
overlap the properties tell apart. `MaxFaults` bounds failures, crashes and
outside writes of a whole behaviour, `MaxCopies` the copies of a row. One role is
enough there, since the theorems of section 5 hold for any number of roles, and
`compare` has two. *Users and files.* Two people, three spellings of two
departments, two spellings of one id, and a namesake: enough to move somebody to and fro, to
confuse two, and to insert one. `MCRuns` are runs of one or two files: the same
person in both, two files for one role, a file of nobody, a file for no role, two people of one name.
Every id has one owner, and one run of `MCRuns` names two people who share a name, of
whom `doreuser` holds neither, one or both. `MaxRows`
bounds `doreuser`. *Runs.* Two files are the least with a first and a last; two
runs, so that the second finds what the first left on disk. The proofs take any
number. Other processes turn up in the last run, and `MaxDay` allows one
midnight: one is what makes a name old. *Statements.* A Ping, whose connection
the first statement finds in the pool, and a second statement that can find
what the first has left; one break of the connection, at any packet; answers of
at most `MaxPackets` packets, which leaves room for two result sets, one of them
with rows. Configs and servers other than the usual pair are tried with the
Ping only (`DbIssue`); `MaxFailures` bounds refused connections. *Packets.* The
numbers of a byte wrap around after 8, a packet is full at 7, and the buffer is
smaller than a full packet, as in the code; values of every length class,
NULL bitmaps of one and two bytes, rows of one packet, of full packets only, and
of a full one and more, and more packets than numbers. Only ratios of
these bounds matter to the code, and they are kept.

Where a bound can leave nothing to do, the run does not check for deadlock; its
cfg names the bound. `role_live` checks for it.

### Fairness

`RoleSync.FairSpec`: a process that has a statement to run runs it, and the
driver comes back with an answer or an error (weak fairness of `Step`); the
scheduler starts the next run after the last one stopped (strong fairness of
`Start`, which is enabled only between runs). Faults are never forced and run
out. `DailySpec`: only main moves on (weak fairness of `DailyMain`); goroutines
and server may stop for ever, and `RunEnds` rests on the deadline of `Do`. Both
assume that a database statement comes back in the end, which is what
`StatementEnds` shows under `DbFairSpec`: the driver goes on, and so does a
server whose connection is up. That last part is an assumption about the
server: the DSN sets no timeout, so that one that keeps silent hangs the run for
ever. A connection that is down is noticed by the driver without any fairness
of the network.

## 4. Where the code and its documents disagree

- A list that names a user twice: the map of the delete loop keeps the last
  index only, so the other entry is never marked and the member is inserted
  again (`psntree.go:442-454`, README:270).
- Nobody is left out for lack of a `usrNo`: a person nobody is found for is
  inserted into `doreuser` and gets the role (`psntree.go:349-363`, README:16
  and :345, TEST_PLAN:50).
- The fallback lookup is by name alone (`psntree.go:388`, README:11, :244-248).
- A user found by name whose department is right never gets the missing ssoID
  (`psntree.go:311-320`, README:12, :250).
- A configuration that cannot be loaded is not notified (`sync_bpm.go:32-36`,
  README:354-358).

### What a reader of the code may want to know

Met while modelling; no document says otherwise, so no run reports it.

- Two people of one name, one of them new: the new one gets the `usrNo` of the other,
  whose ssoID and department the update overwrites (`psntree.go:297`, `:322-330`), and
  two on one list go on sharing one user, run after run (`compare`).
- One member with a NULL in `depID`, `department`, `ssoID` or `name` keeps a role from
  being synchronised at all (`psntree.go:429-431`).
- A change whose answer was lost is in no log line, or in one that says it failed.
- Two files of one `typez` override each other's role; two overlapping runs can
  each insert a row for the same id (`psntree.go:292`), and a lookup by name that
  breaks off is taken for a shorter answer (`psntree.go:398`).
- `max(usrNo) + 1` may be the number of a user deleted before, whose rows in
  `doreuserrole` come back into force with it (`psntree.go:350`).
- A second run of the day overwrites the report of the first (`psntree.go:550`),
  and the clean-up removes every `report_*.txt`, whoever wrote it.
- The DSN is built without escaping (`db.go:72`). The password may hold anything,
  but a slash in `Loc` must be written `%2F`, as `db_test.go:29` does; a login
  with a colon, a database name with `/`, `?` or `%`, a server with `@` or an
  IPv6 address without brackets are not read back, and a `Charset` with `&` sets
  other parameters. A parameter named `strict` panics.
- `tls=preferred`, if a server cannot do it, is given up in the connector's own
  `Config`, for all later connections too (`packets.go:217-219` of the driver).
- In the driver, the test for the end of a split message at `packets.go:153` is
  true of every packet that empties `data`; `readPacket` returns a message of
  full packets only without having looked at `invalidSequence`
  (`packets.go:72-91`); `readUntilEOF` takes whatever begins with 0xfe for the
  end (`packets.go:894`). A full packet is safe from the memory that is
  used again because `append(prevData, data...)` copies it (`packets.go:122`).
- A statement that failed on a lost connection may be executed later, while the
  next one is answered (`DbSpec`).

## 5. Proofs

All of these hold for every value of the constants: any number of processes,
roles, users, lists, files, runs, days, statements, rows, packets and failures,
any width of a byte from three bits on, and every initial database. They use nothing but the named assumptions on the
constants that the modules declare and TLC evaluates, unless said otherwise.

**Roles** (`RoleSyncProofs`). `TypeCorrect`; `InvariantHolds`: `Spec => []IInv`; and
from it `NoGap`, `RevokesFirst`, `DoneIsSynced`, `FailureHasCause`. None of the four
is inductive. That success is exact needs to know that the delete loop has
visited every outsider; that nobody is lost needs to know what a mark means; that
revocations come first needs to know that a peer which is already inserting has
no outsider left. `RunInv` says this of an undisturbed run, for each value of
its pc:

1. the listed users exist, those who were members still are, and the members
   are either all old or all listed;
2. in the delete loop every outsider among the members is still pending, and
   every pending listed user is a member;
3. every marked index is that of a member;
4. in the insert loop all members are listed, and everybody passed is a member,
   is nobody, or carries an op;
5. after success members and list are equal; after a failed verification some
   entry carries an op.

The argument. `StepEffect`: a step changes only its own process's variables, and
of the database nothing, the rows of one outsider, or one row of a listed user.
`RunFrame`: a run stays consistent when its role loses an outsider, or gains a
listed user once no outsider is left. `PeerStep` applies this to another
process's write: if it leaves the run undisturbed, both work from the same
names, and if it is an insert, the peer's own `RunInv` says that no outsider is
left. `OwnStep` goes through the actions of the run itself; `RunStart` and
`OutsideStep` through the rest.

`RoleSync` implements `RoleSpec` (`Implements`). The
mapping reads the members off `rows` and `users` and the phase off `pc`; `IInv` is
needed for the phases: the abstract run grants, and claims success, only under
conditions the code never tests. `AloneHolds` proves `AloneInv` for a run
nobody has touched: deletions in the log are outsiders that are gone, insertions
listed people that are in, every listed row is pending, marked or passed. From it
follow `LogIsTrue` (`ReportMatchesChanges`) and `InsertsAreNew` (`InsertOnlyAbsent`).

**Users** (`UserMatchProofs`). `TypeCorrect`, from the types and the places of the
processes in their lists. The other theorems need facts of the schema and of the
data, each of which the code relies on without a test, and each is named:

- `Keyed`: `usrNo` is a key, or there is one process. With it, `KeyInvHolds`: no
  two rows have one number and the number in hand is free, or the insert fails.
  Without it two processes do hand one number to two people.
- `Owned(Owner)`: `Keyed`; no listed id is blank; and `Owner` gives every id one
  name, in the lists and in the tables processes start from. With it,
  `OwnerInvHolds` and `ResolvedMatchesHolds`; namesakes are allowed. The invariant says that every number given, and the
  number about to be written to, is that of a row with the person's name; rows
  keep number and name for ever; an insert brings a number of its own.
- `OneRowPerId`, `OneRowPerName`: the tables start without the duplicates that
  `RowsPerIdBounded` counts. `RowsPerIdBoundedHolds` is a counting argument. No
  bound on the rows alone is inductive, because a process that has looked in vain
  is about to add one. `IdWeight` counts the numbers that carry an id, or are about
  to be given it by an update, together with the processes on their way to an
  insert for it: never more than there are processes, because a process starts on
  that way only if the lookup found nothing, and then nothing is counted but other
  processes. `NameWeight` is the same of the rows of a name, for the collation
  that minds the padding, where each lookup that breaks off pays with a fault.
- `OwnRows(Owner)`: all of this, the collation that ignores padding, and no two ids of
  one name. For one
  process, `NoChurnHolds` and `DeptsListedHolds`. The invariant (`OrderInv`) is about
  the row that the lookups *would* find (`Candidate`): the one with the id, or
  else the one with the name. A person who has been resolved, in this run or in the
  one that is settled, has a candidate in a department the list gives
  (`InOrder`). That later writes do not undo it is the point: they go to the
  candidate of another person, or to the same row with a department that is
  listed as well.

- `Owned(Owner)`, that collation, and one process: `PeopleKeptApartHolds`. Where
  everybody of a name had a row at the start of a run, each of them is found by id
  (`ApartInv`): the row an update writes to was found by the id of the person it
  belongs to, so it keeps that id, and no id that had a row loses it during the run.
  For the others the theorem claims nothing, because the code does not.

`compare` is an instance of `Owned`, of `OwnRows` too without its run of namesakes, and
`user_race` one of `Owned` with two processes, so no assumption is empty.

**Files and roles** (`CompareFileProofs`). A step of a whole run is one of
`UserMatch`, or leaves the users' variables alone, with one more fault at most
(`Aside`). The invariants above are kept by both kinds, so `CompareRowsPerIdBounded`,
`ComparePeopleKeptApart` and `CompareSettles` (`NoChurn`, `DeptsListed`) are
theorems of `CompareSpec` too, next to role parts of any other process. For a
process that has the database to itself, with no user numbered 0,
`RunsInvHolds`: `FilesInv` (every file begins where the one before it ends, and is
resolved before it is left), `RolePartInv` (the role part has exactly the numbers
of the file in hand) and `AgreeInv`: every file that decides about its role, and
has been compared, *still* agrees with it. The last is what could go wrong after
the verification has passed: a later file may add users, and each statement of the
users part (`Statement`) is shown to change the members of a role at most by a
user it has just numbered, over rows somebody deleted has left; a later file's
role part writes another role, or the earlier file does not decide
(`StepOfRolePart`). From it `RoleMatchesFileHolds`, and with `Owned` besides,
`ListedPeopleGetTheRoleHolds`.

**Runs** (`SyncRunProofs`). `RunInvHolds`: for each place of main, which
goroutines have ended (`TasksInv`: all of the earlier calls, because only an
answer that was received is followed by another call), what request the answer
belongs to (`RequestInv`), what has been downloaded and compared (`PhasesInv`),
what the exit code means (`EndInv`), and that the log tells of every change that
was answered and of no other (`LogsInv`). From it `AllBeforeAnyHolds`,
`OwnAnswerHolds`, `NoStaleTaskHolds`, `SuccessIsCompleteHolds`,
`CopyKeptUntilComparedHolds`.

**Reports** (`SyncRunProofs`, about `DailyRun`). `DailyRunIsARun`: a run with its report step by
step implements that of `SyncRun`, so everything above holds of it
(`DailyRunInv`). `ReportInvHolds` says that a run never lists its own report, takes
its name from a clock that only goes on, and, while it is alone, knows everything
in the directory; from it `TodaysReportStaysHolds` and `LoneRunLeavesOneHolds`.
`ChangesAreToldHolds` adds `ToldInv`: from the write on, the report holds the log of
the run and whether it failed, or was replaced; with `LogsInv`, that is what the
database has confirmed, and where a change is missing the failure is not.

**Settings** (`ConnectProofs`, about `Database`). `DsnInvHolds`, and from it
`SettingsKeptHolds`, for settings of any length over any tokens. Texts are a
monoid under concatenation; a text around a token that one side of it does not
hold is found again by the search for the first, or the last, of that token
(`SplitFirst`, `SplitFinal`); and `Written` regroups what
`mysqlDSN` concatenates from the left into what `ParseDSN` cuts at; `HasItsPort`
shows that `ensureHavePort` leaves a server and its port alone, by the places of their
colons and brackets. `DsnInv` then
says, stage by stage, what has been read and what is left: after the address all
of the arguments, then two, one, none, each read before the next.

**Connecting** (`ConnectProofs`, about `Database`). `HsInv` ties the two sides
together: one message or one short answer is on its way, numbered as the receiver
counts (`Stream`); what it is, follows from where both sides are (`Dialogue`); and
the nonce in use is the one the server wants (`Trust`). From it `LockstepHolds`,
`RightPasswordHolds`, `ClearHolds`. It is not enough to look at one side: that a
change of plugin is answered with the new nonce is known only together with what
the server has sent.

**Statements** (`SessionProofs`, about `Database`). The packets on their way take
the client, state by state, to the end of the answer (`Flow`): `Leads(kind, Place,
Incoming, t)` says that there is a path through the states of the reader along
the packets read, arrived and not yet sent. Every action keeps it: reading takes
the first step of the path, serving appends one, a break leaves a prefix, and a
goodbye ends it wherever it is. With it, every packet but a goodbye belongs to
the statement in hand and has the number that comes next (`Numbered`), a command
is written only when nothing is on its way (`Commanded`), and a connection is
held or given up as the place of the statement says (`Control`). From this
follow `SessionTypeCorrect`, `OwnAnswersHold` and `InStepHolds`; and, with
`EffectInv` (how often a statement was executed, by where its command is),
`Implements`: `DbFairSpec => ImplementsDbSpec`.

**Encodings** (`CodecProofs`). `TextRoundTrip`, `BinaryRoundTrip` and
`ParametersRoundTrip`: a row is read as it was encoded, in both protocols, and the
server reads the parameters that were written, for any number of columns, any
strings whose length fits eight bytes, numbers that fit their column, and bytes of any
width. These are facts about folds, and need induction. `Induction` has a *set* of
naturals where the library's theorem has a predicate, and follows from the
well-foundedness of `<`; `Recursion` builds the function with a given first value and
given steps. From them `Power`, `Numeral`, `FlattenSeq` and the position in
`Fields` are shown to satisfy the equations they are defined by (`PowerRec`,
`NumeralSums`, `FlattenJoins`), and the rest is arithmetic (`NumeralOfDigits`,
`DigitsOfNumeral`: a number and its digits determine each other, for any base)
and the algebra of concatenation. `FieldsRead` is the lemma everything about rows
goes through: if what is written for each column is read back whatever follows it,
then so is the whole.

**Packets** (`PacketsProofs`). `StreamCorrect`: `Spec => []Inv`. None of the five
properties is inductive: that the rows are whole needs to know where the next
packet begins, and that depends on everything both sides have written. `Inv` is
`Typed`, `History` and `Control`, and `Control` says one thing for each state of the
driver: the bytes read and not consumed, followed by those on their way (`Stream`),
are exactly what the driver still has to read.

- between statements, and while one is written, that is nothing (`Idle`,
  `Writing`); what the server has, and what is still to be written, make up the
  messages of the statement (`Pending`), so that a message cut into packets is
  the same whichever of them have gone;
- after the command, nothing until the server answers (`Waiting`), and then an
  error (`Refusal`, `ErrorBody`, `ErrorRow`) or the answer from packet k of the
  row in hand on (`AtHeader`, `AtBody`, `AtRow`), with `prevData` the packets
  of the row before k, and `sequence` the number of the next one modulo the byte,
  or one less where the server has begun to misnumber;
- a link that is down may have lost the end of it, or carry an error the server
  has said goodbye with (`Arriving`); from then on only a prefix counts, and the
  driver meets `io.EOF` or that error at a place where it is not taken for a row.

`Due` is the rest of an answer, over all its messages and their packets; `DueFacts`
takes a packet off it, across the end of a message too (`Starts`, `ComingNext`).
`PacketCount` and `ChunkFacts` count the packets of a message, the empty one behind
full ones included; `LongDataFacts` shows that the pieces of a parameter sent ahead
make it up; and `SliceFacts` and `BufferFacts` say which bytes a slice of the buffer
holds, so that `FillStep` can show that `Fill` moves bytes without changing the
stream. No relation between the sizes of the buffer and of a packet is needed,
except that a header fits: what is kept over a `Fill` is copied, and a row is
scanned before the next packet is read. One lemma for each action leads to
`InvNext`, and from `StreamCorrect` follow `ParametersAlwaysArrive`, `RowsAlwaysIntact`,
`NeverFalseAlarm`, `MisnumberedAlwaysRefused` and `NeverMutualWait`. The assumptions
are those of `Codec` and `Packets`: a byte has at least three bits, so that the five
marks and a length below them fit; and statements and answers have the types they
say (`WellTyped`).

Only model-checked: liveness (`RunsStop`, `Converges`, `RunEnds`, `StatementEnds`),
which is out of the prover's reach. Every other property of a run that passes is a
theorem. The theorems of `RoleSync` cannot be cited
of the instance in `CompareFile`, whose constants depend on a process; what is
needed of its steps is proved there again, in a form that is enough for whole
runs (`RoleStatements`).

## 6. Not modelled

- `client/file.go` and `client/interceptor.go`, which are commented out;
  `errorexecuter/error.go`, which has no state and no caller; `PureGet`,
  `PostForm`, `Request`, `GetUrl`, `Error2SSE`, `Error2Line`, `Error2Web`: no
  caller in the program;
- the text of requests and log lines; the `Body` of an answer beyond whether it
  is one and parses;
- of the driver: transactions, `interpolateParams`, cancellation of contexts,
  `LOAD DATA INFILE`, compression, the connection attributes, the query for
  `max_allowed_packet` and the `set` of further parameters (`handleParams`,
  `getSystemVar`), none of which the program's DSN or its calls ever reach;
  `FormatDSN`, `Clone` and the functional options, which have no caller; dates and
  floats, which it never queries, and numbers of 32 and 64 bits, which are decoded
  like those of 16; the tables of collations, field types and error numbers. In `Dsn`
  the values of durations and numbers are tokens, and collation,
  maxAllowedPacket and connectionAttributes stay with the free parameters;
- the hashes of the authentication plugins and the arithmetic of
  `filippo.io/edwards25519`: sequential, without state, on numbers of 255 bits,
  beyond what TLC can enumerate or a backend multiply. Whether a
  response matches is a fact the server decides in `Handshake`;
- an empty SysId (`psntree.go:382`): the lists hold none, nor users written by
  other applications while `UserMatch` runs;
- a list entry repeated in `syncFiles`: files are distinct in `SyncRun`;
  `CompareFile` has two files for one role;
- the data race on `Request` itself: `NoStaleTask` shows that the accesses of an
  earlier call's goroutine are over before the field is assigned again.

## 7. Plan

Done: the program from its configuration to its report, and the driver below it
from the data source name to the bytes, with refinements in between and proofs of
all safety properties and refinements.

What is left, in this order:

1. `CompareFile` with two processes and with users other applications write,
   once the tables are small enough; empty SysIds.
2. A statement of `UserMatch` and `RoleSync` as a call of `DbSpec`, late execution
   included: a revocation that takes effect after the run that gave it up.
3. `RoleMatchesFile` for overlapping runs, with what another process may have
   written excepted as in `RoleSync`.
4. Parameters of a DSN beyond their flags; 32 and 64 bit numbers and dates in
   `Codec`.
