------------------------------ MODULE SyncRun ------------------------------
(***************************************************************************)
(* One reportcli process from main to its exit code: the two phases of     *)
(* PsnTree.DoCompare (download every file, then compare every file), the   *)
(* HTTP client under it, the daily report and the notification.            *)
(*                                                                         *)
(* SryClient.Do starts a goroutine per call and waits for its answer on an *)
(* unbuffered channel, or for a deadline; it never waits for the goroutine *)
(* to end, and both sides use the client's Request field.  What            *)
(* CompareRemoteFile does to the database is in UserMatch and RoleSync;    *)
(* here it succeeds or fails, wholly or half-way.                          *)
(***************************************************************************)
EXTENDS Naturals, FiniteSets

CONSTANTS
    NFiles,   \* entries of syncFiles
    MaxRuns   \* bound: runs

ASSUME ConstantsAssumption == NFiles \in Nat \ {0} /\ MaxRuns \in Nat

(* What becomes of config.json: "unreadable" is refused by loadConfig or
   configureProxy, "refused" by NewPsnTree, "noClient" by StartSync. *)
Configs == {"good", "unreadable", "refused", "noClient"}

Files == 1 .. NFiles
Calls == 0 .. NFiles   \* call 0 asks for the token, call f for file f
Nobody == NFiles + 1

VARIABLES
    pc,        \* where main is
    call,      \* the Do in progress, or the file compared next
    request,   \* the call whose request is in SryClient.Request
    task,      \* state of each call's goroutine
    served,    \* the call whose request each goroutine sent
    people,    \* the call whose answer became the list of each file
    disk,      \* local copies in the working directory
    written,   \* changes made for a file: their answer came, or was lost
    ReportLogs, \* files with changes in the report's lines
    compared,  \* files whose comparison succeeded
    syncErr,   \* StartSync returned an error
    reported,  \* outcome of the last report written by this run
    notified,  \* outcome of the notification sent by this run
    exitCode,  \* exit code, Running while there is none
    config,    \* what becomes of the configuration at the next start
    runs       \* MaxRuns used so far

vars == <<pc, call, request, task, served, people, disk, written, ReportLogs,
          compared, syncErr, reported, notified, exitCode, config, runs>>

Running == 2

(* "bound" after WithContext; "offer" is blocked on resChan. *)
Task == {"none", "spawned", "bound", "sent", "offer", "ended"}

TypeOK ==
    /\ pc \in {"off", "prepare", "wait", "answer", "compare", "report",
               "notify"}
    /\ call \in 0 .. NFiles + 1
    /\ request \in Calls
    /\ task \in [Calls -> Task]
    /\ served \in [Calls -> Calls \cup {Nobody}]
    /\ people \in [Files -> Calls \cup {Nobody}]
    /\ disk \subseteq Files /\ compared \subseteq Files
    /\ written \subseteq Files \X {"answered", "lost"}
    /\ ReportLogs \subseteq Files
    /\ syncErr \in BOOLEAN
    /\ reported \in {"no", "changes", "failure"}
    /\ notified \in {"no", "completed", "failed"}
    /\ exitCode \in {0, 1, Running}
    /\ config \in Configs
    /\ runs \in Nat

Init ==
    /\ pc = "off" /\ call = 0 /\ request = 0
    /\ task = [c \in Calls |-> "none"]
    /\ served = [c \in Calls |-> Nobody]
    /\ people = [f \in Files |-> Nobody]
    /\ disk \in SUBSET Files
    /\ written = {} /\ ReportLogs = {} /\ compared = {}
    /\ syncErr = FALSE /\ reported = "no" /\ notified = "no"
    /\ exitCode = Running
    /\ config \in Configs
    /\ runs = 0

httpVars   == <<request, task, served>>
resultVars == <<people, disk, written, ReportLogs, compared>>
endVars    == <<reported, notified, exitCode>>

-----------------------------------------------------------------------------
(* What NewPsnTree refuses has no report; StartSync's error has one. *)
FirstStep ==
    IF config = "good" THEN "prepare"
    ELSE IF config = "refused" THEN "notify" ELSE "report"

(* main: an unreadable configuration exits at once. *)
Start ==
    /\ pc = "off" /\ runs < MaxRuns
    /\ pc' = IF config = "unreadable" THEN "off" ELSE FirstStep
    /\ syncErr' = (config \in {"refused", "noClient"})
    /\ exitCode' = IF config = "unreadable" THEN 1 ELSE Running
    /\ runs' = runs + 1
    /\ call' = 0 /\ request' = 0
    /\ task' = [c \in Calls |-> "none"]
    /\ served' = [c \in Calls |-> Nobody]
    /\ people' = [f \in Files |-> Nobody]
    /\ written' = {} /\ ReportLogs' = {} /\ compared' = {}
    /\ reported' = "no" /\ notified' = "no"
    /\ UNCHANGED <<disk, config>>

(* An operator edits the configuration between two runs. *)
EditConfig(c) ==
    /\ pc = "off" /\ runs < MaxRuns
    /\ config' = c
    /\ UNCHANGED <<pc, call, httpVars, resultVars, syncErr, endVars, runs>>

(* Mutant: the client keeps the request it has. *)
MutDoSameRequest ==
    /\ pc = "prepare"
    /\ task' = [task EXCEPT ![call] = "spawned"]
    /\ pc' = "wait"
    /\ UNCHANGED <<call, request, served, resultVars, syncErr, endVars, config,
                   runs>>

(* client.Request = req, and Do starts its goroutine. *)
Do ==
    /\ pc = "prepare"
    /\ request' = call
    /\ task' = [task EXCEPT ![call] = "spawned"]
    /\ pc' = "wait"
    /\ UNCHANGED <<call, served, resultVars, syncErr, endVars, config, runs>>

-----------------------------------------------------------------------------
(* The goroutine of call c; it shares the field with main. *)
TaskMoves(c, from, to) ==
    task[c] = from /\ task' = [task EXCEPT ![c] = to]

(* app.Request = app.Request.WithContext(ctx) *)
Bind(c) ==
    /\ TaskMoves(c, "spawned", "bound")
    /\ UNCHANGED <<pc, call, request, served, resultVars, syncErr, endVars,
                   config, runs>>

(* c.Do(app.Request) reads the field once more. *)
Send(c) ==
    /\ TaskMoves(c, "bound", "sent")
    /\ served' = [served EXCEPT ![c] = request]
    /\ UNCHANGED <<pc, call, request, resultVars, syncErr, endVars, config, runs>>

(* The body has been read: resChan <- string(data). *)
Respond(c) ==
    /\ TaskMoves(c, "sent", "offer")
    /\ UNCHANGED <<pc, call, request, served, resultVars, syncErr, endVars,
                   config, runs>>

(* clientDo returns an error: the server's, or that of its context once Do
   has left.  Nobody reads it. *)
TaskError(c) ==
    /\ TaskMoves(c, "sent", "ended")
    /\ UNCHANGED <<pc, call, request, served, resultVars, syncErr, endVars,
                   config, runs>>

(* The select of Do: the answer, or the deadline and an empty string. *)
Receive ==
    /\ pc = "wait"
    /\ TaskMoves(call, "offer", "ended")
    /\ pc' = "answer"
    /\ UNCHANGED <<call, request, served, resultVars, syncErr, endVars, config,
                   runs>>

(* DoCompare gives up: StartSync's error is logged and reported. *)
Fail == pc' = "report" /\ syncErr' = TRUE

(* Mutants: a file without an answer is passed over; there is no deadline. *)
MutDeadlineSkips ==
    /\ pc = "wait"
    /\ IF call \in 1 .. NFiles - 1
       THEN pc' = "prepare" /\ call' = call + 1 /\ UNCHANGED syncErr
       ELSE Fail /\ UNCHANGED call
    /\ UNCHANGED <<httpVars, resultVars, endVars, config, runs>>
MutDeadlineNone == FALSE /\ UNCHANGED vars

Deadline ==
    /\ pc = "wait"
    /\ Fail
    /\ UNCHANGED <<call, httpVars, resultVars, endVars, config, runs>>

-----------------------------------------------------------------------------
(* http.NewRequest refuses the URL of a file, or NewClient that of the token. *)
PrepareFails ==
    /\ pc = "prepare"
    /\ Fail
    /\ UNCHANGED <<call, httpVars, resultVars, endVars, config, runs>>

(* The answer to the token request. *)
TokenAccepted ==
    /\ pc = "answer" /\ call = 0
    /\ pc' = "prepare" /\ call' = 1
    /\ UNCHANGED <<httpVars, resultVars, syncErr, endVars, config, runs>>

(* Empty, an errMsg, no JSON; a file that cannot be saved. *)
AnswerRefused ==
    /\ pc = "answer"
    /\ Fail
    /\ UNCHANGED <<call, httpVars, resultVars, endVars, config, runs>>

(* A file is saved before it is parsed. *)
FileUnparsable ==
    /\ pc = "answer" /\ call \in Files
    /\ disk' = disk \cup {call}
    /\ Fail
    /\ UNCHANGED <<call, httpVars, people, written, ReportLogs, compared, endVars,
                   config, runs>>

(* Statements executed for file f; each is logged once its answer is there.
   (A user's statement without an answer leaves a line that says it failed, a
   role's none: lines that tell of no change are left out.) *)
Changes(f, answers) ==
    /\ written' = written \cup {<<f, answer>> : answer \in answers}
    /\ ReportLogs' = ReportLogs \cup (IF "answered" \in answers THEN {f} ELSE {})

(* Mutant: each file is compared as soon as it is there. *)
MutFileParsedAndCompared ==
    /\ pc = "answer" /\ call \in Files
    /\ disk' = disk \cup {call}
    /\ people' = [people EXCEPT ![call] = served[call]]
    /\ Changes(call, {"answered"})
    /\ IF call < NFiles THEN pc' = "prepare" /\ call' = call + 1
                        ELSE pc' = "compare" /\ call' = 1
    /\ UNCHANGED <<httpVars, compared, syncErr, endVars, config, runs>>

FileParsed ==
    /\ pc = "answer" /\ call \in Files
    /\ disk' = disk \cup {call}
    /\ people' = [people EXCEPT ![call] = served[call]]
    /\ IF call < NFiles THEN pc' = "prepare" /\ call' = call + 1
                        ELSE pc' = "compare" /\ call' = 1
    /\ UNCHANGED <<httpVars, written, ReportLogs, compared, syncErr, endVars, config,
                   runs>>

(* CompareRemoteFile, then the local copy is removed (or, if that fails,
   left, and nobody is told). *)
CompareSucceeds(f) ==
    /\ pc = "compare" /\ call = f
    /\ \E answers \in {{}, {"answered"}} : Changes(f, answers)
    /\ compared' = compared \cup {f}
    /\ disk' \in {disk, disk \ {f}}
    /\ call' = f + 1
    /\ pc' = IF f < NFiles THEN "compare" ELSE "report"
    /\ UNCHANGED <<httpVars, people, syncErr, endVars, config, runs>>

(* Mutants: the next file is tried all the same; the local copy goes; the lines
   of a file are handed on when it is done. *)
MutCompareFailsGoesOn(f) ==
    /\ pc = "compare" /\ call = f
    /\ \E answers \in {{}, {"answered"}} : Changes(f, answers)
    /\ call' = f + 1
    /\ pc' = IF f < NFiles THEN "compare" ELSE "report"
    /\ UNCHANGED <<httpVars, people, disk, compared, syncErr, endVars, config,
                   runs>>
MutCompareFailsRemoves(f) ==
    /\ pc = "compare" /\ call = f
    /\ disk' = disk \ {f}
    /\ Fail
    /\ UNCHANGED <<call, httpVars, people, written, ReportLogs, compared, endVars,
                   config, runs>>
MutCompareFailsUntold(f) ==
    /\ pc = "compare" /\ call = f
    /\ \E answers \in SUBSET {"answered", "lost"} :
          written' = written \cup {<<f, answer>> : answer \in answers}
    /\ Fail
    /\ UNCHANGED <<call, httpVars, people, disk, ReportLogs, compared, endVars,
                   config, runs>>

(* Any of its statements may be the one that fails, executed or not. *)
CompareFails(f) ==
    /\ pc = "compare" /\ call = f
    /\ \E answers \in SUBSET {"answered", "lost"} : Changes(f, answers)
    /\ Fail
    /\ UNCHANGED <<call, httpVars, people, disk, compared, endVars, config, runs>>

-----------------------------------------------------------------------------
(* GenerateReport, which runs whatever StartSync returned; its own error is
   returned only if there was none before. *)
Report(ok) ==
    /\ pc = "report"
    /\ reported' = IF ~ok THEN "no" ELSE IF syncErr THEN "failure" ELSE "changes"
    /\ syncErr' = (syncErr \/ ~ok)
    /\ pc' = "notify"
    /\ UNCHANGED <<call, httpVars, resultVars, notified, exitCode, config, runs>>

(* Error2AS: one POST; that it failed, or -notify=false, changes nothing. *)
Notify(sent) ==
    notified' = IF ~sent THEN "no" ELSE IF syncErr THEN "failed" ELSE "completed"

(* sendLineMessage, and exit. *)
Finish(sent) ==
    /\ pc = "notify"
    /\ Notify(sent)
    /\ exitCode' = IF syncErr THEN 1 ELSE 0
    /\ pc' = "off"
    /\ task' = [c \in Calls |-> "none"]
    /\ UNCHANGED <<call, request, served, resultVars, syncErr, reported, config,
                   runs>>

(* The process is killed. *)
Crash ==
    /\ pc # "off"
    /\ pc' = "off"
    /\ task' = [c \in Calls |-> "none"]
    /\ \/ UNCHANGED <<written, ReportLogs>>
       \/ /\ pc = "compare"
          /\ \E answers \in SUBSET {"answered", "lost"} : Changes(call, answers)
    /\ UNCHANGED <<call, request, served, people, disk, compared, syncErr,
                   endVars, config, runs>>

(* gzip.NewReader refuses the body of an answer: "defer gr.Close()" comes before
   the error is looked at, gr is nil, and the panic of this goroutine, of a call
   that may be long over, ends the process. *)
GzipPanics(c) == task[c] = "sent" /\ Crash

Work ==
    \/ PrepareFails \/ Do \/ Receive \/ Deadline
    \/ TokenAccepted \/ AnswerRefused \/ FileUnparsable \/ FileParsed
    \/ \E f \in Files : CompareSucceeds(f) \/ CompareFails(f)
    \/ \E sent \in BOOLEAN : Finish(sent)

Goroutine(c) == Bind(c) \/ Send(c) \/ Respond(c) \/ TaskError(c)

Next ==
    \/ Start \/ Work \/ Crash
    \/ \E ok \in BOOLEAN : Report(ok)
    \/ \E c \in Configs : EditConfig(c)
    \/ \E c \in Calls : Goroutine(c) \/ GzipPanics(c)

Spec == Init /\ [][Next]_vars

-----------------------------------------------------------------------------
(* Properties. *)

(* No role is written before every file of the run has been downloaded and
   parsed: a file that is missing or broken stops the run while the database
   is untouched. *)
AllBeforeAny ==
    written # {} => \A f \in Files : people[f] # Nobody

(* A file's list is the answer to that file's own request, although the
   goroutines share one Request field. *)
OwnAnswer == \A f \in Files : people[f] \in {f, Nobody}

(* While main builds a request, no goroutine of an earlier call will still
   read or overwrite the field: only a call that was answered is followed by
   another one.  Nothing but this keeps the accesses from racing. *)
NoStaleTask ==
    \A c \in Calls :
        pc \in {"prepare", "wait"} /\ c < call => task[c] \notin {"spawned", "bound"}

(* Exit code 0 means that every file was compared and reported. *)
SuccessIsComplete ==
    exitCode = 0 => compared = Files /\ reported = "changes"

(* The list a run worked from stays on disk until its comparison succeeded,
   through every failure and crash. *)
CopyKeptUntilCompared ==
    \A f \in Files : people[f] # Nobody /\ f \notin compared => f \in disk

(* Every run ends, with a server that never answers, too. *)
RunEnds == pc # "off" ~> pc = "off"

(* README.md:354-358: a configuration that cannot be loaded is notified, like
   every other failure, before the program exits with code 1. *)
FailureExitsNotify ==
    [][exitCode # 1 /\ exitCode' = 1 => pc = "notify"]_vars
=============================================================================
