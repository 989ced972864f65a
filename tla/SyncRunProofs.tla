--------------------------- MODULE SyncRunProofs ---------------------------
(***************************************************************************)
(* What holds of every run of SyncRun, for any number of files and runs.   *)
(* The inductive invariant says, for each place main can be in, which      *)
(* goroutines have ended, what has been downloaded, and what has been      *)
(* compared.  Then what holds of a run that shares its directory with any  *)
(* number of other processes, over any number of days (DailyRun): it is a  *)
(* run of SyncRun, and its reports are told and kept.                      *)
(***************************************************************************)
EXTENDS DailyRun, TLAPS

(* Goroutines of earlier calls have ended, those of later ones do not exist:
   only an answer that was received is followed by another call. *)
TasksInv ==
    pc \in {"prepare", "wait", "answer"} =>
        \A c \in Calls : /\ c < call => task[c] = "ended"
                         /\ c > call => task[c] = "none"

(* The request of the call in progress is the one that was sent. *)
RequestInv ==
    /\ pc \in {"prepare", "wait", "answer"} => call \in Calls
    /\ pc = "wait" => request = call
    /\ pc = "wait" /\ task[call] \in {"sent", "offer"} => served[call] = call
    /\ pc = "answer" => task[call] = "ended" /\ served[call] = call

(* Files come one after the other, in both phases. *)
PhasesInv ==
    /\ pc \in {"prepare", "wait", "answer"} =>
          /\ written = {} /\ ReportLogs = {} /\ compared = {}
          /\ \A f \in Files : f < call => people[f] # Nobody
    /\ pc = "compare" =>
          /\ call \in Files
          /\ \A f \in Files : people[f] # Nobody
          /\ compared = {f \in Files : f < call}

(* What is still to be said of a run without an error. *)
EndInv ==
    /\ pc \in {"report", "notify"} /\ ~syncErr => compared = Files
    /\ pc = "notify" /\ ~syncErr => reported = "changes"
    /\ pc # "off" => exitCode = Running

(* The log holds the changes that were answered; a run with one that was not
   has failed. *)
LogsInv ==
    pc # "off" =>
        /\ \A f \in Files : f \in ReportLogs <=> <<f, "answered">> \in written
        /\ (\E f \in Files : <<f, "lost">> \in written) => syncErr

RunInv ==
    /\ TypeOK /\ TasksInv /\ RequestInv /\ PhasesInv /\ EndInv /\ LogsInv
    /\ AllBeforeAny /\ OwnAnswer /\ SuccessIsComplete /\ CopyKeptUntilCompared

-----------------------------------------------------------------------------
LEMMA InitInv == Init => RunInv
<1> SUFFICES ASSUME Init PROVE RunInv
  OBVIOUS
<1> USE ConstantsAssumption DEF Init
<1>1. TypeOK
  <2>1. call \in 0 .. NFiles + 1 /\ request \in Calls
    BY DEF Calls
  <2>2. task \in [Calls -> Task] /\ served \in [Calls -> Calls \cup {Nobody}]
    BY DEF Task
  <2>3. people \in [Files -> Calls \cup {Nobody}]
    OBVIOUS
  <2> QED BY <2>1, <2>2, <2>3 DEF TypeOK, Running
<1>2. TasksInv /\ RequestInv /\ PhasesInv /\ EndInv /\ LogsInv
  BY DEF TasksInv, RequestInv, PhasesInv, EndInv, LogsInv
<1>3. AllBeforeAny /\ OwnAnswer /\ SuccessIsComplete /\ CopyKeptUntilCompared
  BY DEF AllBeforeAny, OwnAnswer, SuccessIsComplete, CopyKeptUntilCompared, Running
<1> QED BY <1>1, <1>2, <1>3 DEF RunInv

LEMMA ChangesType ==
    ASSUME TypeOK, NEW f \in Files, NEW answers \in SUBSET {"answered", "lost"},
           Changes(f, answers)
    PROVE  written' \subseteq Files \X {"answered", "lost"} /\ ReportLogs' \subseteq Files
  BY DEF TypeOK, Changes

(* Every action keeps the types. *)
LEMMA StepType == ASSUME RunInv, Next PROVE TypeOK'
<1> USE ConstantsAssumption DEF Calls, Files, Nobody, Running, Task
<1>1. TypeOK /\ RequestInv /\ PhasesInv
  BY DEF RunInv
<1>2. CASE Start
  BY <1>1, <1>2 DEF TypeOK, Start, FirstStep, Configs
<1>3. CASE Do
  BY <1>1, <1>3 DEF TypeOK, RequestInv, Do, resultVars, endVars
<1>4. ASSUME NEW c \in Calls, Goroutine(c) PROVE TypeOK'
  <2>1. task' \in [Calls -> Task]
    BY <1>1, <1>4 DEF TypeOK, Goroutine, Bind, Send, Respond, TaskError, TaskMoves
  <2>2. served' \in [Calls -> Calls \cup {Nobody}]
    BY <1>1, <1>4 DEF TypeOK, Goroutine, Bind, Send, Respond, TaskError
  <2>3. UNCHANGED <<pc, call, request, resultVars, syncErr, endVars, config, runs>>
    BY <1>4 DEF Goroutine, Bind, Send, Respond, TaskError
  <2> QED BY <1>1, <2>1, <2>2, <2>3 DEF TypeOK, resultVars, endVars
<1>5. CASE Receive
  BY <1>1, <1>5 DEF TypeOK, Receive, TaskMoves, resultVars, endVars
<1>6. CASE PrepareFails \/ Deadline \/ AnswerRefused
  BY <1>1, <1>6 DEF TypeOK, PrepareFails, Deadline, AnswerRefused, Fail, httpVars,
     resultVars, endVars
<1>13. CASE TokenAccepted
  BY <1>1, <1>13 DEF TypeOK, TokenAccepted, httpVars, resultVars, endVars
<1>7. CASE FileUnparsable
  BY <1>1, <1>7 DEF TypeOK, FileUnparsable, Fail, httpVars, endVars
<1>8. CASE FileParsed
  BY <1>1, <1>8 DEF TypeOK, FileParsed, httpVars, endVars
<1>9. ASSUME NEW f \in Files, CompareSucceeds(f) \/ CompareFails(f) PROVE TypeOK'
  <2>1. CASE CompareSucceeds(f)
    <3>1. call' \in 0 .. NFiles + 1 /\ pc' \in {"compare", "report"}
      BY <2>1 DEF CompareSucceeds
    <3>2. compared' \subseteq Files /\ disk' \subseteq Files
      BY <1>1, <2>1 DEF CompareSucceeds, TypeOK
    <3>3. written' \subseteq Files \X {"answered", "lost"} /\ ReportLogs' \subseteq Files
      BY <1>1, <2>1, ChangesType DEF CompareSucceeds
    <3> QED BY <1>1, <2>1, <3>1, <3>2, <3>3 DEF TypeOK, CompareSucceeds, httpVars, endVars
  <2>2. CASE CompareFails(f)
    <3>1. written' \subseteq Files \X {"answered", "lost"} /\ ReportLogs' \subseteq Files
      BY <1>1, <2>2, ChangesType DEF CompareFails
    <3> QED BY <1>1, <2>2, <3>1 DEF TypeOK, CompareFails, Fail, httpVars, endVars
  <2> QED BY <1>9, <2>1, <2>2
<1>10. ASSUME NEW ok \in BOOLEAN, Report(ok) \/ Finish(ok) PROVE TypeOK'
  BY <1>1, <1>10 DEF TypeOK, Report, Finish, Notify, httpVars, resultVars
<1>11. CASE Crash
  <2>1. written' \subseteq Files \X {"answered", "lost"} /\ ReportLogs' \subseteq Files
    <3>1. CASE UNCHANGED <<written, ReportLogs>>
      BY <1>1, <3>1 DEF TypeOK
    <3>2. ASSUME pc = "compare", NEW answers \in SUBSET {"answered", "lost"},
                 Changes(call, answers)
          PROVE  written' \subseteq Files \X {"answered", "lost"} /\ ReportLogs' \subseteq Files
      BY <1>1, <3>2, ChangesType DEF PhasesInv
    <3> QED BY <1>11, <3>1, <3>2 DEF Crash
  <2> QED BY <1>1, <1>11, <2>1 DEF TypeOK, Crash, endVars
<1>12. ASSUME NEW c \in Configs, EditConfig(c)
       PROVE TypeOK'
  BY <1>1, <1>12 DEF TypeOK, EditConfig, httpVars, resultVars, endVars
<1> QED
  BY <1>2, <1>3, <1>4, <1>5, <1>6, <1>7, <1>8, <1>9, <1>10, <1>11, <1>12,
     <1>13
     DEF Next, Work, GzipPanics

(* The goroutine of a call has ended when the next one is made. *)
LEMMA StepTasks == ASSUME RunInv, Next PROVE TasksInv'
<1> USE ConstantsAssumption DEF Calls, Files, Nobody, Running, Task
<1>1. TypeOK /\ TasksInv /\ RequestInv
  BY DEF RunInv
<1>2. CASE Start
  BY <1>1, <1>2 DEF TypeOK, TasksInv, RequestInv, Start, FirstStep, Configs
<1>3. CASE Do
  BY <1>1, <1>3 DEF TypeOK, TasksInv, RequestInv, Do, resultVars, endVars
<1>4. CASE \E c \in Calls : Goroutine(c)
  BY <1>1, <1>4 DEF TypeOK, TasksInv, RequestInv, Goroutine, Bind, Send,
     Respond, TaskError, TaskMoves, resultVars, endVars
<1>5. CASE Receive
  BY <1>1, <1>5 DEF TypeOK, TasksInv, RequestInv, Receive, TaskMoves,
     resultVars, endVars
<1>6. CASE PrepareFails \/ Deadline \/ AnswerRefused \/ FileUnparsable
  BY <1>1, <1>6 DEF TypeOK, TasksInv, RequestInv, PrepareFails, Deadline,
     AnswerRefused, FileUnparsable, Fail, httpVars, resultVars, endVars
<1>7. CASE TokenAccepted
  BY <1>1, <1>7 DEF TypeOK, TasksInv, RequestInv, TokenAccepted, httpVars,
     resultVars, endVars
<1>8. CASE FileParsed
  BY <1>1, <1>8 DEF TypeOK, TasksInv, RequestInv, FileParsed, httpVars, endVars
<1>9. CASE \E f \in Files : CompareSucceeds(f)
  BY <1>1, <1>9 DEF TypeOK, TasksInv, RequestInv, CompareSucceeds, httpVars,
     endVars
<1>10. CASE \E f \in Files : CompareFails(f)
  BY <1>1, <1>10 DEF TypeOK, TasksInv, RequestInv, CompareFails, Fail,
     httpVars, endVars
<1>11. CASE \E ok \in BOOLEAN : Report(ok)
  BY <1>1, <1>11 DEF TypeOK, TasksInv, RequestInv, Report, httpVars, resultVars
<1>12. CASE \E sent \in BOOLEAN : Finish(sent)
  BY <1>1, <1>12 DEF TypeOK, TasksInv, RequestInv, Finish, Notify, httpVars, resultVars
<1>13. CASE Crash
  BY <1>1, <1>13 DEF TypeOK, TasksInv, RequestInv, Crash, endVars
<1>14. CASE \E c \in Configs : EditConfig(c)
  BY <1>1, <1>14 DEF TypeOK, TasksInv, RequestInv, EditConfig, httpVars,
     resultVars, endVars
<1> QED
  BY <1>2, <1>3, <1>4, <1>5, <1>6, <1>7, <1>8, <1>9, <1>10, <1>11, <1>12,
     <1>13, <1>14 DEF Next, Work, GzipPanics

(* A call gets the answer to its own request. *)
LEMMA StepRequest == ASSUME RunInv, Next PROVE RequestInv'
<1> USE ConstantsAssumption DEF Calls, Files, Nobody, Running, Task
<1>1. TypeOK /\ TasksInv /\ RequestInv
  BY DEF RunInv
<1>2. CASE Start
  BY <1>1, <1>2 DEF TypeOK, TasksInv, RequestInv, Start, FirstStep, Configs
<1>3. CASE Do
  BY <1>1, <1>3 DEF TypeOK, TasksInv, RequestInv, Do, resultVars, endVars
<1>4. CASE \E c \in Calls : Goroutine(c)
  BY <1>1, <1>4 DEF TypeOK, TasksInv, RequestInv, Goroutine, Bind, Send,
     Respond, TaskError, TaskMoves, resultVars, endVars
<1>5. CASE Receive
  BY <1>1, <1>5 DEF TypeOK, TasksInv, RequestInv, Receive, TaskMoves,
     resultVars, endVars
<1>6. CASE PrepareFails \/ Deadline \/ AnswerRefused \/ FileUnparsable
  BY <1>1, <1>6 DEF TypeOK, TasksInv, RequestInv, PrepareFails, Deadline,
     AnswerRefused, FileUnparsable, Fail, httpVars, resultVars, endVars
<1>7. CASE TokenAccepted
  BY <1>1, <1>7 DEF TypeOK, TasksInv, RequestInv, TokenAccepted, httpVars,
     resultVars, endVars
<1>8. CASE FileParsed
  BY <1>1, <1>8 DEF TypeOK, TasksInv, RequestInv, FileParsed, httpVars, endVars
<1>9. CASE \E f \in Files : CompareSucceeds(f)
  BY <1>1, <1>9 DEF TypeOK, TasksInv, RequestInv, CompareSucceeds, httpVars,
     endVars
<1>10. CASE \E f \in Files : CompareFails(f)
  BY <1>1, <1>10 DEF TypeOK, TasksInv, RequestInv, CompareFails, Fail,
     httpVars, endVars
<1>11. CASE \E ok \in BOOLEAN : Report(ok)
  BY <1>1, <1>11 DEF TypeOK, TasksInv, RequestInv, Report, httpVars, resultVars
<1>12. CASE \E sent \in BOOLEAN : Finish(sent)
  BY <1>1, <1>12 DEF TypeOK, TasksInv, RequestInv, Finish, Notify, httpVars, resultVars
<1>13. CASE Crash
  BY <1>1, <1>13 DEF TypeOK, TasksInv, RequestInv, Crash, endVars
<1>14. CASE \E c \in Configs : EditConfig(c)
  BY <1>1, <1>14 DEF TypeOK, TasksInv, RequestInv, EditConfig, httpVars,
     resultVars, endVars
<1> QED
  BY <1>2, <1>3, <1>4, <1>5, <1>6, <1>7, <1>8, <1>9, <1>10, <1>11, <1>12,
     <1>13, <1>14 DEF Next, Work, GzipPanics

(* Nothing is compared before everything is there. *)
LEMMA StepPhases == ASSUME RunInv, Next PROVE PhasesInv'
<1> USE ConstantsAssumption DEF Calls, Files, Nobody, Running, Task
<1>1. TypeOK /\ RequestInv /\ PhasesInv
  BY DEF RunInv
<1>2. CASE Start
  BY <1>1, <1>2 DEF TypeOK, RequestInv, PhasesInv, Start, FirstStep, Configs
<1>3. CASE Do
  BY <1>1, <1>3 DEF TypeOK, RequestInv, PhasesInv, Do, resultVars, endVars
<1>4. CASE \E c \in Calls : Goroutine(c)
  <2>1. UNCHANGED <<pc, call, people, written, ReportLogs, compared>>
    BY <1>4 DEF Goroutine, Bind, Send, Respond, TaskError, resultVars
  <2> QED BY <1>1, <2>1 DEF PhasesInv
<1>5. CASE Receive
  BY <1>1, <1>5 DEF TypeOK, RequestInv, PhasesInv, Receive, TaskMoves,
     resultVars, endVars
<1>6. CASE PrepareFails \/ Deadline \/ AnswerRefused \/ FileUnparsable
  BY <1>1, <1>6 DEF TypeOK, RequestInv, PhasesInv, PrepareFails, Deadline,
     AnswerRefused, FileUnparsable, Fail, httpVars, resultVars, endVars
<1>7. CASE TokenAccepted
  BY <1>1, <1>7 DEF TypeOK, RequestInv, PhasesInv, TokenAccepted, httpVars,
     resultVars, endVars
<1>8. CASE FileParsed
  <2>1. call \in Files /\ pc = "answer"
        /\ written' = {} /\ ReportLogs' = {} /\ compared' = {}
    BY <1>1, <1>8 DEF PhasesInv, FileParsed
  <2>2. people'[call] # Nobody /\ \A f \in Files \ {call} : people'[f] = people[f]
    BY <1>1, <1>8, <2>1 DEF TypeOK, RequestInv, FileParsed
  <2>3. \A f \in Files : f < call + 1 => people'[f] # Nobody
    BY <1>1, <2>1, <2>2 DEF PhasesInv
  <2>4. CASE call < NFiles
    <3>1. pc' = "prepare" /\ call' = call + 1
      BY <1>8, <2>4 DEF FileParsed
    <3> QED BY <2>1, <2>3, <3>1 DEF PhasesInv
  <2>5. CASE ~(call < NFiles)
    <3>1. pc' = "compare" /\ call' = 1
      BY <1>8, <2>5 DEF FileParsed
    <3>2. \A f \in Files : people'[f] # Nobody
      BY <2>1, <2>3, <2>5
    <3>3. compared' = {f \in Files : f < call'}
      BY <2>1, <3>1
    <3> QED BY <3>1, <3>2, <3>3 DEF PhasesInv
  <2> QED BY <2>4, <2>5
<1>9. CASE \E f \in Files : CompareSucceeds(f)
  BY <1>1, <1>9 DEF TypeOK, RequestInv, PhasesInv, CompareSucceeds, httpVars,
     endVars
<1>10. CASE \E f \in Files : CompareFails(f)
  BY <1>1, <1>10 DEF TypeOK, RequestInv, PhasesInv, CompareFails, Fail,
     httpVars, endVars
<1>11. CASE \E ok \in BOOLEAN : Report(ok)
  BY <1>1, <1>11 DEF TypeOK, RequestInv, PhasesInv, Report, httpVars,
     resultVars
<1>12. CASE \E sent \in BOOLEAN : Finish(sent)
  BY <1>1, <1>12 DEF TypeOK, RequestInv, PhasesInv, Finish, Notify, httpVars,
     resultVars
<1>13. CASE Crash
  BY <1>1, <1>13 DEF TypeOK, RequestInv, PhasesInv, Crash, endVars
<1>14. CASE \E c \in Configs : EditConfig(c)
  BY <1>1, <1>14 DEF TypeOK, RequestInv, PhasesInv, EditConfig, httpVars,
     resultVars, endVars
<1> QED
  BY <1>2, <1>3, <1>4, <1>5, <1>6, <1>7, <1>8, <1>9, <1>10, <1>11, <1>12,
     <1>13, <1>14 DEF Next, Work, GzipPanics

(* A run without an error has compared every file. *)
LEMMA StepEnd == ASSUME RunInv, Next PROVE EndInv'
<1> USE ConstantsAssumption DEF Calls, Files, Nobody, Running, Task
<1>1. TypeOK /\ PhasesInv /\ EndInv
  BY DEF RunInv
<1>2. CASE Start
  BY <1>1, <1>2 DEF TypeOK, PhasesInv, EndInv, Start, FirstStep, Configs
<1>3. CASE Do
  BY <1>1, <1>3 DEF TypeOK, PhasesInv, EndInv, Do, resultVars, endVars
<1>4. CASE \E c \in Calls : Goroutine(c)
  BY <1>1, <1>4 DEF TypeOK, PhasesInv, EndInv, Goroutine, Bind, Send, Respond,
     TaskError, TaskMoves, resultVars, endVars
<1>5. CASE Receive
  BY <1>1, <1>5 DEF TypeOK, PhasesInv, EndInv, Receive, TaskMoves, resultVars,
     endVars
<1>6. CASE PrepareFails \/ Deadline \/ AnswerRefused \/ FileUnparsable
  BY <1>1, <1>6 DEF TypeOK, PhasesInv, EndInv, PrepareFails, Deadline,
     AnswerRefused, FileUnparsable, Fail, httpVars, resultVars, endVars
<1>7. CASE TokenAccepted
  BY <1>1, <1>7 DEF TypeOK, PhasesInv, EndInv, TokenAccepted, httpVars,
     resultVars, endVars
<1>8. CASE FileParsed
  BY <1>1, <1>8 DEF TypeOK, PhasesInv, EndInv, FileParsed, httpVars, endVars
<1>9. CASE \E f \in Files : CompareSucceeds(f)
  BY <1>1, <1>9 DEF TypeOK, PhasesInv, EndInv, CompareSucceeds, httpVars,
     endVars
<1>10. CASE \E f \in Files : CompareFails(f)
  BY <1>1, <1>10 DEF TypeOK, PhasesInv, EndInv, CompareFails, Fail, httpVars,
     endVars
<1>11. CASE \E ok \in BOOLEAN : Report(ok)
  BY <1>1, <1>11 DEF TypeOK, PhasesInv, EndInv, Report, httpVars, resultVars
<1>12. CASE \E sent \in BOOLEAN : Finish(sent)
  BY <1>1, <1>12 DEF TypeOK, PhasesInv, EndInv, Finish, Notify, httpVars, resultVars
<1>13. CASE Crash
  BY <1>1, <1>13 DEF TypeOK, PhasesInv, EndInv, Crash, endVars
<1>14. CASE \E c \in Configs : EditConfig(c)
  BY <1>1, <1>14 DEF TypeOK, PhasesInv, EndInv, EditConfig, httpVars,
     resultVars, endVars
<1> QED
  BY <1>2, <1>3, <1>4, <1>5, <1>6, <1>7, <1>8, <1>9, <1>10, <1>11, <1>12,
     <1>13, <1>14 DEF Next, Work, GzipPanics

(* What is logged is what was answered; what was lost ends the run. *)
LEMMA StepLogs == ASSUME RunInv, Next PROVE LogsInv'
<1>1. TypeOK /\ LogsInv
  BY DEF RunInv
<1>2. CASE Start
  BY <1>2 DEF Start, LogsInv
<1>3. CASE \/ Do \/ Receive \/ TokenAccepted \/ FileParsed
           \/ \E c \in Calls : Goroutine(c)
           \/ \E c \in Configs : EditConfig(c)
  <2>1. UNCHANGED <<written, ReportLogs, syncErr>> /\ (pc = "off" => pc' = "off")
    BY <1>3 DEF Do, Receive, TokenAccepted, FileParsed, Goroutine, Bind, Send, Respond,
       TaskError, EditConfig, resultVars
  <2> QED BY <1>1, <2>1 DEF LogsInv
<1>4. CASE PrepareFails \/ Deadline \/ AnswerRefused \/ FileUnparsable
  <2>1. UNCHANGED <<written, ReportLogs>> /\ syncErr' /\ pc # "off"
    BY <1>4 DEF PrepareFails, Deadline, AnswerRefused, FileUnparsable, Fail, resultVars
  <2> QED BY <1>1, <2>1 DEF LogsInv
<1>5. ASSUME NEW f \in Files, CompareSucceeds(f)
      PROVE  LogsInv'
  <2>1. PICK answers \in {{}, {"answered"}} : Changes(f, answers)
    BY <1>5 DEF CompareSucceeds
  <2>2. pc # "off" /\ UNCHANGED syncErr
    BY <1>5 DEF CompareSucceeds
  <2> QED BY <1>1, <2>1, <2>2 DEF LogsInv, Changes
<1>6. ASSUME NEW f \in Files, CompareFails(f)
      PROVE  LogsInv'
  <2>1. PICK answers \in SUBSET {"answered", "lost"} : Changes(f, answers)
    BY <1>6 DEF CompareFails
  <2>2. pc # "off" /\ syncErr'
    BY <1>6 DEF CompareFails, Fail
  <2> QED BY <1>1, <2>1, <2>2 DEF LogsInv, Changes
<1>7. ASSUME NEW ok \in BOOLEAN, Report(ok)
      PROVE  LogsInv'
  <2>1. UNCHANGED <<written, ReportLogs>> /\ pc # "off" /\ (syncErr => syncErr')
    BY <1>1, <1>7 DEF Report, resultVars, TypeOK
  <2> QED BY <1>1, <2>1 DEF LogsInv
<1>8. CASE Crash \/ \E sent \in BOOLEAN : Finish(sent)
  BY <1>8 DEF Crash, Finish, LogsInv
<1> QED BY <1>2, <1>3, <1>4, <1>5, <1>6, <1>7, <1>8 DEF Next, Work, GzipPanics

(* The properties themselves. *)
LEMMA StepProperties ==
    ASSUME RunInv, Next
    PROVE  (AllBeforeAny /\ OwnAnswer /\ SuccessIsComplete /\ CopyKeptUntilCompared)'
<1> USE ConstantsAssumption DEF Calls, Files, Nobody, Running, Task
<1>1. TypeOK /\ RequestInv /\ PhasesInv /\ EndInv /\ AllBeforeAny /\ OwnAnswer
      /\ SuccessIsComplete /\ CopyKeptUntilCompared
  BY DEF RunInv
<1>2. CASE Start
  BY <1>1, <1>2 DEF TypeOK, RequestInv, PhasesInv, EndInv, AllBeforeAny,
     OwnAnswer, SuccessIsComplete, CopyKeptUntilCompared, Start, FirstStep
<1>3. CASE Do
  BY <1>1, <1>3 DEF TypeOK, RequestInv, PhasesInv, EndInv, AllBeforeAny,
     OwnAnswer, SuccessIsComplete, CopyKeptUntilCompared, Do, resultVars,
     endVars
<1>4. CASE \E c \in Calls : Goroutine(c)
  BY <1>1, <1>4 DEF TypeOK, RequestInv, PhasesInv, EndInv, AllBeforeAny,
     OwnAnswer, SuccessIsComplete, CopyKeptUntilCompared, Goroutine, Bind,
     Send, Respond, TaskError, TaskMoves, resultVars, endVars
<1>5. CASE Receive
  BY <1>1, <1>5 DEF TypeOK, RequestInv, PhasesInv, EndInv, AllBeforeAny,
     OwnAnswer, SuccessIsComplete, CopyKeptUntilCompared, Receive, TaskMoves,
     resultVars, endVars
<1>6. CASE PrepareFails \/ Deadline \/ AnswerRefused \/ FileUnparsable
  BY <1>1, <1>6 DEF TypeOK, RequestInv, PhasesInv, EndInv, AllBeforeAny,
     OwnAnswer, SuccessIsComplete, CopyKeptUntilCompared, PrepareFails,
     Deadline, AnswerRefused, FileUnparsable, Fail, httpVars, resultVars,
     endVars
<1>7. CASE TokenAccepted
  BY <1>1, <1>7 DEF TypeOK, RequestInv, PhasesInv, EndInv, AllBeforeAny,
     OwnAnswer, SuccessIsComplete, CopyKeptUntilCompared, TokenAccepted,
     httpVars, resultVars, endVars
<1>8. CASE FileParsed
  BY <1>1, <1>8 DEF TypeOK, RequestInv, PhasesInv, EndInv, AllBeforeAny,
     OwnAnswer, SuccessIsComplete, CopyKeptUntilCompared, FileParsed, httpVars,
     endVars
<1>9. CASE \E f \in Files : CompareSucceeds(f)
  BY <1>1, <1>9 DEF TypeOK, RequestInv, PhasesInv, EndInv, AllBeforeAny,
     OwnAnswer, SuccessIsComplete, CopyKeptUntilCompared, CompareSucceeds,
     httpVars, endVars
<1>10. CASE \E f \in Files : CompareFails(f)
  BY <1>1, <1>10 DEF TypeOK, RequestInv, PhasesInv, EndInv, AllBeforeAny,
     OwnAnswer, SuccessIsComplete, CopyKeptUntilCompared, CompareFails, Fail,
     httpVars, endVars
<1>11. CASE \E ok \in BOOLEAN : Report(ok)
  BY <1>1, <1>11 DEF TypeOK, RequestInv, PhasesInv, EndInv, AllBeforeAny,
     OwnAnswer, SuccessIsComplete, CopyKeptUntilCompared, Report, httpVars,
     resultVars
<1>12. CASE \E sent \in BOOLEAN : Finish(sent)
  BY <1>1, <1>12 DEF TypeOK, RequestInv, PhasesInv, EndInv, AllBeforeAny,
     OwnAnswer, SuccessIsComplete, CopyKeptUntilCompared, Finish, Notify, httpVars,
     resultVars
<1>13. CASE Crash
  BY <1>1, <1>13 DEF TypeOK, RequestInv, PhasesInv, EndInv, AllBeforeAny,
     OwnAnswer, SuccessIsComplete, CopyKeptUntilCompared, Crash, endVars
<1>14. CASE \E c \in Configs : EditConfig(c)
  BY <1>1, <1>14 DEF TypeOK, RequestInv, PhasesInv, EndInv, AllBeforeAny,
     OwnAnswer, SuccessIsComplete, CopyKeptUntilCompared, EditConfig, httpVars,
     resultVars, endVars
<1> QED
  BY <1>2, <1>3, <1>4, <1>5, <1>6, <1>7, <1>8, <1>9, <1>10, <1>11, <1>12,
     <1>13, <1>14 DEF Next, Work, GzipPanics

-----------------------------------------------------------------------------
LEMMA StutterInv == ASSUME RunInv, UNCHANGED vars PROVE RunInv'
<1>1. (TypeOK /\ TasksInv /\ RequestInv)'
  BY DEF vars, RunInv, TypeOK, TasksInv, RequestInv
<1>2. (PhasesInv /\ EndInv /\ LogsInv)'
  BY DEF vars, RunInv, PhasesInv, EndInv, LogsInv
<1>3. (AllBeforeAny /\ OwnAnswer /\ SuccessIsComplete /\ CopyKeptUntilCompared)'
  BY DEF vars, RunInv, AllBeforeAny, OwnAnswer, SuccessIsComplete,
     CopyKeptUntilCompared
<1> QED BY <1>1, <1>2, <1>3 DEF RunInv

LEMMA StepInv == ASSUME RunInv, [Next]_vars PROVE RunInv'
<1>1. CASE Next
  BY <1>1, StepType, StepTasks, StepRequest, StepPhases, StepEnd, StepLogs,
     StepProperties
     DEF RunInv
<1>2. CASE UNCHANGED vars
  BY <1>2, StutterInv
<1> QED BY <1>1, <1>2

(* The lists a run still needs the client for cannot be touched by a goroutine
   that an earlier call has left behind. *)
LEMMA InvNoStaleTask == RunInv => NoStaleTask
  BY DEF RunInv, TypeOK, TasksInv, NoStaleTask, Calls

(* The invariant holds of every run of the program, with any number of files,
   whatever the server, the disk and the configuration do. *)
THEOREM RunInvHolds == Spec => []RunInv
<1>1. Init => RunInv
  BY InitInv
<1>2. RunInv /\ [Next]_vars => RunInv'
  BY StepInv
<1> QED BY <1>1, <1>2, PTL DEF Spec

(* No role is written before every file has been downloaded and parsed. *)
THEOREM AllBeforeAnyHolds == Spec => []AllBeforeAny
<1>1. RunInv => AllBeforeAny
  BY DEF RunInv
<1> QED BY <1>1, RunInvHolds, PTL

(* A file's list comes from that file's own request. *)
THEOREM OwnAnswerHolds == Spec => []OwnAnswer
<1>1. RunInv => OwnAnswer
  BY DEF RunInv
<1> QED BY <1>1, RunInvHolds, PTL

(* No goroutine of an earlier call still uses the Request field while main
   prepares or waits for a later one. *)
THEOREM NoStaleTaskHolds == Spec => []NoStaleTask
<1> QED BY InvNoStaleTask, RunInvHolds, PTL

(* Exit code 0 means that every file was compared and reported. *)
THEOREM SuccessIsCompleteHolds == Spec => []SuccessIsComplete
<1>1. RunInv => SuccessIsComplete
  BY DEF RunInv
<1> QED BY <1>1, RunInvHolds, PTL

(* The local copy of a list outlives every failure and crash before the list
   has been compared. *)
THEOREM CopyKeptUntilComparedHolds == Spec => []CopyKeptUntilCompared
<1>1. RunInv => CopyKeptUntilCompared
  BY DEF RunInv
<1> QED BY <1>1, RunInvHolds, PTL

-----------------------------------------------------------------------------
(* The report takes nothing from SyncRun: each step of the composition is a
   step of the run, or none. *)
LEMMA DailyStepIsRunStep == [DailyNext]_dailyVars => [Next]_vars
<1> SUFFICES ASSUME [DailyNext]_dailyVars PROVE [Next]_vars
  OBVIOUS
<1>1. CASE Working
  BY <1>1 DEF Working, Next
<1>2. CASE ReportStep
  <2>1. UNCHANGED vars \/ Report(FALSE) \/ Report(TRUE)
    BY <1>2 DEF ReportStep
  <2> QED BY <2>1 DEF Next
<1>3. CASE RunStep
  BY <1>3 DEF RunStep, Next
<1>4. CASE RunDies
  BY <1>4 DEF RunDies, Next
<1>5. CASE OtherStep
  BY <1>5 DEF OtherStep
<1>6. CASE UNCHANGED dailyVars
  BY <1>6 DEF dailyVars
<1> QED BY <1>1, <1>2, <1>3, <1>4, <1>5, <1>6 DEF DailyNext, DailyMain

(* A daily run implements the run of SyncRun, so that all that is proved of
   the latter holds of the former. *)
THEOREM DailyRunIsARun == DailySpec => Spec
<1>1. DailyInit => Init
  BY DEF DailyInit
<1> QED BY <1>1, DailyStepIsRunStep, PTL DEF DailySpec, Spec

(* The safety of the run, next to other processes. *)
THEOREM DailyRunInv ==
    DailySpec => [](AllBeforeAny /\ OwnAnswer /\ NoStaleTask
                    /\ SuccessIsComplete /\ CopyKeptUntilCompared)
<1> QED
  BY DailyRunIsARun, AllBeforeAnyHolds, OwnAnswerHolds, NoStaleTaskHolds,
     SuccessIsCompleteHolds, CopyKeptUntilComparedHolds, PTL

-----------------------------------------------------------------------------
(* The directory.  A run never lists its own report, takes its name from a
   clock that only goes on, and knows all that there is while it is alone. *)
ReportInv ==
    /\ ReportTypeOK
    /\ \A p \in Procs :
          /\ fileName[p] <= today
          /\ fileName[p] \notin files[p] /\ kept[p] \cap files[p] = {}
          /\ step[p] # "clean" => files[p] = {} /\ kept[p] = {}
          /\ alone[p] /\ step[p] \in {"list", "clean"} => fileName[p] \in Present
          /\ alone[p] /\ step[p] = "clean" =>
                Present = {fileName[p]} \cup kept[p] \cup files[p]

(* A step of any process in GenerateReport, or of the clock. *)
ReportNext ==
    \/ Midnight
    \/ \E p \in Procs :
          \/ Begin(p) \/ \E story \in Stories : Write(p, story)
          \/ Cleans(p) \/ End(p) \/ CutShort(p)

LEMMA ReportInvInit == ReportInit => ReportInv
  BY ReportAssumption DEF ReportInit, ReportInv, ReportTypeOK, Present, Days, FileNames

LEMMA ReportInvStep == ASSUME ReportInv, [ReportNext]_reportVars PROVE ReportInv'
<1> USE ReportAssumption DEF Days, FileNames, Present
<1>1. CASE Midnight
  BY <1>1 DEF ReportInv, ReportTypeOK, Midnight
<1>2. ASSUME NEW p \in Procs, Begin(p) PROVE ReportInv'
  BY <1>2 DEF ReportInv, ReportTypeOK, Begin
<1>3. ASSUME NEW p \in Procs, NEW story \in Stories, Write(p, story) PROVE ReportInv'
  <2>1. /\ step[p] = "write" /\ step' = [step EXCEPT ![p] = "list"]
        /\ directory' = [directory EXCEPT ![fileName[p]] = story]
        /\ alone' = [q \in Procs |-> alone[q] /\ (q = p \/ step[q] = "off")]
        /\ UNCHANGED <<today, fileName, files, kept>>
    BY <1>3 DEF Write, Disturbs
  <2>2. fileName[p] \in FileNames /\ story \notin {NoFile}
    BY DEF ReportInv, ReportTypeOK
  <2>3. ReportTypeOK'
    <3>1. alone' \in [Procs -> BOOLEAN]
      BY <2>1, Zenon
    <3>2. step' \in [Procs -> {"off", "write", "list", "clean"}]
      BY <2>1 DEF ReportInv, ReportTypeOK
    <3>3. directory' \in [FileNames -> Stories \cup {NoFile, Torn}]
      BY <2>1, <2>2 DEF ReportInv, ReportTypeOK
    <3> QED BY <2>1, <3>1, <3>2, <3>3 DEF ReportInv, ReportTypeOK
  <2>4. fileName[p] \in Present'
    BY <2>1, <2>2 DEF ReportInv, ReportTypeOK
  <2>5. ASSUME NEW q \in Procs, alone'[q], step'[q] \in {"list", "clean"}
        PROVE  q = p
    BY <2>1, <2>5 DEF ReportInv, ReportTypeOK
  <2>6. step'[p] = "list"
    BY <2>1 DEF ReportInv, ReportTypeOK
  <2>7. ASSUME NEW q \in Procs, step'[q] # "clean" PROVE step[q] # "clean"
    BY <2>1, <2>7 DEF ReportInv, ReportTypeOK
  <2> HIDE DEF Present
  <2> QED BY <2>1, <2>3, <2>4, <2>5, <2>6, <2>7 DEF ReportInv
<1>4. ASSUME NEW p \in Procs, Glob(p) PROVE ReportInv'
  BY <1>4 DEF ReportInv, ReportTypeOK, Glob
<1>5. ASSUME NEW p \in Procs, NEW n \in FileNames, NEW ok \in BOOLEAN, Remove(p, n, ok)
      PROVE  ReportInv'
  <2>1. ReportTypeOK'
    <3>1. directory' \in [FileNames -> Stories \cup {NoFile, Torn}]
      BY <1>5 DEF ReportInv, ReportTypeOK, Remove
    <3>2. files' \in [Procs -> SUBSET FileNames]
      BY <1>5 DEF ReportInv, ReportTypeOK, Remove
    <3>3. kept' = kept \/ kept' = [kept EXCEPT ![p] = @ \cup {n}]
      BY <1>5 DEF Remove
    <3>4. kept' \in [Procs -> SUBSET FileNames]
      BY <3>3 DEF ReportInv, ReportTypeOK
    <3>5. alone' = alone \/ Disturbs(p)
      BY <1>5 DEF Remove
    <3>6. alone' \in [Procs -> BOOLEAN]
      BY <3>5, Zenon DEF ReportInv, ReportTypeOK, Disturbs
    <3> QED BY <1>5, <3>1, <3>2, <3>4, <3>6 DEF ReportInv, ReportTypeOK, Remove
  <2>2. n # fileName[p] /\ step[p] = "clean" /\ UNCHANGED <<today, step, fileName>>
    BY <1>5 DEF ReportInv, Remove
  <2>3. ASSUME NEW q \in Procs
        PROVE  /\ fileName'[q] <= today'
               /\ fileName'[q] \notin files'[q] /\ kept'[q] \cap files'[q] = {}
               /\ step'[q] # "clean" => files'[q] = {} /\ kept'[q] = {}
    BY <1>5, <2>2 DEF ReportInv, ReportTypeOK, Remove
  <2>4. ASSUME NEW q \in Procs \ {p}, alone'[q], step'[q] \in {"list", "clean"}
        PROVE  UNCHANGED <<directory, alone>> /\ kept'[q] = kept[q] /\ files'[q] = files[q]
    <3>1. step[q] # "off"
      BY <2>2, <2>4
    <3>2. ~ok
      <4>1. ok => Disturbs(p)
        BY <1>5 DEF Remove
      <4>2. Disturbs(p) => ~alone'[q]
        BY <3>1, <2>4 DEF Disturbs
      <4> QED BY <4>1, <4>2, <2>4
    <3>3. UNCHANGED <<directory, alone>> /\ kept' = [kept EXCEPT ![p] = @ \cup {n}]
          /\ files' = [files EXCEPT ![p] = @ \ {n}]
      BY <1>5, <3>2 DEF Remove
    <3> QED BY <3>3 DEF ReportInv, ReportTypeOK
  <2>5. ASSUME NEW q \in Procs \ {p}, alone'[q]
        PROVE  /\ step'[q] \in {"list", "clean"} => fileName'[q] \in Present'
               /\ step'[q] = "clean" => Present' = {fileName'[q]} \cup kept'[q] \cup files'[q]
    BY <2>2, <2>4, <2>5 DEF ReportInv
  <2>6. ASSUME alone'[p]
        PROVE  /\ fileName'[p] \in Present'
               /\ Present' = {fileName'[p]} \cup kept'[p] \cup files'[p]
    <3>1. /\ alone[p] /\ fileName[p] \in Present /\ n \in files[p]
          /\ Present = {fileName[p]} \cup kept[p] \cup files[p]
      BY <1>5, <2>2, <2>6 DEF ReportInv, ReportTypeOK, Remove, Disturbs
    <3>2. files'[p] = files[p] \ {n}
      BY <1>5 DEF ReportInv, ReportTypeOK, Remove
    <3>3. CASE ok
      <4>1. Present' = Present \ {n} /\ kept'[p] = kept[p]
        BY <1>5, <3>3 DEF ReportInv, ReportTypeOK, Remove
      <4>2. n \notin kept[p]
        BY <3>1 DEF ReportInv
      <4> QED BY <2>2, <3>1, <3>2, <4>1, <4>2
    <3>4. CASE ~ok
      <4>1. Present' = Present /\ kept'[p] = kept[p] \cup {n}
        BY <1>5, <3>4 DEF ReportInv, ReportTypeOK, Remove
      <4> QED BY <2>2, <3>1, <3>2, <4>1
    <3> QED BY <3>3, <3>4
  <2> HIDE DEF Present
  <2> QED BY <2>1, <2>2, <2>3, <2>5, <2>6 DEF ReportInv
<1>6. ASSUME NEW p \in Procs, End(p) PROVE ReportInv'
  BY <1>6 DEF ReportInv, ReportTypeOK, End, Leaves
<1>7. ASSUME NEW p \in Procs, CutShort(p) PROVE ReportInv'
  <2>1. ReportTypeOK'
    <3>1. step' \in [Procs -> {"off", "write", "list", "clean"}]
      BY <1>7 DEF ReportInv, ReportTypeOK, CutShort, Leaves
    <3>2. files' \in [Procs -> SUBSET FileNames] /\ kept' \in [Procs -> SUBSET FileNames]
      BY <1>7 DEF ReportInv, ReportTypeOK, CutShort, Leaves
    <3>3. directory' \in [FileNames -> Stories \cup {NoFile, Torn}]
      BY <1>7 DEF ReportInv, ReportTypeOK, CutShort
    <3>4. \/ alone' = [alone EXCEPT ![p] = TRUE]
          \/ alone' = [q \in Procs |-> q = p \/ step[q] = "off"]
      BY <1>7 DEF CutShort
    <3>5. [alone EXCEPT ![p] = TRUE] \in [Procs -> BOOLEAN]
      BY DEF ReportInv, ReportTypeOK
    <3>6. [q \in Procs |-> q = p \/ step[q] = "off"] \in [Procs -> BOOLEAN]
      BY Zenon
    <3>7. alone' \in [Procs -> BOOLEAN]
      BY <3>4, <3>5, <3>6, Zenon
    <3> QED BY <1>7, <3>1, <3>2, <3>3, <3>7 DEF ReportInv, ReportTypeOK, CutShort
  <2>2. /\ UNCHANGED <<today, fileName>>
        /\ step'[p] = "off" /\ files'[p] = {} /\ kept'[p] = {}
        /\ \A q \in Procs \ {p} : step'[q] = step[q] /\ files'[q] = files[q] /\ kept'[q] = kept[q]
    BY <1>7 DEF ReportInv, ReportTypeOK, CutShort, Leaves
  <2>3. ASSUME NEW q \in Procs \ {p}, alone'[q], step[q] # "off"
        PROVE  alone[q] /\ UNCHANGED directory
    BY <1>7, <2>3 DEF ReportInv, ReportTypeOK, CutShort
  <2> HIDE DEF Present
  <2>4. UNCHANGED directory => UNCHANGED Present
    BY DEF Present
  <2> QED BY <2>1, <2>2, <2>3, <2>4 DEF ReportInv
<1>8. CASE UNCHANGED reportVars
  BY <1>8 DEF ReportInv, ReportTypeOK, reportVars
<1> QED BY <1>1, <1>2, <1>3, <1>4, <1>5, <1>6, <1>7, <1>8 DEF ReportNext, Cleans

-----------------------------------------------------------------------------
(* The steps of the composition are steps of the report, or none. *)
LEMMA DailyStepIsReportStep ==
    ASSUME TypeOK, [DailyNext]_dailyVars PROVE [ReportNext]_reportVars
<1> USE SelfAssumption
<1>1. Story \in Stories
  BY DEF Story, RunStories, TypeOK
<1>2. CASE Working \/ RunStep \/ UNCHANGED dailyVars
  BY <1>2 DEF Working, RunStep, dailyVars
<1>3. CASE ReportStep
  <2>1. CASE WriteFails(Self)
    BY <2>1 DEF WriteFails, ReportNext
  <2>2. CASE Begin(Self) \/ Write(Self, Story) \/ Cleans(Self) \/ End(Self)
    BY <1>1, <2>2 DEF ReportNext
  <2> QED BY <1>3, <2>1, <2>2 DEF ReportStep
<1>4. CASE RunDies
  BY <1>4 DEF RunDies, ReportNext
<1>5. CASE OtherStep
  <2>1. CASE Midnight
    BY <2>1 DEF ReportNext
  <2>2. ASSUME NEW p \in Procs, Other(p) PROVE ReportNext
    <3>1. CASE Begin(p) \/ Write(p, Elsewhere) \/ End(p) \/ CutShort(p)
      BY <3>1 DEF ReportNext
    <3>2. CASE Glob(p) \/ \E n \in FileNames : Remove(p, n, TRUE)
      BY <3>2 DEF ReportNext, Cleans
    <3> QED BY <2>2, <3>1, <3>2 DEF Other
  <2> QED BY <1>5, <2>1, <2>2 DEF OtherStep
<1> QED BY <1>2, <1>3, <1>4, <1>5 DEF DailyNext, DailyMain

(* The invariant of the directory holds next to any number of processes. *)
THEOREM ReportInvHolds == DailySpec => []ReportInv
<1>1. DailyInit => ReportInv
  BY ReportInvInit DEF DailyInit
<1>2. TypeOK /\ ReportInv /\ [DailyNext]_dailyVars => ReportInv'
  BY DailyStepIsReportStep, ReportInvStep
<1>3. RunInv => TypeOK
  BY DEF RunInv
<1> QED BY <1>1, <1>2, <1>3, DailyRunIsARun, RunInvHolds, PTL DEF DailySpec

(* Today's report goes only at the hands of a run that is of an earlier day. *)
LEMMA KeepsToday ==
    ASSUME ReportInv, [ReportNext]_reportVars, NEW p \in Procs,
           today \in Present, today \notin Present', files'[p] # files[p]
    PROVE  fileName[p] < today
<1> USE ReportAssumption DEF FileNames, Present
<1>1. PICK q \in Procs : \/ Begin(q) \/ \E story \in Stories : Write(q, story)
                        \/ Cleans(q) \/ End(q) \/ CutShort(q)
  BY DEF ReportNext, Midnight, reportVars
<1>2. CASE Begin(q) \/ End(q) \/ Glob(q)
  BY <1>2 DEF Begin, End, Glob, ReportInv, ReportTypeOK
<1>3. ASSUME NEW story \in Stories, Write(q, story) PROVE FALSE
  BY <1>3 DEF Write, ReportInv, ReportTypeOK
<1>4. ASSUME NEW n \in FileNames, NEW ok \in BOOLEAN, Remove(q, n, ok)
      PROVE  fileName[p] < today
  <2>1. p = q /\ n = today
    BY <1>4 DEF Remove, ReportInv, ReportTypeOK
  <2>2. today \in files[p]
    BY <1>4, <2>1 DEF Remove
  <2>3. fileName[p] <= today /\ fileName[p] # today
    BY <2>2 DEF ReportInv
  <2>4. fileName[p] \in Nat /\ today \in Nat
    BY DEF ReportInv, ReportTypeOK, Days
  <2> QED BY <2>3, <2>4
<1>5. CASE CutShort(q)
  BY <1>5 DEF CutShort, ReportInv, ReportTypeOK
<1> QED BY <1>1, <1>2, <1>3, <1>4, <1>5 DEF Cleans

(* However runs overlap, the report of the day disappears only at the hands of
   a run that took its file name before midnight. *)
THEOREM TodaysReportStaysHolds == DailySpec => TodaysReportStays
<1>1. TypeOK /\ ReportInv /\ [DailyNext]_dailyVars =>
        [\A p \in Procs :
            today \in Present /\ today \notin Present' /\ files'[p] # files[p] =>
                fileName[p] < today]_reportVars
  BY DailyStepIsReportStep, KeepsToday
<1>2. RunInv => TypeOK
  BY DEF RunInv
<1> QED
  BY <1>1, <1>2, DailyRunIsARun, RunInvHolds, ReportInvHolds, PTL
     DEF DailySpec, TodaysReportStays

(* A run that nobody disturbed leaves its own report, and no other but those
   that could not be removed. *)
THEOREM LoneRunLeavesOneHolds == DailySpec => LoneRunLeavesOne
<1>1. ReportInv => \A p \in Procs : End(p) /\ alone[p] => Present = {fileName[p]} \cup kept[p]
  BY DEF ReportInv, End
<1>2. ReportInv =>
        [\A p \in Procs : End(p) /\ alone[p] => Present = {fileName[p]} \cup kept[p]]_reportVars
  BY <1>1
<1> QED BY <1>2, ReportInvHolds, PTL DEF LoneRunLeavesOne

-----------------------------------------------------------------------------
(* The report of the run: it is begun and ended while main is in
   GenerateReport, and from WriteFile on it tells what the run did. *)
ToldInv ==
    /\ step[Self] # "off" => pc = "report"
    /\ step[Self] \in {"list", "clean"} \/ (pc = "notify" /\ reported # "no") =>
          directory[fileName[Self]] = Story \/ replaced
    /\ pc = "notify" /\ reported = "no" => syncErr
    /\ ChangesAreTold

(* Others change the report of the run only as "replaced" says, and never
   where it is. *)
LEMMA ToldInvOther ==
    ASSUME ReportInv, ToldInv, OtherStep PROVE ToldInv'
<1> USE SelfAssumption
<1>1. UNCHANGED vars /\ UNCHANGED Story
  BY DEF OtherStep, vars, Story
<1>2. step'[Self] = step[Self] /\ fileName'[Self] = fileName[Self]
  <2>1. CASE Midnight
    BY <2>1 DEF Midnight
  <2>2. ASSUME NEW p \in Procs \ {Self}, Other(p)
        PROVE  step'[Self] = step[Self] /\ fileName'[Self] = fileName[Self]
    BY <2>2 DEF Other, Begin, Write, Glob, End, Remove, CutShort, Leaves,
       ReportInv, ReportTypeOK
  <2> QED BY <2>1, <2>2 DEF OtherStep
<1>3. replaced' = (replaced \/ directory'[fileName[Self]] # directory[fileName[Self]])
  BY DEF OtherStep
<1>4. directory'[fileName'[Self]] = directory[fileName[Self]] \/ replaced'
  BY <1>2, <1>3
<1>5. replaced => replaced'
  BY <1>3
<1> QED BY <1>1, <1>2, <1>4, <1>5 DEF ToldInv, ChangesAreTold, vars

LEMMA ToldInvReport ==
    ASSUME RunInv, ReportInv, ToldInv, ReportStep PROVE ToldInv'
<1> USE SelfAssumption
<1>1. CASE pc = "report" /\ Begin(Self) /\ UNCHANGED <<vars, replaced>>
  BY <1>1 DEF Begin, ToldInv, ChangesAreTold, vars, ReportInv, ReportTypeOK
<1>2. CASE Write(Self, Story) /\ replaced' = FALSE /\ UNCHANGED vars
  BY <1>2 DEF Write, ToldInv, ChangesAreTold, vars, Story, ReportInv, ReportTypeOK
<1>3. CASE Cleans(Self) /\ UNCHANGED <<vars, replaced>>
  <2>1. directory'[fileName[Self]] = directory[fileName[Self]] /\ UNCHANGED fileName
    BY <1>3 DEF Cleans, Glob, Remove, ReportInv, ReportTypeOK
  <2>2. step[Self] \in {"list", "clean"} /\ step'[Self] \in {"list", "clean"}
    BY <1>3 DEF Cleans, Glob, Remove, ReportInv, ReportTypeOK
  <2> QED BY <1>3, <2>1, <2>2 DEF ToldInv, ChangesAreTold, vars, Story
<1>4. CASE WriteFails(Self) /\ Report(FALSE) /\ UNCHANGED replaced
  BY <1>4 DEF WriteFails, CutShort, Leaves, Report, ToldInv, ChangesAreTold,
     ReportInv, ReportTypeOK
<1>5. CASE End(Self) /\ Report(TRUE) /\ UNCHANGED replaced
  <2>1. step[Self] = "clean" /\ step'[Self] = "off" /\ UNCHANGED <<directory, fileName>>
    BY <1>5 DEF End, Leaves, ReportInv, ReportTypeOK
  <2>2. pc' = "notify" /\ UNCHANGED <<syncErr, written, ReportLogs>>
    BY <1>5 DEF Report, resultVars, RunInv, TypeOK
  <2>3. reported' # "no"
    BY <1>5 DEF Report
  <2>4. Story' = Story
    BY <2>2 DEF Story
  <2>5. directory'[fileName'[Self]] = Story' \/ replaced'
    <3>1. directory[fileName[Self]] = Story \/ replaced
      BY <2>1 DEF ToldInv
    <3>2. replaced' = replaced /\ directory' = directory /\ fileName' = fileName
      BY <1>5, <2>1
    <3> QED BY <2>4, <3>1, <3>2
  <2> QED BY <2>1, <2>2, <2>3, <2>5 DEF ToldInv, ChangesAreTold
<1> QED BY <1>1, <1>2, <1>3, <1>4, <1>5 DEF ReportStep

LEMMA ToldInvRun ==
    ASSUME RunInv, ReportInv, ToldInv, Working \/ RunStep \/ RunDies PROVE ToldInv'
<1> USE SelfAssumption
<1>1. CASE Working \/ RunStep
  <2>1. UNCHANGED <<reportVars, replaced>>
    BY <1>1 DEF Working, RunStep
  <2>2. CASE Start
    BY <2>1, <2>2 DEF Start, FirstStep, reportVars, ToldInv, ChangesAreTold
  <2>3. CASE \E sent \in BOOLEAN : Finish(sent)
    <3>1. /\ pc = "notify" /\ pc' = "off" /\ exitCode' = (IF syncErr THEN 1 ELSE 0)
          /\ UNCHANGED <<written, reported, directory, fileName, replaced>>
      BY <2>1, <2>3 DEF Finish, resultVars, reportVars
    <3>2. step'[Self] = "off"
      BY <2>1, <3>1 DEF ToldInv, ReportInv, ReportTypeOK, reportVars
    <3>3. ChangesAreTold'
      <4>1. CASE reported = "no"
        <5>1. reported' = "no" /\ exitCode' = 1
          BY <3>1, <4>1 DEF ToldInv
        <5> QED BY <5>1 DEF ChangesAreTold
      <4>2. CASE directory[fileName[Self]] = Story
        <5>1. Story \in RunStories /\ Story.failed = syncErr /\ Story.logs = ReportLogs
          BY DEF Story, RunStories, RunInv, TypeOK
        <5>2. \A f \in Files : f \in Story.logs <=> <<f, "answered">> \in written'
          BY <3>1, <5>1 DEF RunInv, LogsInv
        <5>3. (\E f \in Files : <<f, "lost">> \in written') => Story.failed /\ exitCode' = 1
          BY <3>1, <5>1 DEF RunInv, LogsInv
        <5>4. directory'[fileName'[Self]] = Story
          BY <3>1, <4>2
        <5> HIDE DEF Story
        <5> QED BY <5>1, <5>2, <5>3, <5>4 DEF ChangesAreTold
      <4>3. CASE replaced
        <5>1. replaced'
          BY <3>1, <4>3
        <5> QED BY <5>1 DEF ChangesAreTold
      <4> QED BY <3>1, <4>1, <4>2, <4>3 DEF ToldInv
    <3> QED BY <3>1, <3>2, <3>3 DEF ToldInv
  <2>4. CASE \/ \E c \in Calls : Goroutine(c)
             \/ \E c \in Configs : EditConfig(c)
    <3>1. UNCHANGED <<pc, syncErr, written, ReportLogs, reported, exitCode>>
      BY <2>4 DEF Goroutine, Bind, Send, Respond, TaskError, EditConfig, resultVars, endVars
    <3>2. Story' = Story
      BY <3>1 DEF Story
    <3> QED BY <2>1, <3>1, <3>2 DEF ToldInv, ChangesAreTold, reportVars
  <2>5. CASE \/ PrepareFails \/ Do \/ Receive \/ Deadline
             \/ TokenAccepted \/ AnswerRefused \/ FileUnparsable \/ FileParsed
             \/ \E f \in Files : CompareSucceeds(f) \/ CompareFails(f)
    <3>1. pc \notin {"report", "notify", "off"} /\ pc' \notin {"notify", "off"}
      BY <2>5 DEF PrepareFails, Do, Receive, Deadline, TokenAccepted, AnswerRefused,
         FileUnparsable, FileParsed, CompareSucceeds, CompareFails, Fail
    <3>2. step[Self] = "off" /\ step'[Self] = "off"
      BY <2>1, <3>1 DEF ToldInv, ReportInv, ReportTypeOK, reportVars
    <3> QED BY <3>1, <3>2 DEF ToldInv, ChangesAreTold
  <2> QED BY <1>1, <2>2, <2>3, <2>4, <2>5 DEF Working, RunStep, Work
<1>2. CASE RunDies
  <2>1. exitCode = Running /\ exitCode' = Running /\ pc' = "off"
    BY <1>2 DEF RunDies, GzipPanics, Crash, RunInv, EndInv, endVars
  <2>2. step'[Self] = "off"
    BY <1>2 DEF RunDies, CutShort, Leaves, ReportInv, ReportTypeOK
  <2> QED BY <2>1, <2>2 DEF ToldInv, ChangesAreTold
<1> QED BY <1>1, <1>2

LEMMA ToldInvStep ==
    ASSUME RunInv, ReportInv, ToldInv, [DailyNext]_dailyVars PROVE ToldInv'
<1>1. CASE UNCHANGED dailyVars
  <2>1. Story' = Story
    BY <1>1 DEF Story, dailyVars, vars
  <2> QED BY <1>1, <2>1 DEF ToldInv, ChangesAreTold, dailyVars, vars, reportVars
<1> QED BY <1>1, ToldInvOther, ToldInvReport, ToldInvRun DEF DailyNext, DailyMain

(* A run that is over has told the changes it had an answer for, those and no
   others, and that it failed, where there is one that it had none for; until
   somebody replaces its report, or unless its exit code says that it failed. *)
THEOREM ChangesAreToldHolds == DailySpec => []ChangesAreTold
<1>1. DailyInit => ToldInv
  BY SelfAssumption DEF DailyInit, Init, ReportInit, ToldInv, ChangesAreTold
<1>2. RunInv /\ ReportInv /\ ToldInv /\ [DailyNext]_dailyVars => ToldInv'
  BY ToldInvStep
<1>3. ToldInv => ChangesAreTold
  BY DEF ToldInv
<1> QED
  BY <1>1, <1>2, <1>3, DailyRunIsARun, RunInvHolds, ReportInvHolds, PTL DEF DailySpec
=============================================================================
