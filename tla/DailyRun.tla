------------------------------ MODULE DailyRun ------------------------------
(***************************************************************************)
(* A reportcli process of SyncRun whose report is that of DailyReport,     *)
(* next to other processes that report into the same directory.            *)
(***************************************************************************)
EXTENDS SyncRun, DailyReport

CONSTANTS
    Self,      \* the process of SyncRun
    Elsewhere  \* what the others tell

(* What a run tells: whether StartSync failed, and the changes. *)
RunStories == [failed : BOOLEAN, logs : SUBSET Files]

ASSUME SelfAssumption ==
    /\ Self \in Procs /\ Elsewhere \in Stories
    /\ RunStories \subseteq Stories

VARIABLE replaced   \* history: others changed Self's report after it was written

dailyVars == <<vars, reportVars, replaced>>

Story == [failed |-> syncErr, logs |-> ReportLogs]

DailyInit == Init /\ ReportInit /\ replaced = FALSE

-----------------------------------------------------------------------------
(* Everything but the report. *)
Working == Work /\ UNCHANGED <<reportVars, replaced>>

RunStep ==
    /\ \/ Start
       \/ \E c \in Configs : EditConfig(c)
       \/ \E c \in Calls : Goroutine(c)
    /\ UNCHANGED <<reportVars, replaced>>

(* Death takes the report, half written, along. *)
RunDies ==
    /\ Crash \/ \E c \in Calls : GzipPanics(c)
    /\ CutShort(Self)
    /\ UNCHANGED replaced

ReportStep ==
    \/ pc = "report" /\ Begin(Self) /\ UNCHANGED <<vars, replaced>>
    \/ Write(Self, Story) /\ replaced' = FALSE /\ UNCHANGED vars
    \/ Cleans(Self) /\ UNCHANGED <<vars, replaced>>
    \/ WriteFails(Self) /\ Report(FALSE) /\ UNCHANGED replaced
    \/ End(Self) /\ Report(TRUE) /\ UNCHANGED replaced

(* The others, of which only the report matters here; and the clock. *)
Other(p) ==
    \/ Begin(p) \/ Write(p, Elsewhere)
    \/ Glob(p) \/ End(p) \/ \E n \in FileNames : Remove(p, n, TRUE)
    \/ step[p] # "off" /\ CutShort(p)

(* Bound: they turn up in the last run, and move while Self is at its report:
   nothing else that Self does reads or writes what they do. *)
OtherStep ==
    /\ runs = MaxRuns /\ pc = "report"
    /\ Midnight \/ \E p \in Procs \ {Self} : Other(p)
    /\ replaced' = (replaced \/ directory'[fileName[Self]] # directory[fileName[Self]])
    /\ UNCHANGED vars

DailyMain == Working \/ ReportStep
DailyNext == DailyMain \/ RunStep \/ RunDies \/ OtherStep

(* main runs on; the goroutines, and the server behind them, may stop for ever.
   A comparison is assumed to end: the database connection has no timeout. *)
DailySpec == DailyInit /\ [][DailyNext]_dailyVars /\ WF_dailyVars(DailyMain)

-----------------------------------------------------------------------------
(* The report of a run that came to its end (one that was killed has no exit code)
   tells the changes that the database confirmed, all of them and no others.  A
   change whose answer was lost is not among them, but then report and exit code
   say that the run failed.  So it stays until somebody replaces the report; a
   run that could not write one ends with exit code 1. *)
ChangesAreTold ==
    pc = "off" /\ written # {} /\ exitCode # Running =>
        \/ \E story \in RunStories :
              /\ directory[fileName[Self]] = story
              /\ \A f \in Files : f \in story.logs <=> <<f, "answered">> \in written
              /\ (\E f \in Files : <<f, "lost">> \in written) => story.failed /\ exitCode = 1
        \/ replaced
        \/ reported = "no" /\ exitCode = 1
=============================================================================
