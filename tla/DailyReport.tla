---------------------------- MODULE DailyReport ----------------------------
(***************************************************************************)
(* PsnTree.GenerateReport in several processes that share a working        *)
(* directory: the name is taken from the clock once, the file is written,  *)
(* the directory is listed, and the reports of other days are removed one  *)
(* by one.  The clock goes on and processes die between any two of these.  *)
(***************************************************************************)
EXTENDS Naturals

CONSTANTS
    Procs,    \* reportcli processes
    MaxDay,   \* bound: days
    Stories,  \* what a report can tell
    NoFile,   \* there is no such file
    Torn      \* a file that was not written to its end

Days == 1 .. MaxDay
(* Name d is report_YYYYMMDD.txt of day d; 0 is some other report_*.txt. *)
FileNames == 0 .. MaxDay

ASSUME ReportAssumption ==
    MaxDay \in Nat \ {0} /\ {NoFile, Torn} \cap Stories = {} /\ NoFile # Torn

VARIABLES
    today,
    directory,  \* the files that match report_*.txt
    step,       \* where each process is in GenerateReport
    fileName,   \* the name it took
    files,      \* what filepath.Glob returned, less what has been passed
    kept,       \* history: names whose removal failed
    alone       \* history: nobody else has changed the directory since Begin

reportVars == <<today, directory, step, fileName, files, kept, alone>>

ReportTypeOK ==
    /\ today \in Days
    /\ directory \in [FileNames -> Stories \cup {NoFile, Torn}]
    /\ step \in [Procs -> {"off", "write", "list", "clean"}]
    /\ fileName \in [Procs -> FileNames]
    /\ files \in [Procs -> SUBSET FileNames]
    /\ kept \in [Procs -> SUBSET FileNames]
    /\ alone \in [Procs -> BOOLEAN]

Present == {n \in FileNames : directory[n] # NoFile}

ReportInit ==
    /\ today = 1
    /\ \E old \in {{}, {0, 1}} :
          directory = [n \in FileNames |-> IF n \in old THEN Torn ELSE NoFile]
    /\ step = [p \in Procs |-> "off"]
    /\ fileName = [p \in Procs |-> 0]
    /\ files = [p \in Procs |-> {}]
    /\ kept = [p \in Procs |-> {}]
    /\ alone = [p \in Procs |-> TRUE]

-----------------------------------------------------------------------------
Midnight ==
    /\ today < MaxDay
    /\ today' = today + 1
    /\ UNCHANGED <<directory, step, fileName, files, kept, alone>>

(* p changes the directory under every other report. *)
Disturbs(p) == alone' = [q \in Procs |-> alone[q] /\ (q = p \/ step[q] = "off")]

Leaves(p) ==
    /\ step' = [step EXCEPT ![p] = "off"]
    /\ files' = [files EXCEPT ![p] = {}]
    /\ kept' = [kept EXCEPT ![p] = {}]

(* today := time.Now().Format("20060102") *)
Begin(p) ==
    /\ step[p] = "off"
    /\ step' = [step EXCEPT ![p] = "write"]
    /\ fileName' = [fileName EXCEPT ![p] = today]
    /\ UNCHANGED <<today, directory, files, kept, alone>>

(* os.WriteFile replaces what an earlier run of the day wrote. *)
Write(p, story) ==
    /\ step[p] = "write"
    /\ directory' = [directory EXCEPT ![fileName[p]] = story]
    /\ step' = [step EXCEPT ![p] = "list"]
    /\ Disturbs(p)
    /\ UNCHANGED <<today, fileName, files, kept>>

(* WriteFile is cut short, with or without a trace in the directory. *)
CutShort(p) ==
    /\ Leaves(p)
    /\ \/ UNCHANGED directory /\ alone' = [alone EXCEPT ![p] = TRUE]
       \/ /\ step[p] = "write"
          /\ directory' = [directory EXCEPT ![fileName[p]] = Torn]
          /\ alone' = [q \in Procs |-> q = p \/ step[q] = "off"]
    /\ UNCHANGED <<today, fileName>>

WriteFails(p) == step[p] = "write" /\ CutShort(p)

(* Mutant: the report of the day before is kept. *)
MutGlobOld(p) ==
    /\ step[p] = "list"
    /\ step' = [step EXCEPT ![p] = "clean"]
    /\ files' = [files EXCEPT ![p] = {n \in Present : n + 1 < fileName[p]}]
    /\ UNCHANGED <<today, directory, fileName, kept, alone>>

(* Mutant: the own report is not spared. *)
MutGlobAll(p) ==
    /\ step[p] = "list"
    /\ step' = [step EXCEPT ![p] = "clean"]
    /\ files' = [files EXCEPT ![p] = Present]
    /\ UNCHANGED <<today, directory, fileName, kept, alone>>

(* filepath.Glob("report_*.txt"), less the own report. *)
Glob(p) ==
    /\ step[p] = "list"
    /\ step' = [step EXCEPT ![p] = "clean"]
    /\ files' = [files EXCEPT ![p] = Present \ {fileName[p]}]
    /\ UNCHANGED <<today, directory, fileName, kept, alone>>

(* _ = os.Remove(f): it may be gone already, or refuse to go. *)
Remove(p, n, ok) ==
    /\ step[p] = "clean" /\ n \in files[p]
    /\ files' = [files EXCEPT ![p] = @ \ {n}]
    /\ IF ok THEN /\ directory' = [directory EXCEPT ![n] = NoFile]
                  /\ Disturbs(p) /\ UNCHANGED kept
             ELSE /\ kept' = [kept EXCEPT ![p] = @ \cup {n}]
                  /\ UNCHANGED <<directory, alone>>
    /\ UNCHANGED <<today, step, fileName>>

End(p) ==
    /\ step[p] = "clean" /\ files[p] = {}
    /\ Leaves(p)
    /\ alone' = [alone EXCEPT ![p] = TRUE]
    /\ UNCHANGED <<today, directory, fileName>>

Cleans(p) == Glob(p) \/ \E n \in FileNames, ok \in BOOLEAN : Remove(p, n, ok)

-----------------------------------------------------------------------------
(* Properties. *)

(* However runs overlap, the report of the day disappears only at the hands of
   a run that took its file name before midnight. *)
TodaysReportStays ==
    [][\A p \in Procs :
          today \in Present /\ today \notin Present' /\ files'[p] # files[p] =>
              fileName[p] < today]_reportVars

(* A run that nobody disturbed leaves its own report, and no other but those
   that could not be removed. *)
LoneRunLeavesOne ==
    [][\A p \in Procs :
          End(p) /\ alone[p] => Present = {fileName[p]} \cup kept[p]]_reportVars
=============================================================================
