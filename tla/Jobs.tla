-------------------------------- MODULE Jobs --------------------------------
(***************************************************************************)
(* Running a job by hand in the Go backend (job_service.go RunJob,         *)
(* executeJob).  The request reads the job and answers; a goroutine with a *)
(* copy of the job takes an id, inserts a RUNNING row in the run log, runs *)
(* the script and updates the row by its id.  Nothing looks at the errors  *)
(* of the two writes, and a stop of the server takes the goroutine along.  *)
(*                                                                         *)
(* Abstracted: the columns of a job and of a row besides the status; the   *)
(* script, which may succeed, fail or run until its context times out.     *)
(***************************************************************************)
EXTENDS Identifiers

CONSTANTS
    JobIds,    \* ids of jobs
    Runs,      \* the goroutines of executeJob that can be there at one time
    Others,    \* other goroutines that call NewID
    MaxCalls,  \* bound on the calls of NewID
    NoJob,     \* no job
    NoId       \* no id yet

ASSUME CallersAssumption == Callers = Runs \cup Others /\ Runs \cap Others = {}
ASSUME MaxCallsAssumption == MaxCalls \in Nat
ASSUME NoJobAssumption == NoJob \notin JobIds
ASSUME NoIdAssumption == NoId \notin Ids

VARIABLES
    jobs,      \* "absent", "live" or "deleted"
    at,        \* where each run is
    job,       \* the job each run has a copy of
    logId,     \* the id of its row in the run log
    outcome,   \* the status it is going to write
    calls,     \* how many calls of NewID were asked for
    runLog,    \* sys_job_run_log: the status under each id, "none" without a row
    orphans    \* ids of rows whose run was stopped or could not complete them

runs == <<at, job, logId, outcome>>
vars == <<generator, jobs, runs, calls, runLog, orphans>>

Final == {"SUCCESS", "FAIL"}

TypeOK ==
    /\ GeneratorTypeOK
    /\ jobs \in [JobIds -> {"absent", "live", "deleted"}]
    /\ at \in [Runs -> {"idle", "clock", "number", "create", "script", "complete"}]
    /\ job \in [Runs -> JobIds \cup {NoJob}]
    /\ logId \in [Runs -> Ids \cup {NoId}]
    /\ \A g \in Runs : logId[g] = NoId <=> at[g] \in {"idle", "clock", "number"}
    /\ outcome \in [Runs -> Final \cup {"none"}]
    /\ calls \in 0 .. MaxCalls
    /\ runLog \in [Ids -> Final \cup {"none", "RUNNING"}]
    /\ orphans \subseteq Ids

Init ==
    /\ GeneratorInit
    /\ jobs = [j \in JobIds |-> "absent"]
    /\ at = [g \in Runs |-> "idle"]
    /\ job = [g \in Runs |-> NoJob]
    /\ logId = [g \in Runs |-> NoId]
    /\ outcome = [g \in Runs |-> "none"]
    /\ calls = 0
    /\ runLog = [i \in Ids |-> "none"]
    /\ orphans = {}

-----------------------------------------------------------------------------
(* The jobs. *)

CreateJob(j) ==
    /\ jobs[j] = "absent"
    /\ jobs' = [jobs EXCEPT ![j] = "live"]
    /\ UNCHANGED <<generator, runs, calls, runLog, orphans>>

\* Runs of the job go on.
DeleteJob(j) ==
    /\ jobs[j] = "live"
    /\ jobs' = [jobs EXCEPT ![j] = "deleted"]
    /\ UNCHANGED <<generator, runs, calls, runLog, orphans>>

\* The status of the job is not looked at.
RunJob(g, j) ==
    /\ at[g] = "idle"
    /\ jobs[j] = "live"
    /\ at' = [at EXCEPT ![g] = "clock"]
    /\ job' = [job EXCEPT ![g] = j]
    /\ calls < MaxCalls
    /\ calls' = calls + 1
    /\ UNCHANGED <<generator, jobs, logId, outcome, runLog, orphans>>

-----------------------------------------------------------------------------
(* executeJob. *)

goto(g, p) == at' = [at EXCEPT ![g] = p]

Clock(g) ==
    /\ at[g] = "clock"
    /\ ReadClock(g)
    /\ goto(g, "number")
    /\ UNCHANGED <<jobs, calls, job, logId, outcome, runLog, orphans>>

Number(g) ==
    /\ at[g] = "number"
    /\ TakeNumber(g)
    /\ logId' = [logId EXCEPT ![g] = newID(g)]
    /\ goto(g, "create")
    /\ UNCHANGED <<jobs, calls, job, outcome, runLog, orphans>>

\* INSERT; the primary key refuses an id that is there.  The run goes on after
\* any error.
Create(g) ==
    /\ at[g] = "create"
    /\ \/ /\ runLog[logId[g]] = "none"
          /\ runLog' = [runLog EXCEPT ![logId[g]] = "RUNNING"]
       \/ UNCHANGED runLog
    /\ goto(g, "script")
    /\ UNCHANGED <<generator, jobs, calls, job, logId, outcome, orphans>>

\* executeJobTarget returns: no error, an error of the checks before the script
\* or of the script itself.
ScriptEnds(g) ==
    /\ at[g] = "script"
    /\ \E status \in Final : outcome' = [outcome EXCEPT ![g] = status]
    /\ goto(g, "complete")
    /\ UNCHANGED <<generator, jobs, calls, job, logId, runLog, orphans>>

\* Mutant: the script gets context.Background().
TimeoutBug(g) == FALSE /\ UNCHANGED vars

\* Mutant: the row is written when the time is over, and again when the script ends.
TimeoutWritesBug(g) ==
    /\ at[g] = "script"
    /\ runLog' = [runLog EXCEPT ![logId[g]] = IF @ = "none" THEN @ ELSE "FAIL"]
    /\ UNCHANGED <<generator, jobs, runs, calls, orphans>>

\* The context ends after 30 minutes and the script is killed.
Timeout(g) ==
    /\ at[g] = "script"
    /\ outcome' = [outcome EXCEPT ![g] = "FAIL"]
    /\ goto(g, "complete")
    /\ UNCHANGED <<generator, jobs, calls, job, logId, runLog, orphans>>

finish(g) ==
    /\ at' = [at EXCEPT ![g] = "idle"]
    /\ job' = [job EXCEPT ![g] = NoJob]
    /\ logId' = [logId EXCEPT ![g] = NoId]
    /\ outcome' = [outcome EXCEPT ![g] = "none"]

\* Mutant: a run that fails returns before the UPDATE.
CompleteBug(g) ==
    /\ at[g] = "complete"
    /\ runLog' = IF outcome[g] = "SUCCESS" /\ runLog[logId[g]] # "none"
                 THEN [runLog EXCEPT ![logId[g]] = "SUCCESS"]
                 ELSE runLog
    /\ finish(g)
    /\ UNCHANGED <<generator, jobs, calls, orphans>>

\* UPDATE ... WHERE id = ?, whatever the row says; no row, no change.
Complete(g) ==
    /\ at[g] = "complete"
    /\ runLog' = [runLog EXCEPT ![logId[g]] = IF @ = "none" THEN @ ELSE outcome[g]]
    /\ finish(g)
    /\ UNCHANGED <<generator, jobs, calls, orphans>>

CompleteFails(g) ==
    /\ at[g] = "complete"
    /\ orphans' = orphans \cup {logId[g]}
    /\ finish(g)
    /\ UNCHANGED <<generator, jobs, calls, runLog>>

Step(g) ==
    \/ Clock(g) \/ Number(g) \/ Create(g)
    \/ ScriptEnds(g) \/ Timeout(g)
    \/ Complete(g) \/ CompleteFails(g)

-----------------------------------------------------------------------------
(* The rest of the server. *)

OtherID(o) ==
    /\ \/ calls < MaxCalls /\ ReadClock(o) /\ calls' = calls + 1
       \/ TakeNumber(o) /\ UNCHANGED calls
    /\ UNCHANGED <<jobs, runs, runLog, orphans>>

TimePasses ==
    /\ Pass \/ SetClockBack
    /\ UNCHANGED <<jobs, runs, calls, runLog, orphans>>

\* The server stops and is started again; the runs are gone, their rows stay.
Restart ==
    /\ RestartGenerator
    /\ at' = [g \in Runs |-> "idle"]
    /\ job' = [g \in Runs |-> NoJob]
    /\ logId' = [g \in Runs |-> NoId]
    /\ outcome' = [g \in Runs |-> "none"]
    /\ orphans' = orphans \cup {logId[g] : g \in {h \in Runs : logId[h] # NoId}}
    /\ UNCHANGED <<jobs, calls, runLog>>

Next ==
    \/ \E j \in JobIds : CreateJob(j) \/ DeleteJob(j)
    \/ \E g \in Runs : Step(g) \/ \E j \in JobIds : RunJob(g, j)
    \/ \E o \in Others : OtherID(o)
    \/ TimePasses
    \/ Restart

Spec == Init /\ [][Next]_vars

\* A goroutine that is not waiting runs on, and the timeout of the script fires.
\* Nothing obliges the script to end, the clock to move or the server to stop.
Fairness ==
    \A g \in Runs :
        /\ WF_vars(Clock(g)) /\ WF_vars(Number(g)) /\ WF_vars(Create(g))
        /\ WF_vars(Timeout(g))
        /\ WF_vars(Complete(g) \/ CompleteFails(g))

FairSpec == Spec /\ Fairness

-----------------------------------------------------------------------------
(* What must hold. *)

\* A row of the run log that says SUCCESS or FAIL says so for good, unless NewID
\* gave its id to somebody else as well: then the UPDATE of that run hits it.
FinalStaysFinal ==
    [][\A i \in Ids :
          runLog[i] \in Final /\ i \notin repeated' => runLog'[i] = runLog[i]]_vars

\* A row that says RUNNING has a run that will complete it, or its run was
\* stopped with the server or its last write failed.
RunningHasRun ==
    \A i \in Ids : runLog[i] = "RUNNING" =>
        \/ \E g \in Runs : logId[g] = i /\ at[g] \in {"script", "complete"}
        \/ i \in orphans

\* A run ends, however long its script would have run.
RunEnds == \A g \in Runs : at[g] # "idle" ~> at[g] = "idle"

=============================================================================
