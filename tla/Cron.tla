-------------------------------- MODULE Cron --------------------------------
(***************************************************************************)
(* The cron service, pkg/cron (service.go, scheduler.go): a table of jobs, *)
(* one handle per job to the timer armed last, goroutines of executeJob    *)
(* started by timers and by RunJob, and a file the table is saved to.      *)
(*                                                                         *)
(* Every operation holds s.mu from beginning to end, except executeJob,    *)
(* which gives it up while the payload runs.  Saving replaces the file by  *)
(* a rename: it happens or it does not.  A timer that is armed while its   *)
(* job's handle points at an armed timer takes the handle over and leaves  *)
(* the other armed: it is "loose", and no operation can cancel it.         *)
(*                                                                         *)
(* A job ID is used once (uuid).  The record of a job that was removed     *)
(* stays in memory for an executeJob that still has a pointer to it.       *)
(* Names, payloads, delivery, events and filters are left out.             *)
(***************************************************************************)
EXTENDS Integers, Sequences, FiniteSets, Bags

CONSTANTS
    Jobs,       \* job IDs
    Schedules,  \* the schedules jobs are given, see ScheduleAssumption
    Backoff,    \* retryBackoffSchedule
    Never,      \* stands for "no timer", "no anchor" and "not in the patch"
    MaxTime,    \* bound: the clock
    MaxErrors,  \* bound: ConsecutiveErrors
    MaxOps,     \* bound: operations on the service
    MaxFaults,  \* bound: saves that fail
    MaxRestarts \* bound: ends of the program, each followed by a new start

ScheduleKinds == {"at", "every", "invalid"}

ASSUME ScheduleAssumption ==
    /\ Schedules \subseteq [kind : ScheduleKinds, at : Nat, every : Nat \ {0},
                            anchor : Nat \cup {Never}]
    /\ Schedules # {}
    /\ \A s \in Schedules : s.kind = "at" => s.at > 0
    /\ Never \notin Nat
    /\ Backoff \in Seq(Nat) /\ Backoff # <<>>
ASSUME CronBoundsAssumption ==
    {MaxTime, MaxErrors, MaxOps, MaxFaults, MaxRestarts} \subseteq Nat

VARIABLES
    now,        \* the clock
    service,    \* "new", "started" or "stopped"
    jobs,       \* per ID, the job's record, see Record
    jobsFile,       \* per ID, the record last saved, NoRecord if it is not there
    timer,      \* deadline of the timer in s.timers, Never if none is armed
    loose,      \* deadlines of the job's timers that are armed, not in s.timers
    started,    \* executeJob goroutines that have not taken s.mu yet
    executing,  \* executeJob goroutines whose payload is running
    ops, faults, restarts,
    removed,    \* history: jobs whose removal was reported to have succeeded
    touched,    \* history: jobs run by hand, armed again during a run or by Start
    replanned,  \* history: jobs whose schedule was changed
    late        \* history: jobs that were started or executing when Stop came

tableVars == <<service, jobs, jobsFile>>
timerVars == <<timer, loose>>
runVars   == <<started, executing>>
countVars == <<ops, faults, restarts>>
cronHistory  == <<removed, touched, replanned, late>>
cronVars == <<now, tableVars, timerVars, runVars, countVars, cronHistory>>

-----------------------------------------------------------------------------
\* A job: its definition and its state; present means it is in s.jobs.
\* running is RunningAtMs # nil, errors is ConsecutiveErrors, end is the end
\* of the last run (LastRunAtMs + LastDurationMs).
Record == [present : BOOLEAN, enabled : BOOLEAN, deleteAfterRun : BOOLEAN,
           schedule : Schedules, next : Nat, running : BOOLEAN,
           errors : Nat, end : Nat]

NoRecord == [present |-> FALSE, enabled |-> FALSE, deleteAfterRun |-> FALSE,
             schedule |-> CHOOSE s \in Schedules : TRUE, next |-> 0,
             running |-> FALSE, errors |-> 0, end |-> 0]

Valid(s) == s.kind # "invalid"
Recurring(s) == s.kind = "every"

\* CalculateNextRun of a valid schedule.  A cron expression behaves as an
\* interval with an anchor.
NextRun(s) ==
    CASE s.kind = "at" -> s.at
      [] s.kind = "every" /\ s.anchor = Never -> now + s.every
      [] s.kind = "every" /\ s.anchor # Never ->
            IF now < s.anchor THEN s.anchor
            ELSE s.anchor + ((now - s.anchor) \div s.every + 1) * s.every

\* calculateRetryBackoff: grows to the last entry, for recurring jobs only.
RetryBackoff(s, errors) ==
    IF errors = 0 \/ ~Recurring(s) THEN 0
    ELSE Backoff[IF errors < Len(Backoff) THEN errors ELSE Len(Backoff)]

Later(a, b) == IF a < b THEN b ELSE a

CronInit ==
    /\ now = 0
    /\ service = "new"
    /\ jobs = [j \in Jobs |-> NoRecord]
    /\ jobsFile = [j \in Jobs |-> NoRecord]
    /\ timer = [j \in Jobs |-> Never]
    /\ loose = [j \in Jobs |-> EmptyBag]
    /\ started = [j \in Jobs |-> 0]
    /\ executing = [j \in Jobs |-> 0]
    /\ ops = 0 /\ faults = 0 /\ restarts = 0
    /\ removed = {} /\ touched = {} /\ replanned = {} /\ late = {}

-----------------------------------------------------------------------------
\* What operations are made of.

\* persist: the table replaces the file, or the save fails.
Saved(table) ==
    /\ jobsFile' = [j \in Jobs |-> IF table[j].present THEN table[j] ELSE NoRecord]
    /\ UNCHANGED faults
SaveFails ==
    /\ faults < MaxFaults
    /\ faults' = faults + 1
    /\ UNCHANGED jobsFile
Persist(table) == Saved(table) \/ SaveFails

\* Timers of a job after cancelJobLocked, and after scheduleJobLocked: the new
\* timer takes the handle, an armed one it pointed at stays armed.
Cancelled(j) == [timer EXCEPT ![j] = Never]
ScheduleJob(j, deadline) ==
    /\ timer' = [timer EXCEPT ![j] = deadline]
    /\ loose' = IF timer[j] = Never THEN loose
                ELSE [loose EXCEPT ![j] = @ (+) SetToBag({timer[j]})]
CancelJob(j) ==
    /\ timer' = Cancelled(j)
    /\ UNCHANGED loose

CronOperation ==
    /\ ops < MaxOps
    /\ ops' = ops + 1
    /\ UNCHANGED restarts

-----------------------------------------------------------------------------
\* Operations on the service.

\* Start arms a timer for every enabled job.
Start ==
    /\ service = "new"
    /\ service' = "started"
    /\ LET Enabled == {j \in Jobs : jobs[j].present /\ jobs[j].enabled}
           Doubled == {j \in Enabled : timer[j] # Never}
           Busy == {j \in Enabled : started[j] + executing[j] > 0}
       IN  /\ timer' = [j \in Jobs |->
                            IF j \in Enabled THEN jobs[j].next ELSE timer[j]]
           /\ loose' = [j \in Jobs |->
                            IF j \in Doubled
                            THEN loose[j] (+) SetToBag({timer[j]}) ELSE loose[j]]
           /\ touched' = touched \cup Doubled \cup Busy
    /\ UNCHANGED <<now, jobs, jobsFile, runVars, countVars, removed, replanned, late>>

\* AddJob refuses an invalid schedule, takes the job back if it cannot save.
AddJob(j, s, enabled, deleteAfterRun) ==
    /\ CronOperation
    /\ service # "stopped" /\ Valid(s)
    /\ jobs[j] = NoRecord /\ j \notin removed
    /\ LET job == [NoRecord EXCEPT !.present = TRUE, !.enabled = enabled,
                       !.deleteAfterRun = deleteAfterRun, !.schedule = s,
                       !.next = NextRun(s)]
           table == [jobs EXCEPT ![j] = job]
       IN  \/ /\ Saved(table)
              /\ jobs' = table
              /\ IF enabled THEN ScheduleJob(j, job.next) ELSE UNCHANGED timerVars
           \/ SaveFails /\ UNCHANGED <<jobs, timerVars>>
    /\ UNCHANGED <<now, service, runVars, cronHistory>>

\* The job a patch makes of another; an invalid schedule leaves next alone.
Patched(job, enabled, once, s) ==
    LET flags == [job EXCEPT !.enabled = enabled, !.deleteAfterRun = once]
    IN  IF s = Never THEN flags
        ELSE [flags EXCEPT !.schedule = s, !.next = IF Valid(s) THEN NextRun(s) ELSE @]

\* Variant: the job's timer is not armed again.
RearmCancels(j, job) == CancelJob(j)

\* cancelJobLocked, then scheduleJobLocked if the job is enabled.
Rearm(j, job) ==
    IF job.enabled THEN /\ timer' = [timer EXCEPT ![j] = job.next]
                        /\ UNCHANGED loose
                   ELSE CancelJob(j)

\* UpdateJob applies the whole patch, then refuses an invalid schedule; only
\* after a save does it rearm the job.
UpdateJob(j, enabled, once, s) ==
    /\ CronOperation
    /\ service # "stopped" /\ jobs[j].present
    /\ LET job == Patched(jobs[j], enabled, once, s)
           table == [jobs EXCEPT ![j] = job]
           refused == s # Never /\ ~Valid(s)
           changed == s # Never \/ enabled # jobs[j].enabled
           busy == started[j] + executing[j] > 0
       IN  /\ jobs' = table
           /\ \/ refused /\ UNCHANGED <<jobsFile, faults, timerVars, touched>>
              \/ ~refused /\ SaveFails /\ UNCHANGED <<timerVars, touched>>
              \/ /\ ~refused /\ Saved(table)
                 /\ IF changed THEN Rearm(j, job) ELSE UNCHANGED timerVars
                 /\ touched' = IF changed /\ enabled /\ busy
                               THEN touched \cup {j} ELSE touched
    /\ replanned' = IF s = Never THEN replanned ELSE replanned \cup {j}
    /\ UNCHANGED <<now, service, runVars, removed, late>>

\* Variant: the file is left as it is.
RemoveJobUnsaved(j) ==
    /\ CronOperation
    /\ service # "stopped" /\ jobs[j].present
    /\ CancelJob(j)
    /\ jobs' = [jobs EXCEPT ![j].present = FALSE]
    /\ removed' = removed \cup {j}
    /\ UNCHANGED <<now, service, jobsFile, faults, runVars, touched, replanned, late>>

\* RemoveJob reports an error if it cannot save, the job is gone all the same.
RemoveJob(j) ==
    /\ CronOperation
    /\ service # "stopped" /\ jobs[j].present
    /\ CancelJob(j)
    /\ LET table == [jobs EXCEPT ![j].present = FALSE]
       IN  /\ jobs' = table
           /\ \/ Saved(table) /\ removed' = removed \cup {j}
              \/ SaveFails /\ UNCHANGED removed
    /\ UNCHANGED <<now, service, runVars, touched, replanned, late>>

\* RunJob, of a stopped service too; in "due" mode of enabled jobs only.
RunJob(j, mode) ==
    /\ CronOperation
    /\ jobs[j].present
    /\ mode = "due" => jobs[j].enabled
    /\ started' = [started EXCEPT ![j] = @ + 1]
    /\ touched' = touched \cup {j}
    /\ UNCHANGED <<now, tableVars, timerVars, executing, faults, removed, replanned, late>>

\* Variant: the timers are left alone.
StopKeepsTimers ==
    /\ CronOperation
    /\ service # "stopped"
    /\ service' = "stopped"
    /\ Persist(jobs)
    /\ late' = {j \in Jobs : started[j] + executing[j] > 0}
    /\ UNCHANGED <<now, jobs, timerVars, runVars, removed, touched, replanned>>

\* Stop cancels the timers in s.timers; a second Stop does nothing.
Stop ==
    /\ CronOperation
    /\ service # "stopped"
    /\ service' = "stopped"
    /\ timer' = [j \in Jobs |-> Never]
    /\ Persist(jobs)
    /\ late' = {j \in Jobs : started[j] + executing[j] > 0}
    /\ UNCHANGED <<now, jobs, loose, runVars, removed, touched, replanned>>

-----------------------------------------------------------------------------
\* Timers and executeJob.

\* A timer whose deadline has passed starts a goroutine of executeJob.
Fire(j) ==
    /\ timer[j] # Never /\ timer[j] <= now
    /\ timer' = [timer EXCEPT ![j] = Never]
    /\ started' = [started EXCEPT ![j] = @ + 1]
    /\ UNCHANGED <<now, tableVars, loose, executing, countVars, cronHistory>>

FireLoose(j) ==
    /\ \E d \in BagToSet(loose[j]) :
        /\ d <= now
        /\ loose' = [loose EXCEPT ![j] = @ (-) SetToBag({d})]
    /\ started' = [started EXCEPT ![j] = @ + 1]
    /\ UNCHANGED <<now, tableVars, timer, executing, countVars, cronHistory>>

\* Variant: a running job is executed again.
ExecuteAgain(j) ==
    /\ started[j] > 0 /\ jobs[j].present
    /\ started' = [started EXCEPT ![j] = @ - 1]
    /\ executing' = [executing EXCEPT ![j] = @ + 1]
    /\ jobs' = [jobs EXCEPT ![j].running = TRUE]
    /\ UNCHANGED <<now, service, jobsFile, timerVars, countVars, cronHistory>>

\* The first critical section of executeJob marks the job as running.
Execute(j) ==
    /\ started[j] > 0 /\ jobs[j].present /\ ~jobs[j].running
    /\ started' = [started EXCEPT ![j] = @ - 1]
    /\ executing' = [executing EXCEPT ![j] = @ + 1]
    /\ jobs' = [jobs EXCEPT ![j].running = TRUE]
    /\ UNCHANGED <<now, service, jobsFile, timerVars, countVars, cronHistory>>

\* A job that is gone or marked as running is skipped, and not rearmed.
Skip(j) ==
    /\ started[j] > 0 /\ ~(jobs[j].present /\ ~jobs[j].running)
    /\ started' = [started EXCEPT ![j] = @ - 1]
    /\ UNCHANGED <<now, tableVars, timerVars, executing, countVars, cronHistory>>

\* The record of a job after a run that failed or not.
AfterRun(job, failed) ==
    LET errors == IF failed THEN job.errors + 1 ELSE 0
        next   == IF ~Valid(job.schedule) THEN job.next
                  ELSE Later(NextRun(job.schedule),
                             IF RetryBackoff(job.schedule, errors) = 0 THEN 0
                             ELSE now + RetryBackoff(job.schedule, errors))
    IN  [job EXCEPT !.running = FALSE, !.errors = errors, !.end = now, !.next = next]

\* The second critical section, of a run after which the job stays: saved or
\* not, the job is rearmed if it is enabled and its schedule valid, whether it
\* is still in the table and the service still started or not.
FinishRun(j, failed) ==
    /\ executing[j] > 0
    /\ failed => jobs[j].errors < MaxErrors
    /\ failed \/ ~jobs[j].deleteAfterRun
    /\ LET job == AfterRun(jobs[j], failed)
           table == [jobs EXCEPT ![j] = job]
       IN  /\ jobs' = table
           /\ Persist(table)
           /\ IF job.enabled /\ Valid(job.schedule)
              THEN ScheduleJob(j, job.next) ELSE UNCHANGED timerVars
    /\ executing' = [executing EXCEPT ![j] = @ - 1]
    /\ UNCHANGED <<now, service, started, ops, restarts, cronHistory>>

\* The same, of a successful run with deleteAfterRun: saved, deleted and saved
\* again; what counts is the second save, if it succeeds.
FinishLastRun(j) ==
    /\ executing[j] > 0
    /\ jobs[j].deleteAfterRun
    /\ LET table == [jobs EXCEPT ![j] = AfterRun(@, FALSE)]
           without == [table EXCEPT ![j].present = FALSE]
       IN  /\ jobs' = without
           /\ \/ Saved(without) /\ removed' = removed \cup {j}
              \/ /\ faults < MaxFaults /\ faults' = faults + 1
                 /\ \/ UNCHANGED jobsFile
                    \/ jobsFile' = [i \in Jobs |->
                                  IF table[i].present THEN table[i] ELSE NoRecord]
                 /\ UNCHANGED removed
    /\ CancelJob(j)
    /\ executing' = [executing EXCEPT ![j] = @ - 1]
    /\ UNCHANGED <<now, service, started, ops, restarts, touched, replanned, late>>

-----------------------------------------------------------------------------
Tick ==
    /\ now < MaxTime
    /\ now' = now + 1
    /\ UNCHANGED <<tableVars, timerVars, runVars, countVars, cronHistory>>

\* The program ends, at any point, and NewService loads the file.
Restart ==
    /\ restarts < MaxRestarts
    /\ restarts' = restarts + 1
    /\ service' = "new"
    /\ jobs' = jobsFile
    /\ timer' = [j \in Jobs |-> Never]
    /\ loose' = [j \in Jobs |-> EmptyBag]
    /\ started' = [j \in Jobs |-> 0]
    /\ executing' = [j \in Jobs |-> 0]
    /\ late' = {}
    /\ UNCHANGED <<now, jobsFile, ops, faults, removed, touched, replanned>>

CronNext ==
    \/ Start \/ Stop \/ Tick \/ Restart
    \/ \E j \in Jobs :
        \/ \E s \in Schedules, enabled, once \in BOOLEAN : AddJob(j, s, enabled, once)
        \/ \E s \in Schedules \cup {Never}, enabled, once \in BOOLEAN :
                UpdateJob(j, enabled, once, s)
        \/ RemoveJob(j)
        \/ \E mode \in {"due", "force"} : RunJob(j, mode)
        \/ Fire(j) \/ FireLoose(j) \/ Execute(j) \/ Skip(j)
        \/ \E failed \in BOOLEAN : FinishRun(j, failed)
        \/ FinishLastRun(j)

CronSpec == CronInit /\ [][CronNext]_cronVars

-----------------------------------------------------------------------------
\* Properties.

\* No timer and no goroutine will lead to a run of the job.
Untriggered(j) ==
    timer[j] = Never /\ loose[j] = EmptyBag /\ started[j] = 0 /\ executing[j] = 0

CronTypeOK ==
    /\ now \in 0..MaxTime
    /\ service \in {"new", "started", "stopped"}
    /\ jobs \in [Jobs -> Record]
    /\ jobsFile \in [Jobs -> Record]
    /\ timer \in [Jobs -> Nat \cup {Never}]
    /\ \A j \in Jobs : IsABag(loose[j]) /\ BagToSet(loose[j]) \subseteq Nat
    /\ started \in [Jobs -> Nat]
    /\ executing \in [Jobs -> Nat]

\* Whatever starts them, two runs of one job never overlap, and until the
\* program is restarted a job is marked as running exactly while it runs.
RunsDoNotOverlap ==
    \A j \in Jobs :
        /\ executing[j] <= 1
        /\ restarts = 0 => (jobs[j].running <=> executing[j] = 1)

\* A started service forgets no enabled job: it is marked as running or a
\* timer or goroutine will run it, through updates during a run, skipped and
\* failed runs and restarts, as long as schedules are valid and saves succeed.
EnabledIsTriggered ==
    service = "started" /\ faults = 0 =>
        \A j \in Jobs :
            jobs[j].present /\ jobs[j].enabled /\ Valid(jobs[j].schedule) =>
                jobs[j].running \/ ~Untriggered(j)

\* A job nobody ran by hand nor rescheduled during a run has one timer or
\* goroutine at a time, and no timer that the service has lost: runs do not
\* multiply by themselves.
TriggersDoNotMultiply ==
    \A j \in Jobs \ touched :
        /\ loose[j] = EmptyBag
        /\ (IF timer[j] = Never THEN 0 ELSE 1) + started[j] + executing[j] <= 1

\* Runs are alone, and what they find in the table has its type.
RunsAreAlone == CronTypeOK /\ RunsDoNotOverlap

\* An enabled job has exactly one thing that will run it: none is lost, and none
\* is there twice.  service.go: UpdateJob, scheduleJobLocked and executeJob.
EnabledHasOneTrigger == EnabledIsTriggered /\ TriggersDoNotMultiply

\* A removal that was reported holds for good: the job is not in the file for
\* a restart to find and no run of it begins.
RemovedStaysRemoved ==
    [][\A j \in removed :
        /\ ~jobsFile'[j].present /\ ~jobs'[j].present
        /\ executing'[j] <= executing[j]]_cronVars

\* After Stop no timer is armed, but for jobs that were on their way then and
\* those that have timers Stop does not know of.
StopQuiets ==
    service = "stopped" =>
        \A j \in Jobs \ (touched \cup late) : Untriggered(j)

\* The least time from the end of a run of a job to the next.
Pause(s, errors) == IF Recurring(s) THEN Later(1, RetryBackoff(s, errors)) ELSE 0

\* A recurring job is not run again at the moment at which its last run ended,
\* and one that failed not before its backoff has passed, by a timer of this or
\* of a restarted program, if nobody ran or rescheduled it.
BackoffIsKept ==
    [][\A j \in Jobs \ (touched \cup replanned) :
        executing'[j] > executing[j] =>
            now >= jobs[j].end + Pause(jobs[j].schedule, jobs[j].errors)]_cronVars

\* What a caller was told of a removal, or what was saved of a job that deleted
\* itself, and what schedule and backoff say of a recurring one hold in every step,
\* a restart's included.
RemovalsAndBackoffHold == RemovedStaysRemoved /\ BackoffIsKept

=============================================================================
