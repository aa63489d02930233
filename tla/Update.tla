------------------------------- MODULE Update -------------------------------
(***************************************************************************)
(* An update from the offer to the restarted program: UpdateController on  *)
(* the UI thread, its background thread, the sync worker that is paused,   *)
(* the files of the job directory, and the helper process that installs.   *)
(* (src/mdlogger/update_controller.py, the jobs of updater.py, the update  *)
(* part of profile_router.py and app_controller.py, start, stop and resume *)
(* of game_sync/coordinator.py, scripts/update/UpdateHelper.cs.)           *)
(*                                                                         *)
(* The two processes share nothing but files and two named mutexes.        *)
(***************************************************************************)
EXTENDS Naturals, FiniteSets

CONSTANTS
    MaxJobs,           \* bound: job directories (downloads)
    MaxUpdateFaults    \* bound: files that cannot be written, processes that fail

ASSUME UpdateAssumption == MaxJobs \in Nat \ {0} /\ MaxUpdateFaults \in Nat

Jobs == 1..MaxJobs

VARIABLES
    ui,        \* the fields of UpdateController, and _update_scope
    ready,     \* ready_for_update: nothing is being entered, no dialog is open
    task,      \* the thread of UpdateController._run, and what it will post
    sync,      \* SyncCoordinator: its worker, _stop, _resume_requested
    app,       \* the process that runs the update: running, closing, gone
    jobs,      \* the files of each job directory
    helper,    \* the helper process of each job
    mutex,     \* who holds the two named mutexes
    fresh,     \* program processes started meanwhile: by the user, by the helper
    told,      \* the helper showed the user a message
    faults     \* what is left of the bound

updateVars == <<ui, ready, task, sync, app, jobs, helper, mutex, fresh, told, faults>>

NoTask == [stage |-> "none", step |-> "none", job |-> 0]
Unused == [phase |-> "none", cancel |-> FALSE, authorized |-> FALSE, started |-> FALSE]

UpdateInit ==
    /\ ui = [dialog |-> FALSE, busy |-> FALSE, cancelled |-> FALSE, closed |-> FALSE,
             downloaded |-> 0, job |-> 0, started |-> FALSE, committed |-> FALSE]
    /\ ready \in BOOLEAN
    /\ task = NoTask
    /\ sync = [worker |-> TRUE, stop |-> FALSE, resume |-> FALSE]
    /\ app = "running"
    /\ jobs = [n \in Jobs |-> Unused]
    /\ helper = [n \in Jobs |-> "none"]
    /\ mutex = [application |-> "old", update |-> 0]
    /\ fresh = [other |-> "none", next |-> "none", early |-> FALSE]
    /\ told = FALSE
    /\ faults = MaxUpdateFaults

Fault == faults > 0 /\ faults' = faults - 1

-----------------------------------------------------------------------------
(* The sync worker.                                                        *)

\* stop, up to its wait for the worker.
Stopping(s) == [s EXCEPT !.stop = TRUE, !.resume = FALSE]

\* (A slip: a worker that is still leaving is not started again.)
ResumedIfGone(s) ==
    IF s.worker THEN s ELSE [s EXCEPT !.worker = TRUE, !.stop = FALSE]

\* resume: a worker that is still leaving starts again once, when it has left.
Resumed(s) ==
    IF ~s.worker THEN [s EXCEPT !.worker = TRUE, !.stop = FALSE]
    ELSE IF s.stop THEN [s EXCEPT !.resume = TRUE] ELSE s

WorkerLeaves ==
    /\ app # "gone" /\ sync.worker /\ sync.stop
    /\ sync' = IF sync.resume THEN [worker |-> TRUE, stop |-> FALSE, resume |-> FALSE]
               ELSE [sync EXCEPT !.worker = FALSE]
    /\ UNCHANGED <<ui, ready, task, app, jobs, helper, mutex, fresh, told, faults>>

-----------------------------------------------------------------------------
(* updater.py: the files of a job.                                         *)

\* authorize_update refuses a job that is not ready or was cancelled.
MayAuthorize(n) == jobs[n].phase = "ready" /\ ~jobs[n].cancel

\* cancel_update: a job that has ended needs no mark; one that went on cannot
\* be cancelled any more.
Over(n) == jobs[n].phase \in {"failed", "cancelled"}
CancelMark(n) == [jobs EXCEPT ![n].cancel = TRUE]

-----------------------------------------------------------------------------
(* UpdateController.                                                       *)

UiRuns == app = "running" /\ ~ui.closed

\* The offer is shown; a dialog that is open or work under way keeps it away.
ShowOffer ==
    /\ UiRuns /\ ~ui.busy /\ ~ui.dialog
    /\ ui' = [ui EXCEPT !.dialog = TRUE, !.cancelled = FALSE, !.downloaded = 0]
    /\ UNCHANGED <<ready, task, sync, app, jobs, helper, mutex, fresh, told, faults>>

\* The user begins or ends to enter a record or a login, or opens a dialog.
Disturb ==
    /\ UiRuns /\ ready' = ~ready
    /\ UNCHANGED <<ui, task, sync, app, jobs, helper, mutex, fresh, told, faults>>

\* reject: not while an installation is prepared.
Reject ==
    /\ UiRuns /\ ui.dialog /\ ~ui.started
    /\ ui' = [ui EXCEPT !.dialog = FALSE, !.cancelled = TRUE]
    /\ UNCHANGED <<ready, task, sync, app, jobs, helper, mutex, fresh, told, faults>>

\* _release_handoff: the worker runs again, the profile is free again.
Release(u) ==
    /\ ui' = [u EXCEPT !.started = FALSE]
    /\ sync' = IF u.started THEN Resumed(sync) ELSE sync

\* _fail_handoff: the job is cancelled, if its mark can be written.
Fail(u) ==
    \/ /\ u.job # 0 /\ (Over(u.job) \/ jobs[u.job].phase = "ready")
       /\ jobs' = IF Over(u.job) THEN jobs ELSE CancelMark(u.job)
       /\ Release([u EXCEPT !.job = 0, !.downloaded = 0]) /\ UNCHANGED faults
    \/ /\ u.job # 0 /\ Fault
       /\ Release([u EXCEPT !.downloaded = 0]) /\ UNCHANGED jobs
    \/ u.job = 0 /\ Release(u) /\ UNCHANGED <<jobs, faults>>

Run(stage, n) == task' = [stage |-> stage, step |-> "begin", job |-> n]

\* The dialog was destroyed with its window.
Destroyed ==
    /\ UiRuns /\ ui.dialog /\ ~ui.committed
    /\ LET u == [ui EXCEPT !.dialog = FALSE, !.cancelled = TRUE] IN
       IF ui.busy THEN ui' = u /\ UNCHANGED <<sync, jobs, faults>> ELSE Fail(u)
    /\ UNCHANGED <<ready, task, app, helper, mutex, fresh, told>>

\* _handoff: the profile and its worker are fixed, the worker is paused.
Handoff(u) ==
    IF ready THEN ui' = [u EXCEPT !.started = TRUE, !.busy = TRUE] /\ Run("pause", 0)
    ELSE ui' = u /\ UNCHANGED task

\* _begin_install: first a job that could not be cancelled before.
BeginInstall ==
    /\ UiRuns /\ ui.dialog /\ ~ui.busy
    /\ \/ /\ ui.job # 0 /\ Fault /\ ui' = [ui EXCEPT !.downloaded = 0]
          /\ UNCHANGED <<task, jobs>>
       \/ LET u == [ui EXCEPT !.job = 0, !.cancelled = FALSE,
                       !.downloaded = IF ui.job = 0 THEN @ ELSE 0] IN
          /\ jobs' = IF ui.job = 0 \/ Over(ui.job) THEN jobs ELSE CancelMark(ui.job)
          /\ IF u.downloaded # 0 THEN Handoff(u)
             ELSE ui' = [u EXCEPT !.busy = TRUE] /\ Run("download", 0)
          /\ UNCHANGED faults
    /\ UNCHANGED <<ready, sync, app, helper, mutex, fresh, told>>

-----------------------------------------------------------------------------
(* The background thread.                                                  *)

Post(step, n) == task' = [task EXCEPT !.step = step, !.job = n]
Untouched == UNCHANGED <<ready, app, mutex, fresh, told>>

\* A new directory for every download; it may fail or be cancelled.
Download ==
    /\ app # "gone" /\ task.stage = "download" /\ task.step = "begin"
    /\ \/ \E n \in Jobs :
            /\ jobs[n] = Unused /\ \A k \in 1..(n - 1) : jobs[k] # Unused
            /\ jobs' = [jobs EXCEPT ![n].phase = "downloaded"]
            /\ Post("done", n)
       \/ Post("error", 0) /\ UNCHANGED jobs
    /\ UNCHANGED <<ui, sync, helper, faults>> /\ Untouched

\* pause_for_update: stop, then a wait of at most five seconds.
Pause ==
    /\ app # "gone" /\ task.stage = "pause"
    /\ \/ task.step = "begin" /\ sync' = Stopping(sync) /\ Post("join", 0)
       \/ task.step = "join" /\ ~sync.worker /\ Post("done", 0) /\ UNCHANGED sync
       \/ task.step = "join" /\ sync.worker /\ Post("error", 0) /\ UNCHANGED sync
    /\ UNCHANGED <<ui, jobs, helper, faults>> /\ Untouched

\* Under _job_lock the job becomes known; a program that closes meanwhile, or
\* a user who gave up, cancels it.
Launched(n) ==
    LET known == [ui EXCEPT !.job = n] IN
    IF ~ui.closed /\ ~ui.cancelled
    THEN ui' = known /\ Post("done", n) /\ UNCHANGED <<jobs, faults>>
    ELSE \/ /\ ui' = [ui EXCEPT !.downloaded = 0] /\ Post("done", n)
            /\ jobs' = IF Over(n) THEN jobs ELSE CancelMark(n)
            /\ UNCHANGED faults
         \/ /\ ui' = [known EXCEPT !.downloaded = 0] /\ Fault
            /\ Post("error", n) /\ UNCHANGED jobs

\* launch_update: the helper starts and is waited for; a job that does not get
\* ready is marked as cancelled, if that can be written.
Launch ==
    /\ app # "gone" /\ task.stage = "launch"
    /\ LET n == task.job IN
       \/ /\ task.step = "begin" /\ helper' = [helper EXCEPT ![n] = "verify"]
          /\ Post("poll", n) /\ UNCHANGED <<ui, jobs, faults>>
       \/ /\ task.step = "begin" /\ Fault /\ Post("error", n)
          /\ UNCHANGED <<ui, jobs, helper>>
       \/ /\ task.step = "poll" /\ jobs[n].phase # "ready" /\ Post("error", n)
          /\ \/ jobs' = CancelMark(n) /\ UNCHANGED faults
             \/ Fault /\ UNCHANGED jobs
          /\ UNCHANGED <<ui, helper>>
       \/ /\ task.step = "poll" /\ jobs[n].phase = "ready" /\ Post("launched", n)
          /\ UNCHANGED <<ui, jobs, helper, faults>>
       \/ /\ task.step = "launched" /\ Launched(n)
          /\ UNCHANGED helper
    /\ UNCHANGED sync /\ Untouched

\* (A slip: what the user began meanwhile is not looked at.)
ValidUnlessCancelled == ~ui.cancelled /\ ui.dialog

\* _handoff_valid, asked again after every step that ran in the background.
Valid == ~ui.cancelled /\ ui.dialog /\ ready

\* The program leaves: updates.close cancels a job that is not approved, if
\* the mark can be written, then controller.close stops the worker.
Leaves(u) ==
    /\ app' = "closing" /\ ui' = [u EXCEPT !.closed = TRUE]
    /\ sync' = Stopping(sync)

\* The installation is approved, and the program exits.
Approve(n) ==
    /\ MayAuthorize(n)
    /\ jobs' = [jobs EXCEPT ![n].authorized = TRUE]
    /\ Leaves([ui EXCEPT !.committed = TRUE, !.job = 0, !.busy = FALSE])

\* _on_completed: what the thread posted reaches the UI thread.  (A new request
\* waits for the one under way, so its number never differs.)
Completed ==
    /\ UiRuns /\ task.step \in {"done", "error"}
    /\ LET u == [ui EXCEPT !.busy = FALSE] n == task.job IN
       \/ /\ task.step = "error" /\ task' = NoTask /\ UNCHANGED app
          /\ Fail([u EXCEPT !.downloaded = IF task.stage = "launch" THEN 0 ELSE @])
       \/ /\ task.step = "done" /\ task.stage = "download"
          /\ IF ui.cancelled THEN ui' = u /\ task' = NoTask
             ELSE IF ready THEN Handoff([u EXCEPT !.downloaded = n])
             ELSE ui' = [u EXCEPT !.downloaded = n] /\ task' = NoTask
          /\ UNCHANGED <<sync, app, jobs, faults>>
       \/ /\ task.step = "done" /\ task.stage = "pause" /\ UNCHANGED app
          /\ IF Valid /\ ui.downloaded # 0
             THEN /\ Run("launch", ui.downloaded) /\ UNCHANGED <<ui, sync, jobs, faults>>
             ELSE task' = NoTask /\ Fail(u)
       \/ /\ task.step = "done" /\ task.stage = "launch" /\ task' = NoTask
          /\ \/ Valid /\ Approve(n) /\ UNCHANGED faults
             \/ /\ ~Valid \/ ~MayAuthorize(n) \/ faults > 0  \* it is not written
                /\ Fail(u) /\ UNCHANGED app
    /\ UNCHANGED <<ready, helper, mutex, fresh, told>>

\* The program is closed, or the session of the OS user ends.
Quit ==
    /\ UiRuns
    /\ \/ /\ Leaves([ui EXCEPT !.cancelled = TRUE, !.job = 0])
          /\ jobs' = IF ui.job # 0 /\ jobs[ui.job].phase = "ready" THEN CancelMark(ui.job) ELSE jobs
          /\ UNCHANGED faults
       \/ ui.job # 0 /\ Fault /\ Leaves([ui EXCEPT !.cancelled = TRUE]) /\ UNCHANGED jobs
    /\ UNCHANGED <<ready, task, helper, mutex, fresh, told>>

Gone ==
    /\ app' = "gone" /\ task' = NoTask
    /\ sync' = [worker |-> FALSE, stop |-> TRUE, resume |-> FALSE]
    /\ mutex' = [mutex EXCEPT !.application = "none"]
    /\ UNCHANGED <<ui, ready, jobs, helper, fresh, told>>

Exit == app = "closing" /\ Gone /\ UNCHANGED faults
ProgramKilled == app = "running" /\ Fault /\ Gone

-----------------------------------------------------------------------------
(* The helper process.                                                     *)

HelperAt(n, pc) == helper[n] = pc
Phase(n, phase, pc) ==
    /\ jobs' = [jobs EXCEPT ![n].phase = phase]
    /\ helper' = [helper EXCEPT ![n] = pc]
\* The update mutex is held as long as the helper runs.
Frees == mutex' = [mutex EXCEPT !.update = 0]
HelperOnly == UNCHANGED <<ui, ready, task, sync, app>>

\* It takes the update mutex, verifies the payload and the parent.
Verify(n) ==
    /\ HelperAt(n, "verify")
    /\ \/ /\ mutex.update = 0 /\ app # "gone" /\ Phase(n, "ready", "waiting")
          /\ mutex' = [mutex EXCEPT !.update = n] /\ UNCHANGED faults
       \/ /\ mutex.update # 0 \/ app = "gone"
          /\ Phase(n, "failed", "done") /\ UNCHANGED <<mutex, faults>>
       \/ Fault /\ Phase(n, "failed", "done") /\ UNCHANGED mutex
    /\ UNCHANGED <<fresh, told>> /\ HelperOnly

\* While the parent runs: a mark cancels, and after two minutes it gives up.
AwaitExit(n) ==
    /\ HelperAt(n, "waiting")
    /\ \/ jobs[n].cancel /\ Phase(n, "cancelled", "done") /\ Frees
       \/ app # "gone" /\ Phase(n, "failed", "gave_up") /\ Frees
       \/ /\ app = "gone" /\ helper' = [helper EXCEPT ![n] = "decide"]
          /\ UNCHANGED <<jobs, mutex>>
    /\ UNCHANGED <<fresh, told, faults>> /\ HelperOnly

\* The parent is gone: only an approved job goes on, alone.
MayInstall(n) == ~jobs[n].cancel /\ jobs[n].authorized

InstallOrNot(n) ==
    /\ HelperAt(n, "decide")
    /\ \/ /\ ~MayInstall(n) /\ Phase(n, "cancelled", "done") /\ Frees
          /\ UNCHANGED <<told, faults>>
       \/ /\ MayInstall(n) /\ mutex.application # "none"
          /\ Phase(n, "failed", "done") /\ Frees /\ told' = TRUE /\ UNCHANGED faults
       \/ /\ MayInstall(n) /\ Fault  \* the signature has expired
          /\ Phase(n, "failed", "done") /\ Frees /\ told' = TRUE
       \/ /\ MayInstall(n) /\ mutex.application = "none"
          /\ Phase(n, "installing", "elevate") /\ UNCHANGED <<mutex, told, faults>>
    /\ UNCHANGED fresh /\ HelperOnly

\* The user declines, and the old program starts again; or the installer runs,
\* unless it finds a program running itself.
Elevate(n) ==
    /\ HelperAt(n, "elevate")
    /\ \/ Phase(n, "recovering", "start") /\ UNCHANGED <<mutex, told>>
       \/ /\ mutex.application = "none" /\ helper' = [helper EXCEPT ![n] = "install"]
          /\ UNCHANGED <<jobs, mutex, told>>
       \/ /\ mutex.application # "none" /\ Phase(n, "failed", "done")
          /\ Frees /\ told' = TRUE
    /\ UNCHANGED <<fresh, faults>> /\ HelperOnly

\* The installer succeeds, needs a reboot, or fails.
Install(n) ==
    /\ HelperAt(n, "install")
    /\ \/ Phase(n, "starting", "start") /\ UNCHANGED <<mutex, told, faults>>
       \/ /\ Phase(n, "reboot_required", "done") /\ Frees /\ told' = TRUE
          /\ UNCHANGED faults
       \/ /\ Fault /\ Phase(n, "failed", "done") /\ Frees /\ told' = TRUE
    /\ UNCHANGED fresh /\ HelperOnly

\* StartApplication, and its wait of a minute for the receipt.
StartApplication(n) ==
    /\ HelperAt(n, "start")
    /\ \/ /\ fresh' = [fresh EXCEPT !.next = "begins"]
          /\ helper' = [helper EXCEPT ![n] = "confirm"]
          /\ UNCHANGED <<jobs, mutex, told, faults>>
       \/ /\ Fault /\ Phase(n, "failed", "done") /\ Frees /\ told' = TRUE
          /\ UNCHANGED fresh
    /\ HelperOnly

Confirm(n) ==
    /\ HelperAt(n, "confirm") /\ Frees
    /\ \/ /\ jobs[n].started /\ UNCHANGED told
          /\ Phase(n, IF jobs[n].phase = "recovering" THEN "cancelled" ELSE "complete", "done")
       \/ ~jobs[n].started /\ Phase(n, "startup_failed", "done") /\ told' = TRUE
    /\ UNCHANGED <<fresh, faults>> /\ HelperOnly

-----------------------------------------------------------------------------
(* Programs that start meanwhile: acquire_application_mutex looks at one   *)
(* mutex and then takes the other; acknowledge_update_startup.             *)

ProgramOnly == UNCHANGED <<ui, ready, task, sync, app, helper, told>>

\* _startup_job: the program the helper started may pass its mutex.
Expected(who) ==
    who = "next" /\ mutex.update # 0 /\ jobs[mutex.update].phase \in {"starting", "recovering"}

UserStarts ==
    /\ fresh.other = "none" /\ fresh' = [fresh EXCEPT !.other = "begins"]
    /\ UNCHANGED <<jobs, mutex, faults>> /\ ProgramOnly

Look(who) ==
    /\ fresh[who] = "begins"
    /\ fresh' = [fresh EXCEPT
            ![who] = IF mutex.update # 0 /\ ~Expected(who) THEN "over" ELSE "looked",
            !.early = IF who = "other" THEN mutex.update = 0 ELSE @]
    /\ UNCHANGED <<jobs, mutex, faults>> /\ ProgramOnly

Acquire(who) ==
    /\ fresh[who] = "looked"
    /\ IF mutex.application = "none"
       THEN /\ mutex' = [mutex EXCEPT !.application = who]
            /\ fresh' = [fresh EXCEPT ![who] = "running"]
       ELSE fresh' = [fresh EXCEPT ![who] = "over"] /\ UNCHANGED mutex
    /\ UNCHANGED <<jobs, faults>> /\ ProgramOnly

AcknowledgeStart ==
    /\ fresh.next = "running" /\ Expected("next")
    /\ ~jobs[mutex.update].started
    /\ \/ jobs' = [jobs EXCEPT ![mutex.update].started = TRUE] /\ UNCHANGED <<fresh, mutex, faults>>
       \/ Fault /\ fresh' = [fresh EXCEPT !.next = "over"]  \* it does not come up
          /\ mutex' = [mutex EXCEPT !.application = "none"] /\ UNCHANGED jobs
    /\ ProgramOnly

UserQuits ==
    /\ fresh.other = "running" /\ fresh' = [fresh EXCEPT !.other = "over"]
    /\ mutex' = [mutex EXCEPT !.application = "none"]
    /\ UNCHANGED <<jobs, faults>> /\ ProgramOnly

-----------------------------------------------------------------------------
Thread == Download \/ Pause \/ Launch
Helper(n) ==
    Verify(n) \/ AwaitExit(n) \/ InstallOrNot(n) \/ Elevate(n) \/ Install(n)
    \/ StartApplication(n) \/ Confirm(n)
Program(who) == Look(who) \/ Acquire(who)
UserActs == ShowOffer \/ Disturb \/ Reject \/ Destroyed \/ BeginInstall \/ Quit
        \/ ProgramKilled \/ UserStarts \/ UserQuits

UpdateNext ==
    \/ UserActs \/ WorkerLeaves \/ Thread \/ Completed \/ Exit \/ AcknowledgeStart
    \/ \E n \in Jobs : Helper(n)
    \/ \E who \in {"other", "next"} : Program(who)

\* Threads and processes run; what the user does need not happen.
Fairness ==
    /\ WF_updateVars(WorkerLeaves) /\ WF_updateVars(Thread) /\ WF_updateVars(Completed)
    /\ WF_updateVars(Exit) /\ WF_updateVars(AcknowledgeStart)
    /\ \A n \in Jobs : WF_updateVars(Helper(n))
    /\ \A who \in {"other", "next"} : WF_updateVars(Program(who))

UpdateSpec == UpdateInit /\ [][UpdateNext]_updateVars /\ Fairness

-----------------------------------------------------------------------------
Phases == {"none", "downloaded", "ready", "failed", "cancelled", "installing", "recovering",
           "starting", "reboot_required", "complete", "startup_failed"}

\* What the variables hold; the update mutex belongs to the helper that runs.
UpdateTypeOK ==
    /\ ui.downloaded \in {0} \cup Jobs /\ ui.job \in {0} \cup Jobs
    /\ app \in {"running", "closing", "gone"}
    /\ \A n \in Jobs : jobs[n].phase \in Phases
    /\ mutex.application \in {"old", "other", "next", "none"}
    /\ \A n \in Jobs : mutex.update = n <=>
            helper[n] \in {"waiting", "decide", "elevate", "install", "start", "confirm"}

\* An installer runs only for a job the program approved before it exited: a
\* user who gave up, an entry begun meanwhile, a crash or a job that was
\* cancelled or replaced never leads to an installation.
InstallsWhatWasApproved ==
    \A n \in Jobs : helper[n] \in {"elevate", "install", "start"} =>
        ui.committed /\ jobs[n].authorized /\ ~jobs[n].cancel /\ app = "gone"

\* When the program exits to be replaced, nothing is being entered and its
\* worker has stopped, whatever was resumed or timed out before.
QuietWhenApproved ==
    [][~ui.committed /\ ui'.committed => ready /\ ~sync.worker /\ ~sync.resume]_updateVars

\* No program writes its data while the installer runs; one that asked before
\* the helper took its mutex is left to the check of the installer.
NoProgramDuringInstallation ==
    \A n \in Jobs : helper[n] = "install" /\ mutex.application # "none" => fresh.early

\* A preparation ends, and unless the program exits, or the user tries again,
\* its records are synchronised again, even if the worker was still stopping.
SyncGoesOn ==
    /\ ui.started ~> ~ui.started \/ app = "gone"
    /\ ~sync.worker \/ sync.stop ~> (sync.worker /\ ~sync.stop) \/ ui.started \/ app = "gone"

\* Once the program exited to be replaced, a program runs again or the user is
\* told why not, unless the helper had given up waiting for the exit.
ComesBackOrTells ==
    ui.committed ~> \/ told \/ fresh.next = "running" \/ fresh.other = "running"
                    \/ \E n \in Jobs : helper[n] = "gave_up"

\* From the consent of the user to the end of the installer, nothing runs and
\* nothing is installed that was not agreed to (authorize_update, run_helper).
InstallationIsGuarded ==
    /\ []InstallsWhatWasApproved
    /\ []NoProgramDuringInstallation
    /\ QuietWhenApproved

\* Whatever an update meets, the program or its successor is there to go on.
UpdatesEnd == SyncGoesOn /\ ComesBackOrTells
=============================================================================
