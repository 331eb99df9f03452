------------------------------ MODULE AnsibleRun ------------------------------
(***************************************************************************)
(* One run of a playbook for a job (cpkit.playbooks.ansible): the parts it  *)
(* consists of, with SSH credential hooks or without, the rows it writes    *)
(* into the job's tasks, the directories it leaves, and what the caller     *)
(* does with the result; and where its options come from.  JobLifecycle has *)
(* the status of the job: here a status write only matters when it raises.  *)
(*                                                                          *)
(* The handler's thread runs launch_runner.  Each part's playbook runs in   *)
(* an Ansible thread that calls event_handler, which shares the counter of  *)
(* task numbers with the handler's thread.                                  *)
(***************************************************************************)
EXTENDS Integers

CONSTANTS
    MaxTaskId,     \* the largest number the task_id column holds
    MaxUpdates,    \* bound: settings updated
    MaxRunFaults   \* bound: failed statements and starts

ASSUME RunAssumption ==
    /\ MaxTaskId \in Nat
    /\ MaxUpdates \in Nat
    /\ MaxRunFaults \in Nat

VARIABLES
    stored,         \* the options in the settings table
    configured,     \* PlaybookRunOptions in memory
    updates,
    opts,           \* the options of the run
    lite,           \* the run is one of run_playbook_lite
    cleanup,        \* there is a cleanup playbook
    broken,         \* parts whose playbook is not valid YAML
    main,           \* how far the handler's thread has come
    part,           \* the part it is in
    play,           \* the Ansible thread of each part
    owes,           \* Ansible threads between an INSERT and counter += 1
    counter,        \* self.counter
    row,            \* who wrote each row of the job's tasks
    credentials,    \* the credential directory exists
    jobDirs,        \* parts whose job directory exists
    targetResult,   \* target_result
    result,         \* what launch_runner returns or "raised"
    resultCounter,  \* result.task_id_counter
    runFaults,
    refused,        \* history: numbers refused, and to whom
    doubtful,       \* history: rows written by statements that raised
    detached        \* history: the target was left running

options  == <<stored, configured, updates>>
choice   == <<opts, lite, cleanup, broken>>
threads  == <<play, owes>>
tasks    == <<counter, row, refused, doubtful>>
dirs     == <<credentials, jobDirs>>
outcome  == <<targetResult, result, resultCounter>>
runVars  == <<options, choice, main, part, threads, tasks, dirs, outcome,
              runFaults, detached>>

Parts   == {"prepare", "target", "cleanup"}
Options == [hooks : BOOLEAN, retain : BOOLEAN]
TaskId  == 0 .. MaxTaskId

RunInit ==
    /\ stored \in Options
    /\ configured = [hooks |-> FALSE, retain |-> FALSE]
    /\ updates = 0
    /\ opts = configured
    /\ lite = FALSE /\ cleanup = FALSE /\ broken = {}
    /\ main = "down"
    /\ part = "target"
    /\ play = [p \in Parts |-> "none"]
    /\ owes = {}
    /\ counter = 0
    /\ row = [n \in TaskId |-> "none"]
    /\ credentials = FALSE /\ jobDirs = {}
    /\ targetResult = "none" /\ result = "none" /\ resultCounter = 0
    /\ runFaults = 0
    /\ refused = {} /\ doubtful = {} /\ detached = FALSE

RunFault ==
    /\ runFaults < MaxRunFaults
    /\ runFaults' = runFaults + 1

To(from, to) ==
    /\ main = from
    /\ main' = to

-----------------------------------------------------------------------------
(* Options.                                                                 *)

(* The lifespan: configure_playbook_run_options. *)
Startup ==
    /\ To("down", "up")
    /\ configured' = stored
    /\ UNCHANGED <<stored, updates, choice, part, threads, tasks, dirs,
                   outcome, runFaults, detached>>

(* update_setting or reset_setting; the hook of the bundle writes an event. *)
UpdateSetting(o) ==
    /\ main = "up"
    /\ updates < MaxUpdates
    /\ updates' = updates + 1
    /\ stored' = o
    /\ UNCHANGED <<configured, choice, main, part, threads, tasks, dirs,
                   outcome, runFaults, detached>>

(* run_playbook, with the configured options or with those of the call, or  *)
(* run_playbook_lite; and the playbooks the table has at that time.         *)
Launch(o, l, c, b) ==
    /\ To("up", "loading")
    /\ opts' = o /\ lite' = l /\ cleanup' = c /\ broken' = b
    /\ l => o = configured /\ ~c /\ b = {}
    /\ UNCHANGED <<options, part, threads, tasks, dirs, outcome, runFaults,
                   detached>>

LaunchConfigured ==
    \E l, c \in BOOLEAN, b \in SUBSET Parts : Launch(configured, l, c, b)

LaunchOverriding ==
    \E o \in Options, c \in BOOLEAN, b \in SUBSET Parts : Launch(o, FALSE, c, b)

-----------------------------------------------------------------------------
(* create_task.                                                             *)

Free(n) == n \in TaskId /\ row[n] = "none"

Writes(n, who) ==
    /\ Free(n)
    /\ row' = [row EXCEPT ![n] = who]
    /\ UNCHANGED <<refused, doubtful, runFaults>>

(* The primary key or the type of the column does not take it; or the       *)
(* statement fails, with or without its effect.                             *)
WriteRaises(n, who) ==
    \/ /\ ~Free(n)
       /\ refused' = refused \cup {<<who, n>>}
       /\ UNCHANGED <<row, doubtful, runFaults>>
    \/ /\ Free(n)
       /\ RunFault
       /\ \/ UNCHANGED <<row, doubtful>>
          \/ /\ row' = [row EXCEPT ![n] = who]
             /\ doubtful' = doubtful \cup {n}
       /\ UNCHANGED refused

-----------------------------------------------------------------------------
(* The Ansible thread of part p.                                            *)

EventRecorded(p) ==
    /\ play[p] = "running" /\ p \notin owes /\ ~lite
    /\ Writes(counter, p)
    /\ owes' = owes \cup {p}
    /\ UNCHANGED <<options, choice, main, part, play, counter, dirs, outcome,
                   detached>>

EventCounted(p) ==
    /\ p \in owes
    /\ counter' = counter + 1
    /\ owes' = owes \ {p}
    /\ UNCHANGED <<options, choice, main, part, play, row, refused, doubtful,
                   dirs, outcome, runFaults, detached>>

(* The handler raises, which is the end of the thread. *)
EventRaises(p) ==
    /\ play[p] = "running" /\ p \notin owes /\ ~lite
    /\ WriteRaises(counter, p)
    /\ play' = [play EXCEPT ![p] = "failed"]
    /\ UNCHANGED <<options, choice, main, part, owes, counter, dirs, outcome,
                   detached>>

PlaybookEnds(p) ==
    /\ play[p] = "running" /\ p \notin owes
    /\ \E v \in {"successful", "failed"} : play' = [play EXCEPT ![p] = v]
    /\ UNCHANGED <<options, choice, main, part, owes, tasks, dirs, outcome,
                   runFaults, detached>>

-----------------------------------------------------------------------------
(* launch_runner up to its first part.                                      *)

Starts(p) == main' = "starting" /\ part' = p

(* The default is loaded and its version stored; with hooks the directory   *)
(* is made and the prepare playbook loaded.                                 *)
Prepare ==
    /\ main = "loading"
    /\ IF opts.hooks /\ ~lite THEN Starts("prepare") ELSE Starts("target")
    /\ credentials' = (opts.hooks /\ ~lite)
    /\ UNCHANGED <<options, choice, threads, tasks, jobDirs, outcome,
                   runFaults, detached>>

(* One of these raises, before the directory is made or after it.  The lite *)
(* runner returns "failed".                                                 *)
PrepareRaises ==
    /\ RunFault
    /\ To("loading", IF lite THEN "over" ELSE "raising")
    /\ result' = IF lite THEN "failed" ELSE result
    /\ credentials' \in {FALSE, opts.hooks /\ ~lite}
    /\ UNCHANGED <<options, choice, part, threads, tasks, jobDirs,
                   targetResult, resultCounter, detached>>

-----------------------------------------------------------------------------
(* _run_loaded_playbook, for any part.                                      *)

(* It returns status s and the number n. *)
Returns(s, n) ==
    IF part = "target"
    THEN /\ main' = IF lite THEN "over" ELSE "finally"
         /\ targetResult' = s /\ result' = s /\ resultCounter' = n
    ELSE /\ main' = IF s = "successful" THEN "recording" ELSE "recordingBad"
         /\ UNCHANGED outcome

(* An exception leaves it: to the except clause of launch_runner, or out of *)
(* its finally clause, in place of the result.                              *)
Raises ==
    IF part = "cleanup"
    THEN main' = "over" /\ result' = "raised"
    ELSE main' = "raising" /\ UNCHANGED result

StartPart ==
    /\ To("starting", "monitoring")
    /\ part \notin broken
    /\ jobDirs' = jobDirs \cup {part}
    /\ play' = [play EXCEPT ![part] = "running"]
    /\ UNCHANGED <<options, choice, part, owes, tasks, credentials, outcome,
                   runFaults, detached>>

(* The status write, yaml.safe_load or run_async raises. *)
StartRaises ==
    /\ main = "starting" /\ ~lite
    /\ main' = "startFailed"
    /\ IF part \in broken THEN UNCHANGED runFaults ELSE RunFault
    /\ jobDirs' = jobDirs \cup {part}
    /\ UNCHANGED <<options, choice, part, threads, tasks, credentials, outcome,
                   detached>>

(* The FAILURE row is given the number, which is counted for the result but *)
(* not for the runner.                                                      *)
StartFailureRecorded ==
    /\ main = "startFailed"
    /\ Writes(counter, "failure")
    /\ jobDirs' = jobDirs \ {part}
    /\ Returns("failed", counter + 1)
    /\ UNCHANGED <<options, choice, part, threads, counter, credentials,
                   detached>>

(* The job directory stays. *)
StartFailureRaises ==
    /\ main = "startFailed"
    /\ WriteRaises(counter, "failure")
    /\ Raises
    /\ UNCHANGED <<options, choice, part, threads, counter, dirs, targetResult,
                   resultCounter, detached>>

(* The lite runner's start: no row. *)
LiteStartRaises ==
    /\ lite
    /\ To("starting", "over")
    /\ RunFault
    /\ result' = "failed"
    /\ UNCHANGED <<options, choice, part, threads, tasks, dirs, targetResult,
                   resultCounter, detached>>

(* Mutant: the thread is not waited for. *)
NotWaitedFor(p) == play[p] # "none"

Ended(p) == play[p] \in {"successful", "failed"}

(* thread.join() and the final status write. *)
Joined ==
    /\ main = "monitoring" /\ Ended(part)
    /\ jobDirs' = jobDirs \ {part}
    /\ Returns(play[part], counter)
    /\ UNCHANGED <<options, choice, part, threads, tasks, credentials,
                   runFaults, detached>>

(* A status write raises, which only the target makes: the playbook may     *)
(* still be running and its directory is removed.  The write in the except  *)
(* clause succeeds, or it raises as well.                                   *)
MonitoringRaises ==
    /\ main = "monitoring" /\ part = "target" /\ ~lite
    /\ RunFault
    /\ jobDirs' = jobDirs \ {part}
    /\ detached' = (play[part] = "running")
    /\ \/ Returns("failed", counter)
       \/ Raises /\ UNCHANGED <<targetResult, resultCounter>>
    /\ UNCHANGED <<options, choice, part, threads, tasks, credentials>>

-----------------------------------------------------------------------------
(* Between the parts.                                                       *)

(* _record_internal_task: SSH_CREDENTIAL_PREPARE or SSH_CREDENTIAL_CLEANUP, *)
(* and SSH_CREDENTIAL_ARTIFACTS after the first.                            *)
InternalRecorded ==
    /\ \/ To("recording", "counting")
       \/ To("recordingBad", "countingBad")
       \/ To("artifacts", "countingArtifacts")
    /\ Writes(counter, part)
    /\ UNCHANGED <<options, choice, part, threads, counter, dirs, outcome,
                   detached>>

InternalRaises ==
    /\ main \in {"recording", "recordingBad", "artifacts"}
    /\ WriteRaises(counter, part)
    /\ Raises
    /\ UNCHANGED <<options, choice, part, threads, counter, dirs, targetResult,
                   resultCounter, detached>>

(* Mutant: the number is not counted. *)
CountedNot == UNCHANGED counter

Counted == counter' = counter + 1

InternalCounted ==
    /\ \/ main = "counting" /\ part = "prepare" /\ main' = "artifacts" /\ UNCHANGED part
       \/ main = "countingBad" /\ part = "prepare" /\ main' = "abandoning" /\ UNCHANGED part
       \/ main \in {"counting", "countingBad"} /\ part = "cleanup" /\ main' = "removing" /\ UNCHANGED part
       \/ main = "countingArtifacts" /\ Starts("target")
    /\ Counted
    /\ UNCHANGED <<options, choice, threads, row, refused, doubtful, dirs,
                   outcome, runFaults, detached>>

(* Without credentials the target is not run. *)
Abandon ==
    /\ \/ /\ To("abandoning", "finally")
          /\ result' = "failed" /\ resultCounter' = counter
          /\ UNCHANGED runFaults
       \/ To("abandoning", "raising") /\ RunFault /\ UNCHANGED <<result, resultCounter>>
    /\ UNCHANGED <<options, choice, part, threads, tasks, dirs, targetResult,
                   detached>>

(* The except clause of launch_runner. *)
FailureRecorded ==
    /\ To("raising", "finally")
    /\ Writes(counter, "failure")
    /\ result' = "failed" /\ resultCounter' = counter + 1
    /\ UNCHANGED <<options, choice, part, threads, counter, dirs, targetResult,
                   detached>>

FailureRaises ==
    /\ To("raising", "finally")
    /\ WriteRaises(counter, "failure")
    /\ result' = "raised"
    /\ UNCHANGED <<options, choice, part, threads, counter, dirs, targetResult,
                   resultCounter, detached>>

(* The finally clause. *)
Finally ==
    /\ main = "finally"
    /\ IF ~credentials THEN main' = "over" /\ UNCHANGED part
       ELSE IF cleanup THEN Starts("cleanup")
       ELSE main' = "removing" /\ UNCHANGED part
    /\ UNCHANGED <<options, choice, threads, tasks, dirs, outcome, runFaults,
                   detached>>

(* The cleanup playbook cannot be loaded. *)
CleanupNotLoaded ==
    /\ credentials /\ cleanup
    /\ To("finally", "removing")
    /\ RunFault
    /\ UNCHANGED <<options, choice, part, threads, tasks, dirs, outcome,
                   detached>>

(* Mutant: the directory is kept for every failure. *)
KeptOnFailure == opts.retain /\ targetResult # "successful"

Kept == opts.retain /\ targetResult \notin {"none", "successful"}

RemoveCredentials ==
    /\ To("removing", "over")
    /\ credentials' = Kept
    /\ UNCHANGED <<options, choice, part, threads, tasks, jobDirs, outcome,
                   runFaults, detached>>

(* The handler of the example adds a row under the number it was given.     *)
CallerWrites ==
    /\ To("over", "done") /\ ~lite
    /\ result = "successful"
    /\ Writes(resultCounter, "caller") \/ WriteRaises(resultCounter, "caller")
    /\ UNCHANGED <<options, choice, part, threads, counter, dirs, outcome,
                   detached>>

-----------------------------------------------------------------------------

RunNext ==
    \/ Startup
    \/ \E o \in Options : UpdateSetting(o)
    \/ LaunchConfigured
    \/ LaunchOverriding
    \/ \E p \in Parts :
          \/ EventRecorded(p)
          \/ EventCounted(p)
          \/ EventRaises(p)
          \/ PlaybookEnds(p)
    \/ Prepare
    \/ PrepareRaises
    \/ StartPart
    \/ StartRaises
    \/ StartFailureRecorded
    \/ StartFailureRaises
    \/ LiteStartRaises
    \/ Joined
    \/ MonitoringRaises
    \/ InternalRecorded
    \/ InternalRaises
    \/ InternalCounted
    \/ Abandon
    \/ FailureRecorded
    \/ FailureRaises
    \/ Finally
    \/ CleanupNotLoaded
    \/ RemoveCredentials
    \/ CallerWrites

RunSpec == RunInit /\ [][RunNext]_runVars

-----------------------------------------------------------------------------
(* Correctness.                                                             *)

(* The shape of the state. *)
RunTypeOK ==
    /\ stored \in Options /\ configured \in Options /\ opts \in Options
    /\ updates \in 0 .. MaxUpdates
    /\ lite \in BOOLEAN /\ cleanup \in BOOLEAN /\ broken \in SUBSET Parts
    /\ main \in {"down", "up", "loading", "starting", "startFailed",
                 "monitoring", "recording", "recordingBad", "counting",
                 "countingBad", "artifacts", "countingArtifacts",
                 "abandoning", "raising", "finally", "removing", "over",
                 "done"}
    /\ part \in Parts
    /\ play \in [Parts -> {"none", "running", "successful", "failed"}]
    /\ owes \in SUBSET Parts
    /\ counter \in Nat /\ resultCounter \in Nat
    /\ row \in [TaskId -> Parts \cup {"none", "failure", "caller"}]
    /\ credentials \in BOOLEAN /\ jobDirs \in SUBSET Parts
    /\ targetResult \in {"none", "successful", "failed"}
    /\ result \in {"none", "successful", "failed", "raised"}
    /\ runFaults \in 0 .. MaxRunFaults
    /\ refused \in SUBSET ((Parts \cup {"failure", "caller"}) \X Nat)
    /\ doubtful \in SUBSET TaskId
    /\ detached \in BOOLEAN

(* No playbook of the run that somebody waits for loses the credentials it  *)
(* was given: the directory is removed after the last of them has ended.    *)
CredentialsOutliveTheirUse ==
    \A p \in Parts :
        play[p] = "running" /\ opts.hooks /\ ~lite /\ ~(p = "target" /\ detached)
            => credentials

(* What a run leaves behind has a cause: the credentials were to be kept    *)
(* because the target failed, or the cleanup raised; a job directory stays  *)
(* only if its start failed and the row about it could not be written.      *)
LeftoversHaveACause ==
    main \in {"over", "done"} =>
        /\ credentials => \/ opts.retain /\ targetResult = "failed"
                          \/ result = "raised" /\ part = "cleanup"
        /\ \A p \in jobDirs :
              /\ play[p] = "none"
              /\ (\E w \in refused : w[1] = "failure") \/ runFaults > 0

(* A FAILURE row has the number, which the runner does not count; or a row  *)
(* whose INSERT raised; or the caller was given the number of a cleanup     *)
(* row; or a target that is not waited for shares the counter; or the       *)
(* numbers are exhausted.                                                   *)
CauseToRefuse(who, n) ==
    \/ n > MaxTaskId
    \/ row[n] = "failure"
    \/ n \in doubtful
    \/ who = "caller" /\ row[n] = "cleanup"
    \/ detached

(* A task number is refused only for one of these causes. *)
NumbersAreRefusedForCause == \A w \in refused : CauseToRefuse(w[1], w[2])

(* playbooks/README.md: "The credential directory is removed after          *)
(* execution unless artifact retention on failure is explicitly enabled."   *)
CredentialDirRemoved ==
    main \in {"over", "done"} /\ ~opts.retain => ~credentials

(* playbooks/README.md: "settings updates and resets refresh the in-memory  *)
(* options for subsequent playbook runs."                                   *)
RunsFollowSettings == [][LaunchConfigured => opts' = stored]_runVars
=============================================================================
