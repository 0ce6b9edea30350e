------------------------------- MODULE CompOS -------------------------------
(***************************************************************************)
(* CompOS (compos/src): runs of pvm_exec, each with the processes that it  *)
(* brings to life.                                                         *)
(*                                                                         *)
(*   pvm_exec -- spawns --> fd_server, which serves the files of the run   *)
(*      | execute() of the service compsvc                                 *)
(*      v                                                                  *)
(*   compsvc_worker -- spawns --> authfs, which mounts the files           *)
(*      | once authfs is mounted                                           *)
(*      v                                                                  *)
(*   the task, which reads and writes through authfs and fd_server         *)
(*                                                                         *)
(* Processes start on their own time; the one that spawns does not wait.   *)
(* All fd_servers register under the one name "authfs_fd_server".  Any     *)
(* process may crash, up to MaxCrashes in all.                             *)
(***************************************************************************)
EXTENDS Integers

CONSTANTS Runs,         \* runs of pvm_exec
          NoRun,
          MaxPolls,     \* AUTHFS_SETUP_TIMEOUT_SEC in poll intervals
          MaxCrashes

ASSUME NoRunAssumption == NoRun \notin Runs
ASSUME BoundsAssumption == MaxPolls \in Nat /\ MaxCrashes \in Nat

VARIABLES pvm,          \* where each pvm_exec is
          fd_server,    \* the fd_server of each run
          registered,   \* whose fd_server the service manager knows
          compsvc,      \* "up" or "down"
          worker,       \* where each compsvc_worker is
          polls,        \* how often it slept while waiting for authfs
          authfs,       \* the authfs of each run
          backend,      \* whose fd_server it talks to, NoRun when it ended
          task,         \* the task of each run
          strayed,      \* history: runs whose task wrote another run's files
          overlapping,  \* history: runs that were in progress at one time
          faulty,       \* history: runs that lost a process
          crashes       \* how many crashes there were

vars == <<pvm, fd_server, registered, compsvc, worker, polls, authfs, backend,
          task, strayed, overlapping, faulty, crashes>>
guest == <<worker, polls, authfs, backend, task, strayed>>
history == <<overlapping, faulty, crashes>>

InProgress == {"spawned", "calling", "succeeded", "erred"}
Ended == {"ok", "failed", "panicked", "killed"}

Init == /\ pvm = [p \in Runs |-> "new"]
        /\ fd_server = [p \in Runs |-> "none"]
        /\ registered = NoRun
        /\ compsvc = "up"
        /\ worker = [p \in Runs |-> "none"]
        /\ polls = [p \in Runs |-> 0]
        /\ authfs = [p \in Runs |-> "none"]
        /\ backend = [p \in Runs |-> NoRun]
        /\ task = [p \in Runs |-> "none"]
        /\ strayed = {}
        /\ overlapping = {}
        /\ faulty = {}
        /\ crashes = 0

-----------------------------------------------------------------------------
\* pvm_exec

\* parse_args and spawn_fd_server.
Start(p) ==
    /\ pvm[p] = "new"
    /\ pvm' = [pvm EXCEPT ![p] = "spawned"]
    /\ fd_server' = [fd_server EXCEPT ![p] = "starting"]
    /\ LET others == {q \in Runs : pvm[q] \in InProgress}
       IN  overlapping' = overlapping \cup (IF others = {} THEN {} ELSE others \cup {p})
    /\ UNCHANGED <<registered, compsvc, guest, faulty, crashes>>

\* Arguments that do not parse, bad file descriptors, a jail that does not run.
StartFails(p) ==
    /\ pvm[p] = "new"
    /\ pvm' = [pvm EXCEPT ![p] = "failed"]
    /\ UNCHANGED <<fd_server, registered, compsvc, guest, history>>

\* The call of execute(), which makes compsvc run a worker in a jail.
Execute(p) ==
    /\ pvm[p] = "spawned" /\ compsvc = "up"
    /\ pvm' = [pvm EXCEPT ![p] = "calling"]
    /\ worker' = [worker EXCEPT ![p] = "starting"]
    /\ UNCHANGED <<fd_server, registered, compsvc, polls, authfs, backend, task,
                   strayed, history>>

\* get_local_service panics.  Whether the guard that kills fd_server runs
\* depends on the panic strategy of the build.
CompsvcUnreachable(p) ==
    /\ pvm[p] = "spawned" /\ compsvc = "down"
    /\ pvm' = [pvm EXCEPT ![p] = "panicked"]
    /\ \/ fd_server' = [fd_server EXCEPT ![p] = "dead"]
       \/ UNCHANGED fd_server
    /\ UNCHANGED <<registered, compsvc, guest, history>>

\* Mutant: looks only for an exit code, which a killed worker does not have.
ExecuteReturnsLenient(p) ==
    /\ pvm[p] = "calling" /\ compsvc = "up"
    /\ worker[p] \in {"ok", "failed", "killed"}
    /\ pvm' = [pvm EXCEPT ![p] = IF worker[p] = "failed" THEN "erred" ELSE "succeeded"]
    /\ UNCHANGED <<fd_server, registered, compsvc, guest, history>>

\* jail.wait() returns in compsvc, and with it the call: Ok(0) if the worker
\* succeeded, otherwise an error status.
ExecuteReturns(p) ==
    /\ pvm[p] = "calling" /\ compsvc = "up"
    /\ worker[p] \in {"ok", "failed", "killed"}
    /\ pvm' = [pvm EXCEPT ![p] = IF worker[p] = "ok" THEN "succeeded" ELSE "erred"]
    /\ UNCHANGED <<fd_server, registered, compsvc, guest, history>>

\* The call ends with an error when compsvc is gone.
CallDies(p) ==
    /\ pvm[p] = "calling" /\ compsvc = "down"
    /\ pvm' = [pvm EXCEPT ![p] = "erred"]
    /\ UNCHANGED <<fd_server, registered, compsvc, guest, history>>

Returned(p) == IF pvm[p] = "succeeded" THEN "ok" ELSE "failed"

\* Mutant: an error returns before the guard is in place.
ReturnsUnguarded(p) ==
    /\ pvm[p] \in {"succeeded", "erred"}
    /\ fd_server' = [fd_server EXCEPT ![p] = IF pvm[p] = "succeeded" THEN "dead" ELSE @]
    /\ pvm' = [pvm EXCEPT ![p] = Returned(p)]
    /\ UNCHANGED <<registered, compsvc, guest, history>>

\* Mutant: fd_server is left to end by itself.
ReturnsKeepingServer(p) ==
    /\ pvm[p] \in {"succeeded", "erred"}
    /\ pvm' = [pvm EXCEPT ![p] = Returned(p)]
    /\ UNCHANGED <<fd_server, registered, compsvc, guest, history>>

\* fd_server_lifetime is dropped: fd_server is killed and waited for.
Returns(p) ==
    /\ pvm[p] \in {"succeeded", "erred"}
    /\ fd_server' = [fd_server EXCEPT ![p] = "dead"]
    /\ pvm' = [pvm EXCEPT ![p] = Returned(p)]
    /\ UNCHANGED <<registered, compsvc, guest, history>>

-----------------------------------------------------------------------------
\* fd_server

\* add_service replaces whatever was registered under the name.
FdServerServes(p) ==
    /\ fd_server[p] = "starting"
    /\ fd_server' = [fd_server EXCEPT ![p] = "serving"]
    /\ registered' = p
    /\ UNCHANGED <<pvm, compsvc, guest, history>>

\* A file descriptor is bad, or a file to be strayed is not empty.
FdServerFails(p) ==
    /\ fd_server[p] = "starting"
    /\ fd_server' = [fd_server EXCEPT ![p] = "dead"]
    /\ faulty' = faulty \cup {p}
    /\ UNCHANGED <<pvm, registered, compsvc, guest, overlapping, crashes>>

\* The service manager learns of a death some time later.
ServiceManagerForgets ==
    /\ registered # NoRun /\ fd_server[registered] = "dead"
    /\ registered' = NoRun
    /\ UNCHANGED <<pvm, fd_server, compsvc, guest, history>>

-----------------------------------------------------------------------------
\* authfs

Host == <<pvm, fd_server, registered, compsvc>>

\* prepare_file_pool: get_local_binder finds whatever is registered.
AuthfsConnects(p) ==
    /\ authfs[p] = "starting" /\ registered # NoRun
    /\ authfs' = [authfs EXCEPT ![p] = "connected"]
    /\ backend' = [backend EXCEPT ![p] = registered]
    /\ UNCHANGED <<Host, worker, polls, task, strayed, history>>

\* loop_forever
AuthfsMounts(p) ==
    /\ authfs[p] = "connected"
    /\ authfs' = [authfs EXCEPT ![p] = "mounted"]
    /\ UNCHANGED <<Host, worker, polls, backend, task, strayed, history>>

\* No service under the name in time, or no mount: both are panics.
AuthfsFails(p) ==
    /\ \/ authfs[p] = "starting" /\ registered = NoRun
       \/ authfs[p] = "connected"
    /\ authfs' = [authfs EXCEPT ![p] = "dead"]
    /\ backend' = [backend EXCEPT ![p] = NoRun]
    /\ faulty' = faulty \cup {p}
    /\ UNCHANGED <<Host, worker, polls, task, strayed, overlapping, crashes>>

\* What the end of an authfs leaves: a mount without a server, if it had one.
EndOfAuthfs(s) == IF s \in {"mounted", "disconnected"} THEN "disconnected" ELSE "dead"

-----------------------------------------------------------------------------
\* compsvc_worker

\* spawn_authfs
WorkerStarts(p) ==
    /\ worker[p] = "starting"
    /\ worker' = [worker EXCEPT ![p] = "polling"]
    /\ authfs' = [authfs EXCEPT ![p] = "starting"]
    /\ UNCHANGED <<Host, polls, backend, task, strayed, history>>

\* The jail of the worker or that of authfs does not run.
WorkerStartFails(p) ==
    /\ worker[p] = "starting"
    /\ worker' = [worker EXCEPT ![p] = "failed"]
    /\ UNCHANGED <<Host, polls, authfs, backend, task, strayed, history>>

\* The worker returns, and authfs_lifetime kills authfs.
WorkerExits(p, result) ==
    /\ worker' = [worker EXCEPT ![p] = result]
    /\ polls' = [polls EXCEPT ![p] = 0]
    /\ authfs' = [authfs EXCEPT ![p] = EndOfAuthfs(@)]
    /\ backend' = [backend EXCEPT ![p] = NoRun]
    /\ UNCHANGED <<Host, task, strayed, history>>

\* wait_until_authfs_ready: is_fuse, which fails on a mount without a server.
Polls(p) ==
    /\ worker[p] = "polling"
    /\ \/ /\ authfs[p] = "disconnected"
          /\ WorkerExits(p, "failed")
       \/ /\ authfs[p] \notin {"disconnected", "mounted"}
          /\ worker' = [worker EXCEPT ![p] = "checking"]
          /\ UNCHANGED <<Host, polls, authfs, backend, task, strayed, history>>
       \/ /\ authfs[p] = "mounted"
          /\ worker' = [worker EXCEPT ![p] = "opening"]
          /\ polls' = [polls EXCEPT ![p] = 0]
          /\ UNCHANGED <<Host, authfs, backend, task, strayed, history>>

\* Mutant: the start time is taken anew in every round.
SleepsForever(p) ==
    /\ worker[p] = "checking"
    /\ worker' = [worker EXCEPT ![p] = "polling"]
    /\ UNCHANGED <<Host, polls, authfs, backend, task, strayed, history>>

\* Mutant: sleeps once more when time is out.
SleepsOnceMore(p) ==
    /\ worker[p] = "checking" /\ polls[p] <= MaxPolls
    /\ worker' = [worker EXCEPT ![p] = "polling"]
    /\ polls' = [polls EXCEPT ![p] = @ + 1]
    /\ UNCHANGED <<Host, authfs, backend, task, strayed, history>>

\* Not mounted and not late yet.
Sleeps(p) ==
    /\ worker[p] = "checking" /\ polls[p] < MaxPolls
    /\ worker' = [worker EXCEPT ![p] = "polling"]
    /\ polls' = [polls EXCEPT ![p] = @ + 1]
    /\ UNCHANGED <<Host, authfs, backend, task, strayed, history>>

\* Time is out, even if authfs was mounted since the last look.
TimesOut(p) ==
    /\ worker[p] = "checking"
    /\ WorkerExits(p, "failed")

\* open_authfs_files_for_mapping and spawn_jailed_task.
SpawnsTask(p) ==
    /\ worker[p] = "opening" /\ authfs[p] = "mounted"
    /\ worker' = [worker EXCEPT ![p] = "waiting"]
    /\ task' = [task EXCEPT ![p] = "running"]
    /\ UNCHANGED <<Host, polls, authfs, backend, strayed, history>>

\* A file does not open, as when authfs is gone, or the jail does not run.
SpawnFails(p) ==
    /\ worker[p] = "opening"
    /\ WorkerExits(p, "failed")

\* Mutant: the lifetime of authfs ends before the wait.
WorkerEndsEarly(p) ==
    /\ worker[p] = "waiting"
    /\ authfs[p] = "mounted" \/ task[p] \in {"ok", "failed"}
    /\ WorkerExits(p, IF task[p] = "running" THEN "waiting" ELSE task[p])

\* jail.wait() returns.
WorkerEnds(p) ==
    /\ worker[p] = "waiting" /\ task[p] \in {"ok", "failed"}
    /\ WorkerExits(p, task[p])

-----------------------------------------------------------------------------
\* The task

TaskWrites(p) ==
    /\ task[p] = "running" /\ authfs[p] = "mounted"
    /\ fd_server[backend[p]] = "serving"
    /\ strayed' = strayed \cup ({p} \ {backend[p]})
    /\ UNCHANGED <<Host, worker, polls, authfs, backend, task, history>>

TaskExits(p, result) ==
    /\ task[p] = "running"
    /\ task' = [task EXCEPT ![p] = result]
    /\ UNCHANGED <<Host, worker, polls, authfs, backend, strayed, history>>

-----------------------------------------------------------------------------
\* Crashes, from outside.  Children live on, and guards do not run.

Crash(p) ==
    /\ crashes < MaxCrashes
    /\ crashes' = crashes + 1
    /\ faulty' = faulty \cup {p}
    /\ UNCHANGED <<registered, compsvc, task, strayed, overlapping>>
    /\ \/ /\ pvm[p] \in InProgress
          /\ pvm' = [pvm EXCEPT ![p] = "killed"]
          /\ UNCHANGED <<fd_server, worker, polls, authfs, backend>>
       \/ /\ fd_server[p] \in {"starting", "serving"}
          /\ fd_server' = [fd_server EXCEPT ![p] = "dead"]
          /\ UNCHANGED <<pvm, worker, polls, authfs, backend>>
       \/ /\ worker[p] \in {"starting", "polling", "checking", "opening", "waiting"}
          /\ worker' = [worker EXCEPT ![p] = "killed"]
          /\ polls' = [polls EXCEPT ![p] = 0]
          /\ UNCHANGED <<pvm, fd_server, authfs, backend>>
       \/ /\ authfs[p] \in {"starting", "connected", "mounted"}
          /\ authfs' = [authfs EXCEPT ![p] = EndOfAuthfs(@)]
          /\ backend' = [backend EXCEPT ![p] = NoRun]
          /\ UNCHANGED <<pvm, fd_server, worker, polls>>

CompsvcCrashes ==
    /\ compsvc = "up" /\ crashes < MaxCrashes
    /\ compsvc' = "down"
    /\ crashes' = crashes + 1
    /\ faulty' = Runs
    /\ UNCHANGED <<pvm, fd_server, registered, guest, overlapping>>

-----------------------------------------------------------------------------
PvmStep(p) == \/ Execute(p) \/ CompsvcUnreachable(p)
              \/ ExecuteReturns(p) \/ CallDies(p) \/ Returns(p)
FdServerStep(p) == FdServerServes(p) \/ FdServerFails(p)
AuthfsStep(p) == AuthfsConnects(p) \/ AuthfsMounts(p) \/ AuthfsFails(p)
WorkerStep(p) == \/ WorkerStarts(p) \/ WorkerStartFails(p)
                 \/ Polls(p) \/ Sleeps(p) \/ TimesOut(p)
                 \/ SpawnsTask(p) \/ SpawnFails(p) \/ WorkerEnds(p)
TaskStep(p) == TaskWrites(p) \/ \E result \in {"ok", "failed"} : TaskExits(p, result)

Next == \/ \E p \in Runs : \/ Start(p) \/ StartFails(p)
                           \/ PvmStep(p) \/ FdServerStep(p) \/ AuthfsStep(p)
                           \/ WorkerStep(p) \/ TaskStep(p) \/ Crash(p)
        \/ ServiceManagerForgets
        \/ CompsvcCrashes

\* Processes that can go on do.  A user need not start a run, and a task need
\* not write or end.
Fairness == \A p \in Runs : /\ WF_vars(PvmStep(p))
                            /\ WF_vars(FdServerStep(p))
                            /\ WF_vars(AuthfsStep(p))
                            /\ WF_vars(WorkerStep(p))

Spec == Init /\ [][Next]_vars
FairSpec == Spec /\ Fairness

-----------------------------------------------------------------------------
\* The states of the processes of a run; the polls of wait_until_authfs_ready
\* stay within the timeout.
TypeOK ==
    /\ pvm \in [Runs -> {"new"} \cup InProgress \cup Ended]
    /\ fd_server \in [Runs -> {"none", "starting", "serving", "dead"}]
    /\ registered \in Runs \cup {NoRun}
    /\ compsvc \in {"up", "down"}
    /\ worker \in [Runs -> {"none", "starting", "polling", "checking", "opening",
                            "waiting", "ok", "failed", "killed"}]
    /\ polls \in [Runs -> 0 .. MaxPolls]
    /\ authfs \in [Runs -> {"none", "starting", "connected", "mounted", "disconnected", "dead"}]
    /\ backend \in [Runs -> Runs \cup {NoRun}]
    /\ task \in [Runs -> {"none", "running", "ok", "failed"}]
    /\ strayed \subseteq Runs /\ overlapping \subseteq Runs /\ faulty \subseteq Runs
    /\ crashes \in 0 .. MaxCrashes

\* While a task runs, the guards of pvm_exec and of compsvc_worker have not
\* ended the fd_server and the authfs behind its files: their lifetime "should
\* last at least until the task is finished" (pvm_exec.rs:161, compsvc_worker.rs:223).
FilesOutliveTask ==
    \A p \in Runs \ faulty : task[p] = "running" =>
        authfs[p] = "mounted" /\ fd_server[p] \in {"starting", "serving"}

\* When pvm_exec returned, with or without success, no process of its run is
\* left, unless one of them crashed: every early return of pvm_exec and of
\* compsvc_worker drops its guard.
NothingLeftBehind ==
    \A p \in Runs \ faulty : pvm[p] \in {"ok", "failed"} =>
        /\ fd_server[p] \in {"none", "dead"}
        /\ worker[p] \in {"none", "ok", "failed"}
        /\ authfs[p] \in {"none", "disconnected", "dead"}
        /\ task[p] # "running"

\* pvm_exec succeeds only if the task ran and succeeded, whatever crashed.
SuccessIsTheTasks == \A p \in Runs : pvm[p] = "ok" => task[p] = "ok"

\* Runs one after the other do not touch each other's files, although their
\* fd_servers share one name and the service manager forgets a dead one late.
TasksUseOwnFiles ==
    faulty = {} => strayed \subseteq overlapping

\* pvm_exec returns: no run is in progress for ever unless its task runs.  Until
\* there is a task every wait is bounded, that for an authfs that never mounts by
\* wait_until_authfs_ready; and when the task has ended, which it does once,
\* pvm_exec returns without further ado.
RunsReturn ==
    \A p \in Runs : []<>(pvm[p] \notin InProgress \/ task[p] = "running")
=============================================================================
