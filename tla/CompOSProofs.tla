---------------------------- MODULE CompOSProofs ----------------------------
(***************************************************************************)
(* The safety invariants of CompOS hold for any number of runs of          *)
(* pvm_exec, any number of crashes and any timeout.                        *)
(***************************************************************************)
EXTENDS CompOS, TLAPS

\* The phases of a worker that lost no process, with its authfs and its task.
WorkerPhase(p) ==
    \/ worker[p] = "starting" /\ authfs[p] = "none" /\ task[p] = "none"
    \/ /\ worker[p] \in {"polling", "checking"} /\ task[p] = "none"
       /\ authfs[p] \in {"starting", "connected", "mounted"}
    \/ worker[p] = "opening" /\ authfs[p] = "mounted" /\ task[p] = "none"
    \/ worker[p] = "waiting" /\ authfs[p] = "mounted" /\ task[p] \in {"running", "ok", "failed"}

WorkerDone(p) ==
    /\ worker[p] \in {"ok", "failed"} /\ task[p] # "running"
    /\ authfs[p] \in {"none", "disconnected", "dead"}

WorkerAbsent(p) == worker[p] = "none" /\ authfs[p] = "none" /\ task[p] = "none"

\* The phases of a run that lost no process.
RunPhase(p) ==
    \/ pvm[p] = "new" /\ fd_server[p] = "none" /\ WorkerAbsent(p)
    \/ /\ fd_server[p] \in {"starting", "serving"}
       /\ \/ pvm[p] = "spawned" /\ WorkerAbsent(p)
          \/ pvm[p] = "calling" /\ (WorkerPhase(p) \/ WorkerDone(p))
          \/ pvm[p] \in {"succeeded", "erred"} /\ WorkerDone(p)
    \/ /\ pvm[p] \in {"ok", "failed"} /\ fd_server[p] \in {"none", "dead"}
       /\ WorkerAbsent(p) \/ WorkerDone(p)

\* Success travels from the task to the worker to pvm_exec, in every run.
SuccessPassedOn(p) ==
    /\ worker[p] = "ok" => task[p] = "ok"
    /\ pvm[p] \in {"succeeded", "ok"} => worker[p] = "ok"

Connected(p) == authfs[p] \in {"connected", "mounted"} => backend[p] # NoRun

IInv ==
    /\ TypeOK
    /\ compsvc = "down" => faulty = Runs
    /\ \A p \in Runs \ faulty : RunPhase(p)
    /\ \A p \in Runs : SuccessPassedOn(p) /\ Connected(p)
    /\ \A p, q \in Runs : p # q /\ pvm[p] \in InProgress /\ pvm[q] \in InProgress =>
          p \in overlapping
    /\ TasksUseOwnFiles

-----------------------------------------------------------------------------
\* No run has begun.
LEMMA InitInv == Init => IInv
BY NoRunAssumption, BoundsAssumption
   DEF Init, IInv, TypeOK, RunPhase, WorkerAbsent, SuccessPassedOn, Connected, TasksUseOwnFiles,
       InProgress, Ended

\* A step of run p that touches no other run and adds to the histories only.
LEMMA OneRun ==
    ASSUME IInv, TypeOK', NEW p \in Runs,
           \A q \in Runs \ {p} :
              /\ pvm'[q] = pvm[q] /\ fd_server'[q] = fd_server[q] /\ worker'[q] = worker[q]
              /\ authfs'[q] = authfs[q] /\ backend'[q] = backend[q] /\ task'[q] = task[q],
           compsvc' = "down" => faulty' = Runs,
           faulty \subseteq faulty', p \notin faulty' => RunPhase(p)',
           SuccessPassedOn(p)', Connected(p)',
           pvm'[p] \in InProgress => pvm[p] \in InProgress,
           UNCHANGED <<strayed, overlapping>>
    PROVE  IInv'
<1>1. \A q \in Runs \ faulty' : RunPhase(q)'
  BY DEF IInv, RunPhase, WorkerAbsent, WorkerPhase, WorkerDone
<1>2. \A q \in Runs : SuccessPassedOn(q)' /\ Connected(q)'
  BY DEF IInv, SuccessPassedOn, Connected
<1>3. \A q, r \in Runs : q # r /\ pvm'[q] \in InProgress /\ pvm'[r] \in InProgress =>
          q \in overlapping'
  BY DEF IInv
<1>4. TasksUseOwnFiles'
  BY DEF IInv, TasksUseOwnFiles, TypeOK
<1>5. QED
  BY <1>1, <1>2, <1>3, <1>4 DEF IInv

\* Starting a run: whatever else is in progress overlaps with it.
LEMMA StartInv ==
    ASSUME IInv, NEW p \in Runs, Start(p)
    PROVE  IInv'
<1> USE DEF Start, guest
<1>1. TypeOK'
  BY DEF IInv, TypeOK, InProgress
<1>2. \A q \in Runs \ faulty' : RunPhase(q)'
  BY DEF IInv, TypeOK, RunPhase, WorkerAbsent, WorkerPhase, WorkerDone
<1>3. \A q \in Runs : SuccessPassedOn(q)' /\ Connected(q)'
  BY DEF IInv, TypeOK, SuccessPassedOn, Connected
<1>4. \A q, r \in Runs : q # r /\ pvm'[q] \in InProgress /\ pvm'[r] \in InProgress =>
          q \in overlapping'
  BY DEF IInv, TypeOK
<1>5. TasksUseOwnFiles'
  BY DEF IInv, TasksUseOwnFiles
<1>6. QED
  BY <1>1, <1>2, <1>3, <1>4, <1>5 DEF IInv

\* A run that does not start.
LEMMA StartFailsInv ==
    ASSUME IInv, NEW p \in Runs, StartFails(p)
    PROVE  IInv'
<1> USE DEF StartFails, guest, history
<1>1. TypeOK'
  BY BoundsAssumption DEF IInv, TypeOK, InProgress, Ended
<1>2. \A q \in Runs \ {p} :
         /\ pvm'[q] = pvm[q] /\ fd_server'[q] = fd_server[q] /\ worker'[q] = worker[q]
         /\ authfs'[q] = authfs[q] /\ backend'[q] = backend[q] /\ task'[q] = task[q]
  BY DEF IInv, TypeOK
<1>3. (compsvc' = "down" => faulty' = Runs) /\ faulty \subseteq faulty'
  BY DEF IInv
<1>4. p \notin faulty' => RunPhase(p)'
  BY DEF IInv, TypeOK, RunPhase, WorkerAbsent, WorkerPhase, WorkerDone
<1>5. SuccessPassedOn(p)' /\ Connected(p)'
  BY NoRunAssumption DEF IInv, TypeOK, SuccessPassedOn, Connected
<1>6. pvm'[p] \in InProgress => pvm[p] \in InProgress
  BY DEF IInv, TypeOK, InProgress
<1>7. UNCHANGED <<strayed, overlapping>>
  OBVIOUS
<1>8. QED
  BY <1>1, <1>2, <1>3, <1>4, <1>5, <1>6, <1>7, OneRun

\* The steps of a pvm_exec that started.
LEMMA PvmInv ==
    ASSUME IInv, NEW p \in Runs, PvmStep(p)
    PROVE  IInv'
<1> USE DEF PvmStep, Execute, CompsvcUnreachable, ExecuteReturns, CallDies, Returns, Returned, guest, history
<1>1. TypeOK'
  BY BoundsAssumption DEF IInv, TypeOK, InProgress, Ended
<1>2. \A q \in Runs \ {p} :
         /\ pvm'[q] = pvm[q] /\ fd_server'[q] = fd_server[q] /\ worker'[q] = worker[q]
         /\ authfs'[q] = authfs[q] /\ backend'[q] = backend[q] /\ task'[q] = task[q]
  BY DEF IInv, TypeOK
<1>3. (compsvc' = "down" => faulty' = Runs) /\ faulty \subseteq faulty'
  BY DEF IInv
<1>4. p \notin faulty' => RunPhase(p)'
  BY DEF IInv, TypeOK, RunPhase, WorkerAbsent, WorkerPhase, WorkerDone
<1>5. SuccessPassedOn(p)' /\ Connected(p)'
  BY NoRunAssumption DEF IInv, TypeOK, SuccessPassedOn, Connected
<1>6. pvm'[p] \in InProgress => pvm[p] \in InProgress
  BY DEF IInv, TypeOK, InProgress
<1>7. UNCHANGED <<strayed, overlapping>>
  OBVIOUS
<1>8. QED
  BY <1>1, <1>2, <1>3, <1>4, <1>5, <1>6, <1>7, OneRun

\* The steps of an fd_server.
LEMMA FdServerInv ==
    ASSUME IInv, NEW p \in Runs, FdServerStep(p)
    PROVE  IInv'
<1> USE DEF FdServerStep, FdServerServes, FdServerFails, guest, history
<1>1. TypeOK'
  BY BoundsAssumption DEF IInv, TypeOK, InProgress, Ended
<1>2. \A q \in Runs \ {p} :
         /\ pvm'[q] = pvm[q] /\ fd_server'[q] = fd_server[q] /\ worker'[q] = worker[q]
         /\ authfs'[q] = authfs[q] /\ backend'[q] = backend[q] /\ task'[q] = task[q]
  BY DEF IInv, TypeOK
<1>3. (compsvc' = "down" => faulty' = Runs) /\ faulty \subseteq faulty'
  BY DEF IInv
<1>4. p \notin faulty' => RunPhase(p)'
  BY DEF IInv, TypeOK, RunPhase, WorkerAbsent, WorkerPhase, WorkerDone
<1>5. SuccessPassedOn(p)' /\ Connected(p)'
  BY NoRunAssumption DEF IInv, TypeOK, SuccessPassedOn, Connected
<1>6. pvm'[p] \in InProgress => pvm[p] \in InProgress
  BY DEF IInv, TypeOK, InProgress
<1>7. UNCHANGED <<strayed, overlapping>>
  OBVIOUS
<1>8. QED
  BY <1>1, <1>2, <1>3, <1>4, <1>5, <1>6, <1>7, OneRun

\* The steps of an authfs.
LEMMA AuthfsInv ==
    ASSUME IInv, NEW p \in Runs, AuthfsStep(p)
    PROVE  IInv'
<1> USE DEF AuthfsStep, AuthfsConnects, AuthfsMounts, AuthfsFails, Host, history
<1>1. TypeOK'
  BY BoundsAssumption DEF IInv, TypeOK, InProgress, Ended
<1>2. \A q \in Runs \ {p} :
         /\ pvm'[q] = pvm[q] /\ fd_server'[q] = fd_server[q] /\ worker'[q] = worker[q]
         /\ authfs'[q] = authfs[q] /\ backend'[q] = backend[q] /\ task'[q] = task[q]
  BY DEF IInv, TypeOK
<1>3. (compsvc' = "down" => faulty' = Runs) /\ faulty \subseteq faulty'
  BY DEF IInv
<1>4. p \notin faulty' => RunPhase(p)'
  BY DEF IInv, TypeOK, RunPhase, WorkerAbsent, WorkerPhase, WorkerDone
<1>5. SuccessPassedOn(p)' /\ Connected(p)'
  BY NoRunAssumption DEF IInv, TypeOK, SuccessPassedOn, Connected
<1>6. pvm'[p] \in InProgress => pvm[p] \in InProgress
  BY DEF IInv, TypeOK, InProgress
<1>7. UNCHANGED <<strayed, overlapping>>
  OBVIOUS
<1>8. QED
  BY <1>1, <1>2, <1>3, <1>4, <1>5, <1>6, <1>7, OneRun

\* The steps of a compsvc_worker.
LEMMA WorkerInv ==
    ASSUME IInv, NEW p \in Runs, WorkerStep(p)
    PROVE  IInv'
<1> USE DEF WorkerStep, WorkerStarts, WorkerStartFails, Polls, Sleeps, TimesOut, SpawnsTask, SpawnFails, WorkerEnds, WorkerExits, EndOfAuthfs, Host, history
<1>1. TypeOK'
  BY BoundsAssumption DEF IInv, TypeOK, InProgress, Ended
<1>2. \A q \in Runs \ {p} :
         /\ pvm'[q] = pvm[q] /\ fd_server'[q] = fd_server[q] /\ worker'[q] = worker[q]
         /\ authfs'[q] = authfs[q] /\ backend'[q] = backend[q] /\ task'[q] = task[q]
  BY DEF IInv, TypeOK
<1>3. (compsvc' = "down" => faulty' = Runs) /\ faulty \subseteq faulty'
  BY DEF IInv
<1>4. p \notin faulty' => RunPhase(p)'
  BY DEF IInv, TypeOK, RunPhase, WorkerAbsent, WorkerPhase, WorkerDone
<1>5. SuccessPassedOn(p)' /\ Connected(p)'
  BY NoRunAssumption DEF IInv, TypeOK, SuccessPassedOn, Connected
<1>6. pvm'[p] \in InProgress => pvm[p] \in InProgress
  BY DEF IInv, TypeOK, InProgress
<1>7. UNCHANGED <<strayed, overlapping>>
  OBVIOUS
<1>8. QED
  BY <1>1, <1>2, <1>3, <1>4, <1>5, <1>6, <1>7, OneRun

\* The end of a task.
LEMMA TaskExitsInv ==
    ASSUME IInv, NEW p \in Runs, NEW result \in {"ok", "failed"}, TaskExits(p, result)
    PROVE  IInv'
<1> USE DEF TaskExits, Host, history
<1>1. TypeOK'
  BY BoundsAssumption DEF IInv, TypeOK, InProgress, Ended
<1>2. \A q \in Runs \ {p} :
         /\ pvm'[q] = pvm[q] /\ fd_server'[q] = fd_server[q] /\ worker'[q] = worker[q]
         /\ authfs'[q] = authfs[q] /\ backend'[q] = backend[q] /\ task'[q] = task[q]
  BY DEF IInv, TypeOK
<1>3. (compsvc' = "down" => faulty' = Runs) /\ faulty \subseteq faulty'
  BY DEF IInv
<1>4. p \notin faulty' => RunPhase(p)'
  BY DEF IInv, TypeOK, RunPhase, WorkerAbsent, WorkerPhase, WorkerDone
<1>5. SuccessPassedOn(p)' /\ Connected(p)'
  BY NoRunAssumption DEF IInv, TypeOK, SuccessPassedOn, Connected
<1>6. pvm'[p] \in InProgress => pvm[p] \in InProgress
  BY DEF IInv, TypeOK, InProgress
<1>7. UNCHANGED <<strayed, overlapping>>
  OBVIOUS
<1>8. QED
  BY <1>1, <1>2, <1>3, <1>4, <1>5, <1>6, <1>7, OneRun

\* The crash of one process of a run.
LEMMA CrashInv ==
    ASSUME IInv, NEW p \in Runs, Crash(p)
    PROVE  IInv'
<1> USE DEF Crash, EndOfAuthfs
<1>1. TypeOK'
  BY BoundsAssumption DEF IInv, TypeOK, InProgress, Ended
<1>2. \A q \in Runs \ {p} :
         /\ pvm'[q] = pvm[q] /\ fd_server'[q] = fd_server[q] /\ worker'[q] = worker[q]
         /\ authfs'[q] = authfs[q] /\ backend'[q] = backend[q] /\ task'[q] = task[q]
  BY DEF IInv, TypeOK
<1>3. (compsvc' = "down" => faulty' = Runs) /\ faulty \subseteq faulty'
  BY DEF IInv
<1>4. p \notin faulty' => RunPhase(p)'
  BY DEF IInv, TypeOK, RunPhase, WorkerAbsent, WorkerPhase, WorkerDone
<1>5. SuccessPassedOn(p)' /\ Connected(p)'
  BY NoRunAssumption DEF IInv, TypeOK, SuccessPassedOn, Connected
<1>6. pvm'[p] \in InProgress => pvm[p] \in InProgress
  BY DEF IInv, TypeOK, InProgress
<1>7. UNCHANGED <<strayed, overlapping>>
  OBVIOUS
<1>8. QED
  BY <1>1, <1>2, <1>3, <1>4, <1>5, <1>6, <1>7, OneRun

\* A write of a task: the fd_server that takes it is of a run in progress, so
\* that the two runs overlap unless they are the same.
LEMMA TaskWritesInv ==
    ASSUME IInv, NEW p \in Runs, TaskWrites(p)
    PROVE  IInv'
<1> USE DEF TaskWrites, Host, history
<1>1. TypeOK'
  BY DEF IInv, TypeOK
<1>2. backend[p] \in Runs
  BY DEF IInv, TypeOK, Connected
<1>3. TasksUseOwnFiles'
  <2> SUFFICES ASSUME faulty = {}, backend[p] # p
               PROVE  p \in overlapping
    BY DEF IInv, TasksUseOwnFiles
  <2>1. pvm[p] \in InProgress
    BY DEF IInv, RunPhase, WorkerAbsent, WorkerPhase, WorkerDone, InProgress
  <2>2. pvm[backend[p]] \in InProgress
    BY <1>2 DEF IInv, RunPhase, InProgress
  <2>3. QED
    BY <1>2, <2>1, <2>2 DEF IInv
<1>4. QED
  BY <1>1, <1>3 DEF IInv, RunPhase, WorkerAbsent, WorkerPhase, WorkerDone, SuccessPassedOn,
                    Connected

\* Every step keeps the invariant.
LEMMA NextInv == IInv /\ [Next]_vars => IInv'
<1> SUFFICES ASSUME IInv, [Next]_vars PROVE IInv'
  OBVIOUS
<1> USE DEF IInv, TypeOK, RunPhase, WorkerAbsent, WorkerPhase, WorkerDone, SuccessPassedOn,
            Connected, TasksUseOwnFiles
<1>1. CASE UNCHANGED vars
  BY <1>1 DEF vars
<1>2. CASE ServiceManagerForgets
  BY <1>2 DEF ServiceManagerForgets, guest, history
<1>3. CASE CompsvcCrashes
  BY <1>3, BoundsAssumption DEF CompsvcCrashes, guest
<1> HIDE DEF IInv
<1>4. ASSUME NEW p \in Runs,
             \/ Start(p) \/ StartFails(p) \/ PvmStep(p) \/ FdServerStep(p) \/ AuthfsStep(p)
             \/ WorkerStep(p) \/ TaskStep(p) \/ Crash(p)
      PROVE  IInv'
  BY <1>4, StartInv, StartFailsInv, PvmInv, FdServerInv, AuthfsInv, WorkerInv, TaskWritesInv,
     TaskExitsInv, CrashInv DEF TaskStep
<1>5. QED
  BY <1>1, <1>2, <1>3, <1>4 DEF Next

\* The inductive invariant holds in every reachable state.
LEMMA Invariance == Spec => []IInv
BY InitInv, NextInv, PTL DEF Spec

-----------------------------------------------------------------------------
\* The processes of a run stay in their states, and wait_until_authfs_ready never
\* polls longer than its timeout.
THEOREM TypeCorrect == Spec => []TypeOK
<1>1. IInv => TypeOK
  BY DEF IInv
<1>2. QED
  BY <1>1, Invariance, PTL

\* Neither pvm_exec nor compsvc_worker ends what a running task still uses
\* (fd_server_lifetime and authfs_lifetime).
THEOREM GuardsOutliveTask == Spec => []FilesOutliveTask
<1>1. IInv => FilesOutliveTask
  BY DEF IInv, FilesOutliveTask, RunPhase, WorkerAbsent, WorkerPhase, WorkerDone
<1>2. QED
  BY <1>1, Invariance, PTL

\* A run of pvm_exec that returned left no process behind, unless one crashed.
THEOREM RunsCleanUp == Spec => []NothingLeftBehind
<1>1. IInv => NothingLeftBehind
  BY DEF IInv, NothingLeftBehind, RunPhase, WorkerAbsent, WorkerPhase, WorkerDone
<1>2. QED
  BY <1>1, Invariance, PTL

\* pvm_exec reports success only if the task ran to success, whatever crashed.
THEOREM SuccessIsReal == Spec => []SuccessIsTheTasks
<1>1. IInv => SuccessIsTheTasks
  BY DEF IInv, SuccessIsTheTasks, SuccessPassedOn
<1>2. QED
  BY <1>1, Invariance, PTL

\* Without crashes a task writes to the files of another run only if the two runs
\* overlap, although all fd_servers register under one name.
THEOREM SequentialRunsApart == Spec => []TasksUseOwnFiles
<1>1. IInv => TasksUseOwnFiles
  BY DEF IInv
<1>2. QED
  BY <1>1, Invariance, PTL
=============================================================================
