--------------------------- MODULE LifecycleProofs --------------------------
(***************************************************************************)
(* Proofs about Lifecycle for any number of runs, deletions and container  *)
(* IDs.                                                                    *)
(***************************************************************************)
EXTENDS Lifecycle, TLAPS

-----------------------------------------------------------------------------
(* The inductive invariant.                                                *)

\* The steps at which a run has the writable snapshot of its ID, and at which
\* it has its record.
HasSnap ==
    {"create", "new_task", "create_task", "start_task", "waiting", "delete_task", "undo_task",
     "rm_check", "rm_snapshot"}
HasRecord ==
    {"new_task", "create_task", "start_task", "waiting", "delete_task", "undo_task", "rm_check",
     "rm_snapshot", "rm_record"}

SnapIsOwn(r) ==
    /\ pc[r] \in Running => r \in leases
    /\ pc[r] \in HasSnap => ID(r) \in DOMAIN snaps /\ snaps[ID(r)] = r

RecordIsOwn(r) ==
    pc[r] \in HasRecord =>
        \/ ID(r) \in DOMAIN records /\ records[ID(r)] = r
        \/ Lost(r)

OwnTask(r) == HasTask(r) /\ tasks[ID(r)].owner = r

\* What can have become of the task a run has created, at each of its steps,
\* and how many calls have failed when it is still there.
TaskState(r) ==
    /\ pc[r] \in {"start_task", "waiting", "delete_task", "undo_task"} /\ HasTask(r) =>
          tasks[ID(r)].owner = r
    /\ pc[r] \in {"start", "snapshot", "create", "new_task", "create_task"} => ~ OwnTask(r)
    /\ pc[r] = "start_task" /\ OwnTask(r) => tasks[ID(r)].status = "created"
    /\ pc[r] = "delete_task" /\ OwnTask(r) => tasks[ID(r)].status = "stopped"
    /\ pc[r] \in {"undo_task", "rm_check"} /\ OwnTask(r) => faults >= 1
    /\ pc[r] \in {"rm_snapshot", "rm_record"} /\ OwnTask(r) => faults >= 2

RunInv(r) == SnapIsOwn(r) /\ RecordIsOwn(r) /\ TaskState(r)

\* The container of a task that is there.
TasksStand ==
    \A id \in DOMAIN tasks, q \in Run : tasks[id].owner = q =>
        /\ ID(q) = id
        /\ faults <= 1 => Stands(id, q)

LifecycleInv ==
    /\ LifecycleTypeOK
    /\ \A r \in Run : RunInv(r)
    /\ TasksStand

-----------------------------------------------------------------------------
(* What a step leaves alone.                                               *)

\* The step of a command leaves those of the others where they were.
OnlyStep(c) ==
    \A x \in Command \ {c} : pc'[x] = pc[x] /\ outcome'[x] = outcome[x]

LEMMA LostStays ==
    ASSUME taken \subseteq taken'
    PROVE  \A x : Lost(x) => Lost(x)'
  BY DEF Lost

\* A run keeps what it has when a step leaves its things alone.
LEMMA OtherRun ==
    ASSUME NEW q \in Run, NEW id, id = ID(q), RunInv(q), pc'[q] = pc[q], UNCHANGED opts,
           faults \in Nat, faults' \in Nat, faults' >= faults,
           q \in leases /\ pc[q] \in Running => q \in leases',
           pc[q] \in HasSnap => id \in DOMAIN snaps' /\ snaps'[id] = snaps[id],
           pc[q] \in HasRecord /\ id \in DOMAIN records /\ records[id] = q =>
              \/ id \in DOMAIN records' /\ records'[id] = q
              \/ Lost(q)',
           Lost(q) => Lost(q)',
           id \in DOMAIN tasks' =>
              \/ id \in DOMAIN tasks /\ tasks'[id] = tasks[id]
              \/ pc[q] \notin HasSnap /\ tasks'[id].owner # q
    PROVE  RunInv(q)'
  <1>0. ID(q)' = id
    BY DEF ID
  <1>1. SnapIsOwn(q)'
    BY <1>0 DEF RunInv, SnapIsOwn
  <1>2. RecordIsOwn(q)'
    BY <1>0 DEF RunInv, RecordIsOwn
  <1>3. TaskState(q)'
    BY <1>0 DEF RunInv, TaskState, OwnTask, HasTask, HasSnap
  <1> QED
    BY <1>1, <1>2, <1>3 DEF RunInv

\* A task stands on what it stood on.
LEMMA StandsFrame ==
    ASSUME TasksStand, UNCHANGED opts,
           faults \in Nat, faults' \in Nat, faults' >= faults,
           \A x : Lost(x) => Lost(x)',
           \A id \in DOMAIN tasks' : id \in DOMAIN tasks /\ tasks'[id].owner = tasks[id].owner,
           \A id \in DOMAIN tasks', q \in Run :
              tasks[id].owner = q /\ ID(q) = id =>
                 /\ q \in leases' => q \in leases
                 /\ faults' <= 1 /\ id \in DOMAIN records /\ records[id] = q =>
                       (id \in DOMAIN records' /\ records'[id] = q) \/ Lost(q)'
                 /\ faults' <= 1 /\ Stands(id, q) /\ id \in DOMAIN snaps /\ snaps[id] = q =>
                       \/ id \in DOMAIN snaps' /\ snaps'[id] = q
                       \/ Lost(q) /\ q \notin leases
    PROVE  TasksStand'
  <1> SUFFICES ASSUME NEW id \in DOMAIN tasks', NEW q \in Run, tasks'[id].owner = q
               PROVE  ID(q)' = id /\ (faults' <= 1 => Stands(id, q)')
    BY DEF TasksStand
  <1>1. id \in DOMAIN tasks /\ tasks[id].owner = q
    OBVIOUS
  <1>2. ID(q) = id /\ (faults <= 1 => Stands(id, q))
    BY <1>1 DEF TasksStand
  <1>3. ASSUME faults' <= 1
        PROVE  Stands(id, q)'
    <2>1. faults <= 1 /\ Stands(id, q)
      BY <1>2, <1>3
    <2> QED
      BY <1>1, <1>2, <1>3, <2>1 DEF Stands
  <1> QED
    BY <1>2, <1>3 DEF ID

\* A step of a run that at most removes the task of its ID.
LEMMA RunQuiet ==
    ASSUME LifecycleInv, NEW r \in Run, OnlyStep(r),
           UNCHANGED <<snaps, records, taken, leases, opts>>,
           tasks' = tasks \/ tasks' = Without(tasks, ID(r)),
           LifecycleTypeOK', faults' >= faults,
           pc'[r] \in Running => pc[r] \in Running,
           pc'[r] \in HasSnap => pc[r] \in HasSnap,
           pc'[r] \in HasRecord => pc[r] \in HasRecord,
           TaskState(r)'
    PROVE  LifecycleInv'
  <1>0. /\ faults \in Nat /\ faults' \in Nat
        /\ \A d \in Deleter : d \in Command \ {r}
        /\ \A q \in Run \ {r} : q \in Command \ {r}
    BY LifecycleAssumption DEF LifecycleInv, LifecycleTypeOK, Command
  <1>1. /\ DOMAIN tasks' \subseteq DOMAIN tasks
        /\ \A id \in DOMAIN tasks' : tasks'[id] = tasks[id]
    BY DEF Without, Restrict
  <1>3. \A x : Lost(x) => Lost(x)'
    BY LostStays
  <1>4. ASSUME NEW q \in Run \ {r}
        PROVE  RunInv(q)'
    <2>1. pc'[q] = pc[q] /\ RunInv(q)
      BY <1>0 DEF OnlyStep, LifecycleInv
    <2> QED
      BY <1>0, <1>1, <1>3, <2>1, OtherRun DEF RunInv, SnapIsOwn
  <1>5. RunInv(r)'
    <2>1. ID(r)' = ID(r)
      BY DEF ID
    <2>2. SnapIsOwn(r)' /\ RecordIsOwn(r)'
      BY <1>3, <2>1 DEF LifecycleInv, RunInv, SnapIsOwn, RecordIsOwn
    <2> QED
      BY <2>2 DEF RunInv
  <1>6. TasksStand'
    BY <1>0, <1>1, <1>3, StandsFrame DEF LifecycleInv
  <1> QED
    BY <1>4, <1>5, <1>6 DEF LifecycleInv

\* A step of an `rcl delete`, and its death.
LEMMA DeleterQuiet ==
    ASSUME LifecycleInv, NEW d \in Deleter, OnlyStep(d),
           UNCHANGED <<snaps, leases, opts>>,
           tasks' = tasks \/ tasks' = Without(tasks, ID(d)),
           UNCHANGED <<records, taken>> \/ RemoveRecord(d),
           LifecycleTypeOK', faults' >= faults
    PROVE  LifecycleInv'
  <1>0. /\ faults \in Nat /\ faults' \in Nat
        /\ \A q \in Run : q \in Command \ {d}
    BY LifecycleAssumption DEF LifecycleInv, LifecycleTypeOK, Command
  <1>1. /\ DOMAIN tasks' \subseteq DOMAIN tasks
        /\ \A id \in DOMAIN tasks' : tasks'[id] = tasks[id]
    BY DEF Without, Restrict
  <1>2. taken \subseteq taken'
    BY DEF RemoveRecord
  <1>3. \A x : Lost(x) => Lost(x)'
    BY <1>2, LostStays
  <1>4. ASSUME NEW id \in DOMAIN records, NEW q, records[id] = q
        PROVE  (id \in DOMAIN records' /\ records'[id] = q) \/ Lost(q)'
    <2>1. CASE RemoveRecord(d)
      <3>1. CASE id # ID(d)
        BY <1>4, <2>1, <3>1 DEF RemoveRecord, Without, Restrict
      <3>2. CASE id = ID(d)
        <4>1. <<q, d>> \in taken'
          BY <1>4, <2>1, <3>2 DEF RemoveRecord
        <4> QED
          BY <4>1 DEF Lost, Command
      <3> QED
        BY <3>1, <3>2
    <2> QED
      BY <1>4, <2>1
  <1>5. ASSUME NEW q \in Run
        PROVE  RunInv(q)'
    <2>1. pc'[q] = pc[q] /\ RunInv(q)
      BY <1>0 DEF OnlyStep, LifecycleInv
    <2> QED
      BY <1>0, <1>1, <1>3, <1>4, <2>1, OtherRun DEF RunInv, SnapIsOwn
  <1>6. TasksStand'
    BY <1>0, <1>1, <1>3, <1>4, StandsFrame DEF LifecycleInv
  <1> QED
    BY <1>5, <1>6 DEF LifecycleInv

LEMMA RunsAndDeleters ==
    /\ \A r \in Run : r \in Command
    /\ \A d \in Deleter : d \in Command
    /\ \A r \in Run, d \in Deleter : r # d
  BY LifecycleAssumption DEF Command

LEMMA FaultType ==
    ASSUME LifecycleTypeOK, Fault
    PROVE  faults' = faults + 1 /\ faults' \in 0..MaxFaults
  BY LifecycleAssumption DEF LifecycleTypeOK, Fault

-----------------------------------------------------------------------------
(* The steps of a run at which the daemon loses at most the run's task.    *)

\* The type of what a command itself changes.
LEMMA GotoType ==
    ASSUME LifecycleTypeOK, NEW c \in Command,
           NEW step \in {"start"} \cup Running \cup Deleting \cup Ended,
           NEW what \in {"none", "failed", "refused", "status", "ok"},
           Goto(c, step), outcome' = outcome \/ Report(c, what),
           UNCHANGED opts, faults' \in 0..MaxFaults,
           IsPartial(snaps, Run)', IsPartial(records, Run)' /\ taken' \subseteq Run \X Command,
           IsPartial(tasks, [status : Status, owner : Run])', leases' \subseteq Run,
           c \in Run /\ step \in {"rm_check", "rm_snapshot", "rm_record"} => Removes(c)
    PROVE  /\ LifecycleTypeOK'
           /\ OnlyStep(c)
           /\ pc'[c] = step
           /\ outcome' = outcome \/ outcome'[c] = what
  <1> USE DEF Goto, Report
  <1>1. OnlyStep(c) /\ pc'[c] = step /\ (outcome' = outcome \/ outcome'[c] = what)
    BY DEF LifecycleTypeOK, OnlyStep
  <1>2. /\ pc' \in [Command -> {"start"} \cup Running \cup Deleting \cup Ended]
        /\ outcome' \in [Command -> {"none", "failed", "refused", "status", "ok"}]
    BY DEF LifecycleTypeOK
  <1>3. \A r \in Run : pc'[r] \in {"rm_check", "rm_snapshot", "rm_record"} =>
           opts'[r].rm /\ ~ opts'[r].detach
    BY RunsAndDeleters, <1>1 DEF LifecycleTypeOK, OnlyStep, Removes
  <1> QED
    BY <1>1, <1>2, <1>3 DEF LifecycleTypeOK, IsPartial

LEMMA DaemonSame ==
    ASSUME LifecycleTypeOK, UNCHANGED daemon
    PROVE  /\ UNCHANGED <<snaps, records, taken, tasks, leases>>
           /\ IsPartial(snaps, Run)' /\ IsPartial(records, Run)' /\ taken' \subseteq Run \X Command
           /\ IsPartial(tasks, [status : Status, owner : Run])' /\ leases' \subseteq Run
  BY DEF LifecycleTypeOK, IsPartial, daemon

LEMMA UnwindSteps ==
    ASSUME NEW r \in Run
    PROVE  /\ Unwind(r) \in {"undo_task", "rm_check", "release"}
           /\ Unwind(r) = "undo_task" => pc[r] \in {"start_task", "waiting", "delete_task"}
           /\ Unwind(r) = "rm_check" => pc[r] \in {"new_task", "create_task", "undo_task"} /\ Removes(r)
  BY DEF Unwind

\* Run returns, or goes on with the next of its deferred calls.
LEMMA UnwindInv ==
    ASSUME LifecycleInv, NEW r \in Run, pc[r] \in Running,
           Goto(r, Unwind(r)),
           NEW what \in {"none", "failed", "refused", "status", "ok"},
           outcome' = outcome \/ Report(r, what),
           UNCHANGED <<daemon, opts>>, faults' \in 0..MaxFaults, faults' >= faults,
           OwnTask(r) => faults' >= 1
    PROVE  LifecycleInv'
  <1>1. /\ LifecycleTypeOK'
        /\ OnlyStep(r)
        /\ pc'[r] = Unwind(r)
    <2>1. r \in Command
      BY RunsAndDeleters
    <2>2. Unwind(r) \in {"start"} \cup Running \cup Deleting \cup Ended
      BY UnwindSteps DEF Running, Cleaning
    <2>3. Unwind(r) \in {"rm_check", "rm_snapshot", "rm_record"} => Removes(r)
      BY UnwindSteps
    <2> QED
      BY <2>1, <2>2, <2>3, DaemonSame, GotoType DEF LifecycleInv
  <1>2. TaskState(r)'
    <2>1. OwnTask(r)' => OwnTask(r)
      BY DaemonSame DEF LifecycleInv, OwnTask, HasTask, ID
    <2>2. Unwind(r) = "undo_task" /\ HasTask(r) => tasks[ID(r)].owner = r
      BY UnwindSteps DEF LifecycleInv, RunInv, TaskState
    <2>3. HasTask(r)' <=> HasTask(r)
      BY DaemonSame DEF LifecycleInv, HasTask, ID
    <2>4. tasks'[ID(r)'] = tasks[ID(r)]
      BY DaemonSame DEF LifecycleInv, ID
    <2> QED
      BY <1>1, <2>1, <2>2, <2>3, <2>4, UnwindSteps DEF TaskState
  <1>3. /\ pc'[r] \in HasSnap => pc[r] \in HasSnap
        /\ pc'[r] \in HasRecord => pc[r] \in HasRecord
    BY <1>1, UnwindSteps DEF HasSnap, HasRecord
  <1> QED
    BY <1>1, <1>2, <1>3, DaemonSame, RunQuiet DEF LifecycleInv

LEMMA FailRunInv ==
    ASSUME LifecycleInv, NEW r \in Run, pc[r] \in Running, FailRun(r), UNCHANGED faults,
           ~ OwnTask(r)
    PROVE  LifecycleInv'
  <1>1. faults' \in 0..MaxFaults /\ faults' >= faults
    BY DEF LifecycleInv, LifecycleTypeOK
  <1> QED
    BY <1>1, UnwindInv DEF FailRun

LEMMA RunCallFailsInv ==
    ASSUME LifecycleInv, NEW r \in Run, RunCallFails(r)
    PROVE  LifecycleInv'
  <1>1. pc[r] \in Running
    BY DEF RunCallFails, Running, Cleaning
  <1>2. faults' \in 0..MaxFaults /\ faults' >= faults /\ faults' >= 1
    BY FaultType DEF RunCallFails, LifecycleInv, LifecycleTypeOK
  <1> DEFINE what == IF pc[r] \in Cleaning \ {"delete_task"} THEN outcome[r] ELSE "failed"
  <1>3. what \in {"none", "failed", "refused", "status", "ok"}
    BY RunsAndDeleters DEF LifecycleInv, LifecycleTypeOK
  <1>4. Goto(r, Unwind(r)) /\ Report(r, what) /\ UNCHANGED <<daemon, opts>>
    BY DEF RunCallFails
  <1> HIDE DEF what
  <1> QED
    BY <1>1, <1>2, <1>3, <1>4, UnwindInv

LEMMA AwaitExitInv ==
    ASSUME LifecycleInv, NEW r \in Run, AwaitExit(r)
    PROVE  LifecycleInv'
  <1>0. pc[r] = "waiting" /\ pc[r] \in Running
    BY DEF AwaitExit, Running
  <1>1. CASE ~ HasTask(r) /\ FailRun(r)
    BY <1>0, <1>1, FailRunInv DEF AwaitExit, OwnTask
  <1>2. CASE Goto(r, "delete_task") /\ UNCHANGED <<daemon, opts, outcome>>
    <2>1. /\ LifecycleTypeOK'
          /\ OnlyStep(r)
          /\ pc'[r] = "delete_task"
      BY <1>2, RunsAndDeleters, DaemonSame, GotoType
         DEF AwaitExit, LifecycleInv, LifecycleTypeOK, Running, Cleaning
    <2>2. TaskState(r)'
      <3>1. HasTask(r) => tasks[ID(r)].owner = r
        BY <1>0 DEF LifecycleInv, RunInv, TaskState
      <3>2. OwnTask(r) => tasks[ID(r)].status = "stopped"
        BY DEF AwaitExit, OwnTask, TaskIs
      <3>3. tasks' = tasks /\ ID(r)' = ID(r)
        BY <1>2, DaemonSame DEF LifecycleInv, ID
      <3> QED
        BY <2>1, <3>1, <3>2, <3>3 DEF TaskState, OwnTask, HasTask
    <2>3. /\ pc[r] \in Running /\ pc[r] \in HasSnap /\ pc[r] \in HasRecord
          /\ faults' >= faults
      BY <1>0 DEF HasSnap, HasRecord, AwaitExit, LifecycleInv, LifecycleTypeOK
    <2> QED
      BY <1>2, <2>1, <2>2, <2>3, DaemonSame, RunQuiet DEF LifecycleInv
  <1> QED
    BY <1>1, <1>2 DEF AwaitExit

\* The task of an ID goes.
LEMMA TaskGone ==
    ASSUME LifecycleTypeOK, NEW c, tasks' = Without(tasks, ID(c)),
           UNCHANGED <<snaps, records, taken, leases>>
    PROVE  /\ IsPartial(snaps, Run)' /\ IsPartial(records, Run)' /\ taken' \subseteq Run \X Command
           /\ IsPartial(tasks, [status : Status, owner : Run])' /\ leases' \subseteq Run
           /\ ID(c) \notin DOMAIN tasks'
  <1>1. IsPartial(tasks, [status : Status, owner : Run])' /\ ID(c) \notin DOMAIN tasks'
    BY DEF LifecycleTypeOK, IsPartial, Without, Restrict
  <1> QED
    BY <1>1 DEF LifecycleTypeOK, IsPartial

LEMMA CanDeleteFaults ==
    ASSUME LifecycleTypeOK, NEW c, CanDelete(c)
    PROVE  faults' \in 0..MaxFaults /\ faults' >= faults
  BY FaultType DEF CanDelete, LifecycleTypeOK

LEMMA CheckFaults ==
    ASSUME LifecycleTypeOK, NEW c, CheckNoTask(c)
    PROVE  faults' \in 0..MaxFaults /\ faults' >= faults
  BY FaultType DEF CheckNoTask, LifecycleTypeOK

LEMMA DeleteTaskInv ==
    ASSUME LifecycleInv, NEW r \in Run, DeleteTask(r)
    PROVE  LifecycleInv'
  <1>0. pc[r] = "delete_task" /\ pc[r] \in Running /\ pc[r] \in HasSnap /\ pc[r] \in HasRecord
    BY DEF DeleteTask, Running, Cleaning, HasSnap, HasRecord
  <1>1. CASE ~ Deletable(r) /\ FailRun(r) /\ UNCHANGED faults
    <2>1. ~ OwnTask(r)
      BY <1>0, <1>1 DEF LifecycleInv, RunInv, TaskState, OwnTask, Deletable, TaskIs
    <2> QED
      BY <1>0, <1>1, <2>1, FailRunInv
  <1>2. CASE /\ CanDelete(r) /\ tasks' = Without(tasks, ID(r))
             /\ Report(r, "status") /\ Goto(r, "undo_task")
             /\ UNCHANGED <<snaps, records, taken, leases, opts>>
    <2>1. /\ Report(r, "status") /\ Goto(r, "undo_task")
          /\ UNCHANGED <<snaps, records, taken, leases, opts>>
      BY <1>2
    <2>2. faults' \in 0..MaxFaults /\ faults' >= faults
      BY <1>2, CanDeleteFaults DEF LifecycleInv
    <2>3. /\ LifecycleTypeOK'
          /\ OnlyStep(r)
          /\ pc'[r] = "undo_task"
      BY <1>2, <2>1, <2>2, RunsAndDeleters, TaskGone, GotoType DEF LifecycleInv, Running, Cleaning
    <2>4. TaskState(r)'
      <3>1. ID(r) \notin DOMAIN tasks' /\ ID(r)' = ID(r)
        BY <1>2, <2>1, TaskGone DEF LifecycleInv, ID
      <3> QED
        BY <2>3, <3>1 DEF TaskState, OwnTask, HasTask
    <2> QED
      BY <1>0, <1>2, <2>1, <2>2, <2>3, <2>4, RunQuiet
  <1> QED
    BY <1>1, <1>2 DEF DeleteTask

LEMMA UndoTaskInv ==
    ASSUME LifecycleInv, NEW r \in Run, UndoTask(r)
    PROVE  LifecycleInv'
  <1>0. pc[r] = "undo_task" /\ pc[r] \in Running
    BY DEF UndoTask, Running, Cleaning
  <1>1. CASE ~ Deletable(r) /\ UNCHANGED <<tasks, faults>>
    <2>1. UNCHANGED <<daemon, opts, outcome>> /\ Goto(r, Unwind(r))
      BY <1>1 DEF UndoTask, daemon
    <2>2. faults' \in 0..MaxFaults /\ faults' >= faults
      BY <1>1 DEF LifecycleInv, LifecycleTypeOK
    <2>3. OwnTask(r) => faults' >= 1
      BY <1>0, <1>1 DEF LifecycleInv, RunInv, TaskState
    <2> QED
      BY <1>0, <2>1, <2>2, <2>3, UnwindInv
  <1>2. CASE CanDelete(r) /\ tasks' = Without(tasks, ID(r))
    <2>1. UNCHANGED <<snaps, records, taken, leases, opts, outcome>> /\ Goto(r, Unwind(r))
      BY DEF UndoTask
    <2>2. faults' \in 0..MaxFaults /\ faults' >= faults
      BY <1>2, CanDeleteFaults DEF LifecycleInv
    <2>3. /\ Unwind(r) \in {"start"} \cup Running \cup Deleting \cup Ended
          /\ Unwind(r) \in {"rm_check", "rm_snapshot", "rm_record"} => Removes(r)
          /\ Unwind(r) \in {"rm_check", "release"}
      BY <1>0, UnwindSteps DEF Running, Cleaning
    <2>4. /\ LifecycleTypeOK'
          /\ OnlyStep(r)
          /\ pc'[r] = Unwind(r)
      BY <1>2, <2>1, <2>2, <2>3, RunsAndDeleters, TaskGone, GotoType DEF LifecycleInv
    <2>5. TaskState(r)'
      <3>1. ID(r) \notin DOMAIN tasks' /\ ID(r)' = ID(r)
        BY <1>2, <2>1, TaskGone DEF LifecycleInv, ID
      <3> QED
        BY <2>4, <3>1 DEF TaskState, OwnTask, HasTask
    <2>6. pc[r] \in HasSnap /\ pc[r] \in HasRecord
      BY <1>0 DEF HasSnap, HasRecord
    <2> QED
      BY <1>0, <1>2, <2>1, <2>2, <2>4, <2>5, <2>6, RunQuiet
  <1> QED
    BY <1>1, <1>2 DEF UndoTask

\* With a task of its own the run gets past the look-up only by a failure.
LEMMA RmCheckInv ==
    ASSUME LifecycleInv, NEW r \in Run, RmCheck(r)
    PROVE  LifecycleInv'
  <1>0. /\ pc[r] = "rm_check" /\ pc[r] \in Running /\ pc[r] \in HasSnap /\ pc[r] \in HasRecord
        /\ Removes(r)
    BY DEF RmCheck, Running, Cleaning, HasSnap, HasRecord, Removes, LifecycleInv, LifecycleTypeOK
  <1>1. PICK step \in {"release", "rm_snapshot"} :
           /\ Goto(r, step)
           /\ faults' \in 0..MaxFaults /\ faults' >= faults
           /\ step = "rm_snapshot" /\ HasTask(r) => faults' = faults + 1
    <2>1. CASE Goto(r, "release") /\ UNCHANGED faults
      BY <2>1 DEF LifecycleInv, LifecycleTypeOK
    <2>2. CASE CheckNoTask(r) /\ Goto(r, "rm_snapshot")
      BY <2>2, CheckFaults, FaultType DEF LifecycleInv, CheckNoTask
    <2> QED
      BY <2>1, <2>2 DEF RmCheck
  <1>2. UNCHANGED <<daemon, opts, outcome>>
    BY DEF RmCheck
  <1>3. /\ LifecycleTypeOK'
        /\ OnlyStep(r)
        /\ pc'[r] = step
    BY <1>0, <1>1, <1>2, RunsAndDeleters, DaemonSame, GotoType DEF LifecycleInv, Running, Cleaning
  <1>4. TaskState(r)'
    <2>1. OwnTask(r) => faults >= 1
      BY <1>0 DEF LifecycleInv, RunInv, TaskState
    <2>2. OwnTask(r)' => OwnTask(r)
      BY <1>2, DaemonSame DEF LifecycleInv, OwnTask, HasTask, ID
    <2>3. step = "rm_snapshot" /\ OwnTask(r) => faults' >= 2
      BY <1>1, <2>1 DEF OwnTask, LifecycleInv, LifecycleTypeOK
    <2> QED
      BY <1>3, <2>2, <2>3 DEF TaskState
  <1> QED
    BY <1>0, <1>1, <1>2, <1>3, <1>4, DaemonSame, RunQuiet DEF LifecycleInv

LEMMA CrashInv ==
    ASSUME LifecycleInv, NEW c \in Command, Crash(c)
    PROVE  LifecycleInv'
  <1>1. /\ Goto(c, "crashed") /\ UNCHANGED <<daemon, opts, outcome>>
        /\ faults' \in 0..MaxFaults /\ faults' >= faults
    BY FaultType DEF Crash, LifecycleInv, LifecycleTypeOK
  <1>2. /\ LifecycleTypeOK'
        /\ OnlyStep(c)
        /\ pc'[c] = "crashed"
    BY <1>1, DaemonSame, GotoType DEF LifecycleInv, Ended
  <1>3. CASE c \in Run
    <2>1. TaskState(c)'
      BY <1>2 DEF TaskState
    <2>2. pc'[c] \notin Running \cup HasSnap \cup HasRecord
      BY <1>2 DEF Running, Cleaning, HasSnap, HasRecord
    <2> QED
      BY <1>1, <1>2, <1>3, <2>1, <2>2, DaemonSame, RunQuiet DEF LifecycleInv
  <1>4. CASE c \in Deleter
    BY <1>1, <1>2, <1>4, DaemonSame, DeleterQuiet DEF LifecycleInv
  <1> QED
    BY <1>3, <1>4 DEF Command

-----------------------------------------------------------------------------
(* The steps of rcl delete.                                                *)

LEMMA DeleteStepInv ==
    ASSUME LifecycleInv, NEW d \in Deleter, DeleteStep(d)
    PROVE  LifecycleInv'
  <1> DEFINE Did(step, what) ==
           /\ Goto(d, step)
           /\ outcome' = outcome \/ (Report(d, what) /\ step = "done")
           /\ faults' \in 0..MaxFaults /\ faults' >= faults
           /\ tasks' = tasks \/ tasks' = Without(tasks, ID(d))
           /\ UNCHANGED <<records, taken>> \/ RemoveRecord(d)
  <1>1. PICK step \in Deleting \cup {"done"}, what \in {"none", "failed", "refused", "ok"} :
           Did(step, what)
    <2>0. faults \in 0..MaxFaults /\ faults >= faults
      BY DEF LifecycleInv, LifecycleTypeOK
    <2>1. Load(d) => Did("done", "failed") \/ Did("task", "none")
      BY <2>0 DEF Load, EndDelete, daemon
    <2>2. LookForTask(d) => Did("del_check", "none") \/ Did("status", "none")
      BY <2>0, CheckFaults DEF LookForTask, daemon, LifecycleInv
    <2>3. ReadStatus(d) =>
             Did("done", "failed") \/ Did("done", "refused") \/ Did("del_task", "none")
      BY <2>0 DEF ReadStatus, EndDelete, daemon
    <2>4. DelTask(d) => Did("done", "failed") \/ Did("done", "refused") \/ Did("del_check", "none")
      BY <2>0, CanDeleteFaults DEF DelTask, EndDelete, LifecycleInv
    <2>5. DelCheck(d) =>
             Did("done", "failed") \/ Did("done", "refused") \/ Did("del_record", "none")
      BY <2>0, CheckFaults DEF DelCheck, EndDelete, daemon, LifecycleInv
    <2>6. DelRecord(d) => Did("done", "failed") \/ Did("done", "ok")
      BY <2>0 DEF DelRecord, EndDelete
    <2> HIDE DEF Did
    <2> QED
      BY <2>1, <2>2, <2>3, <2>4, <2>5, <2>6 DEF DeleteStep, Deleting
  <1>2. UNCHANGED <<snaps, leases, opts>>
    BY DEF DeleteStep, Load, LookForTask, ReadStatus, DelTask, DelCheck, DelRecord, daemon
  <1>3. /\ IsPartial(snaps, Run)' /\ IsPartial(records, Run)' /\ taken' \subseteq Run \X Command
        /\ IsPartial(tasks, [status : Status, owner : Run])' /\ leases' \subseteq Run
    <2>1. records' = records \/ records' = Without(records, ID(d))
      BY <1>1 DEF RemoveRecord
    <2>2. taken' \subseteq Run \X Command
      BY <1>1, RunsAndDeleters DEF RemoveRecord, LifecycleInv, LifecycleTypeOK, IsPartial
    <2> QED
      BY <1>1, <1>2, <2>1, <2>2 DEF LifecycleInv, LifecycleTypeOK, IsPartial, Without, Restrict
  <1>4. /\ LifecycleTypeOK'
        /\ OnlyStep(d)
    <2>1. step \in {"start"} \cup Running \cup Deleting \cup Ended
      BY DEF Ended
    <2> QED
      BY <1>1, <1>2, <1>3, <2>1, RunsAndDeleters, GotoType DEF LifecycleInv
  <1> QED
    BY <1>1, <1>2, <1>4, DeleterQuiet

-----------------------------------------------------------------------------
(* The steps of a run that make and remove things.                         *)

\* What was lost stays so, and the other runs are where they were.
LEMMA RunStepFrame ==
    ASSUME LifecycleInv, NEW r \in Run, OnlyStep(r), taken \subseteq taken', LifecycleTypeOK'
    PROVE  /\ \A x : Lost(x) => Lost(x)'
           /\ \A q \in Run \ {r} : pc'[q] = pc[q] /\ RunInv(q)
           /\ faults \in Nat /\ faults' \in Nat
  <1>1. \A q \in Run \ {r} : pc'[q] = pc[q] /\ RunInv(q)
    BY RunsAndDeleters DEF OnlyStep, LifecycleInv
  <1> QED
    BY <1>1, LostStays DEF LifecycleInv, LifecycleTypeOK

\* A call has taken effect, whether its answer is lost or not.
LEMMA SucceedFacts ==
    ASSUME LifecycleInv, NEW r \in Run, NEW step \in Running, Succeed(r, step), UNCHANGED opts,
           step \notin {"rm_check", "rm_snapshot", "rm_record"},
           IsPartial(snaps, Run)', IsPartial(records, Run)' /\ taken' \subseteq Run \X Command,
           IsPartial(tasks, [status : Status, owner : Run])', leases' \subseteq Run
    PROVE  /\ LifecycleTypeOK'
           /\ OnlyStep(r)
           /\ faults' >= faults
           /\ \/ pc'[r] = step
              \/ pc'[r] = Unwind(r) /\ faults' >= 1
           /\ ID(r)' = ID(r)
  <1>1. r \in Command
    BY RunsAndDeleters
  <1>2. CASE Goto(r, step) /\ UNCHANGED <<outcome, faults>>
    <2>1. faults' \in 0..MaxFaults /\ faults' >= faults
      BY <1>2 DEF LifecycleInv, LifecycleTypeOK
    <2> QED
      BY <1>1, <1>2, <2>1, GotoType DEF LifecycleInv, ID
  <1>3. CASE Fault /\ Goto(r, Unwind(r)) /\ Report(r, "failed")
    <2>1. faults' \in 0..MaxFaults /\ faults' >= faults /\ faults' >= 1
      BY <1>3, FaultType DEF LifecycleInv, LifecycleTypeOK
    <2>2. Unwind(r) \in {"start"} \cup Running \cup Deleting \cup Ended
      BY UnwindSteps DEF Running, Cleaning
    <2>3. Unwind(r) \in {"rm_check", "rm_snapshot", "rm_record"} => Removes(r)
      BY UnwindSteps
    <2> QED
      BY <1>1, <1>3, <2>1, <2>2, <2>3, GotoType DEF LifecycleInv, ID
  <1> QED
    BY <1>2, <1>3 DEF Succeed

LEMMA StartRunInv ==
    ASSUME LifecycleInv, NEW r \in Run, StartRun(r)
    PROVE  LifecycleInv'
  <1>0. /\ pc[r] = "start" /\ leases' = leases \cup {r} /\ Goto(r, "snapshot")
        /\ UNCHANGED <<snaps, records, taken, tasks, opts, outcome, faults>>
    BY DEF StartRun, Lease
  <1>1. /\ LifecycleTypeOK' /\ OnlyStep(r) /\ pc'[r] = "snapshot"
    <2>1. /\ IsPartial(snaps, Run)' /\ IsPartial(records, Run)' /\ taken' \subseteq Run \X Command
          /\ IsPartial(tasks, [status : Status, owner : Run])' /\ leases' \subseteq Run
          /\ faults' \in 0..MaxFaults
      BY <1>0 DEF LifecycleInv, LifecycleTypeOK, IsPartial
    <2> QED
      BY <1>0, <2>1, RunsAndDeleters, GotoType DEF LifecycleInv, Running
  <1>2. /\ faults' >= faults
        /\ \A x : Lost(x) => Lost(x)'
        /\ \A q \in Run \ {r} : pc'[q] = pc[q] /\ RunInv(q)
        /\ faults \in Nat /\ faults' \in Nat
    <2>1. faults' >= faults
      BY <1>0 DEF LifecycleInv, LifecycleTypeOK
    <2> QED
      BY <1>0, <1>1, <2>1, RunStepFrame
  <1>3. \A q \in Run \ {r} : RunInv(q)'
    BY <1>0, <1>2, OtherRun DEF RunInv, SnapIsOwn
  <1>4. RunInv(r)'
    <2>1. SnapIsOwn(r)' /\ RecordIsOwn(r)'
      BY <1>0, <1>1 DEF SnapIsOwn, RecordIsOwn, HasSnap, HasRecord
    <2>2. TaskState(r)'
      BY <1>0, <1>1 DEF LifecycleInv, RunInv, TaskState, OwnTask, HasTask, ID
    <2> QED
      BY <2>1, <2>2 DEF RunInv
  <1>5. TasksStand'
    <2>1. \A id \in DOMAIN tasks, q \in Run : tasks[id].owner = q /\ ID(q) = id => q # r
      BY <1>0 DEF LifecycleInv, RunInv, TaskState, OwnTask, HasTask
    <2> QED
      BY <1>0, <1>2, <2>1, StandsFrame DEF LifecycleInv
  <1> QED
    BY <1>1, <1>3, <1>4, <1>5 DEF LifecycleInv

LEMMA PrepareSnapshotInv ==
    ASSUME LifecycleInv, NEW r \in Run, PrepareSnapshot(r)
    PROVE  LifecycleInv'
  <1>0. pc[r] = "snapshot" /\ pc[r] \in Running /\ ~ OwnTask(r) /\ r \in leases
    BY DEF PrepareSnapshot, Running, LifecycleInv, RunInv, TaskState, SnapIsOwn
  <1>1. CASE FailRun(r) /\ UNCHANGED faults
    BY <1>0, <1>1, FailRunInv
  <1>2. CASE /\ ID(r) \notin DOMAIN snaps
             /\ snaps' = Put(snaps, ID(r), r)
             /\ Succeed(r, "create")
             /\ UNCHANGED <<records, taken, tasks, leases, opts>>
    <2>1. /\ DOMAIN snaps' = DOMAIN snaps \cup {ID(r)}
          /\ snaps'[ID(r)] = r
          /\ \A id \in DOMAIN snaps : snaps'[id] = snaps[id]
      BY <1>2 DEF Put
    <2>2. /\ LifecycleTypeOK' /\ OnlyStep(r) /\ faults' >= faults
          /\ pc'[r] = "create" \/ pc'[r] = Unwind(r)
          /\ ID(r)' = ID(r)
      <3>1. ID(r) \in ContainerID
        BY RunsAndDeleters DEF LifecycleInv, LifecycleTypeOK, ID
      <3>2. /\ IsPartial(snaps, Run)' /\ IsPartial(records, Run)' /\ taken' \subseteq Run \X Command
            /\ IsPartial(tasks, [status : Status, owner : Run])' /\ leases' \subseteq Run
        BY <1>2, <3>1 DEF LifecycleInv, LifecycleTypeOK, IsPartial, Put
      <3> QED
        BY <1>2, <3>2, SucceedFacts DEF Running
    <2>3. pc'[r] \in {"create", "release"}
      BY <1>0, <2>2, UnwindSteps
    <2>4. /\ \A x : Lost(x) => Lost(x)'
          /\ \A q \in Run \ {r} : pc'[q] = pc[q] /\ RunInv(q)
          /\ faults \in Nat /\ faults' \in Nat
      BY <1>2, <2>2, RunStepFrame
    <2>5. \A q \in Run \ {r} : RunInv(q)'
      BY <1>2, <2>1, <2>2, <2>4, OtherRun DEF RunInv, SnapIsOwn
    <2>6. RunInv(r)'
      <3>1. SnapIsOwn(r)'
        BY <1>0, <1>2, <2>1, <2>2 DEF SnapIsOwn
      <3>2. RecordIsOwn(r)'
        BY <2>3 DEF RecordIsOwn, HasRecord
      <3>3. TaskState(r)'
        BY <1>0, <1>2, <2>2, <2>3 DEF TaskState, OwnTask, HasTask
      <3> QED
        BY <3>1, <3>2, <3>3 DEF RunInv
    <2>7. TasksStand'
      BY <1>2, <2>1, <2>2, <2>4, StandsFrame DEF LifecycleInv
    <2> QED
      BY <2>2, <2>4, <2>5, <2>6, <2>7 DEF LifecycleInv
  <1> QED
    BY <1>1, <1>2 DEF PrepareSnapshot

LEMMA CreateRecordInv ==
    ASSUME LifecycleInv, NEW r \in Run, CreateRecord(r)
    PROVE  LifecycleInv'
  <1>0. /\ pc[r] = "create" /\ pc[r] \in Running /\ ~ OwnTask(r) /\ r \in leases
        /\ ID(r) \in DOMAIN snaps /\ snaps[ID(r)] = r
    BY DEF CreateRecord, Running, HasSnap, LifecycleInv, RunInv, TaskState, SnapIsOwn
  <1>1. CASE FailRun(r) /\ UNCHANGED faults
    BY <1>0, <1>1, FailRunInv
  <1>2. CASE /\ ID(r) \notin DOMAIN records
             /\ records' = Put(records, ID(r), r)
             /\ Succeed(r, "new_task")
             /\ UNCHANGED <<snaps, taken, tasks, leases, opts>>
    <2>1. /\ DOMAIN records' = DOMAIN records \cup {ID(r)}
          /\ records'[ID(r)] = r
          /\ \A id \in DOMAIN records : records'[id] = records[id]
      BY <1>2 DEF Put
    <2>2. /\ LifecycleTypeOK' /\ OnlyStep(r) /\ faults' >= faults
          /\ pc'[r] = "new_task" \/ pc'[r] = Unwind(r)
          /\ ID(r)' = ID(r)
      <3>1. ID(r) \in ContainerID
        BY RunsAndDeleters DEF LifecycleInv, LifecycleTypeOK, ID
      <3>2. /\ IsPartial(snaps, Run)' /\ IsPartial(records, Run)' /\ taken' \subseteq Run \X Command
            /\ IsPartial(tasks, [status : Status, owner : Run])' /\ leases' \subseteq Run
        BY <1>2, <3>1 DEF LifecycleInv, LifecycleTypeOK, IsPartial, Put
      <3> QED
        BY <1>2, <3>2, SucceedFacts DEF Running
    <2>3. pc'[r] \in {"new_task", "release"}
      BY <1>0, <2>2, UnwindSteps
    <2>4. /\ \A x : Lost(x) => Lost(x)'
          /\ \A q \in Run \ {r} : pc'[q] = pc[q] /\ RunInv(q)
          /\ faults \in Nat /\ faults' \in Nat
      BY <1>2, <2>2, RunStepFrame
    <2>5. \A q \in Run \ {r} : RunInv(q)'
      BY <1>2, <2>1, <2>2, <2>4, OtherRun DEF RunInv, SnapIsOwn
    <2>6. RunInv(r)'
      <3>1. SnapIsOwn(r)' /\ RecordIsOwn(r)'
        BY <1>0, <1>2, <2>1, <2>2 DEF SnapIsOwn, RecordIsOwn
      <3>2. TaskState(r)'
        BY <1>0, <1>2, <2>2, <2>3 DEF TaskState, OwnTask, HasTask
      <3> QED
        BY <3>1, <3>2 DEF RunInv
    <2>7. TasksStand'
      BY <1>2, <2>1, <2>2, <2>4, StandsFrame DEF LifecycleInv
    <2> QED
      BY <2>2, <2>4, <2>5, <2>6, <2>7 DEF LifecycleInv
  <1> QED
    BY <1>1, <1>2 DEF CreateRecord

LEMMA ReadMountsInv ==
    ASSUME LifecycleInv, NEW r \in Run, ReadMounts(r)
    PROVE  LifecycleInv'
  <1>0. /\ pc[r] = "new_task" /\ pc[r] \in Running /\ pc[r] \in HasSnap /\ pc[r] \in HasRecord
        /\ ~ OwnTask(r)
        /\ UNCHANGED faults /\ faults' >= faults
    BY DEF ReadMounts, Running, HasSnap, HasRecord, LifecycleInv, LifecycleTypeOK, RunInv, TaskState
  <1>1. CASE FailRun(r)
    BY <1>0, <1>1, FailRunInv
  <1>2. CASE Goto(r, "create_task") /\ UNCHANGED <<daemon, opts, outcome>>
    <2>1. LifecycleTypeOK' /\ OnlyStep(r) /\ pc'[r] = "create_task"
      BY <1>0, <1>2, RunsAndDeleters, DaemonSame, GotoType
         DEF LifecycleInv, LifecycleTypeOK, Running
    <2>2. OwnTask(r)' => OwnTask(r)
      BY <1>2, DaemonSame DEF LifecycleInv, OwnTask, HasTask, ID
    <2>3. TaskState(r)'
      BY <1>0, <2>1, <2>2 DEF TaskState
    <2> QED
      BY <1>0, <1>2, <2>1, <2>3, DaemonSame, RunQuiet DEF LifecycleInv
  <1> QED
    BY <1>1, <1>2 DEF ReadMounts

\* The task is made where the run has the snapshot, which no other run has.
LEMMA NewTaskInv ==
    ASSUME LifecycleInv, NEW r \in Run, NewTask(r)
    PROVE  LifecycleInv'
  <1>0. /\ pc[r] = "create_task" /\ pc[r] \in Running /\ ~ OwnTask(r) /\ r \in leases
        /\ ID(r) \in DOMAIN snaps /\ snaps[ID(r)] = r
        /\ \/ ID(r) \in DOMAIN records /\ records[ID(r)] = r
           \/ Lost(r)
    BY DEF NewTask, Running, HasSnap, HasRecord, LifecycleInv, RunInv, TaskState, SnapIsOwn,
       RecordIsOwn
  <1>1. CASE FailRun(r) /\ UNCHANGED faults
    BY <1>0, <1>1, FailRunInv
  <1> DEFINE new == [status |-> "created", owner |-> r]
  <1>2. CASE /\ ~ HasTask(r)
             /\ tasks' = Put(tasks, ID(r), new)
             /\ Succeed(r, "start_task")
             /\ UNCHANGED <<snaps, records, taken, leases, opts>>
    <2>1. /\ DOMAIN tasks' = DOMAIN tasks \cup {ID(r)}
          /\ tasks'[ID(r)] = new
          /\ \A id \in DOMAIN tasks : tasks'[id] = tasks[id] /\ id # ID(r)
      BY <1>2 DEF Put, HasTask
    <2>2. /\ LifecycleTypeOK' /\ OnlyStep(r) /\ faults' >= faults
          /\ \/ pc'[r] = "start_task"
             \/ pc'[r] = Unwind(r) /\ faults' >= 1
          /\ ID(r)' = ID(r)
      <3>1. ID(r) \in ContainerID /\ new \in [status : Status, owner : Run]
        BY RunsAndDeleters DEF LifecycleInv, LifecycleTypeOK, ID, Status
      <3>2. /\ IsPartial(snaps, Run)' /\ IsPartial(records, Run)' /\ taken' \subseteq Run \X Command
            /\ IsPartial(tasks, [status : Status, owner : Run])' /\ leases' \subseteq Run
        <4>1. IsPartial(tasks, [status : Status, owner : Run])
          BY DEF LifecycleInv, LifecycleTypeOK
        <4>2. IsPartial(Put(tasks, ID(r), new), [status : Status, owner : Run])
          BY <3>1, <4>1 DEF IsPartial, Put
        <4>3. IsPartial(tasks, [status : Status, owner : Run])'
          BY <1>2, <4>2 DEF IsPartial
        <4> QED
          BY <1>2, <4>3 DEF LifecycleInv, LifecycleTypeOK, IsPartial
      <3> QED
        BY <1>2, <3>2, SucceedFacts DEF Running
    <2>3. pc'[r] = "start_task" \/ (pc'[r] \in {"rm_check", "release"} /\ faults' >= 1)
      BY <1>0, <2>2, UnwindSteps
    <2>4. /\ \A x : Lost(x) => Lost(x)'
          /\ \A q \in Run \ {r} : pc'[q] = pc[q] /\ RunInv(q)
          /\ faults \in Nat /\ faults' \in Nat
      BY <1>2, <2>2, RunStepFrame
    <2>5. ASSUME NEW q \in Run \ {r}
          PROVE  RunInv(q)'
      <3>1. pc[q] \in HasSnap => ID(q) # ID(r)
        BY <1>0, <2>4 DEF RunInv, SnapIsOwn
      <3>2. ID(q) \in DOMAIN tasks' =>
               \/ ID(q) \in DOMAIN tasks /\ tasks'[ID(q)] = tasks[ID(q)]
               \/ pc[q] \notin HasSnap /\ tasks'[ID(q)].owner # q
        BY <2>1, <3>1
      <3> QED
        BY <1>2, <2>2, <2>4, <3>2, OtherRun DEF RunInv, SnapIsOwn
    <2>6. RunInv(r)'
      <3>1. SnapIsOwn(r)'
        BY <1>0, <1>2, <2>2 DEF SnapIsOwn
      <3>2. RecordIsOwn(r)'
        <4>1. Lost(r) => Lost(r)'
          BY <2>4
        <4> QED
          BY <1>0, <1>2, <2>2, <4>1 DEF RecordIsOwn
      <3>3. TaskState(r)'
        BY <2>1, <2>2, <2>3 DEF TaskState, OwnTask, HasTask
      <3> QED
        BY <3>1, <3>2, <3>3 DEF RunInv
    <2>7. TasksStand'
      <3> SUFFICES ASSUME NEW id \in DOMAIN tasks', NEW q \in Run, tasks'[id].owner = q
                   PROVE  opts'[q].id = id /\ (faults' <= 1 => Stands(id, q)')
        BY DEF TasksStand, ID
      <3>1. CASE id = ID(r)
        <4>1. q = r /\ (Lost(r) => Lost(r)')
          BY <2>1, <2>4, <3>1
        <4>2. opts'[q].id = id
          BY <1>2, <3>1, <4>1 DEF ID
        <4>3. Stands(id, r)'
          BY <1>0, <1>2, <2>1, <3>1, <4>1 DEF Stands
        <4> QED
          BY <4>1, <4>2, <4>3
      <3>2. CASE id # ID(r)
        <4>1. id \in DOMAIN tasks /\ tasks[id].owner = q
          BY <2>1, <3>2
        <4>2. faults' <= 1 => faults <= 1
          BY <2>2, <2>4
        <4>3. Lost(q) => Lost(q)'
          BY <2>4
        <4> QED
          BY <1>2, <4>1, <4>2, <4>3 DEF LifecycleInv, TasksStand, Stands, ID
      <3> QED
        BY <3>1, <3>2
    <2> QED
      BY <2>2, <2>4, <2>5, <2>6, <2>7 DEF LifecycleInv
  <1> QED
    BY <1>1, <1>2 DEF NewTask

\* The status of the task of an ID changes.
LEMMA StatusFacts ==
    ASSUME LifecycleTypeOK, NEW id \in DOMAIN tasks, NEW status \in Status,
           tasks' = [tasks EXCEPT ![id].status = status]
    PROVE  /\ DOMAIN tasks' = DOMAIN tasks
           /\ tasks'[id].status = status
           /\ \A x \in DOMAIN tasks : tasks'[x].owner = tasks[x].owner
           /\ \A x \in DOMAIN tasks \ {id} : tasks'[x] = tasks[x]
           /\ IsPartial(tasks, [status : Status, owner : Run])'
  <1>1. /\ DOMAIN tasks \subseteq ContainerID
        /\ tasks \in [DOMAIN tasks -> [status : Status, owner : Run]]
    BY DEF LifecycleTypeOK, IsPartial
  <1>2. tasks' \in [DOMAIN tasks -> [status : Status, owner : Run]]
    BY <1>1
  <1> QED
    BY <1>1, <1>2 DEF IsPartial

LEMMA StartTaskInv ==
    ASSUME LifecycleInv, NEW r \in Run, StartTask(r)
    PROVE  LifecycleInv'
  <1>0. /\ pc[r] = "start_task" /\ pc[r] \in Running /\ r \in leases
        /\ ID(r) \in DOMAIN snaps /\ snaps[ID(r)] = r
        /\ HasTask(r) => tasks[ID(r)].owner = r /\ tasks[ID(r)].status = "created"
        /\ \/ ID(r) \in DOMAIN records /\ records[ID(r)] = r
           \/ Lost(r)
    BY DEF StartTask, Running, HasSnap, HasRecord, LifecycleInv, RunInv, TaskState, SnapIsOwn,
       RecordIsOwn, OwnTask
  <1>1. CASE ~ TaskIs(r, "created") /\ FailRun(r) /\ UNCHANGED faults
    <2>1. ~ OwnTask(r)
      BY <1>0, <1>1 DEF TaskIs, OwnTask
    <2> QED
      BY <1>0, <1>1, <2>1, FailRunInv
  <1>2. CASE /\ TaskIs(r, "created")
             /\ tasks' = [tasks EXCEPT ![ID(r)].status = "running"]
             /\ Succeed(r, IF opts[r].detach THEN "release" ELSE "waiting")
             /\ UNCHANGED <<snaps, records, taken, leases, opts>>
    <2> DEFINE step == IF opts[r].detach THEN "release" ELSE "waiting"
    <2>1. /\ ID(r) \in DOMAIN tasks
          /\ DOMAIN tasks' = DOMAIN tasks
          /\ \A x \in DOMAIN tasks : tasks'[x].owner = tasks[x].owner
          /\ \A x \in DOMAIN tasks \ {ID(r)} : tasks'[x] = tasks[x]
          /\ IsPartial(tasks, [status : Status, owner : Run])'
      BY <1>2, StatusFacts DEF LifecycleInv, TaskIs, HasTask, Status
    <2>2. /\ LifecycleTypeOK' /\ OnlyStep(r) /\ faults' >= faults
          /\ \/ pc'[r] = step
             \/ pc'[r] = Unwind(r) /\ faults' >= 1
          /\ ID(r)' = ID(r)
      <3>1. /\ IsPartial(snaps, Run)' /\ IsPartial(records, Run)'
            /\ taken' \subseteq Run \X Command /\ leases' \subseteq Run
        BY <1>2 DEF LifecycleInv, LifecycleTypeOK, IsPartial
      <3>2. step \in Running /\ step \notin {"rm_check", "rm_snapshot", "rm_record"}
        BY DEF Running
      <3> HIDE DEF step
      <3>3. Succeed(r, step)
        BY <1>2 DEF step
      <3> QED
        BY <1>2, <2>1, <3>1, <3>2, <3>3, SucceedFacts
    <2>3. pc'[r] \in {"waiting", "release"} \/ (pc'[r] = "undo_task" /\ faults' >= 1)
      BY <1>0, <2>2, UnwindSteps
    <2>4. /\ \A x : Lost(x) => Lost(x)'
          /\ \A q \in Run \ {r} : pc'[q] = pc[q] /\ RunInv(q)
          /\ faults \in Nat /\ faults' \in Nat
      BY <1>2, <2>2, RunStepFrame
    <2>5. ASSUME NEW q \in Run \ {r}
          PROVE  RunInv(q)'
      <3>1. pc[q] \in HasSnap => ID(q) # ID(r)
        BY <1>0, <2>4 DEF RunInv, SnapIsOwn
      <3>2. ID(q) \in DOMAIN tasks' =>
               \/ ID(q) \in DOMAIN tasks /\ tasks'[ID(q)] = tasks[ID(q)]
               \/ pc[q] \notin HasSnap /\ tasks'[ID(q)].owner # q
        BY <1>0, <2>1, <3>1 DEF HasTask
      <3> QED
        BY <1>2, <2>2, <2>4, <3>2, OtherRun DEF RunInv, SnapIsOwn
    <2>6. RunInv(r)'
      <3>1. SnapIsOwn(r)'
        BY <1>0, <1>2, <2>2 DEF SnapIsOwn
      <3>2. RecordIsOwn(r)'
        <4>1. Lost(r) => Lost(r)'
          BY <2>4
        <4> QED
          BY <1>0, <1>2, <2>2, <4>1 DEF RecordIsOwn
      <3>3. TaskState(r)'
        <4>1. HasTask(r)' => tasks'[ID(r)].owner = r
          BY <1>0, <2>1, <2>2 DEF HasTask
        <4> QED
          BY <2>2, <2>3, <4>1 DEF TaskState
      <3> QED
        BY <3>1, <3>2, <3>3 DEF RunInv
    <2>7. TasksStand'
      BY <1>2, <2>1, <2>2, <2>4, StandsFrame DEF LifecycleInv
    <2> QED
      BY <2>2, <2>4, <2>5, <2>6, <2>7 DEF LifecycleInv
  <1> QED
    BY <1>1, <1>2 DEF StartTask

\* The snapshot under a task that is there is not the run's to remove.
LEMMA RmSnapshotInv ==
    ASSUME LifecycleInv, NEW r \in Run, RmSnapshot(r)
    PROVE  LifecycleInv'
  <1>0. /\ pc[r] = "rm_snapshot" /\ r \in leases
        /\ ID(r) \in DOMAIN snaps /\ snaps[ID(r)] = r
        /\ OwnTask(r) => faults >= 2
        /\ Removes(r)
        /\ \/ ID(r) \in DOMAIN records /\ records[ID(r)] = r
           \/ Lost(r)
    BY DEF RmSnapshot, Running, Cleaning, HasSnap, HasRecord, LifecycleInv, LifecycleTypeOK, RunInv,
       TaskState, SnapIsOwn, RecordIsOwn, Removes
  <1>1. /\ snaps' = Without(snaps, ID(r)) /\ Goto(r, "rm_record")
        /\ UNCHANGED <<records, taken, tasks, leases, opts, outcome, faults>>
    BY DEF RmSnapshot
  <1>2. /\ DOMAIN snaps' = DOMAIN snaps \ {ID(r)}
        /\ \A id \in DOMAIN snaps' : snaps'[id] = snaps[id]
        /\ IsPartial(snaps, Run)' /\ IsPartial(records, Run)' /\ taken' \subseteq Run \X Command
        /\ IsPartial(tasks, [status : Status, owner : Run])' /\ leases' \subseteq Run
        /\ faults' \in 0..MaxFaults /\ faults' >= faults
    BY <1>1 DEF Without, Restrict, LifecycleInv, LifecycleTypeOK, IsPartial
  <1>3. LifecycleTypeOK' /\ OnlyStep(r) /\ pc'[r] = "rm_record"
    BY <1>0, <1>1, <1>2, RunsAndDeleters, GotoType DEF LifecycleInv, Running, Cleaning
  <1>4. /\ \A x : Lost(x) => Lost(x)'
        /\ \A q \in Run \ {r} : pc'[q] = pc[q] /\ RunInv(q)
        /\ faults \in Nat /\ faults' \in Nat
    BY <1>1, <1>2, <1>3, RunStepFrame
  <1>5. ASSUME NEW q \in Run \ {r}
        PROVE  RunInv(q)'
    <2>1. pc[q] \in HasSnap => ID(q) \in DOMAIN snaps' /\ snaps'[ID(q)] = snaps[ID(q)]
      BY <1>0, <1>2, <1>4 DEF RunInv, SnapIsOwn
    <2> QED
      BY <1>1, <1>2, <1>4, <2>1, OtherRun DEF RunInv, SnapIsOwn
  <1>6. RunInv(r)'
    <2>1. Lost(r) => Lost(r)'
      BY <1>4
    <2>2. ID(r)' = ID(r)
      BY <1>1 DEF ID
    <2>3. SnapIsOwn(r)' /\ RecordIsOwn(r)'
      BY <1>0, <1>1, <1>3, <2>1, <2>2 DEF SnapIsOwn, RecordIsOwn, HasSnap
    <2>4. TaskState(r)'
      BY <1>0, <1>1, <1>3, <2>2 DEF TaskState, OwnTask, HasTask
    <2> QED
      BY <2>3, <2>4 DEF RunInv
  <1>7. TasksStand'
    <2>1. ASSUME NEW id \in DOMAIN tasks', NEW q \in Run, tasks[id].owner = q, faults' <= 1,
                 snaps[id] = q
          PROVE  id # ID(r)
      <3> SUFFICES ASSUME id = ID(r)
                   PROVE  FALSE
        OBVIOUS
      <3>1. OwnTask(r)
        BY <1>0, <1>1, <2>1 DEF OwnTask, HasTask
      <3> QED
        BY <1>0, <1>1, <1>4, <2>1, <3>1
    <2> QED
      BY <1>1, <1>2, <1>4, <2>1, StandsFrame DEF LifecycleInv
  <1> QED
    BY <1>3, <1>4, <1>5, <1>6, <1>7 DEF LifecycleInv

\* Nor is the record, unless the run has lost its own.
LEMMA RmRecordInv ==
    ASSUME LifecycleInv, NEW r \in Run, RmRecord(r)
    PROVE  LifecycleInv'
  <1>0. /\ pc[r] = "rm_record" /\ r \in leases
        /\ OwnTask(r) => faults >= 2
        /\ \/ ID(r) \in DOMAIN records /\ records[ID(r)] = r
           \/ Lost(r)
    BY DEF RmRecord, Running, Cleaning, HasRecord, LifecycleInv, LifecycleTypeOK, RunInv,
       TaskState, SnapIsOwn, RecordIsOwn
  <1>1. /\ RemoveRecord(r) /\ Goto(r, "release")
        /\ UNCHANGED <<snaps, tasks, leases, opts, outcome, faults>>
    BY DEF RmRecord
  <1>2. /\ DOMAIN records' = DOMAIN records \ {ID(r)}
        /\ \A id \in DOMAIN records' : records'[id] = records[id]
        /\ IsPartial(snaps, Run)' /\ IsPartial(records, Run)' /\ taken' \subseteq Run \X Command
        /\ IsPartial(tasks, [status : Status, owner : Run])' /\ leases' \subseteq Run
        /\ faults' \in 0..MaxFaults /\ faults' >= faults /\ taken \subseteq taken'
    <2>1. /\ records' = Without(records, ID(r)) /\ taken \subseteq taken'
          /\ taken' \subseteq Run \X Command
      BY <1>1, RunsAndDeleters DEF RemoveRecord, LifecycleInv, LifecycleTypeOK, IsPartial
    <2> QED
      BY <1>1, <2>1 DEF Without, Restrict, LifecycleInv, LifecycleTypeOK, IsPartial
  <1>3. LifecycleTypeOK' /\ OnlyStep(r) /\ pc'[r] = "release"
    BY <1>0, <1>1, <1>2, RunsAndDeleters, GotoType DEF LifecycleInv, Running, Cleaning
  <1>4. /\ \A x : Lost(x) => Lost(x)'
        /\ \A q \in Run \ {r} : pc'[q] = pc[q] /\ RunInv(q)
        /\ faults \in Nat /\ faults' \in Nat
    BY <1>1, <1>2, <1>3, RunStepFrame
  <1>5. ASSUME NEW id \in DOMAIN records, NEW q \in Run, records[id] = q, id # ID(r) \/ q # r
        PROVE  (id \in DOMAIN records' /\ records'[id] = q) \/ Lost(q)'
    <2>1. CASE id # ID(r)
      BY <1>2, <1>5, <2>1
    <2>2. CASE id = ID(r)
      <3>1. <<q, r>> \in taken' /\ q # r
        BY <1>1, <1>5, <2>2 DEF RemoveRecord
      <3>2. PICK e \in Command \ {r} : <<r, e>> \in taken'
        BY <1>0, <1>2, <1>5, <2>2, RunsAndDeleters DEF Lost
      <3> QED
        BY <3>1, <3>2, RunsAndDeleters DEF Lost
    <2> QED
      BY <2>1, <2>2
  <1>6. ASSUME NEW q \in Run \ {r}
        PROVE  RunInv(q)'
    <2>1. ID(q) \in DOMAIN records /\ records[ID(q)] = q =>
             (ID(q) \in DOMAIN records' /\ records'[ID(q)] = q) \/ Lost(q)'
      BY <1>5
    <2> QED
      BY <1>1, <1>2, <1>4, <2>1, OtherRun DEF RunInv, SnapIsOwn
  <1>7. RunInv(r)'
    BY <1>0, <1>1, <1>3
       DEF RunInv, SnapIsOwn, RecordIsOwn, TaskState, HasSnap, HasRecord
  <1>8. TasksStand'
    <2>1. ASSUME NEW id \in DOMAIN tasks', NEW q \in Run, tasks[id].owner = q, faults' <= 1
          PROVE  id # ID(r) \/ q # r
      <3>1. id = ID(r) /\ q = r => OwnTask(r)
        BY <1>1, <2>1 DEF OwnTask, HasTask
      <3> QED
        BY <1>0, <1>1, <1>4, <2>1, <3>1
    <2> QED
      BY <1>1, <1>2, <1>4, <1>5, <2>1, StandsFrame DEF LifecycleInv
  <1> QED
    BY <1>3, <1>6, <1>7, <1>8 DEF LifecycleInv

LEMMA ReleaseInv ==
    ASSUME LifecycleInv, NEW r \in Run, Release(r)
    PROVE  LifecycleInv'
  <1>0. /\ pc[r] = "release" /\ leases' = leases \ {r} /\ Goto(r, "done")
        /\ UNCHANGED <<snaps, records, taken, tasks, opts, outcome, faults>>
    BY DEF Release
  <1>1. /\ IsPartial(snaps, Run)' /\ IsPartial(records, Run)' /\ taken' \subseteq Run \X Command
        /\ IsPartial(tasks, [status : Status, owner : Run])' /\ leases' \subseteq Run
        /\ faults' \in 0..MaxFaults /\ faults' >= faults
    BY <1>0 DEF LifecycleInv, LifecycleTypeOK, IsPartial
  <1>2. LifecycleTypeOK' /\ OnlyStep(r) /\ pc'[r] = "done"
    BY <1>0, <1>1, RunsAndDeleters, GotoType DEF LifecycleInv, Ended
  <1>3. /\ \A x : Lost(x) => Lost(x)'
        /\ \A q \in Run \ {r} : pc'[q] = pc[q] /\ RunInv(q)
        /\ faults \in Nat /\ faults' \in Nat
    BY <1>0, <1>1, <1>2, RunStepFrame
  <1>4. \A q \in Run \ {r} : RunInv(q)'
    BY <1>0, <1>1, <1>3, OtherRun DEF RunInv, SnapIsOwn
  <1>5. RunInv(r)'
    BY <1>2 DEF RunInv, SnapIsOwn, RecordIsOwn, TaskState, Running, Cleaning, HasSnap, HasRecord
  <1>6. TasksStand'
    BY <1>0, <1>1, <1>3, StandsFrame DEF LifecycleInv
  <1> QED
    BY <1>2, <1>3, <1>4, <1>5, <1>6 DEF LifecycleInv

-----------------------------------------------------------------------------
(* The daemon and the containers' processes.                               *)

\* A step that no command takes.
LEMMA NoCommandFrame ==
    ASSUME LifecycleInv, UNCHANGED <<taken, pc, faults>>
    PROVE  /\ \A x : Lost(x) => Lost(x)'
           /\ \A q \in Run : pc'[q] = pc[q] /\ RunInv(q)
           /\ faults \in Nat /\ faults' \in Nat /\ faults' >= faults
  <1>1. \A x : Lost(x) => Lost(x)'
    BY LostStays
  <1> QED
    BY <1>1 DEF LifecycleInv, LifecycleTypeOK

\* Only the lease of a run that has ended expires.
LEMMA ExpireInv ==
    ASSUME ~ LongRuns, LifecycleInv, NEW r \in Run, Expire(r)
    PROVE  LifecycleInv'
  <1>0. /\ pc[r] \in Ended /\ leases' = leases \ {r}
        /\ UNCHANGED <<snaps, records, taken, tasks, opts, pc, outcome, faults>>
    BY DEF Expire
  <1>1. LifecycleTypeOK'
    BY <1>0 DEF LifecycleInv, LifecycleTypeOK, IsPartial
  <1>2. /\ \A x : Lost(x) => Lost(x)'
        /\ \A q \in Run : pc'[q] = pc[q] /\ RunInv(q)
        /\ faults \in Nat /\ faults' \in Nat /\ faults' >= faults
    BY <1>0, NoCommandFrame
  <1>3. pc[r] \notin Running
    BY <1>0 DEF Ended, Running, Cleaning
  <1>4. \A q \in Run : RunInv(q)'
    BY <1>0, <1>2, <1>3, OtherRun DEF RunInv, SnapIsOwn
  <1>5. TasksStand'
    BY <1>0, <1>2, StandsFrame DEF LifecycleInv
  <1> QED
    BY <1>1, <1>2, <1>4, <1>5 DEF LifecycleInv

LEMMA ExitInv ==
    ASSUME LifecycleInv, NEW id \in ContainerID, Exit(id)
    PROVE  LifecycleInv'
  <1>0. /\ id \in DOMAIN tasks /\ tasks[id].status = "running"
        /\ tasks' = [tasks EXCEPT ![id].status = "stopped"]
        /\ UNCHANGED <<snaps, records, taken, leases, opts, pc, outcome, faults>>
    BY DEF Exit
  <1>1. /\ DOMAIN tasks' = DOMAIN tasks
        /\ tasks'[id].status = "stopped"
        /\ \A x \in DOMAIN tasks : tasks'[x].owner = tasks[x].owner
        /\ \A x \in DOMAIN tasks \ {id} : tasks'[x] = tasks[x]
        /\ IsPartial(tasks, [status : Status, owner : Run])'
    BY <1>0, StatusFacts DEF LifecycleInv, Status
  <1>2. LifecycleTypeOK'
    BY <1>0, <1>1 DEF LifecycleInv, LifecycleTypeOK, IsPartial
  <1>3. /\ \A x : Lost(x) => Lost(x)'
        /\ \A q \in Run : pc'[q] = pc[q] /\ RunInv(q)
        /\ faults \in Nat /\ faults' \in Nat /\ faults' >= faults
    BY <1>0, NoCommandFrame
  <1>4. ASSUME NEW q \in Run
        PROVE  RunInv(q)'
    <2>0. ID(q)' = ID(q)
      BY <1>0 DEF ID
    <2>1. SnapIsOwn(q)'
      BY <1>0, <1>3, <2>0 DEF RunInv, SnapIsOwn
    <2>2. RecordIsOwn(q)'
      <3>1. Lost(q) => Lost(q)'
        BY <1>3
      <3> QED
        BY <1>0, <1>3, <2>0, <3>1 DEF RunInv, RecordIsOwn
    <2>3. TaskState(q)'
      <3>1. (HasTask(q)' <=> HasTask(q)) /\ (OwnTask(q)' <=> OwnTask(q))
        BY <1>1, <2>0 DEF HasTask, OwnTask
      <3>2. /\ HasTask(q) => tasks'[ID(q)].owner = tasks[ID(q)].owner
            /\ HasTask(q) /\ tasks[ID(q)].status # "running" =>
                  tasks'[ID(q)].status = tasks[ID(q)].status
            /\ HasTask(q) /\ tasks[ID(q)].status = "running" =>
                  tasks'[ID(q)].status \in {"running", "stopped"}
        BY <1>0, <1>1 DEF HasTask
      <3>3. OwnTask(q) => HasTask(q)
        BY DEF OwnTask
      <3> QED
        BY <1>0, <1>3, <2>0, <3>1, <3>2, <3>3 DEF RunInv, TaskState
    <2> QED
      BY <2>1, <2>2, <2>3 DEF RunInv
  <1>5. TasksStand'
    BY <1>0, <1>1, <1>3, StandsFrame DEF LifecycleInv
  <1> QED
    BY <1>2, <1>3, <1>4, <1>5 DEF LifecycleInv

LEMMA CollectInv ==
    ASSUME LifecycleInv, Collect
    PROVE  LifecycleInv'
  <1>0. /\ snaps' = Restrict(snaps, Kept)
        /\ UNCHANGED <<records, taken, tasks, leases, opts, pc, outcome, faults>>
    BY DEF Collect
  <1>1. /\ Kept \subseteq DOMAIN snaps /\ DOMAIN snaps' = Kept
        /\ \A id \in Kept : snaps'[id] = snaps[id]
    BY <1>0 DEF Restrict, Kept
  <1>2. LifecycleTypeOK'
    BY <1>0, <1>1 DEF LifecycleInv, LifecycleTypeOK, IsPartial, Restrict
  <1>3. /\ \A x : Lost(x) => Lost(x)'
        /\ \A q \in Run : pc'[q] = pc[q] /\ RunInv(q)
        /\ faults \in Nat /\ faults' \in Nat /\ faults' >= faults
    BY <1>0, NoCommandFrame
  <1>4. ASSUME NEW q \in Run
        PROVE  RunInv(q)'
    <2>1. pc[q] \in HasSnap => ID(q) \in Kept
      <3>1. pc[q] \in HasSnap => pc[q] \in Running
        BY DEF HasSnap, Running, Cleaning
      <3> QED
        BY <1>3, <3>1 DEF RunInv, SnapIsOwn, Kept
    <2> QED
      BY <1>0, <1>1, <1>3, <2>1, OtherRun
  <1>5. TasksStand'
    <2>1. \A id \in DOMAIN snaps, q \in Run : Stands(id, q) /\ snaps[id] = q =>
             id \in Kept \/ (Lost(q) /\ q \notin leases)
      BY DEF Kept, Stands
    <2> QED
      BY <1>0, <1>1, <1>3, <2>1, StandsFrame DEF LifecycleInv
  <1> QED
    BY <1>2, <1>3, <1>4, <1>5 DEF LifecycleInv

-----------------------------------------------------------------------------
(* The invariant.                                                          *)

LEMMA InitInv == Init => LifecycleInv
  <1> SUFFICES ASSUME Init PROVE LifecycleInv
    OBVIOUS
  <1> USE DEF Init
  <1>1. \A r \in Run : pc[r] = "start"
    BY RunsAndDeleters
  <1>2. LifecycleTypeOK
    <2>1. pc \in [Command -> {"start"} \cup Running \cup Deleting \cup Ended]
      BY DEF Deleting
    <2>2. faults \in 0..MaxFaults
      BY LifecycleAssumption
    <2> QED
      BY <1>1, <2>1, <2>2 DEF LifecycleTypeOK, IsPartial
  <1>3. \A r \in Run : RunInv(r)
    BY <1>1 DEF RunInv, SnapIsOwn, RecordIsOwn, TaskState, OwnTask, HasTask, Running, Cleaning,
       HasSnap, HasRecord
  <1>4. TasksStand
    BY DEF TasksStand
  <1> QED
    BY <1>2, <1>3, <1>4 DEF LifecycleInv

LEMMA StutterInv == ASSUME LifecycleInv, UNCHANGED vars PROVE LifecycleInv'
  <1>0. UNCHANGED <<snaps, records, taken, tasks, leases, opts, pc, outcome, faults>>
    BY DEF vars, daemon
  <1>1. LifecycleTypeOK'
    BY <1>0 DEF LifecycleInv, LifecycleTypeOK, IsPartial
  <1>2. /\ \A x : Lost(x) => Lost(x)'
        /\ \A q \in Run : pc'[q] = pc[q] /\ RunInv(q)
        /\ faults \in Nat /\ faults' \in Nat /\ faults' >= faults
    BY <1>0, NoCommandFrame
  <1>3. \A q \in Run : RunInv(q)'
    BY <1>0, <1>2, OtherRun DEF RunInv, SnapIsOwn
  <1>4. TasksStand'
    BY <1>0, <1>2, StandsFrame DEF LifecycleInv
  <1> QED
    BY <1>1, <1>2, <1>3, <1>4 DEF LifecycleInv

LEMMA NextInv ==
    ASSUME ~ LongRuns, LifecycleInv, [Next]_vars
    PROVE  LifecycleInv'
  <1>1. ASSUME NEW r \in Run, StartRun(r) \/ RunStep(r) \/ RunCallFails(r) \/ Expire(r)
        PROVE  LifecycleInv'
    BY <1>1, StartRunInv, PrepareSnapshotInv, CreateRecordInv, ReadMountsInv, NewTaskInv,
       StartTaskInv, AwaitExitInv, DeleteTaskInv, UndoTaskInv, RmCheckInv, RmSnapshotInv,
       RmRecordInv, ReleaseInv, RunCallFailsInv, ExpireInv
       DEF RunStep
  <1>2. ASSUME NEW d \in Deleter, DeleteStep(d)
        PROVE  LifecycleInv'
    BY <1>2, DeleteStepInv
  <1>3. ASSUME NEW c \in Command, Crash(c)
        PROVE  LifecycleInv'
    BY <1>3, CrashInv
  <1>4. ASSUME NEW id \in ContainerID, Exit(id)
        PROVE  LifecycleInv'
    BY <1>4, ExitInv
  <1>5. CASE Collect
    BY <1>5, CollectInv
  <1>6. CASE Quiet \/ UNCHANGED vars
    BY <1>6, StutterInv DEF Quiet
  <1> QED
    BY <1>1, <1>2, <1>3, <1>4, <1>5, <1>6 DEF Next

\* From step to step the snapshot under its ID is a run's own, and so is the
\* record, unless the record was lost: to an `rcl delete`, or to another run
\* with --rm that had lost its own; as long as no run outlives its lease
\* (run.go:96-182, container.go:186).
THEOREM WhatARunMadeIsItsOwn ==
    ASSUME ~ LongRuns
    PROVE  Spec => []LifecycleInv
  <1>1. LifecycleInv /\ [Next]_vars => LifecycleInv'
    BY NextInv
  <1> QED
    BY <1>1, InitInv, PTL DEF Spec

\* Whatever fails, a run waits for, reports and deletes no task but its own
\* (run.go:146-181).
THEOREM RunsHandleTheirOwnTask ==
    ASSUME ~ LongRuns
    PROVE  Spec => []TaskIsOwn
  <1>1. LifecycleInv => TaskIsOwn
    BY DEF LifecycleInv, RunInv, TaskState, TaskIsOwn
  <1> QED
    BY <1>1, WhatARunMadeIsItsOwn, PTL

\* With at most one failed call, a process that runs keeps the record and the
\* snapshot of its container: of the other commands only an `rcl delete`, or a
\* run with --rm whose own record was taken after it had looked for a task,
\* removes the record, and the snapshot goes only after that, to the collector
\* (run.go:126, delete.go:81, container.go:167-188).
THEOREM ProcessesKeepTheirContainer ==
    ASSUME ~ LongRuns, MaxFaults <= 1
    PROVE  Spec => []ProcessKeepsContainer
  <1>1. LifecycleInv => ProcessKeepsContainer
    <2> SUFFICES ASSUME LifecycleInv, NEW id \in ContainerID, Live(id)
                 PROVE  Stands(id, tasks[id].owner)
      BY DEF ProcessKeepsContainer
    <2>1. faults <= 1
      BY LifecycleAssumption DEF LifecycleInv, LifecycleTypeOK
    <2>2. tasks[id].owner \in Run
      BY DEF LifecycleInv, LifecycleTypeOK, IsPartial, Live
    <2> QED
      BY <2>1, <2>2 DEF LifecycleInv, TasksStand, Live
  <1> QED
    BY <1>1, WhatARunMadeIsItsOwn, PTL

\* The snapshot under a process is removed by --rm only when the task is away,
\* and collected only when the record is (run.go:126).
THEOREM SnapshotsOutliveTheirTask ==
    ASSUME ~ LongRuns, MaxFaults <= 1
    PROVE  Spec => SnapshotGoesAfterTask
  <1>1. LifecycleInv /\ [Next]_vars =>
           [\A id \in DOMAIN snaps \ DOMAIN snaps' :
              Live(id) /\ snaps[id] = tasks[id].owner =>
                 ~ (id \in DOMAIN records /\ records[id] = snaps[id])]_vars
    <2> SUFFICES ASSUME LifecycleInv, [Next]_vars, NEW id \in DOMAIN snaps \ DOMAIN snaps',
                        Live(id), snaps[id] = tasks[id].owner
                 PROVE  ~ (id \in DOMAIN records /\ records[id] = snaps[id])
      OBVIOUS
    <2>1. CASE Collect
      <3>1. DOMAIN snaps' = Kept
        BY <2>1 DEF Collect, Restrict
      <3> QED
        BY <3>1 DEF Kept
    <2>2. ASSUME NEW r \in Run, RmSnapshot(r)
          PROVE  FALSE
      <3>1. id = ID(r)
        BY <2>2 DEF RmSnapshot, Without, Restrict
      <3>2. pc[r] = "rm_snapshot" /\ snaps[ID(r)] = r
        BY <2>2 DEF RmSnapshot, LifecycleInv, RunInv, SnapIsOwn, HasSnap
      <3>3. OwnTask(r)
        BY <3>1, <3>2 DEF Live, OwnTask, HasTask
      <3>4. faults >= 2
        BY <3>2, <3>3 DEF LifecycleInv, RunInv, TaskState
      <3> QED
        BY <3>4, LifecycleAssumption DEF LifecycleInv, LifecycleTypeOK
    <2>3. Collect \/ \E r \in Run : RmSnapshot(r)
      <3>1. ASSUME NEW r \in Run,
                   \/ StartRun(r) \/ PrepareSnapshot(r) \/ CreateRecord(r) \/ ReadMounts(r) \/ NewTask(r)
                   \/ StartTask(r) \/ AwaitExit(r) \/ DeleteTask(r) \/ UndoTask(r) \/ RmCheck(r)
                   \/ RmRecord(r) \/ Release(r) \/ RunCallFails(r) \/ Expire(r)
            PROVE  FALSE
        BY <3>1 DEF StartRun, PrepareSnapshot, CreateRecord, ReadMounts, NewTask, StartTask, AwaitExit,
           DeleteTask, UndoTask, RmCheck, RmRecord, Release, RunCallFails, Expire, FailRun,
           Put, daemon
      <3>2. ASSUME NEW d \in Deleter, DeleteStep(d)
            PROVE  FALSE
        BY <3>2 DEF DeleteStep, Load, LookForTask, ReadStatus, DelTask, DelCheck, DelRecord, daemon
      <3> QED
        BY <3>1, <3>2 DEF Next, RunStep, Crash, Exit, Quiet, vars, daemon
    <2> QED
      BY <2>1, <2>2, <2>3
  <1> QED
    BY <1>1, WhatARunMadeIsItsOwn, PTL DEF Spec, SnapshotGoesAfterTask
=============================================================================
