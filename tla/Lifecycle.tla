----------------------------- MODULE Lifecycle ------------------------------
(***************************************************************************)
(* The life of a container from its creation by `rcl run` to its removal   *)
(* by --rm or by `rcl delete`: RunOptions.Run (cmd/rcl/commands/run.go)    *)
(* with its deferred calls, deleteContainer (delete.go), and the client    *)
(* functions they call (container.NewTask, container.Delete, task.Start,   *)
(* task.Delete of the vendored containerd client).                         *)
(*                                                                         *)
(* Everything is addressed by the container ID: the handles the commands   *)
(* hold say nothing of who made the thing that has the ID now.  The model  *)
(* keeps the maker beside each thing to tell.                              *)
(***************************************************************************)
EXTENDS Naturals, SequencesExt

CONSTANTS
    Run,         \* the invocations of `rcl run`
    Deleter,     \* the invocations of `rcl delete`
    ContainerID,
    MaxFaults,   \* bound: failed calls and dead commands in a behaviour
    LongRuns     \* whether a run may outlive its lease of 24 hours

ASSUME LifecycleAssumption ==
    /\ Run \cap Deleter = {}
    /\ MaxFaults \in Nat
    /\ LongRuns \in BOOLEAN

VARIABLES
    snaps,   \* ID -> the run that prepared the writable snapshot
    records, \* ID -> the run that created the container record
    taken,   \* history: <<q, c>> when command c has removed the record of run q
    tasks,   \* ID -> the status of its task, and the run that created it
    leases,  \* the runs whose lease exists
    opts,    \* command -> its ID and flags
    pc,      \* command -> the step it takes next
    outcome, \* command -> what it reports
    faults   \* the faults so far

daemon == <<snaps, records, taken, tasks, leases>>
vars == <<daemon, opts, pc, outcome, faults>>

Command == Run \cup Deleter

Cleaning == {"delete_task", "undo_task", "rm_check", "rm_snapshot", "rm_record"}
Running ==
    {"snapshot", "create", "new_task", "create_task", "start_task", "waiting", "release"}
        \cup Cleaning
Deleting == {"load", "task", "status", "del_task", "del_check", "del_record"}
Ended == {"done", "crashed"}

Status == {"created", "running", "stopped"}

Put(f, x, v) == [y \in DOMAIN f \cup {x} |-> IF y = x THEN v ELSE f[y]]
Without(f, x) == Restrict(f, DOMAIN f \ {x})
IsPartial(f, T) == DOMAIN f \subseteq ContainerID /\ f \in [DOMAIN f -> T]

LifecycleTypeOK ==
    /\ IsPartial(snaps, Run)
    /\ IsPartial(records, Run)
    /\ taken \subseteq Run \X Command
    /\ IsPartial(tasks, [status : Status, owner : Run])
    /\ leases \subseteq Run
    /\ opts \in [Command -> [id : ContainerID, rm : BOOLEAN, detach : BOOLEAN]]
    /\ pc \in [Command -> {"start"} \cup Running \cup Deleting \cup Ended]
    /\ outcome \in [Command -> {"none", "failed", "refused", "status", "ok"}]
    /\ faults \in 0..MaxFaults
    /\ \A r \in Run : pc[r] \in {"rm_check", "rm_snapshot", "rm_record"} =>
          opts[r].rm /\ ~ opts[r].detach

Init ==
    /\ snaps = <<>>
    /\ records = <<>>
    /\ taken = {}
    /\ tasks = <<>>
    /\ leases = {}
    /\ opts \in [Command -> [id : ContainerID, rm : BOOLEAN, detach : BOOLEAN]]
    /\ \A d \in Deleter : ~ opts[d].rm /\ ~ opts[d].detach
    /\ pc = [c \in Command |-> IF c \in Run THEN "start" ELSE "load"]
    /\ outcome = [c \in Command |-> "none"]
    /\ faults = 0

-----------------------------------------------------------------------------

ID(c) == opts[c].id

HasTask(c) == ID(c) \in DOMAIN tasks

TaskIs(c, status) == HasTask(c) /\ tasks[ID(c)].status = status

Goto(c, step) == pc' = [pc EXCEPT ![c] = step]

Report(c, what) == outcome' = [outcome EXCEPT ![c] = what]

Fault == faults < MaxFaults /\ faults' = faults + 1

\* run.go:126: `defer container.Delete(ctx, containerd.WithSnapshotCleanup)`.
Removes(r) == opts[r].rm /\ ~ opts[r].detach

\* Mutated: the deferred deletion of the task comes after that of the
\* container, as it would if it were deferred first.
Unwind_Swapped(r) ==
    IF pc[r] \in {"new_task", "create_task", "start_task", "waiting", "delete_task"} /\ Removes(r)
    THEN "rm_check"
    ELSE IF /\ pc[r] \in {"start_task", "waiting"} \cup (Cleaning \ {"undo_task"})
            /\ ~ opts[r].detach
    THEN "undo_task"
    ELSE "release"

\* The first deferred call that is in place when Run returns at a step.
Unwind(r) ==
    CASE pc[r] \in {"start_task", "waiting", "delete_task"} /\ ~ opts[r].detach -> "undo_task"
      [] pc[r] \in {"new_task", "create_task", "undo_task"} /\ Removes(r) -> "rm_check"
      [] OTHER -> "release"

FailRun(r) ==
    /\ Goto(r, Unwind(r))
    /\ Report(r, "failed")
    /\ UNCHANGED <<daemon, opts>>

\* A call has taken effect; the fault is that its answer is lost.
Succeed(r, step) ==
    \/ Goto(r, step) /\ UNCHANGED <<outcome, faults>>
    \/ Fault /\ Goto(r, Unwind(r)) /\ Report(r, "failed")

-----------------------------------------------------------------------------
(* rcl run.                                                                *)

\* Mutated: the run has no lease.
Lease_None(r) == UNCHANGED leases

Lease(r) == leases' = leases \cup {r}

StartRun(r) ==
    /\ pc[r] = "start"
    /\ Lease(r)
    /\ Goto(r, "snapshot")
    /\ UNCHANGED <<snaps, records, taken, tasks, opts, outcome, faults>>

PrepareSnapshot(r) ==
    /\ pc[r] = "snapshot"
    /\ \/ /\ ID(r) \in DOMAIN snaps
          /\ FailRun(r)
          /\ UNCHANGED faults
       \/ /\ ID(r) \notin DOMAIN snaps
          /\ snaps' = Put(snaps, ID(r), r)
          /\ Succeed(r, "create")
          /\ UNCHANGED <<records, taken, tasks, leases, opts>>

CreateRecord(r) ==
    /\ pc[r] = "create"
    /\ \/ /\ ID(r) \in DOMAIN records
          /\ FailRun(r)
          /\ UNCHANGED faults
       \/ /\ ID(r) \notin DOMAIN records
          /\ records' = Put(records, ID(r), r)
          /\ Succeed(r, "new_task")
          /\ UNCHANGED <<snaps, taken, tasks, leases, opts>>

\* container.NewTask reads the record and asks for the mounts of its snapshot.
ReadMounts(r) ==
    /\ pc[r] = "new_task"
    /\ \/ ~ (ID(r) \in DOMAIN records /\ ID(r) \in DOMAIN snaps) /\ FailRun(r)
       \/ /\ ID(r) \in DOMAIN records /\ ID(r) \in DOMAIN snaps
          /\ Goto(r, "create_task")
          /\ UNCHANGED <<daemon, opts, outcome>>
    /\ UNCHANGED faults

\* The daemon looks the record up again when it creates the task.
NewTask(r) ==
    /\ pc[r] = "create_task"
    /\ \/ /\ ID(r) \notin DOMAIN records \/ HasTask(r)
          /\ FailRun(r)
          /\ UNCHANGED faults
       \/ /\ ID(r) \in DOMAIN records /\ ~ HasTask(r)
          /\ tasks' = Put(tasks, ID(r), [status |-> "created", owner |-> r])
          /\ Succeed(r, "start_task")
          /\ UNCHANGED <<snaps, records, taken, leases, opts>>

\* A detached run is over when its task has started.
StartTask(r) ==
    /\ pc[r] = "start_task"
    /\ \/ ~ TaskIs(r, "created") /\ FailRun(r) /\ UNCHANGED faults
       \/ /\ TaskIs(r, "created")
          /\ tasks' = [tasks EXCEPT ![ID(r)].status = "running"]
          /\ Succeed(r, IF opts[r].detach THEN "release" ELSE "waiting")
          /\ UNCHANGED <<snaps, records, taken, leases, opts>>

\* `status := <-statusC`: the exit status of the process, or an error if the
\* daemon had no task of this ID when it was asked.
AwaitExit(r) ==
    /\ pc[r] = "waiting"
    /\ HasTask(r) => tasks[ID(r)].owner # r \/ TaskIs(r, "stopped")
    /\ \/ ~ HasTask(r) /\ FailRun(r)
       \/ Goto(r, "delete_task") /\ UNCHANGED <<daemon, opts, outcome>>
    /\ UNCHANGED faults

\* task.Delete refuses every task that has not stopped.
Deletable(c) == TaskIs(c, "stopped")

\* It does not look at an error of its status call: the daemon then gets the
\* request, and the daemon refuses only a task that runs.
CanDelete(c) ==
    \/ Deletable(c) /\ UNCHANGED faults
    \/ HasTask(c) /\ ~ TaskIs(c, "running") /\ Fault

\* The explicit Delete before the exit code is reported.
DeleteTask(r) ==
    /\ pc[r] = "delete_task"
    /\ \/ ~ Deletable(r) /\ FailRun(r) /\ UNCHANGED faults
       \/ /\ CanDelete(r)
          /\ tasks' = Without(tasks, ID(r))
          /\ Report(r, "status")
          /\ Goto(r, "undo_task")
          /\ UNCHANGED <<snaps, records, taken, leases, opts>>

\* The deferred one, whose error nobody sees.
UndoTask(r) ==
    /\ pc[r] = "undo_task"
    /\ \/ ~ Deletable(r) /\ UNCHANGED <<tasks, faults>>
       \/ CanDelete(r) /\ tasks' = Without(tasks, ID(r))
    /\ Goto(r, Unwind(r))
    /\ UNCHANGED <<snaps, records, taken, leases, opts, outcome>>

\* Mutated: container.Delete does not look for a task.
CheckNoTask_Skipped(c) == UNCHANGED faults

\* container.Delete: any error of the look-up of the task counts as "there
\* is no task", also one that says nothing about it.
CheckNoTask(c) ==
    \/ ~ HasTask(c) /\ UNCHANGED faults
    \/ Fault

RmCheck(r) ==
    /\ pc[r] = "rm_check"
    /\ \/ /\ HasTask(r) \/ ID(r) \notin DOMAIN records
          /\ Goto(r, "release")
          /\ UNCHANGED faults
       \/ /\ ID(r) \in DOMAIN records
          /\ CheckNoTask(r)
          /\ Goto(r, "rm_snapshot")
    /\ UNCHANGED <<daemon, opts, outcome>>

\* The record of the ID goes, whoever has made it (container.go:187).
RemoveRecord(c) ==
    /\ records' = Without(records, ID(c))
    /\ taken' = taken \cup {<<records[id], c>> : id \in {ID(c)} \cap DOMAIN records}

RmSnapshot(r) ==
    /\ pc[r] = "rm_snapshot"
    /\ snaps' = Without(snaps, ID(r))
    /\ Goto(r, "rm_record")
    /\ UNCHANGED <<records, taken, tasks, leases, opts, outcome, faults>>

RmRecord(r) ==
    /\ pc[r] = "rm_record"
    /\ RemoveRecord(r)
    /\ Goto(r, "release")
    /\ UNCHANGED <<snaps, tasks, leases, opts, outcome, faults>>

Release(r) ==
    /\ pc[r] = "release"
    /\ leases' = leases \ {r}
    /\ Goto(r, "done")
    /\ UNCHANGED <<snaps, records, taken, tasks, opts, outcome, faults>>

RunStep(r) ==
    \/ PrepareSnapshot(r) \/ CreateRecord(r) \/ ReadMounts(r) \/ NewTask(r)
    \/ StartTask(r) \/ AwaitExit(r) \/ DeleteTask(r) \/ UndoTask(r) \/ RmCheck(r)
    \/ RmSnapshot(r) \/ RmRecord(r) \/ Release(r)

-----------------------------------------------------------------------------
(* rcl delete.                                                             *)

EndDelete(d, what) == Goto(d, "done") /\ Report(d, what)

Load(d) ==
    /\ pc[d] = "load"
    /\ \/ ID(d) \notin DOMAIN records /\ EndDelete(d, "failed")
       \/ ID(d) \in DOMAIN records /\ Goto(d, "task") /\ UNCHANGED outcome
    /\ UNCHANGED <<daemon, opts, faults>>

LookForTask(d) ==
    /\ pc[d] = "task"
    /\ \/ CheckNoTask(d) /\ Goto(d, "del_check")
       \/ HasTask(d) /\ Goto(d, "status") /\ UNCHANGED faults
    /\ UNCHANGED <<daemon, opts, outcome>>

ReadStatus(d) ==
    /\ pc[d] = "status"
    /\ \/ ~ HasTask(d) /\ EndDelete(d, "failed")
       \/ TaskIs(d, "running") /\ EndDelete(d, "refused")
       \/ /\ TaskIs(d, "stopped") \/ TaskIs(d, "created")
          /\ Goto(d, "del_task")
          /\ UNCHANGED outcome
    /\ UNCHANGED <<daemon, opts, faults>>

DelTask(d) ==
    /\ pc[d] = "del_task"
    /\ \/ /\ ~ Deletable(d)
          /\ EndDelete(d, IF HasTask(d) THEN "refused" ELSE "failed")
          /\ UNCHANGED <<tasks, faults>>
       \/ /\ CanDelete(d)
          /\ tasks' = Without(tasks, ID(d))
          /\ Goto(d, "del_check")
          /\ UNCHANGED outcome
    /\ UNCHANGED <<snaps, records, taken, leases, opts>>

DelCheck(d) ==
    /\ pc[d] = "del_check"
    /\ \/ /\ HasTask(d) \/ ID(d) \notin DOMAIN records
          /\ EndDelete(d, IF HasTask(d) THEN "refused" ELSE "failed")
          /\ UNCHANGED faults
       \/ /\ ID(d) \in DOMAIN records
          /\ CheckNoTask(d)
          /\ Goto(d, "del_record")
          /\ UNCHANGED outcome
    /\ UNCHANGED <<daemon, opts>>

\* deleteContainer is given no DeleteOpts: the snapshot is left behind.
DelRecord(d) ==
    /\ pc[d] = "del_record"
    /\ RemoveRecord(d)
    /\ EndDelete(d, IF ID(d) \in DOMAIN records THEN "ok" ELSE "failed")
    /\ UNCHANGED <<snaps, tasks, leases, opts, faults>>

DeleteStep(d) ==
    \/ Load(d) \/ LookForTask(d) \/ ReadStatus(d) \/ DelTask(d) \/ DelCheck(d)
    \/ DelRecord(d)

-----------------------------------------------------------------------------
(* Faults, the container's process and the daemon.                         *)

\* A call of a run fails without effect.
RunCallFails(r) ==
    /\ pc[r] \in Running \ {"release"}
    /\ Fault
    /\ Goto(r, Unwind(r))
    /\ Report(r, IF pc[r] \in Cleaning \ {"delete_task"} THEN outcome[r] ELSE "failed")
    /\ UNCHANGED <<daemon, opts>>

Crash(c) ==
    /\ pc[c] \in Running \cup (Deleting \ {"load"})
    /\ Fault
    /\ Goto(c, "crashed")
    /\ UNCHANGED <<daemon, opts, outcome>>

Exit(id) ==
    /\ id \in DOMAIN tasks
    /\ tasks[id].status = "running"
    /\ tasks' = [tasks EXCEPT ![id].status = "stopped"]
    /\ UNCHANGED <<snaps, records, taken, leases, opts, pc, outcome, faults>>

\* The lease of a dead run expires, and that of one that waits for a process
\* that runs for more than a day.
Expire(r) ==
    /\ r \in leases
    /\ pc[r] \in Ended \/ (LongRuns /\ pc[r] = "waiting")
    /\ leases' = leases \ {r}
    /\ UNCHANGED <<snaps, records, taken, tasks, opts, pc, outcome, faults>>

\* Mutated: a snapshot is kept whether anything refers to it or not.
Kept_All == DOMAIN snaps

\* A writable snapshot is kept by the record of its ID or by the lease under
\* which it was prepared.
Kept == {id \in DOMAIN snaps : id \in DOMAIN records \/ snaps[id] \in leases}

Collect ==
    /\ DOMAIN snaps # Kept
    /\ snaps' = Restrict(snaps, Kept)
    /\ UNCHANGED <<records, taken, tasks, leases, opts, pc, outcome, faults>>

\* The commands have ended, and so have the containers' processes.
Quiet ==
    /\ \A c \in Command : pc[c] \in Ended
    /\ UNCHANGED vars

Next ==
    \/ \E r \in Run : StartRun(r) \/ RunStep(r) \/ RunCallFails(r) \/ Expire(r)
    \/ \E d \in Deleter : DeleteStep(d)
    \/ \E c \in Command : Crash(c)
    \/ \E id \in ContainerID : Exit(id)
    \/ Collect
    \/ Quiet

Spec == Init /\ [][Next]_vars

\* The commands take their steps, the daemon collects and leases expire, and
\* the containers' processes end.
FairSpec ==
    /\ Spec
    /\ \A r \in Run : WF_vars(RunStep(r)) /\ WF_vars(Expire(r))
    /\ \A d \in Deleter : WF_vars(DeleteStep(d))
    /\ \A id \in ContainerID : WF_vars(Exit(id))
    /\ WF_vars(Collect)

-----------------------------------------------------------------------------
(* Properties.                                                             *)

Live(id) == id \in DOMAIN tasks /\ tasks[id].status = "running"

\* "an error is returned if the container has running tasks"
\* (vendor/.../container.go:173, and delete.go:87): the record of a container
\* is not deleted while its task runs.
RunningKeepsRecord == \A id \in ContainerID : Live(id) => id \in DOMAIN records

\* delete.go:81 admits a container whose task has stopped or was created and
\* never started: after that, `rcl delete` refuses it only if its task has been
\* started in between.
DeleteRefusesOnlyRunning ==
    [][\A d \in Deleter :
          pc[d] = "del_task" /\ outcome'[d] = "refused" => Live(ID(d))]_vars

\* The record of run q was removed by an `rcl delete`, or by the --rm of a run
\* whose own record another command had removed before: it goes by the ID too.
Lost(q) ==
    \E c \in Command :
        /\ <<q, c>> \in taken
        /\ c \in Deleter \/ (c # q /\ \E e \in Command \ {c} : <<c, e>> \in taken)

\* The container of run q has its record, unless that was lost, and its
\* snapshot, which is lost after the record, and not before the lease of the
\* run is gone.
Stands(id, q) ==
    /\ (id \in DOMAIN records /\ records[id] = q) \/ Lost(q)
    /\ (id \in DOMAIN snaps /\ snaps[id] = q) \/ (Lost(q) /\ q \notin leases)

\* A process that runs keeps its container.  Of the other commands only an
\* `rcl delete`, or a run with --rm that has itself lost its record after it
\* looked for a task, takes the record from under it; none takes the snapshot.
ProcessKeepsContainer == \A id \in ContainerID : Live(id) => Stands(id, tasks[id].owner)

\* A run waits for, reports and deletes no task but its own: its lease keeps
\* its snapshot, and with it nobody else gets the ID.
TaskIsOwn ==
    \A r \in Run :
        pc[r] \in {"start_task", "waiting", "delete_task", "undo_task"} /\ HasTask(r) =>
            tasks[ID(r)].owner = r

\* The snapshot a process runs on goes only when the record of its container
\* has gone before: --rm takes snapshot and record when the task is away, and
\* no other run's clean-up reaches them.
SnapshotGoesAfterTask ==
    [][\A id \in DOMAIN snaps \ DOMAIN snaps' :
          Live(id) /\ snaps[id] = tasks[id].owner =>
              ~ (id \in DOMAIN records /\ records[id] = snaps[id])]_vars

\* When no call fails and no `rcl delete` takes a record from under a task,
\* a run with --rm that stays attached leaves neither a task, nor a record,
\* nor a snapshot (run.go:66, "remove container after running").
RmLeavesNothing ==
    [](faults = 0 /\ DOMAIN tasks \subseteq DOMAIN records) => \A r \in Run :
        pc[r] = "new_task" /\ Removes(r) ~>
            \A id \in {ID(r)} :
                /\ id \in DOMAIN tasks => tasks[id].owner # r
                /\ id \in DOMAIN records => records[id] # r
                /\ id \in DOMAIN snaps => snaps[id] # r

\* An ID whose record was removed can be used again in the end: the snapshot
\* `rcl delete` leaves behind is collected when no run holds it.
IDFreedInTheEnd ==
    (\A r \in Run : pc[r] # "start") ~> [](DOMAIN snaps \subseteq DOMAIN records)
=============================================================================
