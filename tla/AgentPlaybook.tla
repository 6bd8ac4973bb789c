---------------------------- MODULE AgentPlaybook ----------------------------
(***************************************************************************)
(* The agent's Playbook controller (agent/pkg/controllers/playbook.go) on  *)
(* one Playbook, from its creation to its removal: the object and the      *)
(* informer's copy, the work queue's key, the single worker, the retry     *)
(* timers, the playbook's directory and the ansible process.               *)
(*                                                                         *)
(* Time is the age of the object in units of DefaultJobBackOff.            *)
(***************************************************************************)
EXTENDS Informer, Integers, FiniteSets

CONSTANTS
    BackoffLimit,   \* Spec.Policy.BackoffLimit
    MaxAge,         \* bound on the modelled clock
    MaxFaults,      \* bound on crashes, failed calls and resyncs together
    MaxStale        \* bound on reconciles that read an outdated copy

ASSUME BackoffLimitAssumption == BackoffLimit \in Nat
ASSUME BoundsAssumption ==
    /\ MaxAge \in Nat
    /\ MaxFaults \in Nat
    /\ MaxStale \in Nat

VARIABLES
    obj,        \* the Playbook: stored, cached, undelivered events
    dirty,      \* its key is waiting in the work queue
    timers,     \* ages at which the key is added again (RequeueAfter, retries)
    worker,     \* the reconcile in progress
    dir,        \* the playbook's directory: "absent", "present" or "abandoned"
    age,        \* time since CreationTimestamp
    starts,     \* observer: how often ansible-playbook has been started
    failures,   \* observer: how many attempts have returned an error
    exitZero,   \* observer: some run has ended with exit code 0
    faults,     \* observer: crashes, failed calls and resyncs so far
    stale       \* observer: reconciles that have read an outdated copy

observers == <<starts, failures, exitZero>>
vars == <<obj, dirty, timers, worker, dir, age, observers, faults, stale>>

-----------------------------------------------------------------------------
(* The object *)

Phases == {"", "Unknown", "Pending", "Running", "Succeeded", "Failed"}

\* Status of the Execution condition: absent, False with its reason, or True.
Executions == {"absent", "PreparationFailed", "ExecutionFailed", "True"}

Conditions == [execution : Executions, failed : BOOLEAN]

Playbook ==
    [exists : BOOLEAN, deleting : BOOLEAN, finalizer : BOOLEAN,
     phase : Phases, failed : Nat, conditions : Conditions]

\* A Playbook as the strategy's PrepareForCreate leaves it: an empty status.
NewPlaybook ==
    [exists |-> TRUE, deleting |-> FALSE, finalizer |-> FALSE, phase |-> "",
     failed |-> 0, conditions |-> [execution |-> "absent", failed |-> FALSE]]

\* The object is not found.
NoPlaybook == [NewPlaybook EXCEPT !.exists = FALSE]

\* conditions.IsTrue(Execution) || conditions.IsTrue(Failed)
Terminal(p) == p.conditions.execution = "True" \/ p.conditions.failed

Exceeded_Strict(p) == p.failed > BackoffLimit
Exceeded_OffByOne(p) == p.failed + 1 >= BackoffLimit
Exceeded(p) == p.failed >= BackoffLimit

\* The delay before the next attempt: 2^(exp - 1) units, capped at
\* MaxJobBackOff, which is 36 units of DefaultJobBackOff.
getBackoff(exp) ==
    IF exp <= 0 THEN 0
    ELSE IF exp <= 6 THEN <<1, 2, 4, 8, 16, 32>>[exp]
    ELSE 36

\* The delay is counted from the creation of the object.
BackingOff(p) == p.failed > 0 /\ age < getBackoff(p.failed)

\* Status().Patch with MergeFrom(old): only the fields that differ between
\* old and new are sent, and the list of conditions is one field.
MergeStatus(cur, old, new) ==
    [cur EXCEPT
        !.phase = IF new.phase # old.phase THEN new.phase ELSE @,
        !.failed = IF new.failed # old.failed THEN new.failed ELSE @,
        !.conditions = IF new.conditions # old.conditions
                         THEN new.conditions ELSE @]

-----------------------------------------------------------------------------
(* The reconcile in progress: the copy it read (oldPb) and the object it    *)
(* is going to patch (pb).                                                  *)

Steps == {"idle", "addFinalizer", "removeDir", "removeFinalizer",
          "ensureAnsible", "runPlaybook", "patchStatus"}

Worker == [step : Steps, old : Playbook, new : Playbook]

Idle == [step |-> "idle", old |-> NoPlaybook, new |-> NoPlaybook]

Init ==
    /\ obj = Listed(NewPlaybook)
    /\ dirty = TRUE
    /\ timers = {}
    /\ worker = Idle
    /\ dir = "absent"
    /\ age = 0
    /\ starts = 0
    /\ failures = 0
    /\ exitZero = FALSE
    /\ faults = 0
    /\ stale = 0

\* A version is stored; if it pushes an older one into the cache, the
\* informer's event handler adds the key to the queue.
StoreVersion(v) ==
    /\ obj' = Store(obj, v)
    /\ dirty' = (dirty \/ Overflows(obj, v))

-----------------------------------------------------------------------------
(* Reconcile *)

\* The worker takes the key and reads the informer's copy.
Begin ==
    /\ worker.step = "idle"
    /\ dirty
    /\ dirty' = FALSE
    /\ Current(obj) \/ stale < MaxStale
    /\ stale' = IF Current(obj) THEN stale ELSE stale + 1
    /\ UNCHANGED <<obj, age, faults>>

\* Begin, and go on with the given step on object pb.
Proceed(step, pb) ==
    /\ Begin
    /\ worker' = [step |-> step, old |-> obj.cached, new |-> pb]

\* The object is past the deletion and finalizer branches of Reconcile.
Reconcilable(p) == p.exists /\ ~p.deleting /\ p.finalizer

\* The object may be executed: no verdict, attempts left, no delay pending.
Executable(p) ==
    /\ Reconcilable(p)
    /\ ~Terminal(p)
    /\ ~Exceeded(p)
    /\ ~BackingOff(p)

\* Get finds nothing.
ReconcileNotFound ==
    /\ Begin
    /\ ~obj.cached.exists
    /\ UNCHANGED <<worker, timers, dir, observers>>

\* reconcileDelete: remove the directory first, then the finalizer.
ReconcileDelete_FinalizerFirst ==
    /\ obj.cached.exists /\ obj.cached.deleting
    /\ obj.cached.finalizer
    /\ Proceed("removeFinalizer", [obj.cached EXCEPT !.finalizer = FALSE])
    /\ UNCHANGED <<timers, dir, observers>>
ReconcileDelete ==
    /\ obj.cached.exists /\ obj.cached.deleting
    /\ obj.cached.finalizer
    /\ Proceed("removeDir", [obj.cached EXCEPT !.finalizer = FALSE])
    /\ UNCHANGED <<timers, dir, observers>>

ReconcileAddFinalizer ==
    /\ obj.cached.exists /\ ~obj.cached.deleting
    /\ ~obj.cached.finalizer
    /\ Proceed("addFinalizer", [obj.cached EXCEPT !.finalizer = TRUE])
    /\ UNCHANGED <<timers, dir, observers>>

\* Nothing to do; the deferred status patch is sent all the same.
ReconcileDone ==
    /\ Reconcilable(obj.cached)
    /\ Terminal(obj.cached) \/ (Executable(obj.cached) /\ obj.cached.phase = "Succeeded")
    /\ Proceed("patchStatus", obj.cached)
    /\ UNCHANGED <<timers, dir, observers>>

ReconcileExceeded ==
    /\ Reconcilable(obj.cached)
    /\ ~Terminal(obj.cached)
    /\ Exceeded(obj.cached)
    /\ Proceed("patchStatus", [obj.cached EXCEPT
            !.phase = "Failed",
            !.conditions = [obj.cached.conditions EXCEPT !.failed = TRUE]])
    /\ UNCHANGED <<timers, dir, observers>>

\* RequeueAfter: backoffTime.Sub(now)
ReconcileBackoff_NoRequeue ==
    /\ Reconcilable(obj.cached)
    /\ ~Terminal(obj.cached)
    /\ ~Exceeded(obj.cached)
    /\ BackingOff(obj.cached)
    /\ Proceed("patchStatus", obj.cached)
    /\ UNCHANGED <<timers, dir, observers>>
ReconcileBackoff ==
    /\ Reconcilable(obj.cached)
    /\ ~Terminal(obj.cached)
    /\ ~Exceeded(obj.cached)
    /\ BackingOff(obj.cached)
    /\ Proceed("patchStatus", obj.cached)
    /\ timers' = timers \cup {getBackoff(obj.cached.failed)}
    /\ UNCHANGED <<dir, observers>>

ReconcilePending ==
    /\ Executable(obj.cached)
    /\ obj.cached.phase \in {"", "Unknown", "Failed"}
    /\ Proceed("patchStatus", [obj.cached EXCEPT !.phase = "Pending"])
    /\ UNCHANGED <<timers, dir, observers>>

ReconcileEnsureAnsible ==
    /\ Executable(obj.cached)
    /\ obj.cached.phase = "Pending"
    /\ Proceed("ensureAnsible", obj.cached)
    /\ UNCHANGED <<timers, dir, observers>>

\* runPlaybook writes the files and starts ansible-playbook.
ReconcileRun ==
    /\ Executable(obj.cached)
    /\ obj.cached.phase = "Running"
    /\ Proceed("runPlaybook", obj.cached)
    /\ dir' = "present"
    /\ starts' = starts + 1
    /\ UNCHANGED <<timers, failures, exitZero>>

Reconcile ==
    \/ ReconcileNotFound
    \/ ReconcileDelete
    \/ ReconcileAddFinalizer
    \/ ReconcileDone
    \/ ReconcileExceeded
    \/ ReconcileBackoff
    \/ ReconcilePending
    \/ ReconcileEnsureAnsible
    \/ ReconcileRun

-----------------------------------------------------------------------------
(* The rest of a reconcile *)

\* conditions.MarkFalse(Execution, reason) with Failed++.
CountFailure_NotCounted(pb, phase, reason) ==
    [pb EXCEPT !.phase = phase,
               !.conditions = [pb.conditions EXCEPT !.execution = reason]]
CountFailure_CountsDown(pb, phase, reason) ==
    [pb EXCEPT !.phase = phase,
               !.failed = pb.failed - 1,
               !.conditions = [pb.conditions EXCEPT !.execution = reason]]
CountFailure(pb, phase, reason) ==
    [pb EXCEPT !.phase = phase,
               !.failed = pb.failed + 1,
               !.conditions = [pb.conditions EXCEPT !.execution = reason]]

\* runPlaybook returned nil: Phase Succeeded and Execution True.
Succeed(pb) ==
    [pb EXCEPT !.phase = "Succeeded",
               !.conditions = [pb.conditions EXCEPT !.execution = "True"]]

\* The reconcile goes on to its deferred status patch.
FinishWith(pb) ==
    /\ worker' = [worker EXCEPT !.step = "patchStatus", !.new = pb]
    /\ UNCHANGED <<obj, dirty, timers, dir, age, starts, faults, stale>>

EnsureAnsibleSucceeds ==
    /\ worker.step = "ensureAnsible"
    /\ FinishWith([worker.new EXCEPT !.phase = "Running"])
    /\ UNCHANGED <<failures, exitZero>>

\* The error branch has no return: its phase Failed is overwritten at once.
EnsureAnsibleFails ==
    /\ worker.step = "ensureAnsible"
    /\ FinishWith(CountFailure(worker.new, "Running", "PreparationFailed"))
    /\ failures' = failures + 1
    /\ UNCHANGED exitZero

\* ansible-playbook ends by itself with exit code 0.
RunExitsZero ==
    /\ worker.step = "runPlaybook"
    /\ FinishWith(Succeed(worker.new))
    /\ exitZero' = TRUE
    /\ UNCHANGED failures

\* It ends with another code, or a file cannot be written.
RunFails ==
    /\ worker.step = "runPlaybook"
    /\ FinishWith(CountFailure(worker.new, "Failed", "ExecutionFailed"))
    /\ failures' = failures + 1
    /\ UNCHANGED exitZero

\* Policy.Timeout expires and the process is killed.  cmd.Run returns nil, and
\* the ctx.Err() branch returns that nil.
RunTimesOut ==
    /\ worker.step = "runPlaybook"
    /\ FinishWith(Succeed(worker.new))
    /\ UNCHANGED <<failures, exitZero>>

\* os.RemoveAll in reconcileDelete; its error is logged and not acted on, which
\* abandons the directory.
RemoveDir ==
    /\ worker.step = "removeDir"
    /\ dir' = "absent"
    /\ worker' = [worker EXCEPT !.step = "removeFinalizer"]
    /\ UNCHANGED <<obj, dirty, timers, age, observers, faults, stale>>

RemoveDirFails ==
    /\ worker.step = "removeDir"
    /\ dir # "absent"
    /\ faults < MaxFaults
    /\ faults' = faults + 1
    /\ dir' = "abandoned"
    /\ worker' = [worker EXCEPT !.step = "removeFinalizer"]
    /\ UNCHANGED <<obj, dirty, timers, age, observers, stale>>

\* The stored version after the patch that the reconcile ends with.
Patched(cur) ==
    CASE worker.step = "patchStatus" -> MergeStatus(cur, worker.old, worker.new)
      [] worker.step = "addFinalizer" -> [cur EXCEPT !.finalizer = TRUE]
      [] worker.step = "removeFinalizer" -> NoPlaybook

Patching == worker.step \in {"patchStatus", "addFinalizer", "removeFinalizer"}

\* The patch is applied and Reconcile returns.
PatchApplied_Apply ==
    /\ Patching
    /\ StoreVersion(IF worker.step = "removeFinalizer"
                      THEN Patched(obj.stored)
                      ELSE [Patched(obj.stored) EXCEPT !.exists = TRUE])
    /\ worker' = Idle
    /\ UNCHANGED <<timers, dir, age, observers, faults, stale>>
PatchApplied ==
    /\ Patching
    /\ obj.stored.exists
    /\ StoreVersion(Patched(obj.stored))
    /\ worker' = Idle
    /\ UNCHANGED <<timers, dir, age, observers, faults, stale>>

\* The object has gone: the patch fails and the key is retried.
PatchNotFound ==
    /\ Patching
    /\ ~obj.stored.exists
    /\ worker' = Idle
    /\ timers' = timers \cup {age}
    /\ UNCHANGED <<obj, dirty, dir, age, observers, faults, stale>>

\* The call fails before it is applied, or its answer is lost after it was:
\* either way the worker sees an error and the key is retried.
PatchFails_Swallowed(applied) ==
    /\ Patching
    /\ faults < MaxFaults
    /\ faults' = faults + 1
    /\ IF applied /\ obj.stored.exists
         THEN StoreVersion(Patched(obj.stored))
         ELSE UNCHANGED <<obj, dirty>>
    /\ worker' = Idle
    /\ UNCHANGED <<timers, dir, age, observers, stale>>
PatchFails(applied) ==
    /\ Patching
    /\ faults < MaxFaults
    /\ faults' = faults + 1
    /\ IF applied /\ obj.stored.exists
         THEN StoreVersion(Patched(obj.stored))
         ELSE UNCHANGED <<obj, dirty>>
    /\ worker' = Idle
    /\ timers' = timers \cup {age}
    /\ UNCHANGED <<dir, age, observers, stale>>

WorkerStep ==
    \/ EnsureAnsibleSucceeds
    \/ EnsureAnsibleFails
    \/ RunExitsZero
    \/ RunFails
    \/ RunTimesOut
    \/ RemoveDir
    \/ RemoveDirFails
    \/ PatchApplied
    \/ PatchNotFound
    \/ \E applied \in BOOLEAN : PatchFails(applied)

-----------------------------------------------------------------------------
(* The surroundings *)

\* A watch event reaches the informer, which adds the key to the queue.
DeliverEvent ==
    /\ ~Current(obj)
    /\ obj' = Deliver(obj)
    /\ dirty' = TRUE
    /\ UNCHANGED <<timers, worker, dir, age, observers, faults, stale>>

\* A timer of the work queue expires.
FireTimer ==
    /\ \E t \in timers :
        /\ t <= age
        /\ timers' = timers \ {t}
    /\ dirty' = TRUE
    /\ UNCHANGED <<obj, worker, dir, age, observers, faults, stale>>

Tick ==
    /\ age < MaxAge
    /\ age' = age + 1
    /\ UNCHANGED <<obj, dirty, timers, worker, dir, observers, faults, stale>>

\* The informer's periodic resync adds the key without any change.
Resync ==
    /\ faults < MaxFaults
    /\ faults' = faults + 1
    /\ dirty' = TRUE
    /\ UNCHANGED <<obj, timers, worker, dir, age, observers, stale>>

\* Somebody deletes the Playbook: marked while it has the finalizer.
RequestDelete ==
    /\ obj.stored.exists
    /\ ~obj.stored.deleting
    /\ StoreVersion(IF obj.stored.finalizer
                      THEN [obj.stored EXCEPT !.deleting = TRUE] ELSE NoPlaybook)
    /\ UNCHANGED <<timers, worker, dir, age, observers, faults, stale>>

\* The agent stops and starts again: etcd and the directory survive, the
\* new informer lists the object and adds its key.
Restart ==
    /\ faults < MaxFaults
    /\ faults' = faults + 1
    /\ obj' = Listed(obj.stored)
    /\ dirty' = obj.stored.exists
    /\ timers' = {}
    /\ worker' = Idle
    /\ UNCHANGED <<dir, age, observers, stale>>

Next ==
    \/ Reconcile
    \/ WorkerStep
    \/ DeliverEvent
    \/ FireTimer
    \/ Tick
    \/ Resync
    \/ RequestDelete
    \/ Restart

\* The worker, the watch stream, the timers and the clock keep going; nobody
\* has to delete, and faults need not happen.
Fairness ==
    /\ WF_vars(Reconcile)
    /\ WF_vars(WorkerStep)
    /\ WF_vars(DeliverEvent)
    /\ WF_vars(FireTimer)
    /\ WF_vars(Tick)

Spec == Init /\ [][Next]_vars
FairSpec == Spec /\ Fairness

-----------------------------------------------------------------------------
(* Properties *)

\* The objects, the queue, the worker and the observers are of their types.
TypeOK ==
    /\ obj \in Object(Playbook)
    /\ dirty \in BOOLEAN
    /\ timers \subseteq Nat
    /\ worker \in Worker
    /\ dir \in {"absent", "present", "abandoned"}
    /\ age \in Nat
    /\ starts \in Nat
    /\ failures \in Nat
    /\ exitZero \in BOOLEAN
    /\ faults \in Nat
    /\ stale \in Nat

\* The Failed condition is stored only after BackoffLimit attempts have really
\* failed: retries, crashes, lost answers and outdated copies never make the
\* controller give up early ("the number of retries before marking this
\* playbook failed").
FailedOnlyAfterLimit ==
    obj.stored.conditions.failed => failures >= BackoffLimit

\* Status.Failed never passes BackoffLimit, whatever copy it is counted from.
FailedWithinLimit == obj.stored.failed <= BackoffLimit

\* ansible-playbook is started at most BackoffLimit times; only a fault or an
\* outdated copy can cost one more start.
StartsBounded == starts <= BackoffLimit + faults + stale

\* When the object has gone its directory is gone too or was given up on, unless
\* an outdated copy was executed: across crashes, failed calls and deletion in
\* the middle of a run, the finalizer outlives the directory.
DirRemovedWithObject == stale = 0 /\ ~obj.stored.exists => dir # "present"

\* Every Playbook gets a verdict for good or is removed: some event or timer
\* always brings the controller back to an unfinished one.
Settles == <>[](Terminal(obj.stored) \/ ~obj.stored.exists)

\* A deleted Playbook goes away, whatever the worker was doing.
DeletionCompletes == obj.stored.deleting ~> ~obj.stored.exists

\* The controller implements the abstract life of a Playbook.
Verdict ==
    IF ~obj.stored.exists THEN "gone"
    ELSE IF obj.stored.conditions.execution = "True" THEN "Succeeded"
    ELSE IF obj.stored.conditions.failed THEN "Failed"
    ELSE "active"
Lifecycle == INSTANCE PlaybookLifecycle
                WITH verdict <- Verdict,
                     asked <- obj.stored.deleting \/ ~obj.stored.exists,
                     trusted <- stale = 0
ImplementsLifecycle == Lifecycle!LifecycleSpec

\* "PlaybookSucceeded means that the Playbook has terminated with an exit code
\* of 0": no Playbook is Succeeded unless a run has.
SucceededMeansExitZero == obj.stored.phase = "Succeeded" => exitZero

\* "... and the system is not going to restart this Playbook": ansible-playbook
\* is not started once Succeeded is stored.
SucceededIsNotRestarted ==
    [][obj.stored.phase = "Succeeded" => starts' = starts]_vars
=============================================================================
