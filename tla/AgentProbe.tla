----------------------------- MODULE AgentProbe -----------------------------
(***************************************************************************)
(* How the provider learns whether an agent is healthy: the prober         *)
(* (controllers/prober) on the key of one KubeforceAgent, the probe        *)
(* handler (controllers/agent_probe_handler.go) and the part of the        *)
(* KubeforceAgent controller that starts, reads and stops the probe.       *)
(*                                                                         *)
(* The Healthy condition has two writers that run concurrently: the        *)
(* handler's UpdateStatus, driven by the channel of updates, and the       *)
(* deferred patch of Reconcile, driven by the work queue.  Both write what *)
(* they have read some time before.                                        *)
(*                                                                         *)
(* The object may be deleted and created again under the same name, while  *)
(* the worker of its predecessor is still about to stop.                   *)
(***************************************************************************)
EXTENDS Informer, FiniteSets

CONSTANTS
    SuccessThreshold,   \* ProbeParams of the KubeforceAgent controller
    FailureThreshold,
    Capacity,           \* capacity of the channel of updates
    MaxFlips,           \* bound on changes of the agent's reachability
    MaxTrouble          \* bound on restarts, failed calls and re-creations of the
                        \* object, together

ASSUME ThresholdsAssumption ==
    /\ SuccessThreshold \in Nat \ {0}
    /\ FailureThreshold \in Nat \ {0}
ASSUME CapacityAssumption == Capacity \in Nat \ {0}
ASSUME BoundsAssumption ==
    /\ MaxFlips \in Nat
    /\ MaxTrouble \in Nat

VARIABLES
    agent,      \* the KubeforceAgent: stored, cached, undelivered events
    dirty,      \* its key is in the work queue or will be retried
    rec,        \* the reconcile in progress
    worker,     \* the probe worker in the controller's map
    cache,      \* resultManager's cache: a result, or "none"
    updates,    \* resultManager's channel
    updater,    \* the goroutine of Controller.Start
    reachable,  \* the agent answers
    history,    \* observer: the last results of the worker's probes
    flips,      \* observer: changes of reachability so far
    created,    \* observer: how often the object has been created again
    faults      \* observer: restarts and failed calls so far

observers == <<flips, created, faults>>
prober == <<worker, cache, updates, updater, history>>
vars == <<agent, dirty, rec, prober, reachable, observers>>

-----------------------------------------------------------------------------
(* The objects *)

\* ResultSuccess and ResultFailure
Results == {"Success", "Failure"}

\* The Healthy condition.
Health == {"absent", "Unknown", "True", "False"}

Agent ==
    [exists : BOOLEAN, deleting : BOOLEAN, finalizer : BOOLEAN,
     installed : BOOLEAN, healthy : Health]

NewAgent ==
    [exists |-> TRUE, deleting |-> FALSE, finalizer |-> FALSE,
     installed |-> FALSE, healthy |-> "absent"]
NoAgent == [NewAgent EXCEPT !.exists = FALSE]

\* The condition for what GetCurrentStatus returns.
HealthOf(result) ==
    CASE result = "none" -> "Unknown"
      [] result = "Success" -> "True"
      [] result = "Failure" -> "False"

-----------------------------------------------------------------------------
(* The prober *)

\* sleep, probe: doProbe is next; send: blocked in resultManager.Set; wait: in
\* the select; exit: the deferred clean-up is next.
WorkerSteps == {"none", "probe", "send", "wait", "exit"}

Worker ==
    [step : WorkerSteps, stopped : BOOLEAN, lastResult : Results, resultRun : Nat]

NoWorker ==
    [step |-> "none", stopped |-> FALSE, lastResult |-> "Failure", resultRun |-> 0]

\* newWorker: lastResult has its zero value, which is ResultFailure.
NewWorker == [NoWorker EXCEPT !.step = "probe"]

Updater == [step : {"idle", "taken", "patch"}, result : Results]

IdleUpdater == [step |-> "idle", result |-> "Failure"]

\* updateStatus holds workerLock for reading while UpdateStatus runs.
Locked == updater.step = "patch"

\* EnsureProbe: a worker that is in the map counts, whether stopped or not.
EnsureProbe_OnlyFirst ==
    LET starts == worker.step = "none" /\ cache = "none" IN
    /\ ~Locked
    /\ worker' = IF starts THEN NewWorker ELSE worker
    /\ history' = IF starts THEN <<>> ELSE history
EnsureProbe ==
    /\ ~Locked
    /\ worker' = IF worker.step = "none" THEN NewWorker ELSE worker
    /\ history' = IF worker.step = "none" THEN <<>> ELSE history

\* RemoveProbe: close stopCh; the worker goes when it gets to see that.
RemoveProbe ==
    worker' = IF worker.step = "none" THEN worker ELSE [worker EXCEPT !.stopped = TRUE]

Threshold(result) ==
    IF result = "Success" THEN SuccessThreshold ELSE FailureThreshold

\* resultRun counts on for ever; beyond the thresholds its value makes no
\* difference, and the model stops counting there.
MaxRun ==
    IF SuccessThreshold > FailureThreshold THEN SuccessThreshold ELSE FailureThreshold

Saturated(n) == IF n > MaxRun THEN MaxRun ELSE n

\* The length of the run of equal results after one more.
RunAfter_NoReset(result) == Saturated(worker.resultRun + 1)
RunAfter(result) ==
    IF result = worker.lastResult THEN Saturated(worker.resultRun + 1) ELSE 1

\* After doProbe the worker is in the select, which sees a closed stopCh at once.
Waiting(w) == [w EXCEPT !.step = IF w.stopped THEN "exit" ELSE "wait"]

\* doProbe: below the threshold nothing happens, otherwise Set stores the result
\* and sends it if it differs from the one before.
DoProbe ==
    LET result == IF reachable THEN "Success" ELSE "Failure"
        run == RunAfter(result)
        w == [worker EXCEPT !.lastResult = result, !.resultRun = run]
        sets == run >= Threshold(result)
    IN  /\ worker.step = "probe"
        /\ cache' = IF sets THEN result ELSE cache
        /\ worker' = IF sets /\ cache # result THEN [w EXCEPT !.step = "send"]
                     ELSE Waiting(w)
        /\ history' = IF Len(history) < MaxRun THEN Append(history, result)
                      ELSE Append(Tail(history), result)
        /\ UNCHANGED <<agent, dirty, rec, updates, updater, reachable, observers>>

\* m.updates <- Update{key, res}: blocks while the channel is full.
SendUpdate_Unbounded ==
    /\ worker.step = "send"
    /\ updates' = Append(updates, worker.lastResult)
    /\ worker' = Waiting(worker)
    /\ UNCHANGED <<agent, dirty, rec, cache, updater, history, reachable, observers>>
SendUpdate_Drops ==
    /\ worker.step = "send"
    /\ updates' = IF Len(updates) < Capacity
                    THEN Append(updates, worker.lastResult) ELSE updates
    /\ worker' = Waiting(worker)
    /\ UNCHANGED <<agent, dirty, rec, cache, updater, history, reachable, observers>>
SendUpdate ==
    /\ worker.step = "send"
    /\ Len(updates) < Capacity
    /\ updates' = Append(updates, worker.lastResult)
    /\ worker' = Waiting(worker)
    /\ UNCHANGED <<agent, dirty, rec, cache, updater, history, reachable, observers>>

\* The period is over; this branch may win even if stopCh has been closed.
NextPeriod ==
    /\ worker.step = "wait"
    /\ worker' = [worker EXCEPT !.step = "probe"]
    /\ UNCHANGED <<agent, dirty, rec, cache, updates, updater, history, reachable,
                   observers>>

SeeStop ==
    /\ worker.step = "wait"
    /\ worker.stopped
    /\ worker' = [worker EXCEPT !.step = "exit"]
    /\ UNCHANGED <<agent, dirty, rec, cache, updates, updater, history, reachable,
                   observers>>

\* removeWorker takes the write lock.  The cached result stays.
RemoveWorker ==
    /\ worker.step = "exit"
    /\ ~Locked
    /\ worker' = NoWorker
    /\ history' = <<>>
    /\ UNCHANGED <<agent, dirty, rec, cache, updates, updater, reachable, observers>>

WorkerStep == DoProbe \/ SendUpdate \/ NextPeriod \/ SeeStop \/ RemoveWorker

-----------------------------------------------------------------------------
(* Controller.Start and UpdateStatus *)

StoreAgent(v) ==
    /\ agent' = Store(agent, v)
    /\ dirty' = (dirty \/ Overflows(agent, v))

TakeUpdate ==
    /\ updater.step = "idle"
    /\ updates # <<>>
    /\ updater' = [step |-> "taken", result |-> Head(updates)]
    /\ updates' = Tail(updates)
    /\ UNCHANGED <<agent, dirty, rec, worker, cache, history, reachable, observers>>

\* UpdateStatus has something to write: the worker is in the map, the agent is
\* found and the copy shows another condition.
Writes(result) ==
    /\ worker.step # "none"
    /\ agent.cached.exists
    /\ agent.cached.healthy # HealthOf(result)

ReadAgent ==
    /\ updater.step = "taken"
    /\ updater' = IF Writes(updater.result) THEN [updater EXCEPT !.step = "patch"]
                  ELSE IdleUpdater
    /\ UNCHANGED <<agent, dirty, rec, worker, cache, updates, history, reachable,
                   observers>>

\* A merge patch without resourceVersion: it is applied to whatever is stored.
PatchHealthy ==
    /\ updater.step = "patch"
    /\ StoreAgent(IF agent.stored.exists
                    THEN [agent.stored EXCEPT !.healthy = HealthOf(updater.result)]
                    ELSE agent.stored)
    /\ updater' = IdleUpdater
    /\ UNCHANGED <<rec, worker, cache, updates, history, reachable, observers>>

Trouble == faults + created

Faulty ==
    /\ Trouble < MaxTrouble
    /\ faults' = faults + 1

\* Get or Patch fails: logged, and the update is lost.
UpdateStatusFails ==
    /\ updater.step \in {"taken", "patch"}
    /\ Faulty
    /\ updater' = IdleUpdater
    /\ UNCHANGED <<agent, dirty, rec, worker, cache, updates, history, reachable,
                   flips, created>>

UpdaterStep == TakeUpdate \/ ReadAgent \/ PatchHealthy \/ UpdateStatusFails

-----------------------------------------------------------------------------
(* The KubeforceAgent controller *)

Rec == [step : {"idle", "body", "conditions", "object"}, old : Agent, new : Agent,
        failed : BOOLEAN]

IdleRec == [step |-> "idle", old |-> NoAgent, new |-> NoAgent, failed |-> FALSE]

ReconcileNotFound_KeepsProbe ==
    /\ rec.step = "idle" /\ dirty
    /\ ~agent.cached.exists
    /\ dirty' = FALSE
    /\ UNCHANGED <<agent, rec, prober, reachable, observers>>
ReconcileNotFound ==
    /\ rec.step = "idle" /\ dirty
    /\ ~agent.cached.exists
    /\ dirty' = FALSE
    /\ RemoveProbe
    /\ UNCHANGED <<agent, rec, cache, updates, updater, history, reachable, observers>>

\* Get the agent; if it is installed, EnsureProbe and take over its result.
ReconcileHealth ==
    /\ rec.step = "idle" /\ dirty
    /\ agent.cached.exists
    /\ dirty' = FALSE
    /\ rec' = [step |-> "body", old |-> agent.cached, failed |-> FALSE,
               new |-> IF agent.cached.installed
                         THEN [agent.cached EXCEPT !.healthy = HealthOf(cache)]
                         ELSE agent.cached]
    /\ IF agent.cached.installed THEN EnsureProbe ELSE UNCHANGED <<worker, history>>
    /\ UNCHANGED <<agent, cache, updates, updater, reachable, observers>>

\* The reconcile goes on to its deferred patch with v as the object.
PatchWith(v) ==
    /\ rec' = [rec EXCEPT !.step = "conditions", !.new = v]
    /\ UNCHANGED <<agent, cache, updates, updater, history, reachable, observers>>

ReconcileAddFinalizer ==
    /\ rec.step = "body"
    /\ ~rec.new.deleting /\ ~rec.new.finalizer
    /\ PatchWith([rec.new EXCEPT !.finalizer = TRUE])
    /\ UNCHANGED <<dirty, worker>>

\* reconcileNormal: certificates and installation end with Spec.Installed; as
\* long as they are not finished the key comes back.
ReconcileInstall ==
    /\ rec.step = "body"
    /\ ~rec.new.deleting /\ rec.new.finalizer /\ ~rec.new.installed
    /\ \/ /\ PatchWith([rec.new EXCEPT !.installed = TRUE])
          /\ UNCHANGED dirty
       \/ /\ PatchWith(rec.new)
          /\ dirty' = TRUE
    /\ UNCHANGED worker

ReconcileInstalled ==
    /\ rec.step = "body"
    /\ ~rec.new.deleting /\ rec.new.finalizer /\ rec.new.installed
    /\ PatchWith(rec.new)
    /\ UNCHANGED <<dirty, worker>>

\* reconcileDelete: a machine, Playbooks or PlaybookDeployments are left.
ReconcileDeleteWaits ==
    /\ rec.step = "body"
    /\ rec.new.deleting /\ rec.new.finalizer
    /\ PatchWith(rec.new)
    /\ dirty' = TRUE
    /\ UNCHANGED worker

\* reconcileDelete: nothing is left; stop the probe, then remove the finalizer.
ReconcileDelete ==
    /\ rec.step = "body"
    /\ rec.new.deleting /\ rec.new.finalizer
    /\ RemoveProbe
    /\ PatchWith([rec.new EXCEPT !.finalizer = FALSE])
    /\ UNCHANGED dirty

\* patchHelper.Patch, first call: the conditions that this reconcile changed in
\* its copy.  Healthy is an owned condition: the reconcile's value wins.
PatchConditions ==
    LET changed == rec.new.healthy # rec.old.healthy IN
    /\ rec.step = "conditions"
    /\ StoreAgent(IF changed /\ agent.stored.exists
                    THEN [agent.stored EXCEPT !.healthy = rec.new.healthy]
                    ELSE agent.stored)
    /\ rec' = [rec EXCEPT !.step = "object",
                          !.failed = changed /\ ~agent.stored.exists]
    /\ UNCHANGED <<prober, reachable, observers>>

PatchConditionsFails ==
    /\ rec.step = "conditions"
    /\ Faulty
    /\ rec' = [rec EXCEPT !.step = "object", !.failed = TRUE]
    /\ UNCHANGED <<agent, dirty, prober, reachable, flips, created>>

\* Second call: what it changed in the finalizers and the spec.  The object goes
\* when it is being deleted and has no finalizer left.
Differs ==
    \/ rec.new.finalizer # rec.old.finalizer
    \/ rec.new.installed # rec.old.installed

Patched(cur) ==
    LET v == [cur EXCEPT
                !.finalizer = IF rec.new.finalizer # rec.old.finalizer
                                THEN rec.new.finalizer ELSE cur.finalizer,
                !.installed = IF rec.new.installed # rec.old.installed
                                THEN rec.new.installed ELSE cur.installed]
    IN  IF v.deleting /\ ~v.finalizer THEN NoAgent ELSE v

PatchObject ==
    /\ rec.step = "object"
    /\ agent.stored.exists
    /\ agent' = Store(agent, Patched(agent.stored))
    /\ dirty' = (dirty \/ Overflows(agent, Patched(agent.stored)) \/ rec.failed)
    /\ rec' = IdleRec
    /\ UNCHANGED <<prober, reachable, observers>>

\* The agent has gone.
PatchObjectNotFound ==
    /\ rec.step = "object"
    /\ ~agent.stored.exists
    /\ dirty' = (dirty \/ Differs \/ rec.failed)
    /\ rec' = IdleRec
    /\ UNCHANGED <<agent, prober, reachable, observers>>

PatchObjectFails ==
    /\ rec.step = "object"
    /\ Faulty
    /\ dirty' = TRUE
    /\ rec' = IdleRec
    /\ UNCHANGED <<agent, prober, reachable, flips, created>>

Reconcile ==
    \/ ReconcileNotFound
    \/ ReconcileHealth
    \/ ReconcileAddFinalizer
    \/ ReconcileInstall
    \/ ReconcileInstalled
    \/ ReconcileDeleteWaits
    \/ ReconcileDelete
    \/ PatchConditions
    \/ PatchConditionsFails
    \/ PatchObject
    \/ PatchObjectNotFound
    \/ PatchObjectFails

-----------------------------------------------------------------------------
(* The surroundings *)

DeliverEvent ==
    /\ ~Current(agent)
    /\ agent' = Deliver(agent)
    /\ dirty' = TRUE
    /\ UNCHANGED <<rec, prober, reachable, observers>>

\* The informer's periodic resync.
Resync ==
    /\ agent.cached.exists
    /\ ~dirty
    /\ dirty' = TRUE
    /\ UNCHANGED <<agent, rec, prober, reachable, observers>>

\* The host, the network or the agent's process fails or recovers.
Flip ==
    /\ flips < MaxFlips
    /\ flips' = flips + 1
    /\ reachable' = ~reachable
    /\ UNCHANGED <<agent, dirty, rec, prober, created, faults>>

\* A client creates an agent under the name of one that has gone.
CreateAgent ==
    /\ ~agent.stored.exists
    /\ Trouble < MaxTrouble
    /\ created' = created + 1
    /\ StoreAgent(NewAgent)
    /\ UNCHANGED <<rec, prober, reachable, flips, faults>>

DeleteAgent ==
    /\ agent.stored.exists /\ ~agent.stored.deleting
    /\ StoreAgent(IF agent.stored.finalizer
                    THEN [agent.stored EXCEPT !.deleting = TRUE] ELSE NoAgent)
    /\ UNCHANGED <<rec, prober, reachable, observers>>

\* The manager stops and starts again: nothing of the prober survives.
Restart ==
    /\ Faulty
    /\ agent' = Listed(agent.stored)
    /\ dirty' = agent.stored.exists
    /\ rec' = IdleRec
    /\ worker' = NoWorker
    /\ cache' = "none"
    /\ updates' = <<>>
    /\ updater' = IdleUpdater
    /\ history' = <<>>
    /\ UNCHANGED <<reachable, flips, created>>

Init ==
    /\ agent = Listed(NewAgent)
    /\ dirty = TRUE
    /\ rec = IdleRec
    /\ worker = NoWorker
    /\ cache = "none"
    /\ updates = <<>>
    /\ updater = IdleUpdater
    /\ reachable = TRUE
    /\ history = <<>>
    /\ flips = 0
    /\ created = 0
    /\ faults = 0

Next ==
    \/ WorkerStep
    \/ UpdaterStep
    \/ Reconcile
    \/ DeliverEvent
    \/ Resync
    \/ Flip
    \/ CreateAgent
    \/ DeleteAgent
    \/ Restart

Spec == Init /\ [][Next]_vars
FairSpec ==
    /\ Spec
    /\ WF_vars(WorkerStep)
    /\ WF_vars(UpdaterStep)
    /\ WF_vars(Reconcile)
    /\ WF_vars(DeliverEvent)
    /\ WF_vars(Resync)

-----------------------------------------------------------------------------
(* Properties *)

\* The object, the queue, the prober and the observers are of their types.
TypeOK ==
    /\ agent \in Object(Agent)
    /\ dirty \in BOOLEAN
    /\ rec \in Rec
    /\ worker \in Worker
    /\ cache \in Results \cup {"none"}
    /\ updates \in Seq(Results) /\ Len(updates) <= Capacity
    /\ updater \in Updater
    /\ reachable \in BOOLEAN
    /\ history \in Seq(Results) /\ Len(history) <= MaxRun
    /\ flips \in Nat
    /\ created \in Nat
    /\ faults \in Nat

\* A result is believed only after as many equal probes in a row as its threshold
\* asks for ("Minimum consecutive successes ... after having failed"), all of them
\* by one worker: one lost packet never changes the verdict on an agent.
ThresholdRespected ==
    [][cache' \notin {cache, "none"} =>
        LET n == Threshold(cache')
        IN  /\ Len(history') >= n
            /\ \A i \in Len(history') - n + 1 .. Len(history') : history'[i] = cache']_vars

\* Nothing is under way between the prober and the stored object.
Quiescent ==
    /\ rec.step = "idle" /\ ~dirty /\ Current(agent)
    /\ updater.step = "idle" /\ updates = <<>>
    /\ worker.step \in {"probe", "wait"} /\ ~worker.stopped

\* The two writers of Healthy never leave it wrong: when no update, event or patch
\* is under way, the condition is the last result of the probe, whatever copies
\* the two have read and in whatever order they wrote (a failed call of
\* UpdateStatus is lost, and left to the resync).
QuiescentHealthIsTrue ==
    Quiescent /\ faults = 0 /\ agent.stored.exists /\ agent.stored.installed =>
        agent.stored.healthy = HealthOf(cache)

\* The condition follows the agent: once it stays reachable, or unreachable, the
\* stored Healthy says so for good, even after restarts, failed calls and the
\* re-creation of the object while an old worker was stopping.
HealthConverges ==
    <>[](agent.stored.exists /\ ~agent.stored.deleting /\ agent.stored.installed =>
            agent.stored.healthy = (IF reachable THEN "True" ELSE "False"))

\* The worker of a removed agent goes: no probe is leaked.
ProbeStops == ~agent.stored.exists ~> agent.stored.exists \/ worker.step = "none"
=============================================================================
