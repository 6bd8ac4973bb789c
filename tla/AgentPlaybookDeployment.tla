----------------------- MODULE AgentPlaybookDeployment -----------------------
(***************************************************************************)
(* The agent's PlaybookDeployment controller                               *)
(* (agent/pkg/controllers/playbookdeployment.go) on one PlaybookDeployment *)
(* and the Playbooks it creates.  A Playbook is what PlaybookLifecycle     *)
(* promises: active until it gets a verdict, and gone some time after its  *)
(* deletion was requested.                                                 *)
(*                                                                         *)
(* A Playbook's name is the number of its creation.  Creation timestamps   *)
(* have a resolution of one second: now counts seconds, and two Playbooks  *)
(* may be created in the same one.                                         *)
(***************************************************************************)
EXTENDS Informer, Integers, FiniteSets

CONSTANTS
    Templates,      \* contents of Spec.Template.Spec; equal iff checksums are
    FirstTemplate,  \* the one the PlaybookDeployment is created with
    MaxPlaybooks,   \* bound on Playbooks ever created
    MaxChanges,     \* bound on changes of the PlaybookDeployment's spec
    MaxFaults,      \* bound on restarts and failed calls
    MaxAnomalies    \* bound on reconciles that read an outdated copy and on
                    \* Playbooks created within one second, together

ASSUME TemplatesAssumption == FirstTemplate \in Templates
ASSUME BoundsAssumption ==
    /\ MaxPlaybooks \in Nat
    /\ MaxChanges \in Nat
    /\ MaxFaults \in Nat
    /\ MaxAnomalies \in Nat

VARIABLES
    pd,         \* the PlaybookDeployment: stored, cached, undelivered events
    pbs,        \* the Playbooks by name
    dirty,      \* the key is waiting in the work queue
    requeue,    \* a RequeueAfter or a retry will add the key again
    worker,     \* the reconcile in progress
    made,       \* Playbooks created so far
    now,        \* seconds, advanced at most once per created Playbook
    changes,    \* observer: changes of the spec so far
    ties,       \* observer: Playbooks created in the second of another one
    faults,     \* observer: restarts and failed calls so far
    stale       \* observer: reconciles that have read an outdated copy

vars == <<pd, pbs, dirty, requeue, worker, made, now, changes, ties, faults, stale>>

-----------------------------------------------------------------------------
(* The objects *)

Names == 1..MaxPlaybooks

Phases == {"", "Progressing", "Succeeded", "Paused", "Failed"}

Deployment ==
    [exists : BOOLEAN, deleting : BOOLEAN, finalizer : BOOLEAN,
     paused : BOOLEAN, template : Templates, phase : Phases]

NewDeployment(t) ==
    [exists |-> TRUE, deleting |-> FALSE, finalizer |-> FALSE,
     paused |-> FALSE, template |-> t, phase |-> ""]

\* The PlaybookDeployment is not found.
NoDeployment == [NewDeployment(FirstTemplate) EXCEPT !.exists = FALSE]

Playbook ==
    [exists : BOOLEAN, deleting : BOOLEAN, spec : Templates, created : Nat,
     verdict : {"active", "Succeeded", "Failed"}]

NewPlaybook(t, time) ==
    [exists |-> TRUE, deleting |-> FALSE, spec |-> t, created |-> time,
     verdict |-> "active"]

NoPlaybook == [NewPlaybook(FirstTemplate, 0) EXCEPT !.exists = FALSE]

\* getPlaybooksForDeployment over a view of the Playbooks (stored or cached).
Owned(view) == {n \in Names : view[n].exists}

storedPbs == [n \in Names |-> pbs[n].stored]
cachedPbs == [n \in Names |-> pbs[n].cached]

\* getLastPlaybook: the last element after sorting by creation time.  The sort
\* is stable and the informer lists in no particular order, so every youngest
\* Playbook may be the one.
Last_Oldest(view) ==
    {n \in Owned(view) : \A m \in Owned(view) : view[n].created <= view[m].created}
Last(view) ==
    {n \in Owned(view) : \A m \in Owned(view) : view[m].created <= view[n].created}

\* Everything the reconcile reads is current.
AllCurrent == Current(pd) /\ \A n \in Names : Current(pbs[n])

-----------------------------------------------------------------------------
(* The reconcile in progress: the copy it read (oldPb), the object it is    *)
(* going to patch (pd) and the Playbooks it still has to delete.            *)

Steps == {"idle", "addFinalizer", "create", "delete", "patchStatus"}

Worker == [step : Steps, old : Deployment, new : Deployment, todo : SUBSET Names]

Idle ==
    [step |-> "idle", old |-> NoDeployment, new |-> NoDeployment, todo |-> {}]

Init ==
    /\ pd = Listed(NewDeployment(FirstTemplate))
    /\ pbs = [n \in Names |-> Listed(NoPlaybook)]
    /\ dirty = TRUE
    /\ requeue = FALSE
    /\ worker = Idle
    /\ made = 0
    /\ now = 0
    /\ changes = 0
    /\ ties = 0
    /\ faults = 0
    /\ stale = 0

StoreDeployment(v) ==
    /\ pd' = Store(pd, v)
    /\ dirty' = (dirty \/ Overflows(pd, v))
    /\ UNCHANGED pbs

\* An event of a Playbook adds the key of its owner (EnqueueRequestForOwner).
StorePlaybook(n, v) ==
    /\ pbs' = [pbs EXCEPT ![n] = Store(pbs[n], v)]
    /\ dirty' = (dirty \/ Overflows(pbs[n], v))
    /\ UNCHANGED pd

-----------------------------------------------------------------------------
(* Reconcile *)

\* The worker takes the key and reads the informers' copies.
Begin ==
    /\ worker.step = "idle"
    /\ dirty
    /\ dirty' = FALSE
    /\ AllCurrent \/ stale + ties < MaxAnomalies
    /\ stale' = IF AllCurrent THEN stale ELSE stale + 1
    /\ UNCHANGED <<pd, pbs, made, now, changes, ties, faults>>

Proceed(step, d, todo) ==
    /\ Begin
    /\ worker' = [step |-> step, old |-> pd.cached, new |-> d, todo |-> todo]

ReconcileNotFound ==
    /\ Begin
    /\ ~pd.cached.exists
    /\ UNCHANGED <<worker, requeue>>

\* reconcileDelete: without Playbooks it comes back later, otherwise it goes on
\* to delete those that are not being deleted, and then removes the finalizer.
ReconcileDelete_FirstOnly ==
    /\ pd.cached.exists /\ pd.cached.deleting
    /\ pd.cached.finalizer
    /\ IF Owned(cachedPbs) = {}
         THEN /\ Begin
              /\ requeue' = TRUE
              /\ UNCHANGED worker
         ELSE /\ \E n \in Owned(cachedPbs) :
                    Proceed("delete", [pd.cached EXCEPT !.finalizer = FALSE], {n})
              /\ UNCHANGED requeue
ReconcileDelete ==
    /\ pd.cached.exists /\ pd.cached.deleting
    /\ pd.cached.finalizer
    /\ IF Owned(cachedPbs) = {}
         THEN /\ Begin
              /\ requeue' = TRUE
              /\ UNCHANGED worker
         ELSE /\ Proceed("delete", [pd.cached EXCEPT !.finalizer = FALSE],
                         {n \in Owned(cachedPbs) : ~pbs[n].cached.deleting})
              /\ UNCHANGED requeue

ReconcileAddFinalizer ==
    /\ pd.cached.exists /\ ~pd.cached.deleting
    /\ ~pd.cached.finalizer
    /\ Proceed("addFinalizer", [pd.cached EXCEPT !.finalizer = TRUE], {})
    /\ UNCHANGED requeue

Reconcilable(d) == d.exists /\ ~d.deleting /\ d.finalizer

ReconcilePaused ==
    /\ Reconcilable(pd.cached)
    /\ pd.cached.paused
    /\ Proceed("patchStatus", [pd.cached EXCEPT !.phase = "Paused"], {})
    /\ UNCHANGED requeue

\* getPlaybookDeploymentPhase
PhaseOf(p) == IF p.verdict = "active" THEN "Progressing" ELSE p.verdict

\* The last Playbook is unfinished, or it is the template's: report it.
Reported_AnyFinished(d, p) == p.verdict # "active" => p.spec = d.template
Reported(d, p) == p.verdict = "active" \/ p.spec = d.template

ReconcileReport ==
    /\ Reconcilable(pd.cached)
    /\ ~pd.cached.paused
    /\ \E n \in Last(cachedPbs) :
        /\ Reported(pd.cached, pbs[n].cached)
        /\ Proceed("patchStatus", [pd.cached EXCEPT !.phase = PhaseOf(pbs[n].cached)], {})
    /\ UNCHANGED requeue

\* There is no Playbook, or the last one is finished and not the template's.
NeedsPlaybook_Always(d, p) == TRUE
NeedsPlaybook(d, p) == p.verdict # "active" /\ p.spec # d.template

ReconcileCreate ==
    /\ Reconcilable(pd.cached)
    /\ ~pd.cached.paused
    /\ \/ Owned(cachedPbs) = {}
       \/ \E n \in Last(cachedPbs) : NeedsPlaybook(pd.cached, pbs[n].cached)
    /\ Proceed("create", [pd.cached EXCEPT !.phase = "Progressing"], {})
    /\ UNCHANGED requeue

Reconcile ==
    \/ ReconcileNotFound
    \/ ReconcileDelete
    \/ ReconcileAddFinalizer
    \/ ReconcilePaused
    \/ ReconcileReport
    \/ ReconcileCreate

-----------------------------------------------------------------------------
(* The rest of a reconcile *)

\* Reconcile returns an error: the key is retried.
ReturnError ==
    /\ worker' = Idle
    /\ requeue' = TRUE

\* A call fails before it is applied.
Faulty ==
    /\ faults < MaxFaults
    /\ faults' = faults + 1

\* createPlaybook: Client.Create with a fresh name.
CreatePlaybook ==
    /\ worker.step = "create"
    /\ made < MaxPlaybooks
    /\ made' = made + 1
    /\ StorePlaybook(made + 1, NewPlaybook(worker.old.template, now))
    /\ IF \E n \in Owned(storedPbs) : pbs[n].stored.created = now
         THEN stale + ties < MaxAnomalies /\ ties' = ties + 1
         ELSE UNCHANGED ties
    /\ worker' = [worker EXCEPT !.step = "patchStatus"]
    /\ UNCHANGED <<requeue, now, changes, faults, stale>>

CreateFails ==
    /\ worker.step = "create"
    /\ Faulty
    /\ ReturnError
    /\ UNCHANGED <<pd, pbs, dirty, made, now, changes, ties, stale>>

\* Client.Delete on one Playbook; its controller's finalizer keeps the object
\* until the directory is gone.
DeletePlaybook(n) ==
    /\ worker.step = "delete"
    /\ n \in worker.todo
    /\ pbs[n].stored.exists
    /\ StorePlaybook(n, [pbs[n].stored EXCEPT !.deleting = TRUE])
    /\ worker' = [worker EXCEPT !.todo = worker.todo \ {n}]
    /\ UNCHANGED <<requeue, made, now, changes, ties, faults, stale>>

\* The call fails, or the Playbook has gone and Delete returns NotFound.
DeleteFails(n) ==
    /\ worker.step = "delete"
    /\ n \in worker.todo
    /\ IF pbs[n].stored.exists THEN Faulty ELSE UNCHANGED faults
    /\ ReturnError
    /\ UNCHANGED <<pd, pbs, dirty, made, now, changes, ties, stale>>

\* The patch a reconcile ends with, as the API server applies it.  A merge
\* patch of the status sends the phase only if it differs from the copy.
Patched(cur) ==
    CASE worker.step = "patchStatus" ->
            IF worker.new.phase # worker.old.phase
              THEN [cur EXCEPT !.phase = worker.new.phase] ELSE cur
      [] worker.step = "addFinalizer" -> [cur EXCEPT !.finalizer = TRUE]
      [] worker.step = "delete" -> NoDeployment

Patching ==
    \/ worker.step \in {"patchStatus", "addFinalizer"}
    \/ worker.step = "delete" /\ worker.todo = {}

PatchApplied ==
    /\ Patching
    /\ pd.stored.exists
    /\ StoreDeployment(Patched(pd.stored))
    /\ worker' = Idle
    /\ UNCHANGED <<requeue, made, now, changes, ties, faults, stale>>

\* The call fails, or the PlaybookDeployment has gone.
PatchFails ==
    /\ Patching
    /\ IF pd.stored.exists THEN Faulty ELSE UNCHANGED faults
    /\ ReturnError
    /\ UNCHANGED <<pd, pbs, dirty, made, now, changes, ties, stale>>

WorkerStep ==
    \/ CreatePlaybook
    \/ CreateFails
    \/ \E n \in Names : DeletePlaybook(n)
    \/ \E n \in Names : DeleteFails(n)
    \/ PatchApplied
    \/ PatchFails

-----------------------------------------------------------------------------
(* The surroundings *)

DeliverDeployment ==
    /\ ~Current(pd)
    /\ pd' = Deliver(pd)
    /\ dirty' = TRUE
    /\ UNCHANGED <<pbs, requeue, worker, made, now, changes, ties, faults, stale>>

\* EnqueueRequestForOwner adds the key of the PlaybookDeployment.
DeliverPlaybook_NoOwnerWatch(n) ==
    /\ ~Current(pbs[n])
    /\ pbs' = [pbs EXCEPT ![n] = Deliver(pbs[n])]
    /\ UNCHANGED <<pd, dirty, requeue, worker, made, now, changes, ties, faults, stale>>
DeliverPlaybook(n) ==
    /\ ~Current(pbs[n])
    /\ pbs' = [pbs EXCEPT ![n] = Deliver(pbs[n])]
    /\ dirty' = TRUE
    /\ UNCHANGED <<pd, requeue, worker, made, now, changes, ties, faults, stale>>

FireRequeue ==
    /\ requeue
    /\ requeue' = FALSE
    /\ dirty' = TRUE
    /\ UNCHANGED <<pd, pbs, worker, made, now, changes, ties, faults, stale>>

\* A second passes; only seconds between two creations tell them apart.
Tick ==
    /\ \E n \in Owned(storedPbs) : pbs[n].stored.created = now
    /\ now' = now + 1
    /\ UNCHANGED <<pd, pbs, dirty, requeue, worker, made, changes, ties, faults, stale>>

\* The life of a Playbook, as PlaybookLifecycle promises it.
FinishPlaybook(n) ==
    /\ pbs[n].stored.exists
    /\ pbs[n].stored.verdict = "active"
    /\ \E v \in {"Succeeded", "Failed"} :
            StorePlaybook(n, [pbs[n].stored EXCEPT !.verdict = v])
    /\ UNCHANGED <<requeue, worker, made, now, changes, ties, faults, stale>>

VanishPlaybook(n) ==
    /\ pbs[n].stored.exists
    /\ pbs[n].stored.deleting
    /\ StorePlaybook(n, NoPlaybook)
    /\ UNCHANGED <<requeue, worker, made, now, changes, ties, faults, stale>>

\* A client changes the spec of the PlaybookDeployment.
ChangeSpec(d) ==
    /\ pd.stored.exists
    /\ changes < MaxChanges
    /\ d # pd.stored
    /\ changes' = changes + 1
    /\ StoreDeployment(d)
    /\ UNCHANGED <<requeue, worker, made, now, ties, faults, stale>>

SetTemplate == \E t \in Templates : ChangeSpec([pd.stored EXCEPT !.template = t])
SetPaused == \E b \in BOOLEAN : ChangeSpec([pd.stored EXCEPT !.paused = b])

RequestDelete ==
    /\ pd.stored.exists
    /\ ~pd.stored.deleting
    /\ StoreDeployment(IF pd.stored.finalizer
                         THEN [pd.stored EXCEPT !.deleting = TRUE] ELSE NoDeployment)
    /\ UNCHANGED <<requeue, worker, made, now, changes, ties, faults, stale>>

\* The agent stops and starts again.
Restart ==
    /\ Faulty
    /\ pd' = Listed(pd.stored)
    /\ pbs' = [n \in Names |-> Listed(pbs[n].stored)]
    /\ dirty' = pd.stored.exists
    /\ requeue' = FALSE
    /\ worker' = Idle
    /\ UNCHANGED <<made, now, changes, ties, stale>>

Next ==
    \/ Reconcile
    \/ WorkerStep
    \/ DeliverDeployment
    \/ \E n \in Names : DeliverPlaybook(n)
    \/ FireRequeue
    \/ Tick
    \/ \E n \in Names : FinishPlaybook(n)
    \/ \E n \in Names : VanishPlaybook(n)
    \/ SetTemplate
    \/ SetPaused
    \/ RequestDelete
    \/ Restart

\* The controller, the watch streams and the Playbooks keep going.
Fairness ==
    /\ WF_vars(Reconcile)
    /\ WF_vars(WorkerStep)
    /\ WF_vars(DeliverDeployment)
    /\ WF_vars(FireRequeue)
    /\ WF_vars(Tick)
    /\ \A n \in Names :
        /\ WF_vars(DeliverPlaybook(n))
        /\ WF_vars(FinishPlaybook(n))
        /\ WF_vars(VanishPlaybook(n))

Spec == Init /\ [][Next]_vars
FairSpec == Spec /\ Fairness

-----------------------------------------------------------------------------
(* Properties *)

\* The objects, the queue, the worker and the observers are of their types.
TypeOK ==
    /\ pd \in Object(Deployment)
    /\ pbs \in [Names -> Object(Playbook)]
    /\ dirty \in BOOLEAN
    /\ requeue \in BOOLEAN
    /\ worker \in Worker
    /\ made \in Names \cup {0}
    /\ now \in Nat
    /\ changes \in Nat
    /\ ties \in Nat
    /\ faults \in Nat
    /\ stale \in Nat

\* While every copy read was current, at most one Playbook of the deployment is
\* unfinished: two versions of a template never run side by side on the host,
\* whatever crashes, failed calls and template changes come in between.
OneActivePlaybook ==
    stale = 0 /\ ties = 0 => Cardinality({n \in Owned(storedPbs) :
                                pbs[n].stored.verdict = "active"}) <= 1

\* A template is executed once per change of the spec: retries and restarts do
\* not repeat it; only an outdated copy, or two Playbooks created within one
\* second, can.
NoRepeatedExecution == made <= 1 + changes + stale + ties

\* No event will bring the controller back.
Quiescent ==
    /\ worker.step = "idle"
    /\ ~dirty
    /\ ~requeue
    /\ AllCurrent

\* No wake-up is lost: when nothing is left to do the phase tells the truth
\* about the last Playbook, which is the template's unless it is unfinished.
QuiescentPhaseIsTrue ==
    Quiescent /\ Reconcilable(pd.stored) =>
        IF pd.stored.paused THEN pd.stored.phase = "Paused"
        ELSE \E n \in Last(storedPbs) :
                /\ Reported(pd.stored, pbs[n].stored)
                /\ pd.stored.phase = PhaseOf(pbs[n].stored)

\* Removing the deployment leaves no Playbook behind that nobody deletes: the
\* agent has no garbage collector that would follow the owner references.
NoOrphanPlaybook ==
    stale = 0 /\ ~pd.stored.exists =>
        \A n \in Owned(storedPbs) : pbs[n].stored.deleting

\* The last template set is executed and its outcome reported, unless the
\* deployment is paused or deleted.
Converges ==
    <>[](\/ ~Reconcilable(pd.stored)
         \/ pd.stored.paused
         \/ \E n \in Owned(storedPbs) :
              /\ pbs[n].stored.spec = pd.stored.template
              /\ pbs[n].stored.verdict = pd.stored.phase)

\* "wait until all playbooks are deleted" (reconcileDelete): the deployment goes
\* away only when its Playbooks have.
WaitsForPlaybooks ==
    [][pd.stored.exists /\ pd.stored.finalizer /\ ~pd'.stored.exists
        => Owned(storedPbs) = {}]_vars
=============================================================================
