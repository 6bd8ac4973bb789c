-------------------------- MODULE MachineAgentClaim --------------------------
(***************************************************************************)
(* How KubeforceMachines share KubeforceAgents                             *)
(* (controllers/kubeforcemachine_controller.go: Reconcile,                 *)
(* reconcileAgentRef, reconcileDelete) and what the KubeforceAgent         *)
(* controller does when an agent is deleted.                               *)
(*                                                                         *)
(* A machine takes an agent in two writes that are not atomic: it puts its *)
(* own name in the agent's AgentMachineLabel with an optimistic Update, and *)
(* the deferred patch of the reconcile stores Status.AgentRef in the       *)
(* machine.  It gives the agent back in two writes too: an Update that     *)
(* removes the label, and the patch that removes the machine's finalizer.  *)
(* Reconciles of different machines run concurrently, one per machine.     *)
(*                                                                         *)
(* Reading an agent and updating it is one step here: a write of the agent *)
(* in between makes the Update fail like an outdated copy does.  What the  *)
(* machine runs on its agent is one fact, "it has Playbooks there", and an *)
(* agent that is not healthy is not ready either.                          *)
(***************************************************************************)
EXTENDS Informer, FiniteSets

CONSTANTS
    Machines,       \* names of the KubeforceMachines
    Agents,         \* names of the KubeforceAgents
    None,           \* no label, no AgentRef
    MaxTrouble      \* bound on restarts, failed patches, reconciles that read
                    \* an outdated copy, agents deleted and changes of their
                    \* readiness, together

ASSUME NoneAssumption == None \notin Machines /\ None \notin Agents
ASSUME BoundsAssumption == MaxTrouble \in Nat

VARIABLES
    machines,   \* the KubeforceMachines: stored, cached, undelivered events
    agents,     \* the KubeforceAgents
    playbooks,  \* machines that have Playbooks or PlaybookDeployments
    cleaned,    \* deleted machines whose clean-up has run
    aged,       \* deleted machines whose deletion is at least 60 seconds old
    leaving,    \* agents whose deletion is past the wait for their machine
    dirty,      \* machines in the work queue, or on their way to it by a
                \* RequeueAfter or a retry
    work,       \* the reconcile in progress of every machine
    released,   \* observer: machines whose label has been removed
    repeats,    \* observer: releases by a machine that had already released
    parked,     \* observer: machines whose last reconcile found that their clean-up
                \* has to wait for the agent
    lost,       \* observer: machines that labelled an agent and whose AgentRef was
                \* not stored since
    flaps,      \* observer: deletions of agents and changes of readiness so far
    faults,     \* observer: restarts and failed patches so far
    stale       \* observer: reconciles that have read an outdated copy

observers == <<released, repeats, parked, lost, flaps, faults, stale>>
vars == <<machines, agents, playbooks, cleaned, aged, leaving, dirty, work, observers>>

-----------------------------------------------------------------------------
(* The objects *)

Agent ==
    [exists : BOOLEAN, deleting : BOOLEAN, ready : BOOLEAN,
     label : Machines \cup {None}]

NewAgent == [exists |-> TRUE, deleting |-> FALSE, ready |-> TRUE, label |-> None]
NoAgent == [exists |-> FALSE, deleting |-> FALSE, ready |-> FALSE, label |-> None]

SetLabel(g, l) ==
    [exists |-> g.exists, deleting |-> g.deleting, ready |-> g.ready, label |-> l]

Machine ==
    [exists : BOOLEAN, deleting : BOOLEAN, finalizer : BOOLEAN,
     ref : Agents \cup {None}]

NewMachine == [exists |-> TRUE, deleting |-> FALSE, finalizer |-> FALSE, ref |-> None]
NoMachine == [exists |-> FALSE, deleting |-> FALSE, finalizer |-> FALSE, ref |-> None]

SetFinalizer(m, b) ==
    [exists |-> m.exists, deleting |-> m.deleting, finalizer |-> b, ref |-> m.ref]
SetRef(m, a) ==
    [exists |-> m.exists, deleting |-> m.deleting, finalizer |-> m.finalizer, ref |-> a]

\* Agents that the copies show labelled with machine m.
Labelled(m) == {a \in Agents : agents[a].cached.exists /\ agents[a].cached.label = m}

\* findAgent: agents that the copies show ready and without a machine.
Free(g) == g.exists /\ g.ready /\ g.label = None

\* Everything a reconcile of m reads is current.
AllCurrent(m) == Current(machines[m]) /\ \A a \in Agents : Current(agents[a])

-----------------------------------------------------------------------------
(* The reconcile in progress: the copy read and the object to be patched. *)

Work == [busy : BOOLEAN, old : Machine, new : Machine]

Rest == [busy |-> FALSE, old |-> NoMachine, new |-> NoMachine]

Init ==
    /\ machines = [m \in Machines |-> Listed(NewMachine)]
    /\ agents = [a \in Agents |-> Listed(NewAgent)]
    /\ playbooks = {}
    /\ cleaned = {}
    /\ aged = {}
    /\ leaving = {}
    /\ dirty = Machines
    /\ work = [m \in Machines |-> Rest]
    /\ released = {}
    /\ repeats = 0
    /\ parked = {}
    /\ lost = {}
    /\ flaps = 0
    /\ faults = 0
    /\ stale = 0

StoreAgent(a, v) == agents' = [agents EXCEPT ![a] = Store(agents[a], v)]

StoreMachine(m, v) ==
    /\ machines' = [machines EXCEPT ![m] = Store(machines[m], v)]
    /\ dirty' = IF Overflows(machines[m], v) THEN dirty \cup {m} ELSE dirty

-----------------------------------------------------------------------------
(* Reconcile *)

\* The copy shows the machine deleted, with an agent.
Discarded(m) ==
    /\ machines[m].cached.exists
    /\ machines[m].cached.deleting
    /\ machines[m].cached.ref # None

\* reconcileCleaner is due: the Playbooks of the installation are gone.
CleanerDue(m) ==
    /\ Discarded(m)
    /\ agents[machines[m].cached.ref].cached.exists
    /\ m \notin playbooks
    /\ m \notin cleaned

\* The clean-up has to wait: the agent is not healthy, and either the machine was
\* deleted less than 60 seconds ago or nobody has deleted the agent to force it.
CleanerBlocked(m) ==
    LET a == machines[m].cached.ref IN
    /\ CleanerDue(m)
    /\ ~agents[a].cached.ready
    /\ m \notin aged \/ ~agents[a].cached.deleting

Trouble == faults + stale + flaps

\* A worker takes the key of m and reads the copies.
Begin(m) ==
    /\ ~work[m].busy
    /\ m \in dirty
    /\ AllCurrent(m) \/ Trouble < MaxTrouble
    /\ stale' = IF AllCurrent(m) THEN stale ELSE stale + 1
    /\ parked' = IF CleanerBlocked(m) THEN parked \cup {m} ELSE parked \ {m}
    /\ UNCHANGED <<machines, aged, lost, flaps, faults>>

\* The reconcile goes on to its deferred patch with v as the object.
PatchWith(m, v) ==
    work' = [work EXCEPT ![m] = [busy |-> TRUE, old |-> machines[m].cached, new |-> v]]

\* The key comes back by itself (RequeueAfter, or an error), or only by an event.
Again(m) == UNCHANGED dirty
Done(m) == dirty' = dirty \ {m}

\* The reconcile ends and leaves the machine as it is.
Unchanged(m) == UNCHANGED work

\* A reconcile that touches neither agents nor Playbooks.
Inert == UNCHANGED <<agents, playbooks, cleaned, leaving, released, repeats>>

ReconcileNotFound(m) ==
    /\ ~machines[m].cached.exists
    /\ Begin(m) /\ Unchanged(m) /\ Inert
    /\ Done(m)

ReconcileAddFinalizer(m) ==
    /\ machines[m].cached.exists /\ ~machines[m].cached.deleting
    /\ ~machines[m].cached.finalizer
    /\ Begin(m) /\ Inert
    /\ PatchWith(m, SetFinalizer(machines[m].cached, TRUE))
    /\ Done(m)

\* The machine is to run: it exists, is not deleted and has its finalizer.
Wanted(v) == v.exists /\ ~v.deleting /\ v.finalizer

\* reconcileAgentRef with AgentRef set: a missing agent or another label is an
\* error, an agent that is not ready is waited for.
ReconcileWaitForAgent(m) ==
    LET a == machines[m].cached.ref IN
    /\ Wanted(machines[m].cached)
    /\ a # None
    /\ \/ ~agents[a].cached.exists
       \/ agents[a].cached.label # m
       \/ ~agents[a].cached.ready
    /\ Begin(m) /\ Unchanged(m) /\ Inert
    /\ Again(m)

\* The agent is the machine's and ready: the rest of reconcileNormal creates
\* the machine's Playbooks.
ReconcileUse(m) ==
    LET a == machines[m].cached.ref IN
    /\ Wanted(machines[m].cached)
    /\ a # None
    /\ agents[a].cached.exists
    /\ agents[a].cached.label = m
    /\ agents[a].cached.ready
    /\ Begin(m) /\ Unchanged(m)
    /\ playbooks' = playbooks \cup {m}
    /\ Done(m)
    /\ UNCHANGED <<agents, cleaned, leaving, released, repeats>>

\* Several agents carry the machine's name.
ReconcileAmbiguous(m) ==
    /\ Wanted(machines[m].cached)
    /\ machines[m].cached.ref = None
    /\ Cardinality(Labelled(m)) > 1
    /\ Begin(m) /\ Unchanged(m) /\ Inert
    /\ Again(m)

\* One agent carries the machine's name: "find an agent that was blocked by this
\* machine but not stored in AgentRef".
ReconcileAdopt_OwnName(m) ==
    /\ Wanted(machines[m].cached)
    /\ machines[m].cached.ref = None
    /\ \E a \in Agents :
        /\ Labelled(m) = {a}
        /\ PatchWith(m, SetRef(machines[m].cached, agents[a].cached.label))
    /\ Begin(m) /\ Inert
    /\ Again(m)
ReconcileAdopt(m) ==
    /\ Wanted(machines[m].cached)
    /\ machines[m].cached.ref = None
    /\ \E a \in Agents :
        /\ Labelled(m) = {a}
        /\ PatchWith(m, SetRef(machines[m].cached, a))
    /\ Begin(m) /\ Inert
    /\ Again(m)

\* Nobody carries the machine's name and no agent is free.
ReconcileNoFreeAgent_NoRequeue(m) ==
    /\ Wanted(machines[m].cached)
    /\ machines[m].cached.ref = None
    /\ Labelled(m) = {}
    /\ \A a \in Agents : ~Free(agents[a].cached)
    /\ Begin(m) /\ Unchanged(m) /\ Inert
    /\ Done(m)
ReconcileNoFreeAgent(m) ==
    /\ Wanted(machines[m].cached)
    /\ machines[m].cached.ref = None
    /\ Labelled(m) = {}
    /\ \A a \in Agents : ~Free(agents[a].cached)
    /\ Begin(m) /\ Unchanged(m) /\ Inert
    /\ Again(m)

Choosing_AnyTime(m, a) ==
    /\ Wanted(machines[m].cached)
    /\ Free(agents[a].cached)
Choosing_NoAdoption(m, a) ==
    /\ Wanted(machines[m].cached)
    /\ machines[m].cached.ref = None
    /\ Free(agents[a].cached)
Choosing(m, a) ==
    /\ Wanted(machines[m].cached)
    /\ machines[m].cached.ref = None
    /\ Labelled(m) = {}
    /\ Free(agents[a].cached)

\* The optimistic Update of an agent is accepted: the copy is the stored version.
Accepted_Unconditional(a) == agents[a].stored.exists
Accepted(a) == agents[a].stored.exists /\ Current(agents[a])

ReconcileClaim(m, a) ==
    /\ Choosing(m, a)
    /\ Accepted(a)
    /\ Begin(m)
    /\ StoreAgent(a, SetLabel(agents[a].cached, m))
    /\ PatchWith(m, SetRef(machines[m].cached, a))
    /\ Again(m)
    /\ UNCHANGED <<playbooks, cleaned, leaving, released, repeats>>

\* The Update is rejected: Reconcile returns the error and is retried.
ReconcileClaimConflict(m, a) ==
    /\ Choosing(m, a)
    /\ ~Accepted(a)
    /\ Begin(m) /\ Unchanged(m) /\ Inert
    /\ Again(m)

-----------------------------------------------------------------------------
(* Reconcile of a deleted machine *)

\* A machine without AgentRef has nothing to clean up.
ReconcileForget_Always(m) ==
    /\ machines[m].cached.exists /\ machines[m].cached.deleting
    /\ Begin(m) /\ Inert
    /\ PatchWith(m, SetFinalizer(machines[m].cached, FALSE))
    /\ Done(m)
ReconcileForget(m) ==
    /\ machines[m].cached.exists /\ machines[m].cached.deleting
    /\ machines[m].cached.ref = None
    /\ Begin(m) /\ Inert
    /\ PatchWith(m, SetFinalizer(machines[m].cached, FALSE))
    /\ Done(m)

\* The agent is not found: an error, retried for ever.
ReconcileDeleteNoAgent(m) ==
    /\ Discarded(m)
    /\ ~agents[machines[m].cached.ref].cached.exists
    /\ Begin(m) /\ Unchanged(m) /\ Inert
    /\ Again(m)

\* The machine's Playbooks are told to go; their events bring the key back.
ReconcileCleanup(m) ==
    /\ Discarded(m)
    /\ agents[machines[m].cached.ref].cached.exists
    /\ m \in playbooks
    /\ Begin(m) /\ Unchanged(m) /\ Inert
    /\ Done(m)

\* The clean-up waits, without a requeue.
ReconcileCleanerWaits(m) ==
    /\ CleanerBlocked(m)
    /\ Begin(m) /\ Unchanged(m) /\ Inert
    /\ Done(m)

\* The agent is healthy: the Playbooks of the clean-up are created; when they
\* have succeeded they are told to go like the others.
ReconcileCleaner(m) ==
    /\ CleanerDue(m)
    /\ agents[machines[m].cached.ref].cached.ready
    /\ Begin(m) /\ Unchanged(m)
    /\ playbooks' = playbooks \cup {m}
    /\ cleaned' = cleaned \cup {m}
    /\ Done(m)
    /\ UNCHANGED <<agents, leaving, released, repeats>>

\* Nothing of the machine is left on the agent: the clean-up has run, or it has
\* no templates, or it is skipped: the agent is going, not healthy, and the minute in
\* which it could have come back is over.
Vacated_StillBusy(m) ==
    /\ Discarded(m)
    /\ agents[machines[m].cached.ref].cached.exists
Vacated(m) ==
    /\ Discarded(m)
    /\ agents[machines[m].cached.ref].cached.exists
    /\ m \notin playbooks
    /\ \/ m \in cleaned
       \/ ~CleanerBlocked(m)

\* A clean-up that finds nothing to do counts as run (TemplateReconciler stores
\* that at once); one that was skipped is only marked in the object to be patched.
CleanedBy(m) ==
    IF agents[machines[m].cached.ref].cached.ready THEN cleaned \cup {m} ELSE cleaned

\* The label is removed, whatever name it holds, and then the finalizer.
ReconcileRelease_KeepsFinalizer(m) ==
    LET a == machines[m].cached.ref IN
    /\ Vacated(m)
    /\ Accepted(a)
    /\ Begin(m)
    /\ StoreAgent(a, SetLabel(agents[a].cached, None))
    /\ Unchanged(m)
    /\ released' = released \cup {m}
    /\ repeats' = IF m \in released THEN repeats + 1 ELSE repeats
    /\ Done(m)
    /\ cleaned' = CleanedBy(m)
    /\ UNCHANGED <<playbooks, leaving>>
ReconcileRelease(m) ==
    LET a == machines[m].cached.ref IN
    /\ Vacated(m)
    /\ Accepted(a)
    /\ Begin(m)
    /\ StoreAgent(a, SetLabel(agents[a].cached, None))
    /\ PatchWith(m, SetFinalizer(machines[m].cached, FALSE))
    /\ released' = released \cup {m}
    /\ repeats' = IF m \in released THEN repeats + 1 ELSE repeats
    /\ Done(m)
    /\ cleaned' = CleanedBy(m)
    /\ UNCHANGED <<playbooks, leaving>>

ReconcileReleaseConflict(m) ==
    /\ Vacated(m)
    /\ ~Accepted(machines[m].cached.ref)
    /\ Begin(m) /\ Unchanged(m) /\ Inert
    /\ Again(m)

Reconcile(m) ==
    \/ ReconcileNotFound(m)
    \/ ReconcileAddFinalizer(m)
    \/ ReconcileWaitForAgent(m)
    \/ ReconcileUse(m)
    \/ ReconcileAmbiguous(m)
    \/ ReconcileAdopt(m)
    \/ ReconcileNoFreeAgent(m)
    \/ \E a \in Agents : ReconcileClaim(m, a)
    \/ \E a \in Agents : ReconcileClaimConflict(m, a)
    \/ ReconcileForget(m)
    \/ ReconcileDeleteNoAgent(m)
    \/ ReconcileCleanup(m)
    \/ ReconcileCleanerWaits(m)
    \/ ReconcileCleaner(m)
    \/ ReconcileRelease(m)
    \/ ReconcileReleaseConflict(m)

-----------------------------------------------------------------------------
(* patchKubeforceMachine, the deferred patch *)

\* The stored machine after the patch: what the reconcile changed in its copy.
Patched(m) ==
    LET w == work[m]
        cur == machines[m].stored
    IN  IF w.old.finalizer /\ ~w.new.finalizer THEN NoMachine
        ELSE IF w.new.finalizer # w.old.finalizer THEN SetFinalizer(cur, TRUE)
        ELSE SetRef(cur, w.new.ref)

\* The patch is to store the AgentRef of a claim or an adoption.
BringsRef(m) == work[m].busy /\ work[m].new.ref # work[m].old.ref

PatchApplied(m) ==
    /\ work[m].busy
    /\ machines[m].stored.exists
    /\ StoreMachine(m, Patched(m))
    /\ work' = [work EXCEPT ![m] = Rest]
    /\ lost' = IF BringsRef(m) THEN lost \ {m} ELSE lost
    /\ UNCHANGED <<agents, playbooks, cleaned, aged, leaving, released, repeats, parked,
                   flaps, faults, stale>>

\* The machine has gone: the error brings the key back.
PatchNotFound(m) ==
    /\ work[m].busy
    /\ ~machines[m].stored.exists
    /\ work' = [work EXCEPT ![m] = Rest]
    /\ dirty' = dirty \cup {m}
    /\ lost' = IF BringsRef(m) THEN lost \cup {m} ELSE lost
    /\ UNCHANGED <<machines, agents, playbooks, cleaned, aged, leaving, released, repeats,
                   parked, flaps, faults, stale>>

PatchFails(m) ==
    /\ work[m].busy
    /\ Trouble < MaxTrouble
    /\ faults' = faults + 1
    /\ work' = [work EXCEPT ![m] = Rest]
    /\ dirty' = dirty \cup {m}
    /\ lost' = IF BringsRef(m) THEN lost \cup {m} ELSE lost
    /\ UNCHANGED <<machines, agents, playbooks, cleaned, aged, leaving, released, repeats,
                   parked, flaps, stale>>

Finish(m) == PatchApplied(m) \/ PatchNotFound(m) \/ PatchFails(m)

-----------------------------------------------------------------------------
(* The KubeforceAgent controller on a deleted agent *)

\* The copies show a machine under the agent's label.
HasMachine(a) ==
    LET m == agents[a].cached.label
    IN  m # None /\ machines[m].cached.exists

\* reconcileDeleteMachine: the machine named by the label is deleted first.
AgentDeletesMachine(a) ==
    LET m == agents[a].cached.label IN
    /\ agents[a].cached.exists /\ agents[a].cached.deleting
    /\ HasMachine(a)
    /\ ~machines[m].cached.deleting
    /\ machines[m].stored.exists /\ ~machines[m].stored.deleting
    /\ StoreMachine(m, IF machines[m].stored.finalizer
                         THEN [machines[m].stored EXCEPT !.deleting = TRUE]
                         ELSE NoMachine)
    /\ UNCHANGED <<agents, playbooks, cleaned, aged, leaving, work, observers>>

\* The label names no machine that is left and no Playbook is: uninstall.
AgentUninstall(a) ==
    /\ agents[a].cached.exists /\ agents[a].cached.deleting
    /\ ~HasMachine(a)
    /\ \A p \in playbooks : machines[p].stored.ref # a
    /\ a \notin leaving
    /\ leaving' = leaving \cup {a}
    /\ UNCHANGED <<machines, agents, playbooks, cleaned, aged, dirty, work, observers>>

\* The patch that removes the agent's finalizer.
AgentFinalized(a) ==
    /\ a \in leaving
    /\ leaving' = leaving \ {a}
    /\ StoreAgent(a, NoAgent)
    /\ UNCHANGED <<machines, playbooks, cleaned, aged, dirty, work, observers>>

-----------------------------------------------------------------------------
(* The surroundings *)

DeliverMachine(m) ==
    /\ ~Current(machines[m])
    /\ machines' = [machines EXCEPT ![m] = Deliver(machines[m])]
    /\ dirty' = dirty \cup {m}
    /\ UNCHANGED <<agents, playbooks, cleaned, aged, leaving, work, observers>>

\* KubeforceAgents are not watched by the machine controller.
DeliverAgent(a) ==
    /\ ~Current(agents[a])
    /\ agents' = [agents EXCEPT ![a] = Deliver(agents[a])]
    /\ UNCHANGED <<machines, playbooks, cleaned, aged, leaving, dirty, work, observers>>

\* An event of the owner Machine, the Cluster or the KubeforceCluster.
Wake(m) ==
    /\ machines[m].stored.exists
    /\ m \notin dirty
    /\ dirty' = dirty \cup {m}
    /\ UNCHANGED <<machines, agents, playbooks, cleaned, aged, leaving, work, observers>>

\* The last Playbook of a deleted machine has gone: the provider's controllers
\* have removed it from a healthy agent, or given up on one that is going.
PlaybooksGone(m) ==
    /\ m \in playbooks
    /\ machines[m].stored.deleting
    /\ \E a \in Agents :
        /\ machines[m].stored.ref = a
        /\ agents[a].stored.exists
        /\ agents[a].stored.ready \/ agents[a].stored.deleting
    /\ playbooks' = playbooks \ {m}
    /\ dirty' = dirty \cup {m}
    /\ UNCHANGED <<machines, agents, cleaned, aged, leaving, work, observers>>

\* 60 seconds have passed since the machine was deleted; no event says so.  They may have
\* passed at any time: the step is taken where the clean-up would ask for it.
MinutePasses(m) ==
    /\ CleanerBlocked(m)
    /\ m \notin aged
    /\ aged' = aged \cup {m}
    /\ UNCHANGED <<machines, agents, playbooks, cleaned, leaving, dirty, work, observers>>

\* A client deletes the machine.
DeleteMachine(m) ==
    /\ machines[m].stored.exists /\ ~machines[m].stored.deleting
    /\ StoreMachine(m, IF machines[m].stored.finalizer
                         THEN [machines[m].stored EXCEPT !.deleting = TRUE]
                         ELSE NoMachine)
    /\ UNCHANGED <<agents, playbooks, cleaned, aged, leaving, work, observers>>

\* A client deletes the agent.
DeleteAgent(a) ==
    /\ agents[a].stored.exists /\ ~agents[a].stored.deleting
    /\ Trouble < MaxTrouble
    /\ flaps' = flaps + 1
    /\ StoreAgent(a, [agents[a].stored EXCEPT !.deleting = TRUE])
    /\ UNCHANGED <<machines, playbooks, cleaned, aged, leaving, dirty, work, released,
                   repeats, parked, lost, faults, stale>>

\* The probe changes its mind about the agent.
Flap(a) ==
    /\ agents[a].stored.exists
    /\ Trouble < MaxTrouble
    /\ flaps' = flaps + 1
    /\ StoreAgent(a, [agents[a].stored EXCEPT !.ready = ~agents[a].stored.ready])
    /\ UNCHANGED <<machines, playbooks, cleaned, aged, leaving, dirty, work, released,
                   repeats, parked, lost, faults, stale>>

\* The manager stops and starts again.
Restart ==
    /\ Trouble < MaxTrouble
    /\ faults' = faults + 1
    /\ machines' = [m \in Machines |-> Listed(machines[m].stored)]
    /\ agents' = [a \in Agents |-> Listed(agents[a].stored)]
    /\ leaving' = {}
    /\ dirty' = {m \in Machines : machines[m].stored.exists}
    /\ work' = [m \in Machines |-> Rest]
    /\ lost' = lost \cup {m \in Machines : BringsRef(m)}
    /\ UNCHANGED <<playbooks, cleaned, aged, released, repeats, parked, flaps, stale>>

MachineStep(m) ==
    \/ Reconcile(m)
    \/ Finish(m)
    \/ DeliverMachine(m)
    \/ Wake(m)
    \/ PlaybooksGone(m)
    \/ MinutePasses(m)
    \/ DeleteMachine(m)

AgentStep(a) ==
    \/ AgentDeletesMachine(a)
    \/ AgentUninstall(a)
    \/ AgentFinalized(a)
    \/ DeliverAgent(a)
    \/ DeleteAgent(a)
    \/ Flap(a)

Next ==
    \/ \E m \in Machines : MachineStep(m)
    \/ \E a \in Agents : AgentStep(a)
    \/ Restart

\* The workers, the watch streams, the Playbooks and the clock keep going.
Fairness ==
    /\ \A m \in Machines :
        /\ WF_vars(Reconcile(m))
        /\ WF_vars(Finish(m))
        /\ WF_vars(DeliverMachine(m))
        /\ WF_vars(PlaybooksGone(m))
        /\ WF_vars(MinutePasses(m))
    /\ \A a \in Agents : WF_vars(DeliverAgent(a))

Spec == Init /\ [][Next]_vars
FairSpec == Spec /\ Fairness

-----------------------------------------------------------------------------
(* Properties *)

\* The objects, the queue, the worker and the observers are of their types.
TypeOK ==
    /\ machines \in [Machines -> Object(Machine)]
    /\ agents \in [Agents -> Object(Agent)]
    /\ playbooks \in SUBSET Machines
    /\ cleaned \in SUBSET Machines
    /\ aged \in SUBSET Machines
    /\ leaving \in SUBSET Agents
    /\ dirty \in SUBSET Machines
    /\ work \in [Machines -> Work]
    /\ released \in SUBSET Machines
    /\ repeats \in Nat
    /\ parked \in SUBSET Machines
    /\ lost \in SUBSET Machines
    /\ flaps \in Nat
    /\ faults \in Nat
    /\ stale \in Nat

Label(a) == agents[a].stored.label
Ref(m) == machines[m].stored.ref

\* No claim takes an agent away from another machine: a label never changes from
\* one name to another, however outdated the copies are.
NoTakeover ==
    [][\A a \in Agents : Label(a) # None /\ Label(a)' # None => Label(a)' = Label(a)]_vars

\* "AgentMachineLabel is a name of the KubeforceMachine using this agent."
LabelNamesUser ==
    \A m \in Machines :
        machines[m].stored.exists /\ ~machines[m].stored.deleting /\ Ref(m) # None
        => Label(Ref(m)) = m \/ ~agents[Ref(m)].stored.exists

\* As long as no machine releases twice, a machine that has an AgentRef and is not
\* deleted holds the label of that agent, so no two machines use one host.
LabelHeld == repeats = 0 => LabelNamesUser

\* A claim whose AgentRef was not stored is found again and adopted: a machine
\* never labels two agents, unless it decided on an outdated copy.
OneAgentPerMachine ==
    stale = 0 => \A m \in Machines : \A a, b \in Agents :
                    Label(a) = m /\ Label(b) = m => a = b

\* "the AgentRef of KubeforceMachine is immutable. It cannot be changed if it is
\* initialized": no status patch changes it, unless it was computed from an
\* outdated copy (the webhook does not see the status subresource).
AgentRefImmutable ==
    [][\A m \in Machines :
        stale' = 0 /\ Ref(m) # None /\ machines[m].stored.exists /\ machines'[m].stored.exists
        => Ref(m)' = Ref(m)]_vars

\* A machine takes its name off its agent before it goes, through every crash and every
\* patch that is lost on the way: no agent stays reserved for a machine that does not
\* exist.  The only way out is the one that reconcileDelete leaves open: the AgentRef of
\* a claim was not stored and the machine went before a reconcile had adopted the agent.
\* (Of a reconcile that reads an outdated copy nothing is said.)
NoLeakedClaim ==
    stale = 0 =>
        \A a \in Agents : Label(a) # None =>
            machines[Label(a)].stored.exists \/ Label(a) \in lost

\* An agent that stays is handed on only when the Playbooks of the machine before are
\* gone.  (One that is being deleted may be released without a clean-up; if the patch
\* that says so is lost, the clean-up can still start there.)
VacatedBeforeReuse ==
    repeats = 0 => \A m \in playbooks : Ref(m) # None =>
        \/ Label(Ref(m)) = m
        \/ ~agents[Ref(m)].stored.exists
        \/ agents[Ref(m)].stored.deleting

\* The machine has an agent, or there is none that it could take.
Served(m) ==
    Wanted(machines[m].stored) /\ Ref(m) = None => \A a \in Agents : ~Free(agents[a].stored)

\* The machine is not deleted or is gone; or its agent went first; or the agent is not
\* healthy and nobody deletes it; or the last reconcile of the machine waited for the
\* agent's health, a wait that nothing ends: it has no requeue, agents are not watched,
\* and no event comes when the minute is over.
DeletionEnds(m) ==
    LET a == Ref(m) IN
    machines[m].stored.deleting =>
        \/ ~machines[m].stored.exists
        \/ a # None /\ ~agents[a].stored.exists
        \/ a # None /\ ~agents[a].stored.ready /\ ~agents[a].stored.deleting
        \/ m \in parked
=============================================================================
