--------------------- MODULE ProviderPlaybookDeployment ---------------------
(***************************************************************************)
(* A PlaybookDeployment of the management cluster and its counterpart on   *)
(* the agent (controllers/playbookdeployment_controller.go).  Unlike a     *)
(* Playbook it may be changed: the controller patches the counterpart and  *)
(* waits until the agent has observed the new template.                    *)
(*                                                                         *)
(* A template is its version number, and so is its checksum.  The          *)
(* counterpart's own life is AgentPlaybookDeployment's: here it reports    *)
(* Progressing and then a verdict for the template it has seen.  Its       *)
(* generation is 1 for ever: no strategy of the agent's registry raises    *)
(* it, so the observed generation is the current one from the first report *)
(* on.                                                                     *)
(***************************************************************************)
EXTENDS Reconciler

VARIABLES
    agent,          \* the KubeforceAgent
    paused,         \* what is paused: nothing, the Cluster, the agent
    aged,           \* 60 seconds have passed since the deletion
    counterparts,   \* the PlaybookDeployments on the agent with this one's labels
    created,        \* observer: how many have been created
    forced          \* observer: the finalizer went without the counterpart

observers == <<created, forced>>
surroundings == <<agent, paused, aged, counterparts>>
vars == <<queue, surroundings, observers>>

-----------------------------------------------------------------------------
(* The objects *)

Names == 1 .. MaxTrouble + 1
Templates == 1 .. MaxTrouble + 1

Phases == {"", "Provisioning", "Synchronization", "Completed", "Deleting", "Failed"}

Verdicts == {"Succeeded", "Failed"}

ExternalPhases == {"", "Progressing"} \cup Verdicts

\* sum is LastSpecChecksum (0: none), the other fields are the Playbook's.
PlaybookDeployment ==
    [exists : BOOLEAN, deleting : BOOLEAN, finalizer : BOOLEAN, template : Templates,
     sync : {"absent", "True", "False"}, ext : {0} \cup Names,
     extPhase : ExternalPhases, sum : {0} \cup Templates, failing : BOOLEAN,
     phase : Phases]

NewDeployment ==
    [exists |-> TRUE, deleting |-> FALSE, finalizer |-> FALSE, template |-> 1,
     sync |-> "absent", ext |-> 0, extPhase |-> "", sum |-> 0, failing |-> FALSE,
     phase |-> ""]

\* patchPlaybookDeployment: the calls and what they write.
Calls ==
    [conditions |-> {"sync"}, object |-> {"finalizer"},
     status |-> {"ext", "extPhase", "sum", "failing", "phase"}]

KubeforceAgent == [exists : BOOLEAN, deleting : BOOLEAN, healthy : BOOLEAN]

\* seen is the template its phase is about (0: nothing observed yet).
Counterpart ==
    [state : {"absent", "live", "deleting"}, template : {0} \cup Templates,
     seen : {0} \cup Templates, phase : ExternalPhases]

Absent == [state |-> "absent", template |-> 0, seen |-> 0, phase |-> ""]

\* toExternalPlaybookDeploymentSpec
NewCounterpart(t) == [state |-> "live", template |-> t, seen |-> 0, phase |-> ""]

\* findExternalPlaybookDeployment: the list by label on the agent.
Found == {n \in Names : counterparts[n].state # "absent"}

\* The external phase is final and the objects were in agreement.
Finished(d) == d.extPhase \in Verdicts /\ d.sync = "True"

reconcilePhase(d) ==
    [d EXCEPT !.phase = CASE d.failing -> "Failed"
                          [] ~d.failing /\ d.deleting -> "Deleting"
                          [] ~d.failing /\ ~d.deleting /\ Finished(d) -> "Completed"
                          [] OTHER -> IF d.phase = "" THEN "Provisioning"
                                      ELSE "Synchronization"]

Failing(d) == [d EXCEPT !.failing = TRUE, !.sync = "False"]

-----------------------------------------------------------------------------
(* Reconcile *)

End(d, again) == EndWith(TRUE, reconcilePhase(d), again)

Quiet == UNCHANGED <<surroundings, observers>>

ReconcileNotFound ==
    /\ ~obj.cached.exists
    /\ EndEarly(FALSE) /\ Quiet

ReconcilePaused ==
    /\ obj.cached.exists /\ paused = "cluster"
    /\ EndEarly(FALSE) /\ Quiet

Reconcilable == obj.cached.exists /\ paused # "cluster"

ReconcileAddFinalizer ==
    /\ Reconcilable /\ ~obj.cached.deleting /\ ~obj.cached.finalizer
    /\ End([obj.cached EXCEPT !.finalizer = TRUE], FALSE)
    /\ Quiet

Wanted == Reconcilable /\ ~obj.cached.deleting /\ obj.cached.finalizer

\* "we don't need to sync if the external playbook has reached the termination
\* phase": and the template is the one synchronised last.
Terminal_AnyTemplate(d) == Finished(d)
Terminal(d) == Finished(d) /\ d.template = d.sum

ReconcileTerminal ==
    /\ Wanted /\ Terminal(obj.cached)
    /\ End(obj.cached, FALSE)
    /\ Quiet

Active == Wanted /\ ~Terminal(obj.cached)

ReconcileNoAgent ==
    /\ Active /\ ~agent.exists
    /\ End(Failing(obj.cached), TRUE)
    /\ Quiet

ReconcileAgentPaused ==
    /\ Active /\ agent.exists /\ paused = "agent"
    /\ End(obj.cached, FALSE)
    /\ Quiet

Reachable == agent.exists /\ agent.healthy

ReconcileWaitForAgent ==
    /\ Active /\ paused = "none" /\ agent.exists /\ ~agent.healthy
    /\ End(Failing(obj.cached), FALSE)
    /\ Quiet

\* GetClientSet, the list or the patch fails, or the list has more than one element.
ReconcileSyncFails ==
    /\ Active /\ paused = "none" /\ Reachable
    /\ \/ EndFaulty(TRUE, reconcilePhase(Failing(obj.cached)))
       \/ Cardinality(Found) > 1 /\ End(Failing(obj.cached), TRUE)
    /\ Quiet

Missing == Found = {} /\ obj.cached.ext = 0

NextName == created + 1

CreateCounterpart ==
    /\ NextName \in Names
    /\ counterparts' = [counterparts EXCEPT ![NextName] = NewCounterpart(obj.cached.template)]
    /\ created' = NextName
    /\ UNCHANGED <<agent, paused, aged, forced>>

ReconcileCreate ==
    /\ Active /\ paused = "none" /\ Reachable /\ Missing
    /\ CreateCounterpart
    /\ End([obj.cached EXCEPT !.ext = NextName, !.sum = obj.cached.template,
                              !.failing = FALSE, !.sync = "False"], TRUE)

\* Create returns an error, whether the agent has stored the object or not.
ReconcileCreateFails ==
    /\ Active /\ paused = "none" /\ Reachable /\ Missing
    /\ CreateCounterpart \/ Quiet
    /\ EndFaulty(TRUE, reconcilePhase(Failing(obj.cached)))

\* ExternalName is set and that object is not what the list shows.
ReconcileLost ==
    /\ Active /\ paused = "none" /\ Reachable
    /\ obj.cached.ext # 0
    /\ Cardinality(Found) <= 1 /\ obj.cached.ext \notin Found
    /\ End(Failing(obj.cached), FALSE)
    /\ Quiet

\* n is the one counterpart, by label and by name.
Synchronises(n) ==
    /\ Active /\ paused = "none" /\ Reachable
    /\ Found = {n} /\ obj.cached.ext \in {0, n}

\* ExternalName and ExternalPhase as the list has them.
Taken(n) ==
    [obj.cached EXCEPT !.ext = n, !.extPhase = counterparts[n].phase, !.failing = FALSE]

\* updateExternalPlaybookDeployment has something to patch.
ReconcileUpdate ==
    \E n \in Found :
        /\ Synchronises(n)
        /\ counterparts[n].template # obj.cached.template
        /\ counterparts' = [counterparts EXCEPT ![n].template = obj.cached.template]
        /\ End([Taken(n) EXCEPT !.sum = obj.cached.template, !.sync = "False"], TRUE)
        /\ UNCHANGED <<agent, paused, aged, observers>>

\* Generation # Status.ObservedGeneration
Unobserved(c) == c.seen = 0

ReconcileUnobserved ==
    \E n \in Found :
        /\ Synchronises(n)
        /\ counterparts[n].template = obj.cached.template
        /\ Unobserved(counterparts[n])
        /\ End([Taken(n) EXCEPT !.sync = "False"], TRUE)
        /\ Quiet

ReconcileSync ==
    \E n \in Found :
        /\ Synchronises(n)
        /\ counterparts[n].template = obj.cached.template
        /\ ~Unobserved(counterparts[n])
        /\ End([Taken(n) EXCEPT !.sync = "True"], counterparts[n].phase = "Progressing")
        /\ Quiet

-----------------------------------------------------------------------------
(* reconcileDelete and reconcileDeleteExternalPlaybookDeployment *)

Discarded == Reconcilable /\ obj.cached.deleting /\ obj.cached.finalizer

Forget(d) == [d EXCEPT !.finalizer = FALSE]

ReconcileForget ==
    /\ Discarded /\ obj.cached.ext = 0
    /\ End(Forget(obj.cached), FALSE)
    /\ Quiet

ReconcileDeleteNoAgent ==
    /\ Discarded /\ obj.cached.ext # 0 /\ ~agent.exists
    /\ End(Failing(obj.cached), TRUE)
    /\ Quiet

\* "wait 60 seconds for the agent to be ready", "wait for forced deletion"
ReconcileDeleteWaits ==
    /\ Discarded /\ obj.cached.ext # 0 /\ agent.exists /\ ~agent.healthy
    /\ ~aged \/ ~agent.deleting
    /\ End(Failing(obj.cached), TRUE)
    /\ Quiet

ReconcileAbandon ==
    /\ Discarded /\ obj.cached.ext # 0 /\ agent.exists /\ ~agent.healthy
    /\ aged /\ agent.deleting
    /\ End(Forget(obj.cached), FALSE)
    /\ forced' = TRUE
    /\ UNCHANGED <<surroundings, created>>

Deletes == Discarded /\ obj.cached.ext # 0 /\ Reachable

ReconcileDeleteCounterpart ==
    /\ Deletes /\ obj.cached.ext \in Found
    /\ counterparts' = [counterparts EXCEPT ![obj.cached.ext].state = "deleting"]
    /\ End([obj.cached EXCEPT !.failing = FALSE, !.sync = "True"], TRUE)
    /\ UNCHANGED <<agent, paused, aged, observers>>

ReconcileDeleted ==
    /\ Deletes /\ obj.cached.ext \notin Found
    /\ End([Forget(obj.cached) EXCEPT !.failing = FALSE], FALSE)
    /\ Quiet

ReconcileDeleteFails ==
    /\ Deletes
    /\ EndFaulty(TRUE, reconcilePhase(Failing(obj.cached)))
    /\ Quiet

Reconcile ==
    \/ ReconcileNotFound
    \/ ReconcilePaused
    \/ ReconcileAddFinalizer
    \/ ReconcileTerminal
    \/ ReconcileNoAgent
    \/ ReconcileAgentPaused
    \/ ReconcileWaitForAgent
    \/ ReconcileSyncFails
    \/ ReconcileCreate
    \/ ReconcileCreateFails
    \/ ReconcileLost
    \/ ReconcileUpdate
    \/ ReconcileUnobserved
    \/ ReconcileSync
    \/ ReconcileForget
    \/ ReconcileDeleteNoAgent
    \/ ReconcileDeleteWaits
    \/ ReconcileAbandon
    \/ ReconcileDeleteCounterpart
    \/ ReconcileDeleted
    \/ ReconcileDeleteFails

-----------------------------------------------------------------------------
(* The deferred patch *)

Patch ==
    /\ PatchApplied(Calls)
    /\ Quiet

PatchPartly ==
    \E done \in SUBSET DOMAIN Calls \ {DOMAIN Calls} :
        /\ PatchFails(Calls, done)
        /\ Quiet

-----------------------------------------------------------------------------
(* The surroundings *)

ObserveEvent == DeliverEvent /\ Quiet

DeleteDeployment == RequestDelete /\ Quiet

\* The template reconciler, or somebody else, changes the template.
ChangeTemplate ==
    /\ obj.stored.exists /\ ~obj.stored.deleting
    /\ Trouble < MaxTrouble /\ changes' = changes + 1
    /\ StoreObject([obj.stored EXCEPT !.template = @ + 1])
    /\ UNCHANGED <<work, faults, stale>>
    /\ Quiet

\* The agent sees the template and starts a Playbook; that one ends.
CounterpartObserves ==
    \E n \in Names :
        /\ counterparts[n].state = "live"
        /\ counterparts[n].seen # counterparts[n].template
        /\ counterparts' = [counterparts EXCEPT ![n].seen = counterparts[n].template,
                                                ![n].phase = "Progressing"]
        /\ UNCHANGED <<queue, agent, paused, aged, observers>>

CounterpartFinishes ==
    \E n \in Names, v \in Verdicts :
        /\ counterparts[n].state = "live"
        /\ counterparts[n].seen = counterparts[n].template
        /\ counterparts[n].phase = "Progressing"
        /\ counterparts' = [counterparts EXCEPT ![n].phase = v]
        /\ UNCHANGED <<queue, agent, paused, aged, observers>>

CounterpartGoes ==
    \E n \in Names :
        /\ counterparts[n].state = "deleting"
        /\ counterparts' = [counterparts EXCEPT ![n] = Absent]
        /\ UNCHANGED <<queue, agent, paused, aged, observers>>

CounterpartLost ==
    \E n \in Found :
        /\ Change(FALSE)
        /\ counterparts' = [counterparts EXCEPT ![n] = Absent]
        /\ UNCHANGED <<agent, paused, aged, observers>>

\* kubeforceAgentToPlaybookDeployments brings the key back on events of the agent.
AgentChanges ==
    /\ Change(TRUE)
    /\ agent' \in KubeforceAgent \ {agent}
    /\ agent'.exists => agent.exists /\ (agent.deleting => agent'.deleting)
    /\ UNCHANGED <<paused, aged, counterparts, observers>>

PauseChanges ==
    \E p \in {"none", "cluster", "agent"} :
        /\ p # paused /\ "none" \in {p, paused}
        /\ Change(p # "cluster")
        /\ paused' = p
        /\ UNCHANGED <<agent, aged, counterparts, observers>>

MinutePasses ==
    /\ obj.stored.deleting /\ ~aged
    /\ aged' = TRUE
    /\ UNCHANGED <<queue, agent, paused, counterparts, observers>>

ManagerRestarts ==
    /\ Restart
    /\ Quiet

Init ==
    /\ QueueInit(NewDeployment)
    /\ agent = [exists |-> TRUE, deleting |-> FALSE, healthy |-> TRUE]
    /\ paused = "none"
    /\ aged = FALSE
    /\ counterparts = [n \in Names |-> Absent]
    /\ created = 0
    /\ forced = FALSE

Next ==
    \/ Reconcile
    \/ Patch
    \/ PatchPartly
    \/ ObserveEvent
    \/ DeleteDeployment
    \/ ChangeTemplate
    \/ CounterpartObserves
    \/ CounterpartFinishes
    \/ CounterpartGoes
    \/ CounterpartLost
    \/ AgentChanges
    \/ PauseChanges
    \/ MinutePasses
    \/ ManagerRestarts

\* The workers of the controller; the watch, the agent and the clock.
Controller == Patch \/ (dirty /\ ~work.busy /\ Reconcile)
Environment == ObserveEvent \/ CounterpartObserves \/ CounterpartFinishes \/ CounterpartGoes \/ MinutePasses

Fairness == WF_vars(Controller) /\ WF_vars(Environment)

Spec == Init /\ [][Next]_vars /\ Fairness

-----------------------------------------------------------------------------
(* Properties *)

TypeOK ==
    /\ QueueTypeOK(PlaybookDeployment)
    /\ agent \in KubeforceAgent
    /\ counterparts \in [Names -> Counterpart]
    /\ created \in {0} \cup Names

\* A second counterpart is created only after the first was removed behind the
\* controller's back before its name was seen.
ExecutedOnce == created > 1 => changes > 0 /\ faults + stale > 0

\* Deleting the PlaybookDeployment leaves nothing on the agent, unless the name was
\* lost by a failed call or an outdated copy, or the deletion was forced.
NothingLeftBehind ==
    ~obj.stored.exists /\ Found # {} => forced \/ faults + stale > 0

\* The counterpart has the template that was stored last and the deployment is not
\* waiting for it; or it is deleted or paused, or the agent or counterpart is lost.
Settled ==
    \/ obj.stored.deleting
    \/ ~Reachable \/ paused # "none"
    \/ /\ Finished(obj.stored)
       /\ \A n \in Found : counterparts[n].template = obj.stored.template
    \/ obj.stored.ext # 0 /\ obj.stored.ext \notin Found

\* The deployment is gone; or it is paused, or its agent is gone, or cannot be reached
\* and is not deleted itself.
DeletionEnds ==
    \/ ~obj.stored.exists \/ paused = "cluster"
    \/ ~agent.exists \/ (~agent.healthy /\ ~agent.deleting)
=============================================================================
