-------------------------- MODULE ProviderPlaybook --------------------------
(***************************************************************************)
(* A Playbook of the management cluster and its counterpart on the agent   *)
(* (controllers/playbook_controller.go).  The controller creates the       *)
(* counterpart through the agent's API, follows it until it has a verdict  *)
(* and removes it when the Playbook is deleted.                            *)
(*                                                                         *)
(* The counterpart's own life is AgentPlaybook's; here it is active, then  *)
(* has a verdict.  Its API answers from the agent's storage, without lag.  *)
(* The KubeforceAgent is read as it is stored: a Healthy condition that is *)
(* out of date is the same as one that changes between two reads.          *)
(***************************************************************************)
EXTENDS Reconciler

VARIABLES
    agent,          \* the KubeforceAgent
    paused,         \* what is paused: nothing, the Cluster, the agent
    aged,           \* 60 seconds have passed since the deletion
    counterparts,   \* the Playbooks on the agent that carry this one's labels
    created,        \* observer: how many have been created
    torn,           \* observer: a verdict was stored and the status was not
    parked,         \* observer: the deletion waits and nothing will wake it
    forced          \* observer: the finalizer went without the counterpart

observers == <<created, torn, parked, forced>>
surroundings == <<agent, paused, aged, counterparts>>
vars == <<queue, surroundings, observers>>

-----------------------------------------------------------------------------
(* The objects *)

Names == 1 .. MaxTrouble + 1

Phases ==
    {"", "Provisioning", "Synchronization", "Completed", "Deleting", "Failed", "Unknown"}

Verdicts == {"Succeeded", "Failed"}

ExternalPhases == {"", "active"} \cup Verdicts

\* ext is ExternalName (0: none); verdict stands for the Execution and Failed
\* conditions taken over from the counterpart, failing for FailureReason and
\* FailureMessage.
Playbook ==
    [exists : BOOLEAN, deleting : BOOLEAN, finalizer : BOOLEAN,
     sync : {"absent", "True", "False"}, verdict : Verdicts \cup {"none"},
     ext : {0} \cup Names, extPhase : ExternalPhases, failing : BOOLEAN, phase : Phases]

NewPlaybook ==
    [exists |-> TRUE, deleting |-> FALSE, finalizer |-> FALSE, sync |-> "absent",
     verdict |-> "none", ext |-> 0, extPhase |-> "", failing |-> FALSE, phase |-> ""]

\* patchPlaybook: the calls and what they write.
Calls ==
    [conditions |-> {"sync", "verdict"}, object |-> {"finalizer"},
     status |-> {"ext", "extPhase", "failing", "phase"}]

KubeforceAgent == [exists : BOOLEAN, deleting : BOOLEAN, healthy : BOOLEAN]

Counterpart == {"absent", "deleting", "active"} \cup Verdicts

\* findExternalPlaybook: the list by label on the agent.
Found == {n \in Names : counterparts[n] # "absent"}

reconcilePhase(p) ==
    CASE p.failing -> [p EXCEPT !.phase = "Failed"]
      [] ~p.failing /\ p.deleting -> [p EXCEPT !.phase = "Deleting"]
      [] ~p.failing /\ ~p.deleting /\ p.verdict = "Failed" ->
            [p EXCEPT !.phase = "Failed", !.failing = TRUE]
      [] ~p.failing /\ ~p.deleting /\ p.verdict = "Succeeded" ->
            [p EXCEPT !.phase = "Completed"]
      [] ~p.failing /\ ~p.deleting /\ p.verdict = "none" /\ p.sync = "True" ->
            [p EXCEPT !.phase = "Synchronization"]
      [] OTHER -> [p EXCEPT !.phase = IF p.phase = "" THEN "Provisioning" ELSE "Unknown"]

\* FailureReason and FailureMessage are set and Synced is False.
Failing(p) == [p EXCEPT !.failing = TRUE, !.sync = "False"]

-----------------------------------------------------------------------------
(* Reconcile *)

End(p, again) == EndWith(TRUE, reconcilePhase(p), again)

Quiet == UNCHANGED <<surroundings, observers>>

ReconcileNotFound ==
    /\ ~obj.cached.exists
    /\ EndEarly(FALSE) /\ Quiet

ReconcilePaused ==
    /\ obj.cached.exists /\ paused = "cluster"
    /\ EndEarly(FALSE) /\ Quiet

Reconcilable == obj.cached.exists /\ paused # "cluster"

ReconcileAddFinalizer ==
    /\ Reconcilable /\ ~obj.cached.deleting /\ ~obj.cached.finalizer
    /\ End([obj.cached EXCEPT !.finalizer = TRUE], FALSE)
    /\ Quiet

Wanted == Reconcilable /\ ~obj.cached.deleting /\ obj.cached.finalizer

\* "we don't need to sync if the external playbook has reached the termination
\* phase"
ReconcileTerminal ==
    /\ Wanted /\ obj.cached.verdict # "none"
    /\ End(obj.cached, FALSE)
    /\ Quiet

Active == Wanted /\ obj.cached.verdict = "none"

ReconcileNoAgent ==
    /\ Active /\ ~agent.exists
    /\ End(Failing(obj.cached), TRUE)
    /\ Quiet

ReconcileAgentPaused ==
    /\ Active /\ agent.exists /\ paused = "agent"
    /\ End(obj.cached, FALSE)
    /\ Quiet

Reachable == agent.exists /\ agent.healthy

ReconcileWaitForAgent ==
    /\ Active /\ paused = "none" /\ agent.exists /\ ~agent.healthy
    /\ End(Failing(obj.cached), FALSE)
    /\ Quiet

\* GetClientSet or the list fails, or the list has more than one element.
ReconcileSyncFails ==
    /\ Active /\ paused = "none" /\ Reachable
    /\ \/ EndFaulty(TRUE, reconcilePhase(Failing(obj.cached)))
       \/ Cardinality(Found) > 1 /\ End(Failing(obj.cached), TRUE)
    /\ Quiet

Missing_IgnoresName == Found = {}
Missing == Found = {} /\ obj.cached.ext = 0

NextName == created + 1

CreateCounterpart ==
    /\ NextName \in Names
    /\ counterparts' = [counterparts EXCEPT ![NextName] = "active"]
    /\ created' = NextName
    /\ UNCHANGED <<agent, paused, aged, torn, parked, forced>>

ReconcileCreate ==
    /\ Active /\ paused = "none" /\ Reachable /\ Missing
    /\ CreateCounterpart
    /\ End([obj.cached EXCEPT !.ext = NextName, !.extPhase = "", !.failing = FALSE,
                              !.sync = "True"], TRUE)

\* Create returns an error, whether the agent has stored the object or not.
ReconcileCreateFails ==
    /\ Active /\ paused = "none" /\ Reachable /\ Missing
    /\ CreateCounterpart \/ Quiet
    /\ EndFaulty(TRUE, reconcilePhase(Failing(obj.cached)))

\* ExternalName is set and that object is not what the list shows.
ReconcileLost ==
    /\ Active /\ paused = "none" /\ Reachable
    /\ obj.cached.ext # 0
    /\ Cardinality(Found) <= 1 /\ obj.cached.ext \notin Found
    /\ End(Failing(obj.cached), FALSE)
    /\ Quiet

\* appendExternalConditions: a counterpart has a verdict or is still active.
VerdictOf_Phase(c) == c
VerdictOf(c) == IF c \in Verdicts THEN c ELSE "none"

ExternalPhaseOf(c) == IF c \in Verdicts THEN c ELSE "active"

ReconcileSync ==
    \E n \in Found :
        /\ Active /\ paused = "none" /\ Reachable
        /\ Found = {n} /\ obj.cached.ext \in {0, n}
        /\ End([obj.cached EXCEPT !.ext = n, !.failing = FALSE, !.sync = "True",
                                  !.verdict = VerdictOf(counterparts[n]),
                                  !.extPhase = ExternalPhaseOf(counterparts[n])],
               counterparts[n] \notin Verdicts)
        /\ Quiet

-----------------------------------------------------------------------------
(* reconcileDelete *)

Discarded == Reconcilable /\ obj.cached.deleting /\ obj.cached.finalizer

Forget(p) == [p EXCEPT !.finalizer = FALSE]

\* Nothing is known of a counterpart.
ReconcileForget ==
    /\ Discarded /\ obj.cached.ext = 0
    /\ End(Forget(obj.cached), FALSE)
    /\ Quiet

ReconcileDeleteNoAgent ==
    /\ Discarded /\ obj.cached.ext # 0 /\ ~agent.exists
    /\ End([obj.cached EXCEPT !.failing = TRUE], TRUE)
    /\ Quiet

\* "wait 60 seconds for the agent to be ready", then "wait for forced deletion":
\* neither wait asks for a requeue.
ReconcileDeleteWaits ==
    /\ Discarded /\ obj.cached.ext # 0 /\ agent.exists /\ ~agent.healthy
    /\ ~aged \/ ~agent.deleting
    /\ End(Failing(obj.cached), FALSE)
    /\ parked' = TRUE
    /\ UNCHANGED <<surroundings, created, torn, forced>>

ReconcileAbandon ==
    /\ Discarded /\ obj.cached.ext # 0 /\ agent.exists /\ ~agent.healthy
    /\ aged /\ agent.deleting
    /\ End(Forget(obj.cached), FALSE)
    /\ forced' = TRUE
    /\ UNCHANGED <<surroundings, created, torn, parked>>

Deletes == Discarded /\ obj.cached.ext # 0 /\ Reachable

Synced(p) == [p EXCEPT !.failing = FALSE, !.sync = "True"]

\* The counterpart is told to go, or is on its way; the finalizer waits for that.
ReconcileDeleteCounterpart_Forgets ==
    /\ Deletes /\ obj.cached.ext \in Found
    /\ counterparts' = [counterparts EXCEPT ![obj.cached.ext] = "deleting"]
    /\ End(Forget(Synced(obj.cached)), TRUE)
    /\ UNCHANGED <<agent, paused, aged, observers>>
ReconcileDeleteCounterpart_NoRequeue ==
    /\ Deletes /\ obj.cached.ext \in Found
    /\ counterparts' = [counterparts EXCEPT ![obj.cached.ext] = "deleting"]
    /\ End(Synced(obj.cached), FALSE)
    /\ UNCHANGED <<agent, paused, aged, observers>>
ReconcileDeleteCounterpart ==
    /\ Deletes /\ obj.cached.ext \in Found
    /\ counterparts' = [counterparts EXCEPT ![obj.cached.ext] = "deleting"]
    /\ End(Synced(obj.cached), TRUE)
    /\ UNCHANGED <<agent, paused, aged, observers>>

ReconcileDeleted ==
    /\ Deletes /\ obj.cached.ext \notin Found
    /\ End([Forget(obj.cached) EXCEPT !.failing = FALSE], FALSE)
    /\ Quiet

\* GetClientSet, Get or Delete fails.
ReconcileDeleteFails ==
    /\ Deletes
    /\ EndFaulty(TRUE, reconcilePhase(Failing(obj.cached)))
    /\ Quiet

Reconcile ==
    \/ ReconcileNotFound
    \/ ReconcilePaused
    \/ ReconcileAddFinalizer
    \/ ReconcileTerminal
    \/ ReconcileNoAgent
    \/ ReconcileAgentPaused
    \/ ReconcileWaitForAgent
    \/ ReconcileSyncFails
    \/ ReconcileCreate
    \/ ReconcileCreateFails
    \/ ReconcileLost
    \/ ReconcileSync
    \/ ReconcileForget
    \/ ReconcileDeleteNoAgent
    \/ ReconcileDeleteWaits
    \/ ReconcileAbandon
    \/ ReconcileDeleteCounterpart
    \/ ReconcileDeleted
    \/ ReconcileDeleteFails

-----------------------------------------------------------------------------
(* The deferred patch *)

Patch ==
    /\ PatchApplied(Calls)
    /\ Quiet

PatchPartly ==
    \E done \in SUBSET DOMAIN Calls \ {DOMAIN Calls} :
        /\ PatchFails(Calls, done)
        /\ torn' = (torn \/ /\ "conditions" \in done /\ "status" \notin done
                            /\ work.new.verdict # work.old.verdict)
        /\ UNCHANGED <<surroundings, created, parked, forced>>

-----------------------------------------------------------------------------
(* The surroundings *)

ObserveEvent == DeliverEvent /\ Quiet

DeletePlaybook == RequestDelete /\ Quiet

\* The counterpart's verdict; its deletion is complete.
CounterpartFinishes ==
    \E n \in Names, v \in Verdicts :
        /\ counterparts[n] = "active"
        /\ counterparts' = [counterparts EXCEPT ![n] = v]
        /\ UNCHANGED <<queue, agent, paused, aged, observers>>

CounterpartGoes ==
    \E n \in Names :
        /\ counterparts[n] = "deleting"
        /\ counterparts' = [counterparts EXCEPT ![n] = "absent"]
        /\ UNCHANGED <<queue, agent, paused, aged, observers>>

\* The agent is installed anew, or somebody removes the object there.
CounterpartLost ==
    \E n \in Found :
        /\ Change(FALSE)
        /\ counterparts' = [counterparts EXCEPT ![n] = "absent"]
        /\ UNCHANGED <<agent, paused, aged, observers>>

\* KubeforceAgentToPlaybook brings the key back on every event of the agent.
AgentChanges ==
    /\ Change(TRUE)
    /\ agent' \in KubeforceAgent \ {agent}
    /\ agent'.exists => agent.exists /\ (agent.deleting => agent'.deleting)
    /\ parked' = (parked /\ ~obj.cached.exists)
    /\ UNCHANGED <<paused, aged, counterparts, created, torn, forced>>

\* ClusterUnpaused, and every event of the agent: only pausing the Cluster wakes
\* nobody.
PauseChanges ==
    \E p \in {"none", "cluster", "agent"} :
        /\ p # paused /\ "none" \in {p, paused}
        /\ Change(p # "cluster")
        /\ paused' = p
        /\ UNCHANGED <<agent, aged, counterparts, observers>>

MinutePasses ==
    /\ obj.stored.deleting /\ ~aged
    /\ aged' = TRUE
    /\ UNCHANGED <<queue, agent, paused, counterparts, observers>>

ManagerRestarts ==
    /\ Restart
    /\ parked' = FALSE
    /\ UNCHANGED <<surroundings, created, torn, forced>>

Init ==
    /\ QueueInit(NewPlaybook)
    /\ agent = [exists |-> TRUE, deleting |-> FALSE, healthy |-> TRUE]
    /\ paused = "none"
    /\ aged = FALSE
    /\ counterparts = [n \in Names |-> "absent"]
    /\ created = 0
    /\ torn = FALSE
    /\ parked = FALSE
    /\ forced = FALSE

Next ==
    \/ Reconcile
    \/ Patch
    \/ ObserveEvent
    \/ CounterpartFinishes
    \/ CounterpartGoes
    \/ MinutePasses
    \/ PatchPartly
    \/ DeletePlaybook
    \/ CounterpartLost
    \/ AgentChanges
    \/ PauseChanges
    \/ ManagerRestarts

\* The workers of the controller; the watch, the agent and the clock.
Controller == Patch \/ (dirty /\ ~work.busy /\ Reconcile)
Environment == ObserveEvent \/ CounterpartFinishes \/ CounterpartGoes \/ MinutePasses

Fairness == WF_vars(Controller) /\ WF_vars(Environment)

Spec == Init /\ [][Next]_vars /\ Fairness

-----------------------------------------------------------------------------
(* Properties *)

TypeOK ==
    /\ QueueTypeOK(Playbook)
    /\ agent \in KubeforceAgent
    /\ counterparts \in [Names -> Counterpart]
    /\ created \in {0} \cup Names

\* The agent executes a Playbook once: createExternalPlaybook is called again only
\* for a counterpart that was removed behind the controller's back before its name
\* was seen, however often a reconcile is repeated or reads an outdated copy.
ExecutedOnce == created > 1 => changes > 0 /\ faults + stale > 0

\* Deleting the Playbook leaves nothing on the agent: the finalizer goes only after
\* the counterpart has, unless its name was lost by a failed call, an outdated copy
\* had no name yet, or the deletion was forced.
NothingLeftBehind ==
    ~obj.stored.exists /\ Found # {} => forced \/ faults + stale > 0

\* The status tells the verdict; or nothing can be expected: the Playbook is deleted
\* or paused, its agent cannot be reached, the counterpart was lost, or the verdict
\* was stored and the status that goes with it was not.
Settled ==
    \/ obj.stored.deleting
    \/ ~Reachable \/ paused # "none"
    \/ obj.stored.extPhase \in Verdicts /\ obj.stored.verdict = obj.stored.extPhase
    \/ obj.stored.ext # 0 /\ obj.stored.ext \notin Found
    \/ torn

\* The Playbook is gone; or it is paused, its agent is gone or cannot be reached, or
\* it waits and only an event of the agent will wake the controller.
DeletionEnds ==
    ~obj.stored.exists \/ paused = "cluster" \/ ~Reachable \/ parked
=============================================================================
