--------------------------- MODULE MachinePipeline ---------------------------
(***************************************************************************)
(* From a KubeforceMachine that has its agent to a node of the cluster,    *)
(* and back: reconcileNormal, reconcileDelete                              *)
(* (controllers/kubeforcemachine_controller.go), the template reconciler   *)
(* (controllers/playbook/reconciler.go) and the kubeadm configuration      *)
(* (controllers/kubeadm).  How a machine gets and returns its agent is     *)
(* MachineAgentClaim's subject; here its AgentRef is set, and every        *)
(* reconcile asks again whether that agent is ready.                       *)
(*                                                                         *)
(* The machine's Playbooks and PlaybookDeployments are found by label in   *)
(* the informer's list, which may be behind.  Of each the model keeps      *)
(* whether it is running, has a verdict that the provider's controllers    *)
(* have synchronised, or is being deleted.                                 *)
(*                                                                         *)
(* The immediate patch of the template reconciler writes nothing that the  *)
(* deferred patch of Reconcile does not write again; they are one here.    *)
(***************************************************************************)
EXTENDS Reconciler, TemplateReferences

CONSTANT References     \* Spec.PlaybookTemplates.References: role -> template

VARIABLES
    children,       \* the Playbooks and PlaybookDeployments of every role
    given,          \* what Cluster API has provided so far
    agent,          \* the KubeforceAgent
    aged,           \* 60 seconds have passed since the deletion
    parked          \* observer: the last reconcile has ended in the clean-up's wait

surroundings == <<children, given, agent, aged>>
vars == <<queue, surroundings, parked>>

-----------------------------------------------------------------------------
(* The objects *)

\* "boot" is the role of the Playbook made from the cloud-init data.
Roles == DOMAIN References \cup {"boot"}

OfType(t) == {r \in DOMAIN References : References[r].type = t}

Condition == {"absent", "True", "False"}

\* provisioned (AgentProvisioned), init, data, boot, cleanup are conditions; providerID is
\* Spec.ProviderID.
Machine ==
    [exists : BOOLEAN, deleting : BOOLEAN, finalizer : BOOLEAN,
     provisioned : Condition, init : Condition, data : Condition, boot : Condition,
     cleanup : Condition, providerID : BOOLEAN, ready : BOOLEAN]

NewMachine ==
    [exists |-> TRUE, deleting |-> FALSE, finalizer |-> FALSE,
     provisioned |-> "absent", init |-> "absent", data |-> "absent", boot |-> "absent",
     cleanup |-> "absent", providerID |-> FALSE, ready |-> FALSE]

\* patchKubeforceMachine: the calls and what they write.
Calls ==
    [conditions |-> {"provisioned", "init", "data", "boot", "cleanup"},
     object |-> {"finalizer", "providerID"}, status |-> {"ready"}]

ChildStates == {"absent", "running", "Succeeded", "Failed", "deleting"}

\* Two objects of a role at most; updated says that the PlaybookDeployment has the
\* variables as they would be rendered now, and done that the object has succeeded since it
\* was created (an observer).
Slots == Roles \X {1, 2}

Child == [stored : ChildStates, cached : ChildStates, updated : BOOLEAN, done : BOOLEAN]

NoChild == [stored |-> "absent", cached |-> "absent", updated |-> TRUE, done |-> FALSE]

\* What Cluster API, the bootstrap provider and the new node provide, in this order:
\* the infrastructure, the owner Machine, the data secret, the Node.
Provisions == <<"infrastructure", "owner", "data", "node">>

\* The list by CreateLabels, without the ones that are gone.
Listed_(r) == {s \in Slots : s[1] = r /\ children[s].cached # "absent"}
Stored_(r) == {s \in Slots : s[1] = r /\ children[s].stored # "absent"}

Fresh == \A s \in Slots : children[s].cached = children[s].stored

\* There is one, Synced is True and ExternalPhase is "Succeeded".
Ready_Exists(r) == Cardinality(Listed_(r)) = 1
Ready(r) ==
    /\ Cardinality(Listed_(r)) = 1
    /\ \A s \in Listed_(r) : children[s].cached = "Succeeded"

Outdated(r) ==
    /\ r # "boot" /\ References[r].kind = "PlaybookDeploymentTemplate"
    /\ \E s \in Listed_(r) : ~children[s].updated

-----------------------------------------------------------------------------
(* TemplateReconciler *)

\* getReferences sorts by priority, descending, what it has collected from a map:
\* among equal priorities the order is arbitrary.  r is the first that is not ready.
FirstUnready(t, r) ==
    /\ r \in OfType(t)
    /\ ~Ready(r) \/ Outdated(r)
    /\ \A q \in OfType(t) : References[q].priority > References[r].priority =>
            Ready(q) /\ ~Outdated(q)

AllReady(t) == \A r \in OfType(t) : Ready(r) /\ ~Outdated(r)

Free(r) == {s \in Slots : s[1] = r /\ children[s].stored = "absent"}

CreateChild(r) ==
    \E s \in Free(r) :
        /\ s[2] = 2 => <<r, 1>> \notin Free(r)
        /\ children' = [children EXCEPT ![s] = [@ EXCEPT !.stored = "running", !.updated = TRUE,
                                                      !.done = FALSE]]

\* updatePlaybookDeployment: the verdict of before stays until the provider's
\* controller has seen the update.
UpdateChild(r) ==
    \E s \in Listed_(r) : \E verdict \in {children[s].stored, "running"} :
        children' = [children EXCEPT ![s].updated = TRUE,
                        ![s].stored = IF @ \in {"Succeeded", "Failed"} THEN verdict ELSE @]

\* reconcileReference for the first role that is not ready: more than one object is
\* an error, none is created, an outdated one is patched (its event comes back), others
\* are waited for.  v is the machine with the condition False.
ReconcileReference(t, v) ==
    \E r \in DOMAIN References :
        /\ FirstUnready(t, r)
        /\ \/ /\ Cardinality(Listed_(r)) > 1
              /\ UNCHANGED children
           \/ Listed_(r) = {} /\ CreateChild(r)
           \/ Cardinality(Listed_(r)) = 1 /\ Outdated(r) /\ UpdateChild(r)
           \/ Cardinality(Listed_(r)) = 1 /\ ~Outdated(r) /\ UNCHANGED children
        /\ EndWith(Fresh, v, Cardinality(Listed_(r)) > 1 \/ Outdated(r))

-----------------------------------------------------------------------------
(* Reconcile and reconcileNormal *)

Quiet == UNCHANGED <<surroundings, parked>>

\* What a reconcile that writes nothing but the machine, or its Playbooks, leaves alone.
NoChildWritten == UNCHANGED surroundings /\ parked' = FALSE
ChildrenWritten == UNCHANGED <<given, agent, aged>> /\ parked' = FALSE

End(m, again) == EndWith(Fresh, m, again)

ReconcileNotFound ==
    /\ ~obj.cached.exists
    /\ EndEarly(FALSE) /\ NoChildWritten

ReconcileAddFinalizer ==
    /\ obj.cached.exists /\ ~obj.cached.deleting /\ ~obj.cached.finalizer
    /\ End([obj.cached EXCEPT !.finalizer = TRUE], FALSE)
    /\ NoChildWritten

Wanted == obj.cached.exists /\ ~obj.cached.deleting /\ obj.cached.finalizer

\* The infrastructure of the cluster is not ready, or GetConfig finds no owner.
ReconcileWaitForCluster ==
    /\ Wanted /\ ~({"infrastructure", "owner"} \subseteq given)
    /\ End(IF "infrastructure" \in given THEN obj.cached
           ELSE [obj.cached EXCEPT !.init = "False"], FALSE)
    /\ NoChildWritten

Referring == Wanted /\ {"infrastructure", "owner"} \subseteq given

\* reconcileAgentRef with an AgentRef that is set: the agent is not ready, and is asked
\* again after 10 seconds.
ReconcileAgentWaits ==
    /\ Referring /\ ~agent.ready
    /\ End([obj.cached EXCEPT !.provisioned = "False"], TRUE)
    /\ NoChildWritten

Installing == Referring /\ agent.ready

Provisioned == [obj.cached EXCEPT !.provisioned = "True"]

ReconcileInstall ==
    /\ Installing /\ ~AllReady("install")
    /\ ReconcileReference("install", [Provisioned EXCEPT !.init = "False"])
    /\ ChildrenWritten

Installed == [Provisioned EXCEPT !.init = "True"]

\* IsDataAvailable: waits for the control plane or for the bootstrap provider.
ReconcileWaitForData ==
    /\ Installing /\ AllReady("install") /\ "data" \notin given
    /\ End([Installed EXCEPT !.data = "False"], FALSE)
    /\ NoChildWritten

Bootstrapping == Installing /\ AllReady("install") /\ "data" \in given

\* reconcileCloudInitPlaybook: several, none, one that has not succeeded.
ReconcileBoot ==
    /\ Bootstrapping /\ ~Ready("boot")
    /\ \/ Listed_("boot") = {} /\ CreateChild("boot")
       \/ Listed_("boot") # {} /\ UNCHANGED children
    /\ End([Installed EXCEPT !.data = "True", !.boot = "False"],
           Cardinality(Listed_("boot")) > 1)
    /\ ChildrenWritten

Booted == Bootstrapping /\ Ready("boot")

\* reconcileNodeProviderID: the Node is not there yet, or its client fails.
ReconcileNoNode ==
    /\ Booted /\ ~obj.cached.providerID /\ "node" \notin given
    /\ End([Installed EXCEPT !.data = "True", !.boot = "True"], TRUE)
    /\ NoChildWritten

ReconcileReady ==
    /\ Booted /\ (obj.cached.providerID \/ "node" \in given)
    /\ End([Installed EXCEPT !.data = "True", !.boot = "True", !.providerID = TRUE,
                             !.ready = TRUE], FALSE)
    /\ NoChildWritten

\* A call fails; so that of reconcileAgentRef for the agent, or its copy has not got the
\* machine's label yet: that is an error as well.
ReconcileFails ==
    /\ Wanted
    /\ \E v \in {obj.cached, Provisioned, [obj.cached EXCEPT !.provisioned = "False"]} :
            EndFaulty(Fresh, v)
    /\ NoChildWritten

-----------------------------------------------------------------------------
(* reconcileDelete *)

Discarded == obj.cached.exists /\ obj.cached.deleting /\ obj.cached.finalizer

\* The objects of these roles that the lists show.
Shown(roles) == {s \in Slots : s[1] \in roles /\ children[s].cached # "absent"}

\* reconcileDeletePlaybooks, reconcileDeletePlaybookDeployments: the Delete of one may
\* fail after others have been deleted.  Shown or not, what is gone stays gone.
DeleteChildren(slots) ==
    children' = [s \in Slots |->
        IF s \in slots /\ children[s].stored # "absent"
        THEN [children[s] EXCEPT !.stored = "deleting"] ELSE children[s]]

InstallRoles == OfType("install") \cup {"boot"}

\* Playbooks first, PlaybookDeployments when those are gone.
IsPlaybook(r) == r = "boot" \/ References[r].kind = "PlaybookTemplate"

Deletable(roles) ==
    LET pbs == Shown({r \in roles : IsPlaybook(r)})
    IN  IF pbs # {} THEN pbs ELSE Shown(roles)

ReconcileDeleteInstalled ==
    /\ Discarded /\ Shown(InstallRoles) # {}
    /\ DeleteChildren(Deletable(InstallRoles))
    /\ End(obj.cached, FALSE)
    /\ ChildrenWritten

ReconcileDeleteFails ==
    /\ Discarded
    /\ \E done \in SUBSET Deletable(InstallRoles) : DeleteChildren(done)
    /\ EndFaulty(Fresh, obj.cached)
    /\ ChildrenWritten

Cleaning == Discarded /\ Shown(InstallRoles) = {} /\ obj.cached.cleanup # "True"

\* reconcileCleaner: neither of its waits asks for a requeue.
ReconcileCleanerWaits ==
    /\ Cleaning /\ ~agent.healthy /\ (~aged \/ ~agent.deleting)
    /\ End([obj.cached EXCEPT !.cleanup = "False"], FALSE)
    /\ parked' = TRUE
    /\ UNCHANGED surroundings

ReconcileClean ==
    /\ Cleaning /\ agent.healthy /\ ~AllReady("delete")
    /\ ReconcileReference("delete", [obj.cached EXCEPT !.cleanup = "False"])
    /\ ChildrenWritten

\* The clean-up is done, or the agent is given up; the rest of the reconcile deletes
\* what the lists still show.
CleanedUp ==
    \/ obj.cached.cleanup = "True" /\ Shown(InstallRoles) = {}
    \/ Cleaning /\ agent.healthy /\ AllReady("delete")
    \/ Cleaning /\ ~agent.healthy /\ aged /\ agent.deleting

ReconcileDeleteAll ==
    /\ Discarded /\ CleanedUp /\ Shown(Roles) # {}
    /\ DeleteChildren(Deletable(Roles))
    /\ End([obj.cached EXCEPT !.cleanup = "True"], FALSE)
    /\ ChildrenWritten

\* The label goes from the agent, then the finalizer.
ReconcileRelease ==
    /\ Discarded /\ CleanedUp /\ Shown(Roles) = {}
    /\ End([obj.cached EXCEPT !.cleanup = "True", !.finalizer = FALSE], FALSE)
    /\ NoChildWritten

Reconcile ==
    /\ dirty /\ ~work.busy
    /\ \/ ReconcileNotFound
       \/ ReconcileAddFinalizer
       \/ ReconcileWaitForCluster
       \/ ReconcileAgentWaits
       \/ ReconcileInstall
       \/ ReconcileWaitForData
       \/ ReconcileBoot
       \/ ReconcileNoNode
       \/ ReconcileReady
       \/ ReconcileFails
       \/ ReconcileDeleteInstalled
       \/ ReconcileDeleteFails
       \/ ReconcileCleanerWaits
       \/ ReconcileClean
       \/ ReconcileDeleteAll
       \/ ReconcileRelease

Patch ==
    /\ PatchApplied(Calls)
    /\ Quiet

PatchPartly ==
    \E done \in SUBSET DOMAIN Calls \ {DOMAIN Calls} :
        /\ PatchFails(Calls, done)
        /\ Quiet

-----------------------------------------------------------------------------
(* The surroundings *)

ObserveEvent == DeliverEvent /\ Quiet

DeleteMachine == RequestDelete /\ Quiet

\* An event of a Playbook or PlaybookDeployment: its owner is reconciled.
ObserveChild ==
    \E s \in Slots :
        /\ children[s].cached # children[s].stored
        /\ children' = [children EXCEPT ![s].cached = children[s].stored]
        /\ dirty' = (dirty \/ obj.cached.exists)
        /\ UNCHANGED <<obj, work, faults, stale, changes, given, agent, aged, parked>>

\* The provider's own controllers bring a child to its verdict, through a healthy agent, or
\* remove it; a copy is at most one of their writes behind.
ChildSucceeds ==
    \E s \in Slots :
        /\ children[s].stored = "running" /\ children[s].cached = "running"
        /\ agent.healthy
        /\ children' = [children EXCEPT ![s] = [@ EXCEPT !.stored = "Succeeded", !.done = TRUE]]
        /\ UNCHANGED <<queue, given, agent, aged, parked>>

ChildFails ==
    \E s \in Slots :
        /\ Change(FALSE)
        /\ children[s].stored = "running" /\ children[s].cached = "running"
        /\ agent.healthy
        /\ children' = [children EXCEPT ![s].stored = "Failed"]
        /\ UNCHANGED <<given, agent, aged, parked>>

ChildGoes ==
    \E s \in Slots :
        /\ children[s].stored = "deleting"
        /\ children' = [children EXCEPT ![s] = [@ EXCEPT !.stored = "absent", !.updated = TRUE,
                                                      !.done = FALSE]]
        /\ UNCHANGED <<queue, given, agent, aged, parked>>

\* The template or the variables (getAPIServerEndpoints: another control plane machine
\* has joined) are rendered differently from now on.
VariablesChange ==
    /\ Change(TRUE)
    /\ children' = [s \in Slots |-> [children[s] EXCEPT !.updated =
                        @ /\ (children[s].stored = "absent" \/ IsPlaybook(s[1]))]]
    /\ UNCHANGED <<given, agent, aged, parked>>

\* The owner, the Cluster and the Machine are watched; the Node is not.
Provide ==
    \E i \in DOMAIN Provisions :
        /\ Provisions[i] \notin given
        /\ \A j \in 1 .. i - 1 : Provisions[j] \in given
        /\ Provisions[i] = "node" => Ready("boot")
        /\ given' = given \cup {Provisions[i]}
        /\ dirty' = (dirty \/ (Provisions[i] # "node" /\ obj.cached.exists))
        /\ UNCHANGED <<obj, work, faults, stale, changes, children, agent, aged, parked>>

\* IsReady, IsHealthy and the DeletionTimestamp.
KubeforceAgent ==
    {a \in [ready : BOOLEAN, healthy : BOOLEAN, deleting : BOOLEAN] : a.ready => a.healthy}

\* Agents are not watched.
AgentChanges ==
    /\ Change(FALSE)
    /\ agent' \in KubeforceAgent \ {agent}
    /\ agent.deleting => agent'.deleting
    /\ UNCHANGED <<children, given, aged, parked>>

MinutePasses ==
    /\ obj.stored.deleting /\ ~aged
    /\ aged' = TRUE
    /\ UNCHANGED <<queue, children, given, agent, parked>>

ManagerRestarts ==
    /\ Restart
    /\ children' = [s \in Slots |-> [children[s] EXCEPT !.cached = children[s].stored]]
    /\ parked' = FALSE
    /\ UNCHANGED <<given, agent, aged>>

Init ==
    /\ QueueInit(NewMachine)
    /\ children = [s \in Slots |-> NoChild]
    /\ given = {}
    /\ agent = [ready |-> TRUE, healthy |-> TRUE, deleting |-> FALSE]
    /\ aged = FALSE
    /\ parked = FALSE

Next ==
    \/ Reconcile
    \/ Patch
    \/ PatchPartly
    \/ ObserveEvent
    \/ DeleteMachine
    \/ ObserveChild
    \/ ChildSucceeds
    \/ ChildFails
    \/ ChildGoes
    \/ VariablesChange
    \/ Provide
    \/ AgentChanges
    \/ MinutePasses
    \/ ManagerRestarts

\* The workers of the controller; the watches, the other controllers, which need the
\* agent to remove what is on its host, and the clock.
Controller == Patch \/ Reconcile
Environment ==
    \/ ObserveEvent \/ ObserveChild \/ ChildSucceeds \/ Provide \/ MinutePasses
    \/ (agent.healthy /\ ChildGoes)

Fairness == WF_vars(Controller) /\ WF_vars(Environment)

Spec == Init /\ [][Next]_vars /\ Fairness

-----------------------------------------------------------------------------
(* Properties *)

TypeOK ==
    /\ QueueTypeOK(Machine)
    /\ children \in [Slots -> Child]
    /\ \A r \in DOMAIN References : Admitted(References[r])

Alive(roles) == {s \in Slots : s[1] \in roles /\ children[s].stored # "absent"}

\* An object of the role is there and has succeeded.
Done(r) == \E s \in Alive({r}) : children[s].done

\* What runs on a host at the same time fits together: an object of a lower priority is
\* there only after those of the higher ones have succeeded, that which boots the node
\* only after the whole installation has, and the machine is ready only after that one;
\* the clean-up never runs beside an installation, and the machine does not go before its
\* Playbooks; whatever fails, unless a list was behind.
PipelineOrder ==
    stale = 0 =>
        /\ ~obj.stored.deleting =>
            /\ \A q, r \in OfType("install") :
                References[q].priority > References[r].priority /\ Alive({r}) # {} => Done(q)
            /\ Alive({"boot"}) # {} => \A r \in OfType("install") : Done(r)
            /\ obj.stored.ready => Done("boot")
        /\ Alive(OfType("delete")) # {} => Alive(InstallRoles) = {}
        /\ ~obj.stored.exists => Alive(Roles) = {}

Duplicated(roles) == \E r \in roles : Cardinality(Alive({r})) > 1
Failed(roles) == \E s \in Alive(roles) : children[s].stored = "Failed"

\* The machine is ready; or it is deleted, its agent is not ready, a Playbook has failed,
\* or there are two for one role.
Progressed ==
    \/ obj.stored.deleting \/ obj.stored.ready
    \/ ~agent.ready
    \/ Duplicated(Roles) \/ Failed(Roles)

\* The machine is gone; or it has something on the host of an agent that is not healthy; or
\* the clean-up waits, which nothing ends: a clean-up Playbook has failed or is there twice,
\* or reconcileCleaner has found the agent not healthy.
DeletionEnds ==
    \/ ~obj.stored.exists
    \/ ~agent.healthy /\ Alive(Roles) # {}
    \/ Duplicated(OfType("delete")) \/ Failed(OfType("delete"))
    \/ parked
=============================================================================
