-------------------------- MODULE KubeforceCluster --------------------------
(***************************************************************************)
(* The KubeforceCluster: the load balancer before the API servers of its   *)
(* control plane, the endpoint it gives to the Cluster, and its deletion   *)
(* (controllers/kubeforcecluster_controller.go).                           *)
(*                                                                         *)
(* A control plane machine counts from when it has its agent and address;  *)
(* its Playbooks and PlaybookDeployments carry the label of the cluster.   *)
(* The lists may be behind, as may the copy of the Cluster.  Cluster API   *)
(* takes the endpoint over into a Cluster that has none, and makes the     *)
(* kubeconfig for it: that is external.  Names and labels agree.           *)
(***************************************************************************)
EXTENDS Reconciler

CONSTANT Machines       \* the control plane KubeforceMachines

VARIABLES
    machines,       \* stored, cached
    playbooks,      \* the kinds of which the machines have objects: stored, cached
    cluster,        \* the owner Cluster's endpoint: stored, cached; its kubeconfig
    lb,             \* the load balancer's objects
    paused,         \* the Cluster is paused
    disabled,       \* Spec.Loadbalancer.Disabled
    torn            \* observer: the kubeconfig was not deleted with the endpoint

surroundings == <<machines, playbooks, cluster, lb, paused, disabled>>
vars == <<queue, surroundings, torn>>

-----------------------------------------------------------------------------
(* The objects *)

Condition == {"absent", "True", "False"}

\* "user" is an endpoint that the user has given to the Cluster, "lb" the service of the
\* load balancer.
Endpoints == {"none", "user", "lb"}

\* owned: the OwnerRef is there; own: ClusterFinalizer; finalizer: this or another.
Kubeforce ==
    [exists : BOOLEAN, deleting : BOOLEAN, finalizer : BOOLEAN, own : BOOLEAN,
     owned : BOOLEAN, available : Condition, ready : BOOLEAN, endpoint : {"none", "lb"},
     servers : SUBSET Machines]

NewKubeforce(f) ==
    [exists |-> TRUE, deleting |-> FALSE, finalizer |-> f, own |-> FALSE, owned |-> FALSE,
     available |-> "absent", ready |-> FALSE, endpoint |-> "none", servers |-> {}]

\* patchKubeforceCluster: the calls and what they write.
Calls ==
    [conditions |-> {"available"}, object |-> {"finalizer", "own", "endpoint"},
     status |-> {"ready", "servers"}]

MachineState == {"absent", "new", "addressed", "deleting"}

Kinds == {"Playbook", "PlaybookDeployment"}

Fresh ==
    /\ \A m \in Machines : machines[m].cached = machines[m].stored
    /\ playbooks.cached = playbooks.stored
    /\ cluster.cached = cluster.stored

\* getControlPlaneMachineList, and of these the ones with an address: refreshAPIServers
\* and getExternalAddresses.
Servers(copies) == {m \in Machines : copies[m] = "addressed"}
Seen == [m \in Machines |-> machines[m].cached]

End(v, again) == EndWith(Fresh, v, again)

Quiet == UNCHANGED <<surroundings, torn>>

-----------------------------------------------------------------------------
(* Reconcile *)

ReconcileNotFound ==
    /\ ~obj.cached.exists
    /\ EndEarly(FALSE)
    /\ Quiet

\* No owner yet, or paused.
ReconcileNotNow ==
    /\ obj.cached.exists
    /\ ~obj.cached.owned \/ paused
    /\ EndEarly(FALSE)
    /\ Quiet

Here == obj.cached.exists /\ obj.cached.owned /\ ~paused

\* The finalizer is added first, also to an object that is being deleted: the API server
\* refuses that, and the error is retried.
ReconcileAddFinalizer ==
    /\ Here /\ ~obj.cached.own
    /\ IF obj.cached.deleting THEN End(obj.cached, TRUE)
       ELSE End([obj.cached EXCEPT !.own = TRUE, !.finalizer = TRUE], FALSE)
    /\ Quiet

Wanted == Here /\ obj.cached.own /\ ~obj.cached.deleting

ReconcileDisabled ==
    /\ Wanted /\ disabled
    /\ End([obj.cached EXCEPT !.ready = TRUE, !.available = "True"], FALSE)
    /\ Quiet

-----------------------------------------------------------------------------
(* reconcileLoadbalancer *)

Balanced == [config |-> Servers(Seen), deployment |-> TRUE, service |-> TRUE]

\* reconcileLBConfigMap, reconcileLBDeployment, reconcileLBService: what is there after
\* the first of them, and so on.
LBSteps ==
    <<[lb EXCEPT !.config = Servers(Seen)],
      [lb EXCEPT !.config = Servers(Seen), !.deployment = TRUE],
      Balanced>>

Available ==
    [obj.cached EXCEPT !.servers = Servers(Seen), !.ready = TRUE, !.available = "True",
                       !.endpoint = "lb"]

\* reconcileControlPlaneEndpoint: the Cluster has no endpoint, or this one.
ReconcileBalance ==
    /\ Wanted /\ ~disabled /\ cluster.cached # "user"
    /\ lb' = Balanced
    /\ End(Available, FALSE)
    /\ UNCHANGED <<machines, playbooks, cluster, paused, disabled, torn>>

\* It has another one.  If the endpoint is new to the object, that is patched at once (the
\* model leaves the write to the deferred patch) and read back from the answer, without
\* the API servers that were only set in memory.  The Cluster's endpoint is cleared and
\* the kubeconfig deleted.
Replaced ==
    IF obj.cached.endpoint = "lb" THEN Available
    ELSE [Available EXCEPT !.servers = obj.cached.servers]

ReconcileReplaceEndpoint ==
    /\ Wanted /\ ~disabled /\ cluster.cached = "user"
    /\ lb' = Balanced
    /\ cluster' = [cluster EXCEPT !.stored = "none", !.kubeconfig = "none"]
    /\ End(Replaced, FALSE)
    /\ UNCHANGED <<machines, playbooks, paused, disabled, torn>>

Unavailable == [obj.cached EXCEPT !.available = "False"]

\* The list of the machines, or a call for one of the load balancer's objects, fails.
ReconcileLoadbalancerFails ==
    /\ Wanted /\ ~disabled
    /\ \/ /\ lb' = lb
          /\ EndFaulty(Fresh, Unavailable)
       \/ /\ lb' \in {lb} \cup {LBSteps[i] : i \in DOMAIN LBSteps}
          /\ EndFaulty(Fresh, [Unavailable EXCEPT !.servers = Servers(Seen)])
    /\ UNCHANGED <<machines, playbooks, cluster, paused, disabled, torn>>

\* The object's own patch, that of the Cluster, or the deletion of the kubeconfig fails:
\* the endpoint is in the object, and the deferred patch stores it.  After the Cluster's
\* endpoint is cleared no reconcile comes to the kubeconfig again.
ReconcileEndpointFails ==
    /\ Wanted /\ ~disabled /\ cluster.cached = "user"
    /\ lb' = Balanced
    /\ \/ /\ EndFaulty(Fresh, [Unavailable EXCEPT !.servers = Servers(Seen), !.endpoint = "lb"])
          /\ UNCHANGED <<cluster, torn>>
       \/ /\ EndFaulty(Fresh, [Unavailable EXCEPT !.servers = Replaced.servers, !.endpoint = "lb"])
          /\ \/ UNCHANGED <<cluster, torn>>
             \/ cluster' = [cluster EXCEPT !.stored = "none"] /\ torn' = TRUE
    /\ UNCHANGED <<machines, playbooks, paused, disabled>>

-----------------------------------------------------------------------------
(* reconcileDelete *)

Discarded == Here /\ obj.cached.own /\ obj.cached.deleting

\* listDescendants: the machines, the Playbooks and the PlaybookDeployments.
Descendants == {m \in Machines : machines[m].cached # "absent"} \cup playbooks.cached

\* The requeue is after 5 seconds.
ReconcileDeleteWaits ==
    /\ Discarded /\ Descendants # {}
    /\ End(Unavailable, TRUE)
    /\ Quiet

\* Somebody else's finalizer may be left.
ReconcileFinalize ==
    \E other \in BOOLEAN :
        /\ Discarded /\ Descendants = {}
        /\ End([Unavailable EXCEPT !.own = FALSE, !.finalizer = other], FALSE)
        /\ Quiet

ReconcileDeleteFails ==
    /\ Discarded
    /\ EndFaulty(Fresh, Unavailable)
    /\ Quiet

Reconcile ==
    \/ ReconcileNotFound
    \/ ReconcileNotNow
    \/ ReconcileAddFinalizer
    \/ ReconcileDisabled
    \/ ReconcileBalance
    \/ ReconcileReplaceEndpoint
    \/ ReconcileLoadbalancerFails
    \/ ReconcileEndpointFails
    \/ ReconcileDeleteWaits
    \/ ReconcileFinalize
    \/ ReconcileDeleteFails

Patch ==
    /\ PatchApplied(Calls)
    /\ Quiet

PatchPartly ==
    \E done \in SUBSET DOMAIN Calls \ {DOMAIN Calls} :
        /\ PatchFails(Calls, done)
        /\ Quiet

-----------------------------------------------------------------------------
(* The surroundings *)

ObserveEvent == DeliverEvent /\ Quiet

Adopt ==
    /\ obj.stored.exists /\ ~obj.stored.deleting /\ ~obj.stored.owned
    /\ StoreObject([obj.stored EXCEPT !.owned = TRUE])
    /\ UNCHANGED <<work, faults, stale, changes>> /\ Quiet

\* KubeforceMachineToKubeforceCluster
ObserveMachine ==
    \E m \in Machines :
        /\ machines[m].cached # machines[m].stored
        /\ machines' = [machines EXCEPT ![m].cached = machines[m].stored]
        /\ dirty' = (dirty \/ obj.cached.exists)
        /\ UNCHANGED <<obj, work, faults, stale, changes, playbooks, cluster, lb, paused,
                       disabled, torn>>

\* A Cluster that is not being unpaused brings no key.
ObserveCluster ==
    /\ cluster.cached # cluster.stored
    /\ cluster' = [cluster EXCEPT !.cached = cluster.stored]
    /\ UNCHANGED <<queue, machines, playbooks, lb, paused, disabled, torn>>

\* Cluster API takes the endpoint over from a ready KubeforceCluster and makes the
\* kubeconfig.
TakeEndpoint ==
    /\ obj.stored.exists
    /\ \/ /\ cluster.stored = "none" /\ obj.stored.ready /\ obj.stored.endpoint = "lb"
          /\ cluster' = [cluster EXCEPT !.stored = "lb"]
       \/ /\ cluster.stored # "none" /\ cluster.kubeconfig = "none"
          /\ cluster' = [cluster EXCEPT !.kubeconfig = cluster.stored]
    /\ UNCHANGED <<queue, machines, playbooks, lb, paused, disabled, torn>>

\* A machine is created, gets its address, is deleted.
MachineComes ==
    \E m \in Machines :
        /\ machines[m].stored = "absent" /\ machines[m].cached = "absent"
        /\ ~obj.stored.deleting /\ obj.stored.ready
        /\ Change(FALSE)
        /\ machines' = [machines EXCEPT ![m].stored = "new"]
        /\ UNCHANGED <<playbooks, cluster, lb, paused, disabled, torn>>

MachineAddressed ==
    \E m \in Machines :
        /\ machines[m].stored = "new"
        /\ machines' = [machines EXCEPT ![m].stored = "addressed"]
        /\ UNCHANGED <<queue, playbooks, cluster, lb, paused, disabled, torn>>

MachineDeleted ==
    \E m \in Machines :
        /\ machines[m].stored \in {"new", "addressed"}
        /\ \/ obj.stored.deleting /\ UNCHANGED queue
           \/ ~obj.stored.deleting /\ Change(FALSE)
        /\ machines' = [machines EXCEPT ![m].stored = "deleting"]
        /\ UNCHANGED <<playbooks, cluster, lb, paused, disabled, torn>>

MachineGoes ==
    \E m \in Machines :
        /\ machines[m].stored = "deleting"
        /\ machines' = [machines EXCEPT ![m].stored = "absent"]
        /\ UNCHANGED <<queue, playbooks, cluster, lb, paused, disabled, torn>>

\* The machine's controller creates and deletes Playbooks and PlaybookDeployments, or they
\* go with their owner.  They are not watched here.
PlaybookComes ==
    \E k \in Kinds \ playbooks.stored :
        /\ \E m \in Machines : machines[m].stored # "absent"
        /\ Change(FALSE)
        /\ playbooks' = [playbooks EXCEPT !.stored = @ \cup {k}]
        /\ UNCHANGED <<machines, cluster, lb, paused, disabled, torn>>

PlaybookGoes ==
    \E k \in playbooks.stored :
        /\ \A m \in Machines : machines[m].stored \in {"deleting", "absent"}
        /\ playbooks' = [playbooks EXCEPT !.stored = @ \ {k}]
        /\ UNCHANGED <<queue, machines, cluster, lb, paused, disabled, torn>>

ObservePlaybooks ==
    /\ playbooks.cached # playbooks.stored
    /\ playbooks' = [playbooks EXCEPT !.cached = playbooks.stored]
    /\ UNCHANGED <<queue, machines, cluster, lb, paused, disabled, torn>>

\* The user switches the load balancer on.
Enable ==
    /\ disabled /\ Change(TRUE)
    /\ disabled' = FALSE
    /\ UNCHANGED <<machines, playbooks, cluster, lb, paused, torn>>

\* Only the end of a pause brings the key.
Pause ==
    /\ Change(paused)
    /\ paused' = ~paused
    /\ UNCHANGED <<machines, playbooks, cluster, lb, disabled, torn>>

Delete == RequestDelete /\ Quiet

\* The finalizer of somebody else is given up.
OtherFinalizerGoes ==
    /\ obj.stored.exists /\ obj.stored.deleting /\ ~obj.stored.own
    /\ StoreObject([obj.stored EXCEPT !.finalizer = FALSE, !.exists = FALSE])
    /\ UNCHANGED <<work, faults, stale, changes>> /\ Quiet

ManagerRestarts ==
    /\ Restart
    /\ machines' = [m \in Machines |-> [machines[m] EXCEPT !.cached = machines[m].stored]]
    /\ playbooks' = [playbooks EXCEPT !.cached = playbooks.stored]
    /\ cluster' = [cluster EXCEPT !.cached = cluster.stored]
    /\ UNCHANGED <<lb, paused, disabled, torn>>

Init ==
    /\ \E f \in BOOLEAN : QueueInit(NewKubeforce(f))
    /\ machines = [m \in Machines |-> [stored |-> "absent", cached |-> "absent"]]
    /\ playbooks = [stored |-> {}, cached |-> {}]
    /\ \E e \in {"none", "user"} : cluster = [stored |-> e, cached |-> e, kubeconfig |-> e]
    /\ lb = [config |-> {}, deployment |-> FALSE, service |-> FALSE]
    /\ paused = FALSE
    /\ disabled \in BOOLEAN
    /\ torn = FALSE

Next ==
    \/ Reconcile
    \/ Patch
    \/ PatchPartly
    \/ ObserveEvent
    \/ Adopt
    \/ ObserveMachine
    \/ ObserveCluster
    \/ TakeEndpoint
    \/ MachineComes
    \/ MachineAddressed
    \/ MachineDeleted
    \/ MachineGoes
    \/ PlaybookComes
    \/ PlaybookGoes
    \/ ObservePlaybooks
    \/ Enable
    \/ Pause
    \/ Delete
    \/ OtherFinalizerGoes
    \/ ManagerRestarts

\* The workers of the controller; the watches, Cluster API and the machines' controller.
Controller == Patch \/ (dirty /\ ~work.busy /\ Reconcile)
Environment ==
    \/ ObserveEvent \/ Adopt \/ ObserveMachine \/ ObserveCluster \/ TakeEndpoint
    \/ MachineAddressed \/ MachineGoes \/ PlaybookGoes \/ ObservePlaybooks
    \/ OtherFinalizerGoes
    \/ (obj.stored.deleting /\ MachineDeleted)

Fairness == WF_vars(Controller) /\ WF_vars(Environment)

Spec == Init /\ [][Next]_vars /\ Fairness

-----------------------------------------------------------------------------
(* Properties *)

TypeOK ==
    /\ QueueTypeOK(Kubeforce)
    /\ machines \in [Machines -> [stored : MachineState, cached : MachineState]]
    /\ playbooks \in [stored : SUBSET Kinds, cached : SUBSET Kinds]
    /\ cluster \in [stored : Endpoints, cached : Endpoints, kubeconfig : Endpoints]
    /\ lb \in [config : SUBSET Machines, deployment : BOOLEAN, service : BOOLEAN]

Stored == [m \in Machines |-> machines[m].stored]

\* The load balancer has the API servers of the control plane, no other, the status names
\* them, and the Cluster and its kubeconfig have the load balancer's endpoint; unless
\* the kubeconfig of the old one was left.
Settled ==
    \/ ~obj.stored.exists \/ obj.stored.deleting \/ paused
    \/ disabled /\ obj.stored.ready
    \/ /\ obj.stored.ready /\ obj.stored.available = "True"
       /\ lb = [config |-> Servers(Stored), deployment |-> TRUE, service |-> TRUE]
       /\ obj.stored.servers = Servers(Stored)
       /\ cluster.stored = "lb"
       /\ cluster.kubeconfig = "lb" \/ torn

\* The object is gone; or it is paused, or has no owner yet.
DeletionEnds == ~obj.stored.exists \/ paused \/ ~obj.stored.owned

\* The object goes after the machines of its cluster and all their Playbooks, which could
\* not be cleaned up without it.
GoesLast ==
    stale = 0 /\ ~obj.stored.exists =>
        /\ \A m \in Machines : machines[m].stored = "absent"
        /\ playbooks.stored = {}
=============================================================================
