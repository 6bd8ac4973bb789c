----------------------------- MODULE AgentGroup -----------------------------
(***************************************************************************)
(* A KubeforceAgentGroup keeps one KubeforceAgent for each of its          *)
(* addresses (controllers/kubeforceagentgroup_controller.go).  The agents  *)
(* are found in the informer's list by label and owner.  Of each the model *)
(* keeps what the group looks at: whether it runs and is healthy, whether  *)
(* its own controller has seen its last change, and whether it has the     *)
(* group's template.                                                       *)
(*                                                                         *)
(* Agents are removed with their group by the garbage collector, which     *)
(* holds the group until they are gone (FinalizerDeleteDependents).  It    *)
(* begins here when the controller has given up its own finalizer.         *)
(***************************************************************************)
EXTENDS Reconciler

CONSTANT Names          \* the keys of Spec.Addresses, and so the agents' names

VARIABLES
    agents          \* the agents of the group: stored, cached

vars == <<queue, agents>>

-----------------------------------------------------------------------------
(* The objects *)

\* desired: the keys of Spec.Addresses; template: its version; own:
\* AgentGroupFinalizer; finalizer: FinalizerDeleteDependents.
Group ==
    [exists : BOOLEAN, deleting : BOOLEAN, finalizer : BOOLEAN, own : BOOLEAN,
     desired : SUBSET Names, template : {1, 2}, replicas : Nat, readyReplicas : Nat,
     ready : BOOLEAN]

NewGroup(d) ==
    [exists |-> TRUE, deleting |-> FALSE, finalizer |-> FALSE, own |-> FALSE,
     desired |-> d, template |-> 1, replicas |-> 0, readyReplicas |-> 0, ready |-> FALSE]

\* patchKubeforceAgentGroup: the calls and what they write.
Calls ==
    [object |-> {"finalizer", "own"}, status |-> {"replicas", "readyReplicas", "ready"}]

\* runs: Running and healthy; seen: ObservedGeneration is Generation.
AgentState ==
    [there : BOOLEAN, runs : BOOLEAN, seen : BOOLEAN, deleting : BOOLEAN, template : {1, 2}]

NoAgent ==
    [there |-> FALSE, runs |-> FALSE, seen |-> FALSE, deleting |-> FALSE, template |-> 1]

\* desiredAgents
NewAgent(t) == [NoAgent EXCEPT !.there = TRUE, !.template = t]

Fresh == \A n \in Names : agents[n].cached = agents[n].stored

-----------------------------------------------------------------------------
(* reconcileNormal *)

\* agentsInGroup
InGroup == {n \in Names : agents[n].cached.there}

\* updateAgent: labels, SSH and the certificate template; a change of the spec, or the
\* deletion, raises the generation.
Updated(a, t) ==
    IF a.there /\ a.template # t THEN [a EXCEPT !.template = t, !.seen = FALSE] ELSE a

Deleted(a) ==
    IF a.there THEN [a EXCEPT !.deleting = TRUE, !.seen = FALSE] ELSE a

Adjusted(n) ==
    LET a == agents[n].stored
    IN  CASE n \notin obj.cached.desired -> IF n \in InGroup THEN Deleted(a) ELSE a
          [] n \in obj.cached.desired /\ n \in InGroup -> Updated(a, obj.cached.template)
          [] OTHER -> IF a.there THEN a ELSE NewAgent(obj.cached.template)

Adjust(ns) ==
    agents' = [n \in Names |-> IF n \in ns THEN [agents[n] EXCEPT !.stored = Adjusted(n)]
                               ELSE agents[n]]

\* An agent that the list does not show yet exists already: Create fails, and the
\* agents after it, in an arbitrary order, are left as they are.
Collides(n) == n \in obj.cached.desired \ InGroup /\ agents[n].stored.there

\* The status counts every agent of the list, wanted or not; the list is the one of the
\* beginning, or shows what has been done in between.
Ready(n, copies) ==
    copies[n].there /\ copies[n].runs /\ copies[n].seen

Counted(copies) ==
    LET count == Cardinality({n \in Names : Ready(n, copies)})
    IN  [obj.cached EXCEPT !.replicas = Cardinality(obj.cached.desired),
                           !.readyReplicas = count,
                           !.ready = (count = Cardinality(obj.cached.desired))]

Kept == obj.cached.exists /\ ~obj.cached.deleting /\ obj.cached.own /\ obj.cached.finalizer

ReconcileNormal ==
    /\ Kept
    /\ \A n \in Names : ~Collides(n)
    /\ Adjust(Names)
    /\ EndWith(Fresh, Counted([n \in Names |-> agents[n].cached]), FALSE)

ReconcileCollides ==
    \E ns \in SUBSET Names :
        /\ Kept
        /\ \E n \in Names \ ns : Collides(n)
        /\ \A n \in ns : ~Collides(n)
        /\ Adjust(ns)
        /\ EndWith(Fresh, obj.cached, TRUE)

\* One of the calls fails.
ReconcileFails ==
    \E ns \in SUBSET Names :
        /\ Kept
        /\ Adjust(ns)
        /\ EndFaulty(Fresh, obj.cached)

-----------------------------------------------------------------------------
(* Reconcile *)

ReconcileNotFound ==
    /\ ~obj.cached.exists
    /\ EndEarly(FALSE)
    /\ UNCHANGED agents

ReconcileAddFinalizers ==
    /\ obj.cached.exists /\ ~obj.cached.deleting /\ ~(obj.cached.own /\ obj.cached.finalizer)
    /\ EndWith(Fresh, [obj.cached EXCEPT !.own = TRUE, !.finalizer = TRUE], FALSE)
    /\ UNCHANGED agents

ReconcileDelete ==
    /\ obj.cached.exists /\ obj.cached.deleting
    /\ EndWith(Fresh, [obj.cached EXCEPT !.own = FALSE], FALSE)
    /\ UNCHANGED agents

Reconcile ==
    \/ ReconcileNotFound
    \/ ReconcileAddFinalizers
    \/ ReconcileDelete
    \/ ReconcileNormal
    \/ ReconcileCollides
    \/ ReconcileFails

Patch ==
    /\ PatchApplied(Calls)
    /\ UNCHANGED agents

PatchPartly ==
    \E done \in SUBSET DOMAIN Calls \ {DOMAIN Calls} :
        /\ PatchFails(Calls, done)
        /\ UNCHANGED agents

-----------------------------------------------------------------------------
(* The surroundings *)

ObserveEvent == DeliverEvent /\ UNCHANGED agents

\* An event of an agent: its group is reconciled.
ObserveAgent ==
    \E n \in Names :
        /\ agents[n].cached # agents[n].stored
        /\ agents' = [agents EXCEPT ![n].cached = agents[n].stored]
        /\ dirty' = (dirty \/ obj.cached.exists)
        /\ UNCHANGED <<obj, work, faults, stale, changes>>

\* The agent's controller: it observes a generation, gets the agent running, removes a
\* deleted one.
AgentRuns ==
    \E n \in Names :
        LET a == agents[n].stored IN
        /\ a.there /\ ~a.deleting /\ ~(a.runs /\ a.seen)
        /\ agents' = [agents EXCEPT ![n].stored = [a EXCEPT !.runs = TRUE, !.seen = TRUE]]
        /\ UNCHANGED queue

AgentGoes ==
    \E n \in Names :
        /\ agents[n].stored.there /\ agents[n].stored.deleting
        /\ agents' = [agents EXCEPT ![n].stored = NoAgent]
        /\ UNCHANGED queue

AgentFails ==
    \E n \in Names :
        /\ Change(FALSE)
        /\ agents[n].stored.runs
        /\ agents' = [agents EXCEPT ![n].stored.runs = FALSE]

\* Foreground deletion, by the garbage collector.
CollectAgent ==
    \E n \in Names :
        /\ agents[n].stored.there /\ ~agents[n].stored.deleting
        /\ obj.stored.deleting /\ (~obj.stored.own \/ ~obj.stored.exists)
        /\ agents' = [agents EXCEPT ![n].stored = Deleted(@)]
        /\ UNCHANGED queue

CollectGroup ==
    /\ obj.stored.exists /\ obj.stored.deleting /\ ~obj.stored.own
    /\ \A n \in Names : ~agents[n].stored.there
    /\ StoreObject([obj.stored EXCEPT !.finalizer = FALSE, !.exists = FALSE])
    /\ UNCHANGED <<work, faults, stale, changes, agents>>

\* The user changes the addresses or the template, or deletes the group.
ChangeSpec ==
    \E d \in SUBSET Names, t \in {1, 2} :
        /\ obj.stored.exists /\ ~obj.stored.deleting
        /\ <<d, t>> # <<obj.stored.desired, obj.stored.template>>
        /\ Trouble < MaxTrouble /\ changes' = changes + 1
        /\ StoreObject([obj.stored EXCEPT !.desired = d, !.template = t])
        /\ UNCHANGED <<work, faults, stale, agents>>

DeleteGroup == RequestDelete /\ UNCHANGED agents

ManagerRestarts ==
    /\ Restart
    /\ agents' = [n \in Names |-> [agents[n] EXCEPT !.cached = agents[n].stored]]

Init ==
    /\ \E d \in SUBSET Names : QueueInit(NewGroup(d))
    /\ agents = [n \in Names |-> [stored |-> NoAgent, cached |-> NoAgent]]

Next ==
    \/ Reconcile
    \/ Patch
    \/ PatchPartly
    \/ ObserveEvent
    \/ ObserveAgent
    \/ AgentRuns
    \/ AgentGoes
    \/ AgentFails
    \/ CollectAgent
    \/ CollectGroup
    \/ ChangeSpec
    \/ DeleteGroup
    \/ ManagerRestarts

\* The workers of the controller; the watches, the agents' controller and the garbage
\* collector.
Controller == Patch \/ (dirty /\ ~work.busy /\ Reconcile)
Environment ==
    ObserveEvent \/ ObserveAgent \/ AgentRuns \/ AgentGoes \/ CollectAgent \/ CollectGroup

Fairness == WF_vars(Controller) /\ WF_vars(Environment)

Spec == Init /\ [][Next]_vars /\ Fairness

-----------------------------------------------------------------------------
(* Properties *)

TypeOK ==
    /\ QueueTypeOK(Group)
    /\ agents \in [Names -> [stored : AgentState, cached : AgentState]]

\* Nothing is on its way to the controller.
Quiescent == ~dirty /\ ~work.busy /\ Current(obj) /\ Fresh

\* A group at rest counts right: it is ready exactly if the agents are the desired ones,
\* all running and all with their last change observed.
CountIsTrue ==
    Quiescent /\ obj.stored.exists /\ ~obj.stored.deleting =>
        (obj.stored.ready <=>
            {n \in Names : Ready(n, [x \in Names |-> agents[x].stored])} = obj.stored.desired)

\* The agents are the desired ones, with the template of the group, and it is ready.
Settled ==
    \/ ~obj.stored.exists \/ obj.stored.deleting
    \/ /\ obj.stored.ready
       /\ \A n \in Names : agents[n].stored.there <=> n \in obj.stored.desired
       /\ \A n \in obj.stored.desired : agents[n].stored.template = obj.stored.template

\* The group goes, and no agent stays behind.
DeletionEnds == ~obj.stored.exists /\ \A n \in Names : ~agents[n].stored.there
=============================================================================
