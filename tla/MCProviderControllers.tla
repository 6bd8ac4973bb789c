------------------------ MODULE MCProviderControllers ------------------------
(***************************************************************************)
(* Four controllers of the provider for TLC: those of Playbook and         *)
(* PlaybookDeployment, which mirror their objects to an agent, and those   *)
(* of KubeforceMachine and KubeforceCluster.  They share their library's   *)
(* model, Reconciler; each is explored with the objects that it reads and  *)
(* writes: a behaviour is one of theirs, and focus says whose.             *)
(***************************************************************************)
EXTENDS Reconciler, TemplateReferences

CONSTANTS
    Machines,           \* of the KubeforceCluster
    MoreTrouble         \* MaxTrouble of the Playbook and of the KubeforceCluster

ASSUME MoreTroubleAssumption == MoreTrouble \in Nat

VARIABLES
    focus,          \* "playbook", "deployment", "machine" or "cluster"
    agent, paused, aged, counterparts, created, torn, parked, forced,
    children, given,
    machines, playbooks, cluster, lb, disabled

\* A template of the user's own in the place of the installer; the cluster is balanced.
Requested ==
    [installer |-> [type |-> "delete", priority |-> 1, kind |-> "PlaybookTemplate"]]
References == Defaulted(Requested, TRUE)

PB == INSTANCE ProviderPlaybook WITH MaxTrouble <- MoreTrouble
PD == INSTANCE ProviderPlaybookDeployment
KM == INSTANCE MachinePipeline
KC == INSTANCE KubeforceCluster WITH MaxTrouble <- MoreTrouble

mirror == <<counterparts, created, forced>>
pipeline == <<children, given>>
balancer == <<machines, playbooks, cluster, lb, disabled>>
vars == <<focus, queue, agent, paused, aged, torn, parked, mirror, pipeline, balancer>>

InPB(A) == focus = "playbook" /\ A /\ UNCHANGED <<focus, pipeline, balancer>>
InPD(A) == focus = "deployment" /\ A /\ UNCHANGED <<focus, torn, parked, pipeline, balancer>>
InKM(A) == focus = "machine" /\ A /\ UNCHANGED <<focus, paused, torn, mirror, balancer>>
InKC(A) == focus = "cluster" /\ A /\ UNCHANGED <<focus, agent, aged, parked, mirror, pipeline>>

NoMirror == counterparts = {} /\ created = {} /\ forced = FALSE
NoPipeline == children = {} /\ given = {}
NoBalancer == machines = {} /\ playbooks = {} /\ cluster = {} /\ lb = {} /\ disabled = FALSE

Init ==
    \/ /\ focus = "playbook" /\ PB!Init
       /\ NoPipeline /\ NoBalancer
    \/ /\ focus = "deployment" /\ PD!Init
       /\ NoPipeline /\ NoBalancer /\ torn = FALSE /\ parked = FALSE
    \/ /\ focus = "machine" /\ KM!Init
       /\ NoMirror /\ NoBalancer /\ torn = FALSE /\ paused = FALSE
    \/ /\ focus = "cluster" /\ KC!Init
       /\ NoMirror /\ NoPipeline /\ parked = FALSE /\ aged = FALSE /\ agent = {}

Next == InPB(PB!Next) \/ InPD(PD!Next) \/ InKM(KM!Next) \/ InKC(KC!Next)

\* The fairness that the components state.
Fairness ==
    /\ WF_vars(\/ InPB(PB!Controller) \/ InPD(PD!Controller)
               \/ InKM(KM!Controller) \/ InKC(KC!Controller))
    /\ WF_vars(\/ InPB(PB!Environment) \/ InPD(PD!Environment)
               \/ InKM(KM!Environment) \/ InKC(KC!Environment))

Spec == Init /\ [][Next]_vars /\ Fairness

Whose(pb, pd, km, kc) ==
    CASE focus = "playbook" -> pb
      [] focus = "deployment" -> pd
      [] focus = "machine" -> km
      [] focus = "cluster" -> kc

-----------------------------------------------------------------------------
(* Properties *)

\* The state of the four controllers is of its type.
TypeOK == Whose(PB!TypeOK, PD!TypeOK, KM!TypeOK, KC!TypeOK)

\* createExternalPlaybook and createExternalPlaybookDeployment run again only for a
\* counterpart that was removed behind the controller's back before its name was
\* seen: a Playbook is executed once, however often a reconcile is repeated.
ExecutedOnce == Whose(PB!ExecutedOnce, PD!ExecutedOnce, TRUE, TRUE)

\* reconcileDelete leaves nothing behind: the finalizer of a Playbook goes after its
\* counterpart, unless its name was lost or the deletion was forced, and that of a
\* KubeforceCluster after its machines and their Playbooks.
NothingLeftBehind == Whose(PB!NothingLeftBehind, PD!NothingLeftBehind, TRUE, KC!GoesLast)

\* TemplateReconciler over all reconciles of a machine: no Playbook is there before those
\* of a higher priority have succeeded, nor the one that boots the node before the whole
\* installation has; the clean-up never runs beside an installation.
PipelineOrder == Whose(TRUE, TRUE, KM!PipelineOrder, TRUE)

\* Each controller comes to what its object asks for, after any failed call, outdated
\* copy, restart or outage: the template is executed and its verdict is back; the machine
\* is ready, once its agent is; the load balancer has the API servers of the control plane.
Settles == []<>Whose(PB!Settled, PD!Settled, KM!Progressed, KC!Settled)

\* A deleted object goes away, whatever fails on the way.  What may keep it: a pause, an
\* agent that cannot be reached, and the waits of the functions reconcileDelete that ask for
\* no requeue: those of a Playbook and of reconcileCleaner for a healthy agent, of which
\* only an event of the agent ends the first, and none the second.
DeletionCompletes ==
    []<>(obj.stored.deleting =>
            Whose(PB!DeletionEnds, PD!DeletionEnds, KM!DeletionEnds, KC!DeletionEnds))
==============================================================================
