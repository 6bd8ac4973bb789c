------------------------------ MODULE MCAgents ------------------------------
(***************************************************************************)
(* What concerns agents, for TLC: the controllers of KubeforceAgent and    *)
(* KubeforceAgentGroup, the installation and the process of an agent, the  *)
(* storage that its binary comes from and the start of the provider.  A    *)
(* behaviour is one of these parts, and focus says of which.               *)
(***************************************************************************)
EXTENDS Reconciler

CONSTANTS
    MaxVersion,         \* of the keys
    Names,              \* of the agents of a group
    KeysTrouble,        \* MaxTrouble of the KubeforceAgent
    Workers, Replicas, Nobody,
    MaxEvents

\* What is bounded is bounded by a number, and one key pair is issued at least; the
\* addresses in the spec of a group are finitely many; nobody is not a worker.
ASSUME BoundsAssumption ==
    KeysTrouble \in Nat /\ MaxEvents \in Nat /\ MaxVersion \in Nat \ {0}
ASSUME NamesAssumption == IsFiniteSet(Names)
ASSUME NobodyAssumption == Nobody \notin Workers

VARIABLES
    focus,          \* "agent", "group", "install", "daemon", "files" or "start"
    given, cert, issued, active, host, holder, cacheDirty, probe, machine, playbooks,
    rotates, unlucky,
    agents,
    files, data, enabled, service, loaded, version, op, verdict, health, gone, events, late,
    pc, grace, signal, run, ready, awaited, cancelled, armed,
    repo, disk, lock, got, downloads, orphan,
    resource, leader, next, edited

KA == INSTANCE AgentKeys WITH MaxTrouble <- KeysTrouble
KG == INSTANCE AgentGroup
AI == INSTANCE AgentInstall
AD == INSTANCE AgentDaemon
FR == INSTANCE FileRepository WITH NoWorker <- Nobody
ST == INSTANCE Initializer WITH NoLeader <- Nobody

keys == <<given, cert, issued, active, host, holder, cacheDirty, probe, machine,
          playbooks, rotates, unlucky>>
installation == <<files, data, enabled, service, loaded, op, verdict, health, gone, late>>
process == <<grace, signal, run, ready, awaited, cancelled, armed>>
storage == <<repo, disk, lock, got, downloads, orphan>>
start == <<resource, leader, next, edited>>
vars == <<focus, queue, keys, agents, installation, version, events, pc, process,
          storage, start>>

InKA(A) ==
    /\ focus = "agent" /\ A
    /\ UNCHANGED <<focus, agents, installation, version, events, pc, process, storage,
                   start>>
InKG(A) ==
    /\ focus = "group" /\ A
    /\ UNCHANGED <<focus, keys, installation, version, events, pc, process, storage,
                   start>>
InAI(A) ==
    /\ focus = "install" /\ A
    /\ UNCHANGED <<focus, queue, keys, agents, pc, process, storage, start>>
InAD(A) ==
    /\ focus = "daemon" /\ A
    /\ UNCHANGED <<focus, queue, keys, agents, installation, version, storage, start>>
InFR(A) ==
    /\ focus = "files" /\ A
    /\ UNCHANGED <<focus, queue, keys, agents, installation, version, process, start>>
InST(A) ==
    /\ focus = "start" /\ A
    /\ UNCHANGED <<focus, queue, keys, agents, installation, pc, process, storage>>

NoQueue == obj = [stored |-> [deleting |-> FALSE]] /\ dirty = FALSE /\ work = {}
           /\ faults = 0 /\ stale = 0 /\ changes = 0
NoKeys ==
    /\ given = {} /\ cert = {} /\ issued = {} /\ active = {} /\ host = {} /\ holder = {}
    /\ cacheDirty = FALSE /\ probe = {} /\ machine = {} /\ playbooks = FALSE
    /\ rotates = FALSE /\ unlucky = {}
NoAgents == agents = {}
NoInstallation ==
    /\ files = {} /\ data = FALSE /\ enabled = FALSE /\ service = {} /\ loaded = 0
    /\ op = {} /\ verdict = {} /\ health = {} /\ gone = FALSE /\ late = FALSE
NoVersion == version = 0
NoEvents == events = 0
NoProcess ==
    /\ grace = FALSE /\ signal = FALSE /\ run = {} /\ ready = {} /\ awaited = 0
    /\ cancelled = {} /\ armed = FALSE
NoPlace == pc = {}
NoStorage ==
    repo = {} /\ disk = {} /\ lock = {} /\ got = {} /\ downloads = 0 /\ orphan = FALSE
NoStart == resource = {} /\ leader = {} /\ next = 0 /\ edited = {}

Init ==
    \/ /\ focus = "agent" /\ KA!Init
       /\ NoAgents /\ NoInstallation /\ NoVersion /\ NoEvents /\ NoPlace /\ NoProcess
       /\ NoStorage /\ NoStart
    \/ /\ focus = "group" /\ KG!Init
       /\ NoKeys /\ NoInstallation /\ NoVersion /\ NoEvents /\ NoPlace /\ NoProcess
       /\ NoStorage /\ NoStart
    \/ /\ focus = "install" /\ AI!Init
       /\ NoQueue /\ NoKeys /\ NoAgents /\ NoPlace /\ NoProcess /\ NoStorage /\ NoStart
    \/ /\ focus = "daemon" /\ AD!Init
       /\ NoQueue /\ NoKeys /\ NoAgents /\ NoInstallation /\ NoVersion /\ NoStorage
       /\ NoStart
    \/ /\ focus = "files" /\ FR!Init
       /\ NoQueue /\ NoKeys /\ NoAgents /\ NoInstallation /\ NoVersion /\ NoProcess
       /\ NoStart
    \/ /\ focus = "start" /\ ST!Init
       /\ NoQueue /\ NoKeys /\ NoAgents /\ NoInstallation /\ NoPlace /\ NoProcess
       /\ NoStorage

Next ==
    \/ InKA(KA!Next) \/ InKG(KG!Next) \/ InAI(AI!Next)
    \/ InAD(AD!Next) \/ InFR(FR!Next) \/ InST(ST!Next)

\* The fairness that the parts state.
Fairness ==
    /\ WF_vars(\/ InKA(KA!Controller) \/ InKG(KG!Controller) \/ InAI(AI!Call)
               \/ InAD(AD!Goroutines) \/ InFR(FR!Controller) \/ InST(ST!Controller))
    /\ WF_vars(\/ InKA(KA!Environment) \/ InKG(KG!Environment) \/ InAI(AI!Daemon))

Spec == Init /\ [][Next]_vars /\ Fairness

Whose(ka, kg, ai, ad, fr, st) ==
    CASE focus = "agent" -> ka
      [] focus = "group" -> kg
      [] focus = "install" -> ai
      [] focus = "daemon" -> ad
      [] focus = "files" -> fr
      [] focus = "start" -> st

-----------------------------------------------------------------------------
(* Properties *)

\* The state of every part is of its type.
TypeOK == Whose(KA!TypeOK, KG!TypeOK, AI!TypeOK, AD!TypeOK, FR!TypeOK, ST!TypeOK)

\* An installed agent can be reached with the active keys, wherever syncAgentTLSSecret and
\* syncAgentClientSecret are interrupted, but for a new CA and a daemon that restarts
\* between two files.
NeverLockedOut == Whose(KA!NeverLockedOut, TRUE, TRUE, TRUE, TRUE, TRUE)

\* What takes several steps is there as a whole or not at all: a file of GetFile, after
\* one download however many ask for it; the resources of init, in their order and of one
\* build; the count of ready agents of a group at rest.
Whole == Whose(TRUE, KG!CountIsTrue, TRUE, TRUE, FR!FetchedWhole, ST!InitializedInOrder)

\* Uninstall that has succeeded leaves nothing but a daemon that is being stopped, if it was
\* the request, which does not wait, and the data that the daemon wrote meanwhile.
UninstalledClean == Whose(TRUE, TRUE, AI!UninstalledClean, TRUE, TRUE, TRUE)

\* Manager: etcd and the API server "run first and exit last".
FirstAndLast == Whose(TRUE, TRUE, TRUE, AD!FirstAndLast, TRUE, TRUE)

\* Every part comes to what it is for: the issued keys are on the host and in use; the
\* group has its agents; the installation, or the uninstallation, is complete; the process
\* runs, or stops when told to; the file is fetched; the resources are there.
Settles ==
    []<>Whose(KA!Settled, KG!Settled, AI!Converges, AD!Recovers, FR!Answered, ST!Initialized)

\* A deleted agent goes, after its machine and its Playbooks, unless the machine has left
\* its label behind; a deleted group goes, and no agent of it stays behind.
DeletionCompletes ==
    []<>(obj.stored.deleting =>
            Whose(KA!DeletionEnds, KG!DeletionEnds, TRUE, TRUE, TRUE, TRUE))
=============================================================================
