------------------------------ MODULE AgentKeys ------------------------------
(***************************************************************************)
(* The life of a KubeforceAgent: its certificate, its installation over    *)
(* SSH, the rotation of its keys, its deletion                             *)
(* (controllers/kubeforceagent_controller.go, pkg/agent), and the cache of *)
(* clients that use those keys (controllers/agent).  How its health is     *)
(* probed is AgentProbe's subject.                                         *)
(*                                                                         *)
(* There are two key pairs, the agent's (tls) and its clients' (client).   *)
(* cert-manager issues both; the active copy of each is the one that the   *)
(* provider connects with.  A rotation uploads the issued pair to the host *)
(* with the active one, and then makes it the active one.                  *)
(*                                                                         *)
(* The version of a key pair stands for its content.  Every call opens a   *)
(* connection; secrets that are only read are read as they are.            *)
(***************************************************************************)
EXTENDS Reconciler

CONSTANT MaxVersion     \* the last version that is issued

VARIABLES
    given,          \* the parts of the configuration that are there
    cert,           \* the Certificate
    issued,         \* the versions of the issued key pairs
    active,         \* the active key pairs: stored, cached
    host,           \* files of the host, and what its daemon has loaded
    holder,         \* the clientHolder, or none
    cacheDirty,     \* the agent's key in the queue of the CacheReconciler
    probe,          \* the agent's probe
    machine,        \* the KubeforceMachine of the agent
    playbooks,      \* there are Playbooks or PlaybookDeployments of the agent
    rotates,        \* every renewal comes with another CA
    unlucky         \* observer: the key pairs whose upload or installation went wrong

surroundings ==
    <<given, cert, issued, active, host, holder, cacheDirty, probe, machine, playbooks>>
vars == <<queue, surroundings, rotates, unlucky>>

-----------------------------------------------------------------------------
(* The objects *)

Condition == {"absent", "Unknown", "True", "False"}

\* AgentPhase
Phases == {"", "Pending", "Provisioning", "Installed", "Running", "Failed", "Deleting"}

\* tls, inst, health: the conditions; info: Status.AgentInfo and SystemInfo are known;
\* failed: FailureReason is InstallAgentError; label: AgentMachineLabel.
Agent ==
    [exists : BOOLEAN, deleting : BOOLEAN, finalizer : BOOLEAN, installed : BOOLEAN,
     label : BOOLEAN, tls : Condition, inst : Condition, health : Condition,
     info : BOOLEAN, failed : BOOLEAN, phase : Phases]

NewAgent ==
    [exists |-> TRUE, deleting |-> FALSE, finalizer |-> FALSE, installed |-> FALSE,
     label |-> FALSE, tls |-> "absent", inst |-> "absent", health |-> "absent",
     info |-> FALSE, failed |-> FALSE, phase |-> ""]

\* patchKubeforceAgent: the calls and what they write.
Calls ==
    [conditions |-> {"tls", "inst", "health"}, object |-> {"finalizer", "installed"},
     status |-> {"info", "failed", "phase"}]

\* In this order: Spec.Config.CertTemplate.IssuerRef, Spec.SSH.SecretName, the Secret.
Configuration == <<"issuer", "ssh", "secret">>

Versions == 0 .. MaxVersion
KeyPairs == {"tls", "client"}
Pair == [tls : Versions, client : Versions]
NoPair == [tls |-> 0, client |-> 0]

\* crt, key, ca: tls.crt, tls.key and client-ca.crt; served and trusted: the pair and
\* the CA in the daemon's memory.
Host ==
    [crt : Versions, key : Versions, ca : Versions, served : Versions,
     trusted : Versions, up : BOOLEAN]

NoHost ==
    [crt |-> 0, key |-> 0, ca |-> 0, served |-> 0, trusted |-> 0, up |-> FALSE]

CA(v) == IF rotates THEN v ELSE 1

\* NewClientConfig: a client with these keys and the daemon accept each other.
Connects(keys) ==
    /\ host.up
    /\ CA(keys.tls) = CA(host.served)
    /\ CA(keys.client) = CA(host.trusted)

\* The daemon watches its files and loads a pair that fits together.
Loadable == IF host.crt = host.key THEN host.crt ELSE host.served

\* reconcilePhase
Phase(a) ==
    CASE a.deleting -> "Deleting"
      [] ~a.deleting /\ a.failed -> "Failed"
      [] ~a.deleting /\ ~a.failed /\ a.installed ->
            IF a.inst = "True" THEN "Running" ELSE "Installed"
      [] ~a.deleting /\ ~a.failed /\ ~a.installed /\ a.tls = "True" -> "Provisioning"
      [] OTHER -> IF a.phase = "" THEN "Pending" ELSE a.phase

\* GetKeys reads the copies of the active pairs; without both there are no keys.
KeysKnown == active.cached.tls # 0 /\ active.cached.client # 0

-----------------------------------------------------------------------------
(* The client cache *)

\* GetClientSet for a call that succeeds: the holder there is, or a new one; making
\* one talks to the agent.
ClientSet(h) ==
    /\ h = IF holder # NoPair THEN holder ELSE active.cached
    /\ KeysKnown \/ holder # NoPair
    /\ Connects(h)

\* CacheReconciler.Reconcile
CacheReconcile ==
    /\ cacheDirty
    /\ cacheDirty' = FALSE
    /\ holder' = IF \/ ~obj.cached.exists
                    \/ obj.cached.installed /\ KeysKnown /\ holder # active.cached
                 THEN NoPair ELSE holder
    /\ UNCHANGED <<queue, given, cert, issued, active, host, probe, machine, playbooks,
                   rotates, unlucky>>

-----------------------------------------------------------------------------
(* Reconcile *)

\* EnsureProbe, and what the condition becomes.
Probed ==
    IF ~obj.cached.installed THEN obj.cached
    ELSE [obj.cached EXCEPT !.health =
            IF probe.result = "none" THEN "Unknown" ELSE probe.result]

\* The reconcile ends, its probe ensured, with v to be patched.
Fresh == active.stored = active.cached

Ended(v, again) == EndWith(Fresh, [v EXCEPT !.phase = Phase(v)], again)
Failed(v) == EndFaulty(Fresh, [v EXCEPT !.phase = Phase(v)])

EnsureProbe == probe' = [probe EXCEPT !.on = @ \/ obj.cached.installed]

Idling == UNCHANGED <<given, cert, issued, active, host, holder, cacheDirty, machine,
                      playbooks, rotates, unlucky>>

ReconcileNotFound ==
    /\ ~obj.cached.exists
    /\ EndEarly(FALSE)
    /\ probe' = [probe EXCEPT !.on = FALSE]
    /\ Idling

ReconcileAddFinalizer ==
    /\ obj.cached.exists /\ ~obj.cached.deleting /\ ~obj.cached.finalizer
    /\ Ended([Probed EXCEPT !.finalizer = TRUE], FALSE)
    /\ EnsureProbe
    /\ Idling

Wanted == obj.cached.exists /\ ~obj.cached.deleting /\ obj.cached.finalizer

-----------------------------------------------------------------------------
(* reconcileTLSCert and reconcileAgentInstallation *)

\* The requeue is after 30 seconds.
ReconcileNoIssuer ==
    /\ Wanted /\ "issuer" \notin given
    /\ Ended([Probed EXCEPT !.tls = "False"], TRUE)
    /\ EnsureProbe
    /\ Idling

Certified == Wanted /\ "issuer" \in given

\* createAgentServCertificate.  A Certificate that is missing or not ready does not end
\* the reconcile: the installation then fails for want of the issued secret.
ReconcileCertificate ==
    /\ Certified /\ cert # "ready"
    /\ cert' = "pending"
    /\ Ended([Probed EXCEPT !.tls = IF cert = "absent" THEN @ ELSE "False",
                            !.inst = "False"],
             "ssh" \in given)
    /\ EnsureProbe
    /\ UNCHANGED <<given, issued, active, host, holder, cacheDirty, machine, playbooks,
                   rotates, unlucky>>

HasCert == [Probed EXCEPT !.tls = "True"]

Installing == Certified /\ cert = "ready" /\ ~obj.cached.installed

ReconcileNoSSH ==
    /\ Installing /\ "ssh" \notin given
    /\ Ended([HasCert EXCEPT !.inst = "False"], FALSE)
    /\ EnsureProbe
    /\ Idling

\* syncAgentTLSSecret and syncAgentClientSecret without an upload: the active secrets
\* are created or patched, and the holder goes.  Create fails if they are there already
\* and the copy does not show them yet.
SyncActive ==
    IF active.cached = NoPair /\ active.stored # NoPair THEN UNCHANGED <<active, holder>>
    ELSE /\ active' = [active EXCEPT !.stored = issued]
         /\ holder' = IF active.cached # issued THEN NoPair ELSE holder

\* GetHelper does not see the active secrets yet, or GetSSHConfig finds no secret.
ReconcileNotPrepared ==
    /\ Installing /\ "ssh" \in given
    /\ ~KeysKnown \/ "secret" \notin given
    /\ SyncActive
    /\ Ended([HasCert EXCEPT !.inst = "False"], TRUE)
    /\ EnsureProbe
    /\ UNCHANGED <<given, cert, issued, host, cacheDirty, machine, playbooks, rotates,
                   unlucky>>

CanInstall == Installing /\ KeysKnown /\ {"ssh", "secret"} \subseteq given

\* agentConfig holds the keys of the copies, which may be older than the active ones.
InstalledHost(k) ==
    [crt |-> k.tls, key |-> k.tls, ca |-> k.client, served |-> k.tls,
     trusted |-> k.client, up |-> TRUE]

ReconcileInstall ==
    /\ CanInstall
    /\ SyncActive
    /\ host' = InstalledHost(active.cached)
    /\ unlucky' = {f \in KeyPairs : active.cached[f] # issued[f]}
    /\ Ended([HasCert EXCEPT !.info = FALSE, !.installed = TRUE, !.failed = FALSE,
                             !.inst = "True"], FALSE)
    /\ EnsureProbe
    /\ UNCHANGED <<given, cert, issued, cacheDirty, machine, playbooks, rotates>>

\* Install fails on its way: before init has run, or with its answer lost.
ReconcileInstallFails ==
    /\ CanInstall
    /\ SyncActive
    /\ host' \in {host, InstalledHost(active.cached)}
    /\ Failed([HasCert EXCEPT !.info = FALSE, !.failed = TRUE, !.inst = "False"])
    /\ EnsureProbe
    /\ UNCHANGED <<given, cert, issued, cacheDirty, machine, playbooks, rotates, unlucky>>

-----------------------------------------------------------------------------
(* The rotation of the keys, on a healthy agent *)

Serving == Certified /\ cert = "ready" /\ obj.cached.installed

Running == [HasCert EXCEPT !.inst = "True"]

ReconcileWaitForHealth ==
    /\ Serving /\ Probed.health # "True"
    /\ Ended(Running, FALSE)
    /\ EnsureProbe
    /\ Idling

\* syncAgentTLSSecret; syncAgentClientSecret only if that has nothing to do.  Each writes
\* its own secret.
Rotating == Serving /\ Probed.health = "True" /\ active.cached # issued

\* The pair that is rotated, and the active ones with it.
Outdated == IF active.cached.tls # issued.tls THEN "tls" ELSE "client"

Rotated ==
    IF active.cached.tls # issued.tls THEN [active.stored EXCEPT !.tls = issued.tls]
    ELSE [active.stored EXCEPT !.client = issued.client]

\* The agent's upload handler: the file is overwritten in place.
Uploaded(h, f, v) == [h EXCEPT ![f] = v]

\* What the host has after each of the uploads: certificate, key; or the CA.
Uploads ==
    IF active.cached.tls # issued.tls
    THEN <<Uploaded(host, "crt", issued.tls),
           Uploaded(Uploaded(host, "crt", issued.tls), "key", issued.tls)>>
    ELSE <<Uploaded(host, "ca", issued.client)>>

ReconcileRotate_NoUpload ==
    \E h \in {holder, active.cached} :
        /\ Rotating
        /\ ClientSet(h)
        /\ host' = Uploads[1]
        /\ active' = [active EXCEPT !.stored = Rotated]
        /\ holder' = NoPair
        /\ unlucky' = unlucky \ {Outdated}
        /\ Ended([Running EXCEPT !.info = FALSE], FALSE)
        /\ EnsureProbe
        /\ UNCHANGED <<given, cert, issued, cacheDirty, machine, playbooks, rotates>>
ReconcileRotate ==
    \E h \in {holder, active.cached} :
        /\ Rotating
        /\ ClientSet(h)
        /\ host' = Uploads[Len(Uploads)]
        /\ active' = [active EXCEPT !.stored = Rotated]
        /\ holder' = NoPair
        /\ unlucky' = unlucky \ {Outdated}
        /\ Ended([Running EXCEPT !.info = FALSE], FALSE)
        /\ EnsureProbe
        /\ UNCHANGED <<given, cert, issued, cacheDirty, machine, playbooks, rotates>>

\* An upload or the write of the secret fails.  If the CA has changed, the daemon soon
\* refuses, or is refused by, the active keys that the provider goes on using; or it has
\* not loaded the pair before, and cannot do so any more.
ReconcileRotateFails ==
    \E h \in {holder, active.cached}, n \in 0 .. Len(Uploads) :
        /\ Rotating
        /\ ClientSet(h)
        /\ host' = IF n = 0 THEN host ELSE Uploads[n]
        /\ holder' = h
        /\ unlucky' = IF rotates /\ n > 0 /\ (n = Len(Uploads) \/ host.served # Loadable)
                      THEN unlucky \cup {Outdated} ELSE unlucky
        /\ Failed(Running)
        /\ EnsureProbe
        /\ UNCHANGED <<given, cert, issued, active, cacheDirty, machine, playbooks, rotates>>

\* GetClientSet or a request fails since the keys do not fit; the error is retried.
Unreachable == \A h \in {holder, active.cached} : ~ClientSet(h)

ReconcileUnreachable ==
    /\ Rotating \/ (Serving /\ Probed.health = "True" /\ ~obj.cached.info)
    /\ Unreachable
    /\ Ended(Running, TRUE)
    /\ EnsureProbe
    /\ Idling

\* reconcileAgentInfo
ReconcileInfo ==
    \E h \in {holder, active.cached} :
        /\ Serving /\ Probed.health = "True" /\ active.cached = issued
        /\ obj.cached.info \/ ClientSet(h)
        /\ holder' = IF obj.cached.info THEN holder ELSE h
        /\ Ended([Running EXCEPT !.info = TRUE], FALSE)
        /\ EnsureProbe
        /\ UNCHANGED <<given, cert, issued, active, host, cacheDirty, machine, playbooks,
                       rotates, unlucky>>

-----------------------------------------------------------------------------
(* reconcileDelete *)

Discarded == obj.cached.exists /\ obj.cached.deleting /\ obj.cached.finalizer

\* reconcileDeleteMachine: the machine is deleted and waited for, without a requeue.
ReconcileDeleteMachine ==
    /\ Discarded /\ obj.cached.label /\ machine # "none"
    /\ machine' = "deleting"
    /\ Ended(Probed, FALSE)
    /\ EnsureProbe
    /\ UNCHANGED <<given, cert, issued, active, host, holder, cacheDirty, playbooks,
                   rotates, unlucky>>

Deserted == Discarded /\ (~obj.cached.label \/ machine = "none")

\* The requeue is after 10 seconds.
ReconcileDeleteWaits ==
    /\ Deserted /\ playbooks
    /\ Ended(Probed, TRUE)
    /\ EnsureProbe
    /\ Idling

\* RemoveProbe, and the finalizer goes.
Finalize ==
    /\ Ended([Probed EXCEPT !.finalizer = FALSE], FALSE)
    /\ probe' = [probe EXCEPT !.on = FALSE]

ReconcileUninstall ==
    \E h \in {holder, active.cached} :
        /\ Deserted /\ ~playbooks /\ Probed.health = "True"
        /\ ClientSet(h)
        /\ host' = NoHost
        /\ holder' = h
        /\ Finalize
        /\ UNCHANGED <<given, cert, issued, active, cacheDirty, machine, playbooks, rotates,
                       unlucky>>

\* The daemon has stopped and its answer is lost with it.
ReconcileUninstallLost ==
    \E h \in {holder, active.cached} :
        /\ Deserted /\ ~playbooks /\ Probed.health = "True"
        /\ ClientSet(h)
        /\ host' = NoHost
        /\ holder' = h
        /\ Failed(Probed)
        /\ EnsureProbe
        /\ UNCHANGED <<given, cert, issued, active, cacheDirty, machine, playbooks, rotates,
                       unlucky>>

ReconcileUninstallFails ==
    /\ Deserted /\ ~playbooks /\ Probed.health = "True"
    /\ Unreachable
    /\ Ended(Probed, TRUE)
    /\ EnsureProbe
    /\ Idling

\* An agent that is not healthy is left as it is.
ReconcileForget_Waits ==
    /\ Deserted /\ ~playbooks /\ Probed.health # "True"
    /\ Ended(Probed, FALSE)
    /\ EnsureProbe
    /\ Idling
ReconcileForget ==
    /\ Deserted /\ ~playbooks /\ Probed.health # "True"
    /\ Finalize
    /\ Idling

\* Any other call fails.
ReconcileFails ==
    /\ Wanted \/ Discarded
    /\ Failed(Probed)
    /\ EnsureProbe
    /\ Idling

Reconcile ==
    \/ ReconcileNotFound
    \/ ReconcileAddFinalizer
    \/ ReconcileNoIssuer
    \/ ReconcileCertificate
    \/ ReconcileNoSSH
    \/ ReconcileNotPrepared
    \/ ReconcileInstall
    \/ ReconcileInstallFails
    \/ ReconcileWaitForHealth
    \/ ReconcileRotate
    \/ ReconcileRotateFails
    \/ ReconcileUnreachable
    \/ ReconcileInfo
    \/ ReconcileDeleteMachine
    \/ ReconcileDeleteWaits
    \/ ReconcileUninstall
    \/ ReconcileUninstallLost
    \/ ReconcileUninstallFails
    \/ ReconcileForget
    \/ ReconcileFails

Quiet == UNCHANGED <<surroundings, rotates, unlucky>>

Patch ==
    /\ PatchApplied(Calls)
    /\ Quiet

PatchPartly ==
    \E done \in SUBSET DOMAIN Calls \ {DOMAIN Calls} :
        /\ PatchFails(Calls, done)
        /\ Quiet

-----------------------------------------------------------------------------
(* The surroundings *)

Wake == dirty' = (dirty \/ obj.cached.exists)

\* An event of the agent: it is also reconciled by the CacheReconciler.
ObserveEvent ==
    /\ DeliverEvent
    /\ cacheDirty' = TRUE
    /\ UNCHANGED <<given, cert, issued, active, host, holder, probe, machine, playbooks,
                   rotates, unlucky>>

\* The active secrets are owned by the agent.
ObserveSecret ==
    /\ ~Fresh
    /\ active' = [active EXCEPT !.cached = active.stored]
    /\ Wake
    /\ cacheDirty' = TRUE
    /\ UNCHANGED <<obj, work, faults, stale, changes, given, cert, issued, host, holder,
                   probe, machine, playbooks, rotates, unlucky>>

\* The agent's own fields are changed, so there is an event; the secret is not watched.
Configure ==
    \E i \in DOMAIN Configuration :
        /\ Configuration[i] \notin given
        /\ \A j \in 1 .. i - 1 : Configuration[j] \in given
        /\ given' = given \cup {Configuration[i]}
        /\ dirty' = (dirty \/ (Configuration[i] # "secret" /\ obj.cached.exists))
        /\ UNCHANGED <<obj, work, faults, stale, changes, cert, issued, active, host, holder,
                       cacheDirty, probe, machine, playbooks, rotates, unlucky>>

\* cert-manager
Issue ==
    /\ cert = "pending"
    /\ cert' = "ready"
    /\ issued' = [issued EXCEPT !.tls = 1]
    /\ Wake
    /\ UNCHANGED <<obj, work, faults, stale, changes, given, active, host, holder,
                   cacheDirty, probe, machine, playbooks, rotates, unlucky>>

\* The agent's secret is adopted by it and watched.  The clients' one belongs to the
\* user and is not: here something else happens to bring the agent's key.
Renew ==
    \E f \in {"tls", "client"} :
        /\ issued[f] \in 1 .. MaxVersion - 1
        /\ Change(TRUE)
        /\ issued' = [issued EXCEPT ![f] = @ + 1]
        /\ UNCHANGED <<given, cert, active, host, holder, cacheDirty, probe, machine,
                       playbooks, rotates, unlucky>>

DaemonReloads ==
    LET h == [host EXCEPT !.served = Loadable, !.trusted = host.ca]
    IN  /\ host.up /\ host # h
        /\ host' = h
        /\ UNCHANGED <<queue, given, cert, issued, active, holder, cacheDirty, probe,
                       machine, playbooks, rotates, unlucky>>

\* A daemon that starts needs such a pair.
DaemonRestarts ==
    /\ host.up
    /\ Change(FALSE)
    /\ host' = [host EXCEPT !.served = host.crt, !.trusted = host.ca,
                            !.up = (host.crt = host.key)]
    /\ UNCHANGED <<given, cert, issued, active, holder, cacheDirty, probe, machine,
                   playbooks, rotates, unlucky>>

\* The worker of the probe, thresholds and all; a change of its result is an event.
Probe ==
    LET h == IF holder # NoPair THEN holder ELSE active.cached
        r == IF ClientSet(h) THEN "True" ELSE "False"
    IN  /\ probe.on
        /\ r # probe.result \/ (r = "True" /\ holder # h)
        /\ holder' = IF r = "True" THEN h ELSE holder
        /\ probe' = [probe EXCEPT !.result = r]
        /\ dirty' = (dirty \/ (r # probe.result /\ obj.cached.exists))
        /\ UNCHANGED <<obj, work, faults, stale, changes, given, cert, issued, active, host,
                       cacheDirty, machine, playbooks, rotates, unlucky>>

\* A machine claims the agent.
MachineClaims ==
    /\ machine = "none" /\ obj.stored.exists /\ obj.stored.phase = "Running"
    /\ Trouble < MaxTrouble /\ changes' = changes + 1
    /\ machine' = "bound"
    /\ StoreObject([obj.stored EXCEPT !.label = TRUE])
    /\ playbooks' = TRUE
    /\ UNCHANGED <<work, faults, stale, given, cert, issued, active, host, holder,
                   cacheDirty, probe, rotates, unlucky>>

\* Those of the machine go with it, others are removed by their owners.
PlaybooksGo ==
    /\ playbooks /\ obj.stored.deleting
    /\ playbooks' = FALSE
    /\ UNCHANGED <<queue, given, cert, issued, active, host, holder, cacheDirty, probe,
                   machine, rotates, unlucky>>

\* Its label goes from the agent before it; but not if its AgentRef was never stored
\* (MachineAgentClaim), and no event then tells that the machine has gone.
MachineGoes ==
    /\ machine = "deleting"
    /\ machine' = "none"
    /\ \/ StoreObject([obj.stored EXCEPT !.label = FALSE])
       \/ UNCHANGED <<obj, dirty>>
    /\ UNCHANGED <<work, faults, stale, changes, given, cert, issued, active, host, holder,
                   cacheDirty, probe, playbooks, rotates, unlucky>>

DeleteAgent == RequestDelete /\ Quiet

ManagerRestarts ==
    /\ Restart
    /\ active' = [active EXCEPT !.cached = active.stored]
    /\ holder' = NoPair
    /\ cacheDirty' = obj.stored.exists
    /\ probe' = [on |-> FALSE, result |-> "none"]
    /\ UNCHANGED <<given, cert, issued, host, machine, playbooks, rotates, unlucky>>

Init ==
    /\ QueueInit(NewAgent)
    /\ given = {}
    /\ cert = "absent"
    /\ issued = [tls |-> 0, client |-> 1]
    /\ active = [stored |-> NoPair, cached |-> NoPair]
    /\ host = NoHost
    /\ holder = NoPair
    /\ cacheDirty = FALSE
    /\ probe = [on |-> FALSE, result |-> "none"]
    /\ machine = "none"
    /\ playbooks = FALSE
    /\ rotates \in BOOLEAN
    /\ unlucky = {}

Next ==
    \/ Reconcile
    \/ Patch
    \/ PatchPartly
    \/ CacheReconcile
    \/ ObserveEvent
    \/ ObserveSecret
    \/ Configure
    \/ Issue
    \/ Renew
    \/ DaemonReloads
    \/ DaemonRestarts
    \/ Probe
    \/ MachineClaims
    \/ PlaybooksGo
    \/ MachineGoes
    \/ DeleteAgent
    \/ ManagerRestarts

\* The workers of both controllers; the watches, cert-manager, the daemon, the probe
\* and the machine's controller.
Controller == CacheReconcile \/ Patch \/ (dirty /\ ~work.busy /\ Reconcile)
Environment ==
    \/ ObserveEvent \/ ObserveSecret \/ Configure \/ Issue \/ DaemonReloads
    \/ Probe \/ PlaybooksGo \/ MachineGoes

Fairness == WF_vars(Controller) /\ WF_vars(Environment)

Spec == Init /\ [][Next]_vars /\ Fairness

-----------------------------------------------------------------------------
(* Properties *)

TypeOK ==
    /\ QueueTypeOK(Agent)
    /\ issued \in Pair /\ active \in [stored : Pair, cached : Pair] /\ holder \in Pair
    /\ host \in Host

\* A daemon that starts between the two files of a pair cannot, and is not reached again.
Torn == ~host.up /\ host.crt # host.key

\* The host of an agent that counts as installed can be reached with the active keys,
\* or will be when its daemon has loaded its files: whatever is renewed, fails or
\* restarts.  There are three exceptions: the daemon is torn; a pair with a new CA was
\* uploaded and not made the active one, or not loaded in time; the pair had been replaced
\* when it was installed.  The last two are of that pair, until its next rotation.
NeverLockedOut ==
    obj.stored.exists /\ ~obj.stored.deleting /\ obj.stored.installed =>
        \/ Torn
        \/ /\ host.up
           /\ "tls" \in unlucky \/ CA(active.stored.tls) = CA(Loadable)
           /\ "client" \in unlucky \/ CA(active.stored.client) = CA(host.ca)

\* The issued keys are on the host and are the active ones, the client cache has no
\* others, and the agent is known to be healthy and running; or its failure stays, as
\* the write that would have cleared it was lost and nothing is installed again.
Settled ==
    \/ ~obj.stored.exists \/ obj.stored.deleting \/ Torn \/ unlucky # {}
    \/ /\ active.stored = issued
       /\ host.crt = issued.tls /\ host.key = issued.tls /\ host.ca = issued.client
       /\ holder \in {NoPair, issued}
       /\ obj.stored.health = "True"
       /\ obj.stored.phase = IF obj.stored.failed THEN "Failed" ELSE "Running"

\* A deleted agent goes; or it waits for good for a machine that has gone and has left its
\* label, as there is neither a requeue nor an event.
DeletionEnds ==
    ~obj.stored.exists \/ (obj.stored.label /\ machine = "none")
=============================================================================
