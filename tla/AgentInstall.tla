---------------------------- MODULE AgentInstall ----------------------------
(***************************************************************************)
(* "agent init" and the two ways to uninstall the agent, the request that  *)
(* the provider sends and the command (agent/pkg/install, agent/cmd): what *)
(* they leave on the host when they are interrupted and repeated, next to  *)
(* a daemon that systemd restarts.  The provider repeats its calls, and    *)
(* gives up on an agent that its probe finds unhealthy; nobody repeats a   *)
(* command.                                                                *)
(*                                                                         *)
(* A version stands for the keys and the configuration of one attempt: the *)
(* provider sends the current ones each time (pkg/agent/helper.go).        *)
(***************************************************************************)
EXTENDS Naturals, Sequences

CONSTANTS
    MaxVersion,     \* the last version
    MaxEvents       \* bound on failures and crashes

VARIABLES
    files,          \* the version of each file, 0 if it is missing
    data,           \* there are files of etcd or of Playbooks
    enabled,        \* the unit is enabled
    service,        \* what systemd does with the unit
    loaded,         \* the version that the daemon serves
    version,        \* the version that would be installed next
    op,             \* the command or request that is running
    verdict,        \* the last that has succeeded
    health,         \* what the provider knows of the agent
    gone,           \* the agent is to be uninstalled
    events,         \* observer: failures and crashes so far
    late            \* observer: the daemon has written data that had been removed

vars == <<files, data, enabled, service, loaded, version, op, verdict, health, gone, events,
          late>>

-----------------------------------------------------------------------------

Files == {"binary", "crt", "key", "ca", "config", "unit"}
NoFiles == [f \in Files |-> 0]
Versions == 0 .. MaxVersion

\* "restarting": Restart=always, every three seconds; its ActiveState is not "active".
\* "stopping": a job is to stop the unit, and the daemon runs to the end of its grace period.
Services == {"inactive", "active", "stopping", "restarting"}

\* Install
InitSteps == <<"stop", "binary", "crt", "key", "ca", "config", "unit", "enable", "start">>

\* Uninstall.  "internal" is /var/lib/kubeforce, where the configuration is.
UninstallSteps ==
    <<"data", "crt", "key", "ca", "internal", "binary", "disable", "unit", "stop">>

Steps == [init |-> InitSteps, request |-> UninstallSteps, command |-> UninstallSteps]

Idle == [kind |-> "none", at |-> 1]

\* What a daemon needs that starts, and the version that it then has.
Startable == files.binary # 0 /\ files.crt # 0 /\ files.crt = files.key /\ files.ca # 0

\* ConditionPathExists in the unit.  A daemon that cannot start goes on restarting.
Start ==
    IF files.config = 0 THEN service' = "inactive" /\ loaded' = 0
    ELSE Startable /\ service' = "active" /\ loaded' = files.crt

Stop == service' = "inactive" /\ loaded' = 0

Untouched == UNCHANGED <<version, health, gone, events, late>>

-----------------------------------------------------------------------------
(* The calls *)

Begin(k) ==
    /\ op = Idle
    /\ op' = [kind |-> k, at |-> 1]
    /\ UNCHANGED <<files, data, enabled, service, loaded, verdict>> /\ Untouched

\* Helper.Install, until it has succeeded once.
BeginInit == ~gone /\ verdict = "none" /\ Begin("init")

\* reconcileDelete: the handler runs in the daemon, with its configuration.
BeginRequest ==
    gone /\ health = "healthy" /\ verdict = "init" /\ service = "active" /\ Begin("request")

\* reconcileDelete of an agent that is not healthy: its finalizer goes, and no request is
\* sent any more.
Forget ==
    /\ gone /\ health = "unhealthy" /\ op.kind # "request"
    /\ health' = "forgotten"
    /\ UNCHANGED <<files, data, enabled, service, loaded, version, op, verdict, gone, events,
                   late>>

\* findConfig.  Without the file its result is used all the same, and the command
\* panics: then nothing begins.
BeginCommand == gone /\ verdict = "init" /\ files.config # 0 /\ Begin("command")

Now(k, s) == op.kind \in k /\ Steps[op.kind][op.at] = s
Uninstalling == {"request", "command"}

Then ==
    IF op.at < Len(Steps[op.kind])
    THEN op' = [op EXCEPT !.at = @ + 1] /\ UNCHANGED verdict
    ELSE op' = Idle /\ verdict' = op.kind

Write(f, v) ==
    /\ files' = [files EXCEPT ![f] = v]
    /\ UNCHANGED <<data, enabled, service, loaded>>

\* stopService: a unit that is being restarted is not stopped.
InitStop ==
    /\ Now({"init"}, "stop")
    /\ IF service = "active" THEN Stop ELSE UNCHANGED <<service, loaded>>
    /\ Then
    /\ UNCHANGED <<files, data, enabled>> /\ Untouched

\* copyBinary, copyTLSCerts, copyClientCACert, saveConfig and the unit's file.  The
\* binary of a daemon that runs cannot be overwritten.
InitWrite ==
    \E f \in Files :
        /\ Now({"init"}, f)
        /\ f = "binary" => service # "active"
        /\ Write(f, version)
        /\ Then
        /\ Untouched

InitBusy ==
    /\ Now({"init"}, "binary") /\ service = "active"
    /\ op' = Idle
    /\ UNCHANGED <<files, data, enabled, service, loaded, verdict>> /\ Untouched

InitEnable ==
    /\ Now({"init"}, "enable")
    /\ enabled' = TRUE
    /\ Then
    /\ UNCHANGED <<files, data, service, loaded>> /\ Untouched

\* StartUnit does nothing to a unit that is active.
InitStart ==
    /\ Now({"init"}, "start")
    /\ IF service = "active" THEN UNCHANGED <<service, loaded>> ELSE Start
    /\ Then
    /\ UNCHANGED <<files, data, enabled>> /\ Untouched

\* RemoveAll of what the configuration names, of the internal data, of the binary.
UninstallRemove_KeepsUnit ==
    \E f \in Files \cup {"data", "internal"} :
        /\ Now(Uninstalling, f)
        /\ files' = [g \in Files |->
                        IF \/ g = f /\ f # "unit"
                           \/ f = "internal" /\ g = "config"
                        THEN 0 ELSE files[g]]
        /\ data' = IF f \in {"data", "internal"} THEN FALSE ELSE data
        /\ Then
        /\ UNCHANGED <<enabled, service, loaded>> /\ Untouched
UninstallRemove ==
    \E f \in Files \cup {"data", "internal"} :
        /\ Now(Uninstalling, f)
        /\ files' = [g \in Files |->
                        IF g = f \/ (f = "internal" /\ g = "config") THEN 0 ELSE files[g]]
        /\ data' = IF f \in {"data", "internal"} THEN FALSE ELSE data
        /\ Then
        /\ UNCHANGED <<enabled, service, loaded>> /\ Untouched

\* removeService
UninstallDisable ==
    /\ Now(Uninstalling, "disable")
    /\ enabled' = FALSE
    /\ Then
    /\ UNCHANGED <<files, data, service, loaded>> /\ Untouched

\* A job to stop the unit is queued.  The request does not wait for it (wait is false):
\* it has succeeded while its own daemon still runs.
QueueStop ==
    IF service = "active" THEN service' = "stopping" /\ UNCHANGED loaded ELSE Stop

UninstallStop ==
    /\ Now(Uninstalling, "stop") /\ service \in {"active", "restarting"}
    /\ QueueStop
    /\ IF op.kind = "request" THEN Then ELSE UNCHANGED <<op, verdict>>
    /\ UNCHANGED <<files, data, enabled>> /\ Untouched

\* The command waits for the job.
UninstallStopped ==
    /\ Now({"command"}, "stop") /\ service = "inactive"
    /\ Then
    /\ UNCHANGED <<files, data, enabled, service, loaded>> /\ Untouched

-----------------------------------------------------------------------------
(* Failures and the daemon *)

Event == events < MaxEvents /\ events' = events + 1

\* A step fails, or the session is closed after a minute.
StepFails ==
    /\ op # Idle
    /\ Event
    /\ op' = Idle
    /\ UNCHANGED <<files, data, enabled, service, loaded, version, verdict, health, gone,
                   late>>

\* The daemon may be stopped before the request has been answered.
AnswerLost ==
    /\ Now({"request"}, "stop")
    /\ Event
    /\ QueueStop
    /\ op' = Idle
    /\ UNCHANGED <<files, data, enabled, version, verdict, health, gone, late>>

\* The daemon dies, and with it a request.
DaemonDies ==
    /\ service = "active"
    /\ Event
    /\ service' = "restarting" /\ loaded' = 0
    /\ op' = IF op.kind = "request" THEN Idle ELSE op
    /\ UNCHANGED <<files, data, enabled, version, verdict, health, gone, late>>

Reboot ==
    /\ Event
    /\ service' = IF enabled THEN "restarting" ELSE "inactive"
    /\ loaded' = 0
    /\ op' = Idle
    /\ UNCHANGED <<files, data, enabled, version, verdict, health, gone, late>>

SystemdStops ==
    /\ service = "stopping"
    /\ Stop
    /\ UNCHANGED <<files, data, enabled, op, verdict>> /\ Untouched

SystemdRestarts ==
    /\ service = "restarting"
    /\ Start
    /\ UNCHANGED <<files, data, enabled, op, verdict>> /\ Untouched

\* The server watches the files of its keys.
DaemonReloads ==
    /\ service = "active" /\ files.crt = files.key /\ files.crt \notin {0, loaded}
    /\ loaded' = files.crt
    /\ UNCHANGED <<files, data, enabled, service, op, verdict>> /\ Untouched

\* The probe of an installed agent (AgentProbe), until it is removed with the finalizer.
Probe ==
    LET h == IF service = "active" THEN "healthy" ELSE "unhealthy"
    IN  /\ verdict # "none" /\ health \notin {h, "forgotten"}
        /\ health' = h
        /\ UNCHANGED <<files, data, enabled, service, loaded, version, op, verdict, gone,
                       events, late>>

\* etcd and the controllers, to the very end of an uninstallation and beyond it.
DaemonWrites ==
    /\ service \in {"active", "stopping"} /\ ~data
    /\ data' = TRUE
    /\ late' = (late \/ op.kind \in Uninstalling \/ verdict \in Uninstalling)
    /\ UNCHANGED <<files, enabled, service, loaded, version, op, verdict, health, gone,
                   events>>

\* The provider's keys are renewed between two attempts (an attempt has its own copy),
\* and it wants the agent to go.
NewVersion ==
    /\ version < MaxVersion /\ verdict = "none" /\ op = Idle
    /\ version' = version + 1
    /\ UNCHANGED <<files, data, enabled, service, loaded, op, verdict, health, gone, events,
                   late>>

DeleteAgent ==
    /\ ~gone /\ verdict = "init"
    /\ gone' = TRUE
    /\ UNCHANGED <<files, data, enabled, service, loaded, version, op, verdict, health, events,
                   late>>

Init ==
    /\ files = NoFiles
    /\ data = FALSE
    /\ enabled = FALSE
    /\ service = "inactive"
    /\ loaded = 0
    /\ version = 1
    /\ op = Idle
    /\ verdict = "none"
    /\ health = "unhealthy"
    /\ gone = FALSE
    /\ events = 0
    /\ late = FALSE

Call ==
    \/ BeginInit \/ BeginRequest \/ Forget
    \/ InitStop \/ InitWrite \/ InitBusy \/ InitEnable \/ InitStart
    \/ UninstallRemove \/ UninstallDisable \/ UninstallStop \/ UninstallStopped

Daemon == SystemdStops \/ SystemdRestarts \/ DaemonReloads \/ Probe

Next ==
    \/ Call \/ BeginCommand \/ Daemon \/ DaemonWrites
    \/ StepFails \/ AnswerLost \/ DaemonDies \/ Reboot
    \/ NewVersion \/ DeleteAgent

\* What the provider does is repeated until it succeeds or the agent is forgotten, a call
\* goes on, and systemd and the probe do their part.  A command may never be given.
Fairness == WF_vars(Call) /\ WF_vars(Daemon)

Spec == Init /\ [][Next]_vars /\ Fairness

-----------------------------------------------------------------------------
(* Properties *)

TypeOK ==
    /\ files \in [Files -> Versions] /\ loaded \in Versions
    /\ service \in Services

\* An uninstallation that has succeeded, at once or repeated, leaves neither file nor unit;
\* no daemon either after the command, and after the request one that is being stopped;
\* data only if the daemon wrote it meanwhile.
UninstalledClean ==
    verdict \in Uninstalling =>
        /\ files = NoFiles /\ ~enabled
        /\ service = "inactive" \/ (verdict = "request" /\ service = "stopping")
        /\ data => late

\* The daemon gets to serve what was installed, whatever was interrupted before.  An agent
\* that is to go is uninstalled and its daemon stops; or its daemon has died, with whatever
\* was left by then, and the provider has forgotten it.
Converges ==
    IF gone THEN health = "forgotten" \/ (verdict \in Uninstalling /\ service = "inactive")
    ELSE /\ service = "active" /\ verdict = "init"
         /\ {files.crt, files.key, loaded} = {files.crt}
=============================================================================
