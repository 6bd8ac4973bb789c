--------------------------- MODULE MCAgents_proofs ---------------------------
(***************************************************************************)
(* The safety of what concerns agents.  Each part has an inductive         *)
(* invariant of its own, proved for the steps of that part; a behaviour    *)
(* stays with the part it began with.  The keys of an agent are in         *)
(* AgentKeys_proofs.                                                       *)
(***************************************************************************)
EXTENDS AgentKeys_proofs, FiniteSetTheorems

-----------------------------------------------------------------------------
(* The process of an agent *)

\* Start waits for the main runnables in their order; mainCtx is cancelled by the
\* goroutine that has seen the end of the controllers, and by nothing else.
DInv ==
    /\ pc \in AD!Places /\ run \in [AD!Runnables -> AD!RunStates]
    /\ ready \subseteq AD!MainSet /\ cancelled \subseteq {"main", "internal"}
    /\ awaited \in {1, 2, 3} /\ armed \in BOOLEAN
    /\ awaited \in {2, 3} => "etcd" \in ready
    /\ awaited = 3 => "server" \in ready
    /\ armed => pc \in {"running", "waiting"}
    /\ "main" \in cancelled => armed /\ run["controllers"] = "ended"
    /\ run["controllers"] # "new" => armed /\ ready = AD!MainSet

LEMMA DaemonInit ==
    ASSUME AD!Init
    PROVE  DInv
<1>1. /\ AD!Idle \in [AD!Runnables -> AD!RunStates]
      /\ AD!Idle["controllers"] = "new"
  BY DEF AD!Idle, AD!Runnables, AD!Regular, AD!RunStates
<1>2. /\ ~armed /\ armed \in BOOLEAN /\ awaited = 1 /\ ready = {} /\ cancelled = {}
      /\ pc = "down" /\ run = AD!Idle
  BY DEF AD!Init
<1> QED
  BY <1>1, <1>2 DEF DInv, AD!Places

LEMMA DaemonStep ==
    ASSUME DInv, [AD!Next]_(AD!vars)
    PROVE  DInv'
<1> DEFINE c == "controllers"
<1>1. /\ Len(AD!Main) = 2 /\ AD!Main[1] = "etcd" /\ AD!Main[2] = "server"
      /\ c \in AD!Runnables /\ c \notin AD!MainSet /\ c \in AD!Regular
      /\ AD!MainSet = {"etcd", "server"}
  BY DEF AD!Main, AD!Runnables, AD!MainSet, AD!Regular
<1>2. CASE UNCHANGED AD!vars
  BY <1>2 DEF AD!vars, DInv
<1>3. CASE AD!StartMain
  <2>1. run' \in [AD!Runnables -> AD!RunStates] /\ run'[c] = run[c]
    BY <1>1, <1>3 DEF AD!StartMain, AD!StartRunnable, DInv, AD!RunStates
  <2> QED
    BY <1>3, <2>1 DEF AD!StartMain, DInv, AD!Places
<1>4. CASE AD!LoadFails \/ AD!Terminate
  <2>1. UNCHANGED <<pc, run, ready, awaited, cancelled, armed>>
    BY <1>4 DEF AD!LoadFails, AD!Terminate
  <2> QED
    BY <2>1 DEF DInv
<1>5. CASE AD!AwaitReady
  <2>1. \/ awaited = 1 /\ awaited' = 2 /\ "etcd" \in ready
        \/ awaited = 2 /\ awaited' = 3 /\ "server" \in ready
    BY <1>1, <1>5 DEF AD!AwaitReady, DInv
  <2> QED
    BY <1>5, <2>1 DEF AD!AwaitReady, DInv
<1>6. CASE AD!StartRegular
  <2>1. run' \in [AD!Runnables -> AD!RunStates]
    BY <1>6 DEF AD!StartRegular, AD!StartRunnable, DInv, AD!RunStates
  <2>2. awaited = 3
    BY <1>1, <1>6 DEF AD!StartRegular, DInv
  <2>3. ready = AD!MainSet
    BY <1>1, <2>2 DEF DInv
  <2>4. "main" \notin cancelled
    BY <1>6 DEF AD!StartRegular, DInv
  <2>5. /\ pc' = "running" /\ armed' = TRUE /\ UNCHANGED <<ready, awaited, cancelled>>
    BY <1>6 DEF AD!StartRegular
  <2> QED
    BY <2>1, <2>2, <2>3, <2>4, <2>5 DEF DInv, AD!Places
<1>7. CASE AD!SelectDone
  BY <1>7 DEF AD!SelectDone, AD!Return, DInv, AD!Places
<1>8. CASE AD!CancelMain
  BY <1>1, <1>8 DEF AD!CancelMain, DInv
<1>9. CASE AD!AllEnded \/ AD!GraceExpires
  <2>1. AD!Exit
    BY <1>9 DEF AD!AllEnded, AD!GraceExpires
  <2>2. /\ AD!Idle \in [AD!Runnables -> AD!RunStates] /\ AD!Idle[c] = "new"
    BY <1>1 DEF AD!Idle, AD!RunStates
  <2>3. /\ ~armed' /\ armed' \in BOOLEAN /\ awaited' = 1 /\ ready' = {} /\ cancelled' = {}
        /\ pc' = "down" /\ run' = AD!Idle
    BY <2>1 DEF AD!Exit
  <2> QED
    BY <2>2, <2>3 DEF DInv, AD!Places
<1>10. ASSUME NEW r \in AD!Runnables, AD!BecomeReady(r) PROVE DInv'
  BY <1>10 DEF AD!BecomeReady, DInv
<1>11. ASSUME NEW r \in AD!Runnables, NEW s \in {"sending", "ended"},
              run[r] \in {"running", "sending"},
              run[r] = "sending" => s = "ended",
              run' = [run EXCEPT ![r] = s],
              UNCHANGED <<ready, awaited, armed>>,
              UNCHANGED <<pc, cancelled>> \/ AD!Return
       PROVE  DInv'
  <2>1. run' \in [AD!Runnables -> AD!RunStates]
    BY <1>11 DEF DInv, AD!RunStates
  <2>2. /\ run'[c] = run[c] \/ run[c] \in {"running", "sending"}
        /\ run'[c] # "new" => run[c] # "new"
    BY <1>1, <1>11 DEF DInv
  <2>3. "main" \in cancelled' => "main" \in cancelled
    BY <1>11 DEF AD!Return
  <2>4. cancelled' \subseteq {"main", "internal"} /\ pc' \in AD!Places
        /\ (armed' => pc' \in {"running", "waiting"})
    BY <1>11 DEF AD!Return, AD!Places, DInv
  <2> QED
    BY <1>11, <2>1, <2>2, <2>3, <2>4 DEF DInv
<1>12. ASSUME NEW r \in AD!Runnables,
              AD!Fail(r) \/ AD!End(r) \/ AD!AwaitError(r) \/ AD!SelectError(r) \/ AD!Drain(r)
       PROVE  DInv'
  BY <1>11, <1>12 DEF AD!Fail, AD!End, AD!AwaitError, AD!SelectError, AD!Drain
<1> QED
  BY <1>2, <1>3, <1>4, <1>5, <1>6, <1>7, <1>8, <1>9, <1>10, <1>12 DEF AD!Next

\* The components of mainRunnables run first and exit last, for every order of the
\* goroutines and any number of failures.
THEOREM MainFirstAndLast == Spec => []FirstAndLast
<1> DEFINE I == focus \in Parts /\ (focus = "daemon" => DInv)
<1>1. Init => I
  BY DaemonInit DEF Init, Parts
<1>2. I /\ [Next]_vars => I'
  BY PartSteps, DaemonStep
<1>3. I => FirstAndLast
  BY DEF DInv, FirstAndLast, Whose, Parts, AD!FirstAndLast, AD!Regular
<1> QED
  BY <1>1, <1>2, <1>3, PTL DEF Spec

-----------------------------------------------------------------------------
(* The installation of an agent *)

Kinds == {"none", "init", "request", "command"}

\* The steps of a call, by their number.
LEMMA StepNumbers ==
    /\ \A k \in AI!Uninstalling :
        /\ AI!Steps[k] = AI!UninstallSteps /\ k \in Kinds \ {"none", "init"}
    /\ AI!Steps["init"] = AI!InitSteps
    /\ Len(AI!InitSteps) = 9 /\ Len(AI!UninstallSteps) = 9
    /\ AI!UninstallSteps[1] = "data" /\ AI!UninstallSteps[2] = "crt"
    /\ AI!UninstallSteps[3] = "key" /\ AI!UninstallSteps[4] = "ca"
    /\ AI!UninstallSteps[5] = "internal" /\ AI!UninstallSteps[6] = "binary"
    /\ AI!UninstallSteps[7] = "disable" /\ AI!UninstallSteps[8] = "unit"
    /\ AI!UninstallSteps[9] = "stop"
<1>1. /\ AI!Steps["request"] = AI!UninstallSteps /\ AI!Steps["command"] = AI!UninstallSteps
      /\ AI!Steps["init"] = AI!InitSteps
  BY DEF AI!Steps
<1>2. Len(AI!InitSteps) = 9 /\ Len(AI!UninstallSteps) = 9
  BY DEF AI!InitSteps, AI!UninstallSteps
<1>3. /\ AI!UninstallSteps[1] = "data" /\ AI!UninstallSteps[2] = "crt"
      /\ AI!UninstallSteps[3] = "key" /\ AI!UninstallSteps[4] = "ca"
      /\ AI!UninstallSteps[5] = "internal" /\ AI!UninstallSteps[6] = "binary"
      /\ AI!UninstallSteps[7] = "disable" /\ AI!UninstallSteps[8] = "unit"
      /\ AI!UninstallSteps[9] = "stop"
  BY DEF AI!UninstallSteps
<1> QED
  BY <1>1, <1>2, <1>3 DEF AI!Uninstalling, Kinds

\* What an uninstallation has removed before its n-th step.
Removed(n) ==
    /\ n > 1 => (data => late)
    /\ n > 2 => files["crt"] = 0
    /\ n > 3 => files["key"] = 0
    /\ n > 4 => files["ca"] = 0
    /\ n > 5 => files["config"] = 0
    /\ n > 6 => files["binary"] = 0
    /\ n > 7 => ~enabled
    /\ n > 8 => files["unit"] = 0

\* Only one kind of call is made at a time: an installation until one has succeeded, then
\* uninstallations, until one has succeeded.
NTypes ==
    /\ files \in [AI!Files -> Nat] /\ version \in Nat
    /\ op \in [kind : Kinds, at : 1..9]
    /\ verdict \in Kinds
    /\ data \in BOOLEAN /\ late \in BOOLEAN /\ gone \in BOOLEAN /\ enabled \in BOOLEAN

NInv ==
    /\ NTypes
    /\ op.kind = "init" => verdict = "none" /\ ~gone
    /\ gone => verdict # "none"
    /\ op.kind \in AI!Uninstalling => gone /\ verdict = "init" /\ Removed(op.at)
    /\ verdict \in AI!Uninstalling => op.kind = "none" /\ AI!UninstalledClean

LEMMA IdleCall == AI!Idle \in [kind : Kinds, at : 1..9] /\ AI!Idle.kind = "none"
BY DEF AI!Idle, Kinds

LEMMA NoFilesLeft ==
    ASSUME NEW g \in [AI!Files -> Nat], \A f \in AI!Files : g[f] = 0
    PROVE  g = AI!NoFiles
BY DEF AI!NoFiles

LEMMA InstallInit ==
    ASSUME AI!Init
    PROVE  NInv
<1>1. AI!NoFiles \in [AI!Files -> Nat]
  BY DEF AI!NoFiles
<1>2. NTypes /\ op.kind = "none" /\ verdict = "none" /\ ~gone
  BY <1>1, IdleCall DEF AI!Init, NTypes, Kinds
<1> QED
  BY <1>2 DEF NInv, AI!Uninstalling

\* Steps that remove nothing and end no call.
LEMMA CallInterrupted ==
    ASSUME NInv, UNCHANGED <<files, version, data, enabled, verdict, gone, late>>,
           op' = op \/ op' = AI!Idle,
           verdict \in AI!Uninstalling => service' \in {service, "inactive"}
    PROVE  NInv'
<1>1. NTypes' /\ (op'.kind = "none" \/ op' = op)
  BY IdleCall DEF NInv, NTypes
<1>2. op'.kind # "none" => op' = op
  BY <1>1
<1>3. "none" \notin AI!Uninstalling /\ "none" # "init"
  BY DEF AI!Uninstalling
<1>4. op'.kind = "init" => verdict' = "none" /\ ~gone'
  BY <1>2, <1>3 DEF NInv
<1>5. op'.kind \in AI!Uninstalling => gone' /\ verdict' = "init" /\ Removed(op.at)' /\ op' = op
  BY <1>2, <1>3 DEF NInv, Removed
<1>6. verdict' \in AI!Uninstalling => op'.kind = "none" /\ AI!UninstalledClean'
  BY <1>1, IdleCall DEF NInv, AI!UninstalledClean
<1>7. gone' => verdict' # "none"
  BY DEF NInv
<1> QED
  BY <1>1, <1>4, <1>5, <1>6, <1>7 DEF NInv, Removed

LEMMA Failures ==
    ASSUME NInv, \/ AI!StepFails \/ AI!AnswerLost \/ AI!DaemonDies \/ AI!Reboot
                 \/ AI!SystemdStops \/ AI!SystemdRestarts \/ AI!DaemonReloads
                 \/ AI!Probe \/ AI!Forget
    PROVE  NInv'
<1>1. /\ UNCHANGED <<files, version, data, enabled, verdict, gone, late>>
      /\ op' = op \/ op' = AI!Idle
  BY DEF AI!StepFails, AI!AnswerLost, AI!DaemonDies, AI!Reboot, AI!SystemdStops,
         AI!SystemdRestarts, AI!DaemonReloads, AI!Probe, AI!Forget, AI!Untouched
<1>2. verdict \in AI!Uninstalling => /\ service \in {"inactive", "stopping"} /\ ~enabled
                                     /\ op.kind = "none"
  BY DEF NInv, AI!UninstalledClean
<1>3. verdict \in AI!Uninstalling => service' \in {service, "inactive"}
  <2>1. CASE AI!AnswerLost
    BY <1>2, <2>1 DEF AI!AnswerLost, AI!Now
  <2>2. CASE ~AI!AnswerLost
    BY <1>2, <2>2 DEF AI!StepFails, AI!DaemonDies, AI!Reboot, AI!SystemdStops, AI!Stop,
          AI!SystemdRestarts, AI!DaemonReloads, AI!Probe, AI!Forget
  <2> QED
    BY <2>1, <2>2
<1> QED
  BY <1>1, <1>3, CallInterrupted

\* A call begins: it has done nothing yet.
LEMMA CallBegins ==
    ASSUME NInv, AI!BeginInit \/ AI!BeginRequest \/ AI!BeginCommand
    PROVE  NInv'
<1>1. /\ UNCHANGED <<files, version, data, enabled, verdict, gone, late, service>>
      /\ verdict \in {"none", "init"}
  BY DEF AI!BeginInit, AI!BeginRequest, AI!BeginCommand, AI!Begin, AI!Untouched
<1>2. PICK k \in Kinds :
        /\ op' = [kind |-> k, at |-> 1]
        /\ \/ k = "init" /\ ~gone /\ verdict = "none"
           \/ k \in AI!Uninstalling /\ gone
  BY DEF AI!BeginInit, AI!BeginRequest, AI!BeginCommand, AI!Begin, AI!Uninstalling, Kinds
<1>3. op'.kind = k /\ op'.at = 1 /\ op' \in [kind : Kinds, at : 1..9]
  BY <1>2
<1>4. NTypes'
  BY <1>1, <1>3 DEF NInv, NTypes
<1>5. k = "init" => k \notin AI!Uninstalling
  BY DEF AI!Uninstalling
<1>6. Removed(1)'
  BY DEF Removed
<1>7. gone => verdict = "init"
  BY <1>1 DEF NInv
<1>8. verdict' \notin AI!Uninstalling
  BY <1>1 DEF AI!Uninstalling
<1> QED
  BY <1>1, <1>2, <1>3, <1>4, <1>5, <1>6, <1>7, <1>8 DEF NInv

\* The steps of a call: the next one, or the end.
LEMMA CallGoesOn ==
    ASSUME NInv, AI!Then, op.kind # "none"
    PROVE  /\ op.at < 9 => /\ op' \in [kind : Kinds, at : 1..9]
                           /\ op'.kind = op.kind /\ op'.at = op.at + 1 /\ verdict' = verdict
           /\ op.at = 9 => op' = AI!Idle /\ verdict' = op.kind
           /\ op.at \in 1..9
<1>1. op \in [kind : Kinds, at : 1..9] /\ op.kind \in Kinds /\ op.at \in 1..9
  BY DEF NInv, NTypes
<1>2. op.kind = "init" \/ op.kind \in AI!Uninstalling
  BY <1>1 DEF Kinds, AI!Uninstalling
<1>3. Len(AI!Steps[op.kind]) = 9
  BY <1>2, StepNumbers
<1>4. CASE op.at < 9
  <2>1. op' = [op EXCEPT !.at = @ + 1] /\ verdict' = verdict
    BY <1>3, <1>4 DEF AI!Then
  <2>2. op.at + 1 \in 1..9
    BY <1>1, <1>4
  <2> QED
    BY <1>1, <1>4, <2>1, <2>2
<1>5. CASE op.at = 9
  BY <1>1, <1>3, <1>5 DEF AI!Then
<1> QED
  BY <1>1, <1>4, <1>5

LEMMA InstallStep ==
    ASSUME NInv, AI!InitStop \/ AI!InitWrite \/ AI!InitBusy \/ AI!InitEnable \/ AI!InitStart
    PROVE  NInv'
<1>1. op.kind = "init" /\ verdict = "none" /\ ~gone /\ gone \in BOOLEAN
  BY DEF AI!InitStop, AI!InitWrite, AI!InitBusy, AI!InitEnable, AI!InitStart, AI!Now, NInv, NTypes
<1>2. UNCHANGED <<version, gone, late, data>>
  BY DEF AI!InitStop, AI!InitWrite, AI!InitBusy, AI!InitEnable, AI!InitStart, AI!Untouched, AI!Write
<1>3. enabled' \in BOOLEAN
  BY DEF AI!InitStop, AI!InitWrite, AI!InitBusy, AI!InitEnable, AI!InitStart, AI!Write, NInv, NTypes
<1>4. files' \in [AI!Files -> Nat]
  BY DEF AI!InitStop, AI!InitWrite, AI!InitBusy, AI!InitEnable, AI!InitStart, AI!Write, NInv, NTypes
<1>5. (AI!Then \/ (op' = AI!Idle /\ verdict' = verdict))
  BY DEF AI!InitStop, AI!InitWrite, AI!InitBusy, AI!InitEnable, AI!InitStart
<1>6. /\ op' \in [kind : Kinds, at : 1..9]
      /\ \/ op'.kind = "init" /\ verdict' = "none"
         \/ op'.kind = "none" /\ verdict' \in {"none", "init"}
  <2>1. CASE AI!Then
    <3>1. op.at < 9 \/ op.at = 9
      BY <1>1, <2>1, CallGoesOn
    <3> QED
      BY <1>1, <2>1, <3>1, CallGoesOn, IdleCall
  <2> QED
    BY <1>1, <1>5, <2>1, IdleCall
<1>7. op'.kind \notin AI!Uninstalling /\ verdict' \notin AI!Uninstalling
  BY <1>6 DEF AI!Uninstalling
<1>8. NTypes'
  BY <1>2, <1>3, <1>4, <1>6 DEF NInv, NTypes, Kinds
<1> QED
  BY <1>1, <1>2, <1>6, <1>7, <1>8 DEF NInv

\* A step of an uninstallation that is not the last.
LEMMA UninstallStep ==
    ASSUME NInv, AI!UninstallRemove \/ AI!UninstallDisable
    PROVE  NInv'
<1>1. /\ op.kind \in AI!Uninstalling /\ op.kind # "none" /\ op.kind # "init" /\ AI!Then
      /\ UNCHANGED <<version, gone, late>>
  BY DEF AI!UninstallRemove, AI!UninstallDisable, AI!Now, AI!Untouched, AI!Uninstalling
<1>2. op.at \in 1..9 /\ gone /\ verdict = "init" /\ Removed(op.at) /\ NTypes
  BY <1>1, CallGoesOn DEF NInv
<1> PICK n \in 1..9 : n = op.at
  BY <1>2
<1> DEFINE s == AI!UninstallSteps[n]
<1>3. AI!Steps[op.kind][op.at] = s
  BY <1>1, StepNumbers
<1> HIDE DEF s
<1>4. /\ files' \in [AI!Files -> Nat] /\ data' \in BOOLEAN /\ enabled' \in BOOLEAN
      /\ \A f \in AI!Files : files[f] = 0 => files'[f] = 0
      /\ data' => data
      /\ enabled' => enabled
      /\ s \in AI!Files => files'[s] = 0
      /\ s = "internal" => files'["config"] = 0
      /\ s = "data" => ~data'
      /\ s = "disable" => ~enabled'
      /\ s # "stop"
  <2>1. CASE AI!UninstallRemove
    <3>1. /\ s \in AI!Files \cup {"data", "internal"}
          /\ files' = [g \in AI!Files |->
                        IF g = s \/ (s = "internal" /\ g = "config") THEN 0 ELSE files[g]]
          /\ data' = IF s \in {"data", "internal"} THEN FALSE ELSE data
          /\ enabled' = enabled
      BY <1>3, <2>1 DEF AI!UninstallRemove, AI!Now
    <3>2. files' \in [AI!Files -> Nat] /\ \A f \in AI!Files : files[f] = 0 => files'[f] = 0
      BY <1>2, <3>1 DEF NTypes
    <3>3. /\ data' \in BOOLEAN /\ (data' => data) /\ (s = "data" => ~data')
          /\ enabled' \in BOOLEAN /\ (enabled' => enabled)
      BY <1>2, <3>1 DEF NTypes
    <3>4. /\ s \in AI!Files => files'[s] = 0
          /\ s = "internal" => files'["config"] = 0
      BY <3>1 DEF AI!Files
    <3>5. s # "stop" /\ s # "disable"
      BY <3>1 DEF AI!Files
    <3> QED
      BY <3>2, <3>3, <3>4, <3>5
  <2>2. CASE AI!UninstallDisable
    <3>1. s = "disable" /\ enabled' = FALSE /\ files' = files /\ data' = data
      BY <1>3, <2>2 DEF AI!UninstallDisable, AI!Now
    <3> QED
      BY <1>2, <3>1 DEF NTypes, AI!Files
  <2> QED
    BY <2>1, <2>2
<1>5. n < 9
  BY <1>4, StepNumbers DEF s
<1>6. /\ op' \in [kind : Kinds, at : 1..9]
      /\ op'.kind = op.kind /\ op'.at = n + 1 /\ verdict' = verdict
  BY <1>1, <1>5, CallGoesOn
<1>7. NTypes'
  BY <1>1, <1>2, <1>4, <1>6 DEF NTypes
<1>8. /\ n = 1 => s = "data"
      /\ n = 2 => s = "crt"
      /\ n = 3 => s = "key"
      /\ n = 4 => s = "ca"
      /\ n = 5 => s = "internal"
      /\ n = 6 => s = "binary"
      /\ n = 7 => s = "disable"
      /\ n = 8 => s = "unit"
  BY StepNumbers DEF s
<1>9. {"binary", "crt", "key", "ca", "config", "unit"} = AI!Files
  BY DEF AI!Files
<1>10. Removed(n + 1)'
  <2>1. Removed(n)
    BY <1>2
  <2>2. n = 1 \/ (data => late)
    BY <2>1 DEF Removed
  <2>3. data' => late'
    BY <1>1, <1>4, <1>8, <2>2
  <2>4. /\ n + 1 > 2 => n = 2 \/ n > 2
        /\ n + 1 > 3 => n = 3 \/ n > 3
        /\ n + 1 > 4 => n = 4 \/ n > 4
        /\ n + 1 > 5 => n = 5 \/ n > 5
        /\ n + 1 > 6 => n = 6 \/ n > 6
        /\ n + 1 > 7 => n = 7 \/ n > 7
        /\ n + 1 > 8 => n = 8 \/ n > 8
    OBVIOUS
  <2>5. /\ n + 1 > 2 => files'["crt"] = 0
        /\ n + 1 > 3 => files'["key"] = 0
        /\ n + 1 > 4 => files'["ca"] = 0
        /\ n + 1 > 5 => files'["config"] = 0
        /\ n + 1 > 6 => files'["binary"] = 0
        /\ n + 1 > 8 => files'["unit"] = 0
    BY <1>4, <1>8, <1>9, <2>1, <2>4 DEF Removed
  <2>6. n + 1 > 7 => ~enabled'
    BY <1>4, <1>8, <2>1, <2>4 DEF Removed
  <2> QED
    BY <2>3, <2>5, <2>6 DEF Removed
<1>11. Removed(op.at)'
  BY <1>6, <1>10 DEF Removed
<1>12. verdict' \notin AI!Uninstalling
  BY <1>2, <1>6 DEF AI!Uninstalling
<1> QED
  BY <1>1, <1>2, <1>6, <1>7, <1>11, <1>12 DEF NInv

\* The last step: nothing is left.
LEMMA UninstallEnds ==
    ASSUME NInv, AI!UninstallStop \/ AI!UninstallStopped
    PROVE  NInv'
<1>1. /\ op.kind \in AI!Uninstalling /\ op.kind # "none"
      /\ UNCHANGED <<version, gone, late, files, data, enabled>>
      /\ AI!Steps[op.kind][op.at] = "stop"
      /\ \/ UNCHANGED <<op, verdict>>
         \/ AI!Then /\ op.kind = "request" /\ service' \in {"inactive", "stopping"}
         \/ AI!Then /\ op.kind = "command" /\ service' = "inactive"
  BY DEF AI!UninstallStop, AI!UninstallStopped, AI!QueueStop, AI!Now, AI!Untouched,
         AI!Uninstalling, AI!Stop
<1>2. NTypes /\ gone /\ op.at \in 1..9 /\ verdict = "init"
  BY <1>1 DEF NInv, NTypes
<1>3. AI!UninstallSteps[op.at] = "stop"
  BY <1>1, StepNumbers
<1>4. op.at = 9
  BY <1>2, <1>3, StepNumbers
<1>5. CASE UNCHANGED <<op, verdict>>
  <2>1. verdict \notin AI!Uninstalling
    BY <1>2 DEF AI!Uninstalling
  <2> QED
    BY <1>1, <1>5, <2>1, CallInterrupted
<1>6. CASE /\ AI!Then
           /\ \/ service' = "inactive"
              \/ op.kind = "request" /\ service' = "stopping"
  <2>1. op' = AI!Idle /\ verdict' = op.kind
    BY <1>1, <1>4, <1>6, CallGoesOn
  <2>2. Removed(9)
    BY <1>1, <1>4 DEF NInv
  <2>3. \A f \in AI!Files : files[f] = 0
    BY <2>2 DEF Removed, AI!Files
  <2>4. files = AI!NoFiles
    BY <1>2, <2>3, NoFilesLeft DEF NTypes
  <2>5. ~enabled /\ (data => late)
    BY <2>2 DEF Removed
  <2>6. AI!UninstalledClean'
    BY <1>1, <1>6, <2>1, <2>4, <2>5 DEF AI!UninstalledClean, AI!NoFiles, AI!Files
  <2>7. NTypes'
    BY <1>1, <1>2, <2>1, IdleCall DEF NTypes
  <2>8. op'.kind = "none" /\ op'.kind \notin AI!Uninstalling
    BY <2>1, IdleCall DEF AI!Uninstalling
  <2> QED
    BY <1>1, <2>1, <2>6, <2>7, <2>8 DEF NInv
<1> QED
  BY <1>1, <1>5, <1>6

LEMMA HostSteps ==
    ASSUME NInv, AI!DaemonWrites \/ AI!NewVersion \/ AI!DeleteAgent
    PROVE  NInv'
<1>1. CASE AI!DaemonWrites
  <2>1. /\ UNCHANGED <<files, version, op, verdict, gone, enabled>>
        /\ data' = TRUE /\ UNCHANGED service
        /\ late' = (late \/ op.kind \in AI!Uninstalling \/ verdict \in AI!Uninstalling)
    BY <1>1 DEF AI!DaemonWrites
  <2>2. /\ late' \in BOOLEAN /\ (op.kind \in AI!Uninstalling => late')
        /\ verdict \in AI!Uninstalling => late'
    BY <2>1 DEF NInv, NTypes
  <2>3. NTypes'
    BY <2>1, <2>2 DEF NInv, NTypes
  <2>4. op.kind \in AI!Uninstalling => Removed(op.at)'
    BY <2>1, <2>2 DEF NInv, Removed
  <2>5. verdict \in AI!Uninstalling => AI!UninstalledClean'
    BY <2>1, <2>2 DEF NInv, AI!UninstalledClean
  <2> QED
    BY <2>1, <2>2, <2>3, <2>4, <2>5 DEF NInv, Removed
<1>2. CASE AI!NewVersion
  <2>1. /\ UNCHANGED <<files, data, enabled, service, op, verdict, gone, late>>
        /\ version' = version + 1 /\ verdict = "none"
    BY <1>2 DEF AI!NewVersion
  <2>2. version + 1 \in Nat
    BY DEF NInv, NTypes
  <2>3. NTypes' /\ verdict \notin AI!Uninstalling
    BY <2>1, <2>2 DEF NInv, NTypes, AI!Uninstalling
  <2> QED
    BY <2>1, <2>3 DEF NInv, Removed
<1>3. CASE AI!DeleteAgent
  <2>1. /\ UNCHANGED <<files, data, enabled, service, op, verdict, version, late>>
        /\ gone' = TRUE /\ verdict = "init"
    BY <1>3 DEF AI!DeleteAgent
  <2>2. NTypes' /\ verdict \notin AI!Uninstalling
    BY <2>1 DEF NInv, NTypes, AI!Uninstalling
  <2> QED
    BY <2>1, <2>2 DEF NInv, Removed
<1> QED
  BY <1>1, <1>2, <1>3

\* An uninstallation that has succeeded has removed everything, however often it was
\* interrupted, whichever way it was asked for and whatever was installed before.  Only
\* the request, which does not wait for removeService's job, leaves a daemon that is being
\* stopped; and the daemon may have written data again while the call ran or after it.
THEOREM NothingInstalledIsLeft == Spec => []UninstalledClean
<1> DEFINE I == focus \in Parts /\ (focus = "install" => NInv)
<1>1. Init => I
  BY InstallInit DEF Init, Parts
<1>2. I /\ [Next]_vars => I'
  <2> SUFFICES ASSUME focus \in Parts, focus = "install" => NInv, [Next]_vars
               PROVE  I'
    OBVIOUS
  <2>1. focus' = focus /\ (focus = "install" => [AI!Next]_(AI!vars))
    BY PartSteps
  <2>2. ASSUME focus = "install", UNCHANGED AI!vars PROVE NInv'
    <3>1. UNCHANGED <<files, version, data, enabled, verdict, gone, late, op, service>> /\ NInv
      BY <2>2 DEF AI!vars
    <3> QED
      BY <3>1, CallInterrupted DEF NInv, AI!UninstalledClean
  <2>3. ASSUME focus = "install", AI!Next PROVE NInv'
    BY <2>3, Failures, CallBegins, InstallStep, UninstallStep, UninstallEnds, HostSteps
       DEF AI!Next, AI!Call, AI!Daemon
  <2> QED
    BY <2>1, <2>2, <2>3
<1>3. I => UninstalledClean
  BY DEF NInv, UninstalledClean, Whose, Parts, AI!UninstalledClean
<1> QED
  BY <1>1, <1>2, <1>3, PTL DEF Spec

-----------------------------------------------------------------------------
(* The start of the provider *)

SInv ==
    /\ resource \in [ST!Resources -> ST!Content]
    /\ next \in 1..5
    /\ version \in [Replicas -> {"v1", "v2"}]
    /\ ST!InitializedInOrder

LEMMA ResourceOrder ==
    /\ Len(ST!Order) = 4
    /\ \A i \in 1..4 : ST!Order[i] \in ST!Resources
    /\ \A i, j \in 1..4 : ST!Order[i] = ST!Order[j] => i = j
<1>1. /\ Len(ST!Order) = 4 /\ DOMAIN ST!Order = 1..4
      /\ ST!Order[1] = "github" /\ ST!Order[2] = "installer"
      /\ ST!Order[3] = "cleaner" /\ ST!Order[4] = "loadbalancer"
  BY DEF ST!Order
<1>2. \A i \in 1..4 : ST!Order[i] \in ST!Resources
  BY <1>1 DEF ST!Resources
<1>3. \A i, j \in 1..4 : ST!Order[i] = ST!Order[j] => i = j
  BY <1>1
<1> QED
  BY <1>1, <1>2, <1>3

LEMMA StartInit ==
    ASSUME ST!Init
    PROVE  SInv
BY DEF ST!Init, SInv, ST!InitializedInOrder, ST!Content

LEMMA StartStep ==
    ASSUME SInv, [ST!Next]_(ST!vars)
    PROVE  SInv'
<1> DEFINE Order == ST!Order
           Wanted(r, p) == ST!Wanted(r, p)
<1>1. \A r, p : p \in Replicas => Wanted(r, p) \in ST!Content
  BY DEF ST!Wanted, ST!Content, SInv
<1>2. CASE UNCHANGED ST!vars
  BY <1>2 DEF ST!vars, SInv, ST!InitializedInOrder, ST!Wanted
<1>3. ASSUME NEW p \in Replicas, ST!Lead(p) PROVE SInv'
  BY <1>3 DEF ST!Lead, SInv, ST!InitializedInOrder
<1>4. ASSUME NEW p \in Replicas, ST!Ensure(p) PROVE SInv'
  <2>1. /\ leader = p /\ next \in 1..4 /\ next' = next + 1
        /\ leader' = leader /\ version' = version
        /\ \/ /\ resource' = [resource EXCEPT ![Order[next]] = Wanted(Order[next], p)]
              /\ edited' = edited \ {Order[next]}
           \/ Order[next] \in edited /\ UNCHANGED <<resource, edited>>
    BY <1>4, ResourceOrder DEF ST!Ensure, ST!Started, SInv
  <2>2. resource' \in [ST!Resources -> ST!Content] /\ next' \in 1..5
    BY <1>1, <2>1, ResourceOrder DEF SInv
  <2>3. ASSUME leader # Nobody, NEW i \in 1 .. next' - 1, Order[i] \notin edited'
        PROVE  resource'[Order[i]] = Wanted(Order[i], p)
    <3>1. i \in 1..4 /\ (i = next \/ i \in 1 .. next - 1)
      BY <2>1
    <3>2. CASE i = next
      <4>1. resource' = [resource EXCEPT ![Order[next]] = Wanted(Order[next], p)]
        BY <2>1, <2>3, <3>2
      <4> QED
        BY <2>1, <3>1, <3>2, <4>1, ResourceOrder DEF SInv
    <3>3. CASE i # next
      <4>1. Order[i] # Order[next] /\ Order[i] \in ST!Resources
        BY <2>1, <3>1, <3>3, ResourceOrder
      <4>2. Order[i] \notin edited
        BY <2>1, <2>3, <4>1
      <4>3. resource[Order[i]] = Wanted(Order[i], p)
        BY <2>1, <2>3, <3>1, <3>3, <4>2 DEF SInv, ST!InitializedInOrder
      <4> QED
        BY <2>1, <4>1, <4>3 DEF SInv
    <3> QED
      BY <3>2, <3>3
  <2>4. ST!InitializedInOrder'
    <3> SUFFICES ASSUME leader' # Nobody, NEW i \in 1 .. next' - 1, Order[i] \notin edited'
                 PROVE  resource'[Order[i]] = Wanted(Order[i], leader)'
      BY DEF ST!InitializedInOrder
    <3> QED
      BY <2>1, <2>3 DEF ST!Wanted
  <2> QED
    BY <2>1, <2>2, <2>4 DEF SInv
<1>5. ASSUME NEW p \in Replicas, ST!EnsureFails(p) PROVE SInv'
  <2>1. next \in 1..4 /\ next' = 1 /\ version' = version
        /\ resource' \in {resource, [resource EXCEPT ![Order[next]] = Wanted(Order[next], p)]}
    BY <1>5, ResourceOrder DEF ST!EnsureFails, SInv
  <2>2. resource' \in [ST!Resources -> ST!Content]
    BY <1>1, <2>1, ResourceOrder DEF SInv
  <2> QED
    BY <2>1, <2>2 DEF SInv, ST!InitializedInOrder
<1>6. ASSUME NEW p \in Replicas, ST!Stop(p) PROVE SInv'
  BY <1>6 DEF ST!Stop, SInv, ST!InitializedInOrder
<1>7. ASSUME NEW r \in ST!Resources, ST!Edit(r) PROVE SInv'
  <2>1. PICK c \in ST!Content : resource' = [resource EXCEPT ![r] = c]
    BY <1>7 DEF ST!Edit, ST!Content
  <2>2. edited' = edited \cup {r} /\ UNCHANGED <<leader, next, version>>
    BY <1>7 DEF ST!Edit
  <2>3. resource' \in [ST!Resources -> ST!Content]
    BY <2>1 DEF SInv
  <2>4. ST!InitializedInOrder'
    <3> SUFFICES ASSUME leader' # Nobody, NEW i \in 1 .. next' - 1, Order[i] \notin edited'
                 PROVE  resource'[Order[i]] = Wanted(Order[i], leader)'
      BY DEF ST!InitializedInOrder
    <3>1. i \in 1..4 /\ Order[i] \in ST!Resources
      BY <2>2, ResourceOrder DEF SInv
    <3>2. Order[i] # r /\ resource[Order[i]] = Wanted(Order[i], leader)
      BY <2>2 DEF SInv, ST!InitializedInOrder
    <3> QED
      BY <2>1, <2>2, <3>1, <3>2 DEF SInv, ST!Wanted
  <2> QED
    BY <2>2, <2>3, <2>4 DEF SInv
<1> QED
  BY <1>2, <1>3, <1>4, <1>5, <1>6, <1>7 DEF ST!Next

-----------------------------------------------------------------------------
(* The storage of files *)

Holding == {"checking", "opening", "downloading", "renaming", "cleaning"}

\* The mutex serializes the requests for the file, but not its removal.  What is renamed
\* is complete or has gone, and every download but one has been paid for with an event.
FInv ==
    /\ disk \in FR!Disk
    /\ pc \in [Workers -> FR!Requesting]
    /\ downloads \in Nat /\ events \in Nat
    /\ \A w \in Workers : pc[w] \in Holding => lock = w
    /\ \A w \in Workers : pc[w] = "renaming" => disk.tmp # "partial"
    /\ \A w \in Workers : pc[w] = "opening" => disk.tmp = "absent" /\ disk.file = "absent"
    /\ \A w \in Workers : pc[w] = "cleaning" /\ disk.file = "absent" => downloads <= events
    /\ disk.file = "absent" /\ disk.tmp = "absent" => downloads <= events
    /\ disk.file # "partial"
    /\ downloads <= 1 + events

LEMMA FilesInit ==
    ASSUME FR!Init
    PROVE  FInv
BY DEF FR!Init, FInv, FR!EmptyDisk, FR!Disk, FR!Contents, FR!Requesting, Holding

\* While w holds the mutex, nobody else is beyond it.
LEMMA Exclusive ==
    ASSUME FInv, NEW w \in Workers, pc[w] \in Holding
    PROVE  \A v \in Workers : v # w => pc[v] \notin Holding
BY DEF FInv

LEMMA FilesStep ==
    ASSUME FInv, [FR!Next]_(FR!vars)
    PROVE  FInv'
<1>0. \A w \in Workers : w # Nobody
  BY NobodyAssumption
<1> USE DEF Holding
<1>1. CASE UNCHANGED FR!vars
  BY <1>1 DEF FR!vars, FInv
<1>2. ASSUME NEW w \in Workers, FR!Request(w) PROVE FInv'
  BY <1>2 DEF FR!Request, FR!Step, FInv, FR!Requesting
<1>3. ASSUME NEW w \in Workers, FR!Lock(w) PROVE FInv'
  BY <1>0, <1>3 DEF FR!Lock, FR!Step, FInv, FR!Requesting
<1>4. ASSUME NEW w \in Workers, FR!Found(w) \/ FR!FoundTemporary(w) PROVE FInv'
  <2>1. \A v \in Workers : v # w => pc[v] \notin Holding
    BY <1>4, Exclusive DEF FR!Found, FR!FoundTemporary, FR!Step
  <2> QED
    BY <1>4, <2>1 DEF FR!Found, FR!FoundTemporary, FR!Step, FInv, FR!Requesting
<1>5. ASSUME NEW w \in Workers, FR!MkdirAll(w) PROVE FInv'
  <2>1. \A v \in Workers : v # w => pc[v] \notin Holding
    BY <1>5, Exclusive DEF FR!MkdirAll, FR!Step
  <2> QED
    BY <1>5, <2>1 DEF FR!MkdirAll, FR!Step, FInv, FR!Requesting, FR!Disk
<1>6. ASSUME NEW w \in Workers, FR!OpenFile(w) PROVE FInv'
  <2>1. \A v \in Workers : v # w => pc[v] \notin Holding
    BY <1>6, Exclusive DEF FR!OpenFile, FR!Step
  <2> QED
    BY <1>6, <2>1 DEF FR!OpenFile, FR!Step, FInv, FR!Requesting, FR!Disk, FR!Contents
<1>7. ASSUME NEW w \in Workers, FR!OpenFileFails(w) PROVE FInv'
  <2>1. \A v \in Workers : v # w => pc[v] \notin Holding
    BY <1>7, Exclusive DEF FR!OpenFileFails, FR!Step
  <2> QED
    BY <1>7, <2>1 DEF FR!OpenFileFails, FR!Step, FInv, FR!Requesting
<1>8. ASSUME NEW w \in Workers, FR!Download(w) PROVE FInv'
  <2>1. \A v \in Workers : v # w => pc[v] \notin Holding
    BY <1>8, Exclusive DEF FR!Download, FR!Step
  <2>2. /\ disk' \in FR!Disk /\ disk'.tmp # "partial" /\ disk'.file = disk.file
        /\ disk'.tmp = "absent" => disk.tmp = "absent"
    BY <1>8 DEF FR!Download, FInv, FR!Disk, FR!Contents
  <2> QED
    BY <1>8, <2>1, <2>2 DEF FR!Download, FR!Step, FInv, FR!Requesting
<1>9. ASSUME NEW w \in Workers, FR!DownloadFails(w) PROVE FInv'
  <2>1. \A v \in Workers : v # w => pc[v] \notin Holding
    BY <1>9, Exclusive DEF FR!DownloadFails, FR!Step
  <2>2. events' = events + 1 /\ events' \in Nat /\ downloads <= events'
    BY <1>9 DEF FR!DownloadFails, FR!Event, FInv
  <2> QED
    BY <1>9, <2>1, <2>2 DEF FR!DownloadFails, FR!Step, FInv, FR!Requesting
<1>10. ASSUME NEW w \in Workers, FR!Rename(w) PROVE FInv'
  <2>1. \A v \in Workers : v # w => pc[v] \notin Holding
    BY <1>10, Exclusive DEF FR!Rename, FR!Step
  <2>2. /\ disk' \in FR!Disk /\ disk'.file # "partial" /\ disk'.tmp = "absent"
        /\ disk'.file = "absent" => disk.file = "absent" /\ disk.tmp = "absent"
    BY <1>10 DEF FR!Rename, FR!Step, FInv, FR!Disk, FR!Contents
  <2> QED
    BY <1>10, <2>1, <2>2 DEF FR!Rename, FR!Step, FInv, FR!Requesting
<1>11. ASSUME NEW w \in Workers, FR!CleanUp(w) PROVE FInv'
  <2>1. \A v \in Workers : v # w => pc[v] \notin Holding
    BY <1>11, Exclusive DEF FR!CleanUp, FR!Step
  <2>2. disk' \in FR!Disk /\ disk'.file = disk.file /\ disk'.tmp = "absent"
    BY <1>11 DEF FR!CleanUp, FInv, FR!Disk, FR!Contents
  <2> QED
    BY <1>11, <2>1, <2>2 DEF FR!CleanUp, FR!Step, FInv, FR!Requesting
<1>12. CASE FR!ReconcileDelete
  BY <1>12 DEF FR!ReconcileDelete, FInv, FR!EmptyDisk, FR!Disk, FR!Contents
<1>13. CASE FR!CreateRepository \/ FR!DeleteRepository
  <2>1. /\ UNCHANGED <<disk, lock, pc, downloads>>
        /\ events' = events \/ events' = events + 1
    BY <1>13 DEF FR!CreateRepository, FR!DeleteRepository, FR!Event
  <2> QED
    BY <2>1 DEF FInv
<1>14. CASE FR!Crash
  <2>1. /\ UNCHANGED <<disk, downloads>> /\ events' = events + 1 /\ pc' = [w \in Workers |-> "idle"]
    BY <1>14 DEF FR!Crash, FR!Event
  <2>2. events' \in Nat /\ downloads <= events'
    BY <2>1 DEF FInv
  <2> QED
    BY <2>1, <2>2 DEF FInv, FR!Requesting
<1> QED
  BY <1>1, <1>2, <1>3, <1>4, <1>5, <1>6, <1>7, <1>8, <1>9, <1>10, <1>11, <1>12, <1>13, <1>14
     DEF FR!Next, FR!GetFile

LEMMA SameCardinality ==
    ASSUME NEW S
    PROVE  FR!Cardinality(S) = Cardinality(S)
BY DEF FR!Cardinality, Cardinality

LEMMA FilesWhole ==
    ASSUME FInv
    PROVE  FR!FetchedWhole
<1> DEFINE S == {w \in Workers : pc[w] \in {"opening", "downloading", "renaming"}}
<1>1. \A v, w \in S : v = w
  BY DEF FInv, Holding
<1>2. Cardinality(S) <= 1
  <2>1. CASE S = {}
    BY <2>1, FS_EmptySet
  <2>2. CASE S # {}
    <3>1. PICK w : S = {w}
      BY <1>1, <2>2
    <3> QED
      BY <3>1, FS_Singleton
  <2> QED
    BY <2>1, <2>2
<1> QED
  BY <1>2, SameCardinality DEF FR!FetchedWhole, FInv

-----------------------------------------------------------------------------
(* The agents of a group *)

\* The group's view of the informer is the module Informer.
LEMMA SameInformer ==
    /\ \A o, v : KG!Store(o, v) = Store(o, v) /\ KG!Overflows(o, v) = Overflows(o, v)
    /\ \A o : KG!Deliver(o) = Deliver(o) /\ KG!Current(o) = Current(o)
    /\ \A v : KG!Listed(v) = Listed(v)
    /\ \A V : KG!Object(V) = Object(V)
    /\ \A S : KG!Cardinality(S) = Cardinality(S)
<1>1. \A o, v : KG!Store(o, v) = Store(o, v) /\ KG!Overflows(o, v) = Overflows(o, v)
  BY DEF KG!Store, Store, KG!Overflows, Overflows, KG!Changes, Changes
<1>2. \A o : KG!Deliver(o) = Deliver(o) /\ KG!Current(o) = Current(o)
  BY DEF KG!Deliver, Deliver, KG!Current, Current
<1>3. \A v : KG!Listed(v) = Listed(v)
  BY DEF KG!Listed, Listed
<1>4. \A V : KG!Object(V) = Object(V)
  BY DEF KG!Object, Object
<1>5. ASSUME NEW S PROVE KG!Cardinality(S) = Cardinality(S)
  BY DEF KG!Cardinality, Cardinality
<1> QED
  BY <1>1, <1>2, <1>3, <1>4, <1>5

Groups == KG!Group

\* The agents that the list shows as ready.
ReadyAgents ==
    {n \in Names : agents[n].cached.there /\ agents[n].cached.runs /\ agents[n].cached.seen}

\* An agent that goes, or has gone.
Going(n) == ~agents[n].stored.there \/ agents[n].stored.deleting

\* v says of the group what its copy and the list of its agents ask for, and the agents
\* that it does not want are on their way.
Correct(v) ==
    /\ v.ready <=> Cardinality(ReadyAgents) = Cardinality(obj.cached.desired)
    /\ \A n \in Names \ obj.cached.desired : agents[n].cached.there => Going(n)

GTypes ==
    /\ obj \in Object(Groups) /\ Coherent(obj) /\ dirty \in BOOLEAN
    /\ work.busy => work.old \in Groups /\ work.new \in Groups
    /\ agents \in [Names -> [stored : KG!AgentState, cached : KG!AgentState]]
    /\ \A n \in Names : agents[n].stored.deleting => ~agents[n].stored.seen

\* A reconcile that is not repeated has read the copy that the group has now, and writes
\* the right count or something else that brings the key back.
Counting ==
    work.busy /\ ~dirty =>
        /\ obj.cached = work.old /\ obj.cached.exists
        /\ \/ obj.cached.deleting
           \/ work.new.own # work.old.own \/ work.new.finalizer # work.old.finalizer
           \/ Correct(work.new)

\* A group that nobody will look at again has the right count.
AtRest ==
    ~work.busy /\ ~dirty /\ Current(obj) /\ obj.cached.exists /\ ~obj.cached.deleting
    => Correct(obj.cached)

GInv == GTypes /\ Counting /\ AtRest

LEMMA GroupTypes ==
    ASSUME GTypes
    PROVE  /\ obj.stored \in Groups /\ obj.cached \in Groups
           /\ obj.cached.desired \in SUBSET Names
           /\ \A n \in Names : /\ agents[n].stored \in KG!AgentState
                               /\ agents[n].cached \in KG!AgentState
           /\ IsFiniteSet(obj.cached.desired) /\ Cardinality(obj.cached.desired) \in Nat
           /\ Cardinality(ReadyAgents) \in Nat
<1>1. obj.stored \in Groups /\ obj.cached \in Groups
  BY DEF GTypes, Object
<1>2. obj.cached.desired \in SUBSET Names
  BY <1>1 DEF Groups, KG!Group
<1>3. IsFiniteSet(obj.cached.desired) /\ Cardinality(obj.cached.desired) \in Nat
  BY <1>2, NamesAssumption, FS_Subset, FS_CardinalityType
<1>4. ReadyAgents \subseteq Names
  BY DEF ReadyAgents
<1>5. Cardinality(ReadyAgents) \in Nat
  BY <1>4, NamesAssumption, FS_Subset, FS_CardinalityType
<1>6. \A n \in Names : /\ agents[n].stored \in KG!AgentState
                       /\ agents[n].cached \in KG!AgentState
  BY DEF GTypes
<1> QED
  BY <1>1, <1>2, <1>3, <1>5, <1>6

\* A count that is right of a group at rest is right of the agents.
LEMMA RestCount ==
    ASSUME GInv
    PROVE  KG!CountIsTrue
<1> SUFFICES ASSUME KG!Quiescent, obj.stored.exists, ~obj.stored.deleting
             PROVE  obj.stored.ready <=>
                        {n \in Names : KG!Ready(n, [x \in Names |-> agents[x].stored])}
                            = obj.stored.desired
  BY DEF KG!CountIsTrue
<1>1. /\ GTypes /\ ~dirty /\ ~work.busy /\ Current(obj)
      /\ \A n \in Names : agents[n].cached = agents[n].stored
  BY SameInformer DEF KG!Quiescent, KG!Fresh, GInv
<1>2. obj.cached = obj.stored
  BY <1>1 DEF GTypes, Coherent, Current
<1>3. Correct(obj.cached)
  BY <1>1, <1>2 DEF GInv, AtRest
<1> DEFINE R == {n \in Names : KG!Ready(n, [x \in Names |-> agents[x].stored])}
           d == obj.cached.desired
<1>4. R = ReadyAgents
  BY <1>1 DEF KG!Ready, ReadyAgents
<1>5. ReadyAgents \subseteq d
  <2> SUFFICES ASSUME NEW n \in ReadyAgents, n \notin d PROVE FALSE
    OBVIOUS
  <2>1. /\ n \in Names /\ agents[n].stored.there /\ agents[n].stored.seen
        /\ agents[n].cached.there
    BY <1>1 DEF ReadyAgents
  <2>2. Going(n)
    BY <1>3, <2>1 DEF Correct
  <2> QED
    BY <1>1, <2>1, <2>2 DEF Going, GTypes
<1>6. IsFiniteSet(d)
  BY <1>1, GroupTypes
<1>7. Cardinality(ReadyAgents) = Cardinality(d) <=> ReadyAgents = d
  BY <1>5, <1>6, FS_Subset
<1> QED
  BY <1>2, <1>3, <1>4, <1>7 DEF Correct

GroupFields ==
    {"exists", "deleting", "finalizer", "own", "desired", "template", "replicas",
     "readyReplicas", "ready"}

\* A patch writes the fields that were changed; an object without finalizer goes.
LEMMA MergedGroup ==
    ASSUME GTypes, work.busy, NEW F
    PROVE  /\ KG!Merged(obj.stored, F) \in Groups
           /\ \/ \A f \in GroupFields :
                    KG!Merged(obj.stored, F)[f] =
                        IF f \in F /\ work.new[f] # work.old[f] THEN work.new[f]
                        ELSE obj.stored[f]
              \/ ~KG!Merged(obj.stored, F).exists
<1> DEFINE c == obj.stored
           v == [f \in DOMAIN c |->
                    IF f \in F /\ work.new[f] # work.old[f] THEN work.new[f] ELSE c[f]]
<1>1. c \in Groups /\ work.new \in Groups /\ DOMAIN c = GroupFields
  BY GroupTypes DEF GTypes, Groups, KG!Group, GroupFields
<1>2. \A f \in GroupFields : v[f] = IF f \in F /\ work.new[f] # work.old[f] THEN work.new[f]
                                   ELSE c[f]
  BY <1>1
<1>3. v \in Groups
  <2>1. v = [exists |-> v["exists"], deleting |-> v["deleting"], finalizer |-> v["finalizer"],
             own |-> v["own"], desired |-> v["desired"], template |-> v["template"],
             replicas |-> v["replicas"], readyReplicas |-> v["readyReplicas"],
             ready |-> v["ready"]]
    BY <1>1 DEF GroupFields
  <2>2. /\ v["exists"] \in BOOLEAN /\ v["deleting"] \in BOOLEAN /\ v["finalizer"] \in BOOLEAN
        /\ v["own"] \in BOOLEAN /\ v["desired"] \in SUBSET Names /\ v["template"] \in {1, 2}
        /\ v["replicas"] \in Nat /\ v["readyReplicas"] \in Nat /\ v["ready"] \in BOOLEAN
    BY <1>1, <1>2 DEF Groups, KG!Group, GroupFields
  <2> QED
    BY <2>1, <2>2 DEF Groups, KG!Group
<1>4. KG!Merged(obj.stored, F) =
        IF v.deleting /\ ~v.finalizer THEN [v EXCEPT !.exists = FALSE] ELSE v
  BY DEF KG!Merged
<1> HIDE DEF v
<1>5. [v EXCEPT !.exists = FALSE] \in Groups /\ ~[v EXCEPT !.exists = FALSE].exists
  BY <1>3 DEF Groups, KG!Group
<1> QED
  BY <1>2, <1>3, <1>4, <1>5

\* What happens to the group puts its key in the queue, now or with an event.
GroupSeen ==
    /\ obj' \in Object(Groups) /\ Coherent(obj') /\ dirty' \in BOOLEAN
    /\ ~dirty' => ~dirty /\ obj'.cached = obj.cached
    /\ ~dirty' /\ Current(obj') => obj' = obj

\* Of the agents nothing is read, and those that go do not come back.
AgentsMove ==
    /\ agents' \in [Names -> [stored : KG!AgentState, cached : KG!AgentState]]
    /\ \A n \in Names :
        /\ agents'[n].stored.deleting => ~agents'[n].stored.seen
        /\ agents'[n].cached = agents[n].cached
        /\ Going(n) => Going(n)'

LEMMA GroupWritten ==
    ASSUME GTypes, NEW v \in Groups, obj' = Store(obj, v),
           dirty' \in BOOLEAN, dirty => dirty', Overflows(obj, v) => dirty'
    PROVE  GroupSeen
<1>1. obj' \in Object(Groups) /\ Coherent(obj')
  BY StoreType, StoreCoherent DEF GTypes
<1>2. ~dirty' => obj'.cached = obj.cached
  BY DEF Store
<1>3. ~dirty' /\ Current(obj') => obj' = obj
  BY UnnoticedWrite DEF GTypes
<1> QED
  BY <1>1, <1>2, <1>3 DEF GroupSeen, GTypes

LEMMA GroupStored ==
    ASSUME GTypes, NEW v \in Groups, KG!StoreObject(v)
    PROVE  GroupSeen
<1>1. obj' = Store(obj, v) /\ dirty' = (dirty \/ Overflows(obj, v))
  BY SameInformer DEF KG!StoreObject
<1>2. dirty \in BOOLEAN /\ Overflows(obj, v) \in BOOLEAN
  BY DEF GTypes, Overflows, Changes
<1> QED
  BY <1>1, <1>2, GroupWritten

LEMMA GroupLeft ==
    ASSUME GTypes, UNCHANGED <<obj, dirty>>
    PROVE  GroupSeen
BY DEF GTypes, GroupSeen

LEMMA AgentsStay ==
    ASSUME GTypes, UNCHANGED agents
    PROVE  AgentsMove
BY DEF GTypes, AgentsMove, Going

\* The count stays right while nobody looks.
LEMMA StaysCorrect ==
    ASSUME AgentsMove, obj'.cached = obj.cached, NEW v, NEW w, w.ready = v.ready,
           Correct(v)
    PROVE  (w.ready <=> Cardinality(ReadyAgents)' = Cardinality(obj'.cached.desired))
           /\ \A n \in Names \ obj'.cached.desired : agents'[n].cached.there => Going(n)'
<1>1. ReadyAgents' = ReadyAgents
  BY DEF AgentsMove, ReadyAgents
<1>2. \A n \in Names \ obj.cached.desired : agents'[n].cached.there => Going(n)'
  BY DEF Correct, AgentsMove
<1> QED
  BY <1>1, <1>2 DEF Correct

\* Steps that leave the reconcile alone.
LEMMA GroupSurroundings ==
    ASSUME GInv, GroupSeen, AgentsMove, UNCHANGED work
    PROVE  GInv'
<1>1. GTypes'
  BY DEF GInv, GTypes, GroupSeen, AgentsMove
<1>2. Counting'
  <2> SUFFICES ASSUME work.busy, ~dirty', ~obj'.cached.deleting,
                      work.new.own = work.old.own, work.new.finalizer = work.old.finalizer
               PROVE  /\ obj'.cached = work.old /\ obj'.cached.exists
                      /\ Correct(work.new)'
    <3>1. work.busy /\ ~dirty' => obj'.cached = work.old /\ obj'.cached.exists
      BY DEF GInv, Counting, GroupSeen
    <3> QED
      BY <3>1 DEF Counting
  <2>1. ~dirty /\ obj'.cached = obj.cached
    BY DEF GroupSeen
  <2>2. obj.cached = work.old /\ obj.cached.exists /\ Correct(work.new)
    BY <2>1 DEF GInv, Counting
  <2> QED
    BY <2>1, <2>2, StaysCorrect DEF Correct
<1>3. AtRest'
  <2> SUFFICES ASSUME ~work.busy, ~dirty', Current(obj'), obj'.cached.exists,
                      ~obj'.cached.deleting
               PROVE  Correct(obj.cached)'
    BY DEF AtRest
  <2>1. ~dirty /\ obj' = obj
    BY DEF GroupSeen
  <2>2. Correct(obj.cached)
    BY <2>1 DEF GInv, AtRest
  <2> QED
    BY <2>1, <2>2, StaysCorrect DEF Correct
<1> QED
  BY <1>1, <1>2, <1>3 DEF GInv

\* The steps of the watches, of the agents and of the users.
LEMMA GroupEvents ==
    ASSUME GInv, \/ KG!ObserveEvent \/ KG!CollectGroup \/ KG!ChangeSpec \/ KG!DeleteGroup
    PROVE  GInv'
<1>1. GTypes /\ obj.stored \in Groups
  BY GroupTypes DEF GInv
<1>2. UNCHANGED <<agents, work>>
  BY DEF KG!ObserveEvent, KG!CollectGroup, KG!ChangeSpec, KG!DeleteGroup, KG!DeliverEvent,
         KG!RequestDelete
<1>3. AgentsMove
  BY <1>1, <1>2, AgentsStay
<1>4. CASE KG!ObserveEvent
  <2>1. ~Current(obj) /\ obj' = Deliver(obj) /\ dirty' = TRUE
    BY <1>4, SameInformer DEF KG!ObserveEvent, KG!DeliverEvent
  <2>2. obj' \in Object(Groups) /\ Coherent(obj')
    BY <1>1, <2>1, DeliverType, DeliverCoherent DEF GTypes
  <2>3. GroupSeen
    BY <2>1, <2>2 DEF GroupSeen
  <2> QED
    BY <1>2, <1>3, <2>3, GroupSurroundings
<1>5. CASE KG!CollectGroup \/ KG!ChangeSpec \/ KG!DeleteGroup
  <2>1. /\ [obj.stored EXCEPT !.finalizer = FALSE, !.exists = FALSE] \in Groups
        /\ [obj.stored EXCEPT !.deleting = TRUE] \in Groups
        /\ [obj.stored EXCEPT !.deleting = TRUE, !.exists = FALSE] \in Groups
        /\ \A d \in SUBSET Names, t \in {1, 2} :
                [obj.stored EXCEPT !.desired = d, !.template = t] \in Groups
    BY <1>1 DEF Groups, KG!Group
  <2>2. \E v \in Groups : KG!StoreObject(v)
    BY <1>5, <2>1 DEF KG!CollectGroup, KG!ChangeSpec, KG!DeleteGroup, KG!RequestDelete
  <2>3. GroupSeen
    BY <1>1, <2>2, GroupStored
  <2> QED
    BY <1>2, <1>3, <2>3, GroupSurroundings
<1> QED
  BY <1>4, <1>5

LEMMA NoAgentType ==
    /\ KG!NoAgent \in KG!AgentState /\ ~KG!NoAgent.there /\ ~KG!NoAgent.deleting
    /\ \A t \in {1, 2} : /\ KG!NewAgent(t) \in KG!AgentState /\ ~KG!NewAgent(t).deleting
    /\ \A a \in KG!AgentState :
        /\ KG!Deleted(a) \in KG!AgentState
        /\ ~KG!Deleted(a).there \/ (KG!Deleted(a).deleting /\ ~KG!Deleted(a).seen)
        /\ KG!Deleted(a).deleting /\ (a.deleting => ~a.seen) => ~KG!Deleted(a).seen
        /\ \A t \in {1, 2} :
            /\ KG!Updated(a, t) \in KG!AgentState
            /\ KG!Updated(a, t).deleting = a.deleting
            /\ ~a.seen => ~KG!Updated(a, t).seen
<1>1. KG!NoAgent \in KG!AgentState /\ ~KG!NoAgent.there /\ ~KG!NoAgent.deleting
  BY DEF KG!NoAgent, KG!AgentState
<1>2. \A t \in {1, 2} : /\ KG!NewAgent(t) \in KG!AgentState /\ ~KG!NewAgent(t).deleting
  BY <1>1 DEF KG!NewAgent, KG!AgentState
<1>3. \A a \in KG!AgentState :
        /\ KG!Deleted(a) \in KG!AgentState
        /\ ~KG!Deleted(a).there \/ (KG!Deleted(a).deleting /\ ~KG!Deleted(a).seen)
        /\ KG!Deleted(a).deleting /\ (a.deleting => ~a.seen) => ~KG!Deleted(a).seen
  BY DEF KG!Deleted, KG!AgentState
<1>4. \A a \in KG!AgentState, t \in {1, 2} :
            /\ KG!Updated(a, t) \in KG!AgentState
            /\ KG!Updated(a, t).deleting = a.deleting
            /\ ~a.seen => ~KG!Updated(a, t).seen
  BY DEF KG!Updated, KG!AgentState
<1> QED
  BY <1>1, <1>2, <1>3, <1>4

LEMMA AgentEvents ==
    ASSUME GInv, KG!AgentRuns \/ KG!AgentGoes \/ KG!AgentFails \/ KG!CollectAgent
    PROVE  GInv'
<1>1. GTypes
  BY DEF GInv
<1>2. UNCHANGED <<obj, dirty, work>>
  BY <1>1 DEF KG!AgentRuns, KG!AgentGoes, KG!AgentFails, KG!CollectAgent, KG!queue, KG!Change,
              GTypes
<1>3. PICK n \in Names, a \in KG!AgentState :
        /\ agents' = [agents EXCEPT ![n].stored = a]
        /\ Going(n) => ~a.there \/ a.deleting
        /\ a.deleting => ~a.seen
  <2>1. CASE KG!AgentRuns
    <3>1. PICK n \in Names :
            /\ agents[n].stored.there /\ ~agents[n].stored.deleting
            /\ agents' = [agents EXCEPT ![n].stored =
                            [agents[n].stored EXCEPT !.runs = TRUE, !.seen = TRUE]]
      BY <2>1 DEF KG!AgentRuns
    <3> DEFINE a == [agents[n].stored EXCEPT !.runs = TRUE, !.seen = TRUE]
    <3>2. a \in KG!AgentState /\ ~a.deleting
      BY <1>1, <3>1, GroupTypes DEF KG!AgentState
    <3> HIDE DEF a
    <3> QED
      BY <3>1, <3>2 DEF Going, a
  <2>2. CASE KG!AgentGoes
    BY <2>2, NoAgentType DEF KG!AgentGoes
  <2>3. CASE KG!AgentFails
    <3>1. PICK n \in Names : agents' = [agents EXCEPT ![n].stored.runs = FALSE]
      BY <2>3 DEF KG!AgentFails
    <3> DEFINE a == [agents[n].stored EXCEPT !.runs = FALSE]
    <3>2. /\ a \in KG!AgentState /\ a.there = agents[n].stored.there
          /\ a.deleting = agents[n].stored.deleting /\ a.seen = agents[n].stored.seen
      BY <1>1, GroupTypes DEF KG!AgentState
    <3>3. agents' = [agents EXCEPT ![n].stored = a]
      BY <3>1
    <3> HIDE DEF a
    <3> QED
      BY <1>1, <3>2, <3>3 DEF Going, GTypes
  <2>4. CASE KG!CollectAgent
    <3>1. PICK n \in Names :
            agents' = [agents EXCEPT ![n].stored = KG!Deleted(agents[n].stored)]
      BY <2>4 DEF KG!CollectAgent
    <3>2. agents[n].stored \in KG!AgentState /\ (agents[n].stored.deleting => ~agents[n].stored.seen)
      BY <1>1, GroupTypes DEF GTypes
    <3> QED
      BY <3>1, <3>2, NoAgentType
  <2> QED
    BY <2>1, <2>2, <2>3, <2>4
<1>4. /\ agents' \in [Names -> [stored : KG!AgentState, cached : KG!AgentState]]
      /\ agents'[n].stored = a
      /\ \A x \in Names : agents'[x].cached = agents[x].cached
      /\ \A x \in Names : x # n => agents'[x] = agents[x]
  BY <1>1, <1>3 DEF GTypes
<1>5. AgentsMove
  BY <1>1, <1>3, <1>4 DEF AgentsMove, Going, GTypes
<1> QED
  BY <1>1, <1>2, <1>5, GroupLeft, GroupSurroundings

\* What keeps the key in the queue needs its types only.
LEMMA GroupRequeued ==
    ASSUME GTypes', dirty' = TRUE
    PROVE  GInv'
BY DEF GInv, Counting, AtRest

LEMMA NewGroups ==
    ASSUME NEW d \in SUBSET Names
    PROVE  KG!NewGroup(d) \in Groups
BY DEF KG!NewGroup, Groups, KG!Group

LEMMA GroupInit ==
    ASSUME KG!Init
    PROVE  GInv
<1>1. PICK d \in SUBSET Names : KG!QueueInit(KG!NewGroup(d))
  BY DEF KG!Init
<1>2. obj = Listed(KG!NewGroup(d)) /\ dirty = TRUE /\ work = [busy |-> FALSE]
  BY <1>1, SameInformer DEF KG!QueueInit, KG!Idle
<1>3. obj \in Object(Groups) /\ Coherent(obj)
  BY <1>2, NewGroups, ListedType, ListedCoherent
<1>4. /\ agents \in [Names -> [stored : KG!AgentState, cached : KG!AgentState]]
      /\ \A n \in Names : agents[n].stored.deleting => ~agents[n].stored.seen
  BY NoAgentType DEF KG!Init
<1>5. GTypes
  BY <1>2, <1>3, <1>4 DEF GTypes
<1> QED
  BY <1>2, <1>5 DEF GInv, Counting, AtRest

\* An event of an agent, and the first list after a restart, wake every group that exists.
LEMMA GroupWakes ==
    ASSUME GInv, KG!ObserveAgent \/ KG!ManagerRestarts
    PROVE  GInv'
<1>1. GTypes /\ obj.stored \in Groups /\ obj.cached \in Groups
      /\ obj.stored.exists \in BOOLEAN /\ obj.cached.exists \in BOOLEAN /\ dirty \in BOOLEAN
  BY GroupTypes DEF GInv, Groups, KG!Group, GTypes
<1>2. CASE KG!ObserveAgent
  <2>1. PICK n \in Names :
          /\ agents' = [agents EXCEPT ![n].cached = agents[n].stored]
          /\ dirty' = (dirty \/ obj.cached.exists) /\ UNCHANGED <<obj, work>>
    BY <1>2 DEF KG!ObserveAgent
  <2>2. /\ agents' \in [Names -> [stored : KG!AgentState, cached : KG!AgentState]]
        /\ \A x \in Names : agents'[x].stored = agents[x].stored
    BY <1>1, <2>1 DEF GTypes
  <2>3. GTypes'
    BY <1>1, <2>1, <2>2 DEF GTypes
  <2>4. ~dirty' => ~dirty /\ ~obj.cached.exists
    BY <1>1, <2>1
  <2> QED
    BY <2>1, <2>3, <2>4 DEF GInv, Counting, AtRest
<1>3. CASE KG!ManagerRestarts
  <2>1. /\ agents' = [n \in Names |-> [agents[n] EXCEPT !.cached = agents[n].stored]]
        /\ obj' = Listed(obj.stored) /\ dirty' = obj.stored.exists
        /\ work' = [busy |-> FALSE]
    BY <1>3, SameInformer DEF KG!ManagerRestarts, KG!Restart, KG!Idle
  <2>2. /\ agents' \in [Names -> [stored : KG!AgentState, cached : KG!AgentState]]
        /\ \A x \in Names : agents'[x].stored = agents[x].stored
    BY <1>1, <2>1 DEF GTypes
  <2>3. obj' \in Object(Groups) /\ Coherent(obj')
    BY <1>1, <2>1, ListedType, ListedCoherent
  <2>4. GTypes'
    BY <1>1, <2>1, <2>2, <2>3 DEF GTypes
  <2>5. ~work'.busy /\ (~dirty' => ~obj'.cached.exists)
    BY <1>1, <2>1 DEF Listed
  <2> QED
    BY <2>4, <2>5 DEF GInv, Counting, AtRest
<1> QED
  BY <1>2, <1>3

\* The deferred patch.  One that goes unnoticed has changed nothing, so the reconcile had
\* found the group as it has to be.
LEMMA GroupPatched ==
    ASSUME GInv, KG!Patch
    PROVE  GInv'
<1> DEFINE F == {"finalizer", "own", "replicas", "readyReplicas", "ready"}
           v == KG!Merged(obj.stored, F)
<1>1. GTypes /\ obj.stored \in Groups /\ obj.cached \in Groups
  BY GroupTypes DEF GInv
<1>2. UNION {KG!Calls[c] : c \in DOMAIN KG!Calls} = F
  BY DEF KG!Calls
<1>3. /\ work.busy /\ UNCHANGED agents
      /\ obj' = IF obj.stored.exists THEN Store(obj, v) ELSE obj
      /\ work' = [busy |-> FALSE]
      /\ dirty' = (dirty \/ (obj.stored.exists /\ Overflows(obj, v)))
  BY <1>2, SameInformer DEF KG!Patch, KG!PatchApplied, KG!StorePatch, KG!Idle
<1>4. /\ v \in Groups
      /\ \/ \A f \in GroupFields :
                v[f] = IF f \in F /\ work.new[f] # work.old[f] THEN work.new[f]
                       ELSE obj.stored[f]
         \/ ~v.exists
  BY <1>1, <1>3, MergedGroup
<1> HIDE DEF v
<1>5. /\ dirty \in BOOLEAN /\ Overflows(obj, v) \in BOOLEAN /\ obj.stored.exists \in BOOLEAN
  BY <1>1 DEF GTypes, Overflows, Changes, Groups, KG!Group
<1>6. dirty' \in BOOLEAN /\ (~dirty' => ~dirty)
      /\ (~dirty' /\ obj.stored.exists => ~Overflows(obj, v))
  BY <1>3, <1>5
<1>7. GroupSeen
  <2>1. CASE obj.stored.exists
    BY <1>1, <1>3, <1>4, <1>6, <2>1, GroupWritten
  <2>2. CASE ~obj.stored.exists
    BY <1>1, <1>3, <1>6, <2>2 DEF GroupSeen, GTypes
  <2> QED
    BY <2>1, <2>2
<1>8. AgentsMove
  BY <1>1, <1>3, AgentsStay
<1>9. GTypes'
  BY <1>1, <1>3, <1>7, <1>8 DEF GTypes, GroupSeen, AgentsMove
<1>10. AtRest'
  <2> SUFFICES ASSUME ~dirty', Current(obj'), obj'.cached.exists, ~obj'.cached.deleting
               PROVE  Correct(obj.cached)'
    BY DEF AtRest
  <2>1. ~dirty /\ obj' = obj /\ obj.cached = obj.stored /\ obj.stored.exists
    BY <1>1, <1>6, <1>7 DEF GroupSeen, GTypes, Coherent, Current
  <2>2. v = obj.stored
    <3>1. obj = Store(obj, v)
      BY <1>3, <2>1
    <3>2. Store(obj, v).stored = v
      BY StoredVersion
    <3> QED
      BY <3>1, <3>2
  <2>3. obj.cached = work.old
        /\ (work.new.own # work.old.own \/ work.new.finalizer # work.old.finalizer
            \/ Correct(work.new))
    BY <1>3, <2>1 DEF GInv, Counting
  <2>4. work.old \in Groups /\ work.new \in Groups
    BY <1>1, <1>3 DEF GTypes
  <2>5. \A f \in F : work.new[f] = work.old[f]
    BY <1>4, <2>1, <2>2, <2>3 DEF GroupFields
  <2>6. /\ work.new.own = work.old.own /\ work.new.finalizer = work.old.finalizer
        /\ work.new.ready = work.old.ready
    BY <2>4, <2>5 DEF Groups, KG!Group
  <2>7. Correct(work.new) /\ obj'.cached.ready = work.new.ready /\ obj'.cached = obj.cached
    BY <2>1, <2>3, <2>6
  <2> QED
    BY <1>8, <2>7, StaysCorrect DEF Correct
<1> QED
  BY <1>3, <1>9, <1>10 DEF GInv, Counting

LEMMA GroupPatchedPartly ==
    ASSUME GInv, KG!PatchPartly
    PROVE  GInv'
<1>1. PICK F : /\ work.busy /\ UNCHANGED agents
               /\ obj' = IF obj.stored.exists THEN Store(obj, KG!Merged(obj.stored, F)) ELSE obj
               /\ work' = [busy |-> FALSE] /\ dirty' = TRUE
  BY SameInformer DEF KG!PatchPartly, KG!PatchFails, KG!StorePatch, KG!Idle
<1>2. GTypes /\ KG!Merged(obj.stored, F) \in Groups
  BY <1>1, MergedGroup DEF GInv
<1>3. obj' \in Object(Groups) /\ Coherent(obj')
  BY <1>1, <1>2, StoreType, StoreCoherent DEF GTypes
<1>4. GTypes'
  BY <1>1, <1>2, <1>3 DEF GTypes
<1> QED
  BY <1>1, <1>4, GroupRequeued

\* Agents that the group creates, updates and deletes: an unwanted one of the list goes.
LEMMA AgentsAdjusted ==
    ASSUME GTypes, NEW ns \in SUBSET Names, KG!Adjust(ns)
    PROVE  /\ agents' \in [Names -> [stored : KG!AgentState, cached : KG!AgentState]]
           /\ \A n \in Names :
                /\ agents'[n].stored.deleting => ~agents'[n].stored.seen
                /\ agents'[n].cached = agents[n].cached
                /\ n \in ns /\ n \notin obj.cached.desired /\ agents[n].cached.there
                   => Going(n)'
<1>1. agents' = [n \in Names |-> IF n \in ns THEN [agents[n] EXCEPT !.stored = KG!Adjusted(n)]
                                 ELSE agents[n]]
  BY DEF KG!Adjust
<1>2. ASSUME NEW n \in Names
      PROVE  /\ KG!Adjusted(n) \in KG!AgentState
             /\ KG!Adjusted(n).deleting => ~KG!Adjusted(n).seen
             /\ n \notin obj.cached.desired /\ agents[n].cached.there =>
                    ~KG!Adjusted(n).there \/ KG!Adjusted(n).deleting
  <2> DEFINE a == agents[n].stored
             t == obj.cached.template
  <2>1. a \in KG!AgentState /\ (a.deleting => ~a.seen) /\ t \in {1, 2}
    BY GroupTypes DEF GTypes, Groups, KG!Group
  <2>2. KG!Adjusted(n) =
            IF n \notin obj.cached.desired
            THEN IF agents[n].cached.there THEN KG!Deleted(a) ELSE a
            ELSE IF agents[n].cached.there THEN KG!Updated(a, t)
                 ELSE IF a.there THEN a ELSE KG!NewAgent(t)
    BY DEF KG!Adjusted, KG!InGroup
  <2> HIDE DEF a, t
  <2> QED
    BY <2>1, <2>2, NoAgentType
<1>3. ASSUME NEW n \in Names
      PROVE  /\ agents'[n] \in [stored : KG!AgentState, cached : KG!AgentState]
             /\ agents'[n].cached = agents[n].cached
             /\ agents'[n].stored = IF n \in ns THEN KG!Adjusted(n) ELSE agents[n].stored
  <2>1. /\ agents[n] \in [stored : KG!AgentState, cached : KG!AgentState]
        /\ KG!Adjusted(n) \in KG!AgentState
    BY <1>2 DEF GTypes
  <2>2. agents'[n] = IF n \in ns THEN [agents[n] EXCEPT !.stored = KG!Adjusted(n)]
                     ELSE agents[n]
    BY <1>1
  <2> QED
    BY <2>1, <2>2
<1>4. agents' \in [Names -> [stored : KG!AgentState, cached : KG!AgentState]]
  BY <1>1, <1>3
<1>5. \A n \in Names : agents'[n].stored.deleting => ~agents'[n].stored.seen
  BY <1>2, <1>3 DEF GTypes
<1>6. \A n \in ns \ obj.cached.desired :
            agents[n].cached.there => ~agents'[n].stored.there \/ agents'[n].stored.deleting
  BY <1>2, <1>3
<1> QED
  BY <1>3, <1>4, <1>5, <1>6 DEF Going

\* The copy with what reconcileNormal sets in it.
LEMMA GroupCounted ==
    ASSUME GTypes
    PROVE  LET c == KG!Counted([n \in Names |-> agents[n].cached])
           IN  /\ c \in Groups
               /\ c.ready <=> Cardinality(ReadyAgents) = Cardinality(obj.cached.desired)
<1> DEFINE copies == [n \in Names |-> agents[n].cached]
           d == Cardinality(obj.cached.desired)
           r == Cardinality(ReadyAgents)
<1>1. {n \in Names : KG!Ready(n, copies)} = ReadyAgents
  BY DEF KG!Ready, ReadyAgents
<1>2. KG!Counted(copies) =
        [obj.cached EXCEPT !.replicas = d, !.readyReplicas = r, !.ready = (r = d)]
  BY <1>1, SameInformer DEF KG!Counted
<1>3. obj.cached \in Groups /\ d \in Nat /\ r \in Nat
  BY GroupTypes
<1> HIDE DEF copies, d, r
<1>4. KG!Counted(copies) \in Groups /\ KG!Counted(copies).ready = (r = d)
  BY <1>2, <1>3 DEF Groups, KG!Group
<1> QED
  BY <1>4 DEF copies, d, r

LEMMA GroupReconciled ==
    ASSUME GInv, KG!Reconcile
    PROVE  GInv'
<1>1. GTypes /\ obj.cached \in Groups /\ dirty \in BOOLEAN
  BY GroupTypes DEF GInv, GTypes
<1>2. CASE KG!ReconcileNotFound
  <2>1. /\ ~obj.cached.exists /\ ~work.busy /\ dirty' = FALSE
        /\ UNCHANGED <<obj, work, agents>>
    BY <1>2 DEF KG!ReconcileNotFound, KG!EndEarly, KG!Begin
  <2>2. GTypes'
    BY <1>1, <2>1 DEF GTypes
  <2> QED
    BY <2>1, <2>2 DEF GInv, Counting, AtRest
<1>3. CASE KG!ReconcileAddFinalizers \/ KG!ReconcileDelete
  <2>1. PICK v \in Groups :
          /\ work' = [busy |-> TRUE, old |-> obj.cached, new |-> v] /\ dirty' = FALSE
          /\ UNCHANGED <<obj, agents>> /\ obj.cached.exists
          /\ \/ obj.cached.deleting
             \/ v.own # obj.cached.own \/ v.finalizer # obj.cached.finalizer
    <3>1. CASE KG!ReconcileAddFinalizers
      <4> DEFINE v == [obj.cached EXCEPT !.own = TRUE, !.finalizer = TRUE]
      <4>1. v \in Groups /\ v.own = TRUE /\ v.finalizer = TRUE
        BY <1>1 DEF Groups, KG!Group
      <4>2. obj.cached.own \in BOOLEAN /\ obj.cached.finalizer \in BOOLEAN
        BY <1>1 DEF Groups, KG!Group
      <4>3. /\ work' = [busy |-> TRUE, old |-> obj.cached, new |-> v] /\ dirty' = FALSE
            /\ UNCHANGED <<obj, agents>> /\ obj.cached.exists
            /\ ~(obj.cached.own /\ obj.cached.finalizer)
        BY <3>1 DEF KG!ReconcileAddFinalizers, KG!EndWith
      <4> HIDE DEF v
      <4>4. v.own # obj.cached.own \/ v.finalizer # obj.cached.finalizer
        BY <4>1, <4>2, <4>3
      <4> QED
        BY <4>1, <4>3, <4>4
    <3>2. CASE KG!ReconcileDelete
      <4> DEFINE v == [obj.cached EXCEPT !.own = FALSE]
      <4>1. v \in Groups
        BY <1>1 DEF Groups, KG!Group
      <4>2. /\ work' = [busy |-> TRUE, old |-> obj.cached, new |-> v] /\ dirty' = FALSE
            /\ UNCHANGED <<obj, agents>> /\ obj.cached.exists /\ obj.cached.deleting
        BY <3>2 DEF KG!ReconcileDelete, KG!EndWith
      <4> QED
        BY <4>1, <4>2
    <3> QED
      BY <1>3, <3>1, <3>2
  <2>2. GTypes'
    BY <1>1, <2>1 DEF GTypes
  <2> QED
    BY <2>1, <2>2 DEF GInv, Counting, AtRest
<1>4. CASE KG!ReconcileNormal
  <2> DEFINE v == KG!Counted([n \in Names |-> agents[n].cached])
  <2>1. /\ work' = [busy |-> TRUE, old |-> obj.cached, new |-> v] /\ dirty' = FALSE
        /\ obj' = obj /\ obj.cached.exists /\ KG!Adjust(Names)
    BY <1>4 DEF KG!ReconcileNormal, KG!EndWith, KG!Kept
  <2>2. v \in Groups /\ (v.ready <=> Cardinality(ReadyAgents) = Cardinality(obj.cached.desired))
    BY <1>1, GroupCounted
  <2> HIDE DEF v
  <2>3. /\ agents' \in [Names -> [stored : KG!AgentState, cached : KG!AgentState]]
        /\ \A n \in Names :
                /\ agents'[n].stored.deleting => ~agents'[n].stored.seen
                /\ agents'[n].cached = agents[n].cached
                /\ n \notin obj.cached.desired /\ agents[n].cached.there => Going(n)'
    BY <1>1, <2>1, AgentsAdjusted
  <2>4. GTypes'
    BY <1>1, <2>1, <2>2, <2>3 DEF GTypes
  <2>5. ReadyAgents' = ReadyAgents
    BY <2>3 DEF ReadyAgents
  <2>6. Correct(work.new)'
    BY <2>1, <2>2, <2>3, <2>5 DEF Correct
  <2> QED
    BY <2>1, <2>4, <2>6 DEF GInv, Counting, AtRest
<1>5. CASE KG!ReconcileCollides \/ KG!ReconcileFails
  <2>1. PICK ns \in SUBSET Names :
          /\ work' = [busy |-> TRUE, old |-> obj.cached, new |-> obj.cached] /\ dirty' = TRUE
          /\ obj' = obj /\ KG!Adjust(ns)
    BY <1>5 DEF KG!ReconcileCollides, KG!ReconcileFails, KG!EndWith, KG!EndFaulty
  <2>2. /\ agents' \in [Names -> [stored : KG!AgentState, cached : KG!AgentState]]
        /\ \A n \in Names : agents'[n].stored.deleting => ~agents'[n].stored.seen
    BY <1>1, <2>1, AgentsAdjusted
  <2>3. GTypes'
    BY <1>1, <2>1, <2>2 DEF GTypes
  <2> QED
    BY <2>1, <2>3, GroupRequeued
<1> QED
  BY <1>2, <1>3, <1>4, <1>5 DEF KG!Reconcile

LEMMA GroupStep ==
    ASSUME GInv, [KG!Next]_(KG!vars)
    PROVE  GInv'
<1>1. CASE UNCHANGED KG!vars
  <2>1. GTypes /\ UNCHANGED <<obj, dirty, work, agents>>
    BY <1>1 DEF KG!vars, KG!queue, GInv
  <2> QED
    BY <2>1, GroupLeft, AgentsStay, GroupSurroundings
<1>2. CASE KG!Next
  BY <1>2, GroupReconciled, GroupPatched, GroupPatchedPartly, GroupEvents, AgentEvents,
     GroupWakes DEF KG!Next
<1> QED
  BY <1>1, <1>2

\* A file is fetched whole and once, the resources of init are there in their order and of
\* one build, and a group at rest counts its ready agents right: for every number of
\* workers, replicas and addresses, however often the provider fails or restarts.
THEOREM NothingHalfDone == Spec => []Whole
<1> DEFINE I == /\ focus \in Parts
                /\ focus = "group" => GInv
                /\ focus = "files" => FInv
                /\ focus = "start" => SInv
<1>1. Init => I
  BY GroupInit, FilesInit, StartInit DEF Init, Parts
<1>2. I /\ [Next]_vars => I'
  <2> SUFFICES ASSUME I, [Next]_vars PROVE I'
    OBVIOUS
  <2>1. /\ focus' = focus
        /\ focus = "group" => [KG!Next]_(KG!vars)
        /\ focus = "files" => [FR!Next]_(FR!vars)
        /\ focus = "start" => [ST!Next]_(ST!vars)
    BY PartSteps
  <2>2. focus = "group" => GInv'
    BY <2>1, GroupStep
  <2>3. focus = "files" => FInv'
    BY <2>1, FilesStep
  <2>4. focus = "start" => SInv'
    BY <2>1, StartStep
  <2> QED
    BY <2>1, <2>2, <2>3, <2>4
<1>3. I => Whole
  BY RestCount, FilesWhole DEF SInv, Whole, Whose, Parts
<1> QED
  BY <1>1, <1>2, <1>3, PTL DEF Spec

-----------------------------------------------------------------------------
(* The types *)

\* Of the installation: the files are of versions that there have been.
NRanges ==
    /\ files \in [AI!Files -> AI!Versions] /\ loaded \in AI!Versions
    /\ version \in AI!Versions /\ service \in AI!Services

LEMMA InstallRanges ==
    /\ AI!Init => NRanges
    /\ NRanges /\ [AI!Next]_(AI!vars) => NRanges'
    /\ NRanges => AI!TypeOK
<1>1. 0 \in AI!Versions /\ 1 \in AI!Versions
  BY BoundsAssumption DEF AI!Versions
<1>2. AI!Init => NRanges
  BY <1>1 DEF AI!Init, AI!NoFiles, NRanges, AI!Services
<1>3. NRanges /\ [AI!Next]_(AI!vars) => NRanges'
  <2> SUFFICES ASSUME NRanges, [AI!Next]_(AI!vars) PROVE NRanges'
    OBVIOUS
  <2>1. CASE UNCHANGED AI!vars
    BY <2>1 DEF AI!vars, NRanges
  <2>2. files.crt \in AI!Versions
    BY DEF NRanges, AI!Files
  <2>3. CASE AI!BeginInit \/ AI!BeginRequest \/ AI!BeginCommand \/ AI!InitBusy
             \/ AI!InitEnable \/ AI!UninstallDisable \/ AI!DaemonWrites \/ AI!StepFails
             \/ AI!DeleteAgent \/ AI!UninstallStopped \/ AI!Probe \/ AI!Forget
    BY <2>3 DEF AI!BeginInit, AI!BeginRequest, AI!BeginCommand, AI!Begin, AI!InitBusy,
          AI!InitEnable, AI!UninstallDisable, AI!DaemonWrites, AI!StepFails, AI!DeleteAgent,
          AI!UninstallStopped, AI!Probe, AI!Forget, AI!Untouched, NRanges
  <2>4. CASE AI!InitStop \/ AI!InitStart \/ AI!UninstallStop \/ AI!SystemdRestarts
             \/ AI!DaemonReloads \/ AI!DaemonDies \/ AI!Reboot \/ AI!AnswerLost
             \/ AI!SystemdStops
    <3>1. /\ UNCHANGED <<files, version>>
          /\ loaded' \in {loaded, 0, files.crt}
          /\ service' \in {service, "inactive", "active", "stopping", "restarting"}
      BY <2>4 DEF AI!InitStop, AI!InitStart, AI!UninstallStop, AI!SystemdRestarts,
            AI!DaemonReloads, AI!DaemonDies, AI!Reboot, AI!AnswerLost, AI!SystemdStops,
            AI!QueueStop, AI!Stop, AI!Start, AI!Untouched
    <3> QED
      BY <1>1, <2>2, <3>1 DEF NRanges, AI!Services
  <2>5. CASE AI!InitWrite
    <3>1. PICK f \in AI!Files : /\ files' = [files EXCEPT ![f] = version]
                                /\ UNCHANGED <<version, loaded, service>>
      BY <2>5 DEF AI!InitWrite, AI!Write, AI!Untouched
    <3> QED
      BY <3>1 DEF NRanges
  <2>6. CASE AI!UninstallRemove
    <3>1. PICK f : /\ files' = [g \in AI!Files |->
                                  IF g = f \/ (f = "internal" /\ g = "config") THEN 0
                                  ELSE files[g]]
                   /\ UNCHANGED <<version, loaded, service>>
      BY <2>6 DEF AI!UninstallRemove, AI!Untouched
    <3> QED
      BY <1>1, <3>1 DEF NRanges
  <2>7. CASE AI!NewVersion
    <3>1. /\ version < MaxVersion /\ version' = version + 1
          /\ UNCHANGED <<files, loaded, service>>
      BY <2>7 DEF AI!NewVersion
    <3> QED
      BY <3>1, BoundsAssumption DEF NRanges, AI!Versions
  <2> QED
    BY <2>1, <2>3, <2>4, <2>5, <2>6, <2>7 DEF AI!Next, AI!Call, AI!Daemon
<1>4. NRanges => AI!TypeOK
  BY DEF NRanges, AI!TypeOK
<1> QED
  BY <1>2, <1>3, <1>4

\* Of the storage, the start and the group: what their invariants do not say.
FRanges ==
    repo \in FR!Repository /\ lock \in Workers \cup {Nobody} /\ got \subseteq Workers

LEMMA FilesRanges ==
    /\ FR!Init => FRanges
    /\ FRanges /\ [FR!Next]_(FR!vars) => FRanges'
    /\ FInv /\ FRanges => FR!TypeOK
<1>1. FR!Init => FRanges
  BY DEF FR!Init, FR!Repository, FRanges
<1>2. FRanges /\ [FR!Next]_(FR!vars) => FRanges'
  <2> SUFFICES ASSUME FRanges, [FR!Next]_(FR!vars) PROVE FRanges'
    OBVIOUS
  <2>1. CASE UNCHANGED FR!vars
    BY <2>1 DEF FR!vars, FRanges
  <2>2. ASSUME NEW w \in Workers, FR!Request(w) \/ FR!GetFile(w) \/ FR!DownloadFails(w)
        PROVE  FRanges'
    <3>1. /\ UNCHANGED repo /\ lock' \in {lock, w, Nobody}
          /\ got' \in {got, got \cup {w}, got \ {w}}
      BY <2>2 DEF FR!Request, FR!GetFile, FR!Lock, FR!Found, FR!FoundTemporary, FR!MkdirAll,
            FR!OpenFile, FR!OpenFileFails, FR!Download, FR!Rename, FR!CleanUp,
            FR!DownloadFails
    <3> QED
      BY <3>1 DEF FRanges
  <2>3. CASE FR!ReconcileDelete \/ FR!Crash
    BY <2>3 DEF FR!ReconcileDelete, FR!Crash, FRanges
  <2>4. CASE FR!CreateRepository \/ FR!DeleteRepository
    <3>1. CASE FR!CreateRepository
      BY <3>1 DEF FR!CreateRepository, FRanges, FR!Repository
    <3>2. CASE FR!DeleteRepository
      <4>1. /\ repo' = [repo EXCEPT !.deleting = TRUE, !.exists = repo.finalizer]
            /\ UNCHANGED <<lock, got>>
        BY <3>2 DEF FR!DeleteRepository
      <4>2. repo' \in FR!Repository
        BY <4>1 DEF FRanges, FR!Repository
      <4> QED
        BY <4>1, <4>2 DEF FRanges
    <3> QED
      BY <2>4, <3>1, <3>2
  <2> QED
    BY <2>1, <2>2, <2>3, <2>4 DEF FR!Next
<1>3. FInv /\ FRanges => FR!TypeOK
  BY DEF FInv, FRanges, FR!TypeOK
<1> QED
  BY <1>1, <1>2, <1>3

SRanges == leader \in Replicas \cup {Nobody}

LEMMA StartRanges ==
    /\ ST!Init => SRanges
    /\ SRanges /\ [ST!Next]_(ST!vars) => SRanges'
    /\ SInv /\ SRanges => ST!TypeOK
<1>1. ST!Init => SRanges
  BY DEF ST!Init, SRanges
<1>2. SRanges /\ [ST!Next]_(ST!vars) => SRanges'
  BY DEF ST!Next, ST!vars, ST!Lead, ST!Ensure, ST!EnsureFails, ST!Stop, ST!Edit, SRanges
<1>3. SInv /\ SRanges => ST!TypeOK
  BY ResourceOrder DEF SInv, SRanges, ST!TypeOK
<1> QED
  BY <1>1, <1>2, <1>3

GRanges ==
    /\ faults \in Nat /\ stale \in Nat /\ changes \in Nat
    /\ faults + stale + changes <= MaxTrouble
    /\ \/ work = [busy |-> FALSE]
       \/ work = [busy |-> TRUE, old |-> work.old, new |-> work.new]

LEMMA GroupRanges ==
    /\ KG!Init => GRanges
    /\ GRanges /\ [KG!Next]_(KG!vars) => GRanges'
    /\ GInv /\ GRanges => KG!TypeOK
<1>1. KG!Init => GRanges
  BY MaxTroubleAssumption DEF KG!Init, KG!QueueInit, KG!Idle, GRanges
<1>2. GRanges /\ [KG!Next]_(KG!vars) => GRanges'
  <2> SUFFICES ASSUME GRanges, [KG!Next]_(KG!vars) PROVE GRanges'
    OBVIOUS
  <2>1. /\ \/ UNCHANGED <<faults, stale, changes>>
           \/ /\ faults + stale + changes < MaxTrouble
              /\ \/ faults' = faults + 1 /\ UNCHANGED <<stale, changes>>
                 \/ stale' = stale + 1 /\ UNCHANGED <<faults, changes>>
                 \/ changes' = changes + 1 /\ UNCHANGED <<faults, stale>>
        /\ \/ UNCHANGED work
           \/ work' = [busy |-> FALSE]
           \/ \E o, v : work' = [busy |-> TRUE, old |-> o, new |-> v]
    <3>1. CASE UNCHANGED KG!vars
      BY <3>1 DEF KG!vars, KG!queue
    <3>2. CASE KG!Reconcile
      BY <3>2 DEF KG!Reconcile, KG!ReconcileNotFound, KG!ReconcileAddFinalizers,
            KG!ReconcileDelete, KG!ReconcileNormal, KG!ReconcileCollides, KG!ReconcileFails,
            KG!EndEarly, KG!EndWith, KG!EndFaulty, KG!Begin, KG!Trouble
    <3>3. CASE KG!Patch \/ KG!PatchPartly
      BY <3>3 DEF KG!Patch, KG!PatchPartly, KG!PatchApplied, KG!PatchFails, KG!StorePatch,
            KG!Idle, KG!Trouble
    <3>4. CASE KG!ObserveEvent \/ KG!ObserveAgent \/ KG!AgentRuns \/ KG!AgentGoes
               \/ KG!AgentFails \/ KG!CollectAgent
      BY <3>4 DEF KG!ObserveEvent, KG!ObserveAgent, KG!AgentRuns, KG!AgentGoes,
            KG!AgentFails, KG!CollectAgent, KG!DeliverEvent, KG!Change, KG!Trouble, KG!queue
    <3>5. CASE KG!CollectGroup \/ KG!ChangeSpec \/ KG!DeleteGroup \/ KG!ManagerRestarts
      BY <3>5 DEF KG!CollectGroup, KG!ChangeSpec, KG!DeleteGroup, KG!ManagerRestarts,
            KG!RequestDelete, KG!Restart, KG!Idle, KG!Trouble
    <3> QED
      BY <3>1, <3>2, <3>3, <3>4, <3>5 DEF KG!Next
  <2>2. /\ faults' \in Nat /\ stale' \in Nat /\ changes' \in Nat
        /\ faults' + stale' + changes' <= MaxTrouble
    BY <2>1, MaxTroubleAssumption DEF GRanges
  <2>3. \/ work' = [busy |-> FALSE]
        \/ work' = [busy |-> TRUE, old |-> work'.old, new |-> work'.new]
    BY <2>1 DEF GRanges
  <2> QED
    BY <2>2, <2>3 DEF GRanges
<1>3. GInv /\ GRanges => KG!TypeOK
  <2> SUFFICES ASSUME GInv, GRanges PROVE KG!TypeOK
    OBVIOUS
  <2>1. work \in KG!Work(KG!Group)
    <3>1. CASE work = [busy |-> FALSE]
      BY <3>1 DEF KG!Work, KG!Idle
    <3>2. CASE work = [busy |-> TRUE, old |-> work.old, new |-> work.new]
      <4>1. work.old \in KG!Group /\ work.new \in KG!Group
        BY <3>2 DEF GInv, GTypes, Groups
      <4>2. PICK o \in KG!Group, v \in KG!Group : work = [busy |-> TRUE, old |-> o, new |-> v]
        BY <3>2, <4>1
      <4>3. work \in [busy : {TRUE}, old : KG!Group, new : KG!Group]
        BY <4>2
      <4> QED
        BY <4>3 DEF KG!Work
    <3> QED
      BY <3>1, <3>2 DEF GRanges
  <2>2. KG!Trouble \in 0 .. MaxTrouble
    BY MaxTroubleAssumption DEF GRanges, KG!Trouble
  <2>3. KG!QueueTypeOK(KG!Group)
    BY <2>1, <2>2, SameInformer DEF GInv, GTypes, Groups, KG!QueueTypeOK
  <2> QED
    BY <2>3 DEF GInv, GTypes, KG!TypeOK
<1> QED
  BY <1>1, <1>2, <1>3

\* The state of every part stays of its type, for every number of agents, workers,
\* replicas, versions and troubles.
THEOREM TypeCorrect == Spec => []TypeOK
<1> DEFINE I == /\ focus \in Parts
                /\ focus = "agent" => KInv
                /\ focus = "group" => GInv /\ GRanges
                /\ focus = "install" => NRanges
                /\ focus = "daemon" => DInv
                /\ focus = "files" => FInv /\ FRanges
                /\ focus = "start" => SInv /\ SRanges
<1>1. Init => I
  BY KeysInit, GroupInit, GroupRanges, InstallRanges, DaemonInit, FilesInit, FilesRanges,
     StartInit, StartRanges DEF Init, Parts
<1>2. I /\ [Next]_vars => I'
  <2> SUFFICES ASSUME I, [Next]_vars PROVE I'
    OBVIOUS
  <2>1. /\ focus' = focus
        /\ focus = "agent" => [KA!Next]_(KA!vars)
        /\ focus = "group" => [KG!Next]_(KG!vars)
        /\ focus = "install" => [AI!Next]_(AI!vars)
        /\ focus = "daemon" => [AD!Next]_(AD!vars)
        /\ focus = "files" => [FR!Next]_(FR!vars)
        /\ focus = "start" => [ST!Next]_(ST!vars)
    BY PartSteps
  <2>2. focus = "agent" => KInv'
    BY <2>1, KeysStep
  <2>3. focus = "group" => GInv' /\ GRanges'
    BY <2>1, GroupStep, GroupRanges
  <2>4. focus = "install" => NRanges'
    BY <2>1, InstallRanges
  <2>5. focus = "daemon" => DInv'
    BY <2>1, DaemonStep
  <2>6. focus = "files" => FInv' /\ FRanges'
    BY <2>1, FilesStep, FilesRanges
  <2>7. focus = "start" => SInv' /\ SRanges'
    BY <2>1, StartStep, StartRanges
  <2> QED
    BY <2>1, <2>2, <2>3, <2>4, <2>5, <2>6, <2>7
<1>3. I => TypeOK
  <2>1. DInv => AD!TypeOK
    BY DEF DInv, AD!TypeOK
  <2> QED
    BY <2>1, KeysAreSafe, GroupRanges, InstallRanges, FilesRanges, StartRanges
       DEF TypeOK, Whose, Parts
<1> QED
  BY <1>1, <1>2, <1>3, PTL DEF Spec
=============================================================================
