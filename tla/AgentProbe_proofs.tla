-------------------------- MODULE AgentProbe_proofs --------------------------
(***************************************************************************)
(* The safety of the health probe, for all thresholds, every capacity of   *)
(* the channel, every lag of the informer and every number of faults: a    *)
(* verdict needs its run of equal results, and the two concurrent writers  *)
(* of the Healthy condition leave the last verdict in it.                  *)
(***************************************************************************)
EXTENDS AgentProbe, Informer_proofs, TLAPS

-----------------------------------------------------------------------------
(* Types *)

LEMMA VersionTypes ==
    /\ NewAgent \in Agent /\ NoAgent \in Agent /\ ~NewAgent.installed /\ ~NoAgent.exists
    /\ \A r \in Results \cup {"none"} : HealthOf(r) \in Health
    /\ \A v \in Agent, h \in Health : [v EXCEPT !.healthy = h] \in Agent
    /\ \A v \in Agent : [v EXCEPT !.deleting = TRUE] \in Agent
    /\ IdleRec \in Rec /\ NoWorker \in Worker /\ NewWorker \in Worker
    /\ IdleUpdater \in Updater
<1>1. NewAgent \in Agent /\ ~NewAgent.installed
  BY DEF NewAgent, Agent, Health
<1>2. NoAgent \in Agent /\ ~NoAgent.exists
  BY <1>1 DEF NoAgent, Agent
<1>3. \A r \in Results \cup {"none"} : HealthOf(r) \in Health
  BY DEF HealthOf, Results, Health
<1>4. /\ \A v \in Agent, h \in Health : [v EXCEPT !.healthy = h] \in Agent
      /\ \A v \in Agent : [v EXCEPT !.deleting = TRUE] \in Agent
  BY DEF Agent
<1>5. IdleRec \in Rec
  BY <1>2 DEF IdleRec, Rec
<1>6. NoWorker \in Worker
  BY DEF NoWorker, Worker, WorkerSteps, Results
<1>7. NewWorker \in Worker
  BY <1>6 DEF NewWorker, Worker, WorkerSteps
<1>8. IdleUpdater \in Updater
  BY DEF IdleUpdater, Updater, Results
<1> QED
  BY <1>1, <1>2, <1>3, <1>4, <1>5, <1>6, <1>7, <1>8

\* A threshold is at least one probe, and at most what is counted.
LEMMA Thresholds ==
    /\ MaxRun \in Nat \ {0}
    /\ \A r \in Results : Threshold(r) \in Nat \ {0} /\ Threshold(r) <= MaxRun
    /\ \A n \in Nat : Saturated(n) \in Nat /\ Saturated(n) <= n /\ Saturated(n) <= MaxRun
<1>1. MaxRun \in Nat \ {0} /\ SuccessThreshold <= MaxRun /\ FailureThreshold <= MaxRun
  BY ThresholdsAssumption DEF MaxRun
<1>2. \A r \in Results : Threshold(r) \in Nat \ {0} /\ Threshold(r) <= MaxRun
  BY <1>1, ThresholdsAssumption DEF Threshold, Results
<1>3. \A n \in Nat : Saturated(n) \in Nat /\ Saturated(n) <= n /\ Saturated(n) <= MaxRun
  BY <1>1 DEF Saturated
<1> QED
  BY <1>1, <1>2, <1>3

LEMMA PartTypes ==
    ASSUME TypeOK
    PROVE  /\ agent \in Object(Agent) /\ agent.stored \in Agent /\ agent.cached \in Agent
           /\ rec \in Rec /\ rec.new \in Agent /\ rec.old \in Agent
           /\ worker \in Worker /\ worker.lastResult \in Results /\ worker.resultRun \in Nat
           /\ worker.stopped \in BOOLEAN /\ worker.step \in WorkerSteps
           /\ updater \in Updater /\ updater.result \in Results
           /\ HealthOf(cache) \in Health /\ HealthOf(updater.result) \in Health
<1>1. agent.stored \in Agent /\ agent.cached \in Agent
  BY DEF TypeOK, Object
<1>2. rec.new \in Agent /\ rec.old \in Agent
  BY DEF TypeOK, Rec
<1>3. /\ worker.lastResult \in Results /\ worker.resultRun \in Nat
      /\ worker.stopped \in BOOLEAN /\ worker.step \in WorkerSteps
  BY DEF TypeOK, Worker
<1>4. updater.result \in Results
  BY DEF TypeOK, Updater
<1>5. HealthOf(cache) \in Health /\ HealthOf(updater.result) \in Health
  BY <1>4, VersionTypes DEF TypeOK
<1> QED
  BY <1>1, <1>2, <1>3, <1>4, <1>5 DEF TypeOK

\* What RunAfter and Waiting return.
LEMMA WorkerTypes ==
    ASSUME TypeOK
    PROVE  /\ \A r \in Results : RunAfter(r) \in Nat
           /\ \A w \in Worker :
                /\ Waiting(w) \in Worker
                /\ Waiting(w).lastResult = w.lastResult /\ Waiting(w).resultRun = w.resultRun
                /\ Waiting(w).stopped = w.stopped
                /\ Waiting(w).step \in {"exit", "wait"}
           /\ \A s \in WorkerSteps, r \in Results, n \in Nat :
                [worker EXCEPT !.lastResult = r, !.resultRun = n, !.step = s] \in Worker
<1>1. worker.resultRun \in Nat /\ worker.resultRun + 1 \in Nat
  BY PartTypes
<1>2. \A r \in Results : RunAfter(r) \in Nat
  BY <1>1, Thresholds DEF RunAfter
<1>3. \A w \in Worker :
                /\ Waiting(w) \in Worker
                /\ Waiting(w).lastResult = w.lastResult /\ Waiting(w).resultRun = w.resultRun
                /\ Waiting(w).stopped = w.stopped
                /\ Waiting(w).step \in {"exit", "wait"}
  BY DEF Waiting, Worker, WorkerSteps
<1>4. \A s \in WorkerSteps, r \in Results, n \in Nat :
                [worker EXCEPT !.lastResult = r, !.resultRun = n, !.step = s] \in Worker
  BY DEF TypeOK, Worker
<1> QED
  BY <1>2, <1>3, <1>4

\* One probe: the result, how long a run it makes and whether it is believed.
ProbeResult == IF reachable THEN "Success" ELSE "Failure"
Believed == RunAfter(ProbeResult) >= Threshold(ProbeResult)

LEMMA ProbeEffect ==
    ASSUME TypeOK, DoProbe
    PROVE  /\ ProbeResult \in Results
           /\ worker.step = "probe" /\ worker' \in Worker
           /\ worker'.lastResult = ProbeResult /\ worker'.resultRun = RunAfter(ProbeResult)
           /\ worker'.step \in {"send", "exit", "wait"}
           /\ worker'.step = "send" <=> Believed /\ cache # ProbeResult
           /\ cache' = IF Believed THEN ProbeResult ELSE cache
<1> DEFINE r == ProbeResult
           n == RunAfter(r)
           w == [worker EXCEPT !.lastResult = r, !.resultRun = n]
           ws == [w EXCEPT !.step = "send"]
<1>1. r \in Results
  BY DEF ProbeResult, Results
<1>2. n \in Nat
  BY <1>1, WorkerTypes
<1>3. /\ worker' = IF Believed /\ cache # r THEN ws ELSE Waiting(w)
      /\ cache' = IF Believed THEN r ELSE cache
      /\ worker.step = "probe"
  BY DEF DoProbe, ProbeResult, Believed
<1> HIDE DEF r, n
<1>4. w \in Worker /\ w.lastResult = r /\ w.resultRun = n
  BY <1>1, <1>2, PartTypes DEF Worker
<1> HIDE DEF w
<1>5. ws \in Worker /\ ws.lastResult = r /\ ws.resultRun = n /\ ws.step = "send"
  BY <1>4 DEF Worker, WorkerSteps
<1>6. /\ Waiting(w) \in Worker /\ Waiting(w).step \in {"exit", "wait"}
      /\ Waiting(w).lastResult = r /\ Waiting(w).resultRun = n
  BY <1>4, WorkerTypes
<1> HIDE DEF ws
<1>7. CASE Believed /\ cache # r
  BY <1>1, <1>3, <1>5, <1>7 DEF r, n
<1>8. CASE ~(Believed /\ cache # r)
  BY <1>1, <1>3, <1>6, <1>8 DEF r, n
<1> QED
  BY <1>7, <1>8

\* history keeps its last results.
LEMMA HistoryEffect ==
    ASSUME TypeOK, DoProbe
    PROVE  /\ history' \in Seq(Results) /\ Len(history') <= MaxRun /\ Len(history') \in Nat \ {0}
           /\ history'[Len(history')] = ProbeResult
           /\ \/ Len(history') = Len(history) + 1
              \/ Len(history') = Len(history) /\ Len(history) = MaxRun
           /\ \A i \in 1 .. Len(history') - 1 :
                history'[i] = history[i + Len(history) + 1 - Len(history')]
<1> DEFINE h == history
           r == ProbeResult
<1>1. r \in Results /\ h \in Seq(Results) /\ Len(h) \in Nat /\ Len(h) <= MaxRun
  BY DEF TypeOK, ProbeResult, Results
<1>2. history' = IF Len(h) < MaxRun THEN Append(h, r) ELSE Append(Tail(h), r)
  BY DEF DoProbe, ProbeResult
<1> HIDE DEF h, r
<1>3. MaxRun \in Nat \ {0}
  BY Thresholds
<1>4. CASE Len(h) < MaxRun
  <2>1. /\ Append(h, r) \in Seq(Results) /\ Len(Append(h, r)) = Len(h) + 1
        /\ Append(h, r)[Len(h) + 1] = r
        /\ \A i \in 1..Len(h) : Append(h, r)[i] = h[i]
    BY <1>1
  <2>2. history' = Append(h, r)
    BY <1>2, <1>4
  <2>3. Len(history') = Len(h) + 1 /\ Len(h) + 1 \in Nat \ {0} /\ Len(h) + 1 <= MaxRun
    BY <1>1, <1>3, <1>4, <2>1, <2>2
  <2>4. \A i \in 1 .. Len(history') - 1 :
            /\ i \in 1 .. Len(h) /\ i + Len(h) + 1 - Len(history') = i
    BY <1>1, <2>3
  <2>5. \A i \in 1 .. Len(history') - 1 : history'[i] = h[i + Len(h) + 1 - Len(history')]
    BY <2>1, <2>2, <2>4
  <2>6. history' \in Seq(Results) /\ Len(history') <= MaxRun /\ history'[Len(history')] = r
    BY <2>1, <2>2, <2>3
  <2>7. Len(history') \in Nat \ {0}
    BY <2>3
  <2> QED
    BY <2>3, <2>5, <2>6, <2>7 DEF h, r
<1>5. CASE ~(Len(h) < MaxRun)
  <2>1. Len(h) = MaxRun /\ h # <<>>
    BY <1>1, <1>3, <1>5
  <2> DEFINE t == Tail(h)
  <2>2. t \in Seq(Results) /\ Len(t) = Len(h) - 1 /\ \A i \in 1..Len(t) : t[i] = h[i + 1]
    BY <1>1, <2>1
  <2> HIDE DEF t
  <2>3. /\ Append(t, r) \in Seq(Results) /\ Len(Append(t, r)) = Len(t) + 1
        /\ Append(t, r)[Len(t) + 1] = r
        /\ \A i \in 1..Len(t) : Append(t, r)[i] = t[i]
    BY <1>1, <2>2
  <2>4. history' = Append(t, r)
    BY <1>2, <1>5 DEF t
  <2>5. Len(history') = Len(h) /\ Len(t) + 1 = Len(h) /\ Len(h) \in Nat \ {0}
    BY <1>1, <1>3, <2>1, <2>2, <2>3, <2>4
  <2>6. \A i \in 1 .. Len(history') - 1 :
            i \in 1 .. Len(t) /\ i + Len(h) + 1 - Len(history') = i + 1
    BY <1>1, <2>5
  <2>7. \A i \in 1 .. Len(history') - 1 : history'[i] = h[i + Len(h) + 1 - Len(history')]
    BY <2>2, <2>3, <2>4, <2>6
  <2> QED
    BY <1>1, <2>1, <2>3, <2>4, <2>5, <2>7 DEF h, r
<1> QED
  BY <1>4, <1>5

-----------------------------------------------------------------------------
(* Kinds of steps, by what they do to the prober and to the object *)

\* The worker is the same, but may be told to stop.
WorkerStays ==
    /\ worker' \in Worker
    /\ worker'.step = worker.step
    /\ worker'.lastResult = worker.lastResult
    /\ worker'.resultRun = worker.resultRun
    /\ history' = history

ProberStays == WorkerStays /\ UNCHANGED <<cache, updates, updater>>

\* What happens to the object puts its key in the queue, now or with an event.
Seen ==
    /\ agent' \in Object(Agent) /\ Coherent(agent') /\ dirty' \in BOOLEAN
    /\ ~dirty' => ~dirty /\ agent'.cached = agent.cached
    /\ ~dirty' /\ Current(agent') => agent' = agent

\* What the model bounds is counted.
Counted ==
    /\ flips' \in Nat /\ created' \in Nat /\ faults' \in Nat
    /\ faults' = 0 => faults = 0

\* The reconcile in progress goes on to its patch, with the condition it has chosen.
GoesOn ==
    /\ rec' \in Rec /\ rec.step = "body" /\ rec'.step = "conditions"
    /\ rec'.old = rec.old /\ rec'.new.healthy = rec.new.healthy

\* A step of the reconcile, of the API server or of the agent's host that leaves the
\* prober alone.
Surroundings ==
    /\ ProberStays /\ Seen /\ Counted /\ reachable' \in BOOLEAN
    /\ \/ UNCHANGED rec
       \/ GoesOn /\ UNCHANGED agent
       \/ rec.step = "object" /\ rec' = IdleRec

\* A write of v to the object.
LEMMA WriteSeen ==
    ASSUME TypeOK, Coherent(agent), NEW v \in Agent, agent' = Store(agent, v),
           dirty' \in BOOLEAN, dirty => dirty', Overflows(agent, v) => dirty'
    PROVE  Seen
<1>1. agent \in Object(Agent)
  BY PartTypes
<1>2. agent' \in Object(Agent) /\ Coherent(agent')
  BY <1>1, StoreType, StoreCoherent
<1>3. ~dirty' => agent'.cached = agent.cached
  BY DEF Store
<1>4. ~dirty' /\ Current(agent') => agent' = agent
  BY <1>1, UnnoticedWrite
<1> QED
  BY <1>2, <1>3, <1>4 DEF Seen, TypeOK

LEMMA StoreAgentSeen ==
    ASSUME TypeOK, Coherent(agent), NEW v \in Agent, StoreAgent(v)
    PROVE  Seen
<1>1. dirty \in BOOLEAN /\ Overflows(agent, v) \in BOOLEAN
  BY DEF TypeOK, Overflows, Changes
<1>2. dirty' = (dirty \/ Overflows(agent, v)) /\ agent' = Store(agent, v)
  BY DEF StoreAgent
<1> QED
  BY <1>1, <1>2, WriteSeen

LEMMA UntouchedSeen ==
    ASSUME TypeOK, Coherent(agent), UNCHANGED agent, dirty' \in BOOLEAN, dirty => dirty'
    PROVE  Seen
BY DEF Seen, TypeOK

LEMMA RemoveProbeStays ==
    ASSUME TypeOK, RemoveProbe, UNCHANGED history
    PROVE  WorkerStays
<1>1. CASE worker.step = "none"
  BY <1>1 DEF WorkerStays, RemoveProbe, TypeOK
<1>2. CASE worker.step # "none"
  BY <1>2 DEF WorkerStays, RemoveProbe, TypeOK, Worker
<1> QED
  BY <1>1, <1>2

LEMMA GoesOnWith ==
    ASSUME TypeOK, NEW v \in Agent, v.healthy = rec.new.healthy, rec.step = "body",
           PatchWith(v)
    PROVE  GoesOn /\ UNCHANGED <<agent, cache, updates, updater, history, reachable, observers>>
BY DEF GoesOn, PatchWith, TypeOK, Rec

\* The object after the patch of a reconcile.
LEMMA PatchedType ==
    ASSUME TypeOK
    PROVE  Patched(agent.stored) \in Agent
<1> DEFINE v == [agent.stored EXCEPT
                !.finalizer = IF rec.new.finalizer # rec.old.finalizer
                                THEN rec.new.finalizer ELSE agent.stored.finalizer,
                !.installed = IF rec.new.installed # rec.old.installed
                                THEN rec.new.installed ELSE agent.stored.installed]
<1>1. v \in Agent
  BY PartTypes DEF Agent
<1> QED
  BY <1>1, VersionTypes DEF Patched

\* The observers that count.
LEMMA CountedSteps ==
    ASSUME TypeOK
    PROVE  /\ UNCHANGED observers => Counted
           /\ Faulty /\ UNCHANGED <<flips, created>> => Counted
           /\ flips' = flips + 1 /\ UNCHANGED <<created, faults>> => Counted
           /\ created' = created + 1 /\ UNCHANGED <<flips, faults>> => Counted
BY DEF TypeOK, Counted, Faulty, observers

LEMMA ReconcileBodies ==
    ASSUME TypeOK, Coherent(agent),
           \/ ReconcileAddFinalizer \/ ReconcileInstall \/ ReconcileInstalled
           \/ ReconcileDeleteWaits \/ ReconcileDelete
    PROVE  Surroundings
<1> DEFINE n == rec.new
<1>1. n \in Agent /\ dirty \in BOOLEAN /\ reachable \in BOOLEAN /\ worker \in Worker
  BY PartTypes DEF TypeOK
<1> HIDE DEF n
<1>2. /\ [n EXCEPT !.finalizer = TRUE] \in Agent /\ [n EXCEPT !.finalizer = TRUE].healthy = n.healthy
      /\ [n EXCEPT !.finalizer = FALSE] \in Agent /\ [n EXCEPT !.finalizer = FALSE].healthy = n.healthy
      /\ [n EXCEPT !.installed = TRUE] \in Agent /\ [n EXCEPT !.installed = TRUE].healthy = n.healthy
  BY <1>1 DEF Agent
<1>3. /\ rec.step = "body"
      /\ \E v \in Agent : v.healthy = n.healthy /\ PatchWith(v)
  BY <1>1, <1>2 DEF ReconcileAddFinalizer, ReconcileInstall, ReconcileInstalled,
                    ReconcileDeleteWaits, ReconcileDelete, n
<1>4. GoesOn /\ UNCHANGED <<agent, cache, updates, updater, history, reachable, observers>>
  BY <1>3, GoesOnWith DEF n
<1>5. dirty' \in BOOLEAN /\ (dirty => dirty')
  BY <1>1 DEF ReconcileAddFinalizer, ReconcileInstall, ReconcileInstalled,
              ReconcileDeleteWaits, ReconcileDelete
<1>6. UNCHANGED worker \/ RemoveProbe
  BY DEF ReconcileAddFinalizer, ReconcileInstall, ReconcileInstalled,
         ReconcileDeleteWaits, ReconcileDelete
<1>7. WorkerStays
  BY <1>1, <1>4, <1>6, RemoveProbeStays DEF WorkerStays
<1>8. Seen
  BY <1>4, <1>5, UntouchedSeen
<1> QED
  BY <1>1, <1>4, <1>7, <1>8, CountedSteps DEF Surroundings, ProberStays

LEMMA ReconcileEnds ==
    ASSUME TypeOK, Coherent(agent), PatchObject \/ PatchObjectNotFound \/ PatchObjectFails
    PROVE  Surroundings
<1>1. dirty \in BOOLEAN /\ reachable \in BOOLEAN /\ worker \in Worker /\ rec.failed \in BOOLEAN
  BY DEF TypeOK, Rec
<1>2. /\ rec.step = "object" /\ rec' = IdleRec
      /\ UNCHANGED prober /\ UNCHANGED reachable
  BY DEF PatchObject, PatchObjectNotFound, PatchObjectFails
<1>3. ProberStays /\ reachable' \in BOOLEAN
  BY <1>1, <1>2 DEF ProberStays, WorkerStays, prober
<1>4. CASE PatchObject
  <2>1. /\ agent' = Store(agent, Patched(agent.stored)) /\ UNCHANGED observers
        /\ dirty' = (dirty \/ Overflows(agent, Patched(agent.stored)) \/ rec.failed)
    BY <1>4 DEF PatchObject
  <2>2. Overflows(agent, Patched(agent.stored)) \in BOOLEAN
    BY DEF Overflows, Changes
  <2>3. Seen
    BY <1>1, <2>1, <2>2, PatchedType, WriteSeen
  <2> QED
    BY <1>2, <1>3, <2>1, <2>3, CountedSteps DEF Surroundings
<1>5. CASE PatchObjectNotFound
  <2>1. /\ UNCHANGED agent /\ UNCHANGED observers
        /\ dirty' = (dirty \/ Differs \/ rec.failed)
    BY <1>5 DEF PatchObjectNotFound
  <2>2. Differs \in BOOLEAN
    BY DEF Differs
  <2>3. Seen
    BY <1>1, <2>1, <2>2, UntouchedSeen
  <2> QED
    BY <1>2, <1>3, <2>1, <2>3, CountedSteps DEF Surroundings
<1>6. CASE PatchObjectFails
  <2>1. UNCHANGED agent /\ Faulty /\ UNCHANGED <<flips, created>> /\ dirty' = TRUE
    BY <1>6 DEF PatchObjectFails
  <2>2. Seen
    BY <2>1, UntouchedSeen
  <2> QED
    BY <1>2, <1>3, <2>1, <2>2, CountedSteps DEF Surroundings
<1> QED
  BY <1>4, <1>5, <1>6

LEMMA OutsideSteps ==
    ASSUME TypeOK, Coherent(agent),
           DeliverEvent \/ Resync \/ Flip \/ CreateAgent \/ DeleteAgent
    PROVE  Surroundings
<1>1. dirty \in BOOLEAN /\ reachable \in BOOLEAN /\ worker \in Worker
  BY DEF TypeOK
<1>2. UNCHANGED rec /\ UNCHANGED prober /\ reachable' \in BOOLEAN
  BY <1>1 DEF DeliverEvent, Resync, Flip, CreateAgent, DeleteAgent
<1>3. ProberStays
  BY <1>1, <1>2 DEF ProberStays, WorkerStays, prober
<1>4. CASE DeliverEvent
  <2>1. ~Current(agent) /\ agent' = Deliver(agent) /\ dirty' = TRUE /\ UNCHANGED observers
    BY <1>4 DEF DeliverEvent
  <2>2. agent' \in Object(Agent) /\ Coherent(agent')
    BY <2>1, PartTypes, DeliverType, DeliverCoherent
  <2> QED
    BY <1>2, <1>3, <2>1, <2>2, CountedSteps DEF Surroundings, Seen
<1>5. CASE Resync
  <2>1. UNCHANGED agent /\ dirty' = TRUE /\ UNCHANGED observers
    BY <1>5 DEF Resync
  <2> QED
    BY <1>2, <1>3, <2>1, UntouchedSeen, CountedSteps DEF Surroundings
<1>6. CASE Flip
  <2>1. UNCHANGED <<agent, dirty>> /\ flips' = flips + 1 /\ UNCHANGED <<created, faults>>
    BY <1>6 DEF Flip
  <2> QED
    BY <1>1, <1>2, <1>3, <2>1, UntouchedSeen, CountedSteps DEF Surroundings
<1>7. CASE CreateAgent
  <2>1. StoreAgent(NewAgent) /\ created' = created + 1 /\ UNCHANGED <<flips, faults>>
    BY <1>7 DEF CreateAgent
  <2> QED
    BY <1>2, <1>3, <2>1, VersionTypes, StoreAgentSeen, CountedSteps DEF Surroundings
<1>8. CASE DeleteAgent
  <2>1. (\E v \in Agent : StoreAgent(v)) /\ UNCHANGED observers
    BY <1>8, VersionTypes, PartTypes DEF DeleteAgent
  <2> QED
    BY <1>2, <1>3, <2>1, StoreAgentSeen, CountedSteps DEF Surroundings
<1> QED
  BY <1>4, <1>5, <1>6, <1>7, <1>8

\* Every step is one of these kinds.
LEMMA Kinds ==
    ASSUME TypeOK, Coherent(agent), [Next]_vars
    PROVE  \/ Surroundings
           \/ ReconcileNotFound \/ ReconcileHealth \/ PatchConditions \/ PatchConditionsFails
           \/ WorkerStep \/ UpdaterStep
           \/ Restart
<1>1. CASE UNCHANGED vars
  <2>1. UNCHANGED <<agent, dirty, rec, reachable, worker, history, cache, updates, updater>>
        /\ UNCHANGED observers
    BY <1>1 DEF vars, prober
  <2>2. Seen
    BY <2>1, UntouchedSeen DEF TypeOK
  <2> QED
    BY <2>1, <2>2, CountedSteps DEF Surroundings, ProberStays, WorkerStays, TypeOK
<1>2. CASE Next
  BY <1>2, ReconcileBodies, ReconcileEnds, OutsideSteps DEF Next, Reconcile
<1> QED
  BY <1>1, <1>2

\* UpdateStatus has read the agent: it is about to write, or has nothing to do.
LEMMA UpdaterTypes ==
    ASSUME TypeOK, UpdaterStep
    PROVE  updater' \in Updater /\ updates' \in Seq(Results) /\ Len(updates') <= Capacity
<1>1. CASE TakeUpdate
  <2>1. updates \in Seq(Results) /\ updates # <<>> /\ Len(updates) <= Capacity
    BY <1>1 DEF TakeUpdate, TypeOK
  <2>2. /\ Head(updates) \in Results /\ Tail(updates) \in Seq(Results)
        /\ Len(Tail(updates)) = Len(updates) - 1 /\ Len(updates) \in Nat
    BY <2>1
  <2>3. Len(Tail(updates)) <= Capacity
    BY <2>1, <2>2, CapacityAssumption
  <2> QED
    BY <1>1, <2>2, <2>3 DEF TakeUpdate, Updater
<1>2. CASE ReadAgent
  <2>1. [updater EXCEPT !.step = "patch"] \in Updater
    BY DEF TypeOK, Updater
  <2> QED
    BY <1>2, <2>1, VersionTypes DEF ReadAgent, TypeOK
<1>3. CASE PatchHealthy \/ UpdateStatusFails
  BY <1>3, VersionTypes DEF PatchHealthy, UpdateStatusFails, TypeOK
<1> QED
  BY <1>1, <1>2, <1>3 DEF UpdaterStep

\* The update that UpdateStatus writes.
HealthyWith(r) ==
    IF agent.stored.exists THEN [agent.stored EXCEPT !.healthy = HealthOf(r)]
    ELSE agent.stored

\* The conditions that a reconcile writes.
Conditions ==
    IF rec.new.healthy # rec.old.healthy /\ agent.stored.exists
      THEN [agent.stored EXCEPT !.healthy = rec.new.healthy] ELSE agent.stored

LEMMA WrittenTypes ==
    ASSUME TypeOK
    PROVE  HealthyWith(updater.result) \in Agent /\ Conditions \in Agent
<1>1. rec.new.healthy \in Health
  BY PartTypes DEF Agent
<1> QED
  BY <1>1, PartTypes, VersionTypes DEF HealthyWith, Conditions

\* The steps of the updater, as the object sees them.
LEMMA UpdaterSeen ==
    ASSUME TypeOK, Coherent(agent), UpdaterStep
    PROVE  Seen /\ Counted /\ WorkerStays /\ UNCHANGED <<rec, cache, reachable>>
<1>1. worker \in Worker /\ dirty \in BOOLEAN
  BY DEF TypeOK
<1>2. WorkerStays /\ UNCHANGED <<rec, cache, reachable>>
  BY <1>1 DEF UpdaterStep, TakeUpdate, ReadAgent, PatchHealthy, UpdateStatusFails, WorkerStays
<1>3. Counted
  BY CountedSteps DEF UpdaterStep, TakeUpdate, ReadAgent, PatchHealthy, UpdateStatusFails
<1>4. CASE PatchHealthy
  <2>1. StoreAgent(HealthyWith(updater.result))
    BY <1>4 DEF PatchHealthy, HealthyWith
  <2> QED
    BY <1>2, <1>3, <2>1, WrittenTypes, StoreAgentSeen
<1>5. CASE TakeUpdate \/ ReadAgent \/ UpdateStatusFails
  <2>1. UNCHANGED <<agent, dirty>>
    BY <1>5 DEF TakeUpdate, ReadAgent, UpdateStatusFails
  <2> QED
    BY <1>1, <1>2, <1>3, <2>1, UntouchedSeen
<1> QED
  BY <1>4, <1>5 DEF UpdaterStep

\* The patch of the conditions, as the object sees it.
LEMMA ConditionsSeen ==
    ASSUME TypeOK, Coherent(agent), PatchConditions \/ PatchConditionsFails
    PROVE  /\ Seen /\ Counted /\ ProberStays /\ UNCHANGED reachable
           /\ rec' \in Rec /\ rec.step = "conditions" /\ rec'.step = "object"
           /\ rec'.old = rec.old
<1>1. worker \in Worker /\ dirty \in BOOLEAN
  BY DEF TypeOK
<1>2. UNCHANGED <<prober, reachable>> /\ rec.step = "conditions"
  BY DEF PatchConditions, PatchConditionsFails
<1>3. ProberStays
  BY <1>1, <1>2 DEF ProberStays, WorkerStays, prober
<1>4. Counted
  BY CountedSteps DEF PatchConditions, PatchConditionsFails
<1>5. rec' \in Rec /\ rec'.step = "object" /\ rec'.old = rec.old
  <2>1. \A b \in BOOLEAN :
            LET r == [rec EXCEPT !.step = "object", !.failed = b]
            IN  r \in Rec /\ r.step = "object" /\ r.old = rec.old
    BY DEF TypeOK, Rec
  <2>2. (rec.new.healthy # rec.old.healthy /\ ~agent.stored.exists) \in BOOLEAN
    OBVIOUS
  <2> QED
    BY <2>1, <2>2 DEF PatchConditions, PatchConditionsFails
<1>6. CASE PatchConditions
  <2>1. StoreAgent(Conditions)
    BY <1>6 DEF PatchConditions, Conditions
  <2> QED
    BY <1>2, <1>3, <1>4, <1>5, <2>1, WrittenTypes, StoreAgentSeen
<1>7. CASE PatchConditionsFails
  <2>1. UNCHANGED <<agent, dirty>>
    BY <1>7 DEF PatchConditionsFails
  <2> QED
    BY <1>1, <1>2, <1>3, <1>4, <1>5, <2>1, UntouchedSeen
<1> QED
  BY <1>6, <1>7

\* EnsureProbe starts a worker that has not probed yet, or leaves the one it finds.
LEMMA HealthRead ==
    ASSUME TypeOK, ReconcileHealth
    PROVE  /\ rec.step = "idle" /\ agent.cached.exists /\ ~dirty'
           /\ rec' \in Rec /\ rec'.step = "body" /\ rec'.old = agent.cached
           /\ agent.cached.installed => rec'.new.healthy = HealthOf(cache)
           /\ \/ WorkerStays
              \/ worker.step = "none" /\ worker' = NewWorker /\ history' = <<>>
           /\ worker.step = "none" /\ worker'.step # "none" => agent.cached.installed
           /\ UNCHANGED <<agent, cache, updates, updater, reachable, observers>>
<1> DEFINE h == [agent.cached EXCEPT !.healthy = HealthOf(cache)]
<1>1. agent.cached \in Agent /\ h \in Agent /\ h.healthy = HealthOf(cache)
  BY PartTypes DEF Agent
<1>2. rec' = [step |-> "body", old |-> agent.cached, failed |-> FALSE,
              new |-> IF agent.cached.installed THEN h ELSE agent.cached]
  BY DEF ReconcileHealth
<1> HIDE DEF h
<1>3. /\ rec' \in Rec /\ rec'.step = "body" /\ rec'.old = agent.cached
      /\ agent.cached.installed => rec'.new.healthy = HealthOf(cache)
  BY <1>1, <1>2 DEF Rec
<1>4. /\ \/ WorkerStays
         \/ worker.step = "none" /\ worker' = NewWorker /\ history' = <<>>
      /\ worker.step = "none" /\ worker'.step # "none" => agent.cached.installed
  BY DEF ReconcileHealth, EnsureProbe, WorkerStays, TypeOK
<1> QED
  BY <1>3, <1>4 DEF ReconcileHealth

-----------------------------------------------------------------------------
(* The inductive invariant *)

\* history ends with as many results like the last one as resultRun says.
Runs ==
    /\ worker.resultRun <= Len(history)
    /\ \A i \in 1..Len(history) :
        i > Len(history) - worker.resultRun => history[i] = worker.lastResult

\* The newest update on its way to the object is the cached result.
Newest ==
    /\ worker.step = "send" => worker.lastResult = cache
    /\ worker.step # "send" /\ updates # <<>> => updates[Len(updates)] = cache
    /\ worker.step # "send" /\ updates = <<>> /\ updater.step # "idle"
        => updater.result = cache

\* A copy that a reconcile has read is the latest unless the key is back in the queue.
ReadCurrent == rec.step # "idle" /\ ~dirty => agent.cached = rec.old

\* No update is on its way to the object.
Drained == worker.step # "send" /\ updates = <<>> /\ updater.step = "idle"

\* Nothing will look at the object again.
Forgotten == ~dirty /\ Current(agent)

\* Without faults, an object that nobody will look at again has the cached result, or
\* the reconcile in progress is about to give it to it.
Kept ==
    /\ faults = 0 /\ Drained /\ worker.step # "none" /\ Forgotten
    /\ agent.stored.exists /\ agent.stored.installed
    => \/ agent.stored.healthy = HealthOf(cache)
       \/ rec.step \in {"body", "conditions"} /\ rec.new.healthy = HealthOf(cache)

IInv == TypeOK /\ Coherent(agent) /\ Runs /\ Newest /\ ReadCurrent /\ Kept

LEMMA WorkerEffect ==
    ASSUME TypeOK, WorkerStep
    PROVE  /\ worker' \in Worker
           /\ cache' \in Results \cup {"none"}
           /\ updates' \in Seq(Results) /\ Len(updates') <= Capacity
           /\ history' \in Seq(Results) /\ Len(history') <= MaxRun
           /\ UNCHANGED <<agent, dirty, rec, updater, reachable, observers>>
<1>1. UNCHANGED <<agent, dirty, rec, updater, reachable, observers>>
  BY DEF WorkerStep, DoProbe, SendUpdate, NextPeriod, SeeStop, RemoveWorker
<1>2. CASE DoProbe
  BY <1>1, <1>2, ProbeEffect, HistoryEffect DEF DoProbe, TypeOK
<1>3. CASE SendUpdate
  <2>1. Append(updates, worker.lastResult) \in Seq(Results)
        /\ Len(Append(updates, worker.lastResult)) = Len(updates) + 1 /\ Len(updates) \in Nat
    BY PartTypes DEF TypeOK
  <2>2. updates' \in Seq(Results) /\ Len(updates') <= Capacity
    BY <1>3, <2>1, CapacityAssumption DEF SendUpdate
  <2> QED
    BY <1>1, <1>3, <2>2, WorkerTypes DEF SendUpdate, TypeOK
<1>4. CASE NextPeriod \/ SeeStop
  <2>1. \A t \in WorkerSteps : [worker EXCEPT !.step = t] \in Worker
    BY DEF TypeOK, Worker
  <2> QED
    BY <1>1, <1>4, <2>1 DEF NextPeriod, SeeStop, TypeOK, WorkerSteps
<1>5. CASE RemoveWorker
  <2>1. <<>> \in Seq(Results) /\ Len(<<>>) = 0 /\ 0 <= MaxRun
    BY Thresholds
  <2> QED
    BY <1>1, <1>5, <2>1, VersionTypes DEF RemoveWorker, TypeOK
<1> QED
  BY <1>2, <1>3, <1>4, <1>5 DEF WorkerStep

LEMMA RestartEffect ==
    ASSUME TypeOK, Restart
    PROVE  TypeOK' /\ Coherent(agent') /\ faults' # 0
<1>1. agent' \in Object(Agent) /\ Coherent(agent')
  BY PartTypes, ListedType, ListedCoherent DEF Restart
<1>2. agent.stored.exists \in BOOLEAN
  BY PartTypes DEF Agent
<1>3. <<>> \in Seq(Results) /\ Len(<<>>) = 0 /\ 0 <= MaxRun /\ 0 <= Capacity
  BY Thresholds, CapacityAssumption
<1>4. faults' = faults + 1 /\ faults \in Nat
  BY DEF Restart, Faulty, TypeOK
<1>5. faults' \in Nat /\ faults' # 0
  BY <1>4
<1> QED
  BY <1>1, <1>2, <1>3, <1>5, VersionTypes DEF Restart, TypeOK

LEMMA TypeInvariant ==
    ASSUME TypeOK, Coherent(agent), [Next]_vars
    PROVE  TypeOK' /\ Coherent(agent')
<1>1. CASE Surroundings
  BY <1>1, VersionTypes DEF Surroundings, ProberStays, WorkerStays, Seen, Counted, GoesOn, TypeOK
<1>2. CASE ReconcileNotFound
  <2>1. WorkerStays
    BY <1>2, RemoveProbeStays DEF ReconcileNotFound
  <2> QED
    BY <1>2, <2>1 DEF ReconcileNotFound, WorkerStays, TypeOK, observers
<1>3. CASE ReconcileHealth
  <2>1. worker' \in Worker
    BY <1>3, HealthRead, VersionTypes DEF WorkerStays
  <2>2. history' \in Seq(Results) /\ Len(history') <= MaxRun
    <3>1. <<>> \in Seq(Results) /\ Len(<<>>) = 0 /\ 0 <= MaxRun
      BY Thresholds
    <3> QED
      BY <1>3, <3>1, HealthRead DEF WorkerStays, TypeOK
  <2> QED
    BY <1>3, <2>1, <2>2, HealthRead DEF TypeOK, observers, ReconcileHealth
<1>4. CASE PatchConditions \/ PatchConditionsFails
  BY <1>4, ConditionsSeen DEF Seen, Counted, ProberStays, WorkerStays, TypeOK
<1>5. CASE WorkerStep
  BY <1>5, WorkerEffect DEF TypeOK, observers
<1>6. CASE UpdaterStep
  BY <1>6, UpdaterSeen, UpdaterTypes DEF Seen, Counted, WorkerStays, TypeOK
<1>7. CASE Restart
  BY <1>7, RestartEffect
<1> QED
  BY <1>1, <1>2, <1>3, <1>4, <1>5, <1>6, <1>7, Kinds

-----------------------------------------------------------------------------
(* Runs of equal results *)

LEMMA ProbeRuns ==
    ASSUME TypeOK, Runs, DoProbe
    PROVE  Runs'
<1> DEFINE r == ProbeResult
           n == RunAfter(r)
           R == worker.resultRun
           L == Len(history)
           M == Len(history')
<1>1. /\ worker'.lastResult = r /\ worker'.resultRun = n
  BY ProbeEffect
<1>2. /\ r \in Results /\ n \in Nat /\ R \in Nat /\ L \in Nat /\ M \in Nat \ {0}
      /\ R <= L /\ MaxRun \in Nat \ {0}
  <2>1. r \in Results
    BY ProbeEffect
  <2>2. n \in Nat
    BY <2>1, WorkerTypes
  <2>3. R \in Nat /\ L \in Nat /\ R <= L
    BY PartTypes DEF Runs, TypeOK
  <2>4. M \in Nat \ {0}
    BY HistoryEffect
  <2> QED
    BY <2>1, <2>2, <2>3, <2>4, Thresholds
<1>3. /\ history'[M] = r
      /\ M = L + 1 \/ (M = L /\ L = MaxRun)
      /\ \A i \in 1 .. M - 1 : history'[i] = history[i + L + 1 - M]
  BY HistoryEffect
<1>4. /\ r = worker.lastResult => n = Saturated(R + 1)
      /\ r # worker.lastResult => n = 1
  BY DEF RunAfter
<1>5. \A i \in 1..L : i > L - R => history[i] = worker.lastResult
  BY DEF Runs
<1> HIDE DEF r, n, R, L, M
<1>6. Saturated(R + 1) <= R + 1 /\ Saturated(R + 1) <= MaxRun
  BY <1>2, Thresholds
<1>7. n <= M
  BY <1>2, <1>3, <1>4, <1>6
<1>8. ASSUME NEW i \in 1..M, i > M - n PROVE history'[i] = r
  <2>1. CASE i = M
    BY <1>3, <2>1
  <2>2. CASE i # M
    <3>1. i \in 1 .. M - 1 /\ n # 1
      BY <1>2, <1>8, <2>2
    <3>2. r = worker.lastResult /\ n <= R + 1
      BY <1>4, <1>6, <3>1
    <3>3. i + L + 1 - M \in 1..L /\ i + L + 1 - M > L - R
      BY <1>2, <1>3, <1>8, <3>1, <3>2
    <3> QED
      BY <1>3, <1>5, <3>1, <3>2, <3>3
  <2> QED
    BY <2>1, <2>2
<1> QED
  BY <1>1, <1>7, <1>8 DEF Runs, M, r, n

\* A worker that has just come or gone has no results.
LEMMA FreshRuns ==
    ASSUME worker' = NoWorker \/ worker' = NewWorker, history' = <<>>
    PROVE  Runs'
<1>1. worker'.resultRun = 0
  BY DEF NoWorker, NewWorker
<1>2. Len(<<>>) = 0 /\ 1..0 = {}
  OBVIOUS
<1>3. Len(history') = 0
  BY <1>2
<1> QED
  BY <1>1, <1>2, <1>3 DEF Runs

LEMMA SameRuns ==
    ASSUME Runs, history' = history, worker'.resultRun = worker.resultRun,
           worker'.lastResult = worker.lastResult
    PROVE  Runs'
BY DEF Runs

LEMMA RunsInvariant ==
    ASSUME TypeOK, Coherent(agent), Runs, [Next]_vars
    PROVE  Runs'
<1>1. CASE WorkerStays
  BY <1>1, SameRuns DEF WorkerStays
<1>2. CASE ReconcileNotFound
  BY <1>1, <1>2, RemoveProbeStays DEF ReconcileNotFound
<1>3. CASE ReconcileHealth
  BY <1>1, <1>3, HealthRead, FreshRuns
<1>4. CASE DoProbe
  BY <1>4, ProbeRuns
<1>5. CASE SendUpdate
  BY <1>5, SameRuns, WorkerTypes DEF SendUpdate, TypeOK
<1>6. CASE NextPeriod \/ SeeStop
  BY <1>6, SameRuns DEF NextPeriod, SeeStop, TypeOK, Worker
<1>7. CASE RemoveWorker \/ Restart
  BY <1>7, FreshRuns DEF RemoveWorker, Restart
<1> QED
  BY <1>1, <1>2, <1>3, <1>4, <1>5, <1>6, <1>7, Kinds, ConditionsSeen, UpdaterSeen
     DEF WorkerStep, Surroundings, ProberStays

-----------------------------------------------------------------------------
(* Updates on their way *)

\* The worker goes on without sending.
LEMMA MoveStep ==
    ASSUME TypeOK, NextPeriod \/ SeeStop \/ RemoveWorker
    PROVE  /\ worker.step \in {"wait", "exit"} /\ worker'.step # "send"
           /\ UNCHANGED <<cache, updates, updater>>
<1>1. CASE NextPeriod \/ SeeStop
  BY <1>1 DEF NextPeriod, SeeStop, TypeOK, Worker
<1>2. CASE RemoveWorker
  BY <1>2 DEF RemoveWorker, NoWorker
<1> QED
  BY <1>1, <1>2

LEMMA NewestInvariant ==
    ASSUME TypeOK, Coherent(agent), Newest, [Next]_vars
    PROVE  Newest'
<1>1. CASE ProberStays
  BY <1>1 DEF ProberStays, WorkerStays, Newest
<1>2. CASE ReconcileNotFound
  <2>1. WorkerStays
    BY <1>2, RemoveProbeStays DEF ReconcileNotFound
  <2> QED
    BY <1>1, <1>2, <2>1 DEF ReconcileNotFound, ProberStays
<1>3. CASE ReconcileHealth
  <2>1. CASE WorkerStays
    BY <1>1, <1>3, <2>1, HealthRead DEF ProberStays
  <2>2. CASE worker.step = "none" /\ worker' = NewWorker
    <3>1. worker'.step = "probe"
      BY <2>2 DEF NewWorker, NoWorker
    <3> QED
      BY <1>3, <2>2, <3>1, HealthRead DEF Newest
  <2> QED
    BY <1>3, <2>1, <2>2, HealthRead
<1>4. CASE DoProbe
  <2>1. UNCHANGED <<updates, updater>>
    BY <1>4 DEF DoProbe
  <2>2. CASE worker'.step = "send"
    BY <1>4, <2>2, ProbeEffect DEF Newest
  <2>3. CASE worker'.step # "send"
    <3>1. cache' = cache
      BY <1>4, <2>3, ProbeEffect
    <3>2. worker.step # "send"
      BY <1>4, ProbeEffect
    <3> QED
      BY <2>1, <2>3, <3>1, <3>2 DEF Newest
  <2> QED
    BY <2>2, <2>3
<1>5. CASE SendUpdate
  <2> DEFINE u == Append(updates, worker.lastResult)
  <2>1. /\ u # <<>> /\ u[Len(u)] = worker.lastResult
    BY PartTypes DEF TypeOK
  <2>2. worker'.step # "send" /\ updates' = u /\ worker.lastResult = cache /\ cache' = cache
    BY <1>5, WorkerTypes DEF SendUpdate, TypeOK, Newest
  <2> HIDE DEF u
  <2> QED
    BY <2>1, <2>2 DEF Newest
<1>6. CASE NextPeriod \/ SeeStop \/ RemoveWorker
  BY <1>6, MoveStep DEF Newest
<1>7. CASE UpdaterStep
  <2>1. WorkerStays /\ UNCHANGED cache
    BY <1>7, UpdaterSeen
  <2>2. CASE TakeUpdate
    <3>1. updates \in Seq(Results) /\ updates # <<>>
      BY <2>2 DEF TakeUpdate, TypeOK
    <3>2. Len(updates) \in Nat \ {0}
      BY <3>1, EmptyIffNoLength
    <3> DEFINE t == Tail(updates)
    <3>3. /\ Len(t) = Len(updates) - 1
          /\ t # <<>> => t[Len(t)] = updates[Len(updates)]
          /\ t = <<>> => Head(updates) = updates[Len(updates)]
      <4>1. t \in Seq(Results) /\ Len(t) = Len(updates) - 1 /\ Head(updates) = updates[1]
            /\ \A i \in 1..Len(t) : t[i] = updates[i + 1]
        BY <3>1
      <4>2. t = <<>> <=> Len(t) = 0
        BY <4>1, EmptyIffNoLength
      <4> HIDE DEF t
      <4>3. t # <<>> => Len(t) \in 1..Len(t) /\ Len(t) + 1 = Len(updates)
        BY <3>2, <4>1, <4>2
      <4> QED
        BY <3>2, <4>1, <4>2, <4>3
    <3>4. updater' = [step |-> "taken", result |-> Head(updates)] /\ updates' = t
      BY <2>2 DEF TakeUpdate
    <3> HIDE DEF t
    <3> QED
      BY <2>1, <3>1, <3>3, <3>4 DEF Newest, WorkerStays
  <2>3. CASE ReadAgent
    BY <2>1, <2>3 DEF ReadAgent, Newest, WorkerStays, IdleUpdater, TypeOK, Updater
  <2>4. CASE PatchHealthy \/ UpdateStatusFails
    BY <2>1, <2>4 DEF PatchHealthy, UpdateStatusFails, Newest, WorkerStays, IdleUpdater
  <2> QED
    BY <1>7, <2>2, <2>3, <2>4 DEF UpdaterStep
<1>8. CASE Restart
  BY <1>8 DEF Restart, NoWorker, IdleUpdater, Newest
<1> QED
  BY <1>1, <1>2, <1>3, <1>4, <1>5, <1>6, <1>7, <1>8, Kinds, ConditionsSeen
     DEF WorkerStep, Surroundings

-----------------------------------------------------------------------------
(* What is read and what is written *)

LEMMA ReadInvariant ==
    ASSUME TypeOK, Coherent(agent), ReadCurrent, [Next]_vars
    PROVE  ReadCurrent'
<1>1. CASE Seen /\ (rec'.step = "idle" \/ (rec'.old = rec.old /\ rec.step # "idle"))
  BY <1>1 DEF Seen, ReadCurrent
<1>2. CASE Surroundings
  BY <1>1, <1>2 DEF Surroundings, GoesOn, IdleRec
<1>3. CASE ReconcileNotFound
  BY <1>3 DEF ReconcileNotFound, ReadCurrent
<1>4. CASE ReconcileHealth
  BY <1>4, HealthRead DEF ReadCurrent
<1>5. CASE PatchConditions \/ PatchConditionsFails
  BY <1>1, <1>5, ConditionsSeen
<1>6. CASE WorkerStep
  BY <1>6, WorkerEffect DEF ReadCurrent
<1>7. CASE UpdaterStep
  BY <1>1, <1>7, UpdaterSeen
<1>8. CASE Restart
  BY <1>8 DEF Restart, IdleRec, ReadCurrent
<1> QED
  BY <1>2, <1>3, <1>4, <1>5, <1>6, <1>7, <1>8, Kinds

\* The last update is written, or the copy has the condition already.
LEMMA UpdaterKept ==
    ASSUME IInv, UpdaterStep
    PROVE  Kept'
<1>1. /\ TypeOK /\ Coherent(agent) /\ Newest
      /\ Seen /\ Counted /\ WorkerStays /\ UNCHANGED <<rec, cache>>
  BY UpdaterSeen DEF IInv
<1> SUFFICES ASSUME faults' = 0, Drained', worker'.step # "none", Forgotten',
                    agent'.stored.exists, agent'.stored.installed
             PROVE  agent'.stored.healthy = HealthOf(cache)
  BY <1>1 DEF Kept
<1>2. agent' = agent /\ worker.step # "send" /\ worker.step # "none"
      /\ updates' = <<>> /\ updater'.step = "idle"
  BY <1>1 DEF Forgotten, Seen, Drained, WorkerStays
<1>3. CASE TakeUpdate
  BY <1>2, <1>3 DEF TakeUpdate
<1>4. CASE ReadAgent
  <2>1. updater.step = "taken" /\ updates = <<>>
    BY <1>2, <1>4 DEF ReadAgent
  <2>2. updater.result = cache
    BY <1>1, <1>2, <2>1 DEF Newest
  <2>3. ~Writes(updater.result)
    BY <1>1, <1>2, <1>4 DEF ReadAgent, TypeOK, Updater
  <2>4. agent.cached = agent.stored
    BY <1>1, <1>2 DEF Coherent, Forgotten, Current
  <2> QED
    BY <1>2, <2>2, <2>3, <2>4 DEF Writes
<1>5. CASE PatchHealthy
  <2>1. updater.step = "patch" /\ updates = <<>>
    BY <1>2, <1>5 DEF PatchHealthy
  <2>2. updater.result = cache
    BY <1>1, <1>2, <2>1 DEF Newest
  <2>3. agent'.stored = HealthyWith(updater.result)
    BY <1>5, StoredVersion DEF PatchHealthy, StoreAgent, HealthyWith
  <2>4. [agent.stored EXCEPT !.healthy = HealthOf(cache)].healthy = HealthOf(cache)
    BY <1>1, PartTypes DEF Agent
  <2> QED
    BY <1>2, <2>2, <2>3, <2>4 DEF HealthyWith
<1>6. CASE UpdateStatusFails
  BY <1>1, <1>6 DEF UpdateStatusFails, Faulty, TypeOK
<1> QED
  BY <1>3, <1>4, <1>5, <1>6 DEF UpdaterStep

\* A reconcile that has read the latest version writes the condition it has chosen, and
\* one that has not is repeated.
LEMMA ConditionsKept ==
    ASSUME IInv, PatchConditions \/ PatchConditionsFails
    PROVE  Kept'
<1>1. /\ TypeOK /\ Coherent(agent) /\ ReadCurrent /\ Kept
      /\ Seen /\ Counted /\ ProberStays /\ rec.step = "conditions"
  BY ConditionsSeen DEF IInv
<1> SUFFICES ASSUME faults' = 0, Drained', worker'.step # "none", Forgotten',
                    agent'.stored.exists, agent'.stored.installed
             PROVE  agent'.stored.healthy = HealthOf(cache)
  BY <1>1 DEF Kept, ProberStays
<1>2. /\ agent' = agent /\ ~dirty /\ Drained /\ worker.step # "none" /\ Forgotten /\ faults = 0
  BY <1>1 DEF Forgotten, Seen, Drained, ProberStays, WorkerStays, Counted
<1>3. CASE PatchConditionsFails
  BY <1>1, <1>3 DEF PatchConditionsFails, Faulty, TypeOK
<1>4. CASE PatchConditions
  <2>1. agent.stored = Conditions
    <3>1. agent' = Store(agent, Conditions)
      BY <1>4 DEF PatchConditions, StoreAgent, Conditions
    <3> QED
      BY <1>2, <3>1, StoredVersion
  <2>2. CASE agent.stored.healthy = HealthOf(cache)
    BY <1>2, <2>2
  <2>3. CASE rec.new.healthy = HealthOf(cache)
    <3>1. agent.stored = rec.old
      BY <1>1, <1>2 DEF ReadCurrent, Coherent, Forgotten, Current
    <3>2. [agent.stored EXCEPT !.healthy = rec.new.healthy].healthy = rec.new.healthy
      BY <1>1, PartTypes DEF Agent
    <3> QED
      BY <1>2, <2>1, <2>3, <3>1, <3>2 DEF Conditions
  <2> QED
    BY <1>1, <1>2, <2>2, <2>3 DEF Kept
<1> QED
  BY <1>3, <1>4

LEMMA KeptInvariant ==
    ASSUME IInv, [Next]_vars
    PROVE  Kept'
<1>1. TypeOK /\ Coherent(agent) /\ Newest /\ ReadCurrent /\ Kept
  BY DEF IInv
<1>2. CASE Surroundings
  <2> SUFFICES ASSUME faults' = 0, Drained', worker'.step # "none", Forgotten',
                      agent'.stored.exists, agent'.stored.installed
               PROVE  \/ agent'.stored.healthy = HealthOf(cache')
                      \/ rec'.step \in {"body", "conditions"} /\ rec'.new.healthy = HealthOf(cache')
    BY DEF Kept
  <2>1. /\ agent' = agent /\ Drained /\ worker.step # "none" /\ Forgotten /\ faults = 0
        /\ cache' = cache
    BY <1>2 DEF Surroundings, Forgotten, Seen, Drained, ProberStays, WorkerStays, Counted
  <2>2. \/ agent.stored.healthy = HealthOf(cache)
        \/ rec.step \in {"body", "conditions"} /\ rec.new.healthy = HealthOf(cache)
    BY <1>1, <2>1 DEF Kept
  <2> QED
    BY <1>2, <2>1, <2>2 DEF Surroundings, GoesOn
<1>3. CASE ReconcileNotFound
  BY <1>1, <1>3 DEF ReconcileNotFound, Kept, Forgotten, Current, Coherent
<1>4. CASE ReconcileHealth
  BY <1>1, <1>4, HealthRead DEF Kept, Forgotten, Current, Coherent
<1>5. CASE DoProbe
  <2>1. UNCHANGED <<agent, dirty, rec, updates, updater, faults>>
    BY <1>5 DEF DoProbe, observers
  <2>2. worker.step = "probe" /\ (worker'.step # "send" => cache' = cache)
    BY <1>1, <1>5, ProbeEffect
  <2> QED
    BY <1>1, <2>1, <2>2 DEF Kept, Drained, Forgotten
<1>6. CASE SendUpdate
  <2>1. updates' # <<>>
    BY <1>1, <1>6, PartTypes DEF SendUpdate, TypeOK
  <2> QED
    BY <2>1 DEF Kept, Drained
<1>7. CASE NextPeriod \/ SeeStop \/ RemoveWorker
  <2>1. UNCHANGED <<agent, dirty, rec, faults>>
    BY <1>7 DEF NextPeriod, SeeStop, RemoveWorker, observers
  <2> QED
    BY <1>1, <1>7, <2>1, MoveStep DEF Kept, Drained, Forgotten
<1>8. CASE Restart
  BY <1>1, <1>8, RestartEffect DEF Kept
<1> QED
  BY <1>1, <1>2, <1>3, <1>4, <1>5, <1>6, <1>7, <1>8, Kinds, UpdaterKept, ConditionsKept
     DEF WorkerStep

-----------------------------------------------------------------------------
(* Theorems *)

LEMMA Invariant == Spec => []IInv
<1>1. Init => IInv
  <2> SUFFICES ASSUME Init PROVE IInv
    OBVIOUS
  <2>1. agent \in Object(Agent) /\ Coherent(agent)
    BY VersionTypes, ListedType, ListedCoherent DEF Init
  <2>2. <<>> \in Seq(Results) /\ Len(<<>>) = 0 /\ 0 <= MaxRun /\ 0 <= Capacity /\ 1..0 = {}
    BY Thresholds, CapacityAssumption
  <2>3. TypeOK
    BY <2>1, <2>2, VersionTypes DEF Init, TypeOK
  <2>4. Runs
    BY <2>2 DEF Init, Runs, NoWorker
  <2>5. Newest /\ ReadCurrent /\ Kept
    BY DEF Init, Newest, ReadCurrent, Kept, NoWorker, IdleUpdater, IdleRec
  <2> QED
    BY <2>1, <2>3, <2>4, <2>5 DEF IInv
<1>2. IInv /\ [Next]_vars => IInv'
  <2> SUFFICES ASSUME IInv, [Next]_vars PROVE IInv'
    OBVIOUS
  <2>1. TypeOK /\ Coherent(agent) /\ Runs /\ Newest /\ ReadCurrent
    BY DEF IInv
  <2>2. TypeOK' /\ Coherent(agent') /\ Runs' /\ Newest' /\ ReadCurrent'
    BY <2>1, TypeInvariant, RunsInvariant, NewestInvariant, ReadInvariant
  <2>3. Kept'
    BY KeptInvariant
  <2> QED
    BY <2>2, <2>3 DEF IInv
<1> QED
  BY <1>1, <1>2, PTL DEF Spec

\* The object, the queue, the prober and the observers keep their types: the channel of
\* updates holds at most its capacity.
THEOREM TypeCorrect == Spec => []TypeOK
<1>1. IInv => TypeOK
  BY DEF IInv
<1> QED
  BY <1>1, Invariant, PTL

\* Without failed calls, the condition of an agent at rest is the last result of its
\* probe: neither the handler's UpdateStatus nor the deferred patch of Reconcile leaves
\* the other's older value in place.
THEOREM HealthAtRest == Spec => []QuiescentHealthIsTrue
<1>1. IInv => QuiescentHealthIsTrue
  BY DEF IInv, QuiescentHealthIsTrue, Quiescent, Kept, Drained, Forgotten
<1> QED
  BY <1>1, Invariant, PTL

\* A verdict changes only after as many equal probes in a row, of one worker, as its
\* threshold says, whatever the two thresholds are.
THEOREM VerdictNeedsRun == Spec => ThresholdRespected
<1> DEFINE Respected ==
        cache' \notin {cache, "none"} =>
            LET n == Threshold(cache')
            IN  /\ Len(history') >= n
                /\ \A i \in Len(history') - n + 1 .. Len(history') : history'[i] = cache'
<1>1. IInv /\ IInv' /\ [Next]_vars => [Respected]_vars
  <2> SUFFICES ASSUME IInv, IInv', [Next]_vars, cache' \notin {cache, "none"}
               PROVE  /\ Len(history') >= Threshold(cache')
                      /\ \A i \in Len(history') - Threshold(cache') + 1 .. Len(history') :
                            history'[i] = cache'
    OBVIOUS
  <2>1. TypeOK /\ Coherent(agent) /\ Runs'
    BY DEF IInv
  <2>2. DoProbe
    BY <2>1, Kinds, ConditionsSeen, UpdaterSeen, HealthRead, MoveStep
       DEF Surroundings, ProberStays, WorkerStep, SendUpdate, ReconcileNotFound, Restart
  <2> DEFINE r == ProbeResult
             n == worker'.resultRun
             k == Threshold(r)
             M == Len(history')
  <2>3. /\ r \in Results /\ cache' = r /\ worker'.lastResult = r /\ n = RunAfter(r) /\ n >= k
    BY <2>1, <2>2, ProbeEffect DEF Believed
  <2>4. n \in Nat /\ k \in Nat \ {0} /\ M \in Nat
    BY <2>1, <2>2, <2>3, WorkerTypes, Thresholds, HistoryEffect
  <2>5. n <= M /\ \A i \in 1..M : i > M - n => history'[i] = r
    BY <2>1, <2>3 DEF Runs
  <2> HIDE DEF r, n, k, M
  <2>6. M >= k
    BY <2>3, <2>4, <2>5
  <2>7. \A i \in M - k + 1 .. M : i \in 1..M /\ i > M - n
    BY <2>3, <2>4, <2>5, <2>6
  <2>8. \A i \in M - k + 1 .. M : history'[i] = r
    BY <2>5, <2>7
  <2> QED
    BY <2>3, <2>6, <2>8 DEF k, M
<1>2. Spec => [][Respected]_vars
  BY <1>1, Invariant, PTL DEF Spec
<1> QED
  BY <1>2 DEF ThresholdRespected
=============================================================================
