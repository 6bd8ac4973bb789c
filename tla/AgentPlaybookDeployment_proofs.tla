------------------- MODULE AgentPlaybookDeployment_proofs -------------------
(***************************************************************************)
(* The safety of the agent's PlaybookDeployment controller, for every set  *)
(* of templates, every lag of the informers and every number of faults:    *)
(* templates are not executed twice or side by side, no Playbook is left   *)
(* behind, and no wake-up is lost.                                         *)
(***************************************************************************)
EXTENDS AgentPlaybookDeployment, Informer_proofs, FiniteSetTheorems, TLAPS

-----------------------------------------------------------------------------
(* Types *)

LEMMA VersionTypes ==
    /\ NoDeployment \in Deployment /\ ~NoDeployment.exists
    /\ NewDeployment(FirstTemplate) \in Deployment
    /\ NoPlaybook \in Playbook /\ ~NoPlaybook.exists
    /\ \A t \in Templates, k \in Nat :
        /\ NewPlaybook(t, k) \in Playbook
        /\ NewPlaybook(t, k).exists /\ ~NewPlaybook(t, k).deleting
        /\ NewPlaybook(t, k).spec = t /\ NewPlaybook(t, k).created = k
        /\ NewPlaybook(t, k).verdict = "active"
    /\ Idle \in Worker /\ Idle.step = "idle"
<1>1. NewDeployment(FirstTemplate) \in Deployment
  BY TemplatesAssumption DEF NewDeployment, Deployment, Phases
<1>2. NoDeployment \in Deployment /\ ~NoDeployment.exists
  BY <1>1 DEF NoDeployment, Deployment
<1>3. \A t \in Templates, k \in Nat :
        /\ NewPlaybook(t, k) \in Playbook
        /\ NewPlaybook(t, k).exists /\ ~NewPlaybook(t, k).deleting
        /\ NewPlaybook(t, k).spec = t /\ NewPlaybook(t, k).created = k
        /\ NewPlaybook(t, k).verdict = "active"
  BY DEF NewPlaybook, Playbook
<1>4. NoPlaybook \in Playbook /\ ~NoPlaybook.exists
  <2>1. NewPlaybook(FirstTemplate, 0) \in Playbook
    BY <1>3, TemplatesAssumption
  <2> QED
    BY <2>1 DEF NoPlaybook, Playbook
<1>5. Idle \in Worker /\ Idle.step = "idle"
  BY <1>2 DEF Idle, Worker, Steps
<1> QED
  BY <1>1, <1>2, <1>3, <1>4, <1>5

LEMMA PartTypes ==
    ASSUME TypeOK
    PROVE  /\ pd.stored \in Deployment /\ pd.cached \in Deployment
           /\ \A n \in Names :
                /\ pbs[n] \in Object(Playbook)
                /\ pbs[n].stored \in Playbook /\ pbs[n].stored.created \in Nat
                /\ pbs[n].cached \in Playbook
           /\ worker.step \in Steps /\ worker.old \in Deployment /\ worker.new \in Deployment
           /\ worker.todo \subseteq Names /\ worker.old.template \in Templates
           /\ made \in Nat /\ now \in Nat
           /\ changes \in Nat /\ ties \in Nat /\ stale \in Nat /\ faults \in Nat
<1>1. made \in Nat
  BY BoundsAssumption DEF TypeOK, Names
<1>2. \A n \in Names : pbs[n] \in Object(Playbook)
  BY DEF TypeOK
<1>3. \A p \in Playbook : p.created \in Nat
  BY DEF Playbook
<1>4. worker.old \in Deployment
  BY DEF TypeOK, Worker
<1> QED
  BY <1>1, <1>2, <1>3, <1>4 DEF TypeOK, Object, Worker, Deployment

LEMMA StoreDeploymentType ==
    ASSUME TypeOK, NEW v \in Deployment, StoreDeployment(v)
    PROVE  /\ pd' \in Object(Deployment) /\ dirty' \in BOOLEAN
           /\ pbs' = pbs /\ pd'.stored = v
<1>1. pd' \in Object(Deployment)
  BY StoreType DEF StoreDeployment, TypeOK
<1>2. dirty' \in BOOLEAN
  BY DEF StoreDeployment, TypeOK, Overflows, Changes
<1> QED
  BY <1>1, <1>2, StoredVersion DEF StoreDeployment

LEMMA StorePlaybookType ==
    ASSUME TypeOK, NEW n \in Names, NEW v \in Playbook, StorePlaybook(n, v)
    PROVE  /\ pbs' \in [Names -> Object(Playbook)] /\ dirty' \in BOOLEAN
           /\ pd' = pd
           /\ pbs'[n] = Store(pbs[n], v) /\ pbs'[n].stored = v
           /\ \A m \in Names : m # n => pbs'[m] = pbs[m]
<1>1. Store(pbs[n], v) \in Object(Playbook)
  BY StoreType DEF TypeOK
<1>2. dirty' \in BOOLEAN
  BY DEF StorePlaybook, TypeOK, Overflows, Changes
<1>3. pbs' = [pbs EXCEPT ![n] = Store(pbs[n], v)] /\ pd' = pd
  BY DEF StorePlaybook
<1>4. pbs' \in [Names -> Object(Playbook)] /\ pbs'[n] = Store(pbs[n], v)
      /\ \A m \in Names : m # n => pbs'[m] = pbs[m]
  BY <1>1, <1>3 DEF TypeOK
<1> QED
  BY <1>2, <1>3, <1>4, StoredVersion

\* A version that a reconcile stores of its PlaybookDeployment.
LEMMA PatchedType ==
    ASSUME TypeOK, Patching
    PROVE  Patched(pd.stored) \in Deployment
<1>1. pd.stored \in Deployment /\ worker.new \in Deployment
  BY PartTypes
<1>2. CASE worker.step = "patchStatus"
  <2>1. worker.new.phase \in Phases
    BY <1>1 DEF Deployment
  <2>2. [pd.stored EXCEPT !.phase = worker.new.phase] \in Deployment
    BY <1>1, <2>1 DEF Deployment
  <2> QED
    BY <1>1, <1>2, <2>2 DEF Patched
<1>3. CASE worker.step = "addFinalizer"
  BY <1>1, <1>3 DEF Patched, Deployment
<1>4. CASE worker.step = "delete"
  BY <1>4, VersionTypes DEF Patched
<1> QED
  BY <1>2, <1>3, <1>4 DEF Patching

LEMMA ReconcileType ==
    ASSUME TypeOK, Reconcile
    PROVE  TypeOK'
<1> DEFINE c == pd.cached
<1>1. c \in Deployment
  BY PartTypes
<1>2. ASSUME Begin, worker' \in Worker, requeue' \in BOOLEAN
      PROVE  TypeOK'
  <2>1. /\ dirty' = FALSE /\ UNCHANGED <<pd, pbs, made, now, changes, ties, faults>>
        /\ stale' \in Nat
    BY <1>2 DEF Begin, TypeOK
  <2> QED
    BY <1>2, <2>1 DEF TypeOK
<1>3. ASSUME NEW step \in Steps, NEW d \in Deployment, NEW todo \in SUBSET Names,
             Proceed(step, d, todo)
      PROVE  Begin /\ worker' \in Worker
  BY <1>1, <1>3 DEF Proceed, Worker
<1>4. CASE ReconcileNotFound
  BY <1>2, <1>4 DEF ReconcileNotFound, TypeOK
<1>5. CASE ReconcileDelete
  <2>1. [c EXCEPT !.finalizer = FALSE] \in Deployment
    BY <1>1 DEF Deployment
  <2>2. {n \in Owned(cachedPbs) : ~pbs[n].cached.deleting} \in SUBSET Names
    BY DEF Owned
  <2> QED
    BY <1>2, <1>3, <1>5, <2>1, <2>2 DEF ReconcileDelete, Steps, TypeOK
<1>6. CASE ReconcileAddFinalizer
  <2>1. [c EXCEPT !.finalizer = TRUE] \in Deployment
    BY <1>1 DEF Deployment
  <2> QED
    BY <1>2, <1>3, <1>6, <2>1 DEF ReconcileAddFinalizer, Steps, TypeOK
<1>7. ASSUME NEW ph \in Phases
      PROVE  [c EXCEPT !.phase = ph] \in Deployment
  BY <1>1 DEF Deployment
<1>8. CASE ReconcilePaused
  <2>1. [c EXCEPT !.phase = "Paused"] \in Deployment
    BY <1>7 DEF Phases
  <2>2. Proceed("patchStatus", [c EXCEPT !.phase = "Paused"], {}) /\ requeue' \in BOOLEAN
    BY <1>8 DEF ReconcilePaused, TypeOK
  <2> QED
    BY <1>2, <1>3, <2>1, <2>2 DEF Steps
<1>9. CASE ReconcileReport
  <2> PICK n \in Last(cachedPbs) :
        Proceed("patchStatus", [c EXCEPT !.phase = PhaseOf(pbs[n].cached)], {})
    BY <1>9 DEF ReconcileReport
  <2>1. n \in Names
    BY DEF Last, Owned
  <2>2. PhaseOf(pbs[n].cached) \in Phases
    BY <2>1, PartTypes DEF PhaseOf, Phases, Playbook
  <2> QED
    BY <1>2, <1>3, <1>7, <1>9, <2>2 DEF ReconcileReport, Steps, TypeOK
<1>10. CASE ReconcileCreate
  <2>1. [c EXCEPT !.phase = "Progressing"] \in Deployment
    BY <1>7 DEF Phases
  <2>2. Proceed("create", [c EXCEPT !.phase = "Progressing"], {}) /\ requeue' \in BOOLEAN
    BY <1>10 DEF ReconcileCreate, TypeOK
  <2> QED
    BY <1>2, <1>3, <2>1, <2>2 DEF Steps
<1> QED
  BY <1>4, <1>5, <1>6, <1>8, <1>9, <1>10 DEF Reconcile

LEMMA WorkerStepType ==
    ASSUME TypeOK, WorkerStep
    PROVE  TypeOK'
<1>1. CASE CreatePlaybook
  <2> DEFINE v == NewPlaybook(worker.old.template, now)
  <2>1. v \in Playbook
    BY PartTypes, VersionTypes
  <2>2. made + 1 \in Names
    BY <1>1, PartTypes, BoundsAssumption DEF CreatePlaybook, Names
  <2>3. /\ pbs' \in [Names -> Object(Playbook)] /\ dirty' \in BOOLEAN /\ pd' = pd
        /\ made' \in Names
    BY <1>1, <2>1, <2>2, StorePlaybookType DEF CreatePlaybook
  <2>4. worker' \in Worker
    BY <1>1 DEF CreatePlaybook, TypeOK, Worker, Steps
  <2>5. ties' \in Nat
    BY <1>1 DEF CreatePlaybook, TypeOK
  <2> QED
    BY <1>1, <2>3, <2>4, <2>5 DEF CreatePlaybook, TypeOK
<1>2. ASSUME NEW n \in Names, DeletePlaybook(n)
      PROVE  TypeOK'
  <2>1. [pbs[n].stored EXCEPT !.deleting = TRUE] \in Playbook
    BY PartTypes DEF Playbook
  <2>2. pbs' \in [Names -> Object(Playbook)] /\ dirty' \in BOOLEAN /\ pd' = pd
    BY <1>2, <2>1, StorePlaybookType DEF DeletePlaybook
  <2>3. worker' \in Worker
    BY <1>2 DEF DeletePlaybook, TypeOK, Worker
  <2> QED
    BY <1>2, <2>2, <2>3 DEF DeletePlaybook, TypeOK
<1>3. CASE CreateFails \/ (\E n \in Names : DeleteFails(n)) \/ PatchFails
  <2>1. faults' \in Nat
    BY <1>3 DEF CreateFails, DeleteFails, PatchFails, Faulty, TypeOK
  <2>2. worker' = Idle /\ requeue' = TRUE
        /\ UNCHANGED <<pd, pbs, dirty, made, now, changes, ties, stale>>
    BY <1>3 DEF CreateFails, DeleteFails, PatchFails, ReturnError
  <2> QED
    BY <2>1, <2>2, VersionTypes DEF TypeOK
<1>4. CASE PatchApplied
  <2>1. pd' \in Object(Deployment) /\ dirty' \in BOOLEAN /\ pbs' = pbs
    BY <1>4, PatchedType, StoreDeploymentType DEF PatchApplied
  <2> QED
    BY <1>4, <2>1, VersionTypes DEF PatchApplied, TypeOK
<1> QED
  BY <1>1, <1>2, <1>3, <1>4 DEF WorkerStep

LEMMA StepType ==
    ASSUME TypeOK, [Next]_vars
    PROVE  TypeOK'
<1>1. CASE Reconcile
  BY <1>1, ReconcileType
<1>2. CASE WorkerStep
  BY <1>2, WorkerStepType
<1>3. CASE DeliverDeployment
  <2>1. pd' \in Object(Deployment)
    BY <1>3, DeliverType DEF DeliverDeployment, TypeOK
  <2> QED
    BY <1>3, <2>1 DEF DeliverDeployment, TypeOK
<1>4. ASSUME NEW n \in Names, DeliverPlaybook(n)
      PROVE  TypeOK'
  <2>1. Deliver(pbs[n]) \in Object(Playbook)
    BY <1>4, DeliverType DEF DeliverPlaybook, TypeOK
  <2>2. pbs' \in [Names -> Object(Playbook)]
    BY <1>4, <2>1 DEF DeliverPlaybook, TypeOK
  <2> QED
    BY <1>4, <2>2 DEF DeliverPlaybook, TypeOK
<1>5. CASE FireRequeue \/ Tick
  <2>1. now' \in Nat
    BY <1>5 DEF FireRequeue, Tick, TypeOK
  <2> QED
    BY <1>5, <2>1 DEF FireRequeue, Tick, TypeOK
<1>6. ASSUME NEW n \in Names, FinishPlaybook(n) \/ VanishPlaybook(n)
      PROVE  TypeOK'
  <2>1. \E v \in Playbook : StorePlaybook(n, v)
    <3>1. \A w \in {"Succeeded", "Failed"} :
            [pbs[n].stored EXCEPT !.verdict = w] \in Playbook
      BY PartTypes DEF Playbook
    <3> QED
      BY <1>6, <3>1, VersionTypes DEF FinishPlaybook, VanishPlaybook
  <2>2. pbs' \in [Names -> Object(Playbook)] /\ dirty' \in BOOLEAN /\ pd' = pd
    BY <2>1, StorePlaybookType
  <2>3. UNCHANGED <<requeue, worker, made, now, changes, ties, faults, stale>>
    BY <1>6 DEF FinishPlaybook, VanishPlaybook
  <2> QED
    BY <2>2, <2>3 DEF TypeOK
<1>7. CASE SetTemplate \/ SetPaused
  <2>1. PICK d \in Deployment : ChangeSpec(d)
    <3>1. \A t \in Templates : [pd.stored EXCEPT !.template = t] \in Deployment
      BY PartTypes DEF Deployment
    <3>2. \A b \in BOOLEAN : [pd.stored EXCEPT !.paused = b] \in Deployment
      BY PartTypes DEF Deployment
    <3> QED
      BY <1>7, <3>1, <3>2 DEF SetTemplate, SetPaused
  <2>2. pd' \in Object(Deployment) /\ dirty' \in BOOLEAN /\ pbs' = pbs
    BY <2>1, StoreDeploymentType DEF ChangeSpec
  <2> QED
    BY <2>1, <2>2 DEF ChangeSpec, TypeOK
<1>8. CASE RequestDelete
  <2>1. \E d \in Deployment : StoreDeployment(d)
    <3>1. [pd.stored EXCEPT !.deleting = TRUE] \in Deployment
      BY PartTypes DEF Deployment
    <3> QED
      BY <1>8, <3>1, VersionTypes DEF RequestDelete
  <2>2. pd' \in Object(Deployment) /\ dirty' \in BOOLEAN /\ pbs' = pbs
    BY <2>1, StoreDeploymentType
  <2> QED
    BY <1>8, <2>2 DEF RequestDelete, TypeOK
<1>9. CASE Restart
  <2>1. pd' \in Object(Deployment) /\ pbs' \in [Names -> Object(Playbook)]
    BY <1>9, PartTypes, ListedType DEF Restart
  <2>2. dirty' \in BOOLEAN /\ faults' \in Nat
    BY <1>9, PartTypes DEF Restart, Faulty, Deployment
  <2> QED
    BY <1>9, <2>1, <2>2, VersionTypes DEF Restart, TypeOK
<1>10. CASE UNCHANGED vars
  BY <1>10 DEF vars, TypeOK
<1> QED
  BY <1>1, <1>2, <1>3, <1>4, <1>5, <1>6, <1>7, <1>8, <1>9, <1>10 DEF Next

-----------------------------------------------------------------------------
(* What relates the copies, the stored versions and the worker.             *)

\* q may be stored after p: the deployment does not come back, its deletion is
\* not taken back, and its finalizer stays as long as it does.
Later(p, q) ==
    q.exists => /\ p.exists
                /\ p.deleting => q.deleting
                /\ p.finalizer => q.finalizer

Succession == {x \in Deployment \X Deployment : Later(x[1], x[2])}

Linked ==
    /\ Chain(pd, Succession)
    /\ \A n \in Names : Coherent(pbs[n])
    /\ worker.step # "idle" => <<worker.old, pd.cached>> \in Succession
    /\ worker.step = "create" => Reconcilable(worker.old)
    /\ worker.step = "delete" => worker.old.deleting
    /\ worker.step = "addFinalizer" => ~worker.old.finalizer

LInv == TypeOK /\ Linked

LEMMA SuccessionOrder ==
    Reflexive(Deployment, Succession) /\ Transitive(Deployment, Succession)
BY DEF Reflexive, Transitive, Succession, Later

\* The copy comes before the stored version, and what the worker read before
\* the copy.
LEMMA LinkedEnds ==
    ASSUME LInv
    PROVE  /\ <<pd.cached, pd.stored>> \in Succession
           /\ worker.step # "idle" => <<worker.old, pd.stored>> \in Succession
<1>1. /\ pd.cached \in Deployment /\ pd.stored \in Deployment /\ worker.old \in Deployment
      /\ pd \in Object(Deployment)
  BY PartTypes DEF LInv, TypeOK
<1>2. <<pd.cached, pd.stored>> \in Succession
  BY <1>1, ChainEnds, SuccessionOrder DEF LInv, Linked
<1> QED
  BY <1>1, <1>2, SuccessionOrder DEF LInv, Linked, Transitive

\* A version of the PlaybookDeployment is stored.
LEMMA DeploymentLinked ==
    ASSUME LInv, NEW v \in Deployment, StoreDeployment(v), Later(pd.stored, v),
           worker' = worker \/ worker'.step = "idle"
    PROVE  Linked'
<1>1. /\ pd \in Object(Deployment) /\ pd.stored \in Deployment /\ pd.cached \in Deployment
      /\ worker.old \in Deployment
  BY PartTypes DEF LInv, TypeOK
<1>2. <<pd.stored, v>> \in Succession
  BY <1>1 DEF Succession
<1>3. Chain(pd', Succession) /\ <<pd.cached, pd'.cached>> \in Succession
  BY <1>1, <1>2, StoreChain, SuccessionOrder DEF LInv, Linked, StoreDeployment
<1>4. pd'.cached \in Deployment /\ pbs' = pbs
  BY StoreDeploymentType DEF LInv, Object
<1>5. worker.step # "idle" => <<worker.old, pd'.cached>> \in Succession
  BY <1>1, <1>3, <1>4, SuccessionOrder DEF LInv, Linked, Transitive
<1> QED
  BY <1>3, <1>4, <1>5 DEF LInv, Linked

\* A version of a Playbook is stored.
LEMMA PlaybookLinked ==
    ASSUME LInv, NEW n \in Names, NEW v \in Playbook, StorePlaybook(n, v),
           worker'.step \in {worker.step, "patchStatus"}, worker.step # "idle" \/ worker' = worker,
           worker'.old = worker.old
    PROVE  Linked'
<1>1. Coherent(pbs'[n]) /\ pd' = pd
  BY StorePlaybookType, StoreCoherent DEF LInv, Linked, TypeOK
<1>2. \A m \in Names : Coherent(pbs'[m])
  BY <1>1, StorePlaybookType DEF LInv, Linked
<1> QED
  BY <1>1, <1>2 DEF LInv, Linked

LEMMA ReconcileLinked ==
    ASSUME LInv, Reconcile
    PROVE  Linked'
<1> DEFINE c == pd.cached
<1>1. c \in Deployment /\ <<c, c>> \in Succession
  BY PartTypes, SuccessionOrder DEF LInv, Reflexive
<1>2. ASSUME NEW step, NEW d, NEW todo, Proceed(step, d, todo),
             step = "create" => Reconcilable(c),
             step = "delete" => c.deleting,
             step = "addFinalizer" => ~c.finalizer
      PROVE  Linked'
  <2>1. worker'.step = step /\ worker'.old = c /\ pd' = pd /\ pbs' = pbs
    BY <1>2 DEF Proceed, Begin
  <2> QED
    BY <1>1, <1>2, <2>1 DEF LInv, Linked
<1>3. ASSUME Begin, worker' = worker PROVE Linked'
  BY <1>3 DEF Begin, LInv, Linked
<1>4. CASE ReconcileNotFound
  BY <1>3, <1>4 DEF ReconcileNotFound
<1>5. CASE ReconcileDelete
  BY <1>2, <1>3, <1>5 DEF ReconcileDelete
<1>6. CASE ReconcileAddFinalizer
  BY <1>2, <1>6 DEF ReconcileAddFinalizer
<1>7. CASE ReconcilePaused \/ ReconcileReport
  BY <1>2, <1>7 DEF ReconcilePaused, ReconcileReport
<1>8. CASE ReconcileCreate
  BY <1>2, <1>8 DEF ReconcileCreate
<1> QED
  BY <1>4, <1>5, <1>6, <1>7, <1>8 DEF Reconcile

\* The patches of the controller keep to the succession.
LEMMA PatchedLater ==
    ASSUME LInv, Patching, pd.stored.exists
    PROVE  Later(pd.stored, Patched(pd.stored))
<1>1. pd.stored \in Deployment /\ worker.new \in Deployment
  BY PartTypes DEF LInv
<1>2. CASE worker.step = "patchStatus"
  BY <1>1, <1>2 DEF Patched, Later, Deployment
<1>3. CASE worker.step = "addFinalizer"
  BY <1>1, <1>3 DEF Patched, Later, Deployment
<1>4. CASE worker.step = "delete"
  BY <1>4, VersionTypes DEF Patched, Later
<1> QED
  BY <1>2, <1>3, <1>4 DEF Patching

LEMMA StepLinked ==
    ASSUME LInv, [Next]_vars
    PROVE  Linked'
<1>1. TypeOK
  BY DEF LInv
<1>2. CASE Reconcile
  BY <1>2, ReconcileLinked
<1>3. CASE CreatePlaybook
  <2>1. made + 1 \in Names /\ NewPlaybook(worker.old.template, now) \in Playbook
    BY <1>1, <1>3, PartTypes, VersionTypes, BoundsAssumption DEF CreatePlaybook, Names
  <2>2. worker'.step = "patchStatus" /\ worker'.old = worker.old /\ worker.step # "idle"
    BY <1>1, <1>3 DEF CreatePlaybook, TypeOK, Worker
  <2> QED
    BY <1>3, <2>1, <2>2, PlaybookLinked DEF CreatePlaybook
<1>4. ASSUME NEW n \in Names, DeletePlaybook(n) PROVE Linked'
  <2>1. [pbs[n].stored EXCEPT !.deleting = TRUE] \in Playbook
    BY <1>1, PartTypes DEF Playbook
  <2>2. worker'.step = worker.step /\ worker'.old = worker.old /\ worker.step # "idle"
    BY <1>1, <1>4 DEF DeletePlaybook, TypeOK, Worker
  <2> QED
    BY <1>4, <2>1, <2>2, PlaybookLinked DEF DeletePlaybook
<1>5. CASE CreateFails \/ (\E n \in Names : DeleteFails(n)) \/ PatchFails
  <2>1. worker'.step = "idle" /\ UNCHANGED <<pd, pbs>>
    BY <1>5, VersionTypes DEF CreateFails, DeleteFails, PatchFails, ReturnError
  <2> QED
    BY <2>1 DEF LInv, Linked
<1>6. CASE PatchApplied
  BY <1>1, <1>6, PatchedType, PatchedLater, DeploymentLinked, VersionTypes DEF PatchApplied
<1>7. CASE DeliverDeployment
  <2>1. /\ pd \in Object(Deployment) /\ pd.cached \in Deployment /\ worker.old \in Deployment
    BY <1>1, PartTypes DEF TypeOK
  <2>2. Chain(pd', Succession) /\ <<pd.cached, pd'.cached>> \in Succession
    BY <1>7, <2>1, DeliverChain DEF DeliverDeployment, LInv, Linked
  <2>3. pd'.cached \in Deployment
    BY <2>2 DEF Succession
  <2>4. worker.step # "idle" => <<worker.old, pd'.cached>> \in Succession
    BY <2>1, <2>2, <2>3, SuccessionOrder DEF LInv, Linked, Transitive
  <2> QED
    BY <1>7, <2>2, <2>4 DEF DeliverDeployment, LInv, Linked
<1>8. ASSUME NEW n \in Names, DeliverPlaybook(n) PROVE Linked'
  <2>1. pbs[n] \in Object(Playbook) /\ pbs \in [Names -> Object(Playbook)]
    BY <1>1 DEF TypeOK
  <2>2. Coherent(Deliver(pbs[n]))
    BY <1>8, <2>1, DeliverCoherent DEF DeliverPlaybook, LInv, Linked
  <2>3. \A m \in Names : Coherent(pbs'[m])
    BY <1>8, <2>1, <2>2 DEF DeliverPlaybook, LInv, Linked
  <2> QED
    BY <1>8, <2>3 DEF DeliverPlaybook, LInv, Linked
<1>9. CASE FireRequeue \/ Tick \/ UNCHANGED vars
  <2>1. UNCHANGED <<pd, pbs, worker>>
    BY <1>9 DEF FireRequeue, Tick, vars
  <2> QED
    BY <2>1 DEF LInv, Linked
<1>10. ASSUME NEW n \in Names, FinishPlaybook(n) \/ VanishPlaybook(n) PROVE Linked'
  <2>1. \E v \in Playbook : StorePlaybook(n, v)
    <3>1. \A w \in {"Succeeded", "Failed"} :
            [pbs[n].stored EXCEPT !.verdict = w] \in Playbook
      BY <1>1, PartTypes DEF Playbook
    <3> QED
      BY <1>10, <3>1, VersionTypes DEF FinishPlaybook, VanishPlaybook
  <2>2. worker' = worker
    BY <1>10 DEF FinishPlaybook, VanishPlaybook
  <2> QED
    BY <2>1, <2>2, PlaybookLinked
<1>11. CASE SetTemplate \/ SetPaused
  <2>1. PICK d \in Deployment : ChangeSpec(d) /\ Later(pd.stored, d)
    <3>1. \A t \in Templates :
            /\ [pd.stored EXCEPT !.template = t] \in Deployment
            /\ Later(pd.stored, [pd.stored EXCEPT !.template = t])
      BY <1>1, PartTypes DEF Deployment, Later
    <3>2. \A b \in BOOLEAN :
            /\ [pd.stored EXCEPT !.paused = b] \in Deployment
            /\ Later(pd.stored, [pd.stored EXCEPT !.paused = b])
      BY <1>1, PartTypes DEF Deployment, Later
    <3> QED
      BY <1>11, <3>1, <3>2 DEF SetTemplate, SetPaused
  <2> QED
    BY <2>1, DeploymentLinked DEF ChangeSpec
<1>12. CASE RequestDelete
  <2>1. /\ [pd.stored EXCEPT !.deleting = TRUE] \in Deployment
        /\ Later(pd.stored, [pd.stored EXCEPT !.deleting = TRUE])
    BY <1>1, <1>12, PartTypes DEF Deployment, Later, RequestDelete
  <2>2. NoDeployment \in Deployment /\ Later(pd.stored, NoDeployment)
    BY VersionTypes DEF Later
  <2> QED
    BY <1>12, <2>1, <2>2, DeploymentLinked DEF RequestDelete
<1>13. CASE Restart
  <2>1. worker'.step = "idle" /\ Chain(pd', Succession)
    BY <1>13, VersionTypes, ListedChain DEF Restart
  <2>2. \A n \in Names : Coherent(pbs'[n])
    BY <1>13, ListedCoherent DEF Restart
  <2> QED
    BY <2>1, <2>2 DEF Linked
<1> QED
  BY <1>2, <1>3, <1>4, <1>5, <1>6, <1>7, <1>8, <1>9, <1>10, <1>11, <1>12, <1>13
     DEF Next, WorkerStep

-----------------------------------------------------------------------------
(* The kinds of steps, by what they do to the stored objects.               *)

\* The stored Playbooks, and the youngest of them.
Live(p) == {n \in Names : p[n].stored.exists}

Youngest(p) ==
    {n \in Live(p) : \A m \in Live(p) : p[m].stored.created <= p[n].stored.created}

\* The deployments with one template.
OneTemplate(t) == {d \in Deployment : d.template = t}

\* Every copy that counts has the template that is stored.
Agrees == pd \in Object(OneTemplate(pd.stored.template))

\* Nothing is stored; the worker may stop.
Quiet ==
    /\ UNCHANGED <<made, changes, ties, stale>>
    /\ now' = now \/ now' = now + 1
    /\ worker' = worker \/ worker'.step = "idle"
    /\ pd'.stored = pd.stored
    /\ \A n \in Names : pbs'[n].stored = pbs[n].stored
    /\ Agrees => Agrees'

\* The worker reads the copies and chooses what to do.
Chosen ==
    /\ UNCHANGED <<pd, pbs, made, now, changes, ties>>
    /\ \/ stale' = stale /\ AllCurrent /\ pd.cached = pd.stored
       \/ stale' = stale + 1
    /\ worker'.step = "create" =>
        /\ worker'.old = pd.cached /\ Reconcilable(pd.cached)
        /\ stale' = stale =>
            \/ Live(pbs) = {}
            \/ \E n \in Youngest(pbs) : NeedsPlaybook(pd.stored, pbs[n].stored)
    /\ worker'.step = "delete" /\ stale' = stale =>
            \A n \in Live(pbs) : pbs[n].stored.deleting \/ n \in worker'.todo

\* Playbook n gets a verdict, is asked to go, or goes.
Updated(n) ==
    /\ UNCHANGED <<pd, made, now, changes, ties, stale>>
    /\ worker'.step = worker.step /\ worker'.old = worker.old
    /\ pbs[n].stored.exists
    /\ \A m \in Names : m # n => pbs'[m] = pbs[m]
    /\ pbs'[n].stored.exists =>
        /\ pbs'[n].stored.spec = pbs[n].stored.spec
        /\ pbs'[n].stored.created = pbs[n].stored.created
        /\ pbs'[n].stored.verdict = "active" => pbs[n].stored.verdict = "active"
    /\ \/ /\ worker' = worker /\ pbs'[n].stored.exists
          /\ pbs'[n].stored.deleting = pbs[n].stored.deleting
       \/ /\ worker.step = "delete" /\ worker'.todo = worker.todo \ {n}
          /\ pbs'[n].stored.exists /\ pbs'[n].stored.deleting
       \/ worker' = worker /\ pbs[n].stored.deleting /\ ~pbs'[n].stored.exists

\* A client changes the spec.
Respecified ==
    /\ UNCHANGED <<pbs, made, now, ties, stale, worker>>
    /\ changes' = changes + 1
    /\ pd.stored.exists /\ pd'.stored.exists
    /\ pd'.stored.deleting = pd.stored.deleting
    /\ pd'.stored.finalizer = pd.stored.finalizer

\* The deployment is patched or its deletion requested.
Rewritten ==
    /\ UNCHANGED <<pbs, made, now, changes, ties, stale>>
    /\ worker' = worker \/ worker'.step = "idle"
    /\ Later(pd.stored, pd'.stored)
    /\ pd'.stored.exists =>
        pd'.stored.template = pd.stored.template /\ (Agrees => Agrees')
    /\ \/ pd'.stored.exists
       \/ ~pd.stored.finalizer
       \/ worker.step = "delete" /\ worker.todo = {} /\ worker'.step = "idle"

LEMMA Views ==
    /\ Owned(storedPbs) = Live(pbs) /\ Last(storedPbs) = Youngest(pbs)
    /\ (\A n \in Names : pbs[n].cached = pbs[n].stored)
         => Owned(cachedPbs) = Live(pbs) /\ Last(cachedPbs) = Youngest(pbs)
<1>1. Owned(storedPbs) = Live(pbs)
  BY DEF Owned, storedPbs, Live
<1>2. Last(storedPbs) = Youngest(pbs)
  <2>1. \A n \in Live(pbs) : storedPbs[n] = pbs[n].stored
    BY DEF Live, storedPbs
  <2> QED
    BY <1>1, <2>1 DEF Last, Youngest
<1>3. (\A n \in Names : pbs[n].cached = pbs[n].stored) => cachedPbs = storedPbs
  BY DEF cachedPbs, storedPbs
<1> QED
  BY <1>1, <1>2, <1>3

\* A copy without an event in front of it is the stored version.
LEMMA CurrentCopies ==
    ASSUME LInv, AllCurrent
    PROVE  /\ pd.cached = pd.stored
           /\ \A n \in Names : pbs[n].cached = pbs[n].stored
BY DEF LInv, Linked, AllCurrent, Current, Coherent, Chain

LEMMA ReconcileChosen ==
    ASSUME LInv, Reconcile
    PROVE  Chosen
<1>1. worker.step = "idle" /\ Begin
  BY DEF Reconcile, ReconcileNotFound, ReconcileDelete, ReconcileAddFinalizer,
         ReconcilePaused, ReconcileReport, ReconcileCreate, Proceed, Begin
<1>2. UNCHANGED <<pd, pbs, made, now, changes, ties>>
  BY <1>1 DEF Begin
<1>3. \/ stale' = stale /\ AllCurrent /\ pd.cached = pd.stored
      \/ stale' = stale + 1
  BY <1>1, CurrentCopies DEF Begin
<1>4. stale \in Nat
  BY DEF LInv, TypeOK
<1>5. stale' = stale => AllCurrent
  BY <1>3, <1>4
<1>6. ASSUME worker'.step = "create"
      PROVE  /\ worker'.old = pd.cached /\ Reconcilable(pd.cached)
             /\ \/ Owned(cachedPbs) = {}
                \/ \E n \in Last(cachedPbs) : NeedsPlaybook(pd.cached, pbs[n].cached)
  <2>1. ReconcileCreate
    BY <1>1, <1>6 DEF Reconcile, ReconcileNotFound, ReconcileDelete, ReconcileAddFinalizer,
         ReconcilePaused, ReconcileReport, Proceed
  <2> QED
    BY <2>1 DEF ReconcileCreate, Proceed
<1>7. ASSUME worker'.step = "create", stale' = stale
      PROVE  \/ Live(pbs) = {}
             \/ \E n \in Youngest(pbs) : NeedsPlaybook(pd.stored, pbs[n].stored)
  <2>1. /\ pd.cached = pd.stored /\ \A n \in Names : pbs[n].cached = pbs[n].stored
        /\ Owned(cachedPbs) = Live(pbs) /\ Last(cachedPbs) = Youngest(pbs)
    BY <1>5, <1>7, CurrentCopies, Views
  <2> QED
    BY <1>6, <1>7, <2>1 DEF Youngest, Live
<1>8. ASSUME worker'.step = "delete", stale' = stale
      PROVE  \A n \in Live(pbs) : pbs[n].stored.deleting \/ n \in worker'.todo
  <2>1. worker'.todo = {n \in Owned(cachedPbs) : ~pbs[n].cached.deleting}
    BY <1>1, <1>8 DEF Reconcile, ReconcileNotFound, ReconcileDelete, ReconcileAddFinalizer,
         ReconcilePaused, ReconcileReport, ReconcileCreate, Proceed
  <2>2. /\ \A n \in Names : pbs[n].cached = pbs[n].stored
        /\ Owned(cachedPbs) = Live(pbs)
    BY <1>5, <1>8, CurrentCopies, Views
  <2> QED
    BY <2>1, <2>2 DEF Live
<1> QED
  BY <1>2, <1>3, <1>6, <1>7, <1>8 DEF Chosen

\* Storing a version with the template that is stored keeps the copies together.
LEMMA StoreAgrees ==
    ASSUME LInv, NEW v \in Deployment, StoreDeployment(v),
           v.template = pd.stored.template, Agrees
    PROVE  Agrees'
<1> DEFINE t == pd.stored.template
<1>1. v \in OneTemplate(t) /\ pd \in Object(OneTemplate(t))
  BY DEF OneTemplate, Agrees
<1>2. pd' \in Object(OneTemplate(t)) /\ pd'.stored = v
  BY <1>1, StoreType, StoredVersion DEF StoreDeployment
<1> QED
  BY <1>2 DEF Agrees

LEMMA PatchRewrites ==
    ASSUME LInv, PatchApplied
    PROVE  Rewritten
<1> DEFINE s == pd.stored
           v == Patched(s)
<1>1. s \in Deployment /\ worker.new \in Deployment /\ v \in Deployment
  BY PartTypes, PatchedType DEF LInv, PatchApplied
<1>2. StoreDeployment(v) /\ pd'.stored = v /\ pbs' = pbs
  BY <1>1, StoreDeploymentType DEF LInv, PatchApplied
<1>3. worker'.step = "idle" /\ UNCHANGED <<pbs, made, now, changes, ties, stale>>
  BY <1>2, VersionTypes DEF PatchApplied
<1>4. Later(s, v)
  BY PatchedLater DEF PatchApplied
<1>5. CASE worker.step = "patchStatus"
  <2>1. v.template = s.template /\ v.exists = s.exists
    BY <1>1, <1>5 DEF Patched, Deployment
  <2> QED
    BY <1>1, <1>2, <1>3, <1>4, <2>1, StoreAgrees DEF Rewritten, PatchApplied
<1>6. CASE worker.step = "addFinalizer"
  <2>1. v.template = s.template /\ v.exists = s.exists
    BY <1>1, <1>6 DEF Patched, Deployment
  <2> QED
    BY <1>1, <1>2, <1>3, <1>4, <2>1, StoreAgrees DEF Rewritten, PatchApplied
<1>7. CASE worker.step = "delete" /\ worker.todo = {}
  <2>1. ~v.exists
    BY <1>7, VersionTypes DEF Patched
  <2> QED
    BY <1>2, <1>3, <1>4, <1>7, <2>1 DEF Rewritten
<1> QED
  BY <1>5, <1>6, <1>7 DEF PatchApplied, Patching

LEMMA RequestRewrites ==
    ASSUME LInv, RequestDelete
    PROVE  Rewritten
<1> DEFINE s == pd.stored
           v == [s EXCEPT !.deleting = TRUE]
<1>1. s \in Deployment /\ v \in Deployment /\ v.template = s.template
      /\ v.exists = s.exists /\ Later(s, v)
  BY PartTypes DEF LInv, RequestDelete, Deployment, Later
<1>2. UNCHANGED <<made, now, changes, ties, stale, worker>>
  BY DEF RequestDelete
<1>3. CASE s.finalizer
  <2>1. StoreDeployment(v) /\ pd'.stored = v /\ pbs' = pbs
    BY <1>1, <1>3, StoreDeploymentType DEF LInv, RequestDelete
  <2> QED
    BY <1>1, <1>2, <2>1, StoreAgrees DEF Rewritten, RequestDelete
<1>4. CASE ~s.finalizer
  <2>1. pd'.stored = NoDeployment /\ pbs' = pbs
    BY <1>4, VersionTypes, StoreDeploymentType DEF LInv, RequestDelete
  <2> QED
    BY <1>2, <1>4, <2>1, VersionTypes DEF Rewritten, Later
<1> QED
  BY <1>3, <1>4

LEMMA SpecRespecifies ==
    ASSUME LInv, SetTemplate \/ SetPaused
    PROVE  Respecified
<1> DEFINE s == pd.stored
<1>1. s \in Deployment
  BY PartTypes DEF LInv
<1>2. PICK d \in Deployment :
        /\ ChangeSpec(d) /\ d.exists = s.exists /\ d.deleting = s.deleting
        /\ d.finalizer = s.finalizer
  <2>1. \A t \in Templates :
            /\ [s EXCEPT !.template = t] \in Deployment
            /\ [s EXCEPT !.template = t].exists = s.exists
            /\ [s EXCEPT !.template = t].deleting = s.deleting
            /\ [s EXCEPT !.template = t].finalizer = s.finalizer
    BY <1>1 DEF Deployment
  <2>2. \A b \in BOOLEAN :
            /\ [s EXCEPT !.paused = b] \in Deployment
            /\ [s EXCEPT !.paused = b].exists = s.exists
            /\ [s EXCEPT !.paused = b].deleting = s.deleting
            /\ [s EXCEPT !.paused = b].finalizer = s.finalizer
    BY <1>1 DEF Deployment
  <2> QED
    BY <2>1, <2>2 DEF SetTemplate, SetPaused
<1>3. pd'.stored = d /\ pbs' = pbs
  BY <1>2, StoreDeploymentType DEF LInv, ChangeSpec
<1> QED
  BY <1>2, <1>3 DEF Respecified, ChangeSpec

LEMMA PlaybookUpdates ==
    ASSUME LInv, NEW n \in Names,
           DeletePlaybook(n) \/ FinishPlaybook(n) \/ VanishPlaybook(n)
    PROVE  Updated(n)
<1> DEFINE s == pbs[n].stored
<1>1. s \in Playbook
  BY PartTypes DEF LInv
<1>2. UNCHANGED <<made, now, changes, ties, stale>> /\ s.exists
  BY DEF DeletePlaybook, FinishPlaybook, VanishPlaybook
<1>3. CASE DeletePlaybook(n)
  <2> DEFINE v == [s EXCEPT !.deleting = TRUE]
  <2>1. v \in Playbook /\ v.exists = s.exists /\ v.deleting /\ v.spec = s.spec
        /\ v.created = s.created /\ v.verdict = s.verdict
    BY <1>1 DEF Playbook
  <2>2. StorePlaybook(n, v)
    BY <1>3 DEF DeletePlaybook
  <2>3. pd' = pd /\ pbs'[n].stored = v /\ \A m \in Names : m # n => pbs'[m] = pbs[m]
    BY <2>1, <2>2, StorePlaybookType DEF LInv
  <2>4. worker'.step = worker.step /\ worker'.old = worker.old /\ worker.step = "delete"
        /\ worker'.todo = worker.todo \ {n}
    BY <1>3 DEF DeletePlaybook, LInv, TypeOK, Worker
  <2> HIDE DEF v
  <2> QED
    BY <1>2, <2>1, <2>3, <2>4 DEF Updated
<1>4. CASE FinishPlaybook(n)
  <2>1. PICK w \in {"Succeeded", "Failed"} :
            StorePlaybook(n, [s EXCEPT !.verdict = w])
    BY <1>4 DEF FinishPlaybook
  <2> DEFINE v == [s EXCEPT !.verdict = w]
  <2>2. v \in Playbook /\ v.exists = s.exists /\ v.deleting = s.deleting
        /\ v.spec = s.spec /\ v.created = s.created /\ v.verdict # "active"
    BY <1>1 DEF Playbook
  <2>3. pd' = pd /\ pbs'[n].stored = v /\ \A m \in Names : m # n => pbs'[m] = pbs[m]
    BY <2>1, <2>2, StorePlaybookType DEF LInv
  <2>4. worker' = worker
    BY <1>4 DEF FinishPlaybook
  <2> HIDE DEF v
  <2> QED
    BY <1>2, <2>2, <2>3, <2>4 DEF Updated
<1>5. CASE VanishPlaybook(n)
  <2>1. pd' = pd /\ pbs'[n].stored = NoPlaybook /\ \A m \in Names : m # n => pbs'[m] = pbs[m]
    BY <1>5, VersionTypes, StorePlaybookType DEF LInv, VanishPlaybook
  <2> QED
    BY <1>2, <1>5, <2>1, VersionTypes DEF Updated, VanishPlaybook
<1> QED
  BY <1>3, <1>4, <1>5

LEMMA Kinds ==
    ASSUME LInv, [Next]_vars
    PROVE  \/ Quiet
           \/ Chosen
           \/ CreatePlaybook
           \/ \E n \in Names : Updated(n)
           \/ Respecified
           \/ Rewritten
<1> DEFINE t == pd.stored.template
<1>1. CASE Reconcile
  BY <1>1, ReconcileChosen
<1>2. CASE CreateFails \/ (\E n \in Names : DeleteFails(n)) \/ PatchFails
  <2>1. worker' = Idle /\ UNCHANGED <<pd, pbs, made, now, changes, ties, stale>>
    BY <1>2 DEF CreateFails, DeleteFails, PatchFails, ReturnError
  <2> QED
    BY <2>1, VersionTypes DEF Quiet, Agrees
<1>3. ASSUME NEW n \in Names, DeletePlaybook(n) \/ FinishPlaybook(n) \/ VanishPlaybook(n)
      PROVE  \E m \in Names : Updated(m)
  BY <1>3, PlaybookUpdates
<1>4. CASE PatchApplied \/ RequestDelete
  BY <1>4, PatchRewrites, RequestRewrites
<1>5. CASE SetTemplate \/ SetPaused
  BY <1>5, SpecRespecifies
<1>6. CASE DeliverDeployment
  <2>1. ASSUME Agrees PROVE Agrees'
    <3>1. pd' \in Object(OneTemplate(t)) /\ pd'.stored = pd.stored
      BY <1>6, <2>1, DeliverType, StoredVersion DEF DeliverDeployment, Agrees
    <3> QED
      BY <3>1 DEF Agrees
  <2>2. pd'.stored = pd.stored
        /\ UNCHANGED <<pbs, worker, made, now, changes, ties, stale>>
    BY <1>6, StoredVersion DEF DeliverDeployment
  <2> QED
    BY <2>1, <2>2 DEF Quiet
<1>7. ASSUME NEW n \in Names, DeliverPlaybook(n) PROVE Quiet
  <2>1. \A m \in Names : pbs'[m].stored = pbs[m].stored
    BY <1>7, StoredVersion DEF DeliverPlaybook, LInv, TypeOK
  <2>2. UNCHANGED <<pd, worker, made, now, changes, ties, stale>>
    BY <1>7 DEF DeliverPlaybook
  <2> QED
    BY <2>1, <2>2 DEF Quiet, Agrees
<1>8. CASE FireRequeue \/ Tick \/ UNCHANGED vars
  <2>1. UNCHANGED <<pd, pbs, worker, made, changes, ties, stale>>
        /\ (now' = now \/ now' = now + 1)
    BY <1>8 DEF FireRequeue, Tick, vars
  <2> QED
    BY <2>1 DEF Quiet, Agrees
<1>9. CASE Restart
  <2>1. pd'.stored = pd.stored /\ \A n \in Names : pbs'[n].stored = pbs[n].stored
    BY <1>9, StoredVersion DEF Restart
  <2>2. Agrees'
    <3>1. pd.stored \in OneTemplate(t)
      BY PartTypes DEF LInv, OneTemplate
    <3>2. pd' \in Object(OneTemplate(t))
      BY <1>9, <3>1, ListedType DEF Restart
    <3> QED
      BY <2>1, <3>2 DEF Agrees
  <2>3. worker'.step = "idle" /\ UNCHANGED <<made, now, changes, ties, stale>>
    BY <1>9, VersionTypes DEF Restart
  <2> QED
    BY <2>1, <2>2, <2>3 DEF Quiet
<1> QED
  BY <1>1, <1>2, <1>3, <1>4, <1>5, <1>6, <1>7, <1>8, <1>9 DEF Next, WorkerStep

\* Playbook made + 1 is created from the template that the worker read.
Born ==
    LET n == made + 1
        v == pbs'[n].stored
    IN  /\ worker.step = "create" /\ worker'.step = "patchStatus"
        /\ UNCHANGED <<pd, now, changes, stale>>
        /\ made' = n /\ n \in Names
        /\ \A m \in Names : m # n => pbs'[m] = pbs[m]
        /\ v.exists /\ ~v.deleting /\ v.created = now
        /\ v.spec = worker.old.template /\ v.verdict = "active"
        /\ \/ ties' = ties /\ \A m \in Live(pbs) : pbs[m].stored.created # now
           \/ ties' = ties + 1

LEMMA CreateBears ==
    ASSUME LInv, CreatePlaybook
    PROVE  Born
<1> DEFINE v == NewPlaybook(worker.old.template, now)
<1>1. v \in Playbook /\ v.exists /\ ~v.deleting /\ v.created = now
      /\ v.spec = worker.old.template /\ v.verdict = "active"
  BY PartTypes, VersionTypes DEF LInv
<1>2. made + 1 \in Names
  BY PartTypes, BoundsAssumption DEF LInv, CreatePlaybook, Names
<1>3. /\ pd' = pd /\ pbs'[made + 1].stored = v
      /\ \A m \in Names : m # made + 1 => pbs'[m] = pbs[m]
  BY <1>1, <1>2, StorePlaybookType DEF LInv, CreatePlaybook
<1>4. worker.step = "create" /\ worker'.step = "patchStatus"
  BY DEF CreatePlaybook, LInv, TypeOK, Worker
<1>5. \/ ties' = ties /\ \A m \in Live(pbs) : pbs[m].stored.created # now
      \/ ties' = ties + 1
  BY Views DEF CreatePlaybook
<1>6. UNCHANGED <<now, changes, stale>> /\ made' = made + 1
  BY DEF CreatePlaybook
<1> HIDE DEF v
<1> QED
  BY <1>1, <1>2, <1>3, <1>4, <1>5, <1>6 DEF Born

-----------------------------------------------------------------------------
(* Births: the Playbooks are the ones created so far, in the order of their *)
(* creation times, and only a deployment that goes has some that go.        *)

Births ==
    /\ \A n \in Live(pbs) :
        /\ n <= made
        /\ pbs[n].stored.created <= now
        /\ pbs[n].stored.deleting /\ pd.stored.exists => pd.stored.deleting
    /\ ties = 0 => \A n, m \in Live(pbs) :
            pbs[n].stored.created = pbs[m].stored.created => n = m

LEMMA QuietBirths ==
    ASSUME LInv, Births, Quiet \/ Chosen \/ Respecified \/ Rewritten
    PROVE  Births'
<1>1. made \in Nat /\ now \in Nat /\ \A n \in Names : pbs[n].stored.created \in Nat
  BY PartTypes DEF LInv
<1>2. /\ \A n \in Names : pbs'[n].stored = pbs[n].stored
      /\ made' = made /\ ties' = ties /\ (now' = now \/ now' = now + 1)
      /\ pd'.stored.exists /\ pd.stored.deleting => pd'.stored.deleting
      /\ pd'.stored.exists => pd.stored.exists
  BY DEF Quiet, Chosen, Respecified, Rewritten, Later
<1>3. Live(pbs') = Live(pbs)
  BY <1>2 DEF Live
<1>4. ASSUME NEW n \in Live(pbs')
      PROVE  /\ n <= made'
             /\ pbs'[n].stored.created <= now'
             /\ pbs'[n].stored.deleting /\ pd'.stored.exists => pd'.stored.deleting
  <2>1. n \in Names /\ n \in Live(pbs)
    BY <1>3, <1>4 DEF Live
  <2> QED
    BY <1>1, <1>2, <2>1 DEF Births
<1>5. ASSUME ties' = 0, NEW n \in Live(pbs'), NEW m \in Live(pbs'),
             pbs'[n].stored.created = pbs'[m].stored.created
      PROVE  n = m
  <2>1. n \in Names /\ m \in Names /\ n \in Live(pbs) /\ m \in Live(pbs)
    BY <1>3, <1>5 DEF Live
  <2> QED
    BY <1>2, <1>5, <2>1 DEF Births
<1> QED
  BY <1>4, <1>5 DEF Births

LEMMA BornLive ==
    ASSUME LInv, Births, Born
    PROVE  /\ made + 1 \in Names /\ made + 1 \notin Live(pbs)
           /\ Live(pbs') = Live(pbs) \cup {made + 1}
           /\ \A m \in Live(pbs) : m \in Names /\ m # made + 1 /\ pbs'[m] = pbs[m]
<1>1. made \in Nat /\ made + 1 \in Names
  BY PartTypes DEF LInv, Born
<1>2. made + 1 \notin Live(pbs)
  BY <1>1 DEF Births
<1> QED
  BY <1>1, <1>2 DEF Born, Live

LEMMA BornBirths ==
    ASSUME LInv, Births, Born
    PROVE  Births'
<1> DEFINE b == made + 1
<1>1. made \in Nat /\ now \in Nat /\ ties \in Nat
      /\ \A n \in Names : pbs[n].stored.created \in Nat
  BY PartTypes DEF LInv
<1>2. /\ b \in Names /\ Live(pbs') = Live(pbs) \cup {b}
      /\ \A m \in Live(pbs) : m \in Names /\ m # b /\ pbs'[m] = pbs[m]
  BY BornLive
<1>3. /\ made' = b /\ now' = now /\ pd' = pd
      /\ ~pbs'[b].stored.deleting /\ pbs'[b].stored.created = now
  BY DEF Born
<1>4. ASSUME NEW n \in Live(pbs')
      PROVE  /\ n <= made'
             /\ pbs'[n].stored.created <= now'
             /\ pbs'[n].stored.deleting /\ pd'.stored.exists => pd'.stored.deleting
  <2>1. CASE n = b
    BY <1>1, <1>3, <2>1
  <2>2. CASE n \in Live(pbs)
    <3>1. n \in Nat /\ n <= made
      BY <1>2, <2>2 DEF Births, Names
    <3> QED
      BY <1>1, <1>2, <1>3, <2>2, <3>1 DEF Births
  <2> QED
    BY <1>2, <1>4, <2>1, <2>2
<1>5. ASSUME ties' = 0, NEW n \in Live(pbs'), NEW m \in Live(pbs'),
             pbs'[n].stored.created = pbs'[m].stored.created
      PROVE  n = m
  <2>1. ties = 0 /\ \A k \in Live(pbs) : pbs[k].stored.created # now
    BY <1>1, <1>5 DEF Born
  <2>2. (n \in Live(pbs) \/ n = b) /\ (m \in Live(pbs) \/ m = b)
    BY <1>2
  <2> QED
    BY <1>2, <1>3, <1>5, <2>1, <2>2 DEF Births
<1> QED
  BY <1>4, <1>5 DEF Births

LEMMA UpdatedLive ==
    ASSUME LInv, NEW n \in Names, Updated(n)
    PROVE  /\ n \in Live(pbs) /\ Live(pbs') \subseteq Live(pbs)
           /\ \A m \in Live(pbs') :
                /\ pbs'[m].stored.spec = pbs[m].stored.spec
                /\ pbs'[m].stored.created = pbs[m].stored.created
                /\ pbs'[m].stored.verdict = "active" => pbs[m].stored.verdict = "active"
                /\ pbs'[m].stored.deleting => pbs[m].stored.deleting \/ worker.step = "delete"
BY DEF Updated, Live

\* A reconcile that deletes has read a deployment that is being deleted.
LEMMA DeletingDeletes ==
    ASSUME LInv, worker.step = "delete", pd.stored.exists
    PROVE  pd.stored.deleting
<1>1. <<worker.old, pd.stored>> \in Succession /\ worker.old.deleting
  BY LinkedEnds DEF LInv, Linked
<1> QED
  BY <1>1 DEF Succession, Later

LEMMA UpdatedBirths ==
    ASSUME LInv, Births, NEW n \in Names, Updated(n)
    PROVE  Births'
<1>1. UNCHANGED <<pd, made, now, ties>>
  BY DEF Updated
<1> QED
  BY <1>1, UpdatedLive, DeletingDeletes DEF Births

-----------------------------------------------------------------------------
(* Numbers: what was created is accounted for by the changes and anomalies. *)

Extra == changes + stale + ties

\* The last Playbook is the template's.
LastAgrees ==
    /\ Live(pbs) # {}
    /\ \A n \in Youngest(pbs) : pbs[n].stored.spec = pd.stored.template

\* A Playbook may be missing for the template only when a change or an anomaly
\* has paid for it; so it has for a template that some copy does not show yet.
Numbers ==
    /\ made <= 1 + Extra
    /\ pd.stored.exists => Agrees \/ (made <= Extra /\ 1 <= Extra)
    /\ pd.stored.exists /\ ~pd.stored.deleting => made = 0 \/ LastAgrees \/ made <= Extra
    /\ worker.step = "create" =>
        /\ made = 0 \/ made <= Extra
        /\ pd.stored.exists =>
            \/ made + 1 <= Extra
            \/ Agrees /\ worker.old.template = pd.stored.template

LEMMA ExtraType ==
    ASSUME LInv
    PROVE  Extra \in Nat /\ made \in Nat
BY PartTypes DEF LInv, Extra

LEMMA QuietNumbers ==
    ASSUME LInv, Births, Numbers, Quiet \/ Rewritten
    PROVE  Numbers'
<1>1. Extra' = Extra /\ made' = made
  BY DEF Quiet, Rewritten, Extra
<1>2. \A n \in Names : pbs'[n].stored = pbs[n].stored
  BY DEF Quiet, Rewritten
<1>3. Live(pbs') = Live(pbs)
  BY <1>2 DEF Live
<1>4. Youngest(pbs') = Youngest(pbs)
  BY <1>2, <1>3 DEF Youngest, Live
<1>5. worker' = worker \/ worker'.step = "idle"
  BY DEF Quiet, Rewritten
<1>6. pd'.stored.exists =>
        /\ pd.stored.exists /\ pd'.stored.template = pd.stored.template
        /\ Agrees => Agrees'
        /\ ~pd'.stored.deleting => ~pd.stored.deleting
  BY DEF Quiet, Rewritten, Later
<1>7. pd'.stored.exists => (LastAgrees => LastAgrees')
  <2>1. \A n \in Youngest(pbs) : n \in Names
    BY DEF Youngest, Live
  <2> QED
    BY <1>2, <1>3, <1>4, <1>6, <2>1 DEF LastAgrees
<1>8. made' <= 1 + Extra'
  BY <1>1 DEF Numbers
<1>9. pd'.stored.exists => Agrees' \/ (made' <= Extra' /\ 1 <= Extra')
  BY <1>1, <1>6 DEF Numbers
<1>10. pd'.stored.exists /\ ~pd'.stored.deleting
         => made' = 0 \/ LastAgrees' \/ made' <= Extra'
  BY <1>1, <1>6, <1>7 DEF Numbers
<1>11. worker'.step = "create" =>
        /\ made' = 0 \/ made' <= Extra'
        /\ pd'.stored.exists =>
            \/ made' + 1 <= Extra'
            \/ Agrees' /\ worker'.old.template = pd'.stored.template
  BY <1>1, <1>5, <1>6 DEF Numbers
<1> QED
  BY <1>8, <1>9, <1>10, <1>11 DEF Numbers

\* A change of the spec pays for one more Playbook.
LEMMA RespecifiedNumbers ==
    ASSUME LInv, Numbers, Respecified
    PROVE  Numbers'
<1>1. Extra \in Nat /\ made \in Nat
  BY ExtraType
<1>2. Extra' = Extra + 1 /\ made' = made /\ worker' = worker
  BY PartTypes DEF Respecified, Extra, LInv
<1>3. made <= 1 + Extra /\ (worker.step = "create" => made = 0 \/ made <= Extra)
  BY DEF Numbers
<1>4. made' <= Extra' /\ 1 <= Extra'
  BY <1>1, <1>2, <1>3
<1>5. made' <= 1 + Extra'
  BY <1>1, <1>2, <1>3
<1>6. worker'.step = "create" => made' + 1 <= Extra'
  BY <1>1, <1>2, <1>3
<1> QED
  BY <1>4, <1>5, <1>6 DEF Numbers

\* A reconcile that asks for another Playbook has seen that the last one is not
\* the template's, or it has read an outdated copy, which pays for it.
LEMMA ChosenNumbers ==
    ASSUME LInv, Numbers, Chosen
    PROVE  Numbers'
<1>1. Extra \in Nat /\ made \in Nat
  BY ExtraType
<1>2. /\ UNCHANGED <<pd, pbs, made>>
      /\ \/ stale' = stale /\ AllCurrent /\ pd.cached = pd.stored
         \/ stale' = stale + 1
      /\ worker'.step = "create" => worker'.old = pd.cached /\ Reconcilable(pd.cached)
  BY DEF Chosen
<1>3. CASE stale' = stale + 1
  <2>1. Extra' = Extra + 1
    BY <1>3, PartTypes DEF Chosen, Extra, LInv
  <2>2. made' <= 1 + Extra' /\ made' <= Extra' /\ 1 <= Extra'
    BY <1>1, <1>2, <2>1 DEF Numbers
  <2>3. pd.stored.exists => made' + 1 <= Extra' \/ Agrees
    BY <1>1, <1>2, <2>1 DEF Numbers
  <2>4. Agrees => Agrees' /\ pd.cached.template = pd.stored.template
    BY <1>2 DEF Agrees, Object, OneTemplate
  <2> QED
    BY <1>2, <2>2, <2>3, <2>4 DEF Numbers
<1>4. CASE stale' = stale /\ AllCurrent /\ pd.cached = pd.stored
  <2>1. Extra' = Extra
    BY <1>4 DEF Chosen, Extra
  <2>2. Agrees'
    <3>1. pd.stored \in OneTemplate(pd.stored.template)
      BY PartTypes DEF LInv, OneTemplate
    <3>2. pd \in [stored : Deployment, cached : Deployment, events : Seq(Deployment)]
      BY DEF LInv, TypeOK, Object
    <3>3. pd.events \in Seq(OneTemplate(pd.stored.template))
      BY <1>4 DEF AllCurrent, Current
    <3> QED
      BY <1>2, <1>4, <3>1, <3>2, <3>3 DEF Agrees, Object
  <2>3. LastAgrees' <=> LastAgrees
    BY <1>2 DEF LastAgrees
  <2>4. worker'.step = "create" => made = 0 \/ made <= Extra
    <3>1. ASSUME worker'.step = "create" PROVE ~LastAgrees
      BY <1>4, <3>1 DEF Chosen, LastAgrees, NeedsPlaybook
    <3> QED
      BY <1>2, <1>4, <3>1 DEF Numbers, Reconcilable
  <2> QED
    BY <1>2, <1>4, <2>1, <2>2, <2>3, <2>4 DEF Numbers
<1> QED
  BY <1>2, <1>3, <1>4

LEMMA BornNumbers ==
    ASSUME LInv, Births, Numbers, Born
    PROVE  Numbers'
<1> DEFINE b == made + 1
<1>1. Extra \in Nat /\ made \in Nat
  BY ExtraType
<1>2. /\ worker.step = "create" /\ worker'.step = "patchStatus" /\ pd' = pd /\ made' = b
      /\ pbs'[b].stored.spec = worker.old.template /\ pbs'[b].stored.created = now
  BY DEF Born
<1>3. /\ made = 0 \/ made <= Extra
      /\ pd.stored.exists => b <= Extra \/ (Agrees /\ worker.old.template = pd.stored.template)
  BY <1>2 DEF Numbers
<1>4. Agrees' <=> Agrees
  BY <1>2 DEF Agrees
<1>5. /\ b \in Names /\ Live(pbs') = Live(pbs) \cup {b}
      /\ \A m \in Live(pbs) : m \in Names /\ m # b /\ pbs'[m] = pbs[m]
  BY BornLive
<1>6. CASE ties' = ties + 1
  <2>1. Extra' = Extra + 1
    BY <1>6, PartTypes DEF Born, Extra, LInv
  <2>2. made' <= Extra' /\ 1 <= Extra' /\ made' <= 1 + Extra'
    BY <1>1, <1>2, <1>3, <2>1
  <2> QED
    BY <1>2, <2>2 DEF Numbers
<1>7. CASE ties' = ties /\ \A m \in Live(pbs) : pbs[m].stored.created # now
  <2>1. Extra' = Extra
    BY <1>7 DEF Born, Extra
  <2>2. Youngest(pbs') = {b}
    <3>1. \A m \in Live(pbs) : ~(now <= pbs'[m].stored.created)
      <4>1. \A m \in Live(pbs) : pbs[m].stored.created <= now
                                 /\ pbs[m].stored.created \in Nat /\ now \in Nat
        BY PartTypes DEF LInv, Births, Live
      <4> QED
        BY <1>5, <1>7, <4>1
    <3>2. \A m \in Live(pbs') : pbs'[m].stored.created <= now
      BY <1>2, <1>5, PartTypes DEF Births, LInv
    <3> QED
      BY <1>2, <1>5, <3>1, <3>2 DEF Youngest
  <2>3. worker.old.template = pd.stored.template => LastAgrees'
    BY <1>2, <1>5, <2>2 DEF LastAgrees
  <2>4. made' <= 1 + Extra'
    BY <1>1, <1>2, <1>3, <2>1
  <2>5. b <= Extra => made' <= Extra' /\ 1 <= Extra'
    BY <1>1, <1>2, <2>1
  <2> QED
    BY <1>2, <1>3, <1>4, <2>3, <2>4, <2>5 DEF Numbers
<1> QED
  BY <1>6, <1>7 DEF Born

LEMMA UpdatedNumbers ==
    ASSUME LInv, Births, Numbers, NEW n \in Names, Updated(n)
    PROVE  Numbers'
<1>1. Extra' = Extra /\ made' = made /\ pd' = pd /\ worker'.step = worker.step
      /\ worker'.old = worker.old
  BY DEF Updated, Extra
<1>2. Agrees' <=> Agrees
  BY <1>1 DEF Agrees
<1>3. ASSUME pd.stored.exists, ~pd.stored.deleting, LastAgrees
      PROVE  LastAgrees'
  <2>1. n \in Live(pbs) /\ ~pbs[n].stored.deleting /\ worker.step # "delete"
    BY <1>3, UpdatedLive, DeletingDeletes DEF Births
  <2>2. Live(pbs') = Live(pbs)
    BY <2>1, UpdatedLive DEF Updated, Live
  <2>3. Youngest(pbs') = Youngest(pbs)
    BY <2>2, UpdatedLive DEF Youngest
  <2>4. \A m \in Youngest(pbs) : m \in Live(pbs')
    BY <2>2 DEF Youngest
  <2> QED
    BY <1>1, <1>3, <2>2, <2>3, <2>4, UpdatedLive DEF LastAgrees
<1> QED
  BY <1>1, <1>2, <1>3 DEF Numbers

-----------------------------------------------------------------------------
(* Actives: while the copies were current, an unfinished Playbook is a      *)
(* youngest one, and another is asked for only when there is none.          *)

Actives ==
    stale = 0 /\ ties = 0 =>
        /\ \A n \in Live(pbs) : pbs[n].stored.verdict = "active" => n \in Youngest(pbs)
        /\ worker.step = "create" => \A n \in Live(pbs) : pbs[n].stored.verdict # "active"

LEMMA StepActives ==
    ASSUME LInv, Births, Actives, [Next]_vars
    PROVE  Actives'
<1>1. stale \in Nat /\ ties \in Nat /\ now \in Nat
      /\ \A n \in Names : pbs[n].stored.created \in Nat
  BY PartTypes DEF LInv
<1>2. CASE Quiet \/ Respecified \/ Rewritten
  <2>1. stale' = stale /\ ties' = ties /\ (worker' = worker \/ worker'.step = "idle")
    BY <1>2 DEF Quiet, Respecified, Rewritten
  <2>2. \A n \in Names : pbs'[n].stored = pbs[n].stored
    BY <1>2 DEF Quiet, Respecified, Rewritten
  <2>3. Live(pbs') = Live(pbs)
    BY <2>2 DEF Live
  <2>4. Youngest(pbs') = Youngest(pbs)
    BY <2>2, <2>3 DEF Youngest, Live
  <2>5. \A n \in Live(pbs') : pbs'[n].stored = pbs[n].stored
    BY <2>2 DEF Live
  <2> QED
    BY <2>1, <2>3, <2>4, <2>5 DEF Actives
<1>3. CASE Chosen
  <2>1. UNCHANGED <<pbs, ties>> /\ (stale' = stale \/ stale' = stale + 1)
    BY <1>3 DEF Chosen
  <2>2. ASSUME stale' = 0, ties' = 0
        PROVE  stale' = stale /\ stale = 0 /\ ties = 0
    BY <1>1, <2>1, <2>2
  <2>3. ASSUME stale' = 0, ties' = 0, worker'.step = "create",
               NEW n \in Live(pbs), pbs[n].stored.verdict = "active"
        PROVE  FALSE
    <3>1. PICK m \in Youngest(pbs) : pbs[m].stored.verdict # "active"
      BY <1>3, <2>2, <2>3 DEF Chosen, NeedsPlaybook
    <3>2. n \in Youngest(pbs) /\ m \in Live(pbs) /\ n \in Names /\ m \in Names
      BY <2>2, <2>3 DEF Actives, Youngest, Live
    <3>3. pbs[n].stored.created = pbs[m].stored.created
      BY <1>1, <3>1, <3>2 DEF Youngest
    <3> QED
      BY <2>2, <2>3, <3>1, <3>2, <3>3 DEF Births
  <2> QED
    BY <2>1, <2>2, <2>3 DEF Actives
<1>4. CASE CreatePlaybook
  <2> DEFINE b == made + 1
  <2>1. Born
    BY <1>4, CreateBears
  <2>2. /\ b \in Names /\ Live(pbs') = Live(pbs) \cup {b}
        /\ \A m \in Live(pbs) : m \in Names /\ m # b /\ pbs'[m] = pbs[m]
    BY <2>1, BornLive
  <2>3. ASSUME stale' = 0, ties' = 0
        PROVE  stale = 0 /\ ties = 0
    BY <1>1, <2>1, <2>3 DEF Born
  <2>4. worker.step = "create" /\ worker'.step = "patchStatus"
        /\ pbs'[b].stored.created = now
    BY <2>1 DEF Born
  <2>5. b \in Youngest(pbs')
    BY <1>1, <2>2, <2>4 DEF Youngest, Births
  <2> QED
    BY <2>2, <2>3, <2>4, <2>5 DEF Actives
<1>5. ASSUME NEW n \in Names, Updated(n)
      PROVE  Actives'
  <2>1. UNCHANGED <<stale, ties>> /\ worker'.step = worker.step
    BY <1>5 DEF Updated
  <2>2. \A m \in Live(pbs') : m \in Youngest(pbs) => m \in Youngest(pbs')
    BY <1>5, UpdatedLive DEF Youngest
  <2> QED
    BY <1>5, <2>1, <2>2, UpdatedLive DEF Actives
<1> QED
  BY <1>2, <1>3, <1>4, <1>5, Kinds

-----------------------------------------------------------------------------
(* Orphans: while the copies were current, a deployment without its         *)
(* finalizer has had no Playbook, and the reconcile that deletes knows      *)
(* every one.                                                               *)

Orphans ==
    stale = 0 =>
        /\ pd.stored.exists /\ ~pd.stored.finalizer => made = 0
        /\ worker.step = "create" => pd.stored.exists /\ pd.stored.finalizer
        /\ worker.step = "delete" =>
            \A n \in Live(pbs) : pbs[n].stored.deleting \/ n \in worker.todo
        /\ ~pd.stored.exists => \A n \in Live(pbs) : pbs[n].stored.deleting

LEMMA StepOrphans ==
    ASSUME LInv, Births, Orphans, [Next]_vars
    PROVE  Orphans'
<1>1. stale \in Nat /\ made \in Nat
  BY PartTypes DEF LInv
<1>2. CASE Quiet
  <2>1. UNCHANGED <<stale, made>> /\ (worker' = worker \/ worker'.step = "idle")
        /\ pd'.stored = pd.stored
    BY <1>2 DEF Quiet
  <2>2. \A n \in Names : pbs'[n].stored = pbs[n].stored
    BY <1>2 DEF Quiet
  <2>3. Live(pbs') = Live(pbs)
    BY <2>2 DEF Live
  <2>4. \A n \in Live(pbs') : pbs'[n].stored = pbs[n].stored
    BY <2>2 DEF Live
  <2> QED
    BY <2>1, <2>3, <2>4 DEF Orphans
<1>3. CASE Chosen
  <2>1. /\ UNCHANGED <<pd, pbs, made>>
        /\ \/ stale' = stale /\ pd.cached = pd.stored
           \/ stale' = stale + 1
    BY <1>3 DEF Chosen
  <2>2. ASSUME stale' = 0
        PROVE  stale' = stale /\ stale = 0 /\ pd.cached = pd.stored
    BY <1>1, <2>1, <2>2
  <2> QED
    BY <1>3, <2>1, <2>2 DEF Orphans, Chosen, Reconcilable
<1>4. CASE CreatePlaybook
  <2> DEFINE b == made + 1
  <2>1. Born
    BY <1>4, CreateBears
  <2>2. /\ worker.step = "create" /\ worker'.step = "patchStatus" /\ UNCHANGED <<pd, stale>>
    BY <2>1 DEF Born
  <2> QED
    BY <2>2 DEF Orphans
<1>5. ASSUME NEW n \in Names, Updated(n)
      PROVE  Orphans'
  <2>1. UNCHANGED <<pd, stale, made>> /\ worker'.step = worker.step
    BY <1>5 DEF Updated
  <2>2. \A m \in Live(pbs') : m \in Live(pbs)
    BY <1>5, UpdatedLive
  <2>3. \A m \in Live(pbs') : pbs[m].stored.deleting => pbs'[m].stored.deleting
    BY <1>5 DEF Updated, Live
  <2>4. \A m \in Live(pbs') : m \in worker.todo => m \in worker'.todo \/ pbs'[m].stored.deleting
    BY <1>5 DEF Updated, Live
  <2> QED
    BY <2>1, <2>2, <2>3, <2>4 DEF Orphans
<1>6. CASE Respecified
  <2>1. UNCHANGED <<pbs, stale, made, worker>> /\ pd.stored.exists /\ pd'.stored.exists
        /\ pd'.stored.finalizer = pd.stored.finalizer
    BY <1>6 DEF Respecified
  <2> QED
    BY <2>1 DEF Orphans
<1>7. CASE Rewritten
  <2>1. UNCHANGED <<pbs, stale, made>> /\ (worker' = worker \/ worker'.step = "idle")
        /\ Later(pd.stored, pd'.stored)
    BY <1>7 DEF Rewritten
  <2>2. ASSUME stale = 0, ~pd'.stored.exists
        PROVE  /\ \A n \in Live(pbs) : pbs[n].stored.deleting
               /\ worker'.step # "create"
    <3>1. CASE ~pd.stored.exists
      BY <2>1, <2>2, <3>1 DEF Orphans
    <3>2. CASE pd.stored.exists /\ ~pd.stored.finalizer
      <4>1. made = 0
        BY <2>2, <3>2 DEF Orphans
      <4>2. Live(pbs) = {}
        BY <4>1 DEF Births, Live, Names
      <4> QED
        BY <2>1, <2>2, <3>2, <4>2 DEF Orphans
    <3>3. CASE worker.step = "delete" /\ worker.todo = {} /\ worker'.step = "idle"
      BY <2>2, <3>3 DEF Orphans
    <3> QED
      BY <1>7, <2>2, <3>1, <3>2, <3>3 DEF Rewritten
  <2> QED
    BY <2>1, <2>2 DEF Orphans, Later
<1> QED
  BY <1>2, <1>3, <1>4, <1>5, <1>6, <1>7, Kinds

-----------------------------------------------------------------------------
(* Settled: with no event to come the worker works on what is stored, the   *)
(* phase it is about to write is the right one, and so is the one stored    *)
(* when it has stopped.                                                     *)

PhaseRight(d, phase) ==
    IF d.paused THEN phase = "Paused"
    ELSE \E n \in Youngest(pbs) :
            Reported(d, pbs[n].stored) /\ phase = PhaseOf(pbs[n].stored)

Settled ==
    ~dirty /\ AllCurrent =>
        /\ worker.step # "idle" => pd.stored = worker.old
        /\ worker.step = "patchStatus" => PhaseRight(worker.old, worker.new.phase)
        /\ worker.step = "idle" /\ ~requeue /\ Reconcilable(pd.stored)
             => PhaseRight(pd.stored, pd.stored.phase)

LEMMA UnnoticedDeployment ==
    ASSUME LInv, NEW v \in Deployment, StoreDeployment(v), ~dirty', AllCurrent'
    PROVE  v = pd.stored /\ pd' = pd /\ pbs' = pbs /\ ~dirty /\ AllCurrent
<1>1. pd' = Store(pd, v) /\ pbs' = pbs /\ ~dirty /\ ~Overflows(pd, v) /\ Current(Store(pd, v))
  BY DEF StoreDeployment, AllCurrent
<1>2. v = pd.stored /\ pd' = pd
  BY <1>1, UnnoticedWrite DEF LInv, TypeOK
<1> QED
  BY <1>1, <1>2 DEF AllCurrent

LEMMA UnnoticedPlaybook ==
    ASSUME LInv, NEW n \in Names, NEW v \in Playbook, StorePlaybook(n, v), ~dirty', AllCurrent'
    PROVE  v = pbs[n].stored /\ pd' = pd /\ pbs' = pbs /\ ~dirty /\ AllCurrent
<1>1. /\ pbs'[n] = Store(pbs[n], v) /\ pbs' = [pbs EXCEPT ![n] = Store(pbs[n], v)]
      /\ ~dirty /\ ~Overflows(pbs[n], v) /\ pd' = pd
  BY StorePlaybookType DEF LInv, StorePlaybook
<1>2. Current(Store(pbs[n], v)) /\ pbs[n] \in Object(Playbook)
  BY <1>1 DEF AllCurrent, LInv, TypeOK
<1>3. v = pbs[n].stored /\ Store(pbs[n], v) = pbs[n]
  BY <1>1, <1>2, UnnoticedWrite
<1>4. pbs' = pbs
  BY <1>1, <1>3 DEF LInv, TypeOK
<1> QED
  BY <1>1, <1>3, <1>4 DEF AllCurrent

LEMMA ReconcileSettled ==
    ASSUME LInv, Reconcile
    PROVE  Settled'
<1> DEFINE c == pd.cached
<1>1. worker.step = "idle" /\ UNCHANGED <<pd, pbs>>
  BY DEF Reconcile, ReconcileNotFound, ReconcileDelete, ReconcileAddFinalizer,
         ReconcilePaused, ReconcileReport, ReconcileCreate, Proceed, Begin
<1> SUFFICES ASSUME AllCurrent
             PROVE  /\ worker'.step # "idle" => pd.stored = worker'.old
                    /\ worker'.step = "patchStatus"
                         => PhaseRight(worker'.old, worker'.new.phase)
                    /\ worker'.step = "idle" /\ ~requeue' => ~Reconcilable(pd.stored)
  BY <1>1 DEF Settled, AllCurrent, PhaseRight
<1>2. /\ c = pd.stored /\ \A n \in Names : pbs[n].cached = pbs[n].stored
      /\ Owned(cachedPbs) = Live(pbs) /\ Last(cachedPbs) = Youngest(pbs)
  BY CurrentCopies, Views
<1>3. c \in Deployment
  BY PartTypes DEF LInv
<1>4. CASE ReconcileNotFound
  BY <1>1, <1>2, <1>4 DEF ReconcileNotFound, Reconcilable
<1>5. CASE ReconcileDelete
  BY <1>1, <1>2, <1>5 DEF ReconcileDelete, Proceed
<1>6. CASE ReconcileAddFinalizer
  BY <1>1, <1>2, <1>6 DEF ReconcileAddFinalizer, Proceed
<1>7. CASE ReconcilePaused
  <2>1. worker'.old = c /\ worker'.step = "patchStatus" /\ c.paused
        /\ worker'.new.phase = "Paused"
    BY <1>3, <1>7 DEF ReconcilePaused, Proceed, Deployment
  <2> QED
    BY <1>2, <2>1 DEF PhaseRight
<1>8. CASE ReconcileReport
  <2>1. PICK n \in Last(cachedPbs) :
            /\ Reported(c, pbs[n].cached) /\ ~c.paused
            /\ Proceed("patchStatus", [c EXCEPT !.phase = PhaseOf(pbs[n].cached)], {})
    BY <1>8 DEF ReconcileReport
  <2>2. worker'.old = c /\ worker'.step = "patchStatus"
        /\ worker'.new.phase = PhaseOf(pbs[n].cached)
    BY <1>3, <2>1 DEF Proceed, Deployment
  <2>3. n \in Names /\ n \in Youngest(pbs)
    BY <1>2, <2>1 DEF Youngest, Live
  <2> QED
    BY <1>2, <2>1, <2>2, <2>3 DEF PhaseRight
<1>9. CASE ReconcileCreate
  BY <1>1, <1>2, <1>9 DEF ReconcileCreate, Proceed
<1> QED
  BY <1>4, <1>5, <1>6, <1>7, <1>8, <1>9 DEF Reconcile

\* The patch that goes unnoticed wrote what was there.
LEMMA PatchSettled ==
    ASSUME LInv, Settled, PatchApplied
    PROVE  Settled'
<1> DEFINE s == pd.stored
<1>1. s \in Deployment /\ Patched(s) \in Deployment /\ worker.new \in Deployment
  BY PartTypes, PatchedType DEF LInv, PatchApplied
<1> SUFFICES ASSUME ~dirty', AllCurrent', Reconcilable(pd'.stored)
             PROVE  PhaseRight(pd.stored, pd.stored.phase)'
  BY VersionTypes DEF Settled, PatchApplied
<1>2. Patched(s) = s /\ pd' = pd /\ pbs' = pbs /\ ~dirty /\ AllCurrent
  BY <1>1, UnnoticedDeployment DEF PatchApplied
<1>3. worker.step # "idle" /\ s = worker.old
  BY <1>2 DEF Settled, PatchApplied, Patching
<1>4. CASE worker.step = "patchStatus"
  <2>1. worker.new.phase = s.phase
    BY <1>1, <1>2, <1>3, <1>4 DEF Patched, Deployment
  <2>2. PhaseRight(s, s.phase)
    BY <1>2, <1>3, <1>4, <2>1 DEF Settled
  <2> QED
    BY <1>2, <2>2 DEF PhaseRight
<1>5. CASE worker.step = "addFinalizer"
  <2>1. s.finalizer
    BY <1>1, <1>2, <1>5 DEF Patched, Deployment
  <2> QED
    BY <1>3, <1>5, <2>1 DEF LInv, Linked
<1>6. CASE worker.step = "delete"
  BY <1>2, <1>6, VersionTypes DEF Patched, Reconcilable
<1> QED
  BY <1>4, <1>5, <1>6 DEF PatchApplied, Patching

LEMMA StepSettled ==
    ASSUME LInv, Births, Settled, [Next]_vars
    PROVE  Settled'
<1>1. CASE Reconcile
  BY <1>1, ReconcileSettled
<1>2. CASE CreatePlaybook
  <2> DEFINE v == NewPlaybook(worker.old.template, now)
  <2>1. v \in Playbook /\ v.exists
    BY PartTypes, VersionTypes DEF LInv
  <2>2. made + 1 \in Names /\ ~pbs[made + 1].stored.exists
    BY <1>2, CreateBears, BornLive DEF Live
  <2>3. StorePlaybook(made + 1, v)
    BY <1>2 DEF CreatePlaybook
  <2> HIDE DEF v
  <2>4. dirty' \/ ~AllCurrent'
    BY <2>1, <2>2, <2>3, UnnoticedPlaybook
  <2> QED
    BY <2>4 DEF Settled
<1>3. CASE CreateFails \/ (\E n \in Names : DeleteFails(n)) \/ PatchFails
  BY <1>3, VersionTypes DEF Settled, CreateFails, DeleteFails, PatchFails, ReturnError
<1>4. ASSUME NEW n \in Names, DeletePlaybook(n)
      PROVE  Settled'
  <2>1. [pbs[n].stored EXCEPT !.deleting = TRUE] \in Playbook
    BY PartTypes DEF LInv, Playbook
  <2>2. worker'.step = "delete" /\ worker.step = "delete" /\ worker'.old = worker.old
    BY <1>4 DEF DeletePlaybook, LInv, TypeOK, Worker
  <2>3. ~dirty' /\ AllCurrent' => pd' = pd /\ ~dirty /\ AllCurrent
    BY <1>4, <2>1, UnnoticedPlaybook DEF DeletePlaybook
  <2> QED
    BY <2>2, <2>3 DEF Settled
<1>5. CASE PatchApplied
  BY <1>5, PatchSettled
<1>6. CASE DeliverDeployment \/ (\E n \in Names : DeliverPlaybook(n)) \/ FireRequeue
  BY <1>6 DEF Settled, DeliverDeployment, DeliverPlaybook, FireRequeue
<1>7. CASE Tick \/ UNCHANGED vars
  <2>1. UNCHANGED <<pd, pbs, dirty, requeue, worker>>
    BY <1>7 DEF Tick, vars
  <2> QED
    BY <2>1 DEF Settled, AllCurrent, PhaseRight
<1>8. ASSUME NEW n \in Names, FinishPlaybook(n) \/ VanishPlaybook(n)
      PROVE  Settled'
  <2>1. \E v \in Playbook : StorePlaybook(n, v) /\ v # pbs[n].stored
    <3>1. \A w \in {"Succeeded", "Failed"} :
            /\ [pbs[n].stored EXCEPT !.verdict = w] \in Playbook
            /\ [pbs[n].stored EXCEPT !.verdict = w].verdict = w
      BY PartTypes DEF LInv, Playbook
    <3>2. CASE FinishPlaybook(n)
      <4>1. PICK w \in {"Succeeded", "Failed"} :
                StorePlaybook(n, [pbs[n].stored EXCEPT !.verdict = w])
        BY <3>2 DEF FinishPlaybook
      <4>2. pbs[n].stored.verdict = "active" /\ w # "active"
        BY <3>2 DEF FinishPlaybook
      <4>3. [pbs[n].stored EXCEPT !.verdict = w] # pbs[n].stored
        BY <3>1, <4>2
      <4> QED
        BY <3>1, <4>1, <4>3
    <3>3. CASE VanishPlaybook(n)
      BY <3>3, VersionTypes DEF VanishPlaybook
    <3> QED
      BY <1>8, <3>2, <3>3
  <2>2. dirty' \/ ~AllCurrent'
    BY <2>1, UnnoticedPlaybook
  <2> QED
    BY <2>2 DEF Settled
<1>9. CASE SetTemplate \/ SetPaused
  <2>1. PICK d \in Deployment : ChangeSpec(d)
    <3>1. \A t \in Templates : [pd.stored EXCEPT !.template = t] \in Deployment
      BY PartTypes DEF LInv, Deployment
    <3>2. \A b \in BOOLEAN : [pd.stored EXCEPT !.paused = b] \in Deployment
      BY PartTypes DEF LInv, Deployment
    <3> QED
      BY <1>9, <3>1, <3>2 DEF SetTemplate, SetPaused
  <2>2. dirty' \/ ~AllCurrent'
    BY <2>1, UnnoticedDeployment DEF ChangeSpec
  <2> QED
    BY <2>2 DEF Settled
<1>10. CASE RequestDelete
  <2> DEFINE v == [pd.stored EXCEPT !.deleting = TRUE]
  <2>1. v \in Deployment /\ v.deleting
    BY PartTypes DEF LInv, Deployment
  <2>2. v # pd.stored /\ NoDeployment # pd.stored
    BY <1>10, <2>1, VersionTypes DEF RequestDelete
  <2>3. dirty' \/ ~AllCurrent'
    BY <1>10, <2>1, <2>2, VersionTypes, UnnoticedDeployment DEF RequestDelete
  <2> QED
    BY <2>3 DEF Settled
<1>11. CASE Restart
  <2>1. worker'.step = "idle" /\ pd'.stored = pd.stored /\ dirty' = pd.stored.exists
    BY <1>11, VersionTypes, StoredVersion DEF Restart
  <2> QED
    BY <2>1 DEF Settled, Reconcilable
<1> QED
  BY <1>1, <1>2, <1>3, <1>4, <1>5, <1>6, <1>7, <1>8, <1>9, <1>10, <1>11 DEF Next, WorkerStep

-----------------------------------------------------------------------------
(* The inductive invariant and what follows from it.                        *)

IInv == LInv /\ Births /\ Numbers /\ Actives /\ Orphans /\ Settled

LEMMA InitInv == Init => IInv
<1> SUFFICES ASSUME Init PROVE IInv
  OBVIOUS
<1> DEFINE first == NewDeployment(FirstTemplate)
<1>1. first \in Deployment /\ first.template = FirstTemplate
  BY VersionTypes DEF NewDeployment
<1>2. /\ pd = Listed(first) /\ pd \in Object(Deployment) /\ pd.stored = first
      /\ pd.cached = first /\ pd.events = <<>>
  BY <1>1, ListedType DEF Init, Listed
<1>3. /\ pbs = [n \in Names |-> Listed(NoPlaybook)] /\ pbs \in [Names -> Object(Playbook)]
      /\ \A n \in Names : pbs[n] = Listed(NoPlaybook) /\ ~pbs[n].stored.exists
  BY VersionTypes, ListedType, StoredVersion DEF Init
<1>4. worker \in Worker /\ worker.step = "idle"
  BY VersionTypes DEF Init
<1>5. /\ dirty = TRUE /\ requeue = FALSE /\ made = 0 /\ now = 0
      /\ changes = 0 /\ ties = 0 /\ faults = 0 /\ stale = 0
  BY DEF Init
<1>6. TypeOK
  BY <1>2, <1>3, <1>4, <1>5 DEF TypeOK
<1>7. Linked
  BY <1>2, <1>3, <1>4, ListedChain, ListedCoherent DEF Linked
<1>8. Live(pbs) = {}
  BY <1>3 DEF Live
<1>9. Agrees
  <2>1. first \in OneTemplate(FirstTemplate)
    BY <1>1 DEF OneTemplate
  <2> QED
    BY <1>1, <1>2, <2>1, ListedType DEF Agrees
<1>10. Numbers
  BY <1>4, <1>5, <1>9 DEF Numbers, Extra
<1> QED
  BY <1>4, <1>5, <1>6, <1>7, <1>8, <1>10 DEF IInv, LInv, Births, Actives, Orphans, Settled

LEMMA StepInv ==
    ASSUME IInv, [Next]_vars
    PROVE  IInv'
<1>1. LInv /\ Births /\ Numbers /\ Actives /\ Orphans /\ Settled
  BY DEF IInv
<1>2. LInv'
  BY <1>1, StepType, StepLinked DEF LInv
<1>3. Births' /\ Numbers'
  <2>1. CASE Quiet \/ Rewritten
    BY <1>1, <2>1, QuietBirths, QuietNumbers
  <2>2. CASE Chosen
    BY <1>1, <2>2, QuietBirths, ChosenNumbers
  <2>3. CASE Respecified
    BY <1>1, <2>3, QuietBirths, RespecifiedNumbers
  <2>4. CASE CreatePlaybook
    BY <1>1, <2>4, CreateBears, BornBirths, BornNumbers
  <2>5. ASSUME NEW n \in Names, Updated(n) PROVE Births' /\ Numbers'
    BY <1>1, <2>5, UpdatedBirths, UpdatedNumbers
  <2> QED
    BY <1>1, <2>1, <2>2, <2>3, <2>4, <2>5, Kinds
<1>4. Actives' /\ Orphans' /\ Settled'
  BY <1>1, StepActives, StepOrphans, StepSettled
<1> QED
  BY <1>2, <1>3, <1>4 DEF IInv

LEMMA InductiveInvariant == Spec => []IInv
BY InitInv, StepInv, PTL DEF Spec

\* The objects, the queue, the worker and the observers of the controller keep
\* their types, for every set of templates and every bound.
THEOREM TypeCorrect == Spec => []TypeOK
<1>1. IInv => TypeOK
  BY DEF IInv, LInv
<1> QED
  BY <1>1, InductiveInvariant, PTL

\* However often reconciles are retried, calls fail and the agent restarts, the
\* controller creates at most one Playbook for the first template and one for
\* every change of the spec, outdated copy read or creation within the second
\* of another one: a template is not executed again.
THEOREM NotExecutedAgain == Spec => []NoRepeatedExecution
<1>1. IInv => NoRepeatedExecution
  <2> SUFFICES ASSUME IInv PROVE NoRepeatedExecution
    OBVIOUS
  <2>1. changes \in Nat /\ stale \in Nat /\ ties \in Nat /\ made \in Nat
    BY PartTypes DEF IInv, LInv
  <2> QED
    BY <2>1 DEF IInv, Numbers, Extra, NoRepeatedExecution
<1> QED
  BY <1>1, InductiveInvariant, PTL

\* Two Playbooks of a deployment never run side by side on the host while the
\* controller has read current copies: every number of template changes,
\* crashes and failed calls in between.
THEOREM NeverSideBySide == Spec => []OneActivePlaybook
<1>1. IInv => OneActivePlaybook
  <2> SUFFICES ASSUME IInv, stale = 0, ties = 0
               PROVE  Cardinality({n \in Owned(storedPbs) :
                                     pbs[n].stored.verdict = "active"}) <= 1
    BY DEF OneActivePlaybook
  <2> DEFINE S == {n \in Owned(storedPbs) : pbs[n].stored.verdict = "active"}
  <2>1. \A n \in S : n \in Live(pbs) /\ n \in Youngest(pbs) /\ pbs[n].stored.created \in Nat
    BY Views, PartTypes DEF IInv, LInv, Actives, Live
  <2>2. \A n, m \in S : n = m
    <3> SUFFICES ASSUME NEW n \in S, NEW m \in S PROVE n = m
      OBVIOUS
    <3>1. pbs[n].stored.created = pbs[m].stored.created
      BY <2>1 DEF Youngest
    <3> QED
      BY <2>1, <3>1 DEF IInv, Births
  <2> HIDE DEF S
  <2>3. S = {} \/ \E x : S = {x}
    BY <2>2
  <2>4. Cardinality(S) = 0 \/ Cardinality(S) = 1
    <3>1. Cardinality({}) = 0 /\ \A x : Cardinality({x}) = 1
      BY FS_EmptySet, FS_Singleton
    <3> QED
      BY <2>3, <3>1
  <2> QED
    BY <2>4 DEF S
<1> QED
  BY <1>1, InductiveInvariant, PTL

\* When the deployment has gone, every Playbook that is left has been asked to
\* go, unless an outdated copy was read: nobody else would delete it.
THEOREM NothingOrphaned == Spec => []NoOrphanPlaybook
<1>1. IInv => NoOrphanPlaybook
  BY Views DEF IInv, Orphans, NoOrphanPlaybook
<1> QED
  BY <1>1, InductiveInvariant, PTL

\* No wake-up is lost: with nothing queued, nothing in progress and every event
\* delivered, the phase that is stored is the one of the last Playbook, or
\* Paused for a paused deployment.
THEOREM QuiescentPhase == Spec => []QuiescentPhaseIsTrue
<1>1. IInv => QuiescentPhaseIsTrue
  BY Views DEF IInv, Settled, PhaseRight, Quiescent, QuiescentPhaseIsTrue
<1> QED
  BY <1>1, InductiveInvariant, PTL
=============================================================================
