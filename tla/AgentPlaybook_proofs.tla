------------------------ MODULE AgentPlaybook_proofs ------------------------
(***************************************************************************)
(* Type correctness, the bounds on Status.Failed and on the number of      *)
(* starts, the removal of the directory, and the refinement of             *)
(* PlaybookLifecycle, for every BackoffLimit and every lag of the          *)
(* informer.                                                               *)
(***************************************************************************)
EXTENDS AgentPlaybook, Informer_proofs, TLAPS

-----------------------------------------------------------------------------
(* The inductive invariant.  The counter is copied from version to version  *)
(* through an outdated cache, so a bound on the stored version alone is not *)
(* inductive: every version that the system still holds has to satisfy it.  *)

\* The versions whose status is accounted for by n failed attempts.
Sound(n) ==
    {p \in Playbook : /\ p.failed <= BackoffLimit
                      /\ p.failed <= n
                      /\ p.conditions.failed => n >= BackoffLimit}

\* An attempt is in progress only on a version with attempts left.
AttemptsLeft ==
    worker.step \in {"ensureAnsible", "runPlaybook"} =>
        worker.new.failed < BackoffLimit

IInv ==
    /\ TypeOK
    /\ obj \in Object(Sound(failures))
    /\ worker.old \in Sound(failures)
    /\ worker.new \in Sound(failures)
    /\ AttemptsLeft

LEMMA NewPlaybookSound ==
    ASSUME NEW n \in Nat
    PROVE  NewPlaybook \in Sound(n) /\ NoPlaybook \in Sound(n)
<1>1. NewPlaybook.conditions \in Conditions /\ NewPlaybook.phase \in Phases
  BY DEF NewPlaybook, Conditions, Executions, Phases
<1>2. NewPlaybook \in Playbook /\ NoPlaybook \in Playbook
  BY <1>1 DEF NewPlaybook, NoPlaybook, Playbook
<1>3. /\ NewPlaybook.failed = 0 /\ ~NewPlaybook.conditions.failed
      /\ NoPlaybook.failed = 0 /\ ~NoPlaybook.conditions.failed
  BY DEF NewPlaybook, NoPlaybook
<1> QED
  BY <1>2, <1>3, BackoffLimitAssumption DEF Sound

\* A failed attempt accounts for everything accounted for before.
LEMMA SoundGrows ==
    ASSUME NEW n \in Nat
    PROVE  /\ Sound(n) \subseteq Sound(n + 1)
           /\ Object(Sound(n)) \subseteq Object(Sound(n + 1))
<1>1. Sound(n) \subseteq Sound(n + 1)
  <2> SUFFICES ASSUME NEW p \in Sound(n) PROVE p \in Sound(n + 1)
    OBVIOUS
  <2>1. p.failed \in Nat
    BY DEF Sound, Playbook
  <2> QED
    BY <2>1, BackoffLimitAssumption DEF Sound
<1>2. Seq(Sound(n)) \subseteq Seq(Sound(n + 1))
  BY <1>1
<1> QED
  BY <1>1, <1>2 DEF Object

LEMMA BackoffType ==
    ASSUME NEW n \in Nat
    PROVE  getBackoff(n) \in Nat
<1>1. CASE n <= 0
  BY <1>1 DEF getBackoff
<1>2. CASE n \in {1, 2, 3, 4, 5, 6}
  BY <1>2 DEF getBackoff
<1>3. CASE n > 6
  BY <1>3 DEF getBackoff
<1> QED
  BY <1>1, <1>2, <1>3

\* A merge patch takes the counter and the list of conditions from versions
\* that are all accounted for.
LEMMA MergeSound ==
    ASSUME NEW n \in Nat, NEW cur \in Sound(n), NEW old \in Sound(n), NEW new \in Sound(n)
    PROVE  MergeStatus(cur, old, new) \in Sound(n)
<1> DEFINE m == MergeStatus(cur, old, new)
<1>1. cur \in Playbook /\ old \in Playbook /\ new \in Playbook
  BY DEF Sound
<1>2. /\ m.failed \in {cur.failed, new.failed}
      /\ m.conditions \in {cur.conditions, new.conditions}
      /\ m \in Playbook
  BY <1>1 DEF MergeStatus, Playbook
<1> QED
  BY <1>2 DEF Sound

\* What Reconcile begins preserves the invariant if the object it is going to
\* patch is accounted for.
LEMMA ProceedInv ==
    ASSUME IInv, NEW step \in Steps, NEW pb \in Sound(failures), Proceed(step, pb),
           step \in {"ensureAnsible", "runPlaybook"} => pb.failed < BackoffLimit,
           timers' \subseteq Nat, dir' \in {"absent", "present", "abandoned"},
           starts' \in Nat, exitZero' \in BOOLEAN, failures' = failures
    PROVE  IInv'
<1>1. obj.cached \in Sound(failures) /\ Sound(failures) \subseteq Playbook
  BY DEF IInv, Object, Sound
<1>2. worker' \in Worker /\ worker'.old = obj.cached /\ worker'.new = pb /\ worker'.step = step
  BY <1>1 DEF Proceed, Worker
<1>3. Begin /\ UNCHANGED <<obj, age, faults>> /\ dirty' = FALSE
  BY DEF Proceed, Begin
<1>4. stale' \in Nat
  BY DEF IInv, TypeOK, Proceed, Begin
<1>5. TypeOK'
  BY <1>2, <1>3, <1>4 DEF IInv, TypeOK
<1> QED
  BY <1>1, <1>2, <1>3, <1>5 DEF IInv, AttemptsLeft

\* Nothing is in progress after the worker has finished, so only the object
\* matters.
LEMMA StoredInv ==
    ASSUME IInv, NEW v \in Sound(failures), StoreVersion(v), failures' = failures,
           worker' \in {worker, Idle}, timers' \subseteq Nat, faults' \in Nat,
           UNCHANGED <<dir, age, starts, exitZero, stale>>
    PROVE  IInv'
<1>1. obj' \in Object(Sound(failures))
  BY StoreType DEF StoreVersion, IInv
<1>2. Object(Sound(failures)) \subseteq Object(Playbook)
  <2>1. Sound(failures) \subseteq Playbook
    BY DEF Sound
  <2>2. Seq(Sound(failures)) \subseteq Seq(Playbook)
    BY <2>1
  <2> QED
    BY <2>1, <2>2 DEF Object
<1>3. Idle \in Worker /\ Idle.old = NoPlaybook /\ Idle.new = NoPlaybook /\ Idle.step = "idle"
  <2>1. NoPlaybook \in Playbook
    BY NewPlaybookSound DEF Sound
  <2> QED
    BY <2>1 DEF Idle, Worker, Steps
<1>4. dirty' \in BOOLEAN
  BY DEF StoreVersion, Overflows, Changes, IInv, TypeOK
<1>5. NoPlaybook \in Sound(failures)
  BY NewPlaybookSound DEF IInv, TypeOK
<1>6. CASE worker' = worker
  BY <1>1, <1>2, <1>4, <1>6 DEF IInv, TypeOK, AttemptsLeft
<1>7. CASE worker' = Idle
  <2>1. TypeOK'
    BY <1>1, <1>2, <1>3, <1>4, <1>7 DEF IInv, TypeOK
  <2> QED
    BY <1>1, <1>3, <1>5, <1>7, <2>1 DEF IInv, AttemptsLeft
<1> QED
  BY <1>6, <1>7

-----------------------------------------------------------------------------
(* Reconcile *)

LEMMA ReconcileInv ==
    ASSUME IInv, Reconcile
    PROVE  IInv'
<1> DEFINE c == obj.cached
<1>1. c \in Sound(failures) /\ c \in Playbook /\ failures \in Nat /\ starts \in Nat
  BY DEF IInv, TypeOK, Object, Sound
<1>2. CASE ReconcileNotFound
  <2>1. stale' \in Nat
    BY <1>2 DEF ReconcileNotFound, Begin, IInv, TypeOK
  <2>2. UNCHANGED <<obj, age, faults, worker, timers, dir, starts, failures, exitZero>>
        /\ dirty' = FALSE
    BY <1>2 DEF ReconcileNotFound, Begin, observers
  <2> QED
    BY <2>1, <2>2 DEF IInv, TypeOK, AttemptsLeft
<1>3. CASE ReconcileDelete
  <2>1. [c EXCEPT !.finalizer = FALSE] \in Sound(failures)
    BY <1>1 DEF Sound, Playbook
  <2> QED
    BY <1>3, <2>1, ProceedInv DEF ReconcileDelete, Steps, IInv, TypeOK, observers
<1>4. CASE ReconcileAddFinalizer
  <2>1. [c EXCEPT !.finalizer = TRUE] \in Sound(failures)
    BY <1>1 DEF Sound, Playbook
  <2> QED
    BY <1>4, <2>1, ProceedInv DEF ReconcileAddFinalizer, Steps, IInv, TypeOK, observers
<1>5. CASE ReconcileDone
  BY <1>1, <1>5, ProceedInv DEF ReconcileDone, Steps, IInv, TypeOK, observers
<1>6. CASE ReconcileExceeded
  <2> DEFINE pb == [c EXCEPT !.phase = "Failed",
                            !.conditions = [c.conditions EXCEPT !.failed = TRUE]]
  <2>1. failures >= BackoffLimit
    BY <1>1, <1>6, BackoffLimitAssumption DEF ReconcileExceeded, Exceeded, Sound, Playbook
  <2>2. pb \in Playbook /\ pb.failed = c.failed
    BY <1>1 DEF Playbook, Phases, Conditions
  <2>3. pb \in Sound(failures)
    BY <1>1, <2>1, <2>2 DEF Sound
  <2> QED
    BY <1>6, <2>3, ProceedInv DEF ReconcileExceeded, Steps, IInv, TypeOK, observers
<1>7. CASE ReconcileBackoff
  <2>1. timers' \subseteq Nat
    BY <1>1, <1>7, BackoffType DEF ReconcileBackoff, IInv, TypeOK, Playbook
  <2> QED
    BY <1>1, <1>7, <2>1, ProceedInv DEF ReconcileBackoff, Steps, IInv, TypeOK, observers
<1>8. CASE ReconcilePending
  <2>1. [c EXCEPT !.phase = "Pending"] \in Sound(failures)
    BY <1>1 DEF Sound, Playbook, Phases
  <2> QED
    BY <1>8, <2>1, ProceedInv DEF ReconcilePending, Steps, IInv, TypeOK, observers
<1>9. CASE ReconcileEnsureAnsible
  <2>1. c.failed < BackoffLimit
    BY <1>1, <1>9, BackoffLimitAssumption
       DEF ReconcileEnsureAnsible, Executable, Exceeded, Playbook
  <2> QED
    BY <1>1, <1>9, <2>1, ProceedInv DEF ReconcileEnsureAnsible, Steps, IInv, TypeOK, observers
<1>10. CASE ReconcileRun
  <2>1. c.failed < BackoffLimit
    BY <1>1, <1>10, BackoffLimitAssumption DEF ReconcileRun, Executable, Exceeded, Playbook
  <2>2. starts' \in Nat
    BY <1>1, <1>10 DEF ReconcileRun
  <2> QED
    BY <1>1, <1>10, <2>1, <2>2, ProceedInv DEF ReconcileRun, Steps, IInv, TypeOK
<1> QED
  BY <1>2, <1>3, <1>4, <1>5, <1>6, <1>7, <1>8, <1>9, <1>10 DEF Reconcile

-----------------------------------------------------------------------------
(* The rest of a reconcile *)

\* A failed attempt on a version with attempts left is counted, and accounted
\* for by the failure itself.
LEMMA CountedSound ==
    ASSUME NEW n \in Nat, NEW p \in Sound(n), p.failed < BackoffLimit,
           NEW phase \in Phases, NEW reason \in Executions
    PROVE  CountFailure(p, phase, reason) \in Sound(n + 1)
<1> DEFINE q == CountFailure(p, phase, reason)
<1>1. p \in Playbook /\ p.failed <= n /\ p.failed \in Nat
  BY DEF Sound, Playbook
<1> DEFINE k == [p.conditions EXCEPT !.execution = reason]
<1>2. k \in Conditions /\ k.failed = p.conditions.failed
  BY <1>1 DEF Playbook, Conditions
<1>3. q = [p EXCEPT !.phase = phase, !.failed = p.failed + 1, !.conditions = k]
  BY DEF CountFailure
<1> HIDE DEF q, k
<1>4. q.failed = p.failed + 1 /\ q.conditions = k
  BY <1>1, <1>3 DEF Playbook
<1>5. q \in Playbook
  <2> DEFINE m == p.failed + 1
  <2>1. m \in Nat
    BY <1>1
  <2>2. q = [p EXCEPT !.phase = phase, !.failed = m, !.conditions = k]
    BY <1>3
  <2> HIDE DEF m
  <2> QED
    BY <1>1, <1>2, <2>1, <2>2 DEF Playbook
<1>6. q \in Sound(n + 1)
  BY <1>1, <1>2, <1>4, <1>5, BackoffLimitAssumption DEF Sound
<1> QED
  BY <1>6 DEF q

\* The end of an attempt that is not counted.
LEMMA AttemptEndsInv ==
    ASSUME IInv, NEW pb \in Sound(failures), FinishWith(pb),
           exitZero' \in BOOLEAN, failures' = failures
    PROVE  IInv'
<1>1. pb \in Playbook
  BY DEF Sound
<1>2. /\ worker' \in Worker /\ worker'.step = "patchStatus"
      /\ worker'.old = worker.old /\ worker'.new = pb
  BY <1>1 DEF IInv, TypeOK, Worker, Steps, FinishWith
<1>3. TypeOK'
  BY <1>2 DEF IInv, TypeOK, FinishWith
<1> QED
  BY <1>2, <1>3 DEF IInv, AttemptsLeft, FinishWith

\* The end of an attempt that is.
LEMMA AttemptFailsInv ==
    ASSUME IInv, NEW phase \in Phases, NEW reason \in Executions,
           worker.step \in {"ensureAnsible", "runPlaybook"},
           FinishWith(CountFailure(worker.new, phase, reason)),
           failures' = failures + 1, exitZero' \in BOOLEAN
    PROVE  IInv'
<1> DEFINE q == CountFailure(worker.new, phase, reason)
<1>1. failures \in Nat /\ worker.new \in Sound(failures) /\ worker.new.failed < BackoffLimit
  BY DEF IInv, TypeOK, AttemptsLeft
<1>2. q \in Sound(failures + 1)
  BY <1>1, CountedSound
<1>3. q \in Playbook
  BY <1>2 DEF Sound
<1>4. /\ worker' \in Worker /\ worker'.step = "patchStatus"
      /\ worker'.old = worker.old /\ worker'.new = q
  BY <1>3 DEF IInv, TypeOK, Worker, Steps, FinishWith
<1>5. TypeOK'
  BY <1>1, <1>4 DEF IInv, TypeOK, FinishWith
<1>6. worker.old \in Sound(failures') /\ obj \in Object(Sound(failures'))
  BY <1>1, SoundGrows DEF IInv
<1> QED
  BY <1>2, <1>4, <1>5, <1>6 DEF IInv, AttemptsLeft, FinishWith

LEMMA WorkerStepInv ==
    ASSUME IInv, WorkerStep
    PROVE  IInv'
<1>1. failures \in Nat /\ worker.new \in Sound(failures) /\ worker.new \in Playbook
  BY DEF IInv, TypeOK, Sound
<1>2. CASE EnsureAnsibleSucceeds
  <2>1. [worker.new EXCEPT !.phase = "Running"] \in Sound(failures)
    BY <1>1 DEF Sound, Playbook, Phases
  <2> QED
    BY <1>2, <2>1, AttemptEndsInv DEF EnsureAnsibleSucceeds, IInv, TypeOK
<1>3. CASE EnsureAnsibleFails
  BY <1>3, AttemptFailsInv DEF EnsureAnsibleFails, IInv, TypeOK, Phases, Executions
<1>4. Succeed(worker.new) \in Sound(failures)
  <2>1. /\ Succeed(worker.new) \in Playbook
        /\ Succeed(worker.new).failed = worker.new.failed
        /\ Succeed(worker.new).conditions.failed = worker.new.conditions.failed
    BY <1>1 DEF Succeed, Playbook, Phases, Conditions, Executions
  <2> QED
    BY <1>1, <2>1 DEF Sound
<1>5. CASE RunExitsZero
  BY <1>4, <1>5, AttemptEndsInv DEF RunExitsZero
<1>6. CASE RunFails
  BY <1>6, AttemptFailsInv DEF RunFails, IInv, TypeOK, Phases, Executions
<1>7. CASE RunTimesOut
  BY <1>4, <1>7, AttemptEndsInv DEF RunTimesOut, IInv, TypeOK
<1>8. CASE RemoveDir \/ RemoveDirFails
  <2>1. /\ worker' \in Worker /\ worker'.step = "removeFinalizer"
        /\ worker'.old = worker.old /\ worker'.new = worker.new
        /\ dir' \in {"absent", "abandoned"}
        /\ faults' \in Nat
        /\ UNCHANGED <<obj, dirty, timers, age, starts, failures, exitZero, stale>>
    BY <1>8 DEF RemoveDir, RemoveDirFails, IInv, TypeOK, Worker, Steps, observers
  <2> QED
    BY <2>1 DEF IInv, TypeOK, AttemptsLeft
<1>9. ASSUME Patching PROVE Patched(obj.stored) \in Sound(failures)
  <2>1. obj.stored \in Sound(failures) /\ worker.old \in Sound(failures)
    BY DEF IInv, Object
  <2>2. [obj.stored EXCEPT !.finalizer = TRUE] \in Sound(failures)
    BY <2>1 DEF Sound, Playbook
  <2>3. CASE worker.step = "patchStatus"
    BY <1>1, <2>1, <2>3, MergeSound DEF Patched
  <2>4. CASE worker.step = "addFinalizer"
    BY <2>2, <2>4 DEF Patched
  <2>5. CASE worker.step = "removeFinalizer"
    BY <1>1, <2>5, NewPlaybookSound DEF Patched
  <2> QED
    BY <1>9, <2>3, <2>4, <2>5 DEF Patching
<1>10. CASE PatchApplied
  BY <1>9, <1>10, StoredInv DEF PatchApplied, IInv, TypeOK, observers
<1>11. ASSUME worker' = Idle, timers' \subseteq Nat, faults' \in Nat,
                  UNCHANGED <<obj, dirty, dir, age, starts, failures, exitZero, stale>>
           PROVE IInv'
  <2>1. Idle \in Worker /\ Idle.old = NoPlaybook /\ Idle.new = NoPlaybook
        /\ Idle.step = "idle" /\ NoPlaybook \in Sound(failures)
    BY <1>1, NewPlaybookSound DEF Idle, Worker, Steps, Sound
  <2>2. TypeOK'
    BY <1>11, <2>1 DEF IInv, TypeOK
  <2> QED
    BY <1>11, <2>1, <2>2 DEF IInv, AttemptsLeft
<1>12. CASE PatchNotFound
  BY <1>11, <1>12 DEF PatchNotFound, IInv, TypeOK, observers
<1>13. CASE \E applied \in BOOLEAN : PatchFails(applied)
  <2> PICK applied \in BOOLEAN : PatchFails(applied)
    BY <1>13
  <2>1. /\ worker' = Idle /\ timers' \subseteq Nat /\ faults' \in Nat
        /\ UNCHANGED <<dir, age, starts, failures, exitZero, stale>>
    BY DEF PatchFails, IInv, TypeOK, observers
  <2>2. CASE applied /\ obj.stored.exists
    BY <1>9, <2>1, <2>2, StoredInv DEF PatchFails
  <2>3. CASE ~(applied /\ obj.stored.exists)
    BY <1>11, <2>1, <2>3 DEF PatchFails
  <2> QED
    BY <2>2, <2>3
<1> QED
  BY <1>2, <1>3, <1>5, <1>6, <1>7, <1>8, <1>10, <1>12, <1>13 DEF WorkerStep

-----------------------------------------------------------------------------
(* The theorems *)

LEMMA InitInv ==
    ASSUME Init
    PROVE  IInv
<1>1. NewPlaybook \in Sound(0) /\ NoPlaybook \in Sound(0)
  BY NewPlaybookSound
<1>2. obj \in Object(Sound(0)) /\ obj \in Object(Playbook)
  BY <1>1, ListedType DEF Init, Sound
<1>3. worker \in Worker /\ worker.old = NoPlaybook /\ worker.new = NoPlaybook
      /\ worker.step = "idle"
  BY <1>1 DEF Init, Idle, Worker, Steps, Sound
<1> QED
  BY <1>1, <1>2, <1>3 DEF Init, IInv, TypeOK, AttemptsLeft

LEMMA StepInv ==
    ASSUME IInv, [Next]_vars
    PROVE  IInv'
<1>1. CASE Reconcile
  BY <1>1, ReconcileInv
<1>2. CASE WorkerStep
  BY <1>2, WorkerStepInv
<1>3. CASE DeliverEvent
  <2>1. obj' \in Object(Sound(failures)) /\ obj' \in Object(Playbook)
    BY <1>3, DeliverType DEF DeliverEvent, IInv, TypeOK
  <2> QED
    BY <1>3, <2>1 DEF DeliverEvent, IInv, TypeOK, AttemptsLeft, observers
<1>4. CASE FireTimer
  BY <1>4 DEF FireTimer, IInv, TypeOK, AttemptsLeft, observers
<1>5. CASE Tick
  BY <1>5 DEF Tick, IInv, TypeOK, AttemptsLeft, observers
<1>6. CASE Resync
  BY <1>6 DEF Resync, IInv, TypeOK, AttemptsLeft, observers
<1>7. CASE RequestDelete
  <2>1. obj.stored \in Sound(failures) /\ failures \in Nat
    BY DEF IInv, Object, TypeOK
  <2>2. [obj.stored EXCEPT !.deleting = TRUE] \in Sound(failures)
        /\ NoPlaybook \in Sound(failures)
    BY <2>1, NewPlaybookSound DEF Sound, Playbook
  <2> QED
    BY <1>7, <2>2, StoredInv DEF RequestDelete, IInv, TypeOK, observers
<1>8. CASE Restart
  <2>1. obj.stored \in Sound(failures) /\ failures \in Nat
    BY DEF IInv, Object, TypeOK
  <2>2. obj' \in Object(Sound(failures)) /\ obj' \in Object(Playbook)
    BY <1>8, <2>1, ListedType DEF Restart, Sound
  <2>3. dirty' \in BOOLEAN /\ timers' = {} /\ faults' \in Nat /\ worker' = Idle
        /\ UNCHANGED <<dir, age, starts, failures, exitZero, stale>>
    BY <1>8, <2>1 DEF Restart, IInv, TypeOK, observers, Sound, Playbook
  <2>4. Idle \in Worker /\ Idle.old = NoPlaybook /\ Idle.new = NoPlaybook
        /\ Idle.step = "idle" /\ NoPlaybook \in Sound(failures)
    BY <2>1, NewPlaybookSound DEF Idle, Worker, Steps, Sound
  <2>5. TypeOK'
    BY <2>2, <2>3, <2>4 DEF IInv, TypeOK
  <2> QED
    BY <2>2, <2>3, <2>4, <2>5 DEF IInv, AttemptsLeft
<1>9. CASE UNCHANGED vars
  BY <1>9 DEF vars, IInv, TypeOK, AttemptsLeft, observers
<1> QED
  BY <1>1, <1>2, <1>3, <1>4, <1>5, <1>6, <1>7, <1>8, <1>9 DEF Next

LEMMA InductiveInvariant == Spec => []IInv
<1>1. Init => IInv
  BY InitInv
<1>2. IInv /\ [Next]_vars => IInv'
  BY StepInv
<1> QED
  BY <1>1, <1>2, PTL DEF Spec

\* Every reachable state of the Playbook controller has its type.
THEOREM TypeCorrect == Spec => []TypeOK
<1>1. IInv => TypeOK
  BY DEF IInv
<1> QED
  BY <1>1, InductiveInvariant, PTL

\* The Failed condition is stored only after BackoffLimit real failures,
\* however far the informer is behind.
THEOREM NeverGivesUpEarly == Spec => []FailedOnlyAfterLimit
<1>1. IInv => FailedOnlyAfterLimit
  BY DEF IInv, FailedOnlyAfterLimit, Object, Sound
<1> QED
  BY <1>1, InductiveInvariant, PTL

\* The stored counter stays within BackoffLimit, however far the informer is
\* behind.
THEOREM CounterBounded == Spec => []FailedWithinLimit
<1>1. IInv => FailedWithinLimit
  BY DEF IInv, FailedWithinLimit, Object, Sound
<1> QED
  BY <1>1, InductiveInvariant, PTL

-----------------------------------------------------------------------------
(* How often ansible-playbook is started, what becomes of the directory and *)
(* of the verdict.  A merge patch made from an outdated copy may take back  *)
(* what was stored since, so these rest on how far the copy a reconcile     *)
(* works on can be from the stored version: by one failure at most.         *)

\* q may be stored after p: an object that has gone stays away, and the
\* counter does not go down.
Later(p, q) == q.exists => p.exists /\ p.failed <= q.failed

Succession == {x \in Playbook \X Playbook : Later(x[1], x[2])}

\* The copy that the current reconcile, or else the next one, works on.
Base == IF worker.step = "idle" THEN obj.cached ELSE worker.old

SameStatus(p, q) == p.failed = q.failed /\ p.conditions = q.conditions

\* The starts that version v shows when it is read next to copy b: one for each
\* failure, and one for a success that no failure of b's can still overwrite.
Spent(v, b) ==
    IF v.conditions.execution = "True" /\ v.failed = b.failed
      THEN v.failed + 1 ELSE v.failed

\* The starts that may be repeated.
Excused == faults + stale

History ==
    /\ Chain(obj, Succession)
    /\ worker.step # "idle" => <<worker.old, obj.cached>> \in Succession
    /\ obj.stored.exists => obj.stored.failed <= Base.failed + 1

\* What a reconcile is going to patch.
Attempt ==
    /\ worker.step \in {"ensureAnsible", "runPlaybook"} =>
        worker.new = worker.old /\ ~Terminal(worker.old)
    /\ worker.step = "patchStatus" =>
        /\ worker.new.failed \in {worker.old.failed, worker.old.failed + 1}
        /\ Terminal(worker.old) => worker.new.conditions = worker.old.conditions

\* Every start is shown by the stored version, is about to be shown by it, or
\* is excused.
Accounted ==
    LET cur == obj.stored
        spent == Spent(cur, Base) + Excused
    IN  cur.exists =>
          /\ worker.step \notin {"runPlaybook", "patchStatus"} => starts <= spent
          /\ worker.step = "ensureAnsible" =>
                SameStatus(cur, worker.old) \/ starts + 1 <= spent
          /\ worker.step = "runPlaybook" =>
                /\ starts <= spent + 1
                /\ SameStatus(cur, worker.old) \/ starts <= spent
          /\ worker.step = "patchStatus" =>
                /\ starts <= spent + 1
                /\ starts <= Spent(MergeStatus(cur, worker.old, worker.new), worker.old)
                                + Excused

\* The directory is there only under the finalizer.
Kept ==
    stale = 0 =>
        /\ dir = "present" => obj.stored.exists /\ obj.stored.finalizer
        /\ worker.step = "removeFinalizer" => dir # "present"

\* Nobody else writes the status while a reconcile is going on.
Faithful ==
    stale = 0 /\ worker.step # "idle" /\ obj.stored.exists =>
        SameStatus(obj.stored, worker.old)

HInv == IInv /\ History /\ Attempt /\ Accounted /\ Kept /\ Faithful /\ StartsBounded

LEMMA SuccessionOrder ==
    Reflexive(Playbook, Succession) /\ Transitive(Playbook, Succession)
<1>1. \A p \in Playbook : p.failed \in Nat
  BY DEF Playbook
<1> QED
  BY <1>1 DEF Reflexive, Transitive, Succession, Later

\* The types that the lemmas below keep needing.
LEMMA HTypes ==
    ASSUME HInv
    PROVE  /\ obj \in Object(Playbook)
           /\ obj.stored \in Playbook /\ obj.stored.failed \in Nat
           /\ obj.stored.failed <= BackoffLimit
           /\ obj.cached \in Playbook /\ obj.cached.failed \in Nat
           /\ obj.cached.failed <= BackoffLimit
           /\ worker.old \in Playbook /\ worker.old.failed \in Nat
           /\ worker.new \in Playbook /\ worker.new.failed \in Nat
           /\ worker.step \in Steps
           /\ starts \in Nat /\ faults \in Nat /\ stale \in Nat /\ BackoffLimit \in Nat
           /\ <<obj.cached, obj.stored>> \in Succession
           /\ Base \in Playbook /\ Base.failed \in Nat
<1>1. /\ obj \in Object(Playbook) /\ obj.stored \in Playbook /\ obj.cached \in Playbook
      /\ worker.old \in Playbook /\ worker.new \in Playbook /\ worker.step \in Steps
      /\ starts \in Nat /\ faults \in Nat /\ stale \in Nat
  BY DEF HInv, IInv, TypeOK, Object, Worker
<1>2. \A p \in Playbook : p.failed \in Nat
  BY DEF Playbook
<1>3. <<obj.cached, obj.stored>> \in Succession
  BY <1>1, ChainEnds, SuccessionOrder DEF HInv, History
<1>4. obj.stored.failed <= BackoffLimit /\ obj.cached.failed <= BackoffLimit
  BY DEF HInv, IInv, Object, Sound
<1>5. Base \in Playbook
  BY <1>1 DEF Base
<1> QED
  BY <1>1, <1>2, <1>3, <1>4, <1>5, BackoffLimitAssumption

\* A reconcile begins, with a start of ansible-playbook or without one.
LEMMA ProceedHistory ==
    ASSUME HInv, IInv', NEW step \in Steps, NEW pb \in Playbook, Proceed(step, pb),
           step \notin {"idle", "removeFinalizer"},
           step \in {"ensureAnsible", "runPlaybook"} =>
                pb = obj.cached /\ ~Terminal(obj.cached),
           step = "patchStatus" =>
                /\ pb.failed = obj.cached.failed
                /\ pb.conditions.execution = obj.cached.conditions.execution
                /\ Terminal(obj.cached) => pb.conditions = obj.cached.conditions,
           step = "runPlaybook" =>
                /\ obj.cached.exists /\ obj.cached.finalizer
                /\ obj.cached.failed < BackoffLimit
                /\ starts' = starts + 1,
           step # "runPlaybook" => starts' = starts /\ dir' = dir
    PROVE  HInv'
<1> DEFINE s == obj.stored
           c == obj.cached
<1>1. /\ worker.step = "idle" /\ worker' = [step |-> step, old |-> c, new |-> pb]
      /\ UNCHANGED <<obj, faults>>
      /\ IF Current(obj) THEN stale' = stale ELSE stale' = stale + 1
  BY DEF Proceed, Begin
<1>2. worker'.step = step /\ worker'.old = c /\ worker'.new = pb /\ Base' = c /\ Base = c
  BY <1>1 DEF Base
<1>3. Current(obj) => c = s
  BY DEF HInv, History, Chain, Coherent, Current
<1>4. /\ s \in Playbook /\ s.failed \in Nat /\ s.failed <= BackoffLimit
      /\ c \in Playbook /\ c.failed \in Nat
      /\ starts \in Nat /\ faults \in Nat /\ stale \in Nat /\ BackoffLimit \in Nat
      /\ <<c, s>> \in Succession /\ <<c, c>> \in Succession
  BY HTypes, SuccessionOrder DEF Reflexive
<1>5. History'
  BY <1>1, <1>2, <1>4 DEF HInv, History
<1>6. Attempt'
  BY <1>2, <1>4 DEF Attempt
<1>7. stale' = 0 => Current(obj) /\ stale = 0
  BY <1>1, <1>4
<1>8. Kept'
  BY <1>1, <1>2, <1>3, <1>7 DEF HInv, Kept
<1>9. Faithful'
  BY <1>1, <1>2, <1>3, <1>7 DEF Faithful, SameStatus
<1>10. s.exists => starts <= Spent(s, c) + Excused
  BY <1>1, <1>2 DEF HInv, Accounted
<1>11. /\ Excused \in Nat /\ Excused' \in Nat
       /\ IF Current(obj) THEN Excused' = Excused ELSE Excused' = Excused + 1
  BY <1>1, <1>4 DEF Excused
<1>12. Spent(s, c) \in Nat /\ (~Terminal(s) => Spent(s, c) = s.failed)
  BY <1>4 DEF Spent, Terminal
<1>13. StartsBounded'
  <2>1. starts <= BackoffLimit + Excused
    BY <1>4 DEF HInv, StartsBounded, Excused
  <2>2. CASE step # "runPlaybook"
    BY <1>1, <1>4, <2>1, <2>2 DEF StartsBounded, Excused
  <2>3. CASE step = "runPlaybook" /\ ~Current(obj)
    BY <1>1, <1>4, <2>1, <2>3 DEF StartsBounded, Excused
  <2>4. CASE step = "runPlaybook" /\ Current(obj)
    <3>1. starts <= s.failed + Excused /\ s.failed < BackoffLimit
      BY <1>3, <1>10, <1>12, <2>4
    <3>2. starts + 1 <= BackoffLimit + Excused
      BY <1>4, <1>11, <3>1
    <3> QED
      BY <1>1, <1>4, <2>4, <3>2 DEF StartsBounded, Excused
  <2> QED
    BY <2>2, <2>3, <2>4
<1>14. Accounted'
  <2> SUFFICES ASSUME s.exists PROVE Accounted'
    BY <1>1 DEF Accounted
  <2> DEFINE spent == Spent(s, c) + Excused
             m == MergeStatus(s, c, pb)
  <2>1. starts <= spent /\ spent \in Nat
    BY <1>10, <1>11, <1>12
  <2>2. Spent(s, c) + Excused' = (IF Current(obj) THEN spent ELSE spent + 1)
    BY <1>11, <1>12
  <2>3. Current(obj) => SameStatus(s, c)
    BY <1>3 DEF SameStatus
  <2>4. ASSUME step = "patchStatus"
        PROVE  starts <= Spent(m, c) + Excused'
    <3>1. m.failed = s.failed /\ m.conditions \in {s.conditions, pb.conditions}
      BY <1>4, <2>4 DEF MergeStatus, Playbook
    <3>2. CASE Current(obj)
      <4>1. m.conditions.execution = s.conditions.execution
        BY <1>3, <2>4, <3>1, <3>2
      <4>2. Spent(m, c) = Spent(s, c)
        BY <3>1, <4>1 DEF Spent
      <4> QED
        BY <2>1, <2>2, <3>2, <4>2
    <3>3. CASE ~Current(obj)
      <4>1. Spent(m, c) \in Nat /\ Spent(s, c) <= Spent(m, c) + 1
        BY <1>4, <3>1 DEF Spent
      <4> QED
        BY <1>4, <1>11, <1>12, <2>1, <4>1, <3>3
    <3> QED
      BY <3>2, <3>3
  <2> HIDE DEF spent, m
  <2>5. obj' = obj /\ starts' = (IF step = "runPlaybook" THEN starts + 1 ELSE starts)
    BY <1>1
  <2>6. starts' <= Spent(s, c) + Excused' + 1
    BY <1>4, <1>11, <1>12, <2>1, <2>2, <2>5
  <2>7. step # "runPlaybook" => starts' <= Spent(s, c) + Excused'
    BY <1>4, <1>11, <1>12, <2>1, <2>2, <2>5
  <2>8. SameStatus(s, c) \/ starts + 1 <= Spent(s, c) + Excused'
    BY <1>4, <1>11, <1>12, <2>1, <2>2, <2>3
  <2> QED
    BY <1>1, <1>2, <2>4, <2>5, <2>6, <2>7, <2>8 DEF Accounted, m
<1> QED
  BY <1>5, <1>6, <1>8, <1>9, <1>13, <1>14 DEF HInv


LEMMA ReconcileHistory ==
    ASSUME HInv, IInv', Reconcile
    PROVE  HInv'
<1> DEFINE c == obj.cached
<1>1. /\ c \in Playbook /\ c.failed \in Nat /\ BackoffLimit \in Nat
      /\ starts \in Nat /\ faults \in Nat /\ stale \in Nat
  BY HTypes
<1>2. CASE ReconcileNotFound
  <2>1. /\ UNCHANGED <<obj, worker, dir, starts, faults>>
        /\ stale' = stale \/ stale' = stale + 1
    BY <1>1, <1>2 DEF ReconcileNotFound, Begin, observers
  <2>2. worker.step = "idle"
    BY <1>2 DEF ReconcileNotFound, Begin
  <2>3. Base' = Base /\ Excused \in Nat /\ (Excused' = Excused \/ Excused' = Excused + 1)
    BY <1>1, <2>1 DEF Base, Excused
  <2>4. Spent(obj.stored, Base) \in Nat
    BY HTypes DEF Spent
  <2>5. Accounted'
    BY <1>1, <2>1, <2>2, <2>3, <2>4 DEF HInv, Accounted
  <2>6. StartsBounded'
    BY <1>1, <2>1 DEF HInv, StartsBounded
  <2> QED
    BY <1>1, <2>1, <2>2, <2>3, <2>5, <2>6
       DEF HInv, History, Attempt, Kept, Faithful
<1>3. CASE ReconcileDelete
  <2>1. [c EXCEPT !.finalizer = FALSE] \in Playbook
    BY <1>1 DEF Playbook
  <2> QED
    BY <1>3, <2>1, ProceedHistory DEF ReconcileDelete, Steps, observers
<1>4. CASE ReconcileAddFinalizer
  <2>1. [c EXCEPT !.finalizer = TRUE] \in Playbook
    BY <1>1 DEF Playbook
  <2> QED
    BY <1>4, <2>1, ProceedHistory DEF ReconcileAddFinalizer, Steps, observers
<1>5. CASE ReconcileDone
  BY <1>1, <1>5, ProceedHistory DEF ReconcileDone, Steps, observers
<1>6. CASE ReconcileExceeded
  <2> DEFINE k == [c.conditions EXCEPT !.failed = TRUE]
             pb == [c EXCEPT !.phase = "Failed", !.conditions = k]
  <2>1. k \in Conditions /\ k.execution = c.conditions.execution
    BY <1>1 DEF Playbook, Conditions
  <2>2. Proceed("patchStatus", pb) /\ ~Terminal(c) /\ UNCHANGED <<starts, dir>>
    BY <1>6 DEF ReconcileExceeded, observers
  <2> HIDE DEF k
  <2>3. pb \in Playbook /\ pb.failed = c.failed /\ pb.conditions = k
    BY <1>1, <2>1 DEF Playbook, Phases
  <2> QED
    BY <2>1, <2>2, <2>3, ProceedHistory DEF Steps
<1>7. CASE ReconcileBackoff
  BY <1>1, <1>7, ProceedHistory DEF ReconcileBackoff, Steps, observers
<1>8. CASE ReconcilePending
  <2> DEFINE pb == [c EXCEPT !.phase = "Pending"]
  <2>1. /\ pb \in Playbook /\ pb.failed = c.failed /\ pb.conditions = c.conditions
    BY <1>1 DEF Playbook, Phases
  <2>2. Proceed("patchStatus", pb) /\ UNCHANGED <<starts, dir>>
    BY <1>8 DEF ReconcilePending, observers
  <2> QED
    BY <2>1, <2>2, ProceedHistory DEF Steps
<1>9. CASE ReconcileEnsureAnsible
  BY <1>1, <1>9, ProceedHistory DEF ReconcileEnsureAnsible, Executable, Steps, observers
<1>10. CASE ReconcileRun
  <2>1. c.failed < BackoffLimit
    BY <1>1, <1>10 DEF ReconcileRun, Executable, Exceeded
  <2> QED
    BY <1>1, <1>10, <2>1, ProceedHistory
       DEF ReconcileRun, Executable, Reconcilable, Steps
<1> QED
  BY <1>2, <1>3, <1>4, <1>5, <1>6, <1>7, <1>8, <1>9, <1>10 DEF Reconcile

\* What an attempt leaves to be patched shows its start.
LEMMA FinishHistory ==
    ASSUME HInv, IInv', NEW pb \in Playbook, FinishWith(pb),
           worker.step \in {"ensureAnsible", "runPlaybook"},
           \/ /\ worker.step = "ensureAnsible"
              /\ pb.failed = worker.new.failed /\ pb.conditions = worker.new.conditions
           \/ /\ worker.step = "runPlaybook"
              /\ pb.failed = worker.new.failed /\ pb.conditions.execution = "True"
           \/ /\ pb.failed = worker.new.failed + 1 /\ pb.conditions.execution # "True"
    PROVE  HInv'
<1> DEFINE s == obj.stored
           b == worker.old
           m == MergeStatus(s, b, pb)
<1>1. /\ worker' = [worker EXCEPT !.step = "patchStatus", !.new = pb]
      /\ UNCHANGED <<obj, dir, starts, faults, stale>>
  BY DEF FinishWith
<1>2. worker'.step = "patchStatus" /\ worker'.old = b /\ worker'.new = pb
  BY <1>1 DEF HInv, IInv, TypeOK, Worker
<1>3. Base = b /\ Base' = b
  BY <1>2 DEF Base
<1>4. /\ s \in Playbook /\ s.failed \in Nat /\ b \in Playbook /\ b.failed \in Nat
      /\ starts \in Nat /\ faults \in Nat /\ stale \in Nat
      /\ worker.new = b /\ ~Terminal(b)
  BY HTypes DEF HInv, Attempt
<1>5. pb.failed \in {b.failed, b.failed + 1} /\ pb.failed \in Nat
  BY <1>4
<1>6. Attempt'
  BY <1>2, <1>4, <1>5 DEF Attempt
<1>7. History' /\ Kept' /\ Faithful' /\ StartsBounded'
  BY <1>1, <1>2, <1>3 DEF HInv, History, Kept, Faithful, StartsBounded
<1>8. Accounted'
  <2> SUFFICES ASSUME s.exists PROVE Accounted'
    BY <1>1 DEF Accounted
  <2>1. /\ m.failed = (IF pb.failed # b.failed THEN pb.failed ELSE s.failed)
        /\ m.conditions = (IF pb.conditions # b.conditions THEN pb.conditions ELSE s.conditions)
    BY <1>4 DEF MergeStatus, Playbook
  <2>2. s.failed \in {b.failed, b.failed + 1}
    <3>1. s.failed <= b.failed + 1
      BY <1>3 DEF HInv, History
    <3>2. <<b, obj.cached>> \in Succession /\ <<obj.cached, s>> \in Succession
      BY HTypes DEF HInv, History
    <3>3. <<b, s>> \in Succession
      BY <1>4, <3>2, HTypes, SuccessionOrder DEF Transitive
    <3>4. b.failed <= s.failed
      BY <3>3 DEF Succession, Later
    <3> QED
      BY <1>4, <3>1, <3>4
  <2>3. b.conditions.execution # "True"
    BY <1>4 DEF Terminal
  <2>4. Spent(s, b) \in Nat /\ Spent(m, b) \in Nat /\ Excused \in Nat /\ Excused' = Excused
    BY <1>1, <1>4, <1>5, <2>1 DEF Spent, Excused
  <2>5. starts <= Spent(s, b) + Excused + 1
    BY <1>3, <1>4, <2>4 DEF HInv, Accounted
  <2>6. starts <= Spent(m, b) + Excused
    <3>1. CASE worker.step = "ensureAnsible" /\ pb.failed = b.failed
                  /\ pb.conditions = b.conditions
      <4>1. Spent(m, b) = Spent(s, b)
        BY <2>1, <3>1 DEF Spent
      <4> QED
        BY <1>3, <2>4, <3>1, <4>1 DEF HInv, Accounted
    <3>2. CASE worker.step = "runPlaybook" /\ pb.failed = b.failed
                  /\ pb.conditions.execution = "True"
      <4>1. m.failed = s.failed /\ m.conditions.execution = "True"
        BY <2>1, <2>3, <3>2
      <4>2. CASE SameStatus(s, b)
        <5>1. Spent(m, b) = Spent(s, b) + 1
          BY <1>4, <2>3, <4>1, <4>2 DEF Spent, SameStatus
        <5> QED
          BY <1>4, <2>4, <2>5, <5>1
      <4>3. CASE ~SameStatus(s, b)
        <5>1. Spent(m, b) >= Spent(s, b)
          BY <1>4, <4>1 DEF Spent
        <5>2. starts <= Spent(s, b) + Excused
          BY <1>3, <3>2, <4>3 DEF HInv, Accounted
        <5> QED
          BY <1>4, <2>4, <5>1, <5>2
      <4> QED
        BY <4>2, <4>3
    <3>3. CASE pb.failed = b.failed + 1 /\ pb.conditions.execution # "True"
      <4>1. m.failed = b.failed + 1 /\ Spent(m, b) = b.failed + 1
        BY <1>4, <2>1, <3>3 DEF Spent
      <4>2. CASE SameStatus(s, b)
        <5>1. Spent(s, b) = b.failed
          BY <2>3, <4>2 DEF Spent, SameStatus
        <5> QED
          BY <1>4, <2>4, <2>5, <4>1, <5>1
      <4>3. CASE ~SameStatus(s, b)
        <5>1. Spent(s, b) <= b.failed + 1
          BY <1>4, <2>2 DEF Spent
        <5>2. starts <= Spent(s, b) + Excused
          BY <1>3, <1>4, <2>4, <4>3 DEF HInv, Accounted
        <5> QED
          BY <1>4, <2>4, <4>1, <5>1, <5>2
      <4> QED
        BY <4>2, <4>3
    <3> QED
      BY <1>4, <3>1, <3>2, <3>3
  <2> HIDE DEF m
  <2> QED
    BY <1>1, <1>2, <1>3, <1>4, <2>4, <2>5, <2>6 DEF Accounted, m
<1> QED
  BY <1>6, <1>7, <1>8 DEF HInv


\* A step that leaves the worker idle, with a later copy for the next reconcile.
LEMMA IdleHistory ==
    ASSUME HInv, IInv', worker'.step = "idle", UNCHANGED <<dir, starts, stale>>,
           faults' = faults \/ faults' = faults + 1,
           Chain(obj', Succession), <<Base, obj'.cached>> \in Succession,
           obj'.stored.exists =>
                /\ obj'.stored.failed <= Base.failed + 1
                /\ starts <= Spent(obj'.stored, Base) + Excused',
           stale = 0 /\ dir = "present" => obj'.stored.exists /\ obj'.stored.finalizer
    PROVE  HInv'
<1> DEFINE v == obj'.stored
           c == obj'.cached
<1>1. obj' \in Object(Playbook) /\ v \in Playbook /\ c \in Playbook
  BY DEF IInv, TypeOK, Object
<1>2. /\ v.failed \in Nat /\ c.failed \in Nat
      /\ Base.failed \in Nat /\ starts \in Nat /\ faults \in Nat /\ stale \in Nat
      /\ BackoffLimit \in Nat
  BY <1>1, HTypes DEF Playbook
<1>3. <<c, v>> \in Succession
  BY <1>1, ChainEnds, SuccessionOrder
<1>4. Base' = c
  BY DEF Base
<1>5. v.exists => Base.failed <= c.failed /\ c.failed <= v.failed
  BY <1>3 DEF Succession, Later
<1>6. Excused' \in Nat
  BY <1>2 DEF Excused
<1>7. v.exists => Spent(v, Base) <= Spent(v, c)
  BY <1>2, <1>5 DEF Spent
<1>8. Spent(v, Base) \in Nat /\ Spent(v, c) \in Nat
  BY <1>2 DEF Spent
<1>9. v.exists => v.failed <= c.failed + 1 /\ starts <= Spent(v, c) + Excused'
  BY <1>2, <1>5, <1>6, <1>7, <1>8
<1> HIDE DEF v, c
<1>10. History'
  BY <1>4, <1>9 DEF History, v, c
<1>11. Accounted'
  BY <1>4, <1>9 DEF Accounted, v
<1>12. Attempt' /\ Kept' /\ Faithful'
  BY DEF Attempt, Kept, Faithful
<1>13. StartsBounded'
  BY <1>2 DEF HInv, StartsBounded
<1> QED
  BY <1>10, <1>11, <1>12, <1>13 DEF HInv

\* A step of others while a reconcile is going on.
LEMMA BusyHistory ==
    ASSUME HInv, IInv', worker.step # "idle",
           UNCHANGED <<worker, dir, starts, faults, stale>>,
           Chain(obj', Succession), <<obj.cached, obj'.cached>> \in Succession,
           obj'.stored.exists => obj.stored.exists /\ SameStatus(obj'.stored, obj.stored),
           stale = 0 /\ dir = "present" => obj'.stored.exists /\ obj'.stored.finalizer
    PROVE  HInv'
<1> DEFINE v == obj'.stored
           s == obj.stored
           b == worker.old
           m == MergeStatus(s, b, worker.new)
           n == MergeStatus(v, b, worker.new)
<1>1. /\ obj' \in Object(Playbook) /\ v \in Playbook /\ obj'.cached \in Playbook
      /\ s \in Playbook /\ b \in Playbook /\ worker.new \in Playbook /\ obj.cached \in Playbook
  BY HTypes DEF IInv, TypeOK, Object
<1>2. Base = b /\ Base' = b /\ Excused' = Excused
  BY DEF Base, Excused
<1>3. <<b, obj'.cached>> \in Succession
  BY <1>1, SuccessionOrder DEF Transitive, HInv, History
<1>4. History'
  BY <1>2, <1>3 DEF HInv, History, SameStatus
<1>5. Attempt' /\ Kept' /\ Faithful' /\ StartsBounded'
  BY DEF HInv, Attempt, Kept, Faithful, SameStatus, StartsBounded
<1>6. v.exists =>
        Spent(v, b) = Spent(s, b) /\ (SameStatus(s, b) => SameStatus(v, b))
  BY DEF Spent, SameStatus
<1>7. v.exists => Spent(n, b) = Spent(m, b)
  <2> SUFFICES ASSUME v.exists PROVE Spent(n, b) = Spent(m, b)
    OBVIOUS
  <2>1. v.failed = s.failed /\ v.conditions = s.conditions
    BY DEF SameStatus
  <2>2. n.failed = m.failed /\ n.conditions = m.conditions
    BY <1>1, <2>1 DEF MergeStatus, Playbook
  <2> QED
    BY <2>2 DEF Spent
<1> HIDE DEF v, s, m, n
<1>8. Accounted'
  BY <1>2, <1>6, <1>7 DEF HInv, Accounted, v, s, m, n
<1> QED
  BY <1>4, <1>5, <1>8 DEF HInv

LEMMA NoPlaybookGone == NoPlaybook \in Playbook /\ ~NoPlaybook.exists
<1>1. NoPlaybook \in Playbook
  BY NewPlaybookSound DEF Sound
<1> QED
  BY <1>1 DEF NoPlaybook, NewPlaybook

\* The patch that a reconcile ends with is applied.
LEMMA AppliedHistory ==
    ASSUME HInv, IInv', Patching, obj.stored.exists, obj' = Store(obj, Patched(obj.stored)),
           worker' = Idle, UNCHANGED <<dir, starts, stale>>,
           faults' = faults \/ faults' = faults + 1
    PROVE  HInv'
<1> DEFINE s == obj.stored
           b == worker.old
           v == Patched(s)
<1>1. /\ s \in Playbook /\ b \in Playbook /\ worker.new \in Playbook /\ obj.cached \in Playbook
      /\ s.failed \in Nat /\ b.failed \in Nat /\ worker.new.failed \in Nat
      /\ starts \in Nat /\ faults \in Nat /\ stale \in Nat /\ obj \in Object(Playbook)
  BY HTypes
<1>2. worker.step \in {"patchStatus", "addFinalizer", "removeFinalizer"} /\ Base = b
  BY DEF Patching, Base
<1>3. Excused \in Nat /\ (Excused' = Excused \/ Excused' = Excused + 1)
  BY <1>1 DEF Excused
<1>4. s.failed <= b.failed + 1
  BY <1>2 DEF HInv, History
<1>5. /\ v \in Playbook /\ <<s, v>> \in Succession
      /\ v.exists => v.failed <= b.failed + 1 /\ starts <= Spent(v, b) + Excused
      /\ stale = 0 /\ dir = "present" => v.exists /\ v.finalizer
  <2>1. CASE worker.step = "patchStatus"
    <3>1. v = MergeStatus(s, b, worker.new)
      BY <2>1 DEF Patched
    <3>2. worker.new.failed \in {b.failed, b.failed + 1}
      BY <2>1 DEF HInv, Attempt
    <3>3. /\ v \in Playbook /\ v.exists = s.exists /\ v.finalizer = s.finalizer
          /\ v.failed = (IF worker.new.failed # b.failed THEN worker.new.failed ELSE s.failed)
      BY <1>1, <3>1 DEF MergeStatus, Playbook
    <3>4. v.failed <= b.failed + 1 /\ s.failed <= v.failed
      BY <1>1, <1>4, <3>2, <3>3
    <3>5. <<s, v>> \in Succession
      BY <1>1, <3>3, <3>4 DEF Succession, Later
    <3>6. starts <= Spent(v, b) + Excused
      BY <2>1, <3>1 DEF HInv, Accounted
    <3> QED
      BY <3>3, <3>4, <3>5, <3>6 DEF HInv, Kept
  <2>2. CASE worker.step = "addFinalizer"
    <3>1. v = [s EXCEPT !.finalizer = TRUE]
      BY <2>2 DEF Patched
    <3>2. /\ v \in Playbook /\ v.exists = s.exists /\ v.finalizer
          /\ v.failed = s.failed /\ v.conditions = s.conditions
      BY <1>1, <3>1 DEF Playbook
    <3>3. <<s, v>> \in Succession
      BY <1>1, <3>2 DEF Succession, Later
    <3>4. Spent(v, b) = Spent(s, b)
      BY <3>2 DEF Spent
    <3>5. starts <= Spent(v, b) + Excused
      BY <1>2, <2>2, <3>4 DEF HInv, Accounted
    <3> QED
      BY <1>4, <3>2, <3>3, <3>5
  <2>3. CASE worker.step = "removeFinalizer"
    <3>1. v = NoPlaybook
      BY <2>3 DEF Patched
    <3>2. stale = 0 => dir # "present"
      BY <2>3 DEF HInv, Kept
    <3> QED
      BY <1>1, <3>1, <3>2, NoPlaybookGone DEF Succession, Later
  <2> QED
    BY <1>2, <2>1, <2>2, <2>3
<1> HIDE DEF v
<1>6. Chain(obj', Succession) /\ <<obj.cached, obj'.cached>> \in Succession
  BY <1>1, <1>5, StoreChain, SuccessionOrder DEF HInv, History, v
<1>7. obj'.stored = v /\ obj'.cached \in Playbook
  BY StoredVersion DEF v, IInv, TypeOK, Object
<1>8. <<b, obj'.cached>> \in Succession
  BY <1>1, <1>2, <1>6, <1>7, SuccessionOrder DEF Transitive, HInv, History
<1>9. Spent(v, b) \in Nat
  BY <1>1, <1>5 DEF Spent, Playbook
<1>10. v.exists => starts <= Spent(v, b) + Excused'
  BY <1>1, <1>3, <1>5, <1>9
<1>11. worker'.step = "idle"
  BY DEF Idle
<1> QED
  BY <1>2, <1>5, <1>6, <1>7, <1>8, <1>10, <1>11, IdleHistory

\* The reconcile ends without having changed the object, or is cut off.
LEMMA AbandonedHistory ==
    ASSUME HInv, IInv', obj' = obj \/ obj' = Listed(obj.stored),
           worker' = Idle, UNCHANGED <<dir, starts, stale>>,
           \/ faults' = faults + 1
           \/ faults' = faults /\ ~obj.stored.exists
    PROVE  HInv'
<1> DEFINE s == obj.stored
<1>1. /\ s \in Playbook /\ Base \in Playbook /\ obj.cached \in Playbook
      /\ s.failed \in Nat /\ Base.failed \in Nat
      /\ starts \in Nat /\ faults \in Nat /\ stale \in Nat
      /\ <<obj.cached, s>> \in Succession
  BY HTypes
<1>2. <<Base, obj.cached>> \in Succession
  BY <1>1, SuccessionOrder DEF Base, HInv, History, Reflexive
<1>3. <<Base, s>> \in Succession
  BY <1>1, <1>2, SuccessionOrder DEF Transitive
<1>4. obj'.stored = s /\ obj'.cached \in {obj.cached, s} /\ Chain(obj', Succession)
  BY ListedChain DEF Listed, HInv, History
<1>5. s.exists => Excused' = Excused + 1 /\ Excused \in Nat
  BY <1>1 DEF Excused
<1>6. Spent(s, Base) \in Nat
  BY <1>1 DEF Spent
<1>7. s.exists => starts <= Spent(s, Base) + Excused + 1
  <2> SUFFICES ASSUME s.exists PROVE starts <= Spent(s, Base) + Excused + 1
    OBVIOUS
  <2>1. \/ starts <= Spent(s, Base) + Excused
        \/ starts <= Spent(s, Base) + Excused + 1
    BY DEF HInv, Accounted
  <2> QED
    BY <1>1, <1>5, <1>6, <2>1
<1>8. s.exists => starts <= Spent(s, Base) + Excused'
  BY <1>1, <1>5, <1>6, <1>7
<1>9. s.exists => s.failed <= Base.failed + 1
  BY DEF HInv, History
<1>10. stale = 0 /\ dir = "present" => s.exists /\ s.finalizer
  BY DEF HInv, Kept
<1>11. worker'.step = "idle" /\ <<Base, obj'.cached>> \in Succession
  BY <1>2, <1>3, <1>4 DEF Idle
<1> QED
  BY <1>4, <1>8, <1>9, <1>10, <1>11, IdleHistory

\* The object changes in front of the worker, or the copy does.
LEMMA OthersHistory ==
    ASSUME HInv, IInv', UNCHANGED <<worker, dir, starts, faults, stale>>,
           Chain(obj', Succession), <<obj.cached, obj'.cached>> \in Succession,
           obj'.stored.exists => obj.stored.exists /\ SameStatus(obj'.stored, obj.stored),
           stale = 0 /\ dir = "present" => obj'.stored.exists /\ obj'.stored.finalizer
    PROVE  HInv'
<1>1. CASE worker.step # "idle"
  BY <1>1, BusyHistory
<1>2. CASE worker.step = "idle"
  <2>1. Base = obj.cached /\ Excused' = Excused
    BY <1>2 DEF Base, Excused
  <2>2. ASSUME obj'.stored.exists
        PROVE  /\ obj'.stored.failed <= Base.failed + 1
               /\ starts <= Spent(obj'.stored, Base) + Excused'
    <3>1. obj.stored.exists /\ obj'.stored.failed = obj.stored.failed
          /\ Spent(obj'.stored, Base) = Spent(obj.stored, Base)
      BY <2>2 DEF SameStatus, Spent
    <3>2. obj.stored.failed <= Base.failed + 1 /\ starts <= Spent(obj.stored, Base) + Excused
      BY <1>2, <3>1 DEF HInv, History, Accounted
    <3> QED
      BY <2>1, <3>1, <3>2
  <2> QED
    BY <1>2, <2>1, <2>2, IdleHistory
<1> QED
  BY <1>1, <1>2


LEMMA WorkerStepHistory ==
    ASSUME HInv, IInv', WorkerStep
    PROVE  HInv'
<1> DEFINE p == worker.new
<1>1. p \in Playbook /\ p.failed \in Nat /\ p.conditions \in Conditions
      /\ faults \in Nat /\ worker \in Worker
  BY HTypes DEF Playbook, HInv, IInv, TypeOK
<1>2. CASE EnsureAnsibleSucceeds
  <2> DEFINE pb == [p EXCEPT !.phase = "Running"]
  <2>1. pb \in Playbook /\ pb.failed = p.failed /\ pb.conditions = p.conditions
    BY <1>1 DEF Playbook, Phases
  <2> QED
    BY <1>2, <2>1, FinishHistory DEF EnsureAnsibleSucceeds
<1>3. ASSUME NEW phase \in Phases, NEW reason \in {"PreparationFailed", "ExecutionFailed"},
             worker.step \in {"ensureAnsible", "runPlaybook"},
             FinishWith(CountFailure(p, phase, reason))
      PROVE  HInv'
  <2> DEFINE k == [p.conditions EXCEPT !.execution = reason]
             f == p.failed + 1
             pb == [p EXCEPT !.phase = phase, !.failed = f, !.conditions = k]
  <2>1. k \in Conditions /\ k.execution = reason /\ f \in Nat
    BY <1>1 DEF Conditions, Executions
  <2>2. FinishWith(pb)
    BY <1>3 DEF CountFailure
  <2> HIDE DEF k, f
  <2>3. pb \in Playbook /\ pb.failed = f /\ pb.conditions = k
    BY <1>1, <2>1 DEF Playbook
  <2>4. pb.failed = p.failed + 1 /\ pb.conditions.execution # "True"
    BY <2>1, <2>3 DEF f
  <2> HIDE DEF pb
  <2> QED
    BY <1>3, <2>2, <2>3, <2>4, FinishHistory
<1>4. CASE EnsureAnsibleFails
  BY <1>3, <1>4 DEF EnsureAnsibleFails, Phases
<1>5. CASE RunFails
  BY <1>3, <1>5 DEF RunFails, Phases
<1>6. CASE RunExitsZero \/ RunTimesOut
  <2> DEFINE k == [p.conditions EXCEPT !.execution = "True"]
             pb == [p EXCEPT !.phase = "Succeeded", !.conditions = k]
  <2>1. k \in Conditions /\ k.execution = "True"
    BY <1>1 DEF Conditions, Executions
  <2>2. FinishWith(pb) /\ worker.step = "runPlaybook"
    BY <1>6 DEF RunExitsZero, RunTimesOut, Succeed
  <2> HIDE DEF k
  <2>3. pb \in Playbook /\ pb.failed = p.failed /\ pb.conditions = k
    BY <1>1, <2>1 DEF Playbook, Phases
  <2> HIDE DEF pb
  <2> QED
    BY <2>1, <2>2, <2>3, FinishHistory
<1>7. CASE RemoveDir \/ RemoveDirFails
  <2>1. /\ worker.step = "removeDir" /\ worker'.step = "removeFinalizer"
        /\ worker'.old = worker.old /\ worker'.new = worker.new
        /\ dir' \in {"absent", "abandoned"}
        /\ faults' = faults \/ faults' = faults + 1
        /\ UNCHANGED <<obj, starts, stale>>
    BY <1>1, <1>7 DEF RemoveDir, RemoveDirFails, Worker, observers
  <2>2. Base' = Base
    BY <2>1 DEF Base
  <2>3. Spent(obj.stored, Base) \in Nat /\ starts \in Nat /\ stale \in Nat
    BY HTypes DEF Spent
  <2>4. Excused \in Nat /\ (Excused' = Excused \/ Excused' = Excused + 1)
    BY <1>1, <2>1, <2>3 DEF Excused
  <2>5. obj.stored.exists => starts <= Spent(obj.stored, Base) + Excused
    BY <2>1 DEF HInv, Accounted
  <2>6. obj.stored.exists => starts <= Spent(obj.stored, Base) + Excused'
    BY <2>3, <2>4, <2>5
  <2>7. Accounted'
    BY <2>1, <2>2, <2>6 DEF Accounted
  <2>8. StartsBounded'
    BY <1>1, <2>1, HTypes DEF HInv, StartsBounded
  <2>9. History' /\ Attempt' /\ Kept' /\ Faithful'
    BY <2>1, <2>2 DEF HInv, History, Attempt, Kept, Faithful
  <2> QED
    BY <2>7, <2>8, <2>9 DEF HInv
<1>8. CASE PatchApplied
  BY <1>8, AppliedHistory DEF PatchApplied, StoreVersion, observers
<1>9. CASE PatchNotFound
  BY <1>9, AbandonedHistory DEF PatchNotFound, observers
<1>10. CASE \E applied \in BOOLEAN : PatchFails(applied)
  <2> PICK applied \in BOOLEAN : PatchFails(applied)
    BY <1>10
  <2>1. CASE applied /\ obj.stored.exists
    BY <2>1, AppliedHistory DEF PatchFails, StoreVersion, observers
  <2>2. CASE ~(applied /\ obj.stored.exists)
    BY <2>2, AbandonedHistory DEF PatchFails, observers
  <2> QED
    BY <2>1, <2>2
<1> QED
  BY <1>2, <1>4, <1>5, <1>6, <1>7, <1>8, <1>9, <1>10 DEF WorkerStep

LEMMA StepHistory ==
    ASSUME HInv, [Next]_vars
    PROVE  HInv'
<1>1. IInv'
  BY StepInv DEF HInv
<1>2. /\ obj \in Object(Playbook) /\ obj.stored \in Playbook /\ obj.cached \in Playbook
      /\ Chain(obj, Succession) /\ <<obj.cached, obj.cached>> \in Succession
      /\ starts \in Nat /\ faults \in Nat /\ stale \in Nat /\ BackoffLimit \in Nat
  BY HTypes, SuccessionOrder DEF HInv, History, Reflexive
<1>3. stale = 0 /\ dir = "present" => obj.stored.exists /\ obj.stored.finalizer
  BY DEF HInv, Kept
<1>4. CASE Reconcile
  BY <1>1, <1>4, ReconcileHistory
<1>5. CASE WorkerStep
  BY <1>1, <1>5, WorkerStepHistory
<1>6. CASE DeliverEvent
  <2>1. /\ UNCHANGED <<worker, dir, starts, faults, stale>>
        /\ Chain(obj', Succession) /\ <<obj.cached, obj'.cached>> \in Succession
        /\ obj'.stored = obj.stored
    BY <1>2, <1>6, DeliverChain, StoredVersion DEF DeliverEvent, observers
  <2> QED
    BY <1>1, <1>3, <2>1, OthersHistory DEF SameStatus
<1>7. CASE FireTimer \/ Tick \/ UNCHANGED vars
  <2>1. UNCHANGED <<obj, worker, dir, starts, faults, stale>>
    BY <1>7 DEF FireTimer, Tick, vars, observers
  <2> QED
    BY <1>1, <1>2, <1>3, <2>1, OthersHistory DEF SameStatus
<1>8. CASE Resync
  <2>1. UNCHANGED <<obj, worker, dir, starts, stale>> /\ faults' = faults + 1
    BY <1>8 DEF Resync, observers
  <2>2. Base' = Base /\ Excused' = Excused + 1 /\ Excused \in Nat
    BY <1>2, <2>1 DEF Base, Excused
  <2>3. Base.failed \in Nat /\ obj.stored.failed \in Nat
    BY HTypes
  <2>4. Spent(obj.stored, Base) \in Nat
    BY <2>3 DEF Spent
  <2>5. LET m == MergeStatus(obj.stored, worker.old, worker.new)
        IN  Spent(m, worker.old) \in Nat
    <3> DEFINE m == MergeStatus(obj.stored, worker.old, worker.new)
    <3>1. m \in Playbook
      BY HTypes DEF MergeStatus, Playbook
    <3>2. m.failed \in Nat
      BY <3>1 DEF Playbook
    <3> HIDE DEF m
    <3>3. Spent(m, worker.old) \in Nat
      BY <3>2 DEF Spent
    <3> QED
      BY <3>3 DEF m
  <2>6. Accounted'
    BY <1>2, <2>1, <2>2, <2>4, <2>5 DEF HInv, Accounted
  <2>7. StartsBounded'
    BY <1>2, <2>1 DEF HInv, StartsBounded
  <2>8. History' /\ Attempt' /\ Kept' /\ Faithful'
    BY <2>1, <2>2 DEF HInv, History, Attempt, Kept, Faithful
  <2> QED
    BY <1>1, <2>6, <2>7, <2>8 DEF HInv
<1>9. CASE RequestDelete
  <2> DEFINE v == IF obj.stored.finalizer
                    THEN [obj.stored EXCEPT !.deleting = TRUE] ELSE NoPlaybook
  <2>1. /\ obj' = Store(obj, v) /\ obj.stored.exists
        /\ UNCHANGED <<worker, dir, starts, faults, stale>>
    BY <1>9 DEF RequestDelete, StoreVersion, observers
  <2>2. /\ v \in Playbook
        /\ obj.stored.finalizer =>
            /\ v.exists = obj.stored.exists /\ v.finalizer
            /\ v.failed = obj.stored.failed /\ v.conditions = obj.stored.conditions
        /\ ~obj.stored.finalizer => ~v.exists
    BY <1>2, NoPlaybookGone DEF Playbook
  <2> HIDE DEF v
  <2>3. <<obj.stored, v>> \in Succession
    <3>1. obj.stored.failed \in Nat
      BY HTypes
    <3>2. v.exists => v.failed = obj.stored.failed
      BY <2>2
    <3>3. Later(obj.stored, v)
      BY <2>1, <3>1, <3>2 DEF Later
    <3> QED
      BY <1>2, <2>2, <3>3 DEF Succession
  <2>4. Chain(obj', Succession) /\ <<obj.cached, obj'.cached>> \in Succession
    BY <1>2, <2>1, <2>2, <2>3, StoreChain, SuccessionOrder
  <2>5. obj'.stored = v
    BY <2>1, StoredVersion
  <2> QED
    BY <1>1, <1>3, <2>1, <2>2, <2>4, <2>5, OthersHistory DEF SameStatus
<1>10. CASE Restart
  BY <1>1, <1>10, AbandonedHistory DEF Restart, observers
<1> QED
  BY <1>4, <1>5, <1>6, <1>7, <1>8, <1>9, <1>10 DEF Next

LEMMA HistoryInvariant == Spec => []HInv
<1>1. Init => HInv
  <2> SUFFICES ASSUME Init PROVE HInv
    OBVIOUS
  <2>1. IInv
    BY InitInv
  <2>2. /\ obj = Listed(NewPlaybook) /\ worker.step = "idle" /\ dir = "absent"
        /\ starts = 0 /\ faults = 0 /\ stale = 0
    BY DEF Init, Idle
  <2>3. Chain(obj, Succession) /\ Base = NewPlaybook /\ obj.stored = NewPlaybook
    BY <2>2, ListedChain DEF Listed, Base
  <2>4. NewPlaybook.failed = 0 /\ Spent(NewPlaybook, NewPlaybook) = 0
    BY DEF NewPlaybook, Spent
  <2>5. History /\ Attempt /\ Kept /\ Faithful
    BY <2>2, <2>3, <2>4 DEF History, Attempt, Kept, Faithful
  <2>6. Accounted /\ StartsBounded
    BY <2>2, <2>3, <2>4, BackoffLimitAssumption DEF Accounted, Excused, StartsBounded
  <2> QED
    BY <2>1, <2>5, <2>6 DEF HInv
<1>2. HInv /\ [Next]_vars => HInv'
  BY StepHistory
<1> QED
  BY <1>1, <1>2, PTL DEF Spec

\* ansible-playbook is started at most BackoffLimit times plus once for every
\* fault and every outdated read, for every limit and every lag.
THEOREM StartsAreBounded == Spec => []StartsBounded
<1>1. HInv => StartsBounded
  BY DEF HInv
<1> QED
  BY <1>1, HistoryInvariant, PTL

\* The directory goes before the object does, across crashes and failed calls.
THEOREM DirectoryGoesFirst == Spec => []DirRemovedWithObject
<1>1. HInv => DirRemovedWithObject
  BY DEF HInv, Kept, DirRemovedWithObject
<1> QED
  BY <1>1, HistoryInvariant, PTL


-----------------------------------------------------------------------------
(* The controller implements PlaybookLifecycle: every step is a step of the *)
(* abstract life of the Playbook or leaves it alone.                        *)

\* A patch of the status leaves a verdict alone, unless it is based on an
\* outdated copy.
LEMMA VerdictStands ==
    ASSUME HInv, Patching, obj.stored.exists, obj' = Store(obj, Patched(obj.stored)),
           UNCHANGED stale
    PROVE  [Lifecycle!LifecycleNext]_(Lifecycle!lifecycleVars)
<1> DEFINE s == obj.stored
           v == Patched(s)
<1>1. s \in Playbook /\ worker.old \in Playbook /\ worker.new \in Playbook /\ stale \in Nat
  BY HTypes
<1>2. obj'.stored = v
  BY StoredVersion
<1>3. CASE worker.step = "removeFinalizer"
  <2>1. v = NoPlaybook
    BY <1>3 DEF Patched
  <2>2. Verdict # "gone" /\ Verdict' = "gone" /\ ~obj'.stored.exists
    BY <1>2, <2>1, NoPlaybookGone DEF Verdict
  <2>3. Lifecycle!Vanish
    BY <2>2 DEF Lifecycle!Vanish
  <2> QED
    BY <2>3 DEF Lifecycle!LifecycleNext
<1>4. CASE worker.step = "addFinalizer"
  <2>1. v = [s EXCEPT !.finalizer = TRUE]
    BY <1>4 DEF Patched
  <2>2. v.exists = s.exists /\ v.deleting = s.deleting /\ v.conditions = s.conditions
    BY <1>1, <2>1 DEF Playbook
  <2>3. Verdict' = Verdict
    BY <1>2, <2>2 DEF Verdict
  <2> QED
    BY <1>2, <2>2, <2>3 DEF Lifecycle!lifecycleVars
<1>5. CASE worker.step = "patchStatus"
  <2>1. v = MergeStatus(s, worker.old, worker.new)
    BY <1>5 DEF Patched
  <2>2. /\ v.exists = s.exists /\ v.deleting = s.deleting
        /\ v.conditions = (IF worker.new.conditions # worker.old.conditions
                             THEN worker.new.conditions ELSE s.conditions)
    BY <1>1, <2>1 DEF MergeStatus, Playbook
  <2>3. stale = 0 /\ Terminal(s) => v.conditions = s.conditions
    <3> SUFFICES ASSUME stale = 0, Terminal(s) PROVE v.conditions = s.conditions
      OBVIOUS
    <3>1. s.conditions = worker.old.conditions
      BY <1>5 DEF HInv, Faithful, SameStatus
    <3>2. worker.new.conditions = worker.old.conditions
      BY <1>5, <3>1 DEF HInv, Attempt, Terminal
    <3> QED
      BY <2>2, <3>2
  <2>4. /\ Verdict \in {"active", "Succeeded", "Failed"}
        /\ Verdict' \in {"active", "Succeeded", "Failed"}
        /\ Verdict # "active" <=> Terminal(s)
    BY <1>2, <2>2 DEF Verdict, Terminal
  <2>5. UNCHANGED <<obj.stored.deleting \/ ~obj.stored.exists, stale = 0>>
    BY <1>2, <2>2
  <2>6. CASE Verdict' = Verdict
    BY <2>5, <2>6 DEF Lifecycle!lifecycleVars
  <2>7. CASE Verdict = "active" /\ Verdict' # Verdict
    <3>1. \E w \in Lifecycle!Verdicts : Lifecycle!Finish(w)
      BY <2>4, <2>5, <2>7 DEF Lifecycle!Finish, Lifecycle!Verdicts
    <3> QED
      BY <3>1 DEF Lifecycle!LifecycleNext
  <2>8. CASE Verdict # "active" /\ Verdict' # Verdict
    <3>1. v.conditions # s.conditions
      BY <1>2, <2>2, <2>8 DEF Verdict
    <3>2. stale # 0
      BY <2>3, <2>4, <2>8, <3>1
    <3>3. Lifecycle!Overrule
      BY <2>4, <2>5, <2>8, <3>2 DEF Lifecycle!Overrule, Lifecycle!Verdicts
    <3> QED
      BY <3>3 DEF Lifecycle!LifecycleNext
  <2> QED
    BY <2>6, <2>7, <2>8
<1> QED
  BY <1>3, <1>4, <1>5 DEF Patching

\* Every step of the controller and of its surroundings.
LEMMA LifecycleStep ==
    ASSUME HInv, [Next]_vars
    PROVE  [Lifecycle!LifecycleNext]_(Lifecycle!lifecycleVars)
<1>1. /\ obj.stored \in Playbook /\ stale \in Nat /\ worker.step \in Steps
  BY HTypes
<1>2. ASSUME obj'.stored = obj.stored, stale' = stale
      PROVE  UNCHANGED Lifecycle!lifecycleVars
  BY <1>2 DEF Lifecycle!lifecycleVars, Verdict
<1>3. CASE Reconcile
  <2>1. obj' = obj /\ (stale' = stale \/ stale' = stale + 1)
    BY <1>3 DEF Reconcile, ReconcileNotFound, ReconcileDelete, ReconcileAddFinalizer,
                ReconcileDone, ReconcileExceeded, ReconcileBackoff, ReconcilePending,
                ReconcileEnsureAnsible, ReconcileRun, Proceed, Begin
  <2>2. CASE stale' = stale \/ stale # 0
    <3>1. (stale' = 0) = (stale = 0)
      BY <1>1, <2>1, <2>2
    <3> QED
      BY <2>1, <3>1 DEF Lifecycle!lifecycleVars, Verdict
  <2>3. CASE stale' = stale + 1 /\ stale = 0
    <3>1. Lifecycle!Distrust
      BY <2>1, <2>3 DEF Lifecycle!Distrust, Verdict
    <3> QED
      BY <3>1 DEF Lifecycle!LifecycleNext
  <2> QED
    BY <2>1, <2>2, <2>3
<1>4. CASE WorkerStep
  <2>1. CASE PatchApplied
    BY <2>1, VerdictStands DEF PatchApplied, StoreVersion
  <2>2. CASE \E applied \in BOOLEAN : PatchFails(applied)
    <3> PICK applied \in BOOLEAN : PatchFails(applied)
      BY <2>2
    <3>1. CASE applied /\ obj.stored.exists
      BY <3>1, VerdictStands DEF PatchFails, StoreVersion
    <3>2. CASE ~(applied /\ obj.stored.exists)
      BY <1>2, <3>2 DEF PatchFails
    <3> QED
      BY <3>1, <3>2
  <2>3. CASE \/ EnsureAnsibleSucceeds \/ EnsureAnsibleFails \/ RunExitsZero \/ RunFails
             \/ RunTimesOut \/ RemoveDir \/ RemoveDirFails \/ PatchNotFound
    <3>1. obj' = obj /\ stale' = stale
      BY <2>3 DEF EnsureAnsibleSucceeds, EnsureAnsibleFails, RunExitsZero, RunFails,
                  RunTimesOut, FinishWith, RemoveDir, RemoveDirFails, PatchNotFound
    <3> QED
      BY <1>2, <3>1
  <2> QED
    BY <1>4, <2>1, <2>2, <2>3 DEF WorkerStep
<1>5. CASE DeliverEvent
  BY <1>2, <1>5, StoredVersion DEF DeliverEvent
<1>6. CASE FireTimer \/ Tick \/ Resync \/ UNCHANGED vars
  BY <1>2, <1>6 DEF FireTimer, Tick, Resync, vars
<1>7. CASE RequestDelete
  <2> DEFINE v == IF obj.stored.finalizer
                    THEN [obj.stored EXCEPT !.deleting = TRUE] ELSE NoPlaybook
  <2>1. /\ obj'.stored = v /\ obj.stored.exists /\ ~obj.stored.deleting
        /\ stale' = stale
    BY <1>7, StoredVersion DEF RequestDelete, StoreVersion
  <2>2. CASE obj.stored.finalizer
    <3>1. v.exists = obj.stored.exists /\ v.deleting /\ v.conditions = obj.stored.conditions
      BY <1>1, <2>2 DEF Playbook
    <3>2. Verdict' = Verdict /\ Verdict # "gone"
      BY <2>1, <3>1 DEF Verdict
    <3>3. Lifecycle!Ask
      BY <2>1, <3>1, <3>2 DEF Lifecycle!Ask
    <3> QED
      BY <3>3 DEF Lifecycle!LifecycleNext
  <2>3. CASE ~obj.stored.finalizer
    <3>1. ~v.exists
      BY <2>3, NoPlaybookGone
    <3>2. Verdict' = "gone" /\ Verdict # "gone"
      BY <2>1, <3>1 DEF Verdict
    <3>3. Lifecycle!Vanish
      BY <2>1, <3>1, <3>2 DEF Lifecycle!Vanish
    <3> QED
      BY <3>3 DEF Lifecycle!LifecycleNext
  <2> QED
    BY <2>2, <2>3
<1>8. CASE Restart
  BY <1>2, <1>8, StoredVersion DEF Restart
<1> QED
  BY <1>3, <1>4, <1>5, <1>6, <1>7, <1>8 DEF Next

\* The Playbook controller implements the abstract life of a Playbook, for every
\* limit, lag and number of faults: a verdict stands and a removed object stays
\* away unless the controller has acted on an outdated copy.
THEOREM LifecycleImplemented == Spec => ImplementsLifecycle
<1>1. Init => Lifecycle!LifecycleInit
  <2> SUFFICES ASSUME Init PROVE Lifecycle!LifecycleInit
    OBVIOUS
  <2>1. obj.stored = NewPlaybook /\ stale = 0
    BY DEF Init, Listed
  <2>2. /\ obj.stored.exists /\ ~obj.stored.deleting
        /\ obj.stored.conditions.execution # "True" /\ ~obj.stored.conditions.failed
    <3>1. /\ NewPlaybook.exists = TRUE /\ NewPlaybook.deleting = FALSE
          /\ NewPlaybook.conditions = [execution |-> "absent", failed |-> FALSE]
      BY DEF NewPlaybook
    <3> QED
      BY <2>1, <3>1
  <2>3. Verdict = "active"
    BY <2>2 DEF Verdict
  <2>4. (obj.stored.deleting \/ ~obj.stored.exists) = FALSE /\ (stale = 0) = TRUE
    BY <2>1, <2>2
  <2> QED
    BY <2>3, <2>4 DEF Lifecycle!LifecycleInit
<1>2. HInv /\ [Next]_vars => [Lifecycle!LifecycleNext]_(Lifecycle!lifecycleVars)
  BY LifecycleStep
<1> QED
  BY <1>1, <1>2, HistoryInvariant, PTL DEF Spec, ImplementsLifecycle, Lifecycle!LifecycleSpec

=============================================================================
