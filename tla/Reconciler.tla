----------------------------- MODULE Reconciler -----------------------------
(***************************************************************************)
(* What the provider's controllers share: one object of interest, its key  *)
(* in the work queue, and a reconcile that reads the informer's copy,      *)
(* works on it and ends with the deferred patchHelper.Patch.               *)
(*                                                                         *)
(* The patch helper of Cluster API compares the object with the copy it    *)
(* was given first, and sends what has changed in up to three calls: the   *)
(* conditions, the object itself (metadata and spec), the status.  Each    *)
(* call is attempted whatever became of the others, so any part of a patch *)
(* may be lost alone.                                                      *)
(*                                                                         *)
(* controller-runtime and Cluster API are not part of the repository.      *)
(***************************************************************************)
EXTENDS Informer, FiniteSets

CONSTANT MaxTrouble     \* bound on faults, outdated reads and changes, together

ASSUME MaxTroubleAssumption == MaxTrouble \in Nat

VARIABLES
    obj,        \* the object: stored, cached, undelivered events
    dirty,      \* its key is in the work queue, or on its way by a RequeueAfter
                \* or a retry
    work,       \* the reconcile in progress: the copy read, the object to patch
    faults,     \* observer: failed calls and restarts so far
    stale,      \* observer: reconciles that have read an outdated copy
    changes     \* observer: changes of the surroundings so far

queue == <<obj, dirty, work, faults, stale, changes>>

Trouble == faults + stale + changes

Idle == [busy |-> FALSE]

Work(V) == {Idle} \cup [busy : {TRUE}, old : V, new : V]

QueueInit(v) ==
    /\ obj = Listed(v)
    /\ dirty = TRUE
    /\ work = Idle
    /\ faults = 0
    /\ stale = 0
    /\ changes = 0

QueueTypeOK(V) ==
    /\ obj \in Object(V)
    /\ dirty \in BOOLEAN
    /\ work \in Work(V)
    /\ Trouble \in 0 .. MaxTrouble

\* The worker takes the key and reads the copy, and other objects; fresh says that
\* the copies of those are current.
Begin(fresh) ==
    /\ ~work.busy
    /\ dirty
    /\ (Current(obj) /\ fresh) \/ Trouble < MaxTrouble
    /\ stale' = IF Current(obj) /\ fresh THEN stale ELSE stale + 1

\* The reconcile ends with v to be patched.  The key comes back by itself (an
\* error, RequeueAfter) if again holds, otherwise only by an event.
EndWith(fresh, v, again) ==
    /\ Begin(fresh)
    /\ work' = [busy |-> TRUE, old |-> obj.cached, new |-> v]
    /\ dirty' = again
    /\ UNCHANGED <<obj, faults, changes>>

\* The same after a call that has failed.
EndFaulty(fresh, v) ==
    /\ Begin(fresh)
    /\ Trouble < MaxTrouble
    /\ Current(obj) /\ fresh
    /\ work' = [busy |-> TRUE, old |-> obj.cached, new |-> v]
    /\ dirty' = TRUE
    /\ faults' = faults + 1
    /\ UNCHANGED <<obj, changes>>

\* The reconcile ends before a patch helper exists.
EndEarly(again) ==
    /\ Begin(TRUE)
    /\ dirty' = again
    /\ UNCHANGED <<obj, work, faults, changes>>

\* Only what the reconcile has changed in its copy is written; an object that is
\* being deleted goes with its finalizer.
Merged(cur, fields) ==
    LET v == [f \in DOMAIN cur |->
                IF f \in fields /\ work.new[f] # work.old[f] THEN work.new[f] ELSE cur[f]]
    IN  IF v.deleting /\ ~v.finalizer THEN [v EXCEPT !.exists = FALSE] ELSE v

StorePatch(fields) ==
    LET v == Merged(obj.stored, fields) IN
    /\ obj' = IF obj.stored.exists THEN Store(obj, v) ELSE obj
    /\ work' = Idle

\* parts gives the fields that each of the calls writes.  A patch of an object
\* that has gone is not an error.
PatchApplied(parts) ==
    LET fields == UNION {parts[c] : c \in DOMAIN parts} IN
    /\ work.busy
    /\ StorePatch(fields)
    /\ dirty' = (dirty \/ (obj.stored.exists /\ Overflows(obj, Merged(obj.stored, fields))))
    /\ UNCHANGED <<faults, stale, changes>>

\* Only the calls in done get through; the reconcile returns the error.
PatchFails(parts, done) ==
    /\ work.busy
    /\ Trouble < MaxTrouble
    /\ StorePatch(UNION {parts[c] : c \in done})
    /\ dirty' = TRUE
    /\ faults' = faults + 1
    /\ UNCHANGED <<stale, changes>>

DeliverEvent ==
    /\ ~Current(obj)
    /\ obj' = Deliver(obj)
    /\ dirty' = TRUE
    /\ UNCHANGED <<work, faults, stale, changes>>

\* Another client writes the object.
StoreObject(v) ==
    /\ obj' = Store(obj, v)
    /\ dirty' = (dirty \/ Overflows(obj, v))

RequestDelete ==
    /\ obj.stored.exists /\ ~obj.stored.deleting
    /\ StoreObject(IF obj.stored.finalizer THEN [obj.stored EXCEPT !.deleting = TRUE]
                   ELSE [obj.stored EXCEPT !.deleting = TRUE, !.exists = FALSE])
    /\ UNCHANGED <<work, faults, stale, changes>>

\* The surroundings change and, if wakes holds, an event of theirs brings the key
\* back (map functions list the copies).
Change(wakes) ==
    /\ Trouble < MaxTrouble
    /\ changes' = changes + 1
    /\ dirty' = (dirty \/ (wakes /\ obj.cached.exists))
    /\ UNCHANGED <<obj, work, faults, stale>>

\* The manager's pod stops, between any two calls, and starts again.
Restart ==
    /\ Trouble < MaxTrouble
    /\ faults' = faults + 1
    /\ obj' = Listed(obj.stored)
    /\ dirty' = obj.stored.exists
    /\ work' = Idle
    /\ UNCHANGED <<stale, changes>>
=============================================================================
