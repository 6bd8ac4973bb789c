-------------------------- MODULE AgentKeys_proofs --------------------------
(***************************************************************************)
(* The keys of an agent, as MCAgents runs them: whatever is renewed, fails *)
(* or restarts, the host of an installed agent can be reached with the     *)
(* active keys, for every number of renewals and troubles and every lag.   *)
(***************************************************************************)
EXTENDS MCAgents, Informer_proofs, TLAPS

Parts == {"agent", "group", "install", "daemon", "files", "start"}

\* A step is one of the part in focus, and the focus stays.
LEMMA PartSteps ==
    ASSUME focus \in Parts, [Next]_vars
    PROVE  /\ focus' = focus
           /\ focus = "agent" => [KA!Next]_(KA!vars)
           /\ focus = "group" => [KG!Next]_(KG!vars)
           /\ focus = "install" => [AI!Next]_(AI!vars)
           /\ focus = "daemon" => [AD!Next]_(AD!vars)
           /\ focus = "files" => [FR!Next]_(FR!vars)
           /\ focus = "start" => [ST!Next]_(ST!vars)
<1>1. CASE UNCHANGED vars
  BY <1>1 DEF vars, queue, keys, installation, process, storage, start,
              KA!vars, KA!queue, KA!surroundings, KG!vars, KG!queue, AI!vars, AD!vars,
              FR!vars, ST!vars
<1>2. CASE Next
  BY <1>2 DEF Next, InKA, InKG, InAI, InAD, InFR, InST
<1> QED
  BY <1>1, <1>2

\* The agent's view of the informer is the module Informer.
LEMMA KeysInformer ==
    /\ \A o, v : KA!Store(o, v) = Store(o, v) /\ KA!Overflows(o, v) = Overflows(o, v)
    /\ \A o : KA!Deliver(o) = Deliver(o) /\ KA!Current(o) = Current(o)
    /\ \A v : KA!Listed(v) = Listed(v)
    /\ \A V : KA!Object(V) = Object(V)
<1>1. \A o, v : KA!Store(o, v) = Store(o, v) /\ KA!Overflows(o, v) = Overflows(o, v)
  BY DEF KA!Store, Store, KA!Overflows, Overflows, KA!Changes, Changes
<1>2. \A o : KA!Deliver(o) = Deliver(o) /\ KA!Current(o) = Current(o)
  BY DEF KA!Deliver, Deliver, KA!Current, Current
<1>3. \A v : KA!Listed(v) = Listed(v)
  BY DEF KA!Listed, Listed
<1>4. \A V : KA!Object(V) = Object(V)
  BY DEF KA!Object, Object
<1> QED
  BY <1>1, <1>2, <1>3, <1>4

-----------------------------------------------------------------------------
(* The invariant *)

Hosted == KA!Agent

\* The versions that s may have come after: an agent that is being deleted, or installed,
\* stays so.
Earlier(s) ==
    {v \in Hosted : (v.deleting => s.deleting) /\ (v.installed => s.installed)}

Queued ==
    /\ obj \in Object(Earlier(obj.stored)) /\ Coherent(obj) /\ dirty \in BOOLEAN
    /\ work \in KA!Work(Hosted)
    /\ work.busy /\ work.old.installed => work.new.installed

Bounded ==
    /\ faults \in Nat /\ stale \in Nat /\ changes \in Nat
    /\ faults + stale + changes <= KeysTrouble

\* Nothing is in use that was not issued, and the key of the host is not newer than its
\* certificate: they are uploaded in this order.
Keyed ==
    /\ issued \in KA!Pair /\ issued.client # 0
    /\ cert = "ready" <=> issued.tls # 0
    /\ active \in [stored : KA!Pair, cached : KA!Pair]
    /\ holder \in KA!Pair /\ host \in KA!Host /\ rotates \in BOOLEAN
    /\ probe \in [on : BOOLEAN, result : {"none", "True", "False"}]
    /\ active.cached.tls <= issued.tls /\ active.stored.tls <= issued.tls
    /\ host.key <= host.crt /\ host.crt <= issued.tls

\* The agent counts as installed, or is about to.
Counts == obj.stored.installed \/ (work.busy /\ work.new.installed)

Live == obj.stored.exists /\ ~obj.stored.deleting

Known(pair) == pair.tls # 0 /\ pair.client # 0

\* The active keys open the daemon, now or when it has loaded its files, but for the pairs
\* whose rotation or installation went wrong.
Served == "tls" \in unlucky \/ KA!CA(active.stored.tls) = KA!CA(KA!Loadable)
Trusted == "client" \in unlucky \/ KA!CA(active.stored.client) = KA!CA(host.ca)
Open == KA!Torn \/ (host.up /\ Served /\ Trusted)

Reached ==
    Counts => /\ Known(active.cached) /\ Known(active.stored) /\ "ssh" \in given
              /\ "secret" \in given
              /\ Live => Open

KInv == Queued /\ Bounded /\ Keyed /\ Reached

LEMMA HostedTypes ==
    ASSUME Queued
    PROVE  /\ obj \in Object(Hosted)
           /\ obj.stored \in Hosted /\ obj.cached \in Hosted
           /\ obj.cached.deleting => obj.stored.deleting
           /\ obj.cached.installed => obj.stored.installed
           /\ obj.cached.exists \in BOOLEAN /\ obj.cached.installed \in BOOLEAN
           /\ obj.stored.exists \in BOOLEAN
           /\ Current(obj) => obj.cached = obj.stored
           /\ work.busy => work.old \in Hosted /\ work.new \in Hosted
           /\ work.busy \in BOOLEAN
<1>1. Earlier(obj.stored) \subseteq Hosted
  BY DEF Earlier
<1>2. obj \in Object(Hosted)
  BY <1>1, ObjectGrows DEF Queued
<1>3. obj.cached \in Earlier(obj.stored) /\ obj.stored \in Hosted
  BY <1>1 DEF Queued, Object
<1>4. Current(obj) => obj.cached = obj.stored
  BY DEF Queued, Coherent, Current
<1>5. /\ work.busy => work.old \in Hosted /\ work.new \in Hosted
      /\ work.busy \in BOOLEAN
  <2>1. CASE work = [busy |-> FALSE]
    BY <2>1
  <2>2. CASE work \in [busy : {TRUE}, old : Hosted, new : Hosted]
    BY <2>2
  <2> QED
    BY <2>1, <2>2 DEF Queued, KA!Work, KA!Idle
<1>6. obj.cached.exists \in BOOLEAN /\ obj.cached.installed \in BOOLEAN
      /\ obj.stored.exists \in BOOLEAN
  BY <1>1, <1>3 DEF Hosted, KA!Agent
<1> QED
  BY <1>1, <1>2, <1>3, <1>4, <1>5, <1>6 DEF Earlier

-----------------------------------------------------------------------------
(* What a reconcile makes of its copy *)

\* reconcilePhase
LEMMA Phased ==
    ASSUME NEW v \in Hosted
    PROVE  /\ [v EXCEPT !.phase = KA!Phase(v)] \in Hosted
           /\ [v EXCEPT !.phase = KA!Phase(v)].installed = v.installed
<1>1. KA!Phase(v) \in KA!Phases
  BY DEF KA!Phase, KA!Phases, Hosted, KA!Agent
<1> HIDE DEF KA!Phase
<1> QED
  BY <1>1 DEF Hosted, KA!Agent

LEMMA ProbedAgent ==
    ASSUME Queued, Keyed
    PROVE  /\ KA!Probed \in Hosted /\ KA!Probed.installed = obj.cached.installed
           /\ KA!HasCert \in Hosted /\ KA!HasCert.installed = obj.cached.installed
           /\ KA!Running \in Hosted /\ KA!Running.installed = obj.cached.installed
<1>1. obj.cached \in Hosted /\ probe.result \in {"none", "True", "False"}
  BY HostedTypes DEF Keyed
<1>2. KA!Probed \in Hosted /\ KA!Probed.installed = obj.cached.installed
  BY <1>1 DEF KA!Probed, Hosted, KA!Agent, KA!Condition
<1>3. KA!HasCert \in Hosted /\ KA!HasCert.installed = obj.cached.installed
  BY <1>2 DEF KA!HasCert, Hosted, KA!Agent, KA!Condition
<1>4. KA!Running \in Hosted /\ KA!Running.installed = obj.cached.installed
  BY <1>3 DEF KA!Running, Hosted, KA!Agent, KA!Condition
<1> QED
  BY <1>2, <1>3, <1>4

\* A reconcile has ended with w to be patched.
Ending(w) ==
    /\ Queued' /\ Bounded' /\ UNCHANGED obj /\ ~work.busy
    /\ work'.busy /\ work'.new = w

LEMMA EndsWith ==
    ASSUME Queued, Bounded, NEW v \in Hosted, obj.cached.installed => v.installed,
           NEW again \in BOOLEAN, KA!Ended(v, again)
    PROVE  Ending([v EXCEPT !.phase = KA!Phase(v)])
<1> DEFINE w == [v EXCEPT !.phase = KA!Phase(v)]
<1>1. w \in Hosted /\ w.installed = v.installed
  BY Phased
<1>2. /\ work' = [busy |-> TRUE, old |-> obj.cached, new |-> w] /\ dirty' = again
      /\ UNCHANGED <<obj, faults, changes>> /\ ~work.busy
      /\ stale' = stale \/ (stale' = stale + 1 /\ faults + stale + changes < KeysTrouble)
  BY DEF KA!Ended, KA!EndWith, KA!Begin, KA!Trouble
<1> HIDE DEF w
<1>3. work' \in KA!Work(Hosted) /\ work'.busy /\ work'.old = obj.cached /\ work'.new = w
  BY <1>1, <1>2, HostedTypes DEF KA!Work
<1>4. Bounded'
  BY <1>2, BoundsAssumption DEF Bounded
<1>5. Queued'
  BY <1>1, <1>2, <1>3 DEF Queued
<1> QED
  BY <1>2, <1>3, <1>4, <1>5 DEF Ending, w

LEMMA EndsFaulty ==
    ASSUME Queued, Bounded, NEW v \in Hosted, obj.cached.installed => v.installed, KA!Failed(v)
    PROVE  /\ Ending([v EXCEPT !.phase = KA!Phase(v)])
           /\ obj.cached = obj.stored /\ active.stored = active.cached
<1> DEFINE w == [v EXCEPT !.phase = KA!Phase(v)]
<1>1. w \in Hosted /\ w.installed = v.installed
  BY Phased
<1>2. /\ work' = [busy |-> TRUE, old |-> obj.cached, new |-> w] /\ dirty' = TRUE
      /\ UNCHANGED <<obj, changes>> /\ ~work.busy /\ Current(obj) /\ KA!Fresh
      /\ stale' = stale /\ faults' = faults + 1 /\ faults + stale + changes < KeysTrouble
  BY KeysInformer DEF KA!Failed, KA!EndFaulty, KA!Begin, KA!Trouble
<1> HIDE DEF w
<1>3. work' \in KA!Work(Hosted) /\ work'.busy /\ work'.old = obj.cached /\ work'.new = w
  BY <1>1, <1>2, HostedTypes DEF KA!Work
<1>4. Bounded'
  BY <1>2, BoundsAssumption DEF Bounded
<1>5. Queued'
  BY <1>1, <1>2, <1>3 DEF Queued
<1> QED
  BY <1>2, <1>3, <1>4, <1>5, HostedTypes DEF Ending, w, KA!Fresh

-----------------------------------------------------------------------------
(* The object *)

\* What happens to the object, but for an installation, makes it count as installed no
\* earlier than before, and brings no agent back.
ObjectMoves ==
    /\ Queued' /\ Bounded'
    /\ Counts' => Counts
    /\ Live' => Live

LEMMA EndingMoves ==
    ASSUME Queued, NEW w, Ending(w), w.installed = obj.cached.installed
    PROVE  ObjectMoves
BY HostedTypes DEF Ending, ObjectMoves, Counts, Live

LEMMA Stored ==
    ASSUME Queued, NEW v \in Hosted, obj.stored.deleting => v.deleting,
           obj.stored.installed => v.installed
    PROVE  /\ Store(obj, v) \in Object(Earlier(v)) /\ Coherent(Store(obj, v))
           /\ Store(obj, v).stored = v
<1>1. v \in Earlier(v) /\ Earlier(obj.stored) \subseteq Earlier(v)
  BY DEF Earlier
<1>2. obj \in Object(Earlier(v))
  BY <1>1, ObjectGrows DEF Queued
<1> QED
  BY <1>1, <1>2, StoreType, StoreCoherent, StoredVersion DEF Queued

\* The fields of an agent; those that a patch may write.
HostedFields ==
    {"exists", "deleting", "finalizer", "installed", "label", "tls", "inst", "health",
     "info", "failed", "phase"}

Written ==
    {"tls", "inst", "health", "finalizer", "installed", "info", "failed", "phase"}

LEMMA WrittenFields ==
    /\ UNION {KA!Calls[c] : c \in DOMAIN KA!Calls} \subseteq Written
    /\ \A done \in SUBSET DOMAIN KA!Calls : UNION {KA!Calls[c] : c \in done} \subseteq Written
BY DEF KA!Calls, Written

\* A patch of an agent.
LEMMA MergedAgent ==
    ASSUME Queued, work.busy, NEW F, F \subseteq Written
    PROVE  LET m == KA!Merged(obj.stored, F)
           IN  /\ m \in Hosted /\ m.deleting = obj.stored.deleting
               /\ m.exists => obj.stored.exists
               /\ obj.stored.installed => m.installed
               /\ m.installed => obj.stored.installed \/ work.new.installed
<1> DEFINE c == obj.stored
           v == [f \in DOMAIN c |->
                    IF f \in F /\ work.new[f] # work.old[f] THEN work.new[f] ELSE c[f]]
<1>1. /\ c \in Hosted /\ work.new \in Hosted /\ work.old \in Hosted
      /\ work.old.installed => work.new.installed
  BY HostedTypes DEF Queued
<1>2. DOMAIN c = HostedFields
  BY <1>1 DEF Hosted, KA!Agent, HostedFields
<1>3. \A f \in HostedFields : v[f] = IF f \in F /\ work.new[f] # work.old[f] THEN work.new[f]
                                   ELSE c[f]
  BY <1>2
<1>4. v = [exists |-> v["exists"], deleting |-> v["deleting"], finalizer |-> v["finalizer"],
           installed |-> v["installed"], label |-> v["label"], tls |-> v["tls"],
           inst |-> v["inst"], health |-> v["health"], info |-> v["info"],
           failed |-> v["failed"], phase |-> v["phase"]]
  BY <1>2 DEF HostedFields
<1>5. /\ v["exists"] \in BOOLEAN /\ v["deleting"] \in BOOLEAN /\ v["finalizer"] \in BOOLEAN
      /\ v["installed"] \in BOOLEAN /\ v["label"] \in BOOLEAN /\ v["tls"] \in KA!Condition
      /\ v["inst"] \in KA!Condition /\ v["health"] \in KA!Condition /\ v["info"] \in BOOLEAN
      /\ v["failed"] \in BOOLEAN /\ v["phase"] \in KA!Phases
  BY <1>1, <1>3 DEF Hosted, KA!Agent, HostedFields
<1>6. v \in Hosted
  BY <1>4, <1>5 DEF Hosted, KA!Agent
<1>7. "exists" \notin F /\ "deleting" \notin F
  BY DEF Written
<1>8. /\ v.exists = c.exists /\ v.deleting = c.deleting
      /\ c.installed => v.installed
      /\ v.installed => c.installed \/ work.new.installed
  <2>1. v["exists"] = c["exists"] /\ v["deleting"] = c["deleting"]
    BY <1>3, <1>7 DEF HostedFields
  <2>2. v["installed"] = IF "installed" \in F /\ work.new["installed"] # work.old["installed"]
                         THEN work.new["installed"] ELSE c["installed"]
    BY <1>3 DEF HostedFields
  <2>3. work.new.installed \in BOOLEAN /\ work.old.installed \in BOOLEAN
        /\ c.installed \in BOOLEAN
    BY <1>1 DEF Hosted, KA!Agent
  <2> QED
    BY <1>1, <1>4, <2>1, <2>2, <2>3
<1>9. KA!Merged(c, F) = IF v.deleting /\ ~v.finalizer THEN [v EXCEPT !.exists = FALSE] ELSE v
  BY DEF KA!Merged
<1> HIDE DEF v
<1>10. LET x == [v EXCEPT !.exists = FALSE]
       IN  /\ x \in Hosted /\ ~x.exists /\ x.deleting = v.deleting
           /\ x.installed = v.installed
  BY <1>6 DEF Hosted, KA!Agent
<1> QED
  BY <1>6, <1>8, <1>9, <1>10

\* The deferred patch, whole or in part.
LEMMA PatchMoves ==
    ASSUME Queued, Bounded, KA!Patch \/ KA!PatchPartly
    PROVE  ObjectMoves
<1>1. PICK F : /\ F \subseteq Written
               /\ work.busy /\ KA!StorePatch(F) /\ dirty' \in BOOLEAN /\ Bounded'
  <2>1. CASE KA!Patch
    <3> DEFINE F == UNION {KA!Calls[c] : c \in DOMAIN KA!Calls}
    <3>1. /\ work.busy /\ KA!StorePatch(F) /\ UNCHANGED <<faults, stale, changes>>
          /\ dirty' = (dirty \/ (obj.stored.exists
                                    /\ KA!Overflows(obj, KA!Merged(obj.stored, F))))
      BY <2>1 DEF KA!Patch, KA!PatchApplied
    <3>2. dirty' \in BOOLEAN
      BY <3>1 DEF Queued
    <3>3. Bounded'
      BY <3>1 DEF Bounded
    <3> QED
      BY <3>1, <3>2, <3>3, WrittenFields
  <2>2. CASE KA!PatchPartly
    <3>1. PICK done \in SUBSET DOMAIN KA!Calls :
            /\ work.busy /\ KA!StorePatch(UNION {KA!Calls[c] : c \in done})
            /\ dirty' = TRUE /\ faults' = faults + 1 /\ UNCHANGED <<stale, changes>>
            /\ faults + stale + changes < KeysTrouble
      BY <2>2 DEF KA!PatchPartly, KA!PatchFails, KA!Trouble
    <3>2. Bounded'
      BY <3>1, BoundsAssumption DEF Bounded
    <3> QED
      BY <3>1, <3>2, WrittenFields
  <2> QED
    BY <2>1, <2>2
<1> DEFINE m == KA!Merged(obj.stored, F)
<1>2. /\ m \in Hosted /\ m.deleting = obj.stored.deleting
      /\ m.exists => obj.stored.exists
      /\ obj.stored.installed => m.installed
      /\ m.installed => obj.stored.installed \/ work.new.installed
  BY <1>1, MergedAgent
<1>3. /\ obj' = IF obj.stored.exists THEN Store(obj, m) ELSE obj
      /\ work' = [busy |-> FALSE]
  BY <1>1, KeysInformer DEF KA!StorePatch, KA!Idle
<1> HIDE DEF m
<1>4. work' \in KA!Work(Hosted) /\ ~work'.busy
  BY <1>3 DEF KA!Work, KA!Idle
<1>5. /\ obj' \in Object(Earlier(obj'.stored)) /\ Coherent(obj')
      /\ obj'.stored = obj.stored \/ obj'.stored = m
  <2>1. CASE obj.stored.exists
    BY <1>2, <1>3, <2>1, Stored
  <2>2. CASE ~obj.stored.exists
    BY <1>3, <2>2 DEF Queued
  <2> QED
    BY <2>1, <2>2
<1>6. Queued'
  BY <1>1, <1>4, <1>5 DEF Queued
<1>7. (Counts' => Counts) /\ (Live' => Live)
  BY <1>1, <1>2, <1>4, <1>5 DEF Counts, Live
<1> QED
  BY <1>1, <1>6, <1>7 DEF ObjectMoves

\* Another client writes the object; an event of it is delivered; it stays as it is; the
\* manager lists it after a restart.
LEMMA StoreMoves ==
    ASSUME Queued, Bounded', NEW v \in Hosted, UNCHANGED work, KA!StoreObject(v),
           obj.stored.deleting => v.deleting, v.installed = obj.stored.installed,
           v.exists => obj.stored.exists
    PROVE  ObjectMoves
<1>1. obj' = Store(obj, v) /\ dirty' \in BOOLEAN
  BY KeysInformer DEF KA!StoreObject, Queued
<1>2. obj' \in Object(Earlier(obj'.stored)) /\ Coherent(obj') /\ obj'.stored = v
  BY <1>1, Stored
<1>3. Queued'
  BY <1>1, <1>2 DEF Queued
<1> QED
  BY <1>2, <1>3 DEF ObjectMoves, Counts, Live

LEMMA ObjectStays ==
    ASSUME Queued, Bounded', UNCHANGED <<obj, work>>, dirty' \in BOOLEAN
    PROVE  ObjectMoves
BY DEF ObjectMoves, Queued, Counts, Live

LEMMA EventMoves ==
    ASSUME Queued, Bounded, KA!DeliverEvent
    PROVE  ObjectMoves
<1>1. /\ ~Current(obj) /\ obj' = Deliver(obj) /\ dirty' = TRUE
      /\ UNCHANGED <<work, faults, stale, changes>>
  BY KeysInformer DEF KA!DeliverEvent
<1>2. obj' \in Object(Earlier(obj.stored)) /\ Coherent(obj') /\ obj'.stored = obj.stored
  BY <1>1, DeliverType, DeliverCoherent, StoredVersion DEF Queued
<1>3. Queued' /\ Bounded'
  BY <1>1, <1>2 DEF Queued, Bounded
<1> QED
  BY <1>1, <1>2, <1>3 DEF ObjectMoves, Counts, Live

LEMMA RestartMoves ==
    ASSUME Queued, Bounded, KA!Restart
    PROVE  ObjectMoves
<1>1. /\ obj' = Listed(obj.stored) /\ dirty' = obj.stored.exists /\ work' = [busy |-> FALSE]
      /\ faults' = faults + 1 /\ UNCHANGED <<stale, changes>>
      /\ faults + stale + changes < KeysTrouble
  BY KeysInformer DEF KA!Restart, KA!Idle, KA!Trouble
<1>2. obj.stored \in Earlier(obj.stored)
  BY HostedTypes DEF Earlier
<1>3. obj' \in Object(Earlier(obj.stored)) /\ Coherent(obj') /\ obj'.stored = obj.stored
  BY <1>1, <1>2, ListedType, ListedCoherent, StoredVersion
<1>4. work' \in KA!Work(Hosted) /\ ~work'.busy
  BY <1>1 DEF KA!Work, KA!Idle
<1>5. Queued'
  BY <1>1, <1>3, <1>4, HostedTypes DEF Queued
<1>6. Bounded'
  BY <1>1, BoundsAssumption DEF Bounded
<1> QED
  BY <1>3, <1>4, <1>5, <1>6 DEF ObjectMoves, Counts, Live

LEMMA ChangeMoves ==
    ASSUME Queued, Bounded, NEW wakes, KA!Change(wakes)
    PROVE  ObjectMoves
<1>1. /\ faults + stale + changes < KeysTrouble /\ changes' = changes + 1
      /\ dirty' = (dirty \/ (wakes /\ obj.cached.exists))
      /\ UNCHANGED <<obj, work, faults, stale>>
  BY DEF KA!Change, KA!Trouble
<1>2. Bounded'
  BY <1>1, BoundsAssumption DEF Bounded
<1>3. dirty' \in BOOLEAN
  BY <1>1
<1> QED
  BY <1>1, <1>2, <1>3, ObjectStays

\* A reconcile, but for an installation that succeeds.
LEMMA ReconcileMoves ==
    ASSUME Queued, Bounded, Keyed, KA!Reconcile, ~KA!ReconcileInstall
    PROVE  ObjectMoves
<1> DEFINE P == KA!Probed
           H == KA!HasCert
           R == KA!Running
           i == obj.cached.installed
<1>1. P \in Hosted /\ H \in Hosted /\ R \in Hosted
      /\ P.installed = i /\ H.installed = i /\ R.installed = i
  BY ProbedAgent
<1>2. CASE KA!ReconcileNotFound
  <2>1. /\ dirty' = FALSE /\ UNCHANGED <<obj, work, faults, changes>>
        /\ stale' = stale \/ (stale' = stale + 1 /\ faults + stale + changes < KeysTrouble)
    BY <1>2 DEF KA!ReconcileNotFound, KA!EndEarly, KA!Begin, KA!Trouble
  <2>2. Bounded'
    BY <2>1, BoundsAssumption DEF Bounded
  <2> QED
    BY <2>1, <2>2, ObjectStays
<1>3. CASE ~KA!ReconcileNotFound
  <2>1. \E v \in Hosted, again \in BOOLEAN :
            v.installed = i /\ (KA!Ended(v, again) \/ KA!Failed(v))
    <3> HIDE DEF P, H, R, i
    <3>1. \A c \in KA!Condition :
            /\ [P EXCEPT !.finalizer = TRUE] \in Hosted
            /\ [P EXCEPT !.finalizer = TRUE].installed = i
            /\ [P EXCEPT !.finalizer = FALSE] \in Hosted
            /\ [P EXCEPT !.finalizer = FALSE].installed = i
            /\ [P EXCEPT !.tls = c] \in Hosted /\ [P EXCEPT !.tls = c].installed = i
            /\ [P EXCEPT !.tls = c, !.inst = "False"] \in Hosted
            /\ [P EXCEPT !.tls = c, !.inst = "False"].installed = i
      BY <1>1 DEF Hosted, KA!Agent, KA!Condition
    <3>2. /\ [H EXCEPT !.inst = "False"] \in Hosted /\ [H EXCEPT !.inst = "False"].installed = i
          /\ [H EXCEPT !.info = FALSE, !.failed = TRUE, !.inst = "False"] \in Hosted
          /\ [H EXCEPT !.info = FALSE, !.failed = TRUE, !.inst = "False"].installed = i
      BY <1>1 DEF Hosted, KA!Agent, KA!Condition
    <3>3. /\ [R EXCEPT !.info = FALSE] \in Hosted /\ [R EXCEPT !.info = FALSE].installed = i
          /\ [R EXCEPT !.info = TRUE] \in Hosted /\ [R EXCEPT !.info = TRUE].installed = i
      BY <1>1 DEF Hosted, KA!Agent
    <3>4. "False" \in KA!Condition /\ P.tls \in KA!Condition
      BY <1>1 DEF KA!Condition, Hosted, KA!Agent
    <3>5. TRUE \in BOOLEAN /\ FALSE \in BOOLEAN /\ ("ssh" \in given) \in BOOLEAN
      OBVIOUS
    <3>6. CASE KA!ReconcileAddFinalizer \/ KA!ReconcileNoIssuer
      BY <3>1, <3>4, <3>5, <3>6 DEF KA!ReconcileAddFinalizer, KA!ReconcileNoIssuer, P
    <3>7. CASE KA!ReconcileCertificate
      <4>1. \E c \in KA!Condition : KA!Ended([P EXCEPT !.tls = c, !.inst = "False"],
                                             "ssh" \in given)
        <5>1. KA!Ended([P EXCEPT !.tls = IF cert = "absent" THEN @ ELSE "False",
                                 !.inst = "False"], "ssh" \in given)
          BY <3>7 DEF KA!ReconcileCertificate, P
        <5>2. [P EXCEPT !.tls = IF cert = "absent" THEN @ ELSE "False", !.inst = "False"]
                = [P EXCEPT !.tls = IF cert = "absent" THEN P.tls ELSE "False",
                            !.inst = "False"]
          OBVIOUS
        <5> QED
          BY <3>4, <5>1, <5>2
      <4> QED
        BY <3>1, <3>5, <4>1
    <3>8. CASE KA!ReconcileNoSSH \/ KA!ReconcileNotPrepared \/ KA!ReconcileInstallFails
      BY <3>2, <3>5, <3>8 DEF KA!ReconcileNoSSH, KA!ReconcileNotPrepared,
                              KA!ReconcileInstallFails, H
    <3>9. CASE KA!ReconcileWaitForHealth \/ KA!ReconcileRotate \/ KA!ReconcileRotateFails
               \/ KA!ReconcileUnreachable \/ KA!ReconcileInfo
      BY <1>1, <3>3, <3>5, <3>9 DEF KA!ReconcileWaitForHealth, KA!ReconcileRotate,
            KA!ReconcileRotateFails, KA!ReconcileUnreachable, KA!ReconcileInfo, R
    <3>10. CASE KA!ReconcileDeleteMachine \/ KA!ReconcileDeleteWaits \/ KA!ReconcileUninstallLost
                \/ KA!ReconcileUninstallFails \/ KA!ReconcileFails
      BY <1>1, <3>5, <3>10 DEF KA!ReconcileDeleteMachine, KA!ReconcileDeleteWaits,
            KA!ReconcileUninstallLost, KA!ReconcileUninstallFails, KA!ReconcileFails, P
    <3>11. CASE KA!ReconcileUninstall \/ KA!ReconcileForget
      BY <3>1, <3>4, <3>5, <3>11 DEF KA!ReconcileUninstall, KA!ReconcileForget, KA!Finalize, P
    <3> QED
      BY <1>3, <3>6, <3>7, <3>8, <3>9, <3>10, <3>11 DEF KA!Reconcile
  <2>2. PICK v \in Hosted, again \in BOOLEAN :
            v.installed = i /\ (KA!Ended(v, again) \/ KA!Failed(v))
    BY <2>1
  <2>3. Ending([v EXCEPT !.phase = KA!Phase(v)])
    BY <2>2, EndsWith, EndsFaulty
  <2>4. [v EXCEPT !.phase = KA!Phase(v)].installed = i
    BY <2>2, Phased
  <2> QED
    BY <2>3, <2>4, EndingMoves
<1> QED
  BY <1>2, <1>3

-----------------------------------------------------------------------------
(* The keys *)

ProbeType == [on : BOOLEAN, result : {"none", "True", "False"}]

\* Steps that leave the keys and the host alone.
LEMMA KeysStay ==
    ASSUME Keyed, Reached, ObjectMoves, UNCHANGED <<issued, active, host, rotates, unlucky>>,
           cert' = "ready" <=> cert = "ready", given \subseteq given',
           holder' \in KA!Pair, probe' \in ProbeType
    PROVE  Keyed' /\ Reached'
<1>1. Keyed'
  BY DEF Keyed, ProbeType
<1>2. Reached'
  BY DEF Reached, ObjectMoves, Open, Served, Trusted, KA!Torn, Known, KA!CA, KA!Loadable
<1> QED
  BY <1>1, <1>2

LEMMA Ensured ==
    ASSUME Queued, Keyed, KA!EnsureProbe
    PROVE  probe' \in ProbeType
BY HostedTypes DEF KA!EnsureProbe, Keyed, ProbeType

LEMMA IdleReconciles ==
    ASSUME Queued, Keyed, Reached, ObjectMoves,
           \/ KA!ReconcileNotFound \/ KA!ReconcileAddFinalizer \/ KA!ReconcileNoIssuer
           \/ KA!ReconcileCertificate \/ KA!ReconcileNoSSH \/ KA!ReconcileWaitForHealth
           \/ KA!ReconcileUnreachable \/ KA!ReconcileInfo \/ KA!ReconcileDeleteMachine
           \/ KA!ReconcileDeleteWaits \/ KA!ReconcileUninstallFails \/ KA!ReconcileForget
           \/ KA!ReconcileFails
    PROVE  Keyed' /\ Reached'
<1>1. active.cached \in KA!Pair /\ holder \in KA!Pair
  BY DEF Keyed
<1>2. KA!EnsureProbe \/ probe' = [probe EXCEPT !.on = FALSE]
  BY DEF KA!ReconcileNotFound, KA!ReconcileAddFinalizer, KA!ReconcileNoIssuer,
         KA!ReconcileCertificate, KA!ReconcileNoSSH, KA!ReconcileWaitForHealth,
         KA!ReconcileUnreachable, KA!ReconcileInfo, KA!ReconcileDeleteMachine,
         KA!ReconcileDeleteWaits, KA!ReconcileUninstallFails, KA!ReconcileForget,
         KA!ReconcileFails, KA!Finalize
<1>3. probe' \in ProbeType
  BY <1>2, Ensured DEF Keyed, ProbeType
<1>4. UNCHANGED <<issued, active, host, rotates, unlucky, given>>
  BY DEF KA!ReconcileNotFound, KA!ReconcileAddFinalizer, KA!ReconcileNoIssuer,
         KA!ReconcileCertificate, KA!ReconcileNoSSH, KA!ReconcileWaitForHealth,
         KA!ReconcileUnreachable, KA!ReconcileInfo, KA!ReconcileDeleteMachine,
         KA!ReconcileDeleteWaits, KA!ReconcileUninstallFails, KA!ReconcileForget,
         KA!ReconcileFails, KA!Idling
<1>5. cert' = cert \/ (cert # "ready" /\ cert' = "pending")
  BY DEF KA!ReconcileNotFound, KA!ReconcileAddFinalizer, KA!ReconcileNoIssuer,
         KA!ReconcileCertificate, KA!ReconcileNoSSH, KA!ReconcileWaitForHealth,
         KA!ReconcileUnreachable, KA!ReconcileInfo, KA!ReconcileDeleteMachine,
         KA!ReconcileDeleteWaits, KA!ReconcileUninstallFails, KA!ReconcileForget,
         KA!ReconcileFails, KA!Idling
<1>6. holder' \in KA!Pair
  BY <1>1 DEF KA!ReconcileNotFound, KA!ReconcileAddFinalizer, KA!ReconcileNoIssuer,
         KA!ReconcileCertificate, KA!ReconcileNoSSH, KA!ReconcileWaitForHealth,
         KA!ReconcileUnreachable, KA!ReconcileInfo, KA!ReconcileDeleteMachine,
         KA!ReconcileDeleteWaits, KA!ReconcileUninstallFails, KA!ReconcileForget,
         KA!ReconcileFails, KA!Idling
<1>7. cert' = "ready" <=> cert = "ready"
  BY <1>5
<1> QED
  BY <1>3, <1>4, <1>6, <1>7, KeysStay

\* Ranges of the keys.
LEMMA KeyTypes ==
    /\ KA!NoPair \in KA!Pair /\ KA!NoPair.tls = 0 /\ KA!NoPair.client = 0
    /\ KA!NoHost \in KA!Host /\ KA!NoHost.crt = 0 /\ KA!NoHost.key = 0
    /\ \A k \in KA!Pair : /\ KA!InstalledHost(k) \in KA!Host
                          /\ k.tls \in Nat /\ k.client \in Nat
    /\ \A h \in KA!Host : h.crt \in Nat /\ h.key \in Nat /\ h.ca \in Nat
BY BoundsAssumption DEF KA!NoPair, KA!Pair, KA!Versions, KA!NoHost, KA!Host, KA!InstalledHost

\* What SyncActive leaves.
LEMMA Synced ==
    ASSUME Keyed, KA!SyncActive
    PROVE  /\ active' \in [stored : KA!Pair, cached : KA!Pair] /\ holder' \in KA!Pair
           /\ active'.cached = active.cached
           /\ active'.stored = issued \/ active' = active
           /\ Known(active.cached) => active'.stored = issued
<1>1. CASE active.cached = KA!NoPair /\ active.stored # KA!NoPair
  BY <1>1, KeyTypes DEF KA!SyncActive, Keyed, Known
<1>2. CASE ~(active.cached = KA!NoPair /\ active.stored # KA!NoPair)
  <2>1. /\ active' = [active EXCEPT !.stored = issued]
        /\ holder' = IF active.cached # issued THEN KA!NoPair ELSE holder
    BY <1>2 DEF KA!SyncActive
  <2> QED
    BY <2>1, KeyTypes DEF Keyed
<1> QED
  BY <1>1, <1>2

\* No installation is prepared, or it fails, on an agent that counts as installed.
LEMMA InstallingNone ==
    ASSUME Queued, Bounded, Keyed, Reached, ObjectMoves,
           KA!ReconcileNotPrepared \/ KA!ReconcileInstallFails
    PROVE  Keyed' /\ Reached'
<1>1. ~Counts
  <2>1. CASE KA!ReconcileNotPrepared
    BY <2>1 DEF KA!ReconcileNotPrepared, KA!KeysKnown, Reached, Known
  <2>2. CASE KA!ReconcileInstallFails
    <3> DEFINE v == [KA!HasCert EXCEPT !.info = FALSE, !.failed = TRUE, !.inst = "False"]
    <3>1. KA!Failed(v) /\ ~obj.cached.installed
      BY <2>2 DEF KA!ReconcileInstallFails, KA!CanInstall, KA!Installing
    <3>2. v \in Hosted
      BY ProbedAgent DEF Hosted, KA!Agent, KA!Condition
    <3> HIDE DEF v
    <3>3. Ending([v EXCEPT !.phase = KA!Phase(v)]) /\ obj.cached = obj.stored
      BY <3>1, <3>2, EndsFaulty
    <3> QED
      BY <3>1, <3>3 DEF Ending, Counts
  <2> QED
    BY <2>1, <2>2
<1>2. Reached'
  BY <1>1 DEF ObjectMoves, Reached
<1>3. /\ KA!SyncActive /\ KA!EnsureProbe /\ UNCHANGED <<cert, issued, rotates>>
      /\ host' \in {host, KA!InstalledHost(active.cached)}
  BY DEF KA!ReconcileNotPrepared, KA!ReconcileInstallFails
<1>4. probe' \in ProbeType
  BY <1>3, Ensured
<1>5. /\ active' \in [stored : KA!Pair, cached : KA!Pair] /\ holder' \in KA!Pair
      /\ active'.cached = active.cached
      /\ active'.stored = issued \/ active' = active
  BY <1>3, Synced
<1>6. active'.cached.tls <= issued.tls /\ active'.stored.tls <= issued.tls
  BY <1>5, KeyTypes DEF Keyed
<1>7. host' \in KA!Host /\ host'.key <= host'.crt /\ host'.crt <= issued.tls
  BY <1>3, KeyTypes DEF Keyed, KA!InstalledHost
<1>8. Keyed'
  BY <1>3, <1>4, <1>5, <1>6, <1>7 DEF Keyed, ProbeType
<1> QED
  BY <1>2, <1>8

\* An installation that succeeds.
LEMMA Installation ==
    ASSUME Queued, Bounded, Keyed, Reached, KA!ReconcileInstall
    PROVE  KInv'
<1> DEFINE v == [KA!HasCert EXCEPT !.info = FALSE, !.installed = TRUE, !.failed = FALSE,
                                   !.inst = "True"]
<1>1. v \in Hosted /\ v.installed
  BY ProbedAgent DEF Hosted, KA!Agent, KA!Condition
<1>2. /\ KA!Ended(v, FALSE) /\ KA!SyncActive /\ KA!EnsureProbe
      /\ host' = KA!InstalledHost(active.cached)
      /\ unlucky' = {f \in KA!KeyPairs : active.cached[f] # issued[f]}
      /\ UNCHANGED <<cert, issued, rotates, given>>
      /\ Known(active.cached) /\ cert = "ready" /\ {"ssh", "secret"} \subseteq given
  BY DEF KA!ReconcileInstall, KA!CanInstall, KA!Installing, KA!KeysKnown, Known
<1> HIDE DEF v
<1>3. Queued' /\ Bounded'
  BY <1>1, <1>2, EndsWith DEF Ending
<1>4. probe' \in ProbeType
  BY <1>2, Ensured
<1>5. /\ active' \in [stored : KA!Pair, cached : KA!Pair] /\ holder' \in KA!Pair
      /\ active'.cached = active.cached /\ active'.stored = issued
  BY <1>2, Synced
<1>6. host' \in KA!Host /\ host'.key <= host'.crt /\ host'.crt <= issued.tls
  BY <1>2, KeyTypes DEF Keyed, KA!InstalledHost
<1>7. active'.cached.tls <= issued.tls /\ active'.stored.tls <= issued.tls
  BY <1>5, KeyTypes DEF Keyed
<1>8. Keyed'
  BY <1>2, <1>4, <1>5, <1>6, <1>7 DEF Keyed, ProbeType
<1>9. Open'
  <2>1. /\ host'.up /\ host'.crt = active.cached.tls /\ host'.key = active.cached.tls
        /\ host'.ca = active.cached.client
    BY <1>2 DEF KA!InstalledHost
  <2>2. "tls" \in unlucky' \/ active.cached.tls = issued.tls
    BY <1>2 DEF KA!KeyPairs
  <2>3. "client" \in unlucky' \/ active.cached.client = issued.client
    BY <1>2 DEF KA!KeyPairs
  <2>4. Served'
    BY <1>5, <2>1, <2>2 DEF Served, KA!CA, KA!Loadable
  <2>5. Trusted'
    BY <1>5, <2>1, <2>3 DEF Trusted, KA!CA
  <2> QED
    BY <2>1, <2>4, <2>5 DEF Open
<1>10. Reached'
  BY <1>2, <1>5, <1>9 DEF Reached, Known, Keyed
<1> QED
  BY <1>3, <1>8, <1>10 DEF KInv

\* The uploads of a rotation: of a new certificate and key, or of a new client CA.
LEMMA TLSUploads ==
    ASSUME Keyed, active.cached.tls # issued.tls
    PROVE  LET h1 == [host EXCEPT !.crt = issued.tls]
               h2 == [host EXCEPT !.crt = issued.tls, !.key = issued.tls]
           IN  /\ Len(KA!Uploads) = 2 /\ KA!Uploads[1] = h1 /\ KA!Uploads[2] = h2
               /\ h1 \in KA!Host /\ h2 \in KA!Host
<1>1. host \in KA!Host /\ issued.tls \in KA!Versions
  BY DEF Keyed, KA!Pair
<1>2. KA!Uploaded(host, "crt", issued.tls) = [host EXCEPT !.crt = issued.tls]
  BY DEF KA!Uploaded
<1>3. KA!Uploaded([host EXCEPT !.crt = issued.tls], "key", issued.tls)
        = [host EXCEPT !.crt = issued.tls, !.key = issued.tls]
  BY <1>1 DEF KA!Uploaded, KA!Host
<1>4. KA!Uploads = <<[host EXCEPT !.crt = issued.tls],
                     [host EXCEPT !.crt = issued.tls, !.key = issued.tls]>>
  BY <1>2, <1>3 DEF KA!Uploads
<1> QED
  BY <1>1, <1>4 DEF KA!Host

LEMMA ClientUploads ==
    ASSUME Keyed, active.cached.tls = issued.tls
    PROVE  LET h1 == [host EXCEPT !.ca = issued.client]
           IN  Len(KA!Uploads) = 1 /\ KA!Uploads[1] = h1 /\ h1 \in KA!Host
<1>1. host \in KA!Host /\ issued.client \in KA!Versions
  BY DEF Keyed, KA!Pair
<1>2. KA!Uploads = <<[host EXCEPT !.ca = issued.client]>>
  BY DEF KA!Uploads, KA!Uploaded
<1> QED
  BY <1>1, <1>2 DEF KA!Host

\* A rotation that succeeds.
LEMMA Rotation ==
    ASSUME Queued, Keyed, Reached, ObjectMoves, KA!ReconcileRotate
    PROVE  Keyed' /\ Reached'
<1>1. /\ KA!Rotating /\ KA!EnsureProbe /\ host' = KA!Uploads[Len(KA!Uploads)]
      /\ active' = [active EXCEPT !.stored = KA!Rotated] /\ holder' = KA!NoPair
      /\ unlucky' = unlucky \ {KA!Outdated} /\ host.up
      /\ UNCHANGED <<given, cert, issued, rotates>>
  BY DEF KA!ReconcileRotate, KA!ClientSet, KA!Connects
<1>2. probe' \in ProbeType
  BY <1>1, Ensured
<1>3. Counts /\ cert = "ready"
  BY <1>1, HostedTypes DEF KA!Rotating, KA!Serving, Counts
<1>4. Known(active.cached) /\ Known(active.stored) /\ (Live => Open)
  BY <1>3 DEF Reached
<1>5. active.stored \in KA!Pair /\ active.cached \in KA!Pair /\ issued \in KA!Pair
  BY DEF Keyed
<1>6. CASE active.cached.tls # issued.tls
  <2>1. /\ host' = [host EXCEPT !.crt = issued.tls, !.key = issued.tls]
        /\ host' \in KA!Host
    BY <1>1, <1>6, TLSUploads
  <2>2. active' = [active EXCEPT !.stored = [active.stored EXCEPT !.tls = issued.tls]]
    BY <1>1, <1>6 DEF KA!Rotated
  <2>3. /\ active'.cached = active.cached /\ active'.stored.tls = issued.tls
        /\ active'.stored.client = active.stored.client
        /\ active' \in [stored : KA!Pair, cached : KA!Pair]
    BY <1>5, <2>2 DEF Keyed, KA!Pair
  <2>4. /\ host'.crt = issued.tls /\ host'.key = issued.tls /\ host'.ca = host.ca
        /\ host'.up = host.up
    BY <2>1 DEF Keyed, KA!Host
  <2>5. Keyed'
    BY <1>1, <1>2, <1>5, <2>1, <2>3, <2>4, KeyTypes DEF Keyed, ProbeType
  <2>6. Open => Open'
    <3>1. Served'
      BY <2>3, <2>4 DEF Served, KA!Loadable
    <3>2. Trusted => Trusted'
      BY <1>1, <1>6, <2>3, <2>4 DEF Trusted, KA!CA, KA!Outdated
    <3> QED
      BY <1>1, <2>4, <3>1, <3>2 DEF Open, KA!Torn
  <2>7. Known(active'.cached) /\ Known(active'.stored)
    BY <1>3, <1>4, <2>3 DEF Known, Keyed
  <2> QED
    BY <1>1, <1>3, <1>4, <2>5, <2>6, <2>7 DEF Reached, ObjectMoves
<1>7. CASE active.cached.tls = issued.tls
  <2>1. host' = [host EXCEPT !.ca = issued.client] /\ host' \in KA!Host
    BY <1>1, <1>7, ClientUploads
  <2>2. active' = [active EXCEPT !.stored = [active.stored EXCEPT !.client = issued.client]]
    BY <1>1, <1>7 DEF KA!Rotated
  <2>3. /\ active'.cached = active.cached /\ active'.stored.tls = active.stored.tls
        /\ active'.stored.client = issued.client
        /\ active' \in [stored : KA!Pair, cached : KA!Pair]
    BY <1>5, <2>2 DEF Keyed, KA!Pair
  <2>4. /\ host'.crt = host.crt /\ host'.key = host.key /\ host'.ca = issued.client
        /\ host'.up = host.up /\ host'.served = host.served
    BY <2>1 DEF Keyed, KA!Host
  <2>5. Keyed'
    BY <1>1, <1>2, <1>5, <2>1, <2>3, <2>4, KeyTypes DEF Keyed, ProbeType
  <2>6. Open => Open'
    <3>1. Trusted'
      BY <2>3, <2>4 DEF Trusted
    <3>2. Served => Served'
      BY <1>1, <1>7, <2>3, <2>4 DEF Served, KA!CA, KA!Loadable, KA!Outdated
    <3> QED
      BY <1>1, <2>4, <3>1, <3>2 DEF Open, KA!Torn
  <2>7. Known(active'.cached) /\ Known(active'.stored)
    BY <1>3, <1>4, <2>3 DEF Known, Keyed
  <2> QED
    BY <1>1, <1>3, <1>4, <2>5, <2>6, <2>7 DEF Reached, ObjectMoves
<1> QED
  BY <1>6, <1>7

\* A rotation that is interrupted.  With a new CA, a certificate alone on the host is not
\* loaded: its key is another, or the active pair would be the issued one.
LEMMA Interruption ==
    ASSUME Queued, Bounded, Keyed, Reached, ObjectMoves, KA!ReconcileRotateFails
    PROVE  Keyed' /\ Reached'
<1>1. PICK h \in {holder, active.cached}, n \in 0 .. Len(KA!Uploads) :
        /\ KA!Rotating /\ KA!EnsureProbe /\ KA!Failed(KA!Running)
        /\ host' = IF n = 0 THEN host ELSE KA!Uploads[n]
        /\ holder' = h
        /\ unlucky' = IF /\ rotates /\ n > 0
                         /\ n = Len(KA!Uploads) \/ host.served # KA!Loadable
                      THEN unlucky \cup {KA!Outdated} ELSE unlucky
        /\ host.up
        /\ UNCHANGED <<given, cert, issued, active, rotates>>
  BY DEF KA!ReconcileRotateFails, KA!ClientSet, KA!Connects
<1>2. probe' \in ProbeType /\ holder' \in KA!Pair
  BY <1>1, Ensured DEF Keyed
<1>3. Counts
  BY <1>1, HostedTypes DEF KA!Rotating, KA!Serving, Counts
<1>4. active.stored = active.cached
  BY <1>1, EndsFaulty, ProbedAgent
<1>5. CASE n = 0
  BY <1>1, <1>2, <1>5, KeysStay
<1>6. CASE n # 0 /\ active.cached.tls # issued.tls
  <2>1. /\ Len(KA!Uploads) = 2 /\ host' \in KA!Host /\ n \in {1, 2}
        /\ host' = IF n = 1 THEN [host EXCEPT !.crt = issued.tls]
                   ELSE [host EXCEPT !.crt = issued.tls, !.key = issued.tls]
    <3>1. /\ Len(KA!Uploads) = 2 /\ KA!Uploads[1] = [host EXCEPT !.crt = issued.tls]
          /\ KA!Uploads[2] = [host EXCEPT !.crt = issued.tls, !.key = issued.tls]
          /\ KA!Uploads[1] \in KA!Host /\ KA!Uploads[2] \in KA!Host
      BY <1>6, TLSUploads
    <3>2. n \in 0 .. 2
      BY <1>1, <3>1
    <3>3. n \in {1, 2}
      BY <1>6, <3>2
    <3>4. host' = KA!Uploads[n]
      BY <1>1, <1>6
    <3> QED
      BY <3>1, <3>3, <3>4
  <2>2. /\ host'.crt = issued.tls /\ host'.key = IF n = 1 THEN host.key ELSE issued.tls
        /\ host'.ca = host.ca /\ host'.up = host.up /\ host'.served = host.served
    BY <2>1 DEF Keyed, KA!Host
  <2>3. Keyed'
    BY <1>1, <1>2, <2>1, <2>2, KeyTypes DEF Keyed, ProbeType
  <2>4. ASSUME Served PROVE Served'
    <3>1. CASE "tls" \in unlucky'
      BY <3>1 DEF Served
    <3>2. CASE "tls" \notin unlucky' /\ rotates
      <4>1. n = 1 /\ host.served = KA!Loadable /\ "tls" \notin unlucky
        BY <1>1, <1>6, <2>1, <3>2 DEF KA!Outdated
      <4>2. active.stored.tls = KA!Loadable
        BY <2>4, <3>2, <4>1 DEF Served, KA!CA
      <4>3. host.key # issued.tls
        BY <1>4, <1>6, <4>2, KeyTypes DEF Keyed, KA!Loadable
      <4>4. KA!Loadable' = KA!Loadable
        BY <2>2, <4>1, <4>3 DEF KA!Loadable
      <4> QED
        BY <1>1, <2>4, <4>1, <4>4 DEF Served, KA!CA
    <3>3. CASE ~rotates
      BY <1>1, <3>3 DEF Served, KA!CA
    <3> QED
      BY <3>1, <3>2, <3>3
  <2>5. Trusted => Trusted'
    BY <1>1, <2>2 DEF Trusted, KA!CA
  <2>6. Open => Open'
    BY <1>1, <2>2, <2>4, <2>5 DEF Open, KA!Torn
  <2> QED
    BY <1>1, <1>3, <2>3, <2>6 DEF Reached, ObjectMoves, Known
<1>7. CASE n # 0 /\ active.cached.tls = issued.tls
  <2>1. /\ Len(KA!Uploads) = 1 /\ host' \in KA!Host /\ n = 1
        /\ host' = [host EXCEPT !.ca = issued.client]
    <3>1. /\ Len(KA!Uploads) = 1 /\ KA!Uploads[1] = [host EXCEPT !.ca = issued.client]
          /\ KA!Uploads[1] \in KA!Host
      BY <1>7, ClientUploads
    <3>2. n \in 0 .. 1
      BY <1>1, <3>1
    <3>3. n = 1
      BY <1>7, <3>2
    <3>4. host' = KA!Uploads[n]
      BY <1>1, <1>7
    <3> QED
      BY <3>1, <3>3, <3>4
  <2>2. /\ host'.crt = host.crt /\ host'.key = host.key /\ host'.up = host.up
        /\ host'.served = host.served
    BY <2>1 DEF Keyed, KA!Host
  <2>3. Keyed'
    BY <1>1, <1>2, <2>1, <2>2, KeyTypes DEF Keyed, ProbeType
  <2>4. Served => Served'
    BY <1>1, <2>2 DEF Served, KA!CA, KA!Loadable
  <2>5. Trusted => Trusted'
    <3>1. rotates => "client" \in unlucky'
      BY <1>1, <1>7, <2>1 DEF KA!Outdated
    <3> QED
      BY <1>1, <3>1 DEF Trusted, KA!CA
  <2>6. Open => Open'
    BY <1>1, <2>2, <2>4, <2>5 DEF Open, KA!Torn
  <2> QED
    BY <1>1, <1>3, <2>3, <2>6 DEF Reached, ObjectMoves, Known
<1> QED
  BY <1>5, <1>6, <1>7

\* A deleted agent is uninstalled.
LEMMA Uninstallation ==
    ASSUME Queued, Keyed, Reached, ObjectMoves,
           KA!ReconcileUninstall \/ KA!ReconcileUninstallLost
    PROVE  Keyed' /\ Reached'
<1>1. /\ host' = KA!NoHost /\ holder' \in {holder, active.cached}
      /\ KA!EnsureProbe \/ probe' = [probe EXCEPT !.on = FALSE]
      /\ UNCHANGED <<given, cert, issued, active, rotates, unlucky>>
      /\ obj.cached.deleting
  BY DEF KA!ReconcileUninstall, KA!ReconcileUninstallLost, KA!Finalize, KA!Deserted,
         KA!Discarded
<1>2. probe' \in ProbeType /\ holder' \in KA!Pair
  BY <1>1, Ensured DEF Keyed, ProbeType
<1>3. ~Live'
  BY <1>1, HostedTypes DEF Live, ObjectMoves
<1>4. Keyed'
  BY <1>1, <1>2, KeyTypes DEF Keyed, ProbeType
<1>5. Reached'
  BY <1>1, <1>3 DEF Reached, ObjectMoves, Known
<1> QED
  BY <1>4, <1>5

\* The reconciles together.
LEMMA ReconcileKeeps ==
    ASSUME KInv, KA!Reconcile
    PROVE  KInv'
<1>1. Queued /\ Bounded /\ Keyed /\ Reached
  BY DEF KInv
<1>2. CASE KA!ReconcileInstall
  BY <1>1, <1>2, Installation
<1>3. CASE ~KA!ReconcileInstall
  <2>1. ObjectMoves
    BY <1>1, <1>3, ReconcileMoves
  <2>2. Keyed' /\ Reached'
    BY <1>1, <1>3, <2>1, IdleReconciles, InstallingNone, Rotation, Interruption,
       Uninstallation DEF KA!Reconcile
  <2> QED
    BY <2>1, <2>2 DEF KInv, ObjectMoves
<1> QED
  BY <1>2, <1>3

-----------------------------------------------------------------------------
(* The surroundings *)

\* The copies of the active secrets catch up, by an event or after a restart.
LEMMA SecretsSeen ==
    ASSUME KInv, KA!ObserveSecret \/ KA!ManagerRestarts
    PROVE  KInv'
<1>1. Queued /\ Bounded /\ Keyed /\ Reached
  BY DEF KInv
<1>2. /\ active' = [active EXCEPT !.cached = active.stored]
      /\ holder' = holder \/ holder' = KA!NoPair
      /\ probe' = probe \/ probe' = [on |-> FALSE, result |-> "none"]
      /\ UNCHANGED <<given, cert, issued, host, rotates, unlucky>>
  BY DEF KA!ObserveSecret, KA!ManagerRestarts
<1>3. ObjectMoves
  <2>1. CASE KA!ObserveSecret
    <3>1. /\ UNCHANGED <<obj, work, faults, stale, changes>>
          /\ dirty' = (dirty \/ obj.cached.exists)
      BY <2>1 DEF KA!ObserveSecret, KA!Wake
    <3>2. dirty' \in BOOLEAN /\ Bounded'
      BY <1>1, <3>1 DEF Bounded
    <3> QED
      BY <1>1, <3>1, <3>2, ObjectStays
  <2>2. CASE KA!ManagerRestarts
    BY <1>1, <2>2, RestartMoves DEF KA!ManagerRestarts
  <2> QED
    BY <2>1, <2>2
<1>4. /\ active'.cached = active.stored /\ active'.stored = active.stored
      /\ active' \in [stored : KA!Pair, cached : KA!Pair]
  BY <1>1, <1>2 DEF Keyed
<1>5. holder' \in KA!Pair /\ probe' \in ProbeType
  <2>1. /\ KA!NoPair \in KA!Pair /\ holder \in KA!Pair /\ probe \in ProbeType
        /\ [on |-> FALSE, result |-> "none"] \in ProbeType
    BY <1>1, KeyTypes DEF Keyed, ProbeType
  <2> QED
    BY <1>2, <2>1
<1>6. Keyed'
  BY <1>1, <1>2, <1>4, <1>5 DEF Keyed, ProbeType
<1>7. Reached'
  BY <1>1, <1>2, <1>3, <1>4 DEF Reached, ObjectMoves, Open, Served, Trusted, KA!Torn,
                                Known, KA!CA, KA!Loadable
<1> QED
  BY <1>3, <1>6, <1>7 DEF KInv, ObjectMoves

\* cert-manager issues the first pair, or another one.
LEMMA PairIssued ==
    ASSUME KInv, KA!Issue \/ KA!Renew
    PROVE  KInv'
<1>1. Queued /\ Bounded /\ Keyed /\ Reached
  BY DEF KInv
<1>2. UNCHANGED <<given, active, host, holder, probe, rotates, unlucky>>
  BY DEF KA!Issue, KA!Renew
<1>3. /\ ObjectMoves
      /\ issued' \in KA!Pair /\ issued'.client # 0 /\ issued.tls <= issued'.tls
      /\ cert' = "ready" <=> issued'.tls # 0
  <2>1. CASE KA!Issue
    <3>1. /\ cert = "pending" /\ cert' = "ready" /\ issued' = [issued EXCEPT !.tls = 1]
          /\ UNCHANGED <<obj, work, faults, stale, changes>>
          /\ dirty' = (dirty \/ obj.cached.exists)
      BY <2>1 DEF KA!Issue, KA!Wake
    <3>2. dirty' \in BOOLEAN /\ Bounded'
      BY <1>1, <3>1 DEF Bounded
    <3>3. issued.tls = 0 /\ issued \in KA!Pair /\ issued.client # 0
      BY <1>1, <3>1 DEF Keyed
    <3>4. 1 \in KA!Versions
      BY BoundsAssumption DEF KA!Versions
    <3> QED
      BY <1>1, <3>1, <3>2, <3>3, <3>4, ObjectStays DEF KA!Pair
  <2>2. CASE KA!Renew
    <3>1. PICK f \in {"tls", "client"} :
            /\ issued[f] \in 1 .. MaxVersion - 1 /\ KA!Change(TRUE)
            /\ issued' = [issued EXCEPT ![f] = issued[f] + 1] /\ cert' = cert
      BY <2>2 DEF KA!Renew
    <3>2. issued[f] + 1 \in KA!Versions /\ issued[f] + 1 # 0 /\ issued[f] <= issued[f] + 1
          /\ issued[f] # 0
      BY <3>1, BoundsAssumption DEF KA!Versions
    <3>3. issued \in KA!Pair /\ issued.tls \in Nat
      BY <1>1, KeyTypes DEF Keyed
    <3>4. ObjectMoves
      BY <1>1, <3>1, ChangeMoves
    <3>5. CASE f = "tls"
      <4>1. issued' \in KA!Pair /\ issued'.tls = issued.tls + 1
            /\ issued'.client = issued.client
        BY <3>1, <3>2, <3>3, <3>5 DEF KA!Pair
      <4>2. issued'.tls # 0 /\ issued.tls # 0 /\ issued.tls <= issued'.tls
        BY <3>2, <3>3, <3>5, <4>1
      <4> QED
        BY <1>1, <3>1, <3>4, <4>1, <4>2 DEF Keyed
    <3>6. CASE f = "client"
      <4>1. issued' \in KA!Pair /\ issued'.client = issued.client + 1
            /\ issued'.tls = issued.tls
        BY <3>1, <3>2, <3>3, <3>6 DEF KA!Pair
      <4>2. issued'.client # 0 /\ issued.tls <= issued'.tls
        BY <3>2, <3>3, <3>6, <4>1
      <4> QED
        BY <1>1, <3>1, <3>4, <4>1, <4>2 DEF Keyed
    <3> QED
      BY <3>1, <3>5, <3>6
  <2> QED
    BY <2>1, <2>2
<1>4. Keyed'
  <2>1. /\ active.cached.tls \in Nat /\ active.stored.tls \in Nat /\ issued.tls \in Nat
        /\ issued'.tls \in Nat /\ host.crt \in Nat
    BY <1>1, <1>3, KeyTypes DEF Keyed
  <2>2. /\ active.cached.tls <= issued'.tls /\ active.stored.tls <= issued'.tls
        /\ host.crt <= issued'.tls
    BY <1>1, <1>3, <2>1 DEF Keyed
  <2> QED
    BY <1>1, <1>2, <1>3, <2>2 DEF Keyed
<1>5. Reached'
  BY <1>1, <1>2, <1>3 DEF Reached, ObjectMoves, Open, Served, Trusted, KA!Torn, Known,
                          KA!CA, KA!Loadable
<1> QED
  BY <1>3, <1>4, <1>5 DEF KInv, ObjectMoves

\* The daemon loads its files, while it runs or when it starts.
LEMMA FilesLoaded ==
    ASSUME KInv, KA!DaemonReloads \/ KA!DaemonRestarts
    PROVE  KInv'
<1>1. Queued /\ Bounded /\ Keyed /\ Reached
  BY DEF KInv
<1>2. UNCHANGED <<given, cert, issued, active, holder, probe, rotates, unlucky>>
  BY DEF KA!DaemonReloads, KA!DaemonRestarts
<1>3. /\ ObjectMoves /\ host' \in KA!Host
      /\ host'.crt = host.crt /\ host'.key = host.key /\ host'.ca = host.ca
      /\ host.up
      /\ \/ host'.up /\ KA!Loadable' = KA!Loadable
         \/ ~host'.up /\ host'.crt # host'.key
  <2>1. CASE KA!DaemonReloads
    <3>1. /\ host' = [host EXCEPT !.served = KA!Loadable, !.trusted = host.ca]
          /\ UNCHANGED <<obj, dirty, work, faults, stale, changes>> /\ host.up
      BY <2>1 DEF KA!DaemonReloads, KA!queue
    <3>2. dirty' \in BOOLEAN /\ Bounded'
      BY <1>1, <3>1 DEF Bounded, Queued
    <3>3. KA!Loadable \in KA!Versions /\ host \in KA!Host
      BY <1>1 DEF Keyed, KA!Loadable, KA!Host
    <3>4. /\ host' \in KA!Host /\ host'.crt = host.crt /\ host'.key = host.key
          /\ host'.ca = host.ca /\ host'.up = host.up /\ host'.served = KA!Loadable
      BY <3>1, <3>3 DEF KA!Host
    <3>5. KA!Loadable' = KA!Loadable
      BY <3>4 DEF KA!Loadable
    <3> QED
      BY <1>1, <3>1, <3>2, <3>4, <3>5, ObjectStays
  <2>2. CASE KA!DaemonRestarts
    <3>1. /\ host' = [host EXCEPT !.served = host.crt, !.trusted = host.ca,
                                  !.up = (host.crt = host.key)]
          /\ KA!Change(FALSE) /\ host.up
      BY <2>2 DEF KA!DaemonRestarts
    <3>2. ObjectMoves
      BY <1>1, <3>1, ChangeMoves
    <3>3. host \in KA!Host /\ (host.crt = host.key) \in BOOLEAN
      BY <1>1 DEF Keyed
    <3>4. /\ host' \in KA!Host /\ host'.crt = host.crt /\ host'.key = host.key
          /\ host'.ca = host.ca /\ host'.up = (host.crt = host.key)
      BY <3>1, <3>3 DEF KA!Host
    <3>5. host.crt = host.key => KA!Loadable' = KA!Loadable
      BY <3>4 DEF KA!Loadable
    <3> QED
      BY <3>1, <3>2, <3>4, <3>5
  <2> QED
    BY <2>1, <2>2
<1>4. Keyed'
  BY <1>1, <1>2, <1>3 DEF Keyed
<1>5. Open => Open'
  BY <1>2, <1>3 DEF Open, Served, Trusted, KA!Torn, KA!CA
<1>6. Reached'
  BY <1>1, <1>2, <1>3, <1>5 DEF Reached, ObjectMoves, Known
<1> QED
  BY <1>3, <1>4, <1>6 DEF KInv, ObjectMoves

\* The object and its queue change, the keys do not.
LEMMA KeysKept ==
    ASSUME KInv, ObjectMoves, UNCHANGED <<issued, cert, active, host, rotates, unlucky>>,
           given \subseteq given', holder' \in KA!Pair, probe' \in ProbeType
    PROVE  KInv'
BY KeysStay DEF KInv, ObjectMoves

LEMMA OtherSteps ==
    ASSUME KInv,
           \/ KA!Patch \/ KA!PatchPartly \/ KA!CacheReconcile \/ KA!ObserveEvent
           \/ KA!Configure \/ KA!Probe \/ KA!MachineClaims \/ KA!PlaybooksGo
           \/ KA!MachineGoes \/ KA!DeleteAgent \/ UNCHANGED KA!vars
    PROVE  KInv'
<1>1. Queued /\ Bounded /\ Keyed /\ Reached
  BY DEF KInv
<1>2. holder \in KA!Pair /\ active.cached \in KA!Pair /\ probe \in ProbeType
      /\ dirty \in BOOLEAN /\ KA!NoPair \in KA!Pair /\ obj.stored \in Hosted
  BY <1>1, KeyTypes, HostedTypes DEF Keyed, ProbeType, Queued
<1>3. CASE KA!Patch \/ KA!PatchPartly
  <2>1. UNCHANGED <<issued, cert, active, host, rotates, unlucky, given, holder, probe>>
    BY <1>3 DEF KA!Patch, KA!PatchPartly, KA!Quiet, KA!surroundings
  <2> QED
    BY <1>1, <1>2, <1>3, <2>1, PatchMoves, KeysKept
<1>4. CASE KA!ObserveEvent
  <2>1. KA!DeliverEvent
        /\ UNCHANGED <<issued, cert, active, host, rotates, unlucky, given, holder, probe>>
    BY <1>4 DEF KA!ObserveEvent
  <2> QED
    BY <1>1, <1>2, <2>1, EventMoves, KeysKept
<1>5. CASE \/ KA!CacheReconcile \/ KA!PlaybooksGo \/ UNCHANGED KA!vars
           \/ KA!MachineGoes /\ UNCHANGED <<obj, dirty>>
  <2>1. /\ UNCHANGED <<obj, dirty, work, faults, stale, changes>>
        /\ UNCHANGED <<issued, cert, active, host, rotates, unlucky, given, probe>>
        /\ holder' = holder \/ holder' = KA!NoPair
    BY <1>5 DEF KA!CacheReconcile, KA!PlaybooksGo, KA!MachineGoes, KA!vars, KA!queue,
                  KA!surroundings
  <2>2. Bounded'
    BY <1>1, <2>1 DEF Bounded
  <2>3. ObjectMoves
    BY <1>1, <1>2, <2>1, <2>2, ObjectStays
  <2> QED
    BY <1>2, <2>1, <2>3, KeysKept
<1>6. CASE KA!Configure \/ KA!Probe
  <2>1. /\ UNCHANGED <<obj, work, faults, stale, changes>>
        /\ UNCHANGED <<issued, cert, active, host, rotates, unlucky>>
        /\ given \subseteq given' /\ dirty' \in BOOLEAN
    BY <1>6 DEF KA!Configure, KA!Probe
  <2>2. holder' \in KA!Pair /\ probe' \in ProbeType
    <3>1. CASE KA!Configure
      BY <1>2, <3>1 DEF KA!Configure
    <3>2. CASE KA!Probe
      <4>1. PICK r \in {"True", "False"} : probe' = [probe EXCEPT !.result = r]
        BY <3>2 DEF KA!Probe
      <4>2. holder' \in {holder, active.cached}
        BY <3>2 DEF KA!Probe
      <4> QED
        BY <1>2, <4>1, <4>2 DEF ProbeType
    <3> QED
      BY <1>6, <3>1, <3>2
  <2>3. Bounded'
    BY <1>1, <2>1 DEF Bounded
  <2>4. ObjectMoves
    BY <1>1, <2>1, <2>3, ObjectStays
  <2> QED
    BY <2>1, <2>2, <2>4, KeysKept
<1>7. CASE \/ KA!MachineClaims \/ KA!DeleteAgent
           \/ KA!MachineGoes /\ KA!StoreObject([obj.stored EXCEPT !.label = FALSE])
  <2>1. /\ UNCHANGED work
        /\ UNCHANGED <<issued, cert, active, host, rotates, unlucky, given, holder, probe>>
    BY <1>7 DEF KA!MachineClaims, KA!MachineGoes, KA!DeleteAgent, KA!RequestDelete,
                KA!Quiet, KA!surroundings
  <2>2. Bounded'
    <3>1. /\ UNCHANGED <<faults, stale>>
          /\ \/ UNCHANGED changes
             \/ changes' = changes + 1 /\ faults + stale + changes < KeysTrouble
      BY <1>7 DEF KA!MachineClaims, KA!MachineGoes, KA!DeleteAgent, KA!RequestDelete,
                  KA!Trouble
    <3> QED
      BY <1>1, <3>1, BoundsAssumption DEF Bounded
  <2>3. \E v \in Hosted :
            /\ KA!StoreObject(v)
            /\ obj.stored.deleting => v.deleting
            /\ v.installed = obj.stored.installed
            /\ v.exists => obj.stored.exists
    <3> DEFINE c == obj.stored
    <3>1. \E v \in {[c EXCEPT !.label = TRUE], [c EXCEPT !.label = FALSE],
                    [c EXCEPT !.deleting = TRUE],
                    [c EXCEPT !.deleting = TRUE, !.exists = FALSE]} : KA!StoreObject(v)
      BY <1>7 DEF KA!MachineClaims, KA!MachineGoes, KA!DeleteAgent, KA!RequestDelete
    <3>2. \A v \in {[c EXCEPT !.label = TRUE], [c EXCEPT !.label = FALSE],
                    [c EXCEPT !.deleting = TRUE],
                    [c EXCEPT !.deleting = TRUE, !.exists = FALSE]} :
            /\ v \in Hosted
            /\ c.deleting => v.deleting
            /\ v.installed = c.installed
            /\ v.exists => c.exists
      BY <1>2 DEF Hosted, KA!Agent
    <3> QED
      BY <3>1, <3>2
  <2>4. ObjectMoves
    BY <1>1, <2>1, <2>2, <2>3, StoreMoves
  <2> QED
    BY <1>2, <2>1, <2>4, KeysKept
<1> QED
  BY <1>3, <1>4, <1>5, <1>6, <1>7 DEF KA!MachineGoes

-----------------------------------------------------------------------------
(* The theorem *)

LEMMA KeysInit ==
    ASSUME KA!Init
    PROVE  KInv
<1>1. /\ obj = Listed(KA!NewAgent) /\ dirty = TRUE /\ work = [busy |-> FALSE]
      /\ faults = 0 /\ stale = 0 /\ changes = 0
  BY KeysInformer DEF KA!Init, KA!QueueInit, KA!Idle
<1>2. KA!NewAgent \in Hosted /\ ~KA!NewAgent.installed
  BY DEF KA!NewAgent, Hosted, KA!Agent, KA!Condition, KA!Phases
<1>3. obj.stored = KA!NewAgent /\ KA!NewAgent \in Earlier(KA!NewAgent)
  BY <1>1, <1>2, StoredVersion DEF Earlier
<1>4. work \in KA!Work(Hosted) /\ ~work.busy
  BY <1>1 DEF KA!Work, KA!Idle
<1>5. Queued
  BY <1>1, <1>3, <1>4, ListedType, ListedCoherent DEF Queued
<1>6. Bounded
  BY <1>1, BoundsAssumption DEF Bounded
<1>7. Keyed
  <2>1. /\ issued = [tls |-> 0, client |-> 1] /\ cert = "absent"
        /\ active = [stored |-> KA!NoPair, cached |-> KA!NoPair] /\ holder = KA!NoPair
        /\ host = KA!NoHost /\ rotates \in BOOLEAN
        /\ probe = [on |-> FALSE, result |-> "none"]
    BY DEF KA!Init
  <2>2. issued \in KA!Pair
    BY <2>1, BoundsAssumption DEF KA!Pair, KA!Versions
  <2> QED
    BY <2>1, <2>2, KeyTypes DEF Keyed
<1>8. Reached
  BY <1>2, <1>3, <1>4 DEF Reached, Counts
<1> QED
  BY <1>5, <1>6, <1>7, <1>8 DEF KInv

LEMMA KeysStep ==
    ASSUME KInv, [KA!Next]_(KA!vars)
    PROVE  KInv'
BY ReconcileKeeps, SecretsSeen, PairIssued, FilesLoaded, OtherSteps DEF KA!Next

LEMMA KeysAreSafe ==
    ASSUME KInv
    PROVE  KA!NeverLockedOut /\ KA!TypeOK
<1>1. Queued /\ Bounded /\ Keyed /\ Reached
  BY DEF KInv
<1>2. KA!NeverLockedOut
  BY <1>1 DEF KA!NeverLockedOut, Reached, Counts, Live, Open, Served, Trusted
<1>3. KA!QueueTypeOK(Hosted)
  BY <1>1, KeysInformer, HostedTypes, BoundsAssumption
     DEF KA!QueueTypeOK, KA!Trouble, Bounded, Queued
<1> QED
  BY <1>1, <1>2, <1>3 DEF KA!TypeOK, Keyed, Hosted

\* syncAgentTLSSecret and syncAgentClientSecret upload the issued keys with the active
\* ones before they replace these: whichever of these steps fails, however often the keys
\* are renewed, the daemon or the manager restarts and copies are outdated, the host of an
\* installed agent can be reached with the active keys, now or when its daemon has loaded
\* its files.  Excepted are, by NeverLockedOut, a daemon that has restarted between the
\* certificate and the key; a pair with a new CA that was uploaded and whose secret was not
\* written, or whose certificate was uploaded alone before the daemon had loaded the pair
\* before; and a pair that had been renewed when it was installed.  An exception of one
\* pair says nothing of the other, and ends with the next rotation of that pair.
THEOREM ActiveKeysOpenTheHost == Spec => []NeverLockedOut
<1> DEFINE I == focus \in Parts /\ (focus = "agent" => KInv)
<1>1. Init => I
  BY KeysInit DEF Init, Parts
<1>2. I /\ [Next]_vars => I'
  <2> SUFFICES ASSUME focus \in Parts, focus = "agent" => KInv, [Next]_vars
               PROVE  I'
    OBVIOUS
  <2>1. focus' = focus /\ (focus = "agent" => [KA!Next]_(KA!vars))
    BY PartSteps
  <2> QED
    BY <2>1, KeysStep
<1>3. I => NeverLockedOut
  BY KeysAreSafe DEF NeverLockedOut, Whose, Parts
<1> QED
  BY <1>1, <1>2, <1>3, PTL DEF Spec
=============================================================================
