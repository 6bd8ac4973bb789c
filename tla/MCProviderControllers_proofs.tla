-------------------- MODULE MCProviderControllers_proofs --------------------
(***************************************************************************)
(* The safety of the four controllers of the provider.  What they share,   *)
(* the queue, the copy and the deferred patch, is reasoned about once, for *)
(* any set V of versions and any order R on them that every write keeps    *)
(* to; then each controller has an invariant of its own.                   *)
(***************************************************************************)
EXTENDS MCProviderControllers, Informer_proofs, FiniteSetTheorems, TLAPS

Parts == {"playbook", "deployment", "machine", "cluster"}

\* A step is one of the controller in focus, and the focus stays.
LEMMA PartSteps ==
    ASSUME focus \in Parts, [Next]_vars
    PROVE  /\ focus' = focus
           /\ focus = "playbook" => [PB!Next]_(PB!vars)
           /\ focus = "deployment" => [PD!Next]_(PD!vars)
           /\ focus = "machine" => [KM!Next]_(KM!vars)
           /\ focus = "cluster" => [KC!Next]_(KC!vars)
<1>1. CASE UNCHANGED vars
  BY <1>1 DEF vars, queue, mirror, pipeline, balancer,
              PB!vars, PB!queue, PB!surroundings, PB!observers,
              PD!vars, PD!queue, PD!surroundings, PD!observers,
              KM!vars, KM!queue, KM!surroundings, KC!vars, KC!queue, KC!surroundings
<1>2. CASE Next
  BY <1>2 DEF Next, InPB, InPD, InKM, InKC
<1> QED
  BY <1>1, <1>2

-----------------------------------------------------------------------------
(* The queue *)

\* Every version is of V, each follows the one before by R, and so does the stored one
\* the copy that a reconcile in progress has read.
Queued(V, R) ==
    /\ obj \in Object(V) /\ Coherent(obj) /\ Chain(obj, R) /\ dirty \in BOOLEAN
    /\ work \in Work(V)
    /\ work.busy => <<work.old, obj.stored>> \in R

Bounded(T) ==
    /\ faults \in Nat /\ stale \in Nat /\ changes \in Nat
    /\ faults + stale + changes <= T

Ordered(V, R) == Reflexive(V, R) /\ Transitive(V, R) /\ R \subseteq V \X V

\* No call has failed, and no outdated copy was read.
Smooth == faults + stale = 0

\* What was free of trouble before and is so after.
NoLess ==
    /\ Smooth' => Smooth
    /\ stale' = 0 => stale = 0
    /\ changes' = 0 => changes = 0

LEMMA SmoothIsFresh ==
    ASSUME NEW T \in Nat
    PROVE  /\ Bounded(T) /\ Smooth => stale = 0
           /\ Bounded(T)' /\ Smooth' => stale' = 0
BY DEF Bounded, Smooth

LEMMA QueuedTypes ==
    ASSUME NEW V, NEW R, Ordered(V, R), Queued(V, R)
    PROVE  /\ obj.stored \in V /\ obj.cached \in V
           /\ <<obj.cached, obj.stored>> \in R /\ <<obj.stored, obj.stored>> \in R
           /\ Current(obj) => obj.cached = obj.stored
           /\ work.busy \in BOOLEAN
           /\ work.busy => work.old \in V /\ work.new \in V
           /\ \/ work = [busy |-> FALSE]
              \/ work \in [busy : {TRUE}, old : V, new : V]
<1>1. obj.stored \in V /\ obj.cached \in V
  BY DEF Queued, Object
<1>2. <<obj.cached, obj.stored>> \in R /\ <<obj.stored, obj.stored>> \in R
  BY <1>1, ChainEnds DEF Queued, Ordered, Reflexive
<1>3. Current(obj) => obj.cached = obj.stored
  BY DEF Queued, Coherent, Current
<1>4. \/ work = [busy |-> FALSE]
      \/ work \in [busy : {TRUE}, old : V, new : V]
  BY DEF Queued, Work, Idle
<1>5. work.busy \in BOOLEAN /\ (work.busy => work.old \in V /\ work.new \in V)
  <2>1. CASE work = [busy |-> FALSE]
    BY <2>1
  <2>2. CASE work \in [busy : {TRUE}, old : V, new : V]
    BY <2>2
  <2> QED
    BY <1>4, <2>1, <2>2
<1> QED
  BY <1>1, <1>2, <1>3, <1>4, <1>5

\* A reconcile ends with v to be patched; with copies that were all current, or not.
EndedAs(T, fresh, v) ==
    /\ ~work.busy /\ work' = [busy |-> TRUE, old |-> obj.cached, new |-> v]
    /\ dirty' \in BOOLEAN /\ UNCHANGED <<obj, changes>>
    /\ \/ Current(obj) /\ fresh /\ UNCHANGED <<stale, faults>>
       \/ /\ Current(obj) /\ fresh /\ UNCHANGED stale /\ faults' = faults + 1
          /\ faults + stale + changes < T
       \/ /\ stale' = stale + 1 /\ UNCHANGED faults
          /\ faults + stale + changes < T

LEMMA QueueEnds ==
    ASSUME NEW V, NEW R, Ordered(V, R), Queued(V, R), NEW T \in Nat, Bounded(T),
           NEW fresh, NEW v \in V, EndedAs(T, fresh, v)
    PROVE  /\ Queued(V, R)' /\ Bounded(T)'
           /\ work'.busy /\ work'.old = obj.cached /\ work'.new = v
           /\ stale' = 0 => stale = 0 /\ obj.cached = obj.stored /\ fresh
           /\ NoLess
<1>1. work' = [busy |-> TRUE, old |-> obj.cached, new |-> v] /\ obj' = obj
      /\ dirty' \in BOOLEAN
  BY DEF EndedAs
<1>2. /\ obj.cached \in V /\ <<obj.cached, obj.stored>> \in R
      /\ Current(obj) => obj.cached = obj.stored
  BY QueuedTypes
<1>3. work' \in Work(V) /\ work'.busy /\ work'.old = obj.cached /\ work'.new = v
  BY <1>1, <1>2 DEF Work
<1>4. Queued(V, R)'
  BY <1>1, <1>2, <1>3 DEF Queued
<1>5. Bounded(T)' /\ NoLess
  BY DEF Bounded, EndedAs, Smooth, NoLess
<1>6. stale' = 0 => stale = 0 /\ obj.cached = obj.stored /\ fresh
  BY <1>2 DEF Bounded, EndedAs
<1> QED
  BY <1>3, <1>4, <1>5, <1>6

\* The deferred patch writes these fields.
PatchedAs(T, F) ==
    /\ work.busy /\ work' = [busy |-> FALSE] /\ dirty' \in BOOLEAN
    /\ obj' = IF obj.stored.exists THEN Store(obj, Merged(obj.stored, F)) ELSE obj
    /\ UNCHANGED <<stale, changes>>
    /\ UNCHANGED faults \/ (faults' = faults + 1 /\ faults + stale + changes < T)

\* Another client writes v.
StoredAs(T, v) ==
    /\ UNCHANGED <<work, faults, stale>> /\ dirty' \in BOOLEAN
    /\ obj' = Store(obj, v)
    /\ UNCHANGED changes \/ (changes' = changes + 1 /\ faults + stale + changes < T)

LEMMA ObjectWritten ==
    ASSUME NEW V, NEW R, Ordered(V, R), Queued(V, R), NEW v \in V, <<obj.stored, v>> \in R,
           obj' = Store(obj, v), dirty' \in BOOLEAN,
           work' = work \/ work' = [busy |-> FALSE]
    PROVE  /\ Queued(V, R)' /\ obj'.stored = v
           /\ <<obj.cached, obj'.cached>> \in R
<1>1. obj' \in Object(V) /\ Coherent(obj')
  BY StoreType, StoreCoherent DEF Queued
<1>2. Chain(obj', R) /\ <<obj.cached, obj'.cached>> \in R
  BY StoreChain DEF Queued, Ordered
<1>3. obj'.stored = v
  BY StoredVersion
<1>4. CASE work' = work
  <2>1. work.busy => <<work.old, v>> \in R
    <3>1. work.busy => work.old \in V /\ <<work.old, obj.stored>> \in R
      BY QueuedTypes DEF Queued
    <3> QED
      BY <3>1, QueuedTypes DEF Ordered, Transitive
  <2> QED
    BY <1>1, <1>2, <1>3, <1>4, <2>1 DEF Queued
<1>5. CASE work' = [busy |-> FALSE]
  BY <1>1, <1>2, <1>3, <1>5 DEF Queued, Work, Idle
<1> QED
  BY <1>2, <1>3, <1>4, <1>5

LEMMA QueuePatched ==
    ASSUME NEW V, NEW R, Ordered(V, R), Queued(V, R), NEW T \in Nat, Bounded(T),
           NEW F, PatchedAs(T, F), Merged(obj.stored, F) \in V,
           <<obj.stored, Merged(obj.stored, F)>> \in R
    PROVE  /\ Queued(V, R)' /\ Bounded(T)' /\ ~work'.busy
           /\ IF obj.stored.exists THEN obj'.stored = Merged(obj.stored, F) ELSE obj' = obj
           /\ <<obj.cached, obj'.cached>> \in R
           /\ NoLess
<1> DEFINE m == Merged(obj.stored, F)
<1>1. Bounded(T)' /\ NoLess
  BY DEF Bounded, PatchedAs, Smooth, NoLess
<1>2. work' = [busy |-> FALSE] /\ ~work'.busy /\ dirty' \in BOOLEAN
  BY DEF PatchedAs
<1>3. CASE obj.stored.exists
  <2>1. obj' = Store(obj, m)
    BY <1>3 DEF PatchedAs
  <2> HIDE DEF m
  <2>2. m \in V /\ <<obj.stored, m>> \in R
    BY DEF m
  <2>3. Queued(V, R)' /\ obj'.stored = m /\ <<obj.cached, obj'.cached>> \in R
    BY <1>2, <2>1, <2>2, ObjectWritten
  <2> QED
    BY <1>1, <1>2, <1>3, <2>3 DEF m
<1>4. CASE ~obj.stored.exists
  <2>1. obj' = obj
    BY <1>4 DEF PatchedAs
  <2>2. Queued(V, R)'
    BY <1>2, <2>1 DEF Queued, Work, Idle
  <2>3. <<obj.cached, obj.cached>> \in R
    BY QueuedTypes DEF Ordered, Reflexive
  <2> QED
    BY <1>1, <1>2, <1>4, <2>1, <2>2, <2>3
<1> QED
  BY <1>3, <1>4

LEMMA QueueStored ==
    ASSUME NEW V, NEW R, Ordered(V, R), Queued(V, R), NEW T \in Nat, Bounded(T),
           NEW v \in V, StoredAs(T, v), <<obj.stored, v>> \in R
    PROVE  /\ Queued(V, R)' /\ Bounded(T)' /\ obj'.stored = v /\ UNCHANGED work
           /\ <<obj.cached, obj'.cached>> \in R
           /\ NoLess
<1>1. Bounded(T)' /\ NoLess
  BY DEF Bounded, StoredAs, Smooth, NoLess
<1>2. Queued(V, R)' /\ obj'.stored = v /\ <<obj.cached, obj'.cached>> \in R
  BY ObjectWritten DEF StoredAs
<1> QED
  BY <1>1, <1>2 DEF StoredAs

\* The copy moves on, the manager restarts, or nothing happens to the object.
MovedAs(T) ==
    /\ dirty' \in BOOLEAN
    /\ \/ UNCHANGED <<faults, stale, changes>>
       \/ /\ faults + stale + changes < T
          /\ \/ faults' = faults + 1 /\ UNCHANGED <<stale, changes>>
             \/ stale' = stale + 1 /\ UNCHANGED <<faults, changes>>
             \/ changes' = changes + 1 /\ UNCHANGED <<faults, stale>>
    /\ \/ UNCHANGED <<obj, work>>
       \/ ~Current(obj) /\ obj' = Deliver(obj) /\ UNCHANGED work
       \/ obj' = Listed(obj.stored) /\ work' = [busy |-> FALSE] /\ faults' = faults + 1

LEMMA QueueMoved ==
    ASSUME NEW V, NEW R, Ordered(V, R), Queued(V, R), NEW T \in Nat, Bounded(T), MovedAs(T)
    PROVE  /\ Queued(V, R)' /\ Bounded(T)' /\ obj'.stored = obj.stored
           /\ UNCHANGED work \/ (work' = [busy |-> FALSE] /\ ~work'.busy)
           /\ <<obj.cached, obj'.cached>> \in R
           /\ NoLess
<1>1. Bounded(T)' /\ NoLess
  BY DEF Bounded, MovedAs, Smooth, NoLess
<1>2. /\ obj.cached \in V /\ obj.stored \in V /\ <<obj.cached, obj.cached>> \in R
      /\ <<obj.cached, obj.stored>> \in R /\ dirty' \in BOOLEAN
  BY QueuedTypes DEF Ordered, Reflexive, MovedAs
<1>3. CASE UNCHANGED <<obj, work>>
  BY <1>1, <1>2, <1>3 DEF Queued
<1>4. CASE ~Current(obj) /\ obj' = Deliver(obj) /\ UNCHANGED work
  <2>1. obj' \in Object(V) /\ Coherent(obj') /\ obj'.stored = obj.stored
    BY <1>4, DeliverType, DeliverCoherent, StoredVersion DEF Queued
  <2>2. Chain(obj', R) /\ <<obj.cached, obj'.cached>> \in R
    BY <1>4, DeliverChain DEF Queued
  <2> QED
    BY <1>1, <1>2, <1>4, <2>1, <2>2 DEF Queued
<1>5. CASE obj' = Listed(obj.stored) /\ work' = [busy |-> FALSE]
  <2>1. obj' \in Object(V) /\ Coherent(obj') /\ obj'.stored = obj.stored
    BY <1>2, <1>5, ListedType, ListedCoherent, StoredVersion
  <2>2. Chain(obj', R) /\ obj'.cached = obj.stored
    BY <1>5, ListedChain DEF Listed
  <2> QED
    BY <1>1, <1>2, <1>5, <2>1, <2>2 DEF Queued, Work, Idle
<1> QED
  BY <1>3, <1>4, <1>5 DEF MovedAs

\* The first version.
LEMMA QueueBegins ==
    ASSUME NEW V, NEW R, Ordered(V, R), NEW v \in V, QueueInit(v), NEW T \in Nat
    PROVE  Queued(V, R) /\ Bounded(T) /\ obj.stored = v /\ obj.cached = v /\ ~work.busy
<1>1. obj = Listed(v) /\ dirty = TRUE /\ work = [busy |-> FALSE] /\ ~work.busy
  BY DEF QueueInit, Idle
<1>2. obj \in Object(V) /\ Coherent(obj) /\ Chain(obj, R) /\ obj.stored = v
  BY <1>1, ListedType, ListedCoherent, ListedChain, StoredVersion
<1>3. obj.cached = v
  BY <1>1 DEF Listed
<1>4. Queued(V, R)
  BY <1>1, <1>2 DEF Queued, Work, Idle
<1>5. Bounded(T)
  BY DEF Bounded, QueueInit
<1> QED
  BY <1>1, <1>2, <1>3, <1>4, <1>5

\* A patch takes every field from the stored version or from the reconcile; the object
\* goes with its last finalizer.
LEMMA MergedFields ==
    ASSUME NEW c, NEW D, c = [f \in D |-> c[f]], {"exists", "deleting", "finalizer"} \subseteq D,
           NEW F
    PROVE  LET m == Merged(c, F)
               w(f) == IF f \in F /\ work.new[f] # work.old[f] THEN work.new[f] ELSE c[f]
           IN  /\ DOMAIN m = D /\ m = [f \in D |-> m[f]]
               /\ \A f \in D \ {"exists"} : m[f] = w(f)
               /\ m["exists"] = IF w("deleting") /\ ~w("finalizer") THEN FALSE
                                ELSE w("exists")
<1> DEFINE w(f) == IF f \in F /\ work.new[f] # work.old[f] THEN work.new[f] ELSE c[f]
           v == [f \in D |-> w(f)]
<1>1. DOMAIN c = D
  OBVIOUS
<1>2. Merged(c, F) = IF v.deleting /\ ~v.finalizer THEN [v EXCEPT !.exists = FALSE] ELSE v
  BY <1>1 DEF Merged
<1>3. \A f \in D : v[f] = w(f)
  OBVIOUS
<1> HIDE DEF w
<1>4. CASE w("deleting") /\ ~w("finalizer")
  BY <1>2, <1>3, <1>4 DEF w
<1>5. CASE ~(w("deleting") /\ ~w("finalizer"))
  BY <1>2, <1>3, <1>5 DEF w
<1> QED
  BY <1>4, <1>5

-----------------------------------------------------------------------------
(* An object and its counterpart on the agent *)

\* A deletion is for ever.
Lasting(V) == {p \in V \X V : p[1].deleting => p[2].deleting}

LEMMA LastingOrdered ==
    ASSUME NEW V
    PROVE  Ordered(V, Lasting(V))
BY DEF Ordered, Reflexive, Transitive, Lasting

Versions(V) ==
    \A v \in V : /\ v.exists \in BOOLEAN /\ v.deleting \in BOOLEAN
                 /\ v.finalizer \in BOOLEAN /\ v.ext \in Nat

\* While nothing fails and no copy is outdated the controller has the name of what it
\* has created, stored or about to be, and the finalizer is held as long as that is there.
Followed(found) ==
    /\ created <= 1
    /\ obj.stored.ext <= created
    /\ work.busy => work.new.ext <= created
    /\ created > 0 => \/ ~obj.stored.exists
                      \/ obj.stored.ext # 0
                      \/ work.busy /\ work.old.ext = 0 /\ work.new.ext # 0
    /\ ~forced /\ found # {} =>
            /\ obj.stored.exists /\ obj.stored.finalizer
            /\ work.busy => work.new.finalizer

\* found: the counterparts on the agent; dying: one of them is told to go.
Mirror(found, dying) ==
    /\ created \in Nat
    /\ found \subseteq 1 .. created
    /\ dying => obj.cached.deleting
    /\ changes = 0 /\ ~obj.cached.deleting => found = 1 .. created
    /\ changes = 0 => created <= 1
    /\ work.busy /\ work.old.ext # 0 => work.new.ext # 0
    /\ Smooth => Followed(found)

\* A reconcile ends and nothing was created: a name that is known is kept, one that is
\* new is that of a counterpart, and the finalizer stays.
Stays(v, f, f2, d, d2) ==
    /\ UNCHANGED <<created, forced>> /\ f2 = f
    /\ d2 => d \/ obj.cached.deleting
    /\ v.ext \in {obj.cached.ext} \cup f
    /\ obj.cached.ext # 0 => v.ext # 0
    /\ obj.cached.finalizer => v.finalizer

\* The finalizer goes: no name is known, the counterpart is gone, or it is given up.
Goes(v, f, f2, d, d2) ==
    /\ UNCHANGED created /\ (forced => forced') /\ f2 = f /\ (d2 => d)
    /\ obj.cached.exists /\ v.ext = obj.cached.ext
    /\ obj.cached.ext = 0 \/ obj.cached.ext \notin f \/ forced'

\* A counterpart is created; its name is lost if the call seems to fail.
Comes(v, f, f2, d, d2) ==
    /\ obj.cached.exists /\ ~obj.cached.deleting /\ obj.cached.finalizer
    /\ f = {} /\ obj.cached.ext = 0
    /\ created' = created + 1 /\ UNCHANGED forced
    /\ f2 = {created + 1} /\ (d2 => d)
    /\ Smooth' => v.ext = created + 1 /\ v.finalizer

LEMMA MirrorEnds ==
    ASSUME NEW V, Versions(V), Queued(V, Lasting(V)), NEW T \in Nat, Bounded(T),
           NEW v \in V, EndedAs(T, TRUE, v),
           NEW f, NEW d, Mirror(f, d), NEW f2, NEW d2,
           \/ Stays(v, f, f2, d, d2)
           \/ Goes(v, f, f2, d, d2)
           \/ Comes(v, f, f2, d, d2)
    PROVE  Queued(V, Lasting(V))' /\ Bounded(T)' /\ Mirror(f2, d2)'
<1>1. /\ Queued(V, Lasting(V))' /\ Bounded(T)'
      /\ work'.busy /\ work'.old = obj.cached /\ work'.new = v
      /\ stale' = 0 => stale = 0 /\ obj.cached = obj.stored
      /\ NoLess
  BY QueueEnds, LastingOrdered
<1>2. ~work.busy /\ obj' = obj /\ changes' = changes
  BY DEF EndedAs
<1>3. /\ obj.stored \in V /\ obj.cached \in V
  BY QueuedTypes, LastingOrdered
<1>4. Smooth' => Smooth /\ obj.cached = obj.stored
  BY <1>1, SmoothIsFresh DEF NoLess
<1>5. /\ obj.stored.ext \in Nat /\ obj.cached.ext \in Nat /\ v.ext \in Nat
      /\ obj.cached.deleting \in BOOLEAN
  BY <1>3 DEF Versions
<1>6. created \in Nat /\ f \subseteq 1 .. created /\ changes \in Nat
  BY DEF Mirror, Bounded
<1>7. /\ created' \in Nat
      /\ f2 \subseteq 1 .. created'
      /\ d2 => obj.cached.deleting
      /\ changes = 0 /\ ~obj.cached.deleting => f2 = 1 .. created'
      /\ changes = 0 => created' <= 1
  <2>1. CASE UNCHANGED created /\ f2 = f /\ (d2 => d \/ obj.cached.deleting)
    BY <2>1 DEF Mirror
  <2>2. CASE /\ ~obj.cached.deleting /\ f = {} /\ created' = created + 1
             /\ f2 = {created + 1} /\ (d2 => d)
    <3>1. f2 \subseteq 1 .. created' /\ created' \in Nat
      BY <1>6, <2>2
    <3>2. changes = 0 => created = 0
      <4>1. changes = 0 => 1 .. created = {}
        BY <2>2 DEF Mirror
      <4>2. created > 0 => 1 \in 1 .. created
        BY <1>6
      <4> QED
        BY <1>6, <4>1, <4>2
    <3>3. changes = 0 => f2 = 1 .. created' /\ created' <= 1
      BY <2>2, <3>2
    <3> QED
      BY <2>2, <3>1, <3>3 DEF Mirror
  <2> QED
    BY <2>1, <2>2 DEF Stays, Goes, Comes
<1>8. ASSUME Smooth'
      PROVE  /\ created' <= 1
             /\ obj.stored.ext <= created'
             /\ v.ext <= created'
             /\ created' > 0 => \/ ~obj.stored.exists
                                \/ obj.stored.ext # 0
                                \/ obj.cached.ext = 0 /\ v.ext # 0
             /\ ~forced' /\ f2 # {} =>
                     /\ obj.stored.exists /\ obj.stored.finalizer
                     /\ v.finalizer
  <2>1. Smooth /\ obj.cached = obj.stored
    BY <1>4, <1>8
  <2>2. /\ created <= 1 /\ obj.stored.ext <= created
        /\ created > 0 => ~obj.stored.exists \/ obj.stored.ext # 0
        /\ ~forced /\ f # {} => obj.stored.exists /\ obj.stored.finalizer
    BY <1>2, <2>1 DEF Mirror, Followed
  <2>3. CASE /\ UNCHANGED <<created, forced>> /\ f2 = f
             /\ v.ext \in {obj.cached.ext} \cup f
             /\ obj.cached.finalizer => v.finalizer
    <3>1. v.ext <= created
      <4>1. v.ext = obj.stored.ext \/ v.ext \in 1 .. created
        BY <1>6, <2>1, <2>3
      <4> QED
        BY <1>5, <1>6, <2>2, <4>1
    <3> QED
      BY <2>1, <2>2, <2>3, <3>1
  <2>4. CASE /\ UNCHANGED created /\ (forced => forced') /\ f2 = f
             /\ obj.cached.exists /\ v.ext = obj.cached.ext
             /\ obj.cached.ext = 0 \/ obj.cached.ext \notin f \/ forced'
    <3>1. f = {} \/ forced'
      <4>1. CASE obj.cached.ext = 0
        <5>1. created = 0
          BY <1>6, <2>1, <2>2, <2>4, <4>1
        <5> QED
          BY <1>6, <5>1
      <4>2. CASE obj.cached.ext # 0 /\ obj.cached.ext \notin f
        <5>1. created = 1 /\ obj.cached.ext = 1
          BY <1>5, <1>6, <2>1, <2>2, <4>2
        <5>2. \A n \in f : n = 1
          BY <1>6, <5>1
        <5> QED
          BY <4>2, <5>1, <5>2
      <4> QED
        BY <2>4, <4>1, <4>2
    <3> QED
      BY <2>1, <2>2, <2>4, <3>1
  <2>5. CASE /\ obj.cached.exists /\ obj.cached.finalizer
             /\ f = {} /\ obj.cached.ext = 0
             /\ created' = created + 1 /\ UNCHANGED forced
             /\ f2 = {created + 1}
             /\ v.ext = created + 1 /\ v.finalizer
    <3>1. created = 0
      BY <1>6, <2>1, <2>2, <2>5
    <3> QED
      BY <2>1, <2>2, <2>5, <3>1
  <2> QED
    BY <1>8, <2>3, <2>4, <2>5 DEF Stays, Goes, Comes
<1>9. obj.cached.ext # 0 => v.ext # 0
  BY DEF Stays, Goes, Comes
<1>10. Followed(f2)' \/ ~Smooth'
  BY <1>1, <1>2, <1>8 DEF Followed
<1> QED
  BY <1>1, <1>2, <1>7, <1>9, <1>10 DEF Mirror

\* A patch that gets through writes the name and the finalizer.
LEMMA MirrorPatched ==
    ASSUME NEW V, Versions(V), Queued(V, Lasting(V)), NEW T \in Nat, Bounded(T),
           NEW F, PatchedAs(T, F), NEW f, NEW d, Mirror(f, d), UNCHANGED <<created, forced>>,
           NEW m \in V, m = Merged(obj.stored, F), m.deleting = obj.stored.deleting,
           m.ext \in {work.new.ext, obj.stored.ext},
           work.new.ext = work.old.ext => m.ext = obj.stored.ext,
           m.finalizer \in {work.new.finalizer, obj.stored.finalizer},
           m.exists = IF m.deleting /\ ~m.finalizer THEN FALSE ELSE obj.stored.exists,
           Smooth' /\ work.new.ext # work.old.ext => m.ext = work.new.ext
    PROVE  Queued(V, Lasting(V))' /\ Bounded(T)' /\ Mirror(f, d)'
<1>1. /\ obj.stored \in V /\ obj.cached \in V /\ work.old \in V /\ work.new \in V /\ work.busy
  BY QueuedTypes, LastingOrdered DEF PatchedAs
<1>2. <<obj.stored, m>> \in Lasting(V)
  BY <1>1 DEF Lasting
<1>3. /\ Queued(V, Lasting(V))' /\ Bounded(T)' /\ ~work'.busy
      /\ IF obj.stored.exists THEN obj'.stored = m ELSE obj' = obj
      /\ <<obj.cached, obj'.cached>> \in Lasting(V)
      /\ NoLess
  BY <1>2, QueuePatched, LastingOrdered
<1>4. changes' = changes /\ created' = created /\ forced' = forced
  BY DEF PatchedAs
<1>5. obj.cached.deleting => obj'.cached.deleting
  BY <1>3 DEF Lasting
<1>6. /\ created \in Nat /\ obj.stored.ext \in Nat /\ work.new.ext \in Nat
      /\ work.old.ext \in Nat /\ m.ext \in Nat
  BY <1>1 DEF Versions, Mirror
<1>7. Smooth' => Followed(f)'
  <2>1. SUFFICES ASSUME Smooth' PROVE Followed(f)'
    OBVIOUS
  <2>2. Followed(f) /\ (work.old.ext # 0 => work.new.ext # 0)
    BY <1>1, <1>3, <2>1 DEF NoLess, Mirror
  <2>3. CASE ~obj.stored.exists
    BY <1>3, <1>4, <2>2, <2>3 DEF Followed
  <2>4. CASE obj.stored.exists
    <3>1. /\ created <= 1 /\ obj.stored.ext <= created /\ work.new.ext <= created
          /\ created > 0 => obj.stored.ext # 0 \/ (work.old.ext = 0 /\ work.new.ext # 0)
          /\ ~forced /\ f # {} => obj.stored.finalizer /\ work.new.finalizer
      BY <1>1, <2>2, <2>4 DEF Followed
    <3>2. created > 0 => m.ext # 0
      <4>1. CASE work.new.ext # work.old.ext
        BY <1>6, <2>1, <2>2, <3>1, <4>1
      <4>2. CASE work.new.ext = work.old.ext
        BY <1>6, <2>2, <3>1, <4>2
      <4> QED
        BY <4>1, <4>2
    <3>3. ~forced /\ f # {} => m.finalizer /\ m.exists
      BY <2>4, <3>1
    <3>4. m.ext <= created
      BY <3>1
    <3>5. obj'.stored = m /\ ~work'.busy
      BY <1>3, <2>4
    <3> QED
      <4>1. ~forced' /\ f # {} => obj'.stored.exists /\ obj'.stored.finalizer
        <5>1. ~forced' => ~forced
          BY <1>4
        <5>2. ~forced' /\ f # {} => m.finalizer /\ m.exists
          BY <3>3, <5>1
        <5> QED
          BY <3>5, <5>2
      <4>2. /\ created' <= 1 /\ obj'.stored.ext <= created'
            /\ created' > 0 => obj'.stored.ext # 0
        BY <1>4, <3>1, <3>2, <3>4, <3>5
      <4> QED
        BY <3>5, <4>1, <4>2 DEF Followed
  <2> QED
    BY <2>3, <2>4
<1> QED
  BY <1>3, <1>4, <1>5, <1>7 DEF Mirror

\* Another client writes the object, and not its name or its finalizer.
LEMMA MirrorStored ==
    ASSUME NEW V, Versions(V), Queued(V, Lasting(V)), NEW T \in Nat, Bounded(T),
           NEW v \in V, StoredAs(T, v), NEW f, NEW d, Mirror(f, d),
           UNCHANGED <<created, forced>>,
           obj.stored.deleting => v.deleting, v.ext = obj.stored.ext,
           v.finalizer = obj.stored.finalizer,
           obj.stored.exists /\ obj.stored.finalizer => v.exists,
           v.exists => obj.stored.exists
    PROVE  Queued(V, Lasting(V))' /\ Bounded(T)' /\ Mirror(f, d)'
<1>1. <<obj.stored, v>> \in Lasting(V)
  BY QueuedTypes, LastingOrdered DEF Lasting
<1>2. /\ Queued(V, Lasting(V))' /\ Bounded(T)' /\ obj'.stored = v /\ UNCHANGED work
      /\ <<obj.cached, obj'.cached>> \in Lasting(V) /\ NoLess
  BY <1>1, QueueStored, LastingOrdered
<1>3. obj.cached.deleting => obj'.cached.deleting
  BY <1>2 DEF Lasting
<1>4. Smooth' => Followed(f)'
  <2>1. SUFFICES ASSUME Smooth' PROVE Followed(f)'
    OBVIOUS
  <2>2. Followed(f)
    BY <1>2, <2>1 DEF NoLess, Mirror
  <2> QED
    BY <1>2, <2>2 DEF Followed
<1> QED
  BY <1>2, <1>3, <1>4 DEF Mirror, NoLess

\* Nothing is written; a counterpart may go, if it was told to or if the surroundings
\* change.
LEMMA MirrorMoved ==
    ASSUME NEW V, Versions(V), Queued(V, Lasting(V)), NEW T \in Nat, Bounded(T),
           MovedAs(T), NEW f, NEW d, Mirror(f, d), UNCHANGED <<created, forced>>,
           NEW f2, NEW d2, f2 \subseteq f, d2 => d,
           f2 = f \/ d \/ changes' # 0
    PROVE  Queued(V, Lasting(V))' /\ Bounded(T)' /\ Mirror(f2, d2)'
<1>1. /\ Queued(V, Lasting(V))' /\ Bounded(T)' /\ obj'.stored = obj.stored
      /\ UNCHANGED work \/ ~work'.busy
      /\ <<obj.cached, obj'.cached>> \in Lasting(V)
      /\ NoLess
  BY QueueMoved, LastingOrdered
<1>2. obj.cached.deleting => obj'.cached.deleting
  BY <1>1 DEF Lasting
<1>3. Smooth' => Followed(f2)'
  <2>1. SUFFICES ASSUME Smooth' PROVE Followed(f2)'
    OBVIOUS
  <2>2. Followed(f) /\ Smooth
    BY <1>1, <2>1 DEF NoLess, Mirror
  <2>3. UNCHANGED work
    BY <2>1, <2>2 DEF MovedAs, Smooth, Bounded
  <2> QED
    BY <1>1, <2>2, <2>3 DEF Followed
<1>4. (changes' = 0 /\ ~obj'.cached.deleting => f2 = 1 .. created) /\ f2 \subseteq 1 .. created
  BY <1>1, <1>2 DEF Mirror, NoLess
<1>5. d2 => obj'.cached.deleting
  BY <1>2 DEF Mirror
<1>6. created \in Nat /\ (changes' = 0 => created <= 1)
      /\ (work.busy /\ work.old.ext # 0 => work.new.ext # 0)
  BY <1>1 DEF Mirror, NoLess
<1> QED
  BY <1>1, <1>3, <1>4, <1>5, <1>6 DEF Mirror

-----------------------------------------------------------------------------
(* The Playbook *)

PBDying == \E n \in PB!Names : counterparts[n] = "deleting"

PBInv ==
    /\ Queued(PB!Playbook, Lasting(PB!Playbook)) /\ Bounded(MoreTrouble)
    /\ Mirror(PB!Found, PBDying)
    /\ agent \in PB!KubeforceAgent
    /\ counterparts \in [PB!Names -> PB!Counterpart]
    /\ created \in {0} \cup PB!Names

\* What the library does is what it does for this object.
LEMMA PBQueue ==
    ASSUME NEW fresh, NEW v, NEW again \in BOOLEAN
    PROVE  /\ PB!EndWith(fresh, v, again) => EndedAs(MoreTrouble, fresh, v)
           /\ PB!EndFaulty(fresh, v) => EndedAs(MoreTrouble, fresh, v) /\ faults' = faults + 1
           /\ PB!EndEarly(again) => MovedAs(MoreTrouble)
<1>1. PB!EndWith(fresh, v, again) => EndedAs(MoreTrouble, fresh, v)
  BY DEF PB!EndWith, PB!Begin, PB!Current, PB!Trouble, EndedAs, Current
<1>2. PB!EndFaulty(fresh, v) => EndedAs(MoreTrouble, fresh, v) /\ faults' = faults + 1
  BY DEF PB!EndFaulty, PB!Begin, PB!Current, PB!Trouble, EndedAs, Current
<1>3. PB!EndEarly(again) => MovedAs(MoreTrouble)
  BY DEF PB!EndEarly, PB!Begin, PB!Current, PB!Trouble, MovedAs
<1> QED
  BY <1>1, <1>2, <1>3

LEMMA PBWrites ==
    ASSUME NEW o, NEW v, NEW F
    PROVE  PB!Store(o, v) = Store(o, v) /\ PB!Merged(v, F) = Merged(v, F)
<1>1. PB!Store(o, v) = Store(o, v)
  BY DEF PB!Store, PB!Changes, PB!Overflows, Store, Changes, Overflows
<1>2. PB!Merged(v, F) = Merged(v, F)
  BY DEF PB!Merged, Merged
<1> QED
  BY <1>1, <1>2

LEMMA PBVersions ==
    /\ Versions(PB!Playbook)
    /\ PB!NewPlaybook \in PB!Playbook
    /\ MoreTrouble \in Nat
<1>1. {0} \cup PB!Names \subseteq Nat
  BY MoreTroubleAssumption DEF PB!Names
<1>2. Versions(PB!Playbook)
  BY <1>1 DEF Versions, PB!Playbook
<1>3. PB!NewPlaybook \in PB!Playbook
  BY DEF PB!Playbook, PB!NewPlaybook, PB!ExternalPhases, PB!Phases
<1> QED
  BY <1>2, <1>3, MoreTroubleAssumption

\* The phase is all that reconcilePhase changes, but for the failure.
LEMMA PBPhase ==
    ASSUME NEW p \in PB!Playbook
    PROVE  LET v == PB!reconcilePhase(p)
           IN  /\ v \in PB!Playbook
               /\ v.ext = p.ext /\ v.finalizer = p.finalizer
<1>1. p.phase \in PB!Phases
  BY DEF PB!Playbook
<1>2. \A x \in PB!Phases : /\ [p EXCEPT !.phase = x] \in PB!Playbook
                           /\ [p EXCEPT !.phase = x].ext = p.ext
                           /\ [p EXCEPT !.phase = x].finalizer = p.finalizer
  BY DEF PB!Playbook
<1>3. /\ [p EXCEPT !.phase = "Failed", !.failing = TRUE] \in PB!Playbook
      /\ [p EXCEPT !.phase = "Failed", !.failing = TRUE].ext = p.ext
      /\ [p EXCEPT !.phase = "Failed", !.failing = TRUE].finalizer = p.finalizer
  BY DEF PB!Playbook, PB!Phases
<1>4. \/ PB!reconcilePhase(p) = [p EXCEPT !.phase = "Failed", !.failing = TRUE]
      \/ \E x \in PB!Phases : PB!reconcilePhase(p) = [p EXCEPT !.phase = x]
  BY <1>1 DEF PB!reconcilePhase, PB!Phases
<1> QED
  BY <1>2, <1>3, <1>4

LEMMA PBEnded ==
    ASSUME PBInv, NEW p \in PB!Playbook,
           EndedAs(MoreTrouble, TRUE, PB!reconcilePhase(p)),
           \/ Stays(p, PB!Found, PB!Found', PBDying, PBDying')
           \/ Goes(p, PB!Found, PB!Found', PBDying, PBDying')
           \/ Comes(p, PB!Found, PB!Found', PBDying, PBDying'),
           agent' \in PB!KubeforceAgent,
           counterparts' \in [PB!Names -> PB!Counterpart],
           created' \in {0} \cup PB!Names
    PROVE  PBInv'
<1>1. PICK v : v = PB!reconcilePhase(p)
  OBVIOUS
<1>2. v \in PB!Playbook /\ v.ext = p.ext /\ v.finalizer = p.finalizer
  BY <1>1, PBPhase
<1>3. PICK f, f2, d, d2 : f = PB!Found /\ f2 = PB!Found' /\ d = PBDying /\ d2 = PBDying'
  OBVIOUS
<1>4. Mirror(f, d) /\ Queued(PB!Playbook, Lasting(PB!Playbook)) /\ Bounded(MoreTrouble)
  BY <1>3 DEF PBInv
<1>5. Stays(v, f, f2, d, d2) \/ Goes(v, f, f2, d, d2) \/ Comes(v, f, f2, d, d2)
  BY <1>2, <1>3 DEF Stays, Goes, Comes
<1>6. /\ Queued(PB!Playbook, Lasting(PB!Playbook))' /\ Bounded(MoreTrouble)'
      /\ Mirror(f2, d2)'
  <2>1. EndedAs(MoreTrouble, TRUE, v)
    BY <1>1
  <2> QED
    BY <1>2, <1>4, <1>5, <2>1, MirrorEnds, PBVersions
<1>7. Mirror(PB!Found, PBDying)'
  BY <1>3, <1>6 DEF Mirror, Followed
<1> QED
  BY <1>6, <1>7 DEF PBInv

LEMMA PBTypes ==
    ASSUME PBInv
    PROVE  /\ obj.cached \in PB!Playbook /\ obj.stored \in PB!Playbook
           /\ obj.cached.ext \in Nat /\ created \in Nat
           /\ \A n \in PB!Names : counterparts[n] \in PB!Counterpart
BY QueuedTypes, LastingOrdered, PBVersions DEF PBInv, Mirror, Versions

\* The counterparts are as before.
LEMMA PBSame ==
    ASSUME UNCHANGED counterparts
    PROVE  PB!Found' = PB!Found /\ PBDying' = PBDying
BY DEF PB!Found, PBDying

\* The reconciles that wait, fail or follow the counterpart.
LEMMA PBWaits ==
    ASSUME PBInv,
           \/ PB!ReconcileAddFinalizer
           \/ PB!ReconcileTerminal
           \/ PB!ReconcileNoAgent
           \/ PB!ReconcileAgentPaused
           \/ PB!ReconcileWaitForAgent
           \/ PB!ReconcileSyncFails
           \/ PB!ReconcileLost
           \/ PB!ReconcileSync
           \/ PB!ReconcileDeleteNoAgent
           \/ PB!ReconcileDeleteWaits
           \/ PB!ReconcileDeleteFails
    PROVE  PBInv'
<1> DEFINE c == obj.cached
<1>1. /\ c \in PB!Playbook /\ c.ext \in Nat
      /\ \A n \in PB!Names : counterparts[n] \in PB!Counterpart
  BY PBTypes
<1>2. /\ [c EXCEPT !.finalizer = TRUE] \in PB!Playbook
      /\ [c EXCEPT !.finalizer = TRUE].ext = c.ext
      /\ [c EXCEPT !.finalizer = TRUE].finalizer
  BY <1>1 DEF PB!Playbook
<1>3. /\ PB!Failing(c) \in PB!Playbook
      /\ PB!Failing(c).ext = c.ext
      /\ PB!Failing(c).finalizer = c.finalizer
  BY <1>1 DEF PB!Playbook, PB!Failing
<1>4. /\ [c EXCEPT !.failing = TRUE] \in PB!Playbook
      /\ [c EXCEPT !.failing = TRUE].ext = c.ext
      /\ [c EXCEPT !.failing = TRUE].finalizer = c.finalizer
  BY <1>1 DEF PB!Playbook
<1> HIDE DEF c
<1>5. ASSUME NEW p \in PB!Playbook, p.ext \in {c.ext} \cup PB!Found, c.ext # 0 => p.ext # 0,
             c.finalizer => p.finalizer,
             EndedAs(MoreTrouble, TRUE, PB!reconcilePhase(p)),
             UNCHANGED <<agent, counterparts, created, forced>>
      PROVE  PBInv'
  <2>1. Stays(p, PB!Found, PB!Found', PBDying, PBDying')
    BY <1>5, PBSame DEF Stays, c
  <2>2. /\ agent' \in PB!KubeforceAgent /\ counterparts' \in [PB!Names -> PB!Counterpart]
        /\ created' \in {0} \cup PB!Names
    BY <1>5 DEF PBInv
  <2> QED
    BY <1>5, <2>1, <2>2, PBEnded
<1>6. ASSUME NEW p \in PB!Playbook, p.ext = c.ext, c.finalizer => p.finalizer,
             NEW again \in BOOLEAN,
             PB!End(p, again) \/ PB!EndFaulty(TRUE, PB!reconcilePhase(p)),
             UNCHANGED <<agent, counterparts, created, forced>>
      PROVE  PBInv'
  <2>1. EndedAs(MoreTrouble, TRUE, PB!reconcilePhase(p))
    BY <1>6, PBQueue DEF PB!End
  <2> QED
    BY <1>5, <1>6, <2>1
<1>7. CASE PB!ReconcileAddFinalizer
  BY <1>2, <1>6, <1>7
     DEF PB!ReconcileAddFinalizer, PB!Quiet, PB!surroundings, PB!observers, c
<1>8. CASE PB!ReconcileTerminal \/ PB!ReconcileAgentPaused
  BY <1>1, <1>6, <1>8 DEF PB!ReconcileTerminal, PB!ReconcileAgentPaused, PB!Quiet,
                          PB!surroundings, PB!observers, c
<1>9. CASE PB!ReconcileNoAgent \/ PB!ReconcileWaitForAgent \/ PB!ReconcileLost
  BY <1>3, <1>6, <1>9 DEF PB!ReconcileNoAgent, PB!ReconcileWaitForAgent,
        PB!ReconcileLost, PB!Quiet, PB!surroundings, PB!observers, c
<1>10. CASE PB!ReconcileSyncFails \/ PB!ReconcileDeleteFails
  BY <1>3, <1>6, <1>10 DEF PB!ReconcileSyncFails, PB!ReconcileDeleteFails, PB!Quiet,
        PB!surroundings, PB!observers, c
<1>11. CASE PB!ReconcileDeleteNoAgent
  BY <1>4, <1>6, <1>11
     DEF PB!ReconcileDeleteNoAgent, PB!Quiet, PB!surroundings, PB!observers, c
<1>12. CASE PB!ReconcileDeleteWaits
  BY <1>3, <1>6, <1>12 DEF PB!ReconcileDeleteWaits, PB!surroundings, c
<1>13. CASE PB!ReconcileSync
  <2>1. PICK n \in PB!Found :
            /\ PB!End([c EXCEPT !.ext = n, !.failing = FALSE, !.sync = "True",
                                !.verdict = PB!VerdictOf(counterparts[n]),
                                !.extPhase = PB!ExternalPhaseOf(counterparts[n])],
                      counterparts[n] \notin PB!Verdicts)
            /\ PB!Quiet
    BY <1>13 DEF PB!ReconcileSync, c
  <2>2. PICK p : p = [c EXCEPT !.ext = n, !.failing = FALSE, !.sync = "True",
                               !.verdict = PB!VerdictOf(counterparts[n]),
                               !.extPhase = PB!ExternalPhaseOf(counterparts[n])]
    OBVIOUS
  <2>3. n \in PB!Names /\ n \in Nat /\ n # 0
    BY MoreTroubleAssumption DEF PB!Found, PB!Names
  <2>4. /\ PB!VerdictOf(counterparts[n]) \in PB!Verdicts \cup {"none"}
        /\ PB!ExternalPhaseOf(counterparts[n]) \in PB!ExternalPhases
    BY DEF PB!VerdictOf, PB!ExternalPhaseOf, PB!ExternalPhases
  <2>5. p \in PB!Playbook /\ p.ext = n /\ p.finalizer = c.finalizer
    BY <1>1, <2>2, <2>3, <2>4 DEF PB!Playbook
  <2>6. EndedAs(MoreTrouble, TRUE, PB!reconcilePhase(p))
    <3>1. PICK again \in BOOLEAN : PB!EndWith(TRUE, PB!reconcilePhase(p), again)
      BY <2>1, <2>2 DEF PB!End
    <3> QED
      BY <3>1, PBQueue
  <2>7. UNCHANGED <<agent, counterparts, created, forced>>
    BY <2>1 DEF PB!Quiet, PB!surroundings, PB!observers
  <2> QED
    BY <1>5, <2>3, <2>5, <2>6, <2>7
<1> QED
  BY <1>7, <1>8, <1>9, <1>10, <1>11, <1>12, <1>13

\* The reconciles that give up the finalizer.
LEMMA PBReleases ==
    ASSUME PBInv,
           PB!ReconcileForget \/ PB!ReconcileAbandon \/ PB!ReconcileDeleted
    PROVE  PBInv'
<1> DEFINE c == obj.cached
<1>1. c \in PB!Playbook
  BY PBTypes
<1>2. /\ PB!Forget(c) \in PB!Playbook /\ PB!Forget(c).ext = c.ext
      /\ [PB!Forget(c) EXCEPT !.failing = FALSE] \in PB!Playbook
      /\ [PB!Forget(c) EXCEPT !.failing = FALSE].ext = c.ext
  BY <1>1 DEF PB!Playbook, PB!Forget
<1>3. ASSUME NEW p \in PB!Playbook, p.ext = c.ext, PB!End(p, FALSE), c.exists,
             UNCHANGED <<agent, counterparts, created>>, forced => forced',
             c.ext = 0 \/ c.ext \notin PB!Found \/ forced'
      PROVE  PBInv'
  <2>1. EndedAs(MoreTrouble, TRUE, PB!reconcilePhase(p))
    BY <1>3, PBQueue DEF PB!End
  <2>2. Goes(p, PB!Found, PB!Found', PBDying, PBDying')
    BY <1>3, PBSame DEF Goes
  <2>3. /\ agent' \in PB!KubeforceAgent /\ counterparts' \in [PB!Names -> PB!Counterpart]
        /\ created' \in {0} \cup PB!Names
    BY <1>3 DEF PBInv
  <2> QED
    BY <1>3, <2>1, <2>2, <2>3, PBEnded
<1>4. CASE PB!ReconcileForget
  BY <1>2, <1>3, <1>4 DEF PB!ReconcileForget, PB!Discarded, PB!Reconcilable, PB!Quiet,
                          PB!surroundings, PB!observers
<1>5. CASE PB!ReconcileAbandon
  BY <1>2, <1>3, <1>5 DEF PB!ReconcileAbandon, PB!Discarded, PB!Reconcilable,
                          PB!surroundings
<1>6. CASE PB!ReconcileDeleted
  BY <1>2, <1>3, <1>6 DEF PB!ReconcileDeleted, PB!Deletes, PB!Discarded, PB!Reconcilable,
                          PB!Quiet, PB!surroundings, PB!observers
<1> QED
  BY <1>4, <1>5, <1>6

\* The counterpart is told to go.
LEMMA PBDeletes ==
    ASSUME PBInv, PB!ReconcileDeleteCounterpart
    PROVE  PBInv'
<1> DEFINE c == obj.cached
<1>1. c \in PB!Playbook /\ counterparts \in [PB!Names -> PB!Counterpart]
  BY PBTypes DEF PBInv
<1>2. PICK p : p = PB!Synced(c)
  OBVIOUS
<1>3. p \in PB!Playbook /\ p.ext = c.ext /\ p.finalizer = c.finalizer
  BY <1>1, <1>2 DEF PB!Playbook, PB!Synced
<1>4. /\ c.deleting /\ c.ext \in PB!Found
      /\ counterparts' = [counterparts EXCEPT ![c.ext] = "deleting"]
      /\ UNCHANGED <<agent, created, forced>>
  BY DEF PB!ReconcileDeleteCounterpart, PB!Deletes, PB!Discarded, PB!observers
<1>5. EndedAs(MoreTrouble, TRUE, PB!reconcilePhase(p))
  BY <1>2, PBQueue DEF PB!ReconcileDeleteCounterpart, PB!End
<1>6. PB!Found' = PB!Found
  BY <1>1, <1>4 DEF PB!Found
<1>7. counterparts' \in [PB!Names -> PB!Counterpart]
  BY <1>1, <1>4 DEF PB!Counterpart
<1>8. Stays(p, PB!Found, PB!Found', PBDying, PBDying')
  BY <1>3, <1>4, <1>6 DEF Stays
<1>9. agent' \in PB!KubeforceAgent /\ created' \in {0} \cup PB!Names
  BY <1>4 DEF PBInv
<1> QED
  BY <1>3, <1>5, <1>7, <1>8, <1>9, PBEnded

\* The counterpart is created, and the call may seem to fail.
LEMMA PBCreates ==
    ASSUME PBInv, PB!ReconcileCreate \/ PB!ReconcileCreateFails
    PROVE  PBInv'
<1> DEFINE c == obj.cached
<1>1. /\ c \in PB!Playbook /\ counterparts \in [PB!Names -> PB!Counterpart]
      /\ created \in Nat
  BY PBTypes DEF PBInv
<1>2. /\ PB!Failing(c) \in PB!Playbook /\ PB!Failing(c).ext = c.ext
      /\ PB!Failing(c).finalizer = c.finalizer
  BY <1>1 DEF PB!Playbook, PB!Failing
<1>3. /\ c.exists /\ ~c.deleting /\ c.finalizer /\ PB!Found = {} /\ c.ext = 0
  BY DEF PB!ReconcileCreate, PB!ReconcileCreateFails, PB!Active, PB!Wanted,
         PB!Reconcilable, PB!Missing
<1>4. ASSUME PB!CreateCounterpart
      PROVE  /\ PB!Found' = {created + 1}
             /\ PBDying' => PBDying
             /\ counterparts' \in [PB!Names -> PB!Counterpart]
             /\ created' = created + 1 /\ created' \in PB!Names
             /\ UNCHANGED <<agent, forced>>
             /\ agent' \in PB!KubeforceAgent
  <2>1. /\ created + 1 \in PB!Names
        /\ counterparts' = [counterparts EXCEPT ![created + 1] = "active"]
        /\ created' = created + 1 /\ UNCHANGED <<agent, forced>>
    BY <1>4 DEF PB!CreateCounterpart, PB!NextName
  <2>2. counterparts' \in [PB!Names -> PB!Counterpart]
    BY <1>1, <2>1 DEF PB!Counterpart
  <2>3. PB!Found' = {created + 1}
    BY <1>1, <1>3, <2>1 DEF PB!Found
  <2>4. PBDying' => PBDying
    BY <1>1, <2>1 DEF PBDying
  <2> QED
    BY <2>1, <2>2, <2>3, <2>4 DEF PBInv
<1>5. CASE PB!ReconcileCreate
  <2>1. PICK p : p = [c EXCEPT !.ext = created + 1, !.extPhase = "", !.failing = FALSE,
                               !.sync = "True"]
    OBVIOUS
  <2>2. /\ PB!CreateCounterpart
        /\ PB!EndWith(TRUE, PB!reconcilePhase(p), TRUE)
    BY <1>5, <2>1 DEF PB!ReconcileCreate, PB!NextName, PB!End
  <2>3. p \in PB!Playbook /\ p.ext = created + 1 /\ p.finalizer
    <3>1. created + 1 \in PB!Names
      BY <1>4, <2>2
    <3> QED
      BY <1>1, <1>3, <2>1, <3>1 DEF PB!Playbook, PB!ExternalPhases
  <2>4. EndedAs(MoreTrouble, TRUE, PB!reconcilePhase(p))
    BY <2>2, PBQueue
  <2>5. Comes(p, PB!Found, PB!Found', PBDying, PBDying')
    BY <1>3, <1>4, <2>2, <2>3 DEF Comes
  <2> QED
    BY <1>4, <2>2, <2>3, <2>4, <2>5, PBEnded
<1>6. CASE PB!ReconcileCreateFails
  <2>1. /\ EndedAs(MoreTrouble, TRUE, PB!reconcilePhase(PB!Failing(c)))
        /\ faults' = faults + 1
    BY <1>6, PBQueue DEF PB!ReconcileCreateFails
  <2>2. CASE PB!CreateCounterpart
    <3>1. ~Smooth'
      BY <2>1 DEF Smooth, EndedAs, PBInv, Bounded
    <3>2. Comes(PB!Failing(c), PB!Found, PB!Found', PBDying, PBDying')
      BY <1>3, <1>4, <2>2, <3>1 DEF Comes
    <3> QED
      BY <1>2, <1>4, <2>1, <2>2, <3>2, PBEnded
  <2>3. CASE PB!Quiet
    <3>1. /\ UNCHANGED <<agent, counterparts, created, forced>>
          /\ agent' \in PB!KubeforceAgent /\ created' \in {0} \cup PB!Names
          /\ counterparts' \in [PB!Names -> PB!Counterpart]
      BY <2>3 DEF PB!Quiet, PB!surroundings, PB!observers, PBInv
    <3>2. Stays(PB!Failing(c), PB!Found, PB!Found', PBDying, PBDying')
      BY <1>2, <1>3, <3>1, PBSame DEF Stays
    <3> QED
      BY <1>2, <2>1, <3>1, <3>2, PBEnded
  <2> QED
    BY <1>6, <2>2, <2>3 DEF PB!ReconcileCreateFails
<1> QED
  BY <1>5, <1>6

\* Merging two Playbooks gives one.
LEMMA PBMerges ==
    ASSUME NEW c \in PB!Playbook, work.old \in PB!Playbook, work.new \in PB!Playbook,
           NEW F, "exists" \notin F, "deleting" \notin F
    PROVE  LET m == Merged(c, F)
           IN  /\ m \in PB!Playbook /\ m.deleting = c.deleting
               /\ m.ext = IF "ext" \in F /\ work.new.ext # work.old.ext
                          THEN work.new.ext ELSE c.ext
               /\ m.finalizer \in {work.new.finalizer, c.finalizer}
               /\ m.exists = IF m.deleting /\ ~m.finalizer THEN FALSE ELSE c.exists
<1> DEFINE D == {"exists", "deleting", "finalizer", "sync", "verdict", "ext", "extPhase",
                 "failing", "phase"}
           m == Merged(c, F)
           w(f) == IF f \in F /\ work.new[f] # work.old[f] THEN work.new[f] ELSE c[f]
<1>1. c = [f \in D |-> c[f]]
  BY DEF PB!Playbook
<1>2. /\ DOMAIN m = D /\ m = [f \in D |-> m[f]]
      /\ \A f \in D \ {"exists"} : m[f] = w(f)
      /\ m["exists"] = IF w("deleting") /\ ~w("finalizer") THEN FALSE ELSE w("exists")
  BY <1>1, MergedFields
<1> HIDE DEF m
<1>3. /\ m.deleting = w("deleting") /\ m.finalizer = w("finalizer") /\ m.ext = w("ext")
      /\ m.sync = w("sync") /\ m.verdict = w("verdict") /\ m.extPhase = w("extPhase")
      /\ m.failing = w("failing") /\ m.phase = w("phase")
      /\ m.exists = IF w("deleting") /\ ~w("finalizer") THEN FALSE ELSE w("exists")
  BY <1>2
<1>4. w("exists") = c.exists /\ w("deleting") = c.deleting
  OBVIOUS
<1>5. /\ c.exists \in BOOLEAN /\ c.deleting \in BOOLEAN
      /\ w("finalizer") \in BOOLEAN /\ w("failing") \in BOOLEAN
  BY DEF PB!Playbook
<1>6. /\ w("sync") \in {"absent", "True", "False"} /\ w("verdict") \in PB!Verdicts \cup {"none"}
      /\ w("ext") \in {0} \cup PB!Names /\ w("extPhase") \in PB!ExternalPhases
      /\ w("phase") \in PB!Phases
  BY DEF PB!Playbook
<1>7. /\ w("finalizer") \in {work.new.finalizer, c.finalizer}
      /\ w("ext") = IF "ext" \in F /\ work.new.ext # work.old.ext
                    THEN work.new.ext ELSE c.ext
  OBVIOUS
<1> HIDE DEF w
<1>8. m.exists \in BOOLEAN
  BY <1>3, <1>4, <1>5
<1>9. m \in PB!Playbook
  BY <1>2, <1>3, <1>4, <1>5, <1>6, <1>8 DEF PB!Playbook
<1> QED
  BY <1>3, <1>4, <1>7, <1>9 DEF m

\* The deferred patch, all of it or some of its calls.
LEMMA PBPatches ==
    ASSUME PBInv, PB!Patch \/ PB!PatchPartly
    PROVE  PBInv'
<1>1. PICK F : /\ PatchedAs(MoreTrouble, F)
               /\ "exists" \notin F /\ "deleting" \notin F
               /\ Smooth' => "ext" \in F
  <2>1. CASE PB!Patch
    <3> DEFINE F == UNION {PB!Calls[k] : k \in DOMAIN PB!Calls}
    <3>1. F = {"sync", "verdict", "finalizer", "ext", "extPhase", "failing", "phase"}
      BY DEF PB!Calls
    <3>2. /\ work.busy /\ PB!StorePatch(F) /\ UNCHANGED <<faults, stale, changes>>
          /\ dirty' \in BOOLEAN
      BY <2>1 DEF PB!Patch, PB!PatchApplied
    <3> HIDE DEF F
    <3>3. PatchedAs(MoreTrouble, F)
      BY <3>2, PBWrites DEF PB!StorePatch, PB!Idle, PatchedAs
    <3> QED
      BY <3>1, <3>3
  <2>2. CASE PB!PatchPartly
    <3>1. PICK done \in SUBSET DOMAIN PB!Calls : PB!PatchFails(PB!Calls, done)
      BY <2>2 DEF PB!PatchPartly
    <3> DEFINE F == UNION {PB!Calls[k] : k \in done}
    <3>2. F \subseteq {"sync", "verdict", "finalizer", "ext", "extPhase", "failing", "phase"}
      BY DEF PB!Calls
    <3>3. /\ work.busy /\ PB!StorePatch(F) /\ UNCHANGED <<stale, changes>>
          /\ dirty' \in BOOLEAN /\ faults' = faults + 1 /\ faults + stale + changes < MoreTrouble
      BY <3>1 DEF PB!PatchFails, PB!Trouble
    <3> HIDE DEF F
    <3>4. PatchedAs(MoreTrouble, F)
      BY <3>3, PBWrites DEF PB!StorePatch, PB!Idle, PatchedAs
    <3>5. ~Smooth'
      BY <3>3 DEF PBInv, Bounded, Smooth
    <3> QED
      BY <3>2, <3>4, <3>5
  <2> QED
    BY <2>1, <2>2
<1>2. UNCHANGED <<agent, counterparts, created, forced>>
  BY DEF PB!Patch, PB!PatchPartly, PB!Quiet, PB!surroundings, PB!observers
<1>3. /\ Queued(PB!Playbook, Lasting(PB!Playbook)) /\ Bounded(MoreTrouble)
      /\ Versions(PB!Playbook) /\ MoreTrouble \in Nat
  BY PBVersions DEF PBInv
<1>4. /\ obj.stored \in PB!Playbook /\ work.old \in PB!Playbook /\ work.new \in PB!Playbook
  BY <1>1, <1>3, QueuedTypes, LastingOrdered DEF PatchedAs
<1>5. PICK m : m = Merged(obj.stored, F)
  OBVIOUS
<1>6. /\ m \in PB!Playbook /\ m.deleting = obj.stored.deleting
      /\ m.ext = IF "ext" \in F /\ work.new.ext # work.old.ext
                 THEN work.new.ext ELSE obj.stored.ext
      /\ m.finalizer \in {work.new.finalizer, obj.stored.finalizer}
      /\ m.exists = IF m.deleting /\ ~m.finalizer THEN FALSE ELSE obj.stored.exists
  BY <1>1, <1>4, <1>5, PBMerges
<1>7. PICK f, d : f = PB!Found /\ d = PBDying
  OBVIOUS
<1>8. f = PB!Found' /\ d = PBDying' /\ Mirror(f, d)
  BY <1>2, <1>7, PBSame DEF PBInv
<1>9. /\ Queued(PB!Playbook, Lasting(PB!Playbook))' /\ Bounded(MoreTrouble)' /\ Mirror(f, d)'
  <2>1. /\ m.ext \in {work.new.ext, obj.stored.ext}
        /\ work.new.ext = work.old.ext => m.ext = obj.stored.ext
        /\ Smooth' /\ work.new.ext # work.old.ext => m.ext = work.new.ext
        /\ UNCHANGED <<created, forced>>
    BY <1>1, <1>2, <1>6
  <2> QED
    BY <1>1, <1>3, <1>5, <1>6, <1>8, <2>1, MirrorPatched
<1>10. Mirror(PB!Found, PBDying)'
  BY <1>8, <1>9 DEF Mirror, Followed
<1> QED
  BY <1>2, <1>9, <1>10 DEF PBInv

\* Nothing is written to the object.
LEMMA PBMoves ==
    ASSUME PBInv, MovedAs(MoreTrouble), UNCHANGED <<created, forced>>,
           agent' \in PB!KubeforceAgent, counterparts' \in [PB!Names -> PB!Counterpart],
           PB!Found' \subseteq PB!Found, PBDying' => PBDying,
           PB!Found' = PB!Found \/ PBDying \/ changes' # 0
    PROVE  PBInv'
<1>1. PICK f, f2, d, d2 : f = PB!Found /\ f2 = PB!Found' /\ d = PBDying /\ d2 = PBDying'
  OBVIOUS
<1>2. /\ Queued(PB!Playbook, Lasting(PB!Playbook)) /\ Bounded(MoreTrouble)
      /\ Versions(PB!Playbook) /\ MoreTrouble \in Nat /\ Mirror(f, d)
  BY <1>1, PBVersions DEF PBInv
<1>3. /\ Queued(PB!Playbook, Lasting(PB!Playbook))' /\ Bounded(MoreTrouble)'
      /\ Mirror(f2, d2)'
  BY <1>1, <1>2, MirrorMoved
<1>4. Mirror(PB!Found, PBDying)'
  BY <1>1, <1>3 DEF Mirror, Followed
<1> QED
  BY <1>3, <1>4 DEF PBInv

LEMMA PBSurroundings ==
    ASSUME PBInv,
           \/ PB!ReconcileNotFound \/ PB!ReconcilePaused
           \/ PB!ObserveEvent \/ PB!DeletePlaybook
           \/ PB!CounterpartFinishes \/ PB!CounterpartGoes \/ PB!CounterpartLost
           \/ PB!AgentChanges \/ PB!PauseChanges \/ PB!MinutePasses \/ PB!ManagerRestarts
           \/ UNCHANGED PB!vars
    PROVE  PBInv'
<1> DEFINE Same == UNCHANGED <<agent, counterparts, created, forced>>
<1>1. /\ agent \in PB!KubeforceAgent /\ counterparts \in [PB!Names -> PB!Counterpart]
      /\ dirty \in BOOLEAN /\ changes \in Nat
  BY DEF PBInv, Queued, Bounded
<1>2. ASSUME Same, MovedAs(MoreTrouble)
      PROVE  PBInv'
  BY <1>1, <1>2, PBSame, PBMoves
<1>3. ASSUME NEW wakes \in BOOLEAN, PB!Change(wakes)
      PROVE  MovedAs(MoreTrouble) /\ changes' # 0
  BY <1>1, <1>3 DEF PB!Change, PB!Trouble, MovedAs
<1>4. ASSUME UNCHANGED PB!queue
      PROVE  MovedAs(MoreTrouble)
  BY <1>1, <1>4 DEF PB!queue, MovedAs
<1>5. CASE PB!ReconcileNotFound \/ PB!ReconcilePaused
  <2>1. PB!EndEarly(FALSE) /\ Same
    BY <1>5 DEF PB!ReconcileNotFound, PB!ReconcilePaused, PB!Quiet, PB!surroundings,
                PB!observers
  <2> QED
    BY <1>2, <2>1, PBQueue
<1>6. CASE PB!ObserveEvent
  BY <1>2, <1>6 DEF PB!ObserveEvent, PB!DeliverEvent, PB!Current, PB!Deliver, Current,
                    Deliver, MovedAs, PB!Quiet, PB!surroundings, PB!observers
<1>7. CASE PB!DeletePlaybook
  <2> DEFINE s == obj.stored
  <2>1. PICK v : v = IF s.finalizer THEN [s EXCEPT !.deleting = TRUE]
                     ELSE [s EXCEPT !.deleting = TRUE, !.exists = FALSE]
    OBVIOUS
  <2>2. s \in PB!Playbook
    BY PBTypes
  <2>3. /\ v \in PB!Playbook /\ v.deleting /\ v.ext = s.ext /\ v.finalizer = s.finalizer
        /\ s.exists /\ s.finalizer => v.exists
        /\ v.exists => s.exists
    BY <2>1, <2>2 DEF PB!Playbook
  <2>4. StoredAs(MoreTrouble, v) /\ Same
    BY <1>7, <2>1, PBWrites DEF PB!DeletePlaybook, PB!RequestDelete, PB!StoreObject,
        StoredAs, PB!Quiet, PB!surroundings, PB!observers
  <2>5. PICK f, d : f = PB!Found /\ d = PBDying
    OBVIOUS
  <2>6. /\ f = PB!Found' /\ d = PBDying' /\ Mirror(f, d)
        /\ Queued(PB!Playbook, Lasting(PB!Playbook)) /\ Bounded(MoreTrouble)
        /\ Versions(PB!Playbook) /\ MoreTrouble \in Nat
    BY <2>4, <2>5, PBSame, PBVersions DEF PBInv
  <2>7. /\ Queued(PB!Playbook, Lasting(PB!Playbook))' /\ Bounded(MoreTrouble)'
        /\ Mirror(f, d)'
    BY <2>3, <2>4, <2>6, MirrorStored
  <2>8. Mirror(PB!Found, PBDying)'
    BY <2>6, <2>7 DEF Mirror, Followed
  <2> QED
    BY <2>4, <2>7, <2>8 DEF PBInv
<1>8. CASE PB!CounterpartFinishes
  <2>1. PICK n \in PB!Names, x \in PB!Verdicts :
            /\ counterparts[n] = "active"
            /\ counterparts' = [counterparts EXCEPT ![n] = x]
            /\ UNCHANGED <<PB!queue, agent, created, forced>>
    BY <1>8 DEF PB!CounterpartFinishes, PB!observers
  <2>2. counterparts' \in [PB!Names -> PB!Counterpart]
    BY <1>1, <2>1 DEF PB!Counterpart
  <2>3. PB!Found' = PB!Found /\ (PBDying' => PBDying)
    BY <1>1, <2>1 DEF PB!Found, PBDying, PB!Verdicts
  <2> QED
    BY <1>1, <1>4, <2>1, <2>2, <2>3, PBMoves
<1>9. CASE PB!CounterpartGoes
  <2>1. PICK n \in PB!Names :
            /\ counterparts[n] = "deleting"
            /\ counterparts' = [counterparts EXCEPT ![n] = "absent"]
            /\ UNCHANGED <<PB!queue, agent, created, forced>>
    BY <1>9 DEF PB!CounterpartGoes, PB!observers
  <2>2. counterparts' \in [PB!Names -> PB!Counterpart]
    BY <1>1, <2>1 DEF PB!Counterpart
  <2>3. PB!Found' \subseteq PB!Found /\ PBDying
    BY <1>1, <2>1 DEF PB!Found, PBDying
  <2> QED
    BY <1>1, <1>4, <2>1, <2>2, <2>3, PBMoves
<1>10. CASE PB!CounterpartLost
  <2>1. PICK n \in PB!Found :
            /\ PB!Change(FALSE)
            /\ counterparts' = [counterparts EXCEPT ![n] = "absent"]
            /\ UNCHANGED <<agent, created, forced>>
    BY <1>10 DEF PB!CounterpartLost, PB!observers
  <2>2. counterparts' \in [PB!Names -> PB!Counterpart]
    BY <1>1, <2>1 DEF PB!Counterpart
  <2>3. PB!Found' \subseteq PB!Found /\ (PBDying' => PBDying)
    BY <1>1, <2>1 DEF PB!Found, PBDying
  <2>4. MovedAs(MoreTrouble) /\ changes' # 0
    BY <1>3, <2>1
  <2> QED
    BY <1>1, <2>1, <2>2, <2>3, <2>4, PBMoves
<1>11. CASE PB!AgentChanges
  <2>1. /\ PB!Change(TRUE) /\ agent' \in PB!KubeforceAgent
        /\ UNCHANGED <<counterparts, created, forced>>
    BY <1>11 DEF PB!AgentChanges
  <2>2. MovedAs(MoreTrouble)
    BY <1>3, <2>1
  <2>3. counterparts' \in [PB!Names -> PB!Counterpart]
    BY <1>1, <2>1
  <2> QED
    BY <2>1, <2>2, <2>3, PBSame, PBMoves
<1>12. CASE PB!PauseChanges
  <2>1. PICK wakes \in BOOLEAN : PB!Change(wakes) /\ Same
    BY <1>12 DEF PB!PauseChanges, PB!observers
  <2> QED
    BY <1>2, <1>3, <2>1
<1>13. CASE PB!MinutePasses
  BY <1>2, <1>4, <1>13 DEF PB!MinutePasses, PB!observers
<1>14. CASE PB!ManagerRestarts
  <2>1. PB!Restart /\ Same
    BY <1>14 DEF PB!ManagerRestarts, PB!surroundings
  <2>2. obj.stored.exists \in BOOLEAN
    BY PBTypes DEF PB!Playbook
  <2>3. MovedAs(MoreTrouble)
    BY <2>1, <2>2 DEF PB!Restart, PB!Trouble, PB!Listed, PB!Idle, Listed, MovedAs
  <2> QED
    BY <1>2, <2>1, <2>3
<1>15. CASE UNCHANGED PB!vars
  BY <1>2, <1>4, <1>15 DEF PB!vars, PB!surroundings, PB!observers
<1> QED
  BY <1>5, <1>6, <1>7, <1>8, <1>9, <1>10, <1>11, <1>12, <1>13, <1>14, <1>15

LEMMA PBStep ==
    ASSUME PBInv, [PB!Next]_(PB!vars)
    PROVE  PBInv'
BY PBWaits, PBReleases, PBDeletes, PBCreates, PBPatches, PBSurroundings
   DEF PB!Next, PB!Reconcile

LEMMA PBBegins ==
    ASSUME PB!Init
    PROVE  PBInv
<1>1. PICK v : v = PB!NewPlaybook
  OBVIOUS
<1>2. /\ v \in PB!Playbook /\ v.ext = 0 /\ QueueInit(v) /\ MoreTrouble \in Nat
  BY <1>1, PBVersions DEF PB!NewPlaybook, PB!Init, PB!QueueInit, QueueInit, PB!Listed, Listed,
                          PB!Idle, Idle
<1>3. /\ Queued(PB!Playbook, Lasting(PB!Playbook)) /\ Bounded(MoreTrouble)
      /\ obj.stored = v /\ obj.cached = v /\ ~work.busy
  BY <1>2, LastingOrdered, QueueBegins
<1>4. /\ counterparts = [n \in PB!Names |-> "absent"] /\ created = 0
      /\ agent \in PB!KubeforceAgent
  BY DEF PB!Init, PB!KubeforceAgent
<1>5. PB!Found = {} /\ ~PBDying /\ counterparts \in [PB!Names -> PB!Counterpart]
  BY <1>4 DEF PB!Found, PBDying, PB!Counterpart
<1>6. Mirror(PB!Found, PBDying)
  <2>1. 1 .. created = {}
    BY <1>4
  <2> QED
    BY <1>2, <1>3, <1>4, <1>5, <2>1 DEF Mirror, Followed
<1> QED
  BY <1>3, <1>4, <1>5, <1>6 DEF PBInv

LEMMA PBShows ==
    ASSUME PBInv
    PROVE  PB!TypeOK /\ PB!ExecutedOnce /\ PB!NothingLeftBehind
<1>1. PB!TypeOK
  <2>1. PB!Trouble \in 0 .. MoreTrouble
    BY MoreTroubleAssumption DEF PBInv, Bounded, PB!Trouble
  <2>2. obj \in PB!Object(PB!Playbook) /\ dirty \in BOOLEAN /\ work \in PB!Work(PB!Playbook)
    <3>1. obj \in Object(PB!Playbook) /\ dirty \in BOOLEAN /\ work \in Work(PB!Playbook)
      BY DEF PBInv, Queued
    <3>2. PB!Object(PB!Playbook) = Object(PB!Playbook) /\ PB!Work(PB!Playbook) = Work(PB!Playbook)
      BY DEF PB!Object, Object, PB!Work, Work, PB!Idle, Idle
    <3> QED
      BY <3>1, <3>2
  <2> QED
    BY <2>1, <2>2 DEF PBInv, PB!TypeOK, PB!QueueTypeOK
<1>2. PB!ExecutedOnce
  <2>1. faults \in Nat /\ stale \in Nat /\ changes \in Nat /\ created \in Nat
    BY DEF PBInv, Bounded, Mirror
  <2>2. (changes = 0 => created <= 1) /\ (faults + stale = 0 => created <= 1)
    BY DEF PBInv, Mirror, Followed, Smooth
  <2> QED
    BY <2>1, <2>2 DEF PB!ExecutedOnce
<1>3. PB!NothingLeftBehind
  <2>1. faults \in Nat /\ stale \in Nat
    BY DEF PBInv, Bounded
  <2>2. Smooth /\ ~forced /\ PB!Found # {} => obj.stored.exists
    BY DEF PBInv, Mirror, Followed
  <2> QED
    BY <2>1, <2>2 DEF PB!NothingLeftBehind, Smooth
<1> QED
  BY <1>1, <1>2, <1>3

-----------------------------------------------------------------------------
(* The PlaybookDeployment *)

PDDying == \E n \in PD!Names : counterparts[n].state = "deleting"

PDInv ==
    /\ Queued(PD!PlaybookDeployment, Lasting(PD!PlaybookDeployment)) /\ Bounded(MaxTrouble)
    /\ Mirror(PD!Found, PDDying)
    /\ agent \in PD!KubeforceAgent
    /\ counterparts \in [PD!Names -> PD!Counterpart]
    /\ created \in {0} \cup PD!Names
    /\ obj.stored.template <= changes + 1

\* What the library does is what it does for this object.
LEMMA PDQueue ==
    ASSUME NEW fresh, NEW v, NEW again \in BOOLEAN
    PROVE  /\ PD!EndWith(fresh, v, again) => EndedAs(MaxTrouble, fresh, v)
           /\ PD!EndFaulty(fresh, v) => EndedAs(MaxTrouble, fresh, v) /\ faults' = faults + 1
           /\ PD!EndEarly(again) => MovedAs(MaxTrouble)
<1>1. PD!EndWith(fresh, v, again) => EndedAs(MaxTrouble, fresh, v)
  BY DEF PD!EndWith, PD!Begin, PD!Current, PD!Trouble, EndedAs, Current
<1>2. PD!EndFaulty(fresh, v) => EndedAs(MaxTrouble, fresh, v) /\ faults' = faults + 1
  BY DEF PD!EndFaulty, PD!Begin, PD!Current, PD!Trouble, EndedAs, Current
<1>3. PD!EndEarly(again) => MovedAs(MaxTrouble)
  BY DEF PD!EndEarly, PD!Begin, PD!Current, PD!Trouble, MovedAs
<1> QED
  BY <1>1, <1>2, <1>3

LEMMA PDWrites ==
    ASSUME NEW o, NEW v, NEW F
    PROVE  PD!Store(o, v) = Store(o, v) /\ PD!Merged(v, F) = Merged(v, F)
<1>1. PD!Store(o, v) = Store(o, v)
  BY DEF PD!Store, PD!Changes, PD!Overflows, Store, Changes, Overflows
<1>2. PD!Merged(v, F) = Merged(v, F)
  BY DEF PD!Merged, Merged
<1> QED
  BY <1>1, <1>2

LEMMA PDVersions ==
    /\ Versions(PD!PlaybookDeployment)
    /\ PD!NewDeployment \in PD!PlaybookDeployment
    /\ MaxTrouble \in Nat
<1>1. {0} \cup PD!Names \subseteq Nat
  BY MaxTroubleAssumption DEF PD!Names
<1>2. Versions(PD!PlaybookDeployment)
  BY <1>1 DEF Versions, PD!PlaybookDeployment
<1>3. PD!NewDeployment \in PD!PlaybookDeployment
  BY MaxTroubleAssumption
     DEF PD!PlaybookDeployment, PD!NewDeployment, PD!ExternalPhases, PD!Phases, PD!Templates
<1> QED
  BY <1>2, <1>3, MaxTroubleAssumption

\* The phase is all that reconcilePhase changes.
LEMMA PDPhase ==
    ASSUME NEW p \in PD!PlaybookDeployment
    PROVE  LET v == PD!reconcilePhase(p)
           IN  /\ v \in PD!PlaybookDeployment
               /\ v.ext = p.ext /\ v.finalizer = p.finalizer
<1>1. \A x \in PD!Phases : /\ [p EXCEPT !.phase = x] \in PD!PlaybookDeployment
                           /\ [p EXCEPT !.phase = x].ext = p.ext
                           /\ [p EXCEPT !.phase = x].finalizer = p.finalizer
  BY DEF PD!PlaybookDeployment
<1>2. PICK x \in PD!Phases : PD!reconcilePhase(p) = [p EXCEPT !.phase = x]
  BY DEF PD!reconcilePhase, PD!Phases
<1> QED
  BY <1>1, <1>2

LEMMA PDEnded ==
    ASSUME PDInv, NEW p \in PD!PlaybookDeployment,
           EndedAs(MaxTrouble, TRUE, PD!reconcilePhase(p)),
           \/ Stays(p, PD!Found, PD!Found', PDDying, PDDying')
           \/ Goes(p, PD!Found, PD!Found', PDDying, PDDying')
           \/ Comes(p, PD!Found, PD!Found', PDDying, PDDying'),
           agent' \in PD!KubeforceAgent,
           counterparts' \in [PD!Names -> PD!Counterpart],
           created' \in {0} \cup PD!Names
    PROVE  PDInv'
<1>1. PICK v : v = PD!reconcilePhase(p)
  OBVIOUS
<1>2. v \in PD!PlaybookDeployment /\ v.ext = p.ext /\ v.finalizer = p.finalizer
  BY <1>1, PDPhase
<1>3. PICK f, f2, d, d2 : f = PD!Found /\ f2 = PD!Found' /\ d = PDDying /\ d2 = PDDying'
  OBVIOUS
<1>4. Mirror(f, d) /\ Queued(PD!PlaybookDeployment, Lasting(PD!PlaybookDeployment)) /\ Bounded(MaxTrouble)
  BY <1>3 DEF PDInv
<1>5. Stays(v, f, f2, d, d2) \/ Goes(v, f, f2, d, d2) \/ Comes(v, f, f2, d, d2)
  BY <1>2, <1>3 DEF Stays, Goes, Comes
<1>6. /\ Queued(PD!PlaybookDeployment, Lasting(PD!PlaybookDeployment))' /\ Bounded(MaxTrouble)'
      /\ Mirror(f2, d2)'
  <2>1. EndedAs(MaxTrouble, TRUE, v)
    BY <1>1
  <2> QED
    BY <1>2, <1>4, <1>5, <2>1, MirrorEnds, PDVersions
<1>7. Mirror(PD!Found, PDDying)'
  BY <1>3, <1>6 DEF Mirror, Followed
<1>8. (obj.stored.template <= changes + 1)'
  BY DEF PDInv, EndedAs
<1> QED
  BY <1>6, <1>7, <1>8 DEF PDInv

LEMMA PDTypes ==
    ASSUME PDInv
    PROVE  /\ obj.cached \in PD!PlaybookDeployment /\ obj.stored \in PD!PlaybookDeployment
           /\ obj.cached.ext \in Nat /\ created \in Nat
           /\ \A n \in PD!Names : counterparts[n] \in PD!Counterpart
BY QueuedTypes, LastingOrdered, PDVersions DEF PDInv, Mirror, Versions

\* The counterparts are as before.
LEMMA PDSame ==
    ASSUME UNCHANGED counterparts
    PROVE  PD!Found' = PD!Found /\ PDDying' = PDDying
BY DEF PD!Found, PDDying

\* The reconciles that wait, fail or follow the counterpart.
LEMMA PDWaits ==
    ASSUME PDInv,
           \/ PD!ReconcileAddFinalizer
           \/ PD!ReconcileTerminal
           \/ PD!ReconcileNoAgent
           \/ PD!ReconcileAgentPaused
           \/ PD!ReconcileWaitForAgent
           \/ PD!ReconcileSyncFails
           \/ PD!ReconcileLost
           \/ PD!ReconcileUnobserved
           \/ PD!ReconcileSync
           \/ PD!ReconcileDeleteNoAgent
           \/ PD!ReconcileDeleteWaits
           \/ PD!ReconcileDeleteFails
    PROVE  PDInv'
<1> DEFINE c == obj.cached
<1>1. /\ c \in PD!PlaybookDeployment /\ c.ext \in Nat
      /\ \A n \in PD!Names : counterparts[n] \in PD!Counterpart
  BY PDTypes
<1>2. /\ [c EXCEPT !.finalizer = TRUE] \in PD!PlaybookDeployment
      /\ [c EXCEPT !.finalizer = TRUE].ext = c.ext
      /\ [c EXCEPT !.finalizer = TRUE].finalizer
  BY <1>1 DEF PD!PlaybookDeployment
<1>3. /\ PD!Failing(c) \in PD!PlaybookDeployment
      /\ PD!Failing(c).ext = c.ext
      /\ PD!Failing(c).finalizer = c.finalizer
  BY <1>1 DEF PD!PlaybookDeployment, PD!Failing
<1>4. ASSUME NEW n \in PD!Found, NEW x \in {"absent", "True", "False"}
      PROVE  LET p == [PD!Taken(n) EXCEPT !.sync = x]
             IN  /\ p \in PD!PlaybookDeployment /\ p.ext = n /\ n # 0
                 /\ p.finalizer = c.finalizer
  <2>1. n \in PD!Names /\ n \in Nat /\ n # 0
    BY MaxTroubleAssumption DEF PD!Found, PD!Names
  <2>2. counterparts[n].phase \in PD!ExternalPhases
    BY <1>1, <2>1 DEF PD!Counterpart
  <2> QED
    BY <1>1, <2>1, <2>2 DEF PD!PlaybookDeployment, PD!Taken
<1> HIDE DEF c
<1>5. ASSUME NEW p \in PD!PlaybookDeployment, p.ext \in {c.ext} \cup PD!Found, c.ext # 0 => p.ext # 0,
             c.finalizer => p.finalizer,
             EndedAs(MaxTrouble, TRUE, PD!reconcilePhase(p)),
             UNCHANGED <<agent, counterparts, created, forced>>
      PROVE  PDInv'
  <2>1. Stays(p, PD!Found, PD!Found', PDDying, PDDying')
    BY <1>5, PDSame DEF Stays, c
  <2>2. /\ agent' \in PD!KubeforceAgent /\ counterparts' \in [PD!Names -> PD!Counterpart]
        /\ created' \in {0} \cup PD!Names
    BY <1>5 DEF PDInv
  <2> QED
    BY <1>5, <2>1, <2>2, PDEnded
<1>6. ASSUME NEW p \in PD!PlaybookDeployment, p.ext = c.ext, c.finalizer => p.finalizer,
             NEW again \in BOOLEAN,
             PD!End(p, again) \/ PD!EndFaulty(TRUE, PD!reconcilePhase(p)),
             UNCHANGED <<agent, counterparts, created, forced>>
      PROVE  PDInv'
  <2>1. EndedAs(MaxTrouble, TRUE, PD!reconcilePhase(p))
    BY <1>6, PDQueue DEF PD!End
  <2> QED
    BY <1>5, <1>6, <2>1
<1>7. CASE PD!ReconcileAddFinalizer
  BY <1>2, <1>6, <1>7
     DEF PD!ReconcileAddFinalizer, PD!Quiet, PD!surroundings, PD!observers, c
<1>8. CASE PD!ReconcileTerminal \/ PD!ReconcileAgentPaused
  BY <1>1, <1>6, <1>8 DEF PD!ReconcileTerminal, PD!ReconcileAgentPaused, PD!Quiet,
                          PD!surroundings, PD!observers, c
<1>9. CASE PD!ReconcileNoAgent \/ PD!ReconcileWaitForAgent \/ PD!ReconcileLost
  BY <1>3, <1>6, <1>9 DEF PD!ReconcileNoAgent, PD!ReconcileWaitForAgent,
        PD!ReconcileLost, PD!Quiet, PD!surroundings, PD!observers, c
<1>10. CASE PD!ReconcileSyncFails \/ PD!ReconcileDeleteFails
  BY <1>3, <1>6, <1>10 DEF PD!ReconcileSyncFails, PD!ReconcileDeleteFails, PD!Quiet,
        PD!surroundings, PD!observers, c
<1>11. CASE PD!ReconcileDeleteNoAgent \/ PD!ReconcileDeleteWaits
  BY <1>3, <1>6, <1>11 DEF PD!ReconcileDeleteNoAgent, PD!ReconcileDeleteWaits, PD!Quiet,
        PD!surroundings, PD!observers, c
<1>12. ASSUME NEW n \in PD!Found, NEW x \in {"absent", "True", "False"},
              NEW again \in BOOLEAN, PD!End([PD!Taken(n) EXCEPT !.sync = x], again), PD!Quiet
       PROVE  PDInv'
  <2>1. PICK p : p = [PD!Taken(n) EXCEPT !.sync = x]
    OBVIOUS
  <2>2. p \in PD!PlaybookDeployment /\ p.ext = n /\ n # 0 /\ p.finalizer = c.finalizer
    BY <1>4, <2>1
  <2>3. EndedAs(MaxTrouble, TRUE, PD!reconcilePhase(p))
    BY <1>12, <2>1, PDQueue DEF PD!End
  <2>4. UNCHANGED <<agent, counterparts, created, forced>>
    BY <1>12 DEF PD!Quiet, PD!surroundings, PD!observers
  <2> QED
    BY <1>5, <2>2, <2>3, <2>4
<1>13. CASE PD!ReconcileUnobserved
  BY <1>12, <1>13 DEF PD!ReconcileUnobserved
<1>14. CASE PD!ReconcileSync
  <2>1. PICK n \in PD!Found, again \in BOOLEAN :
            PD!End([PD!Taken(n) EXCEPT !.sync = "True"], again) /\ PD!Quiet
    BY <1>14 DEF PD!ReconcileSync
  <2> QED
    BY <1>12, <2>1
<1> QED
  BY <1>7, <1>8, <1>9, <1>10, <1>11, <1>13, <1>14

\* The counterpart gets the template.
LEMMA PDUpdates ==
    ASSUME PDInv, PD!ReconcileUpdate
    PROVE  PDInv'
<1> DEFINE c == obj.cached
<1>1. /\ c \in PD!PlaybookDeployment /\ counterparts \in [PD!Names -> PD!Counterpart]
      /\ agent \in PD!KubeforceAgent /\ created \in {0} \cup PD!Names
  BY PDTypes DEF PDInv
<1>2. PICK n \in PD!Found :
          /\ counterparts' = [counterparts EXCEPT ![n].template = c.template]
          /\ PD!End([PD!Taken(n) EXCEPT !.sum = c.template, !.sync = "False"], TRUE)
          /\ UNCHANGED <<agent, created, forced>>
  BY DEF PD!ReconcileUpdate, PD!observers
<1>3. PICK p : p = [PD!Taken(n) EXCEPT !.sum = c.template, !.sync = "False"]
  OBVIOUS
<1>4. n \in PD!Names /\ n \in Nat /\ n # 0
  BY MaxTroubleAssumption DEF PD!Found, PD!Names
<1>5. counterparts[n] \in PD!Counterpart /\ counterparts[n].phase \in PD!ExternalPhases
  BY <1>1, <1>4 DEF PD!Counterpart
<1>6. p \in PD!PlaybookDeployment /\ p.ext = n /\ p.finalizer = c.finalizer
  BY <1>1, <1>3, <1>4, <1>5 DEF PD!PlaybookDeployment, PD!Taken
<1>7. EndedAs(MaxTrouble, TRUE, PD!reconcilePhase(p))
  BY <1>2, <1>3, PDQueue DEF PD!End
<1>8. PICK k : k = [counterparts[n] EXCEPT !.template = c.template]
  OBVIOUS
<1>9. /\ counterparts' = [counterparts EXCEPT ![n] = k]
      /\ k \in PD!Counterpart /\ k.state = counterparts[n].state
  BY <1>1, <1>2, <1>5, <1>8 DEF PD!Counterpart, PD!PlaybookDeployment
<1>10. /\ counterparts' \in [PD!Names -> PD!Counterpart]
       /\ PD!Found' = PD!Found /\ (PDDying' => PDDying)
  BY <1>1, <1>4, <1>9 DEF PD!Found, PDDying
<1>11. Stays(p, PD!Found, PD!Found', PDDying, PDDying')
  BY <1>2, <1>4, <1>6, <1>10 DEF Stays
<1> QED
  BY <1>1, <1>2, <1>6, <1>7, <1>10, <1>11, PDEnded

\* The reconciles that give up the finalizer.
LEMMA PDReleases ==
    ASSUME PDInv,
           PD!ReconcileForget \/ PD!ReconcileAbandon \/ PD!ReconcileDeleted
    PROVE  PDInv'
<1> DEFINE c == obj.cached
<1>1. c \in PD!PlaybookDeployment
  BY PDTypes
<1>2. /\ PD!Forget(c) \in PD!PlaybookDeployment /\ PD!Forget(c).ext = c.ext
      /\ [PD!Forget(c) EXCEPT !.failing = FALSE] \in PD!PlaybookDeployment
      /\ [PD!Forget(c) EXCEPT !.failing = FALSE].ext = c.ext
  BY <1>1 DEF PD!PlaybookDeployment, PD!Forget
<1>3. ASSUME NEW p \in PD!PlaybookDeployment, p.ext = c.ext, PD!End(p, FALSE), c.exists,
             UNCHANGED <<agent, counterparts, created>>, forced => forced',
             c.ext = 0 \/ c.ext \notin PD!Found \/ forced'
      PROVE  PDInv'
  <2>1. EndedAs(MaxTrouble, TRUE, PD!reconcilePhase(p))
    BY <1>3, PDQueue DEF PD!End
  <2>2. Goes(p, PD!Found, PD!Found', PDDying, PDDying')
    BY <1>3, PDSame DEF Goes
  <2>3. /\ agent' \in PD!KubeforceAgent /\ counterparts' \in [PD!Names -> PD!Counterpart]
        /\ created' \in {0} \cup PD!Names
    BY <1>3 DEF PDInv
  <2> QED
    BY <1>3, <2>1, <2>2, <2>3, PDEnded
<1>4. CASE PD!ReconcileForget
  BY <1>2, <1>3, <1>4 DEF PD!ReconcileForget, PD!Discarded, PD!Reconcilable, PD!Quiet,
                          PD!surroundings, PD!observers
<1>5. CASE PD!ReconcileAbandon
  BY <1>2, <1>3, <1>5 DEF PD!ReconcileAbandon, PD!Discarded, PD!Reconcilable,
                          PD!surroundings
<1>6. CASE PD!ReconcileDeleted
  BY <1>2, <1>3, <1>6 DEF PD!ReconcileDeleted, PD!Deletes, PD!Discarded, PD!Reconcilable,
                          PD!Quiet, PD!surroundings, PD!observers
<1> QED
  BY <1>4, <1>5, <1>6

\* The counterpart is told to go.
LEMMA PDDeletes ==
    ASSUME PDInv, PD!ReconcileDeleteCounterpart
    PROVE  PDInv'
<1> DEFINE c == obj.cached
<1>1. c \in PD!PlaybookDeployment /\ counterparts \in [PD!Names -> PD!Counterpart]
  BY PDTypes DEF PDInv
<1>2. PICK p : p = [c EXCEPT !.failing = FALSE, !.sync = "True"]
  OBVIOUS
<1>3. p \in PD!PlaybookDeployment /\ p.ext = c.ext /\ p.finalizer = c.finalizer
  BY <1>1, <1>2 DEF PD!PlaybookDeployment
<1>4. /\ c.deleting /\ c.ext \in PD!Found
      /\ counterparts' = [counterparts EXCEPT ![c.ext].state = "deleting"]
      /\ UNCHANGED <<agent, created, forced>>
  BY DEF PD!ReconcileDeleteCounterpart, PD!Deletes, PD!Discarded, PD!observers
<1>5. EndedAs(MaxTrouble, TRUE, PD!reconcilePhase(p))
  BY <1>2, PDQueue DEF PD!ReconcileDeleteCounterpart, PD!End
<1>10. PICK n : n = c.ext
  OBVIOUS
<1>11. PICK k : k = [counterparts[n] EXCEPT !.state = "deleting"]
  OBVIOUS
<1>12. /\ n \in PD!Names /\ counterparts[n] \in PD!Counterpart
       /\ counterparts[n].state # "absent"
  BY <1>1, <1>4, <1>10 DEF PD!Found
<1>13. /\ counterparts' = [counterparts EXCEPT ![n] = k]
       /\ k \in PD!Counterpart /\ k.state = "deleting"
  BY <1>4, <1>10, <1>11, <1>12 DEF PD!Counterpart
<1>6. PD!Found' = PD!Found
  BY <1>1, <1>12, <1>13 DEF PD!Found
<1>7. counterparts' \in [PD!Names -> PD!Counterpart]
  BY <1>1, <1>12, <1>13
<1>8. Stays(p, PD!Found, PD!Found', PDDying, PDDying')
  BY <1>3, <1>4, <1>6 DEF Stays
<1>9. agent' \in PD!KubeforceAgent /\ created' \in {0} \cup PD!Names
  BY <1>4 DEF PDInv
<1> QED
  BY <1>3, <1>5, <1>7, <1>8, <1>9, PDEnded

\* The counterpart is created, and the call may seem to fail.
LEMMA PDCreates ==
    ASSUME PDInv, PD!ReconcileCreate \/ PD!ReconcileCreateFails
    PROVE  PDInv'
<1> DEFINE c == obj.cached
<1>1. /\ c \in PD!PlaybookDeployment /\ counterparts \in [PD!Names -> PD!Counterpart]
      /\ created \in Nat
  BY PDTypes DEF PDInv
<1>2. /\ PD!Failing(c) \in PD!PlaybookDeployment /\ PD!Failing(c).ext = c.ext
      /\ PD!Failing(c).finalizer = c.finalizer
  BY <1>1 DEF PD!PlaybookDeployment, PD!Failing
<1>3. /\ c.exists /\ ~c.deleting /\ c.finalizer /\ PD!Found = {} /\ c.ext = 0
  BY DEF PD!ReconcileCreate, PD!ReconcileCreateFails, PD!Active, PD!Wanted,
         PD!Reconcilable, PD!Missing
<1>4. ASSUME PD!CreateCounterpart
      PROVE  /\ PD!Found' = {created + 1}
             /\ PDDying' => PDDying
             /\ counterparts' \in [PD!Names -> PD!Counterpart]
             /\ created' = created + 1 /\ created' \in PD!Names
             /\ UNCHANGED <<agent, forced>>
             /\ agent' \in PD!KubeforceAgent
  <2>1. /\ created + 1 \in PD!Names
        /\ counterparts' = [counterparts EXCEPT ![created + 1] = PD!NewCounterpart(c.template)]
        /\ created' = created + 1 /\ UNCHANGED <<agent, forced>>
    BY <1>4 DEF PD!CreateCounterpart, PD!NextName
  <2>2. PICK k : k = PD!NewCounterpart(c.template)
    OBVIOUS
  <2>3. k \in PD!Counterpart /\ k.state = "live"
    BY <1>1, <2>2
       DEF PD!NewCounterpart, PD!Counterpart, PD!PlaybookDeployment, PD!ExternalPhases
  <2>4. counterparts' = [counterparts EXCEPT ![created + 1] = k]
    BY <2>1, <2>2
  <2>5. counterparts' \in [PD!Names -> PD!Counterpart]
    BY <1>1, <2>3, <2>4
  <2>6. PD!Found' = {created + 1}
    BY <1>1, <1>3, <2>1, <2>3, <2>4 DEF PD!Found
  <2>7. PDDying' => PDDying
    BY <1>1, <2>1, <2>3, <2>4 DEF PDDying
  <2> QED
    BY <2>1, <2>5, <2>6, <2>7 DEF PDInv
<1>5. CASE PD!ReconcileCreate
  <2>1. PICK p : p = [c EXCEPT !.ext = created + 1, !.sum = c.template, !.failing = FALSE,
                               !.sync = "False"]
    OBVIOUS
  <2>2. /\ PD!CreateCounterpart
        /\ PD!EndWith(TRUE, PD!reconcilePhase(p), TRUE)
    BY <1>5, <2>1 DEF PD!ReconcileCreate, PD!NextName, PD!End
  <2>3. p \in PD!PlaybookDeployment /\ p.ext = created + 1 /\ p.finalizer
    <3>1. created + 1 \in PD!Names
      BY <1>4, <2>2
    <3> QED
      BY <1>1, <1>3, <2>1, <3>1 DEF PD!PlaybookDeployment
  <2>4. EndedAs(MaxTrouble, TRUE, PD!reconcilePhase(p))
    BY <2>2, PDQueue
  <2>5. Comes(p, PD!Found, PD!Found', PDDying, PDDying')
    BY <1>3, <1>4, <2>2, <2>3 DEF Comes
  <2> QED
    BY <1>4, <2>2, <2>3, <2>4, <2>5, PDEnded
<1>6. CASE PD!ReconcileCreateFails
  <2>1. /\ EndedAs(MaxTrouble, TRUE, PD!reconcilePhase(PD!Failing(c)))
        /\ faults' = faults + 1
    BY <1>6, PDQueue DEF PD!ReconcileCreateFails
  <2>2. CASE PD!CreateCounterpart
    <3>1. ~Smooth'
      BY <2>1 DEF Smooth, EndedAs, PDInv, Bounded
    <3>2. Comes(PD!Failing(c), PD!Found, PD!Found', PDDying, PDDying')
      BY <1>3, <1>4, <2>2, <3>1 DEF Comes
    <3> QED
      BY <1>2, <1>4, <2>1, <2>2, <3>2, PDEnded
  <2>3. CASE PD!Quiet
    <3>1. /\ UNCHANGED <<agent, counterparts, created, forced>>
          /\ agent' \in PD!KubeforceAgent /\ created' \in {0} \cup PD!Names
          /\ counterparts' \in [PD!Names -> PD!Counterpart]
      BY <2>3 DEF PD!Quiet, PD!surroundings, PD!observers, PDInv
    <3>2. Stays(PD!Failing(c), PD!Found, PD!Found', PDDying, PDDying')
      BY <1>2, <1>3, <3>1, PDSame DEF Stays
    <3> QED
      BY <1>2, <2>1, <3>1, <3>2, PDEnded
  <2> QED
    BY <1>6, <2>2, <2>3 DEF PD!ReconcileCreateFails
<1> QED
  BY <1>5, <1>6

\* Merging two Playbooks gives one.
LEMMA PDMerges ==
    ASSUME NEW c \in PD!PlaybookDeployment, work.old \in PD!PlaybookDeployment, work.new \in PD!PlaybookDeployment,
           NEW F, "exists" \notin F, "deleting" \notin F, "template" \notin F
    PROVE  LET m == Merged(c, F)
           IN  /\ m \in PD!PlaybookDeployment /\ m.deleting = c.deleting
               /\ m.template = c.template
               /\ m.ext = IF "ext" \in F /\ work.new.ext # work.old.ext
                          THEN work.new.ext ELSE c.ext
               /\ m.finalizer \in {work.new.finalizer, c.finalizer}
               /\ m.exists = IF m.deleting /\ ~m.finalizer THEN FALSE ELSE c.exists
<1> DEFINE D == {"exists", "deleting", "finalizer", "template", "sync", "ext", "extPhase",
                 "sum", "failing", "phase"}
           m == Merged(c, F)
           w(f) == IF f \in F /\ work.new[f] # work.old[f] THEN work.new[f] ELSE c[f]
<1>1. c = [f \in D |-> c[f]]
  BY DEF PD!PlaybookDeployment
<1>2. /\ DOMAIN m = D /\ m = [f \in D |-> m[f]]
      /\ \A f \in D \ {"exists"} : m[f] = w(f)
      /\ m["exists"] = IF w("deleting") /\ ~w("finalizer") THEN FALSE ELSE w("exists")
  BY <1>1, MergedFields
<1> HIDE DEF m
<1>3. /\ m.deleting = w("deleting") /\ m.finalizer = w("finalizer") /\ m.ext = w("ext")
      /\ m.sync = w("sync") /\ m.template = w("template") /\ m.sum = w("sum") /\ m.extPhase = w("extPhase")
      /\ m.failing = w("failing") /\ m.phase = w("phase")
      /\ m.exists = IF w("deleting") /\ ~w("finalizer") THEN FALSE ELSE w("exists")
  BY <1>2
<1>4. w("exists") = c.exists /\ w("deleting") = c.deleting /\ w("template") = c.template
  OBVIOUS
<1>5. /\ c.exists \in BOOLEAN /\ c.deleting \in BOOLEAN
      /\ w("finalizer") \in BOOLEAN /\ w("failing") \in BOOLEAN
  BY DEF PD!PlaybookDeployment
<1>6. /\ w("sync") \in {"absent", "True", "False"} /\ w("template") \in PD!Templates
      /\ w("sum") \in {0} \cup PD!Templates
      /\ w("ext") \in {0} \cup PD!Names /\ w("extPhase") \in PD!ExternalPhases
      /\ w("phase") \in PD!Phases
  BY DEF PD!PlaybookDeployment
<1>7. /\ w("finalizer") \in {work.new.finalizer, c.finalizer}
      /\ w("ext") = IF "ext" \in F /\ work.new.ext # work.old.ext
                    THEN work.new.ext ELSE c.ext
  OBVIOUS
<1> HIDE DEF w
<1>8. m.exists \in BOOLEAN
  BY <1>3, <1>4, <1>5
<1>9. m \in PD!PlaybookDeployment
  BY <1>2, <1>3, <1>4, <1>5, <1>6, <1>8 DEF PD!PlaybookDeployment
<1> QED
  BY <1>3, <1>4, <1>7, <1>9 DEF m

\* The deferred patch, all of it or some of its calls.
LEMMA PDPatches ==
    ASSUME PDInv, PD!Patch \/ PD!PatchPartly
    PROVE  PDInv'
<1>1. PICK F : /\ PatchedAs(MaxTrouble, F)
               /\ "exists" \notin F /\ "deleting" \notin F /\ "template" \notin F
               /\ Smooth' => "ext" \in F
  <2>1. CASE PD!Patch
    <3> DEFINE F == UNION {PD!Calls[k] : k \in DOMAIN PD!Calls}
    <3>1. F = {"sync", "finalizer", "ext", "extPhase", "sum", "failing", "phase"}
      BY DEF PD!Calls
    <3>2. /\ work.busy /\ PD!StorePatch(F) /\ UNCHANGED <<faults, stale, changes>>
          /\ dirty' \in BOOLEAN
      BY <2>1 DEF PD!Patch, PD!PatchApplied
    <3> HIDE DEF F
    <3>3. PatchedAs(MaxTrouble, F)
      BY <3>2, PDWrites DEF PD!StorePatch, PD!Idle, PatchedAs
    <3> QED
      BY <3>1, <3>3
  <2>2. CASE PD!PatchPartly
    <3>1. PICK done \in SUBSET DOMAIN PD!Calls : PD!PatchFails(PD!Calls, done)
      BY <2>2 DEF PD!PatchPartly
    <3> DEFINE F == UNION {PD!Calls[k] : k \in done}
    <3>2. F \subseteq {"sync", "finalizer", "ext", "extPhase", "sum", "failing", "phase"}
      BY DEF PD!Calls
    <3>3. /\ work.busy /\ PD!StorePatch(F) /\ UNCHANGED <<stale, changes>>
          /\ dirty' \in BOOLEAN /\ faults' = faults + 1 /\ faults + stale + changes < MaxTrouble
      BY <3>1 DEF PD!PatchFails, PD!Trouble
    <3> HIDE DEF F
    <3>4. PatchedAs(MaxTrouble, F)
      BY <3>3, PDWrites DEF PD!StorePatch, PD!Idle, PatchedAs
    <3>5. ~Smooth'
      BY <3>3 DEF PDInv, Bounded, Smooth
    <3> QED
      BY <3>2, <3>4, <3>5
  <2> QED
    BY <2>1, <2>2
<1>2. UNCHANGED <<agent, counterparts, created, forced>>
  BY DEF PD!Patch, PD!PatchPartly, PD!Quiet, PD!surroundings, PD!observers
<1>3. /\ Queued(PD!PlaybookDeployment, Lasting(PD!PlaybookDeployment)) /\ Bounded(MaxTrouble)
      /\ Versions(PD!PlaybookDeployment) /\ MaxTrouble \in Nat
  BY PDVersions DEF PDInv
<1>4. /\ obj.stored \in PD!PlaybookDeployment /\ work.old \in PD!PlaybookDeployment /\ work.new \in PD!PlaybookDeployment
  BY <1>1, <1>3, QueuedTypes, LastingOrdered DEF PatchedAs
<1>5. PICK m : m = Merged(obj.stored, F)
  OBVIOUS
<1>6. /\ m \in PD!PlaybookDeployment /\ m.deleting = obj.stored.deleting
      /\ m.template = obj.stored.template
      /\ m.ext = IF "ext" \in F /\ work.new.ext # work.old.ext
                 THEN work.new.ext ELSE obj.stored.ext
      /\ m.finalizer \in {work.new.finalizer, obj.stored.finalizer}
      /\ m.exists = IF m.deleting /\ ~m.finalizer THEN FALSE ELSE obj.stored.exists
  <2>1. PICK c \in PD!PlaybookDeployment : c = obj.stored
    BY <1>4
  <2>2. m = Merged(c, F)
    BY <1>5, <2>1
  <2>3. /\ m \in PD!PlaybookDeployment /\ m.deleting = c.deleting
        /\ m.template = c.template
        /\ m.ext = IF "ext" \in F /\ work.new.ext # work.old.ext
                   THEN work.new.ext ELSE c.ext
        /\ m.finalizer \in {work.new.finalizer, c.finalizer}
        /\ m.exists = IF m.deleting /\ ~m.finalizer THEN FALSE ELSE c.exists
    BY <1>1, <1>4, <2>2, PDMerges
  <2> QED
    BY <2>1, <2>3
<1>7. PICK f, d : f = PD!Found /\ d = PDDying
  OBVIOUS
<1>8. f = PD!Found' /\ d = PDDying' /\ Mirror(f, d)
  BY <1>2, <1>7, PDSame DEF PDInv
<1>9. /\ Queued(PD!PlaybookDeployment, Lasting(PD!PlaybookDeployment))' /\ Bounded(MaxTrouble)' /\ Mirror(f, d)'
  <2>1. /\ m.ext \in {work.new.ext, obj.stored.ext}
        /\ work.new.ext = work.old.ext => m.ext = obj.stored.ext
        /\ Smooth' /\ work.new.ext # work.old.ext => m.ext = work.new.ext
        /\ UNCHANGED <<created, forced>>
    BY <1>1, <1>2, <1>6
  <2> QED
    BY <1>1, <1>3, <1>5, <1>6, <1>8, <2>1, MirrorPatched
<1>10. Mirror(PD!Found, PDDying)'
  BY <1>8, <1>9 DEF Mirror, Followed
<1>11. (obj.stored.template <= changes + 1)'
  <2>1. <<obj.stored, m>> \in Lasting(PD!PlaybookDeployment)
    BY <1>4, <1>6 DEF Lasting
  <2>2. IF obj.stored.exists THEN obj'.stored = m ELSE obj' = obj
    BY <1>1, <1>3, <1>5, <1>6, <2>1, QueuePatched, LastingOrdered
  <2>3. obj'.stored.template = obj.stored.template /\ changes' = changes
    BY <1>1, <1>6, <2>2 DEF PatchedAs
  <2> QED
    BY <2>3 DEF PDInv
<1> QED
  BY <1>2, <1>9, <1>10, <1>11 DEF PDInv

\* Nothing is written to the object.
LEMMA PDMoves ==
    ASSUME PDInv, MovedAs(MaxTrouble), UNCHANGED <<created, forced>>,
           agent' \in PD!KubeforceAgent, counterparts' \in [PD!Names -> PD!Counterpart],
           PD!Found' \subseteq PD!Found, PDDying' => PDDying,
           PD!Found' = PD!Found \/ PDDying \/ changes' # 0
    PROVE  PDInv'
<1>1. PICK f, f2, d, d2 : f = PD!Found /\ f2 = PD!Found' /\ d = PDDying /\ d2 = PDDying'
  OBVIOUS
<1>2. /\ Queued(PD!PlaybookDeployment, Lasting(PD!PlaybookDeployment)) /\ Bounded(MaxTrouble)
      /\ Versions(PD!PlaybookDeployment) /\ MaxTrouble \in Nat /\ Mirror(f, d)
  BY <1>1, PDVersions DEF PDInv
<1>3. /\ Queued(PD!PlaybookDeployment, Lasting(PD!PlaybookDeployment))' /\ Bounded(MaxTrouble)'
      /\ Mirror(f2, d2)'
  BY <1>1, <1>2, MirrorMoved
<1>4. Mirror(PD!Found, PDDying)'
  BY <1>1, <1>3 DEF Mirror, Followed
<1>5. (obj.stored.template <= changes + 1)'
  <2>1. obj'.stored = obj.stored
    BY <1>2, LastingOrdered, QueueMoved
  <2>2. obj.stored.template \in Nat /\ changes \in Nat
    BY PDTypes, MaxTroubleAssumption DEF PD!PlaybookDeployment, PD!Templates, PDInv, Bounded
  <2>3. changes' = changes \/ changes' = changes + 1
    BY DEF MovedAs
  <2> QED
    BY <2>1, <2>2, <2>3 DEF PDInv
<1> QED
  BY <1>3, <1>4, <1>5 DEF PDInv

LEMMA PDSurroundings ==
    ASSUME PDInv,
           \/ PD!ReconcileNotFound \/ PD!ReconcilePaused
           \/ PD!ObserveEvent \/ PD!DeleteDeployment
           \/ PD!ChangeTemplate \/ PD!CounterpartObserves
           \/ PD!CounterpartFinishes \/ PD!CounterpartGoes \/ PD!CounterpartLost
           \/ PD!AgentChanges \/ PD!PauseChanges \/ PD!MinutePasses \/ PD!ManagerRestarts
           \/ UNCHANGED PD!vars
    PROVE  PDInv'
<1> DEFINE Same == UNCHANGED <<agent, counterparts, created, forced>>
<1>1. /\ agent \in PD!KubeforceAgent /\ counterparts \in [PD!Names -> PD!Counterpart]
      /\ dirty \in BOOLEAN /\ changes \in Nat
  BY DEF PDInv, Queued, Bounded
<1>2. ASSUME Same, MovedAs(MaxTrouble)
      PROVE  PDInv'
  BY <1>1, <1>2, PDSame, PDMoves
<1>3. ASSUME NEW wakes \in BOOLEAN, PD!Change(wakes)
      PROVE  MovedAs(MaxTrouble) /\ changes' # 0
  BY <1>1, <1>3 DEF PD!Change, PD!Trouble, MovedAs
<1>4. ASSUME UNCHANGED PD!queue
      PROVE  MovedAs(MaxTrouble)
  BY <1>1, <1>4 DEF PD!queue, MovedAs
<1>5. CASE PD!ReconcileNotFound \/ PD!ReconcilePaused
  <2>1. PD!EndEarly(FALSE) /\ Same
    BY <1>5 DEF PD!ReconcileNotFound, PD!ReconcilePaused, PD!Quiet, PD!surroundings,
                PD!observers
  <2> QED
    BY <1>2, <2>1, PDQueue
<1>6. CASE PD!ObserveEvent
  BY <1>2, <1>6 DEF PD!ObserveEvent, PD!DeliverEvent, PD!Current, PD!Deliver, Current,
                    Deliver, MovedAs, PD!Quiet, PD!surroundings, PD!observers
<1>7. ASSUME NEW v \in PD!PlaybookDeployment, StoredAs(MaxTrouble, v), Same,
             obj.stored.deleting => v.deleting, v.ext = obj.stored.ext,
             v.finalizer = obj.stored.finalizer,
             obj.stored.exists /\ obj.stored.finalizer => v.exists,
             v.exists => obj.stored.exists, v.template <= changes' + 1
      PROVE  PDInv'
  <2>1. PICK f, d : f = PD!Found /\ d = PDDying
    OBVIOUS
  <2>2. /\ f = PD!Found' /\ d = PDDying' /\ Mirror(f, d)
        /\ Queued(PD!PlaybookDeployment, Lasting(PD!PlaybookDeployment)) /\ Bounded(MaxTrouble)
        /\ Versions(PD!PlaybookDeployment) /\ MaxTrouble \in Nat
    BY <1>7, <2>1, PDSame, PDVersions DEF PDInv
  <2>3. /\ Queued(PD!PlaybookDeployment, Lasting(PD!PlaybookDeployment))' /\ Bounded(MaxTrouble)'
        /\ Mirror(f, d)'
    BY <1>7, <2>2, MirrorStored
  <2>4. Mirror(PD!Found, PDDying)'
    BY <2>2, <2>3 DEF Mirror, Followed
  <2>5. obj'.stored = v
    BY <1>7, StoredVersion DEF StoredAs
  <2> QED
    BY <1>7, <2>3, <2>4, <2>5 DEF PDInv
<1>8. CASE PD!DeleteDeployment
  <2> DEFINE s == obj.stored
  <2>1. PICK v : v = IF s.finalizer THEN [s EXCEPT !.deleting = TRUE]
                     ELSE [s EXCEPT !.deleting = TRUE, !.exists = FALSE]
    OBVIOUS
  <2>2. s \in PD!PlaybookDeployment /\ s.template <= changes + 1
    BY PDTypes DEF PDInv
  <2>3. /\ v \in PD!PlaybookDeployment /\ v.deleting /\ v.ext = s.ext /\ v.finalizer = s.finalizer
        /\ s.exists /\ s.finalizer => v.exists
        /\ v.exists => s.exists
        /\ v.template = s.template
    BY <2>1, <2>2 DEF PD!PlaybookDeployment
  <2>4. StoredAs(MaxTrouble, v) /\ Same /\ changes' = changes
    BY <1>8, <2>1, PDWrites DEF PD!DeleteDeployment, PD!RequestDelete, PD!StoreObject,
        StoredAs, PD!Quiet, PD!surroundings, PD!observers
  <2> QED
    BY <1>7, <2>2, <2>3, <2>4
<1>9. CASE PD!ChangeTemplate
  <2> DEFINE s == obj.stored
  <2>1. PICK v : v = [s EXCEPT !.template = s.template + 1]
    OBVIOUS
  <2>2. /\ s \in PD!PlaybookDeployment /\ s.template <= changes + 1 /\ s.template \in Nat
    BY PDTypes, MaxTroubleAssumption DEF PDInv, PD!PlaybookDeployment, PD!Templates
  <2>3. /\ changes' = changes + 1 /\ faults + stale + changes < MaxTrouble /\ Same
        /\ PD!StoreObject(v) /\ UNCHANGED <<work, faults, stale>>
    BY <1>9, <2>1 DEF PD!ChangeTemplate, PD!Trouble, PD!Quiet, PD!surroundings, PD!observers
  <2>4. s.template + 1 \in PD!Templates
    BY <2>2, <2>3, MaxTroubleAssumption DEF PDInv, Bounded, PD!Templates
  <2>5. /\ v \in PD!PlaybookDeployment /\ v.deleting = s.deleting /\ v.ext = s.ext
        /\ v.finalizer = s.finalizer /\ v.exists = s.exists /\ v.template = s.template + 1
    BY <2>1, <2>2, <2>4 DEF PD!PlaybookDeployment
  <2>6. StoredAs(MaxTrouble, v)
    BY <2>3, PDWrites DEF PD!StoreObject, StoredAs
  <2>7. v.template <= changes' + 1
    BY <1>1, <2>2, <2>3, <2>5
  <2> QED
    BY <1>7, <2>3, <2>5, <2>6, <2>7
<1>10. ASSUME NEW n \in PD!Names, NEW k \in PD!Counterpart, counterparts[n].state # "absent",
              counterparts' = [counterparts EXCEPT ![n] = k],
              UNCHANGED <<agent, created, forced>>, MovedAs(MaxTrouble),
              \/ k.state = counterparts[n].state
              \/ k.state = "absent" /\ (counterparts[n].state = "deleting" \/ changes' # 0)
       PROVE  PDInv'
  <2>1. counterparts' \in [PD!Names -> PD!Counterpart]
    BY <1>1, <1>10
  <2>2. PD!Found' \subseteq PD!Found /\ (PDDying' => PDDying)
    BY <1>1, <1>10 DEF PD!Found, PDDying
  <2>3. PD!Found' = PD!Found \/ PDDying \/ changes' # 0
    BY <1>1, <1>10 DEF PD!Found, PDDying
  <2> QED
    BY <1>1, <1>10, <2>1, <2>2, <2>3, PDMoves
<1>16. CASE PD!CounterpartObserves
  <2>1. PICK n \in PD!Names :
            /\ counterparts[n].state = "live"
            /\ counterparts' = [counterparts EXCEPT ![n].seen = counterparts[n].template,
                                                    ![n].phase = "Progressing"]
            /\ UNCHANGED <<PD!queue, agent, created, forced>>
    BY <1>16 DEF PD!CounterpartObserves, PD!observers
  <2>2. PICK k : k = [counterparts[n] EXCEPT !.seen = counterparts[n].template,
                                             !.phase = "Progressing"]
    OBVIOUS
  <2>3. counterparts[n] \in PD!Counterpart
    BY <1>1
  <2>4. k \in PD!Counterpart /\ k.state = counterparts[n].state
    BY <2>2, <2>3 DEF PD!Counterpart, PD!ExternalPhases
  <2>5. counterparts' = [counterparts EXCEPT ![n] = k]
    BY <1>1, <2>1, <2>2, <2>3 DEF PD!Counterpart
  <2> QED
    BY <1>4, <1>10, <2>1, <2>4, <2>5
<1>17. CASE PD!CounterpartFinishes
  <2>1. PICK n \in PD!Names, x \in PD!Verdicts :
            /\ counterparts[n].state = "live"
            /\ counterparts' = [counterparts EXCEPT ![n].phase = x]
            /\ UNCHANGED <<PD!queue, agent, created, forced>>
    BY <1>17 DEF PD!CounterpartFinishes, PD!observers
  <2>2. PICK k : k = [counterparts[n] EXCEPT !.phase = x]
    OBVIOUS
  <2>3. counterparts[n] \in PD!Counterpart
    BY <1>1
  <2>4. k \in PD!Counterpart /\ k.state = counterparts[n].state
    BY <2>2, <2>3 DEF PD!Counterpart, PD!ExternalPhases
  <2>5. counterparts' = [counterparts EXCEPT ![n] = k]
    BY <1>1, <2>1, <2>2
  <2> QED
    BY <1>4, <1>10, <2>1, <2>4, <2>5
<1>18. PD!Absent \in PD!Counterpart /\ PD!Absent.state = "absent"
  BY DEF PD!Absent, PD!Counterpart, PD!ExternalPhases
<1>19. CASE PD!CounterpartGoes
  BY <1>4, <1>10, <1>18, <1>19 DEF PD!CounterpartGoes, PD!observers
<1>20. CASE PD!CounterpartLost
  <2>1. PICK n \in PD!Names :
            /\ counterparts[n].state # "absent" /\ PD!Change(FALSE)
            /\ counterparts' = [counterparts EXCEPT ![n] = PD!Absent]
            /\ UNCHANGED <<agent, created, forced>>
    BY <1>20 DEF PD!CounterpartLost, PD!Found, PD!observers
  <2>2. MovedAs(MaxTrouble) /\ changes' # 0
    BY <1>3, <2>1
  <2> QED
    BY <1>10, <1>18, <2>1, <2>2
<1>11. CASE PD!AgentChanges
  <2>1. /\ PD!Change(TRUE) /\ agent' \in PD!KubeforceAgent
        /\ UNCHANGED <<counterparts, created, forced>>
    BY <1>11 DEF PD!AgentChanges, PD!observers
  <2>2. MovedAs(MaxTrouble)
    BY <1>3, <2>1
  <2>3. counterparts' \in [PD!Names -> PD!Counterpart]
    BY <1>1, <2>1
  <2> QED
    BY <2>1, <2>2, <2>3, PDSame, PDMoves
<1>12. CASE PD!PauseChanges
  <2>1. PICK wakes \in BOOLEAN : PD!Change(wakes) /\ Same
    BY <1>12 DEF PD!PauseChanges, PD!observers
  <2> QED
    BY <1>2, <1>3, <2>1
<1>13. CASE PD!MinutePasses
  BY <1>2, <1>4, <1>13 DEF PD!MinutePasses, PD!observers
<1>14. CASE PD!ManagerRestarts
  <2>1. PD!Restart /\ Same
    BY <1>14 DEF PD!ManagerRestarts, PD!Quiet, PD!surroundings, PD!observers
  <2>2. obj.stored.exists \in BOOLEAN
    BY PDTypes DEF PD!PlaybookDeployment
  <2>3. MovedAs(MaxTrouble)
    BY <2>1, <2>2 DEF PD!Restart, PD!Trouble, PD!Listed, PD!Idle, Listed, MovedAs
  <2> QED
    BY <1>2, <2>1, <2>3
<1>15. CASE UNCHANGED PD!vars
  BY <1>2, <1>4, <1>15 DEF PD!vars, PD!surroundings, PD!observers
<1> QED
  BY <1>5, <1>6, <1>7, <1>8, <1>9, <1>10, <1>11, <1>12, <1>13, <1>14, <1>15,
     <1>16, <1>17, <1>19, <1>20

LEMMA PDStep ==
    ASSUME PDInv, [PD!Next]_(PD!vars)
    PROVE  PDInv'
BY PDWaits, PDUpdates, PDReleases, PDDeletes, PDCreates, PDPatches, PDSurroundings
   DEF PD!Next, PD!Reconcile

LEMMA PDBegins ==
    ASSUME PD!Init
    PROVE  PDInv
<1>1. PICK v : v = PD!NewDeployment
  OBVIOUS
<1>2. /\ v \in PD!PlaybookDeployment /\ v.ext = 0 /\ QueueInit(v) /\ MaxTrouble \in Nat
  BY <1>1, PDVersions DEF PD!NewDeployment, PD!Init, PD!QueueInit, QueueInit, PD!Listed, Listed,
                          PD!Idle, Idle
<1>3. /\ Queued(PD!PlaybookDeployment, Lasting(PD!PlaybookDeployment)) /\ Bounded(MaxTrouble)
      /\ obj.stored = v /\ obj.cached = v /\ ~work.busy
  BY <1>2, LastingOrdered, QueueBegins
<1>4. /\ counterparts = [n \in PD!Names |-> PD!Absent] /\ created = 0
      /\ agent \in PD!KubeforceAgent
  BY DEF PD!Init, PD!KubeforceAgent
<1>5. PD!Found = {} /\ ~PDDying /\ counterparts \in [PD!Names -> PD!Counterpart]
  BY <1>4 DEF PD!Found, PDDying, PD!Counterpart, PD!Absent, PD!ExternalPhases
<1>6. Mirror(PD!Found, PDDying)
  <2>1. 1 .. created = {}
    BY <1>4
  <2> QED
    BY <1>2, <1>3, <1>4, <1>5, <2>1 DEF Mirror, Followed
<1>7. obj.stored.template <= changes + 1
  <2>1. v.template = 1 /\ changes = 0
    BY <1>1 DEF PD!NewDeployment, PD!Init, PD!QueueInit
  <2> QED
    BY <1>3, <2>1
<1> QED
  BY <1>3, <1>4, <1>5, <1>6, <1>7 DEF PDInv

LEMMA PDShows ==
    ASSUME PDInv
    PROVE  PD!TypeOK /\ PD!ExecutedOnce /\ PD!NothingLeftBehind
<1>1. PD!TypeOK
  <2>1. PD!Trouble \in 0 .. MaxTrouble
    BY MaxTroubleAssumption DEF PDInv, Bounded, PD!Trouble
  <2>2. obj \in PD!Object(PD!PlaybookDeployment) /\ dirty \in BOOLEAN /\ work \in PD!Work(PD!PlaybookDeployment)
    <3>1. obj \in Object(PD!PlaybookDeployment) /\ dirty \in BOOLEAN /\ work \in Work(PD!PlaybookDeployment)
      BY DEF PDInv, Queued
    <3>2. PD!Object(PD!PlaybookDeployment) = Object(PD!PlaybookDeployment) /\ PD!Work(PD!PlaybookDeployment) = Work(PD!PlaybookDeployment)
      BY DEF PD!Object, Object, PD!Work, Work, PD!Idle, Idle
    <3> QED
      BY <3>1, <3>2
  <2> QED
    BY <2>1, <2>2 DEF PDInv, PD!TypeOK, PD!QueueTypeOK
<1>2. PD!ExecutedOnce
  <2>1. faults \in Nat /\ stale \in Nat /\ changes \in Nat /\ created \in Nat
    BY DEF PDInv, Bounded, Mirror
  <2>2. (changes = 0 => created <= 1) /\ (faults + stale = 0 => created <= 1)
    BY DEF PDInv, Mirror, Followed, Smooth
  <2> QED
    BY <2>1, <2>2 DEF PD!ExecutedOnce
<1>3. PD!NothingLeftBehind
  <2>1. faults \in Nat /\ stale \in Nat
    BY DEF PDInv, Bounded
  <2>2. Smooth /\ ~forced /\ PD!Found # {} => obj.stored.exists
    BY DEF PDInv, Mirror, Followed
  <2> QED
    BY <2>1, <2>2 DEF PD!NothingLeftBehind, Smooth
<1> QED
  BY <1>1, <1>2, <1>3

-----------------------------------------------------------------------------
(* The KubeforceCluster *)

\* An object that has gone was deleted; until then one that is ready has the controller's
\* finalizer.
KCVersion ==
    {v \in KC!Kubeforce : /\ ~v.exists => v.deleting
                          /\ ~v.deleting => (v.ready => v.own) /\ (v.own => v.finalizer)}

\* Until the deletion no finalizer goes.
KCOrder ==
    {p \in KCVersion \X KCVersion :
        /\ p[1].deleting => p[2].deleting
        /\ ~p[2].deleting => /\ p[1].own => p[2].own
                             /\ p[1].finalizer => p[2].finalizer}

KCPeopled ==
    (\E m \in Machines : machines[m].stored # "absent") \/ playbooks.stored # {}

\* While there are machines or Playbooks of theirs the finalizer is held, and no patch is about to drop it.
KCInv ==
    /\ Queued(KCVersion, KCOrder) /\ Bounded(MoreTrouble)
    /\ machines \in [Machines -> [stored : KC!MachineState, cached : KC!MachineState]]
    /\ playbooks \in [stored : SUBSET KC!Kinds, cached : SUBSET KC!Kinds]
    /\ cluster \in [stored : KC!Endpoints, cached : KC!Endpoints, kubeconfig : KC!Endpoints]
    /\ lb \in [config : SUBSET Machines, deployment : BOOLEAN, service : BOOLEAN]
    /\ work.busy /\ ~work.old.deleting =>
            /\ work.new.own /\ work.new.finalizer
            /\ work.new.ready /\ ~work.old.ready => work.old.own
    /\ stale = 0 /\ KCPeopled =>
            /\ obj.stored.exists /\ obj.stored.own /\ obj.stored.finalizer
            /\ work.busy => work.new.own /\ work.new.finalizer

LEMMA KCOrdered == Ordered(KCVersion, KCOrder)
BY DEF Ordered, Reflexive, Transitive, KCOrder

LEMMA KCQueue ==
    ASSUME NEW fresh, NEW v, NEW again \in BOOLEAN
    PROVE  /\ KC!EndWith(fresh, v, again) => EndedAs(MoreTrouble, fresh, v)
           /\ KC!EndFaulty(fresh, v) => EndedAs(MoreTrouble, fresh, v)
           /\ KC!EndEarly(again) => MovedAs(MoreTrouble)
<1>1. KC!EndWith(fresh, v, again) => EndedAs(MoreTrouble, fresh, v)
  BY DEF KC!EndWith, KC!Begin, KC!Current, KC!Trouble, EndedAs, Current
<1>2. KC!EndFaulty(fresh, v) => EndedAs(MoreTrouble, fresh, v)
  BY DEF KC!EndFaulty, KC!Begin, KC!Current, KC!Trouble, EndedAs, Current
<1>3. KC!EndEarly(again) => MovedAs(MoreTrouble)
  BY DEF KC!EndEarly, KC!Begin, KC!Current, KC!Trouble, MovedAs
<1> QED
  BY <1>1, <1>2, <1>3

LEMMA KCWrites ==
    ASSUME NEW o, NEW v, NEW F
    PROVE  KC!Store(o, v) = Store(o, v) /\ KC!Merged(v, F) = Merged(v, F)
<1>1. KC!Store(o, v) = Store(o, v)
  BY DEF KC!Store, KC!Changes, KC!Overflows, Store, Changes, Overflows
<1>2. KC!Merged(v, F) = Merged(v, F)
  BY DEF KC!Merged, Merged
<1> QED
  BY <1>1, <1>2

LEMMA KCTypes ==
    ASSUME KCInv
    PROVE  /\ obj.cached \in KCVersion /\ obj.stored \in KCVersion
           /\ <<obj.cached, obj.stored>> \in KCOrder
           /\ work.busy => /\ work.old \in KCVersion /\ work.new \in KCVersion
                           /\ <<work.old, obj.stored>> \in KCOrder
           /\ dirty \in BOOLEAN
BY QueuedTypes, KCOrdered DEF KCInv, Queued

KCSurroundings ==
    /\ machines \in [Machines -> [stored : KC!MachineState, cached : KC!MachineState]]
    /\ playbooks \in [stored : SUBSET KC!Kinds, cached : SUBSET KC!Kinds]
    /\ cluster \in [stored : KC!Endpoints, cached : KC!Endpoints, kubeconfig : KC!Endpoints]
    /\ lb \in [config : SUBSET Machines, deployment : BOOLEAN, service : BOOLEAN]

\* A reconcile ends: the finalizer goes only if the lists show nothing.
LEMMA KCEnded ==
    ASSUME KCInv, NEW v \in KCVersion, EndedAs(MoreTrouble, KC!Fresh, v),
           KCSurroundings', UNCHANGED <<machines, playbooks>>,
           ~obj.cached.deleting => /\ v.own /\ v.finalizer
                                   /\ v.ready /\ ~obj.cached.ready => obj.cached.own,
           \/ obj.cached.own /\ obj.cached.finalizer => v.own /\ v.finalizer
           \/ KC!Descendants = {}
    PROVE  KCInv'
<1>1. PICK fresh : fresh = KC!Fresh
  OBVIOUS
<1>2. EndedAs(MoreTrouble, fresh, v) /\ Queued(KCVersion, KCOrder) /\ Bounded(MoreTrouble)
  BY <1>1 DEF KCInv
<1>3. /\ Queued(KCVersion, KCOrder)' /\ Bounded(MoreTrouble)'
      /\ work'.busy /\ work'.old = obj.cached /\ work'.new = v
      /\ stale' = 0 => stale = 0 /\ obj.cached = obj.stored /\ fresh
  BY <1>2, QueueEnds, KCOrdered, MoreTroubleAssumption
<1>4. obj' = obj /\ KCPeopled' = KCPeopled
  BY <1>2 DEF EndedAs, KCPeopled
<1>5. ASSUME stale' = 0, KCPeopled
      PROVE  obj.stored.exists /\ obj.stored.own /\ obj.stored.finalizer /\ v.own /\ v.finalizer
  <2>1. stale = 0 /\ obj.cached = obj.stored /\ KC!Fresh
    BY <1>1, <1>3, <1>5
  <2>2. obj.stored.exists /\ obj.stored.own /\ obj.stored.finalizer
    BY <1>5, <2>1 DEF KCInv
  <2>3. KC!Descendants # {}
    BY <1>5, <2>1 DEF KC!Descendants, KC!Fresh, KCPeopled
  <2> QED
    BY <2>1, <2>2, <2>3
<1>6. /\ (stale = 0 /\ KCPeopled =>
            /\ obj.stored.exists /\ obj.stored.own /\ obj.stored.finalizer
            /\ work.busy => work.new.own /\ work.new.finalizer)'
      /\ (work.busy /\ ~work.old.deleting =>
            /\ work.new.own /\ work.new.finalizer
            /\ work.new.ready /\ ~work.old.ready => work.old.own)'
  BY <1>3, <1>4, <1>5
<1> QED
  BY <1>3, <1>6 DEF KCInv, KCSurroundings

LEMMA KCReconciles ==
    ASSUME KCInv,
           \/ KC!ReconcileAddFinalizer \/ KC!ReconcileDisabled \/ KC!ReconcileBalance
           \/ KC!ReconcileReplaceEndpoint
           \/ KC!ReconcileLoadbalancerFails \/ KC!ReconcileEndpointFails
           \/ KC!ReconcileDeleteWaits \/ KC!ReconcileFinalize \/ KC!ReconcileDeleteFails
    PROVE  KCInv'
<1> DEFINE c == obj.cached
           S == KC!Servers(KC!Seen)
           Same == UNCHANGED <<machines, playbooks, cluster, lb>>
<1>1. c \in KCVersion /\ c \in KC!Kubeforce
  BY KCTypes DEF KCVersion
<1>2. S \subseteq Machines
  BY DEF KC!Servers
<1>3. KCSurroundings
  BY DEF KCInv, KCSurroundings
<1>4. ASSUME Same
      PROVE  KCSurroundings'
  BY <1>3, <1>4 DEF KCSurroundings
<1> HIDE DEF S
<1>5. ASSUME KC!Wanted
      PROVE  c.own /\ c.finalizer /\ ~c.deleting /\ c.exists
  BY <1>1, <1>5 DEF KC!Wanted, KC!Here, KCVersion
<1>6. ASSUME NEW v \in KCVersion, NEW again \in BOOLEAN,
             KC!End(v, again) \/ KC!EndFaulty(KC!Fresh, v)
      PROVE  EndedAs(MoreTrouble, KC!Fresh, v)
  BY <1>6, KCQueue DEF KC!End
<1>7. CASE KC!ReconcileAddFinalizer
  <2>1. Same /\ ~c.own
    BY <1>7 DEF KC!ReconcileAddFinalizer, KC!Quiet, KC!surroundings
  <2>2. CASE c.deleting
    <3>1. KC!End(c, TRUE)
      BY <1>7, <2>2 DEF KC!ReconcileAddFinalizer
    <3> QED
      BY <1>1, <1>4, <1>6, <2>1, <2>2, <3>1, KCEnded
  <2>3. CASE ~c.deleting
    <3>1. PICK v : v = [c EXCEPT !.own = TRUE, !.finalizer = TRUE]
      OBVIOUS
    <3>2. KC!End(v, FALSE)
      BY <1>7, <2>3, <3>1 DEF KC!ReconcileAddFinalizer
    <3>3. v \in KCVersion /\ v.own /\ v.finalizer /\ v.ready = c.ready
      BY <1>1, <2>3, <3>1 DEF KCVersion, KC!Kubeforce
    <3> QED
      BY <1>4, <1>6, <2>1, <3>2, <3>3, KCEnded
  <2> QED
    BY <2>2, <2>3
<1>8. CASE KC!ReconcileDisabled
  <2>1. PICK v : v = [c EXCEPT !.ready = TRUE, !.available = "True"]
    OBVIOUS
  <2>2. KC!End(v, FALSE) /\ Same /\ KC!Wanted
    BY <1>8, <2>1 DEF KC!ReconcileDisabled, KC!Quiet, KC!surroundings
  <2>3. v \in KCVersion /\ v.own /\ v.finalizer
    BY <1>1, <1>5, <2>1, <2>2 DEF KCVersion, KC!Kubeforce, KC!Condition
  <2> QED
    BY <1>4, <1>5, <1>6, <2>2, <2>3, KCEnded
<1>9. ASSUME KC!Wanted
      PROVE  /\ KC!Available \in KCVersion /\ KC!Available.own /\ KC!Available.finalizer
             /\ KC!Replaced \in KCVersion /\ KC!Replaced.own /\ KC!Replaced.finalizer
  <2>1. c.servers \subseteq Machines
    BY <1>1 DEF KC!Kubeforce
  <2>2. ASSUME NEW X \in SUBSET Machines
        PROVE  LET v == [c EXCEPT !.servers = X, !.ready = TRUE, !.available = "True",
                                  !.endpoint = "lb"]
               IN  v \in KCVersion /\ v.own /\ v.finalizer
    BY <1>1, <1>5, <1>9 DEF KCVersion, KC!Kubeforce, KC!Condition
  <2>3. KC!Available = [c EXCEPT !.servers = S, !.ready = TRUE, !.available = "True",
                                 !.endpoint = "lb"]
    BY DEF KC!Available, S
  <2>4. \/ KC!Replaced = KC!Available
        \/ KC!Replaced = [c EXCEPT !.servers = c.servers, !.ready = TRUE,
                                   !.available = "True", !.endpoint = "lb"]
    BY <1>1, <2>3 DEF KC!Replaced, KC!Kubeforce
  <2> QED
    BY <1>2, <2>1, <2>2, <2>3, <2>4
<1>10. KC!Balanced \in [config : SUBSET Machines, deployment : BOOLEAN, service : BOOLEAN]
  BY <1>2 DEF KC!Balanced, S
<1>11. CASE KC!ReconcileBalance
  <2>1. /\ KC!Wanted /\ KC!End(KC!Available, FALSE) /\ lb' = KC!Balanced
        /\ UNCHANGED <<machines, playbooks, cluster>>
    BY <1>11 DEF KC!ReconcileBalance
  <2>2. KCSurroundings'
    BY <1>3, <1>10, <2>1 DEF KCSurroundings
  <2>3. EndedAs(MoreTrouble, KC!Fresh, KC!Available)
    BY <1>6, <1>9, <2>1
  <2> QED
    BY <1>5, <1>9, <2>1, <2>2, <2>3, KCEnded
<1>12. CASE KC!ReconcileReplaceEndpoint
  <2>1. /\ KC!Wanted /\ KC!End(KC!Replaced, FALSE) /\ lb' = KC!Balanced
        /\ cluster' = [cluster EXCEPT !.stored = "none", !.kubeconfig = "none"]
        /\ UNCHANGED <<machines, playbooks>>
    BY <1>12 DEF KC!ReconcileReplaceEndpoint
  <2>2. KCSurroundings'
    BY <1>3, <1>10, <2>1 DEF KCSurroundings, KC!Endpoints
  <2>3. EndedAs(MoreTrouble, KC!Fresh, KC!Replaced)
    BY <1>6, <1>9, <2>1
  <2> QED
    BY <1>5, <1>9, <2>1, <2>2, <2>3, KCEnded
<1>13. /\ KC!Unavailable = [c EXCEPT !.available = "False"]
       /\ KC!Unavailable \in KCVersion /\ KC!Unavailable \in KC!Kubeforce
       /\ KC!Unavailable.own = c.own /\ KC!Unavailable.finalizer = c.finalizer
       /\ KC!Unavailable.ready = c.ready /\ KC!Unavailable.deleting = c.deleting
       /\ KC!Unavailable.exists = c.exists
  <2>1. KC!Unavailable = [c EXCEPT !.available = "False"]
    BY DEF KC!Unavailable
  <2> QED
    BY <1>1, <2>1 DEF KCVersion, KC!Kubeforce, KC!Condition
<1>14. ASSUME NEW X \in SUBSET Machines, NEW e \in {"none", "lb"}, KC!Wanted
       PROVE  LET v == [KC!Unavailable EXCEPT !.servers = X, !.endpoint = e]
              IN  v \in KCVersion /\ v.own /\ v.finalizer /\ v.ready = c.ready
  <2>1. PICK u : u = KC!Unavailable
    OBVIOUS
  <2>2. u \in KCVersion /\ u \in KC!Kubeforce /\ u.own /\ u.finalizer /\ u.ready = c.ready
    BY <1>5, <1>13, <1>14, <2>1
  <2> QED
    BY <2>1, <2>2 DEF KCVersion, KC!Kubeforce
<1>15. ASSUME NEW v \in KCVersion, KC!Wanted, KC!EndFaulty(KC!Fresh, v), v.own, v.finalizer,
              v.ready = c.ready, KCSurroundings', UNCHANGED <<machines, playbooks>>
       PROVE  KCInv'
  BY <1>5, <1>6, <1>15, KCEnded
<1>16. CASE KC!ReconcileLoadbalancerFails
  <2>1. /\ KC!Wanted /\ UNCHANGED <<machines, playbooks, cluster>>
        /\ \/ KC!EndFaulty(KC!Fresh, KC!Unavailable)
           \/ KC!EndFaulty(KC!Fresh, [KC!Unavailable EXCEPT !.servers = S])
    BY <1>16 DEF KC!ReconcileLoadbalancerFails, S
  <2>5. lb' \in [config : SUBSET Machines, deployment : BOOLEAN, service : BOOLEAN]
    <3>1. ASSUME NEW i \in DOMAIN KC!LBSteps
          PROVE  KC!LBSteps[i] \in [config : SUBSET Machines, deployment : BOOLEAN, service : BOOLEAN]
      <4>1. KC!LBSteps = <<[lb EXCEPT !.config = S],
                           [lb EXCEPT !.config = S, !.deployment = TRUE], KC!Balanced>>
        BY DEF KC!LBSteps, S
      <4>2. /\ [lb EXCEPT !.config = S] \in
                    [config : SUBSET Machines, deployment : BOOLEAN, service : BOOLEAN]
            /\ [lb EXCEPT !.config = S, !.deployment = TRUE] \in
                    [config : SUBSET Machines, deployment : BOOLEAN, service : BOOLEAN]
        BY <1>2, <1>3 DEF KCSurroundings
      <4>3. PICK x, y, z : /\ x = [lb EXCEPT !.config = S]
                           /\ y = [lb EXCEPT !.config = S, !.deployment = TRUE]
                           /\ z = KC!Balanced
        OBVIOUS
      <4>6. KC!LBSteps = <<x, y, z>>
        BY <4>1, <4>3
      <4>7. {x, y, z} \subseteq [config : SUBSET Machines, deployment : BOOLEAN, service : BOOLEAN]
        BY <1>10, <4>2, <4>3
      <4>4. i \in 1 .. 3
        BY <3>1, <4>6
      <4>5. <<x, y, z>>[i] \in {x, y, z}
        BY <4>4
      <4> QED
        BY <4>5, <4>6, <4>7
    <3>2. lb' = lb \/ (\E i \in DOMAIN KC!LBSteps : lb' = KC!LBSteps[i])
      BY <1>16 DEF KC!ReconcileLoadbalancerFails
    <3>3. lb \in [config : SUBSET Machines, deployment : BOOLEAN, service : BOOLEAN]
      BY <1>3 DEF KCSurroundings
    <3> QED
      BY <3>1, <3>2, <3>3
  <2>6. KCSurroundings'
    BY <1>3, <2>1, <2>5 DEF KCSurroundings
  <2>2. CASE KC!EndFaulty(KC!Fresh, KC!Unavailable)
    <3>1. KC!Unavailable.own /\ KC!Unavailable.finalizer
      BY <1>5, <1>13, <2>1
    <3> QED
      BY <1>13, <1>15, <2>1, <2>2, <2>6, <3>1
  <2>3. CASE KC!EndFaulty(KC!Fresh, [KC!Unavailable EXCEPT !.servers = S])
    <3>1. PICK e \in {"none", "lb"} : e = c.endpoint
      BY <1>1 DEF KC!Kubeforce
    <3>2. [KC!Unavailable EXCEPT !.servers = S] =
                [KC!Unavailable EXCEPT !.servers = S, !.endpoint = e]
      <4>1. PICK u \in KC!Kubeforce : u = KC!Unavailable /\ u.endpoint = e
        BY <1>1, <1>13, <3>1 DEF KC!Kubeforce
      <4>2. [u EXCEPT !.servers = S] = [u EXCEPT !.servers = S, !.endpoint = e]
        BY <4>1 DEF KC!Kubeforce
      <4> QED
        BY <4>1, <4>2
    <3>3. PICK v : v = [KC!Unavailable EXCEPT !.servers = S, !.endpoint = e]
      OBVIOUS
    <3>4. v \in KCVersion /\ v.own /\ v.finalizer /\ v.ready = c.ready
      BY <1>2, <1>14, <2>1, <3>3
    <3>5. KC!EndFaulty(KC!Fresh, v)
      BY <2>3, <3>2, <3>3
    <3> QED
      BY <1>15, <2>1, <2>6, <3>4, <3>5
  <2> QED
    BY <2>1, <2>2, <2>3
<1>17. CASE KC!ReconcileEndpointFails
  <2>1. /\ KC!Wanted /\ UNCHANGED <<machines, playbooks>> /\ lb' = KC!Balanced
        /\ \E X \in {S, KC!Replaced.servers} :
                KC!EndFaulty(KC!Fresh, [KC!Unavailable EXCEPT !.servers = X, !.endpoint = "lb"])
    BY <1>17 DEF KC!ReconcileEndpointFails, S
  <2>2. PICK X \in {S, KC!Replaced.servers} :
            KC!EndFaulty(KC!Fresh, [KC!Unavailable EXCEPT !.servers = X, !.endpoint = "lb"])
    BY <2>1
  <2>3. X \in SUBSET Machines
    <3>1. KC!Replaced \in KC!Kubeforce
      BY <1>9, <2>1 DEF KCVersion
    <3>2. KC!Replaced.servers \in SUBSET Machines
      BY <3>1 DEF KC!Kubeforce
    <3> QED
      BY <1>2, <2>2, <3>2
  <2>4. PICK v : v = [KC!Unavailable EXCEPT !.servers = X, !.endpoint = "lb"]
    OBVIOUS
  <2>5. v \in KCVersion /\ v.own /\ v.finalizer /\ v.ready = c.ready
    BY <1>14, <2>1, <2>3, <2>4
  <2>6. cluster' \in [stored : KC!Endpoints, cached : KC!Endpoints, kubeconfig : KC!Endpoints]
    BY <1>3, <1>17 DEF KC!ReconcileEndpointFails, KCSurroundings, KC!Endpoints
  <2>7. KCSurroundings'
    BY <1>3, <1>10, <2>1, <2>6 DEF KCSurroundings
  <2>8. KC!EndFaulty(KC!Fresh, v)
    BY <2>2, <2>4
  <2> QED
    BY <1>15, <2>1, <2>5, <2>7, <2>8
<1>18. CASE KC!ReconcileDeleteWaits \/ KC!ReconcileDeleteFails
  <2>1. PICK u \in KCVersion : /\ u = KC!Unavailable /\ u.own = c.own
                               /\ u.finalizer = c.finalizer /\ u.ready = c.ready
    BY <1>13
  <2>2. Same /\ c.deleting /\ (KC!End(u, TRUE) \/ KC!EndFaulty(KC!Fresh, u))
    BY <1>18, <2>1 DEF KC!ReconcileDeleteWaits, KC!ReconcileDeleteFails, KC!Discarded, KC!Quiet,
                       KC!surroundings
  <2>3. EndedAs(MoreTrouble, KC!Fresh, u)
    BY <1>6, <2>2
  <2> QED
    BY <1>4, <2>1, <2>2, <2>3, KCEnded
<1>19. CASE KC!ReconcileFinalize
  <2>1. PICK other \in BOOLEAN :
            /\ KC!Discarded /\ KC!Descendants = {} /\ Same
            /\ KC!End([KC!Unavailable EXCEPT !.own = FALSE, !.finalizer = other], FALSE)
    BY <1>19 DEF KC!ReconcileFinalize, KC!Quiet, KC!surroundings
  <2>2. PICK v : v = [KC!Unavailable EXCEPT !.own = FALSE, !.finalizer = other]
    OBVIOUS
  <2>3. v \in KCVersion /\ c.deleting
    <3>1. c.deleting
      BY <2>1 DEF KC!Discarded
    <3>2. PICK u \in KC!Kubeforce : u = KC!Unavailable /\ u.deleting /\ u \in KCVersion
      BY <1>13, <3>1
    <3> QED
      BY <2>2, <3>1, <3>2 DEF KCVersion, KC!Kubeforce
  <2>4. EndedAs(MoreTrouble, KC!Fresh, v)
    BY <1>6, <2>1, <2>2, <2>3
  <2> QED
    BY <1>4, <2>1, <2>3, <2>4, KCEnded
<1> QED
  BY <1>7, <1>8, <1>11, <1>12, <1>16, <1>17, <1>18, <1>19

LEMMA KCMergedFields ==
    ASSUME NEW c \in KC!Kubeforce, NEW F
    PROVE  LET D == {"exists", "deleting", "finalizer", "own", "owned", "available", "ready",
                     "endpoint", "servers"}
               m == Merged(c, F)
               w(f) == IF f \in F /\ work.new[f] # work.old[f] THEN work.new[f] ELSE c[f]
           IN  /\ DOMAIN m = D /\ m = [f \in D |-> m[f]]
               /\ \A f \in D \ {"exists"} : m[f] = w(f)
               /\ m["exists"] = IF w("deleting") /\ ~w("finalizer") THEN FALSE
                                ELSE w("exists")
<1> DEFINE D == {"exists", "deleting", "finalizer", "own", "owned", "available", "ready",
                 "endpoint", "servers"}
<1>1. c = [f \in D |-> c[f]]
  BY DEF KC!Kubeforce
<1>2. {"exists", "deleting", "finalizer"} \subseteq D
  OBVIOUS
<1> HIDE DEF D
<1>3. LET m == Merged(c, F)
          w(f) == IF f \in F /\ work.new[f] # work.old[f] THEN work.new[f] ELSE c[f]
      IN  /\ DOMAIN m = D /\ m = [f \in D |-> m[f]]
          /\ \A f \in D \ {"exists"} : m[f] = w(f)
          /\ m["exists"] = IF w("deleting") /\ ~w("finalizer") THEN FALSE
                           ELSE w("exists")
  BY <1>1, <1>2, MergedFields, ZenonT(60)
<1> QED
  BY <1>3 DEF D

LEMMA KCMerges ==
    ASSUME NEW c \in KCVersion, work.old \in KCVersion, work.new \in KCVersion,
           <<work.old, c>> \in KCOrder,
           ~work.old.deleting => /\ work.new.own /\ work.new.finalizer
                                 /\ work.new.ready /\ ~work.old.ready => work.old.own,
           NEW F, {"exists", "deleting", "owned"} \cap F = {}, "own" \in F <=> "finalizer" \in F
    PROVE  LET m == Merged(c, F)
           IN  /\ m \in KCVersion /\ <<c, m>> \in KCOrder
               /\ m.own \in {work.new.own, c.own}
               /\ m.finalizer \in {work.new.finalizer, c.finalizer}
               /\ m.exists = IF m.deleting /\ ~m.finalizer THEN FALSE ELSE c.exists
<1> DEFINE D == {"exists", "deleting", "finalizer", "own", "owned", "available", "ready",
                 "endpoint", "servers"}
           m == Merged(c, F)
           w(f) == IF f \in F /\ work.new[f] # work.old[f] THEN work.new[f] ELSE c[f]
<1>1. c \in KC!Kubeforce /\ work.old \in KC!Kubeforce /\ work.new \in KC!Kubeforce
  BY DEF KCVersion
<1>3. /\ DOMAIN m = D /\ m = [f \in D |-> m[f]]
      /\ \A f \in D \ {"exists"} : m[f] = w(f)
      /\ m["exists"] = IF w("deleting") /\ ~w("finalizer") THEN FALSE ELSE w("exists")
  BY <1>1, KCMergedFields
<1> HIDE DEF m
<1>4. /\ m.deleting = w("deleting") /\ m.finalizer = w("finalizer") /\ m.own = w("own")
      /\ m.owned = w("owned") /\ m.available = w("available") /\ m.ready = w("ready")
      /\ m.endpoint = w("endpoint") /\ m.servers = w("servers")
      /\ m.exists = IF w("deleting") /\ ~w("finalizer") THEN FALSE ELSE w("exists")
  BY <1>3
<1>5. w("exists") = c.exists /\ w("deleting") = c.deleting /\ w("owned") = c.owned
  OBVIOUS
<1>6. /\ c.exists \in BOOLEAN /\ c.deleting \in BOOLEAN /\ c.owned \in BOOLEAN
      /\ w("finalizer") \in BOOLEAN /\ w("own") \in BOOLEAN /\ w("ready") \in BOOLEAN
  BY <1>1 DEF KC!Kubeforce
<1>7. /\ w("available") \in KC!Condition /\ w("endpoint") \in {"none", "lb"}
      /\ w("servers") \in SUBSET Machines
  BY <1>1 DEF KC!Kubeforce
<1>8. /\ w("finalizer") \in {work.new.finalizer, c.finalizer}
      /\ w("own") \in {work.new.own, c.own}
  OBVIOUS
<1>9. ASSUME ~c.deleting
      PROVE  /\ w("ready") => w("own")
             /\ w("own") => w("finalizer")
             /\ c.own => w("own")
             /\ c.finalizer => w("finalizer")
  <2>1. /\ ~work.old.deleting /\ (work.old.own => c.own) /\ (work.old.finalizer => c.finalizer)
        /\ work.new.own /\ work.new.finalizer
        /\ work.new.ready /\ ~work.old.ready => work.old.own
        /\ c.ready => c.own
        /\ c.own => c.finalizer
    BY <1>9 DEF KCOrder, KCVersion
  <2>2. /\ work.old.own \in BOOLEAN /\ work.new.own \in BOOLEAN /\ c.own \in BOOLEAN
        /\ work.old.ready \in BOOLEAN /\ work.new.ready \in BOOLEAN /\ c.ready \in BOOLEAN
        /\ work.old.finalizer \in BOOLEAN /\ work.new.finalizer \in BOOLEAN
        /\ c.finalizer \in BOOLEAN
    BY <1>1 DEF KC!Kubeforce
  <2>3. (c.own => w("own")) /\ (c.finalizer => w("finalizer"))
    BY <2>1, <2>2
  <2>4. w("own") => w("finalizer")
    BY <2>1, <2>2
  <2>5. w("ready") => w("own")
    <3>1. w("ready") => c.own
      BY <2>1, <2>2
    <3> QED
      BY <2>3, <3>1
  <2> QED
    BY <2>3, <2>4, <2>5
<1> HIDE DEF w
<1>10. m.exists \in BOOLEAN /\ (~m.exists => c.deleting)
  <2>1. ~c.exists => c.deleting
    BY DEF KCVersion
  <2> QED
    BY <1>4, <1>5, <1>6, <2>1
<1>11. m \in KC!Kubeforce
  BY <1>3, <1>4, <1>5, <1>6, <1>7, <1>10 DEF KC!Kubeforce
<1>12. m \in KCVersion /\ <<c, m>> \in KCOrder
  BY <1>4, <1>5, <1>9, <1>10, <1>11 DEF KCVersion, KCOrder
<1> QED
  BY <1>4, <1>5, <1>8, <1>12 DEF m

LEMMA KCPatches ==
    ASSUME KCInv, KC!Patch \/ KC!PatchPartly
    PROVE  KCInv'
<1>1. PICK F : /\ PatchedAs(MoreTrouble, F)
               /\ {"exists", "deleting", "owned"} \cap F = {}
               /\ "own" \in F <=> "finalizer" \in F
  <2>1. CASE KC!Patch
    <3> DEFINE F == UNION {KC!Calls[k] : k \in DOMAIN KC!Calls}
    <3>1. F = {"available", "finalizer", "own", "endpoint", "ready", "servers"}
      BY DEF KC!Calls
    <3>2. /\ work.busy /\ KC!StorePatch(F) /\ UNCHANGED <<faults, stale, changes>>
          /\ dirty' \in BOOLEAN
      BY <2>1 DEF KC!Patch, KC!PatchApplied
    <3> HIDE DEF F
    <3>3. PatchedAs(MoreTrouble, F)
      BY <3>2, KCWrites DEF KC!StorePatch, KC!Idle, PatchedAs
    <3> QED
      BY <3>1, <3>3
  <2>2. CASE KC!PatchPartly
    <3>1. PICK done \in SUBSET DOMAIN KC!Calls : KC!PatchFails(KC!Calls, done)
      BY <2>2 DEF KC!PatchPartly
    <3> DEFINE F == UNION {KC!Calls[k] : k \in done}
    <3>2. /\ F \subseteq {"available", "finalizer", "own", "endpoint", "ready", "servers"}
          /\ "own" \in F <=> "finalizer" \in F
      BY DEF KC!Calls
    <3>3. /\ work.busy /\ KC!StorePatch(F) /\ UNCHANGED <<stale, changes>>
          /\ dirty' \in BOOLEAN /\ faults' = faults + 1 /\ faults + stale + changes < MoreTrouble
      BY <3>1 DEF KC!PatchFails, KC!Trouble
    <3> HIDE DEF F
    <3>4. PatchedAs(MoreTrouble, F)
      BY <3>3, KCWrites DEF KC!StorePatch, KC!Idle, PatchedAs
    <3> QED
      BY <3>2, <3>4
  <2> QED
    BY <2>1, <2>2
<1>2. UNCHANGED <<machines, playbooks, cluster, lb>>
  BY DEF KC!Patch, KC!PatchPartly, KC!Quiet, KC!surroundings
<1>3. work.busy /\ work.old \in KCVersion /\ work.new \in KCVersion
  BY <1>1, KCTypes DEF PatchedAs
<1>4. PICK c \in KCVersion : c = obj.stored
  BY KCTypes
<1>5. PICK m : m = Merged(c, F)
  OBVIOUS
<1>6. /\ m \in KCVersion /\ <<c, m>> \in KCOrder
      /\ m.own \in {work.new.own, c.own}
      /\ m.finalizer \in {work.new.finalizer, c.finalizer}
      /\ m.exists = IF m.deleting /\ ~m.finalizer THEN FALSE ELSE c.exists
  <2>1. <<work.old, c>> \in KCOrder
    BY <1>3, <1>4, KCTypes
  <2>2. ~work.old.deleting => /\ work.new.own /\ work.new.finalizer
                              /\ work.new.ready /\ ~work.old.ready => work.old.own
    BY <1>3 DEF KCInv
  <2> QED
    BY <1>1, <1>3, <1>5, <2>1, <2>2, KCMerges
<1>7. /\ Queued(KCVersion, KCOrder)' /\ Bounded(MoreTrouble)' /\ ~work'.busy
      /\ IF obj.stored.exists THEN obj'.stored = m ELSE obj' = obj
      /\ NoLess
  <2>1. Queued(KCVersion, KCOrder) /\ Bounded(MoreTrouble)
    BY DEF KCInv
  <2>2. m = Merged(obj.stored, F) /\ <<obj.stored, m>> \in KCOrder
    BY <1>4, <1>5, <1>6
  <2> QED
    BY <1>1, <1>6, <2>1, <2>2, QueuePatched, KCOrdered, MoreTroubleAssumption
<1>8. ASSUME stale' = 0, KCPeopled'
      PROVE  obj'.stored.exists /\ obj'.stored.own /\ obj'.stored.finalizer
  <2>1. stale = 0 /\ KCPeopled
    BY <1>2, <1>7, <1>8 DEF NoLess, KCPeopled
  <2>2. /\ c.exists /\ c.own /\ c.finalizer /\ work.new.own /\ work.new.finalizer
    BY <1>3, <1>4, <2>1 DEF KCInv
  <2>3. m.exists /\ m.own /\ m.finalizer
    BY <1>6, <2>2
  <2> QED
    BY <1>4, <1>7, <2>2, <2>3
<1> QED
  BY <1>2, <1>7, <1>8 DEF KCInv

\* Nothing is written to the object, and no machine is new.
LEMMA KCMoves ==
    ASSUME KCInv, MovedAs(MoreTrouble), KCSurroundings', KCPeopled' => KCPeopled
    PROVE  KCInv'
<1>1. /\ Queued(KCVersion, KCOrder)' /\ Bounded(MoreTrouble)' /\ obj'.stored = obj.stored
      /\ UNCHANGED work \/ ~work'.busy
      /\ NoLess
  <2>1. Queued(KCVersion, KCOrder) /\ Bounded(MoreTrouble)
    BY DEF KCInv
  <2> QED
    BY <2>1, QueueMoved, KCOrdered, MoreTroubleAssumption
<1>2. CASE UNCHANGED work
  BY <1>1, <1>2 DEF KCInv, KCSurroundings, NoLess
<1>3. CASE ~work'.busy
  BY <1>1, <1>3 DEF KCInv, KCSurroundings, NoLess
<1> QED
  BY <1>1, <1>2, <1>3

\* Another client writes the object.
LEMMA KCStores ==
    ASSUME KCInv, NEW v \in KCVersion, StoredAs(MoreTrouble, v), UNCHANGED <<machines, playbooks, cluster, lb>>,
           <<obj.stored, v>> \in KCOrder,
           obj.stored.exists /\ obj.stored.own /\ obj.stored.finalizer =>
                v.exists /\ v.own /\ v.finalizer
    PROVE  KCInv'
<1>1. /\ Queued(KCVersion, KCOrder)' /\ Bounded(MoreTrouble)' /\ obj'.stored = v
      /\ UNCHANGED work /\ NoLess
  <2>1. Queued(KCVersion, KCOrder) /\ Bounded(MoreTrouble)
    BY DEF KCInv
  <2> QED
    BY <2>1, QueueStored, KCOrdered, MoreTroubleAssumption
<1>2. KCPeopled' = KCPeopled
  BY DEF KCPeopled
<1> QED
  BY <1>1, <1>2 DEF KCInv, NoLess

LEMMA KCAround ==
    ASSUME KCInv,
           \/ KC!ReconcileNotFound \/ KC!ReconcileNotNow
           \/ KC!ObserveEvent \/ KC!Adopt \/ KC!ObserveMachine \/ KC!ObserveCluster
           \/ KC!TakeEndpoint \/ KC!MachineComes \/ KC!MachineAddressed \/ KC!MachineDeleted
           \/ KC!MachineGoes \/ KC!PlaybookComes \/ KC!PlaybookGoes \/ KC!ObservePlaybooks
           \/ KC!Enable \/ KC!Pause \/ KC!Delete \/ KC!OtherFinalizerGoes
           \/ KC!ManagerRestarts \/ UNCHANGED KC!vars
    PROVE  KCInv'
<1> DEFINE Same == UNCHANGED <<machines, playbooks, cluster, lb>>
           s == obj.stored
           Copies == [stored : KC!MachineState, cached : KC!MachineState]
<1>1. /\ KCSurroundings /\ dirty \in BOOLEAN /\ s \in KCVersion /\ s \in KC!Kubeforce
      /\ s.exists \in BOOLEAN /\ s.deleting \in BOOLEAN
  BY KCTypes DEF KCInv, KCSurroundings, KCVersion, KC!Kubeforce
<1>2. ASSUME Same, MovedAs(MoreTrouble)
      PROVE  KCInv'
  BY <1>1, <1>2, KCMoves DEF KCSurroundings, KCPeopled
<1>3. ASSUME NEW wakes \in BOOLEAN, KC!Change(wakes)
      PROVE  MovedAs(MoreTrouble)
  BY <1>3 DEF KC!Change, KC!Trouble, MovedAs
<1>4. ASSUME UNCHANGED KC!queue
      PROVE  MovedAs(MoreTrouble)
  BY <1>1, <1>4 DEF KC!queue, MovedAs
<1>5. CASE KC!ReconcileNotFound \/ KC!ReconcileNotNow
  <2>1. KC!EndEarly(FALSE) /\ Same
    BY <1>5 DEF KC!ReconcileNotFound, KC!ReconcileNotNow, KC!Quiet, KC!surroundings
  <2> QED
    BY <1>2, <2>1, KCQueue
<1>6. CASE KC!ObserveEvent
  BY <1>2, <1>6 DEF KC!ObserveEvent, KC!DeliverEvent, KC!Current, KC!Deliver, Current,
                    Deliver, MovedAs, KC!Quiet, KC!surroundings
<1>7. ASSUME NEW v, KC!StoreObject(v), UNCHANGED <<work, faults, stale, changes>>
      PROVE  StoredAs(MoreTrouble, v)
  BY <1>7, KCWrites DEF KC!StoreObject, StoredAs
<1>8. CASE KC!Adopt
  <2>1. PICK v : v = [s EXCEPT !.owned = TRUE]
    OBVIOUS
  <2>2. KC!StoreObject(v) /\ UNCHANGED <<work, faults, stale, changes>> /\ Same
    BY <1>8, <2>1 DEF KC!Adopt, KC!Quiet, KC!surroundings
  <2>3. /\ v \in KCVersion /\ v.exists = s.exists /\ v.own = s.own
        /\ v.finalizer = s.finalizer /\ v.deleting = s.deleting
    BY <1>1, <2>1 DEF KCVersion, KC!Kubeforce
  <2>4. <<s, v>> \in KCOrder
    BY <1>1, <2>3 DEF KCOrder
  <2> QED
    BY <1>7, <2>2, <2>3, <2>4, KCStores
<1>9. CASE KC!Delete
  <2>1. PICK v : v = IF s.finalizer THEN [s EXCEPT !.deleting = TRUE]
                     ELSE [s EXCEPT !.deleting = TRUE, !.exists = FALSE]
    OBVIOUS
  <2>2. KC!StoreObject(v) /\ UNCHANGED <<work, faults, stale, changes>> /\ Same
    BY <1>9, <2>1 DEF KC!Delete, KC!RequestDelete, KC!Quiet, KC!surroundings
  <2>3. /\ v \in KCVersion /\ v.deleting /\ (s.finalizer /\ s.exists => v.exists)
        /\ v.own = s.own /\ v.finalizer = s.finalizer
    BY <1>1, <2>1 DEF KCVersion, KC!Kubeforce
  <2>4. <<s, v>> \in KCOrder
    BY <1>1, <2>3 DEF KCOrder
  <2> QED
    BY <1>7, <2>2, <2>3, <2>4, KCStores
<1>10. CASE KC!OtherFinalizerGoes
  <2>1. PICK v : v = [s EXCEPT !.finalizer = FALSE, !.exists = FALSE]
    OBVIOUS
  <2>2. /\ KC!StoreObject(v) /\ UNCHANGED <<work, faults, stale, changes>> /\ Same
        /\ s.deleting /\ ~s.own
    BY <1>10, <2>1 DEF KC!OtherFinalizerGoes, KC!Quiet, KC!surroundings
  <2>3. v \in KCVersion /\ v.deleting
    BY <1>1, <2>1, <2>2 DEF KCVersion, KC!Kubeforce
  <2>4. <<s, v>> \in KCOrder
    BY <1>1, <2>3 DEF KCOrder
  <2> QED
    BY <1>7, <2>2, <2>3, <2>4, KCStores
<1>11. ASSUME NEW m \in Machines, NEW k \in Copies,
              machines' = [machines EXCEPT ![m] = k], UNCHANGED <<playbooks, cluster, lb>>,
              MovedAs(MoreTrouble), k.stored # "absent" => machines[m].stored # "absent"
       PROVE  KCInv'
  <2>1. KCSurroundings'
    BY <1>1, <1>11 DEF KCSurroundings
  <2>2. KCPeopled' => KCPeopled
    BY <1>1, <1>11 DEF KCPeopled, KCSurroundings
  <2> QED
    BY <1>11, <2>1, <2>2, KCMoves
<1>12. ASSUME NEW m \in Machines
       PROVE  /\ machines[m] \in Copies
              /\ \A x \in KC!MachineState :
                    /\ [machines[m] EXCEPT !.stored = x] \in Copies
                    /\ [machines[m] EXCEPT !.stored = x].stored = x
              /\ [machines[m] EXCEPT !.cached = machines[m].stored] \in Copies
              /\ [machines[m] EXCEPT !.cached = machines[m].stored].stored = machines[m].stored
  BY <1>1 DEF KCSurroundings
<1>13. CASE KC!ObserveMachine
  <2>1. PICK m \in Machines :
            /\ machines' = [machines EXCEPT ![m].cached = machines[m].stored]
            /\ dirty' \in BOOLEAN
            /\ UNCHANGED <<obj, work, faults, stale, changes, playbooks, cluster, lb>>
    BY <1>13 DEF KC!ObserveMachine
  <2>2. PICK k : k = [machines[m] EXCEPT !.cached = machines[m].stored]
    OBVIOUS
  <2>3. machines' = [machines EXCEPT ![m] = k] /\ k \in Copies /\ k.stored = machines[m].stored
    BY <1>12, <2>1, <2>2
  <2>4. MovedAs(MoreTrouble)
    BY <2>1 DEF MovedAs
  <2> QED
    BY <1>11, <2>1, <2>3, <2>4
<1>14. CASE KC!ObserveCluster \/ KC!TakeEndpoint
  <2>1. UNCHANGED <<KC!queue, machines, playbooks, lb>>
    BY <1>14 DEF KC!ObserveCluster, KC!TakeEndpoint
  <2>2. cluster' \in [stored : KC!Endpoints, cached : KC!Endpoints, kubeconfig : KC!Endpoints]
    BY <1>1, <1>14 DEF KC!ObserveCluster, KC!TakeEndpoint, KCSurroundings, KC!Endpoints
  <2>3. KCSurroundings' /\ KCPeopled' = KCPeopled
    BY <1>1, <2>1, <2>2 DEF KCSurroundings, KCPeopled
  <2> QED
    BY <1>4, <2>1, <2>3, KCMoves
<1>15. CASE KC!MachineComes
  <2>1. PICK m \in Machines :
            /\ ~s.deleting /\ s.ready /\ KC!Change(FALSE)
            /\ machines' = [machines EXCEPT ![m].stored = "new"]
            /\ UNCHANGED <<playbooks, cluster, lb>>
    BY <1>15 DEF KC!MachineComes
  <2>2. PICK k : k = [machines[m] EXCEPT !.stored = "new"]
    OBVIOUS
  <2>3. machines' = [machines EXCEPT ![m] = k] /\ k \in Copies
    BY <1>12, <2>1, <2>2 DEF KC!MachineState
  <2>4. KCSurroundings'
    BY <1>1, <2>1, <2>3 DEF KCSurroundings
  <2>5. s.exists /\ s.own /\ s.finalizer
    BY <1>1, <2>1 DEF KCVersion
  <2>6. UNCHANGED <<obj, work, stale>> /\ (work.busy => work.new.own /\ work.new.finalizer)
    <3>1. UNCHANGED <<obj, work, stale>>
      BY <2>1 DEF KC!Change
    <3>2. work.busy => ~work.old.deleting
      BY <2>1, KCTypes DEF KCOrder
    <3> QED
      BY <3>1, <3>2 DEF KCInv
  <2>7. Queued(KCVersion, KCOrder)' /\ Bounded(MoreTrouble)'
    <3>1. Queued(KCVersion, KCOrder) /\ Bounded(MoreTrouble) /\ MovedAs(MoreTrouble)
      BY <1>3, <2>1 DEF KCInv
    <3> QED
      BY <3>1, QueueMoved, KCOrdered, MoreTroubleAssumption
  <2> QED
    BY <2>4, <2>5, <2>6, <2>7 DEF KCInv, KCSurroundings
<1>16. ASSUME NEW m \in Machines, NEW x \in KC!MachineState, machines[m].stored # "absent",
              machines' = [machines EXCEPT ![m].stored = x],
              UNCHANGED <<playbooks, cluster, lb>>,
              MovedAs(MoreTrouble)
       PROVE  KCInv'
  <2>1. PICK k : k = [machines[m] EXCEPT !.stored = x]
    OBVIOUS
  <2>2. machines' = [machines EXCEPT ![m] = k] /\ k \in Copies
    BY <1>12, <1>16, <2>1
  <2> QED
    BY <1>11, <1>16, <2>2
<1>17. CASE KC!MachineAddressed
  BY <1>4, <1>16, <1>17 DEF KC!MachineAddressed, KC!MachineState
<1>18. CASE KC!MachineGoes
  BY <1>4, <1>16, <1>18 DEF KC!MachineGoes, KC!MachineState
<1>19. CASE KC!MachineDeleted
  <2>1. PICK m \in Machines :
            /\ machines[m].stored \in {"new", "addressed"}
            /\ UNCHANGED KC!queue \/ KC!Change(FALSE)
            /\ machines' = [machines EXCEPT ![m].stored = "deleting"]
            /\ UNCHANGED <<playbooks, cluster, lb>>
    BY <1>19 DEF KC!MachineDeleted
  <2>2. MovedAs(MoreTrouble)
    BY <1>3, <1>4, <2>1
  <2> QED
    BY <1>16, <2>1, <2>2 DEF KC!MachineState
<1>20. CASE KC!Enable
  <2>1. KC!Change(TRUE) /\ Same
    BY <1>20 DEF KC!Enable
  <2> QED
    BY <1>2, <1>3, <2>1
<1>21. CASE KC!Pause
  <2>1. KC!Change(paused) /\ Same
    BY <1>21 DEF KC!Pause
  <2>2. MovedAs(MoreTrouble)
    BY <2>1 DEF KC!Change, KC!Trouble, MovedAs
  <2> QED
    BY <1>2, <2>1, <2>2
<1>22. CASE KC!ManagerRestarts
  <2>1. /\ KC!Restart
        /\ machines' = [m \in Machines |-> [machines[m] EXCEPT !.cached = machines[m].stored]]
        /\ playbooks' = [playbooks EXCEPT !.cached = playbooks.stored]
        /\ cluster' = [cluster EXCEPT !.cached = cluster.stored]
        /\ UNCHANGED lb
    BY <1>22 DEF KC!ManagerRestarts
  <2>2. MovedAs(MoreTrouble)
    BY <1>1, <2>1 DEF KC!Restart, KC!Trouble, KC!Listed, KC!Idle, Listed, MovedAs
  <2>3. machines' \in [Machines -> Copies]
    BY <1>12, <2>1
  <2>4. cluster' \in [stored : KC!Endpoints, cached : KC!Endpoints, kubeconfig : KC!Endpoints]
    BY <1>1, <2>1 DEF KCSurroundings
  <2>5. KCSurroundings'
    BY <1>1, <2>1, <2>3, <2>4 DEF KCSurroundings
  <2>6. KCPeopled' => KCPeopled
    BY <1>1, <1>12, <2>1 DEF KCPeopled, KCSurroundings
  <2> QED
    BY <2>2, <2>5, <2>6, KCMoves
<1>23. CASE UNCHANGED KC!vars
  BY <1>2, <1>4, <1>23 DEF KC!vars, KC!surroundings
<1>24. ASSUME NEW p \in [stored : SUBSET KC!Kinds, cached : SUBSET KC!Kinds], playbooks' = p,
              UNCHANGED <<machines, cluster, lb>>, MovedAs(MoreTrouble),
              p.stored # {} => KCPeopled
       PROVE  KCInv'
  <2>1. KCSurroundings'
    BY <1>1, <1>24 DEF KCSurroundings
  <2>2. KCPeopled' => KCPeopled
    BY <1>24 DEF KCPeopled
  <2> QED
    BY <1>24, <2>1, <2>2, KCMoves
<1>25. CASE KC!PlaybookComes
  <2>1. PICK k \in KC!Kinds :
            /\ \E m \in Machines : machines[m].stored # "absent"
            /\ KC!Change(FALSE)
            /\ playbooks' = [playbooks EXCEPT !.stored = playbooks.stored \cup {k}]
            /\ UNCHANGED <<machines, cluster, lb>>
    BY <1>25 DEF KC!PlaybookComes
  <2>2. PICK p : p = [playbooks EXCEPT !.stored = playbooks.stored \cup {k}]
    OBVIOUS
  <2>3. p \in [stored : SUBSET KC!Kinds, cached : SUBSET KC!Kinds]
    BY <1>1, <2>2 DEF KCSurroundings
  <2>4. KCPeopled /\ MovedAs(MoreTrouble)
    BY <1>3, <2>1 DEF KCPeopled
  <2> QED
    BY <1>24, <2>1, <2>2, <2>3, <2>4
<1>26. CASE KC!PlaybookGoes
  <2>1. PICK k \in playbooks.stored :
            /\ playbooks' = [playbooks EXCEPT !.stored = playbooks.stored \ {k}]
            /\ UNCHANGED <<KC!queue, machines, cluster, lb>>
    BY <1>26 DEF KC!PlaybookGoes
  <2>2. PICK p : p = [playbooks EXCEPT !.stored = playbooks.stored \ {k}]
    OBVIOUS
  <2>3. p \in [stored : SUBSET KC!Kinds, cached : SUBSET KC!Kinds]
    BY <1>1, <2>2 DEF KCSurroundings
  <2>4. KCPeopled /\ MovedAs(MoreTrouble)
    BY <1>4, <2>1 DEF KCPeopled
  <2> QED
    BY <1>24, <2>1, <2>2, <2>3, <2>4
<1>27. CASE KC!ObservePlaybooks
  <2>1. PICK p : /\ p = [playbooks EXCEPT !.cached = playbooks.stored]
                 /\ playbooks' = p /\ UNCHANGED <<KC!queue, machines, cluster, lb>>
    BY <1>27 DEF KC!ObservePlaybooks
  <2>2. /\ p \in [stored : SUBSET KC!Kinds, cached : SUBSET KC!Kinds]
        /\ p.stored = playbooks.stored
    BY <1>1, <2>1 DEF KCSurroundings
  <2>3. MovedAs(MoreTrouble)
    BY <1>4, <2>1
  <2> QED
    BY <1>24, <2>1, <2>2, <2>3 DEF KCPeopled
<1> QED
  BY <1>5, <1>6, <1>8, <1>9, <1>10, <1>13, <1>14, <1>15, <1>17, <1>18, <1>19, <1>20,
     <1>21, <1>22, <1>23, <1>25, <1>26, <1>27

LEMMA KCStep ==
    ASSUME KCInv, [KC!Next]_(KC!vars)
    PROVE  KCInv'
BY KCReconciles, KCPatches, KCAround DEF KC!Next, KC!Reconcile

LEMMA KCBegins ==
    ASSUME KC!Init
    PROVE  KCInv
<1>1. PICK f \in BOOLEAN : KC!QueueInit(KC!NewKubeforce(f))
  BY DEF KC!Init
<1>2. PICK v : v = KC!NewKubeforce(f)
  OBVIOUS
<1>3. v \in KCVersion
  BY <1>2 DEF KC!NewKubeforce, KCVersion, KC!Kubeforce, KC!Condition
<1>4. QueueInit(v)
  BY <1>1, <1>2 DEF KC!QueueInit, QueueInit, KC!Listed, Listed, KC!Idle, Idle
<1>5. Queued(KCVersion, KCOrder) /\ Bounded(MoreTrouble) /\ ~work.busy
  BY <1>3, <1>4, QueueBegins, KCOrdered, MoreTroubleAssumption
<1>6. machines = [m \in Machines |-> [stored |-> "absent", cached |-> "absent"]]
  BY DEF KC!Init
<1>7. machines \in [Machines -> [stored : KC!MachineState, cached : KC!MachineState]]
      /\ playbooks \in [stored : SUBSET KC!Kinds, cached : SUBSET KC!Kinds]
      /\ ~KCPeopled
  <2>1. playbooks = [stored |-> {}, cached |-> {}]
    BY DEF KC!Init
  <2> QED
    BY <1>6, <2>1 DEF KC!MachineState, KCPeopled
<1>8. cluster \in [stored : KC!Endpoints, cached : KC!Endpoints, kubeconfig : KC!Endpoints]
  BY DEF KC!Init, KC!Endpoints
<1>9. lb \in [config : SUBSET Machines, deployment : BOOLEAN, service : BOOLEAN]
  BY DEF KC!Init
<1> QED
  BY <1>5, <1>7, <1>8, <1>9 DEF KCInv

LEMMA KCShows ==
    ASSUME KCInv
    PROVE  KC!TypeOK /\ KC!GoesLast
<1>1. KC!TypeOK
  <2>1. KC!Trouble \in 0 .. MoreTrouble
    BY MoreTroubleAssumption DEF KCInv, Bounded, KC!Trouble
  <2>2. obj \in KC!Object(KC!Kubeforce) /\ dirty \in BOOLEAN /\ work \in KC!Work(KC!Kubeforce)
    <3>1. obj \in Object(KCVersion) /\ dirty \in BOOLEAN /\ work \in Work(KCVersion)
      BY DEF KCInv, Queued
    <3>2. KCVersion \subseteq KC!Kubeforce
      BY DEF KCVersion
    <3>3. obj \in KC!Object(KC!Kubeforce)
      <4>1. obj \in [stored : KCVersion, cached : KCVersion, events : Seq(KCVersion)]
        BY <3>1 DEF Object
      <4>2. obj.events \in Seq(KC!Kubeforce)
        BY <3>2, <4>1
      <4> QED
        BY <3>2, <4>1, <4>2 DEF KC!Object
    <3>4. work \in KC!Work(KC!Kubeforce)
      BY <3>1, <3>2 DEF Work, KC!Work, Idle, KC!Idle
    <3> QED
      BY <3>1, <3>3, <3>4
  <2> QED
    BY <2>1, <2>2 DEF KCInv, KC!TypeOK, KC!QueueTypeOK
<1>2. KC!GoesLast
  BY DEF KCInv, KCPeopled, KC!GoesLast
<1> QED
  BY <1>1, <1>2

-----------------------------------------------------------------------------
(* The KubeforceMachine *)

\* The roles that have an object, those that have one that has succeeded, those of which
\* the list shows one and those that it shows to be ready, and whether an object is being
\* deleted.
KMLive == {r \in KM!Roles : \E s \in KM!Slots : s[1] = r /\ children[s].stored # "absent"}
KMDone ==
    {r \in KM!Roles :
        \E s \in KM!Slots : s[1] = r /\ children[s].stored # "absent" /\ children[s].done}
KMSeen == {r \in KM!Roles : \E s \in KM!Slots : s[1] = r /\ children[s].cached # "absent"}
KMSure == {r \in KM!Roles : KM!Ready(r)}
KMDying == \E s \in KM!Slots : children[s].stored = "deleting"

\* The observer: what has the verdict "Succeeded" has succeeded.
KMFaithful == \A s \in KM!Slots : children[s].stored = "Succeeded" => children[s].done

\* PipelineOrder of these roles, also for the readiness that is about to be stored; while
\* there are any the machine's finalizer is held.
KMArranged(live, done) ==
    /\ ~obj.stored.deleting =>
        /\ \A q, r \in KM!OfType("install") :
            References[q].priority > References[r].priority /\ r \in live => q \in done
        /\ "boot" \in live => KM!OfType("install") \subseteq done
        /\ obj.stored.ready \/ (work.busy /\ work.new.ready) => "boot" \in done
    /\ KM!OfType("delete") \cap live # {} => KM!InstallRoles \cap live = {}
    /\ live # {} => /\ obj.stored.exists /\ obj.stored.finalizer
                    /\ work.busy => work.new.finalizer

\* Nothing is deleted and no clean-up is there before the machine's own deletion.
KMPlan(live, done, dying) ==
    /\ dying \/ KM!OfType("delete") \cap live # {} => obj.stored.deleting
    /\ stale = 0 => KMArranged(live, done)

KMInv ==
    /\ Queued(KM!Machine, Lasting(KM!Machine)) /\ Bounded(MaxTrouble)
    /\ children \in [KM!Slots -> KM!Child] /\ KMFaithful
    /\ KMPlan(KMLive, KMDone, KMDying)

\* What the webhook makes of the user's references.
LEMMA KMReferences ==
    /\ "boot" \notin DOMAIN References
    /\ \A r \in DOMAIN References : KM!Admitted(References[r])
    /\ \A t : KM!OfType(t) \subseteq KM!Roles
    /\ KM!InstallRoles \subseteq KM!Roles
    /\ KM!InstallRoles \cap KM!OfType("delete") = {}
<1>1. /\ DOMAIN Defaults = {"installer", "loadbalancer", "cleaner"}
      /\ DOMAIN Requested = {"installer"}
  BY DEF Defaults, Requested
<1>2. Required(TRUE) = {"installer", "loadbalancer", "cleaner"}
  BY <1>1 DEF Required
<1>3. DOMAIN References = {"installer", "loadbalancer", "cleaner"}
  BY <1>1, <1>2 DEF References, Defaulted
<1>4. /\ References["installer"] = [Defaults["installer"] EXCEPT !.kind = Requested["installer"].kind]
      /\ References["loadbalancer"] = Defaults["loadbalancer"]
      /\ References["cleaner"] = Defaults["cleaner"]
  BY <1>1, <1>2 DEF References, Defaulted
<1>5. /\ KM!Admitted(Defaults["installer"]) /\ KM!Admitted(Defaults["loadbalancer"])
      /\ KM!Admitted(Defaults["cleaner"]) /\ Requested["installer"].kind = "PlaybookTemplate"
  BY DEF KM!Admitted, KM!Reference, Defaults, Requested
<1>6. KM!Admitted([Defaults["installer"] EXCEPT !.kind = "PlaybookTemplate"])
  BY <1>5 DEF KM!Admitted, KM!Reference
<1>7. \A r \in DOMAIN References : KM!Admitted(References[r])
  BY <1>3, <1>4, <1>5, <1>6
<1>8. \A t : KM!OfType(t) \subseteq KM!Roles
  BY DEF KM!OfType, KM!Roles
<1>9. KM!InstallRoles \subseteq KM!Roles
  BY <1>8 DEF KM!InstallRoles, KM!Roles
<1>10. KM!InstallRoles \cap KM!OfType("delete") = {}
  BY <1>3 DEF KM!InstallRoles, KM!OfType
<1> QED
  BY <1>3, <1>7, <1>8, <1>9, <1>10

LEMMA KMQueue ==
    ASSUME NEW fresh, NEW v, NEW again \in BOOLEAN
    PROVE  /\ KM!EndWith(fresh, v, again) => EndedAs(MaxTrouble, fresh, v)
           /\ KM!EndFaulty(fresh, v) => EndedAs(MaxTrouble, fresh, v)
           /\ KM!EndEarly(again) => MovedAs(MaxTrouble)
<1>1. KM!EndWith(fresh, v, again) => EndedAs(MaxTrouble, fresh, v)
  BY DEF KM!EndWith, KM!Begin, KM!Current, KM!Trouble, EndedAs, Current
<1>2. KM!EndFaulty(fresh, v) => EndedAs(MaxTrouble, fresh, v)
  BY DEF KM!EndFaulty, KM!Begin, KM!Current, KM!Trouble, EndedAs, Current
<1>3. KM!EndEarly(again) => MovedAs(MaxTrouble)
  BY DEF KM!EndEarly, KM!Begin, KM!Current, KM!Trouble, MovedAs
<1> QED
  BY <1>1, <1>2, <1>3

LEMMA KMWrites ==
    ASSUME NEW o, NEW v, NEW F
    PROVE  KM!Store(o, v) = Store(o, v) /\ KM!Merged(v, F) = Merged(v, F)
<1>1. KM!Store(o, v) = Store(o, v)
  BY DEF KM!Store, KM!Changes, KM!Overflows, Store, Changes, Overflows
<1>2. KM!Merged(v, F) = Merged(v, F)
  BY DEF KM!Merged, Merged
<1> QED
  BY <1>1, <1>2

LEMMA KMTypes ==
    ASSUME KMInv
    PROVE  /\ obj.cached \in KM!Machine /\ obj.stored \in KM!Machine
           /\ obj.cached.deleting => obj.stored.deleting
           /\ work.busy => work.old \in KM!Machine /\ work.new \in KM!Machine
           /\ dirty \in BOOLEAN
<1>1. /\ Queued(KM!Machine, Lasting(KM!Machine)) /\ dirty \in BOOLEAN
  BY DEF KMInv, Queued
<1>2. /\ obj.stored \in KM!Machine /\ obj.cached \in KM!Machine
      /\ <<obj.cached, obj.stored>> \in Lasting(KM!Machine)
      /\ work.busy => work.old \in KM!Machine /\ work.new \in KM!Machine
  BY <1>1, QueuedTypes, LastingOrdered
<1> QED
  BY <1>1, <1>2 DEF Lasting

\* One object of the machine changes.
LEMMA KMChild ==
    ASSUME KMInv, NEW s \in KM!Slots, NEW k \in KM!Child,
           children' = [children EXCEPT ![s] = k]
    PROVE  /\ children' \in [KM!Slots -> KM!Child]
           /\ (k.stored = "absent" <=> children[s].stored = "absent") => KMLive' = KMLive
           /\ k.stored = "absent" => KMLive' \subseteq KMLive
           /\ k.stored # "absent" => KMLive' = KMLive \cup {s[1]}
           /\ (k.stored = "deleting" => children[s].stored = "deleting") => (KMDying' => KMDying)
           /\ (children[s].stored # "absent" /\ children[s].done => k.stored # "absent" /\ k.done)
              => KMDone \subseteq KMDone'
           /\ (k.stored = "Succeeded" => k.done) => KMFaithful'
<1>1. children \in [KM!Slots -> KM!Child] /\ s[1] \in KM!Roles
  BY DEF KMInv, KM!Slots
<1>2. children' \in [KM!Slots -> KM!Child]
  BY <1>1
<1>3. \A x \in KM!Slots : children'[x] = IF x = s THEN k ELSE children[x]
  BY <1>1
<1>4. (k.stored = "absent" <=> children[s].stored = "absent") => KMLive' = KMLive
  BY <1>3 DEF KMLive
<1>5. k.stored = "absent" => KMLive' \subseteq KMLive
  BY <1>3 DEF KMLive
<1>6. k.stored # "absent" => KMLive' = KMLive \cup {s[1]}
  BY <1>1, <1>3 DEF KMLive
<1>7. (k.stored = "deleting" => children[s].stored = "deleting") => (KMDying' => KMDying)
  BY <1>3 DEF KMDying
<1>8. (children[s].stored # "absent" /\ children[s].done => k.stored # "absent" /\ k.done)
      => KMDone \subseteq KMDone'
  BY <1>3 DEF KMDone
<1>9. (k.stored = "Succeeded" => k.done) => KMFaithful'
  BY <1>3 DEF KMFaithful, KMInv
<1> QED
  BY <1>2, <1>4, <1>5, <1>6, <1>7, <1>8, <1>9

\* What the reconciles do to the objects.
LEMMA KMCreates ==
    ASSUME KMInv, NEW r \in KM!Roles, KM!CreateChild(r)
    PROVE  /\ children' \in [KM!Slots -> KM!Child]
           /\ KMLive' = KMLive \cup {r} /\ (KMDying' => KMDying)
           /\ KMDone \subseteq KMDone' /\ KMFaithful'
<1>1. PICK s \in KM!Slots :
          /\ s[1] = r /\ children[s].stored = "absent"
          /\ children' = [children EXCEPT ![s] = [@ EXCEPT !.stored = "running",
                                                           !.updated = TRUE, !.done = FALSE]]
  BY DEF KM!CreateChild, KM!Free
<1>2. PICK k : k = [children[s] EXCEPT !.stored = "running", !.updated = TRUE, !.done = FALSE]
  OBVIOUS
<1>3. children \in [KM!Slots -> KM!Child] /\ children[s] \in KM!Child
  BY DEF KMInv
<1>4. k \in KM!Child /\ k.stored = "running"
  BY <1>2, <1>3 DEF KM!Child, KM!ChildStates
<1>5. children' = [children EXCEPT ![s] = k]
  BY <1>1, <1>2, <1>3 DEF KM!Child
<1> QED
  BY <1>1, <1>4, <1>5, KMChild

LEMMA KMUpdates ==
    ASSUME KMInv, NEW r, KM!UpdateChild(r)
    PROVE  /\ children' \in [KM!Slots -> KM!Child]
           /\ KMLive' = KMLive /\ (KMDying' => KMDying)
           /\ KMDone \subseteq KMDone' /\ KMFaithful'
<1>8. PICK s \in KM!Slots : \E verdict \in {children[s].stored, "running"} :
          children' = [children EXCEPT ![s].updated = TRUE,
                          ![s].stored = IF @ \in {"Succeeded", "Failed"} THEN verdict ELSE @]
  BY DEF KM!UpdateChild, KM!Listed_
<1>1. PICK verdict \in {children[s].stored, "running"} :
          children' = [children EXCEPT ![s].updated = TRUE,
                          ![s].stored = IF @ \in {"Succeeded", "Failed"} THEN verdict ELSE @]
  BY <1>8
<1>2. children \in [KM!Slots -> KM!Child] /\ children[s] \in KM!Child
  BY DEF KMInv
<1>3. PICK x : x = IF children[s].stored \in {"Succeeded", "Failed"} THEN verdict
                   ELSE children[s].stored
  OBVIOUS
<1>4. PICK k : k = [children[s] EXCEPT !.updated = TRUE, !.stored = x]
  OBVIOUS
<1>5. /\ x \in KM!ChildStates /\ (x = "absent" <=> children[s].stored = "absent")
      /\ x = "deleting" => children[s].stored = "deleting"
      /\ x = "Succeeded" => children[s].stored = "Succeeded"
  BY <1>1, <1>2, <1>3 DEF KM!Child, KM!ChildStates
<1>6. k \in KM!Child /\ k.stored = x /\ k.done = children[s].done
  BY <1>2, <1>4, <1>5 DEF KM!Child
<1>9. children[s].stored = "Succeeded" => children[s].done
  BY DEF KMInv, KMFaithful
<1>7. children' = [children EXCEPT ![s] = k]
  BY <1>1, <1>2, <1>3, <1>4 DEF KM!Child
<1> QED
  BY <1>5, <1>6, <1>7, <1>9, KMChild

LEMMA KMDeletes ==
    ASSUME KMInv, NEW slots, KM!DeleteChildren(slots)
    PROVE  /\ children' \in [KM!Slots -> KM!Child] /\ KMLive' = KMLive
           /\ KMDone \subseteq KMDone' /\ KMFaithful'
<1>1. children' = [s \in KM!Slots |-> IF s \in slots /\ children[s].stored # "absent"
                                      THEN [children[s] EXCEPT !.stored = "deleting"]
                                      ELSE children[s]]
  BY DEF KM!DeleteChildren
<1>2. ASSUME NEW s \in KM!Slots
      PROVE  /\ children'[s] \in KM!Child
             /\ children'[s].stored = "absent" <=> children[s].stored = "absent"
             /\ children'[s].done = children[s].done
             /\ children'[s].stored = "Succeeded" => children[s].stored = "Succeeded"
  <2>1. children[s] \in KM!Child
    BY DEF KMInv
  <2>2. PICK k : k = [children[s] EXCEPT !.stored = "deleting"]
    OBVIOUS
  <2>3. k \in KM!Child /\ k.stored = "deleting" /\ k.done = children[s].done
    BY <2>1, <2>2 DEF KM!Child, KM!ChildStates
  <2>4. children'[s] = IF s \in slots /\ children[s].stored # "absent" THEN k ELSE children[s]
    BY <1>1, <2>2
  <2> QED
    BY <2>1, <2>3, <2>4
<1>3. children' \in [KM!Slots -> KM!Child]
  BY <1>1, <1>2
<1>4. KMLive' = KMLive /\ KMDone \subseteq KMDone'
  BY <1>2 DEF KMLive, KMDone
<1>5. KMFaithful'
  BY <1>2 DEF KMFaithful, KMInv
<1> QED
  BY <1>3, <1>4, <1>5

\* A list that is not behind shows what is there.
LEMMA KMFresh ==
    ASSUME KM!Fresh
    PROVE  KMSeen = KMLive
BY DEF KM!Fresh, KMSeen, KMLive

LEMMA KMReady ==
    ASSUME KM!Fresh, KMFaithful
    PROVE  KMSure \subseteq KMDone
<1> SUFFICES ASSUME NEW r \in KMSure
             PROVE  r \in KMDone
  OBVIOUS
<1>1. r \in KM!Roles /\ KM!Ready(r)
  BY DEF KMSure
<1>2. KM!Cardinality({}) = Cardinality({})
  BY DEF KM!Cardinality, Cardinality
<1>3. KM!Listed_(r) # {}
  BY <1>1, <1>2, FS_EmptySet DEF KM!Ready
<1>4. PICK s \in KM!Slots : s[1] = r /\ children[s].cached = "Succeeded"
  BY <1>1, <1>3 DEF KM!Listed_, KM!Ready
<1>5. children[s].stored = "Succeeded" /\ children[s].done
  BY <1>4 DEF KM!Fresh, KMFaithful
<1> QED
  BY <1>1, <1>4, <1>5 DEF KMDone

\* An object of role r may be created: after the success of those of higher priority or of
\* the whole installation, or when nothing installed is left.
KMMay(r, seen, sure) ==
    \/ /\ ~obj.cached.deleting /\ r \in KM!OfType("install")
       /\ \A q \in KM!OfType("install") :
            References[q].priority > References[r].priority => q \in sure
    \/ ~obj.cached.deleting /\ r = "boot" /\ KM!OfType("install") \subseteq sure
    \/ obj.cached.deleting /\ r \in KM!OfType("delete") /\ KM!InstallRoles \cap seen = {}

LEMMA KMArranges ==
    ASSUME NEW live, NEW done, NEW r, KMMay(r, live, done), KMArranged(live, done),
           KM!OfType("delete") \cap live # {} => obj.stored.deleting,
           obj.cached = obj.stored, obj' = obj,
           obj.stored.exists, obj.stored.finalizer, work'.busy => work'.new.finalizer,
           work'.new.ready => obj.stored.ready \/ "boot" \in done
    PROVE  KMArranged(live \cup {r}, done)'
<1> DEFINE live2 == live \cup {r}
<1>1. /\ "boot" \notin DOMAIN References
      /\ KM!InstallRoles \cap KM!OfType("delete") = {}
      /\ KM!OfType("install") \subseteq KM!InstallRoles /\ "boot" \in KM!InstallRoles
      /\ KM!OfType("install") \subseteq DOMAIN References
  BY KMReferences DEF KM!InstallRoles, KM!OfType
<1>2. ASSUME NEW q \in KM!OfType("install"), NEW x \in KM!OfType("install"),
             References[q].priority > References[x].priority,
             x \in live2, ~obj.stored.deleting
      PROVE  q \in done
  <2>1. CASE x \in live
    BY <1>2, <2>1 DEF KMArranged
  <2>2. CASE x = r
    BY <1>1, <1>2, <2>2 DEF KMMay
  <2> QED
    BY <1>2, <2>1, <2>2
<1>3. ASSUME "boot" \in live2, ~obj.stored.deleting
      PROVE  KM!OfType("install") \subseteq done
  <2>1. CASE "boot" \in live
    BY <1>3, <2>1 DEF KMArranged
  <2>2. CASE r = "boot"
    BY <1>1, <1>3, <2>2 DEF KMMay
  <2> QED
    BY <1>3, <2>1, <2>2
<1>4. ASSUME KM!OfType("delete") \cap live2 # {}
      PROVE  KM!InstallRoles \cap live2 = {}
  <2>1. CASE ~obj.cached.deleting
    <3>1. r \notin KM!OfType("delete")
      BY <1>1, <2>1 DEF KMMay
    <3> QED
      BY <1>4, <2>1, <3>1
  <2>2. CASE obj.cached.deleting
    <3>1. r \in KM!OfType("delete") /\ KM!InstallRoles \cap live = {}
      BY <2>2 DEF KMMay
    <3> QED
      BY <1>1, <3>1
  <2> QED
    BY <2>1, <2>2
<1>5. obj'.stored = obj.stored
  OBVIOUS
<1>6. ~obj.stored.deleting /\ (obj.stored.ready \/ work'.new.ready) => "boot" \in done
  BY DEF KMArranged
<1> HIDE DEF live2
<1>7. KMArranged(live2, done)'
  BY <1>2, <1>3, <1>4, <1>5, <1>6 DEF KMArranged
<1> QED
  BY <1>7 DEF live2

\* What was arranged stays so when more is done and what is about to be ready may be.
LEMMA KMMore ==
    ASSUME NEW live, NEW done, NEW done2, KMArranged(live, done), done \subseteq done2,
           obj' = obj, live # {} => (work'.busy => work'.new.finalizer),
           work'.busy /\ work'.new.ready => obj.stored.ready \/ "boot" \in done2
    PROVE  KMArranged(live, done2)'
<1>1. obj'.stored = obj.stored
  OBVIOUS
<1>2. ~obj.stored.deleting /\ (obj.stored.ready \/ (work'.busy /\ work'.new.ready)) =>
        "boot" \in done2
  BY DEF KMArranged
<1>3. ~obj.stored.deleting =>
        /\ \A q, r \in KM!OfType("install") :
            References[q].priority > References[r].priority /\ r \in live => q \in done2
        /\ "boot" \in live => KM!OfType("install") \subseteq done2
  BY DEF KMArranged
<1> QED
  BY <1>1, <1>2, <1>3 DEF KMArranged

\* A reconcile ends: at most one object is created, the finalizer goes only if the lists
\* show none, and the machine gets ready only if they show that it was booted.
LEMMA KMEnded ==
    ASSUME KMInv, NEW v \in KM!Machine, EndedAs(MaxTrouble, KM!Fresh, v),
           children' \in [KM!Slots -> KM!Child], KMFaithful', KMDone \subseteq KMDone',
           KMDying' => KMDying \/ obj.cached.deleting,
           v.ready => obj.cached.ready \/ "boot" \in KMSure,
           \/ KMLive' = KMLive /\ (KMSeen = {} \/ (obj.cached.finalizer => v.finalizer))
           \/ \E r : /\ KMLive' = KMLive \cup {r} /\ KMMay(r, KMSeen, KMSure)
                     /\ obj.cached.exists /\ obj.cached.finalizer /\ v.finalizer
    PROVE  KMInv'
<1>1. PICK fresh, live, live2, dying, dying2, seen, done, done2, sure :
          /\ fresh = KM!Fresh /\ live = KMLive /\ live2 = KMLive' /\ dying = KMDying
          /\ dying2 = KMDying' /\ seen = KMSeen /\ done = KMDone /\ done2 = KMDone'
          /\ sure = KMSure
  OBVIOUS
<1>2. /\ Queued(KM!Machine, Lasting(KM!Machine)) /\ Bounded(MaxTrouble)
      /\ KMPlan(live, done, dying) /\ EndedAs(MaxTrouble, fresh, v)
      /\ dying2 => dying \/ obj.cached.deleting
      /\ done \subseteq done2
  BY <1>1 DEF KMInv
<1>3. /\ Queued(KM!Machine, Lasting(KM!Machine))' /\ Bounded(MaxTrouble)'
      /\ work'.busy /\ work'.old = obj.cached /\ work'.new = v
      /\ stale' = 0 => stale = 0 /\ obj.cached = obj.stored /\ fresh
  BY <1>2, QueueEnds, LastingOrdered, MaxTroubleAssumption
<1>4. obj' = obj /\ (obj.cached.deleting => obj.stored.deleting)
  BY <1>2, KMTypes DEF EndedAs
<1>5. stale' = 0 => seen = live /\ sure \subseteq done
  BY <1>1, <1>3, KMFresh, KMReady DEF KMInv
<1>6. /\ dying => obj.stored.deleting
      /\ KM!OfType("delete") \cap live # {} => obj.stored.deleting
      /\ stale = 0 => KMArranged(live, done)
  BY <1>2 DEF KMPlan
<1>9. stale' = 0 /\ v.ready => obj.stored.ready \/ "boot" \in done
  BY <1>1, <1>3, <1>5
<1>7. CASE live2 = live /\ (seen = {} \/ (obj.cached.finalizer => v.finalizer))
  <2>1. ASSUME stale' = 0
        PROVE  KMArranged(live, done2)'
    <3>1. KMArranged(live, done) /\ obj.cached = obj.stored /\ seen = live
      BY <1>3, <1>5, <1>6, <2>1
    <3>2. live # {} => work'.new.finalizer
      BY <1>3, <1>7, <3>1 DEF KMArranged
    <3>3. work'.new.ready => obj.stored.ready \/ "boot" \in done2
      BY <1>2, <1>3, <1>9, <2>1
    <3> QED
      BY <1>2, <1>4, <3>1, <3>2, <3>3, KMMore
  <2>2. KMPlan(live2, done2, dying2)'
    BY <1>2, <1>4, <1>6, <1>7, <2>1 DEF KMPlan
  <2> QED
    BY <1>1, <1>3, <2>2 DEF KMInv, KMPlan, KMArranged
<1>8. CASE \E r : /\ live2 = live \cup {r} /\ KMMay(r, seen, sure)
                  /\ obj.cached.exists /\ obj.cached.finalizer /\ v.finalizer
  <2>1. PICK r : /\ live2 = live \cup {r} /\ KMMay(r, seen, sure)
                 /\ obj.cached.exists /\ obj.cached.finalizer /\ v.finalizer
    BY <1>8
  <2>2. KM!OfType("delete") \cap live2 # {} => obj.stored.deleting
    <3>1. CASE obj.cached.deleting
      BY <1>4, <3>1
    <3>2. CASE ~obj.cached.deleting
      <4>1. r \in KM!InstallRoles
        BY <2>1, <3>2 DEF KMMay, KM!InstallRoles
      <4>2. r \notin KM!OfType("delete")
        BY <4>1, KMReferences
      <4> QED
        BY <1>6, <2>1, <4>2
    <3> QED
      BY <3>1, <3>2
  <2>3. ASSUME stale' = 0
        PROVE  KMArranged(live2, done2)'
    <3>1. KMArranged(live, done) /\ obj.cached = obj.stored /\ seen = live
          /\ sure \subseteq done
      BY <1>3, <1>5, <1>6, <2>3
    <3>2. KMMay(r, live, done2)
      BY <1>2, <2>1, <3>1 DEF KMMay
    <3>3. obj.stored.exists /\ obj.stored.finalizer /\ work'.new.finalizer
      BY <1>3, <2>1, <3>1
    <3>4. work'.new.ready => obj.stored.ready \/ "boot" \in done2
      BY <1>2, <1>3, <1>9, <2>3
    <3>5. KMArranged(live, done2)
      BY <1>2, <3>1 DEF KMArranged
    <3>6. KMArranged(live \cup {r}, done2)'
      BY <1>4, <1>6, <3>1, <3>2, <3>3, <3>4, <3>5, KMArranges
    <3> QED
      BY <2>1, <3>6
  <2>4. KMPlan(live2, done2, dying2)'
    BY <1>2, <1>4, <1>6, <2>2, <2>3 DEF KMPlan
  <2> QED
    BY <1>1, <1>3, <2>4 DEF KMInv, KMPlan, KMArranged
<1> QED
  BY <1>1, <1>7, <1>8

\* Nothing is written to the machine; an object goes only after the machine is deleted.
LEMMA KMMoves ==
    ASSUME KMInv, MovedAs(MaxTrouble), children' \in [KM!Slots -> KM!Child], KMFaithful',
           KMDying' => KMDying, KMLive' \subseteq KMLive,
           (KMLive' = KMLive /\ KMDone \subseteq KMDone') \/ obj.stored.deleting
    PROVE  KMInv'
<1>1. PICK live, live2, dying, dying2, done, done2 :
          /\ live = KMLive /\ live2 = KMLive' /\ dying = KMDying /\ dying2 = KMDying'
          /\ done = KMDone /\ done2 = KMDone'
  OBVIOUS
<1>2. /\ Queued(KM!Machine, Lasting(KM!Machine)) /\ Bounded(MaxTrouble)
      /\ KMPlan(live, done, dying) /\ (dying2 => dying) /\ live2 \subseteq live
      /\ (live2 = live /\ done \subseteq done2) \/ obj.stored.deleting
  BY <1>1 DEF KMInv
<1>3. /\ Queued(KM!Machine, Lasting(KM!Machine))' /\ Bounded(MaxTrouble)'
      /\ obj'.stored = obj.stored
      /\ UNCHANGED work \/ ~work'.busy
      /\ NoLess
  BY <1>2, QueueMoved, LastingOrdered, MaxTroubleAssumption
<1>4. ASSUME stale' = 0
      PROVE  KMArranged(live2, done2)'
  <2>1. KMArranged(live, done)
    BY <1>2, <1>3, <1>4 DEF NoLess, KMPlan
  <2>2. live2 # {} => obj'.stored.exists /\ obj'.stored.finalizer
                      /\ (work'.busy => work'.new.finalizer)
    BY <1>2, <1>3, <2>1 DEF KMArranged
  <2>3. CASE live2 = live /\ done \subseteq done2 /\ ~obj.stored.deleting
    <3>1. /\ \A q, r \in KM!OfType("install") :
              References[q].priority > References[r].priority /\ r \in live2 => q \in done2
          /\ "boot" \in live2 => KM!OfType("install") \subseteq done2
      BY <2>1, <2>3 DEF KMArranged
    <3>2. obj'.stored.ready \/ (work'.busy /\ work'.new.ready) => "boot" \in done2
      BY <1>3, <2>1, <2>3 DEF KMArranged
    <3>3. KM!OfType("delete") \cap live2 # {} => KM!InstallRoles \cap live2 = {}
      BY <2>1, <2>3 DEF KMArranged
    <3> QED
      BY <2>2, <3>1, <3>2, <3>3 DEF KMArranged
  <2>4. CASE obj.stored.deleting
    <3>1. obj'.stored.deleting
      BY <1>3, <2>4
    <3>2. KM!OfType("delete") \cap live2 # {} => KM!InstallRoles \cap live2 = {}
      BY <1>2, <2>1 DEF KMArranged
    <3> QED
      BY <2>2, <3>1, <3>2 DEF KMArranged
  <2> QED
    BY <1>2, <2>3, <2>4
<1>5. KMPlan(live2, done2, dying2)'
  BY <1>2, <1>3, <1>4 DEF KMPlan
<1> QED
  BY <1>1, <1>3, <1>5 DEF KMInv, KMPlan, KMArranged

\* The machine is written, by the deferred patch or by another client.
LEMMA KMWritten ==
    ASSUME KMInv, UNCHANGED children,
           Queued(KM!Machine, Lasting(KM!Machine))', Bounded(MaxTrouble)', NoLess,
           obj.stored.deleting => obj'.stored.deleting,
           UNCHANGED work \/ ~work'.busy,
           obj'.stored.ready => obj.stored.ready \/ (work.busy /\ work.new.ready),
           obj.stored.exists /\ obj.stored.finalizer /\ (work.busy => work.new.finalizer) =>
                obj'.stored.exists /\ obj'.stored.finalizer
    PROVE  KMInv'
<1>1. PICK live, done, dying : live = KMLive /\ done = KMDone /\ dying = KMDying
  OBVIOUS
<1>2. KMPlan(live, done, dying)
  BY <1>1 DEF KMInv
<1>3. ASSUME stale' = 0
      PROVE  KMArranged(live, done)'
  <2>1. KMArranged(live, done)
    BY <1>2, <1>3 DEF NoLess, KMPlan
  <2>2. live # {} => obj'.stored.exists /\ obj'.stored.finalizer
                     /\ (work'.busy => work'.new.finalizer)
    BY <2>1 DEF KMArranged
  <2>3. ~obj'.stored.deleting =>
          (obj'.stored.ready \/ (work'.busy /\ work'.new.ready) => "boot" \in done)
    BY <2>1 DEF KMArranged
  <2>4. ~obj'.stored.deleting =>
          /\ \A q, r \in KM!OfType("install") :
              References[q].priority > References[r].priority /\ r \in live => q \in done
          /\ "boot" \in live => KM!OfType("install") \subseteq done
    BY <2>1 DEF KMArranged
  <2>5. KM!OfType("delete") \cap live # {} => KM!InstallRoles \cap live = {}
    BY <2>1 DEF KMArranged
  <2> QED
    BY <2>2, <2>3, <2>4, <2>5 DEF KMArranged
<1>4. KMPlan(live, done, dying)'
  BY <1>2, <1>3 DEF KMPlan
<1>5. live = KMLive' /\ done = KMDone' /\ dying = KMDying' /\ KMFaithful'
  BY <1>1 DEF KMLive, KMDone, KMDying, KMFaithful, KMInv
<1>6. KMPlan(KMLive, KMDone, KMDying)'
  BY <1>4, <1>5 DEF KMPlan, KMArranged
<1> QED
  BY <1>5, <1>6 DEF KMInv

\* A version with another finalizer, and the length and the roles of what the lists show.
LEMMA KMFinalizer ==
    ASSUME NEW c \in KM!Machine, NEW b \in BOOLEAN
    PROVE  LET v == [c EXCEPT !.finalizer = b]
           IN  v \in KM!Machine /\ v.finalizer = b
BY DEF KM!Machine

LEMMA KMListed ==
    ASSUME NEW r
    PROVE  (KM!Cardinality(KM!Listed_(r)) > 1) \in BOOLEAN
<1>1. PICK S : S = KM!Listed_(r)
  OBVIOUS
<1>2. KM!Cardinality(S) = Cardinality(S)
  BY DEF KM!Cardinality, Cardinality
<1>3. S \subseteq {<<r, 1>>, <<r, 2>>}
  BY <1>1 DEF KM!Listed_, KM!Slots
<1>4. IsFiniteSet({}) /\ IsFiniteSet({} \cup {<<r, 1>>})
  BY FS_EmptySet, FS_AddElement
<1>5. IsFiniteSet(({} \cup {<<r, 1>>}) \cup {<<r, 2>>})
  BY <1>4, FS_AddElement
<1>6. IsFiniteSet({<<r, 1>>, <<r, 2>>})
  <2>1. ({} \cup {<<r, 1>>}) \cup {<<r, 2>>} = {<<r, 1>>, <<r, 2>>}
    OBVIOUS
  <2> QED
    BY <1>5, <2>1
<1>7. Cardinality(S) \in Nat
  BY <1>3, <1>6, FS_Subset, FS_CardinalityType
<1> QED
  BY <1>1, <1>2, <1>7

LEMMA KMShown ==
    ASSUME NEW roles, roles \subseteq KM!Roles, KM!Shown(roles) = {}
    PROVE  roles \cap KMSeen = {}
BY DEF KM!Shown, KMSeen

\* A reconcile that ends with v and has changed no object of the machine.
LEMMA KMWaits ==
    ASSUME KMInv, NEW v \in KM!Machine, EndedAs(MaxTrouble, KM!Fresh, v), UNCHANGED children,
           KMSeen = {} \/ (obj.cached.finalizer => v.finalizer),
           v.ready => obj.cached.ready \/ "boot" \in KMSure
    PROVE  KMInv'
<1>1. KMLive' = KMLive /\ KMDying' = KMDying /\ children' \in [KM!Slots -> KM!Child]
  BY DEF KMLive, KMDying, KMInv
<1>2. KMDone \subseteq KMDone' /\ KMFaithful'
  BY DEF KMDone, KMFaithful, KMInv
<1> QED
  BY <1>1, <1>2, KMEnded

LEMMA KMReferenced ==
    ASSUME KMInv, NEW t, NEW v \in KM!Machine, KM!ReconcileReference(t, v),
           v.finalizer = obj.cached.finalizer, v.ready = obj.cached.ready,
           \/ t = "install" /\ KM!Wanted
           \/ t = "delete" /\ KM!Cleaning
    PROVE  KMInv'
<1>1. PICK r \in DOMAIN References :
          /\ KM!FirstUnready(t, r)
          /\ UNCHANGED children \/ KM!CreateChild(r) \/ KM!UpdateChild(r)
          /\ KM!EndWith(KM!Fresh, v, KM!Cardinality(KM!Listed_(r)) > 1 \/ KM!Outdated(r))
  BY DEF KM!ReconcileReference
<1>4. EndedAs(MaxTrouble, KM!Fresh, v)
  <2>1. PICK again \in BOOLEAN : again = (KM!Cardinality(KM!Listed_(r)) > 1 \/ KM!Outdated(r))
    OBVIOUS
  <2>2. KM!EndWith(KM!Fresh, v, again)
    BY <1>1, <2>1
  <2> QED
    BY <2>2, KMQueue
<1>5. obj.cached.exists /\ obj.cached.finalizer
  BY DEF KM!Wanted, KM!Cleaning, KM!Discarded
<1>6. r \in KM!Roles /\ r \in KM!OfType(t)
  BY <1>1, KMReferences DEF KM!FirstUnready
<1>7. CASE UNCHANGED children
  <2> QED
    BY <1>4, <1>7, KMWaits
<1>8. CASE KM!UpdateChild(r)
  <2>1. /\ KMLive' = KMLive /\ (KMDying' => KMDying) /\ children' \in [KM!Slots -> KM!Child]
        /\ KMDone \subseteq KMDone' /\ KMFaithful'
    BY <1>8, KMUpdates
  <2> QED
    BY <1>4, <2>1, KMEnded
<1>9. CASE KM!CreateChild(r)
  <2>1. /\ KMLive' = KMLive \cup {r} /\ (KMDying' => KMDying)
        /\ children' \in [KM!Slots -> KM!Child]
        /\ KMDone \subseteq KMDone' /\ KMFaithful'
    BY <1>6, <1>9, KMCreates
  <2>2. KMMay(r, KMSeen, KMSure)
    <3>1. CASE t = "install" /\ KM!Wanted
      <4>1. ~obj.cached.deleting
        BY <3>1 DEF KM!Wanted
      <4>2. ASSUME NEW q \in KM!OfType("install"),
                   References[q].priority > References[r].priority
            PROVE  q \in KMSure
        <5>1. q \in KM!Roles
          BY KMReferences
        <5>2. KM!Ready(q)
          BY <1>1, <3>1, <4>2 DEF KM!FirstUnready
        <5> QED
          BY <5>1, <5>2 DEF KMSure
      <4> QED
        BY <1>6, <3>1, <4>1, <4>2 DEF KMMay
    <3>2. CASE t = "delete" /\ KM!Cleaning
      <4>1. obj.cached.deleting /\ KM!Shown(KM!InstallRoles) = {}
        BY <3>2 DEF KM!Cleaning, KM!Discarded
      <4>2. KM!InstallRoles \cap KMSeen = {}
        BY <4>1, KMShown, KMReferences
      <4> QED
        BY <1>6, <3>2, <4>1, <4>2 DEF KMMay
    <3> QED
      BY <3>1, <3>2
  <2> QED
    BY <1>4, <1>5, <2>1, <2>2, KMEnded
<1> QED
  BY <1>1, <1>7, <1>8, <1>9

LEMMA KMReconciles ==
    ASSUME KMInv,
           \/ KM!ReconcileAddFinalizer \/ KM!ReconcileWaitForCluster \/ KM!ReconcileAgentWaits
           \/ KM!ReconcileInstall \/ KM!ReconcileWaitForData \/ KM!ReconcileBoot
           \/ KM!ReconcileNoNode \/ KM!ReconcileReady \/ KM!ReconcileFails
           \/ KM!ReconcileDeleteInstalled \/ KM!ReconcileDeleteFails
           \/ KM!ReconcileCleanerWaits \/ KM!ReconcileClean
           \/ KM!ReconcileDeleteAll \/ KM!ReconcileRelease
    PROVE  KMInv'
<1>1. PICK c \in KM!Machine : c = obj.cached
  BY KMTypes
<1>2. ASSUME NEW v \in KM!Machine, NEW again \in BOOLEAN,
             KM!End(v, again) \/ KM!EndFaulty(KM!Fresh, v)
      PROVE  EndedAs(MaxTrouble, KM!Fresh, v)
  BY <1>2, KMQueue DEF KM!End
<1>3. ASSUME NEW v \in KM!Machine, NEW again \in BOOLEAN,
             KM!End(v, again) \/ KM!EndFaulty(KM!Fresh, v), UNCHANGED children,
             v.finalizer = c.finalizer, v.ready = c.ready
      PROVE  KMInv'
  BY <1>1, <1>2, <1>3, KMWaits
<1>4. CASE KM!ReconcileAddFinalizer
  <2>1. PICK v : v = [c EXCEPT !.finalizer = TRUE]
    OBVIOUS
  <2>2. v \in KM!Machine /\ v.finalizer /\ v.ready = c.ready
    BY <2>1 DEF KM!Machine
  <2>3. KM!End(v, FALSE) /\ UNCHANGED children
    BY <1>1, <1>4, <2>1 DEF KM!ReconcileAddFinalizer, KM!NoChildWritten, KM!surroundings
  <2> QED
    BY <1>1, <1>2, <2>2, <2>3, KMWaits
<1>5. ASSUME NEW e \in KM!Machine, NEW x \in KM!Condition, NEW i \in BOOLEAN
      PROVE  /\ LET v == [e EXCEPT !.provisioned = x]
                 IN  v \in KM!Machine /\ v.finalizer = e.finalizer /\ v.ready = e.ready
             /\ LET v == [e EXCEPT !.init = x]
                 IN  v \in KM!Machine /\ v.finalizer = e.finalizer /\ v.ready = e.ready
             /\ LET v == [e EXCEPT !.cleanup = x]
                 IN  v \in KM!Machine /\ v.finalizer = e.finalizer /\ v.ready = e.ready
             /\ LET v == [e EXCEPT !.data = x]
                 IN  v \in KM!Machine /\ v.finalizer = e.finalizer /\ v.ready = e.ready
             /\ LET v == [e EXCEPT !.cleanup = x, !.finalizer = i]
                 IN  v \in KM!Machine /\ v.finalizer = i /\ v.ready = e.ready
  BY <1>5 DEF KM!Machine, KM!Condition
<1>6. "True" \in KM!Condition /\ "False" \in KM!Condition
  BY DEF KM!Condition
<1>21. PICK p : p = KM!Provisioned
  OBVIOUS
<1>22. p \in KM!Machine /\ p.finalizer = c.finalizer /\ p.ready = c.ready
  <2>1. p = [c EXCEPT !.provisioned = "True"]
    BY <1>1, <1>21 DEF KM!Provisioned
  <2> QED
    BY <2>1 DEF KM!Machine, KM!Condition
<1>23. PICK d : d = KM!Installed
  OBVIOUS
<1>24. d \in KM!Machine /\ d.finalizer = c.finalizer /\ d.ready = c.ready
  <2>1. d = [p EXCEPT !.init = "True"]
    BY <1>21, <1>23 DEF KM!Installed
  <2> QED
    BY <1>5, <1>6, <1>22, <2>1
<1>7. CASE KM!ReconcileWaitForCluster
  <2>1. PICK v : v = [c EXCEPT !.init = "False"]
    OBVIOUS
  <2>2. (KM!End(c, FALSE) \/ KM!End(v, FALSE)) /\ UNCHANGED children
    BY <1>1, <1>7, <2>1 DEF KM!ReconcileWaitForCluster, KM!NoChildWritten, KM!surroundings
  <2>3. v \in KM!Machine /\ v.finalizer = c.finalizer /\ v.ready = c.ready
    BY <1>5, <1>6, <2>1
  <2> QED
    BY <1>3, <2>2, <2>3
<1>25. CASE KM!ReconcileAgentWaits
  <2>1. PICK v : v = [c EXCEPT !.provisioned = "False"]
    OBVIOUS
  <2>2. KM!End(v, TRUE) /\ UNCHANGED children
    BY <1>1, <1>25, <2>1 DEF KM!ReconcileAgentWaits, KM!NoChildWritten, KM!surroundings
  <2>3. v \in KM!Machine /\ v.finalizer = c.finalizer /\ v.ready = c.ready
    BY <1>5, <1>6, <2>1
  <2> QED
    BY <1>3, <2>2, <2>3
<1>8. CASE KM!ReconcileInstall
  <2>1. PICK v : v = [p EXCEPT !.init = "False"]
    OBVIOUS
  <2>2. KM!ReconcileReference("install", v) /\ KM!Wanted
    BY <1>8, <1>21, <2>1 DEF KM!ReconcileInstall, KM!Installing, KM!Referring
  <2>3. v \in KM!Machine /\ v.finalizer = c.finalizer /\ v.ready = c.ready
    BY <1>5, <1>6, <1>22, <2>1
  <2> QED
    BY <1>1, <2>2, <2>3, KMReferenced
<1>9. CASE KM!ReconcileWaitForData
  <2>1. PICK v : v = [d EXCEPT !.data = "False"]
    OBVIOUS
  <2>2. KM!End(v, FALSE) /\ UNCHANGED children
    BY <1>9, <1>23, <2>1 DEF KM!ReconcileWaitForData, KM!NoChildWritten, KM!surroundings
  <2>3. v \in KM!Machine /\ v.finalizer = c.finalizer /\ v.ready = c.ready
    BY <1>5, <1>6, <1>24, <2>1
  <2> QED
    BY <1>3, <2>2, <2>3
<1>10. CASE KM!ReconcileBoot
  <2>1. PICK v : v = [d EXCEPT !.data = "True", !.boot = "False"]
    OBVIOUS
  <2>2. v \in KM!Machine /\ v.finalizer = c.finalizer /\ v.ready = c.ready
    BY <1>24, <2>1 DEF KM!Machine, KM!Condition
  <2>3. PICK again \in BOOLEAN : again = (KM!Cardinality(KM!Listed_("boot")) > 1)
    BY KMListed
  <2>4. KM!End(v, again) /\ (UNCHANGED children \/ KM!CreateChild("boot")) /\ KM!Bootstrapping
    BY <1>10, <1>23, <2>1, <2>3 DEF KM!ReconcileBoot
  <2>5. CASE UNCHANGED children
    BY <1>3, <2>2, <2>4, <2>5
  <2>6. CASE KM!CreateChild("boot")
    <3>1. "boot" \in KM!Roles
      BY DEF KM!Roles
    <3>2. /\ KMLive' = KMLive \cup {"boot"} /\ (KMDying' => KMDying)
          /\ children' \in [KM!Slots -> KM!Child]
          /\ KMDone \subseteq KMDone' /\ KMFaithful'
      BY <2>6, <3>1, KMCreates
    <3>3. KM!Wanted /\ KM!AllReady("install")
      BY <2>4 DEF KM!Bootstrapping, KM!Installing, KM!Referring
    <3>4. obj.cached.exists /\ ~obj.cached.deleting /\ obj.cached.finalizer
      BY <3>3 DEF KM!Wanted
    <3>5. KM!OfType("install") \subseteq KMSure
      BY <3>3, KMReferences DEF KM!AllReady, KMSure
    <3>6. KMMay("boot", KMSeen, KMSure)
      BY <3>4, <3>5 DEF KMMay
    <3>7. EndedAs(MaxTrouble, KM!Fresh, v)
      BY <1>2, <2>2, <2>4
    <3> QED
      BY <1>1, <2>2, <3>2, <3>4, <3>6, <3>7, KMEnded
  <2> QED
    BY <2>4, <2>5, <2>6
<1>11. CASE KM!ReconcileNoNode
  <2>1. PICK v : v = [d EXCEPT !.data = "True", !.boot = "True"]
    OBVIOUS
  <2>2. KM!End(v, TRUE) /\ UNCHANGED children
    BY <1>11, <1>23, <2>1 DEF KM!ReconcileNoNode, KM!NoChildWritten, KM!surroundings
  <2>3. v \in KM!Machine /\ v.finalizer = c.finalizer /\ v.ready = c.ready
    BY <1>24, <2>1 DEF KM!Machine, KM!Condition
  <2> QED
    BY <1>3, <2>2, <2>3
<1>12. CASE KM!ReconcileReady
  <2>1. PICK v : v = [d EXCEPT !.data = "True", !.boot = "True", !.providerID = TRUE,
                               !.ready = TRUE]
    OBVIOUS
  <2>2. KM!End(v, FALSE) /\ UNCHANGED children /\ KM!Ready("boot")
    BY <1>12, <1>23, <2>1 DEF KM!ReconcileReady, KM!NoChildWritten, KM!surroundings, KM!Booted
  <2>3. v \in KM!Machine /\ v.finalizer = c.finalizer
    BY <1>24, <2>1 DEF KM!Machine, KM!Condition
  <2>4. "boot" \in KMSure
    BY <2>2 DEF KMSure, KM!Roles
  <2> QED
    BY <1>1, <1>2, <2>2, <2>3, <2>4, KMWaits
<1>13. CASE KM!ReconcileFails
  <2>1. PICK v : /\ KM!EndFaulty(KM!Fresh, v)
                 /\ v \in {c, p, [c EXCEPT !.provisioned = "False"]}
    BY <1>1, <1>13, <1>21 DEF KM!ReconcileFails
  <2>2. UNCHANGED children
    BY <1>13 DEF KM!ReconcileFails, KM!NoChildWritten, KM!surroundings
  <2>3. v \in KM!Machine /\ v.finalizer = c.finalizer /\ v.ready = c.ready
    BY <1>22, <2>1 DEF KM!Machine, KM!Condition
  <2> QED
    BY <1>3, <2>1, <2>2, <2>3
<1>14. CASE KM!ReconcileCleanerWaits
  <2>1. PICK v : v = [c EXCEPT !.cleanup = "False"]
    OBVIOUS
  <2>2. KM!End(v, FALSE) /\ UNCHANGED children
    BY <1>1, <1>14, <2>1 DEF KM!ReconcileCleanerWaits, KM!surroundings
  <2>3. v \in KM!Machine /\ v.finalizer = c.finalizer /\ v.ready = c.ready
    BY <1>5, <1>6, <2>1
  <2> QED
    BY <1>3, <2>2, <2>3
<1>15. CASE KM!ReconcileClean
  <2>1. PICK v : v = [c EXCEPT !.cleanup = "False"]
    OBVIOUS
  <2>2. KM!ReconcileReference("delete", v) /\ KM!Cleaning
    BY <1>1, <1>15, <2>1 DEF KM!ReconcileClean
  <2>3. v \in KM!Machine /\ v.finalizer = c.finalizer /\ v.ready = c.ready
    BY <1>5, <1>6, <2>1
  <2> QED
    BY <1>1, <2>2, <2>3, KMReferenced
<1>16. ASSUME NEW slots, KM!DeleteChildren(slots), KM!Discarded, NEW v \in KM!Machine,
              KM!End(v, FALSE) \/ KM!EndFaulty(KM!Fresh, v),
              v.finalizer = c.finalizer, v.ready = c.ready
       PROVE  KMInv'
  <2>1. /\ children' \in [KM!Slots -> KM!Child] /\ KMLive' = KMLive
        /\ KMDone \subseteq KMDone' /\ KMFaithful'
    BY <1>16, KMDeletes
  <2>2. obj.cached.deleting
    BY <1>16 DEF KM!Discarded
  <2>3. EndedAs(MaxTrouble, KM!Fresh, v)
    BY <1>2, <1>16
  <2> QED
    BY <1>1, <1>16, <2>1, <2>2, <2>3, KMEnded
<1>17. CASE KM!ReconcileDeleteInstalled
  <2>1. PICK slots : slots = KM!Deletable(KM!InstallRoles)
    OBVIOUS
  <2>2. KM!DeleteChildren(slots) /\ KM!Discarded /\ KM!End(c, FALSE)
    BY <1>1, <1>17, <2>1 DEF KM!ReconcileDeleteInstalled
  <2> QED
    BY <1>16, <2>2
<1>18. CASE KM!ReconcileDeleteFails
  <2>1. PICK slots \in SUBSET KM!Deletable(KM!InstallRoles) :
            KM!DeleteChildren(slots) /\ KM!Discarded /\ KM!EndFaulty(KM!Fresh, obj.cached)
    BY <1>18 DEF KM!ReconcileDeleteFails
  <2> QED
    BY <1>1, <1>16, <2>1
<1>19. CASE KM!ReconcileDeleteAll
  <2>1. PICK slots : slots = KM!Deletable(KM!Roles)
    OBVIOUS
  <2>2. PICK v : v = [c EXCEPT !.cleanup = "True"]
    OBVIOUS
  <2>3. KM!DeleteChildren(slots) /\ KM!Discarded /\ KM!End(v, FALSE)
    BY <1>1, <1>19, <2>1, <2>2 DEF KM!ReconcileDeleteAll
  <2>4. v \in KM!Machine /\ v.finalizer = c.finalizer /\ v.ready = c.ready
    BY <1>5, <1>6, <2>2
  <2> QED
    BY <1>16, <2>3, <2>4
<1>20. CASE KM!ReconcileRelease
  <2>1. PICK v : v = [c EXCEPT !.cleanup = "True", !.finalizer = FALSE]
    OBVIOUS
  <2>2. KM!End(v, FALSE) /\ UNCHANGED children /\ KM!Shown(KM!Roles) = {}
    BY <1>1, <1>20, <2>1 DEF KM!ReconcileRelease, KM!NoChildWritten, KM!surroundings
  <2>3. v \in KM!Machine /\ v.ready = c.ready
    BY <1>5, <1>6, <2>1
  <2>4. KMSeen = {}
    BY <2>2 DEF KM!Shown, KMSeen
  <2> QED
    BY <1>1, <1>2, <2>2, <2>3, <2>4, KMWaits
<1> QED
  BY <1>4, <1>25, <1>7, <1>8, <1>9, <1>10, <1>11, <1>12, <1>13, <1>14, <1>15, <1>17, <1>18,
     <1>19, <1>20

\* The deferred patch.
LEMMA KMMergedFields ==
    ASSUME NEW c \in KM!Machine, NEW F
    PROVE  LET D == {"exists", "deleting", "finalizer", "provisioned", "init", "data", "boot",
                     "cleanup", "providerID", "ready"}
               m == Merged(c, F)
               w(f) == IF f \in F /\ work.new[f] # work.old[f] THEN work.new[f] ELSE c[f]
           IN  /\ DOMAIN m = D /\ m = [f \in D |-> m[f]]
               /\ \A f \in D \ {"exists"} : m[f] = w(f)
               /\ m["exists"] = IF w("deleting") /\ ~w("finalizer") THEN FALSE
                                ELSE w("exists")
<1> DEFINE D == {"exists", "deleting", "finalizer", "provisioned", "init", "data", "boot",
                 "cleanup", "providerID", "ready"}
<1>1. c = [f \in D |-> c[f]]
  BY DEF KM!Machine
<1>2. {"exists", "deleting", "finalizer"} \subseteq D
  OBVIOUS
<1> HIDE DEF D
<1>3. LET m == Merged(c, F)
          w(f) == IF f \in F /\ work.new[f] # work.old[f] THEN work.new[f] ELSE c[f]
      IN  /\ DOMAIN m = D /\ m = [f \in D |-> m[f]]
          /\ \A f \in D \ {"exists"} : m[f] = w(f)
          /\ m["exists"] = IF w("deleting") /\ ~w("finalizer") THEN FALSE
                           ELSE w("exists")
  BY <1>1, <1>2, MergedFields, ZenonT(60)
<1> QED
  BY <1>3 DEF D

LEMMA KMMerges ==
    ASSUME NEW c \in KM!Machine, work.old \in KM!Machine, work.new \in KM!Machine,
           NEW F, {"exists", "deleting"} \cap F = {}
    PROVE  LET m == Merged(c, F)
           IN  /\ m \in KM!Machine /\ m.deleting = c.deleting
               /\ m.finalizer \in {work.new.finalizer, c.finalizer}
               /\ m.ready \in {work.new.ready, c.ready}
               /\ m.exists = IF m.deleting /\ ~m.finalizer THEN FALSE ELSE c.exists
<1> DEFINE D == {"exists", "deleting", "finalizer", "provisioned", "init", "data", "boot",
                 "cleanup", "providerID", "ready"}
           m == Merged(c, F)
           w(f) == IF f \in F /\ work.new[f] # work.old[f] THEN work.new[f] ELSE c[f]
<1>1. /\ DOMAIN m = D /\ m = [f \in D |-> m[f]]
      /\ \A f \in D \ {"exists"} : m[f] = w(f)
      /\ m["exists"] = IF w("deleting") /\ ~w("finalizer") THEN FALSE ELSE w("exists")
  BY KMMergedFields
<1> HIDE DEF m
<1>2. /\ m.deleting = w("deleting") /\ m.finalizer = w("finalizer") /\ m.init = w("init")
      /\ m.provisioned = w("provisioned")
      /\ m.data = w("data") /\ m.boot = w("boot") /\ m.cleanup = w("cleanup")
      /\ m.providerID = w("providerID") /\ m.ready = w("ready")
      /\ m.exists = IF w("deleting") /\ ~w("finalizer") THEN FALSE ELSE w("exists")
  BY <1>1
<1>3. w("exists") = c.exists /\ w("deleting") = c.deleting
  OBVIOUS
<1>4. /\ c.exists \in BOOLEAN /\ c.deleting \in BOOLEAN
      /\ w("finalizer") \in BOOLEAN /\ w("providerID") \in BOOLEAN /\ w("ready") \in BOOLEAN
  BY DEF KM!Machine
<1>5. /\ w("init") \in KM!Condition /\ w("data") \in KM!Condition
      /\ w("boot") \in KM!Condition /\ w("cleanup") \in KM!Condition
      /\ w("provisioned") \in KM!Condition
  BY DEF KM!Machine
<1>6. /\ w("finalizer") \in {work.new.finalizer, c.finalizer}
      /\ w("ready") \in {work.new.ready, c.ready}
  OBVIOUS
<1> HIDE DEF w
<1>7. m.exists \in BOOLEAN
  BY <1>2, <1>3, <1>4
<1>8. m \in KM!Machine
  BY <1>1, <1>2, <1>3, <1>4, <1>5, <1>7 DEF KM!Machine
<1> QED
  BY <1>2, <1>3, <1>6, <1>8 DEF m

LEMMA KMPatches ==
    ASSUME KMInv, KM!Patch \/ KM!PatchPartly
    PROVE  KMInv'
<1>1. PICK F : PatchedAs(MaxTrouble, F) /\ {"exists", "deleting"} \cap F = {}
  <2>3. \A k \in DOMAIN KM!Calls : {"exists", "deleting"} \cap KM!Calls[k] = {}
    BY DEF KM!Calls
  <2>1. CASE KM!Patch
    <3> DEFINE F == UNION {KM!Calls[k] : k \in DOMAIN KM!Calls}
    <3>1. {"exists", "deleting"} \cap F = {}
      BY <2>3
    <3>2. /\ work.busy /\ KM!StorePatch(F) /\ UNCHANGED <<faults, stale, changes>>
          /\ dirty' \in BOOLEAN
      BY <2>1 DEF KM!Patch, KM!PatchApplied
    <3> HIDE DEF F
    <3>3. PatchedAs(MaxTrouble, F)
      BY <3>2, KMWrites DEF KM!StorePatch, KM!Idle, PatchedAs
    <3> QED
      BY <3>1, <3>3
  <2>2. CASE KM!PatchPartly
    <3>1. PICK done \in SUBSET DOMAIN KM!Calls : KM!PatchFails(KM!Calls, done)
      BY <2>2 DEF KM!PatchPartly
    <3> DEFINE F == UNION {KM!Calls[k] : k \in done}
    <3>2. {"exists", "deleting"} \cap F = {}
      BY <2>3
    <3>3. /\ work.busy /\ KM!StorePatch(F) /\ UNCHANGED <<stale, changes>>
          /\ dirty' \in BOOLEAN /\ faults' = faults + 1 /\ faults + stale + changes < MaxTrouble
      BY <3>1 DEF KM!PatchFails, KM!Trouble
    <3> HIDE DEF F
    <3>4. PatchedAs(MaxTrouble, F)
      BY <3>3, KMWrites DEF KM!StorePatch, KM!Idle, PatchedAs
    <3> QED
      BY <3>2, <3>4
  <2> QED
    BY <2>1, <2>2
<1>2. UNCHANGED children
  BY DEF KM!Patch, KM!PatchPartly, KM!Quiet, KM!surroundings
<1>3. work.busy /\ work.old \in KM!Machine /\ work.new \in KM!Machine
  BY <1>1, KMTypes DEF PatchedAs
<1>4. PICK c \in KM!Machine : c = obj.stored
  BY KMTypes
<1>5. PICK m : m = Merged(c, F)
  OBVIOUS
<1>6. /\ m \in KM!Machine /\ m.deleting = c.deleting
      /\ m.finalizer \in {work.new.finalizer, c.finalizer}
      /\ m.ready \in {work.new.ready, c.ready}
      /\ m.exists = IF m.deleting /\ ~m.finalizer THEN FALSE ELSE c.exists
  BY <1>1, <1>3, <1>5, KMMerges
<1>7. /\ Queued(KM!Machine, Lasting(KM!Machine))' /\ Bounded(MaxTrouble)' /\ ~work'.busy
      /\ IF obj.stored.exists THEN obj'.stored = m ELSE obj' = obj
      /\ NoLess
  <2>1. Queued(KM!Machine, Lasting(KM!Machine)) /\ Bounded(MaxTrouble)
    BY DEF KMInv
  <2>2. m = Merged(obj.stored, F) /\ <<obj.stored, m>> \in Lasting(KM!Machine)
    BY <1>4, <1>5, <1>6 DEF Lasting
  <2> QED
    BY <1>1, <1>6, <2>1, <2>2, QueuePatched, LastingOrdered, MaxTroubleAssumption
<1>8. obj.stored.deleting => obj'.stored.deleting
  BY <1>4, <1>6, <1>7
<1>9. obj.stored.exists /\ obj.stored.finalizer /\ work.new.finalizer =>
            obj'.stored.exists /\ obj'.stored.finalizer
  BY <1>4, <1>6, <1>7
<1>10. obj'.stored.ready => obj.stored.ready \/ (work.busy /\ work.new.ready)
  BY <1>3, <1>4, <1>6, <1>7
<1> QED
  BY <1>2, <1>3, <1>7, <1>8, <1>9, <1>10, KMWritten

\* What the others do.
LEMMA KMAround ==
    ASSUME KMInv,
           \/ KM!ReconcileNotFound \/ KM!ObserveEvent \/ KM!DeleteMachine \/ KM!ObserveChild
           \/ KM!ChildSucceeds \/ KM!ChildFails \/ KM!ChildGoes \/ KM!VariablesChange
           \/ KM!Provide \/ KM!AgentChanges \/ KM!MinutePasses \/ KM!ManagerRestarts
           \/ UNCHANGED KM!vars
    PROVE  KMInv'
<1>1. /\ children \in [KM!Slots -> KM!Child] /\ dirty \in BOOLEAN
      /\ \A s \in KM!Slots : children[s].stored = "Succeeded" => children[s].done
  BY KMTypes DEF KMInv, KMFaithful
<1>2. ASSUME UNCHANGED children, MovedAs(MaxTrouble)
      PROVE  KMInv'
  <2>1. KMLive' = KMLive /\ KMDying' = KMDying /\ children' \in [KM!Slots -> KM!Child]
    BY <1>1, <1>2 DEF KMLive, KMDying
  <2>2. KMDone \subseteq KMDone' /\ KMFaithful'
    BY <1>2 DEF KMDone, KMFaithful, KMInv
  <2> QED
    BY <1>2, <2>1, <2>2, KMMoves
<1>3. ASSUME NEW wakes \in BOOLEAN, KM!Change(wakes)
      PROVE  MovedAs(MaxTrouble)
  BY <1>3 DEF KM!Change, KM!Trouble, MovedAs
<1>4. ASSUME UNCHANGED KM!queue
      PROVE  MovedAs(MaxTrouble)
  BY <1>1, <1>4 DEF KM!queue, MovedAs
<1>5. CASE KM!ReconcileNotFound
  <2>1. KM!EndEarly(FALSE) /\ UNCHANGED children
    BY <1>5 DEF KM!ReconcileNotFound, KM!NoChildWritten, KM!surroundings
  <2> QED
    BY <1>2, <2>1, KMQueue
<1>6. CASE KM!ObserveEvent
  BY <1>2, <1>6 DEF KM!ObserveEvent, KM!DeliverEvent, KM!Current, KM!Deliver, Current,
                    Deliver, MovedAs, KM!Quiet, KM!surroundings
<1>7. CASE KM!DeleteMachine
  <2> DEFINE s == obj.stored
  <2>1. PICK v : v = IF s.finalizer THEN [s EXCEPT !.deleting = TRUE]
                     ELSE [s EXCEPT !.deleting = TRUE, !.exists = FALSE]
    OBVIOUS
  <2>2. s \in KM!Machine
    BY KMTypes
  <2>3. /\ v \in KM!Machine /\ v.deleting /\ v.finalizer = s.finalizer
        /\ v.ready = s.ready
        /\ s.exists /\ s.finalizer => v.exists
    BY <2>1, <2>2 DEF KM!Machine
  <2>4. StoredAs(MaxTrouble, v) /\ UNCHANGED children
    BY <1>7, <2>1, KMWrites DEF KM!DeleteMachine, KM!RequestDelete, KM!StoreObject,
        StoredAs, KM!Quiet, KM!surroundings
  <2>5. <<s, v>> \in Lasting(KM!Machine)
    BY <2>2, <2>3 DEF Lasting
  <2>6. /\ Queued(KM!Machine, Lasting(KM!Machine))' /\ Bounded(MaxTrouble)'
        /\ obj'.stored = v /\ UNCHANGED work /\ NoLess
    <3>1. Queued(KM!Machine, Lasting(KM!Machine)) /\ Bounded(MaxTrouble)
      BY DEF KMInv
    <3> QED
      BY <2>3, <2>4, <2>5, <3>1, QueueStored, LastingOrdered, MaxTroubleAssumption
  <2> QED
    BY <2>3, <2>4, <2>6, KMWritten
<1>8. ASSUME NEW s \in KM!Slots, NEW k \in KM!Child, MovedAs(MaxTrouble),
             children' = [children EXCEPT ![s] = k],
             k.stored = "deleting" => children[s].stored = "deleting",
             k.stored = "Succeeded" => k.done,
             \/ /\ k.stored = "absent" <=> children[s].stored = "absent"
                /\ children[s].done => k.done
             \/ k.stored = "absent" /\ obj.stored.deleting
      PROVE  KMInv'
  <2>1. /\ children' \in [KM!Slots -> KM!Child] /\ (KMDying' => KMDying)
        /\ (k.stored = "absent" <=> children[s].stored = "absent") => KMLive' = KMLive
        /\ k.stored = "absent" => KMLive' \subseteq KMLive
        /\ (children[s].stored # "absent" /\ children[s].done => k.stored # "absent" /\ k.done)
           => KMDone \subseteq KMDone'
        /\ KMFaithful'
    BY <1>8, KMChild
  <2> QED
    BY <1>8, <2>1, KMMoves
<1>9. CASE KM!ObserveChild
  <2>1. PICK s \in KM!Slots :
            /\ children' = [children EXCEPT ![s].cached = children[s].stored]
            /\ dirty' \in BOOLEAN
            /\ UNCHANGED <<obj, work, faults, stale, changes>>
    BY <1>9 DEF KM!ObserveChild
  <2>2. PICK k : k = [children[s] EXCEPT !.cached = children[s].stored]
    OBVIOUS
  <2>3. children[s] \in KM!Child
    BY <1>1
  <2>4. k \in KM!Child /\ k.stored = children[s].stored /\ k.done = children[s].done
    BY <2>2, <2>3 DEF KM!Child
  <2>5. children' = [children EXCEPT ![s] = k]
    BY <1>1, <2>1, <2>2, <2>3 DEF KM!Child
  <2>6. MovedAs(MaxTrouble)
    BY <2>1 DEF MovedAs
  <2> QED
    BY <1>1, <1>8, <2>4, <2>5, <2>6
<1>11. CASE KM!ChildSucceeds
  <2>1. PICK s \in KM!Slots :
            /\ UNCHANGED KM!queue /\ children[s].stored = "running"
            /\ children' = [children EXCEPT ![s] = [@ EXCEPT !.stored = "Succeeded",
                                                             !.done = TRUE]]
    BY <1>11 DEF KM!ChildSucceeds
  <2>2. PICK k : k = [children[s] EXCEPT !.stored = "Succeeded", !.done = TRUE]
    OBVIOUS
  <2>3. children[s] \in KM!Child
    BY <1>1
  <2>4. k \in KM!Child /\ k.stored = "Succeeded" /\ k.done
    BY <2>2, <2>3 DEF KM!Child, KM!ChildStates
  <2>5. children' = [children EXCEPT ![s] = k]
    BY <1>1, <2>1, <2>2, <2>3 DEF KM!Child
  <2>6. MovedAs(MaxTrouble)
    BY <1>4, <2>1
  <2> QED
    BY <1>8, <2>1, <2>4, <2>5, <2>6
<1>12. CASE KM!ChildFails
  <2>1. PICK s \in KM!Slots :
            /\ KM!Change(FALSE) /\ children[s].stored = "running"
            /\ children' = [children EXCEPT ![s].stored = "Failed"]
    BY <1>12 DEF KM!ChildFails
  <2>2. PICK k : k = [children[s] EXCEPT !.stored = "Failed"]
    OBVIOUS
  <2>3. children[s] \in KM!Child
    BY <1>1
  <2>4. k \in KM!Child /\ k.stored = "Failed" /\ k.done = children[s].done
    BY <2>2, <2>3 DEF KM!Child, KM!ChildStates
  <2>5. children' = [children EXCEPT ![s] = k]
    BY <1>1, <2>1, <2>2, <2>3 DEF KM!Child
  <2>6. MovedAs(MaxTrouble)
    BY <1>3, <2>1
  <2> QED
    BY <1>8, <2>1, <2>4, <2>5, <2>6
<1>13. CASE KM!ChildGoes
  <2>1. PICK s \in KM!Slots :
            /\ children[s].stored = "deleting" /\ UNCHANGED KM!queue
            /\ children' = [children EXCEPT ![s] = [@ EXCEPT !.stored = "absent",
                                                         !.updated = TRUE, !.done = FALSE]]
    BY <1>13 DEF KM!ChildGoes
  <2>2. PICK k : k = [children[s] EXCEPT !.stored = "absent", !.updated = TRUE, !.done = FALSE]
    OBVIOUS
  <2>3. children[s] \in KM!Child
    BY <1>1
  <2>4. k \in KM!Child /\ k.stored = "absent"
    BY <2>2, <2>3 DEF KM!Child, KM!ChildStates
  <2>5. children' = [children EXCEPT ![s] = k]
    BY <1>1, <2>1, <2>2, <2>3 DEF KM!Child
  <2>6. obj.stored.deleting
    BY <2>1 DEF KMInv, KMPlan, KMDying
  <2>7. MovedAs(MaxTrouble)
    BY <1>4, <2>1
  <2> QED
    BY <1>8, <2>4, <2>5, <2>6, <2>7
<1>14. ASSUME MovedAs(MaxTrouble), DOMAIN children' = KM!Slots,
              children' = [s \in KM!Slots |-> children'[s]],
              \A s \in KM!Slots : /\ children'[s] \in KM!Child
                                  /\ children'[s].stored = children[s].stored
                                  /\ children'[s].done = children[s].done
       PROVE  KMInv'
  <2>1. children' \in [KM!Slots -> KM!Child]
    BY <1>14
  <2>2. KMLive' = KMLive /\ KMDying' = KMDying
    BY <1>14 DEF KMLive, KMDying
  <2>3. KMDone \subseteq KMDone' /\ KMFaithful'
    BY <1>1, <1>14 DEF KMDone, KMFaithful
  <2> QED
    BY <1>14, <2>1, <2>2, <2>3, KMMoves
<1>15. CASE KM!VariablesChange
  <2>1. /\ KM!Change(TRUE)
        /\ children' = [s \in KM!Slots |-> [children[s] EXCEPT !.updated =
                @ /\ (children[s].stored = "absent" \/ KM!IsPlaybook(s[1]))]]
    BY <1>15 DEF KM!VariablesChange
  <2>2. ASSUME NEW s \in KM!Slots
        PROVE  /\ children'[s] \in KM!Child /\ children'[s].stored = children[s].stored
               /\ children'[s].done = children[s].done
    <3>1. PICK b \in BOOLEAN : b = (children[s].updated /\ (children[s].stored = "absent"
                                                            \/ KM!IsPlaybook(s[1])))
      OBVIOUS
    <3>2. children'[s] = [children[s] EXCEPT !.updated = b]
      BY <1>1, <2>1, <3>1 DEF KM!Child
    <3> QED
      BY <1>1, <3>2 DEF KM!Child
  <2>3. DOMAIN children' = KM!Slots /\ children' = [s \in KM!Slots |-> children'[s]]
    BY <2>1
  <2>4. MovedAs(MaxTrouble)
    BY <1>3, <2>1
  <2> QED
    BY <1>14, <2>2, <2>3, <2>4
<1>16. CASE KM!Provide
  <2>1. /\ dirty' \in BOOLEAN /\ UNCHANGED children
        /\ UNCHANGED <<obj, work, faults, stale, changes>>
    BY <1>16 DEF KM!Provide
  <2>2. MovedAs(MaxTrouble)
    BY <2>1 DEF MovedAs
  <2> QED
    BY <1>2, <2>1, <2>2
<1>17. CASE KM!AgentChanges
  BY <1>2, <1>3, <1>17 DEF KM!AgentChanges
<1>18. CASE KM!MinutePasses
  BY <1>2, <1>4, <1>18 DEF KM!MinutePasses
<1>19. CASE KM!ManagerRestarts
  <2>1. /\ KM!Restart
        /\ children' = [s \in KM!Slots |-> [children[s] EXCEPT !.cached = children[s].stored]]
    BY <1>19 DEF KM!ManagerRestarts
  <2>2. obj.stored.exists \in BOOLEAN
    BY KMTypes DEF KM!Machine
  <2>3. MovedAs(MaxTrouble)
    BY <2>1, <2>2 DEF KM!Restart, KM!Trouble, KM!Listed, KM!Idle, Listed, MovedAs
  <2>4. ASSUME NEW s \in KM!Slots
        PROVE  /\ children'[s] \in KM!Child /\ children'[s].stored = children[s].stored
               /\ children'[s].done = children[s].done
    <3>1. children'[s] = [children[s] EXCEPT !.cached = children[s].stored]
      BY <2>1
    <3> QED
      BY <1>1, <3>1 DEF KM!Child
  <2>5. DOMAIN children' = KM!Slots /\ children' = [s \in KM!Slots |-> children'[s]]
    BY <2>1
  <2> QED
    BY <1>14, <2>3, <2>4, <2>5
<1>20. CASE UNCHANGED KM!vars
  BY <1>2, <1>4, <1>20 DEF KM!vars, KM!surroundings
<1> QED
  BY <1>5, <1>6, <1>7, <1>9, <1>11, <1>12, <1>13, <1>15, <1>16, <1>17, <1>18, <1>19, <1>20

LEMMA KMStep ==
    ASSUME KMInv, [KM!Next]_(KM!vars)
    PROVE  KMInv'
BY KMReconciles, KMPatches, KMAround DEF KM!Next, KM!Reconcile

LEMMA KMBegins ==
    ASSUME KM!Init
    PROVE  KMInv
<1>1. PICK v : v = KM!NewMachine
  OBVIOUS
<1>2. v \in KM!Machine
  BY <1>1 DEF KM!NewMachine, KM!Machine, KM!Condition
<1>3. QueueInit(v)
  BY <1>1 DEF KM!Init, KM!QueueInit, QueueInit, KM!Listed, Listed, KM!Idle, Idle
<1>4. Queued(KM!Machine, Lasting(KM!Machine)) /\ Bounded(MaxTrouble) /\ ~work.busy
  BY <1>2, <1>3, LastingOrdered, QueueBegins, MaxTroubleAssumption
<1>5. children = [s \in KM!Slots |-> KM!NoChild]
  BY DEF KM!Init
<1>6. children \in [KM!Slots -> KM!Child] /\ KMLive = {} /\ ~KMDying /\ KMFaithful
  BY <1>5 DEF KM!NoChild, KM!Child, KM!ChildStates, KMLive, KMDying, KMFaithful
<1>8. ~obj.stored.ready
  BY <1>1, <1>3 DEF QueueInit, Listed, KM!NewMachine
<1>7. KMPlan(KMLive, KMDone, KMDying)
  BY <1>4, <1>6, <1>8 DEF KMPlan, KMArranged
<1> QED
  BY <1>4, <1>6, <1>7 DEF KMInv

LEMMA KMShows ==
    ASSUME KMInv
    PROVE  KM!TypeOK /\ KM!PipelineOrder
<1>1. KM!TypeOK
  <2>1. KM!Trouble \in 0 .. MaxTrouble
    BY MaxTroubleAssumption DEF KMInv, Bounded, KM!Trouble
  <2>2. obj \in KM!Object(KM!Machine) /\ dirty \in BOOLEAN /\ work \in KM!Work(KM!Machine)
    <3>1. obj \in Object(KM!Machine) /\ dirty \in BOOLEAN /\ work \in Work(KM!Machine)
      BY DEF KMInv, Queued
    <3>2. KM!Object(KM!Machine) = Object(KM!Machine) /\ KM!Work(KM!Machine) = Work(KM!Machine)
      BY DEF KM!Object, Object, KM!Work, Work, KM!Idle, Idle
    <3> QED
      BY <3>1, <3>2
  <2> QED
    BY <2>1, <2>2, KMReferences DEF KMInv, KM!TypeOK, KM!QueueTypeOK
<1>2. ASSUME NEW roles, roles \subseteq KM!Roles
      PROVE  KM!Alive(roles) # {} <=> roles \cap KMLive # {}
  BY <1>2 DEF KM!Alive, KMLive
<1>3. ASSUME stale = 0
      PROVE  /\ ~obj.stored.deleting =>
                  /\ \A q, r \in KM!OfType("install") :
                      References[q].priority > References[r].priority /\ KM!Alive({r}) # {}
                      => KM!Done(q)
                  /\ KM!Alive({"boot"}) # {} => \A r \in KM!OfType("install") : KM!Done(r)
                  /\ obj.stored.ready => KM!Done("boot")
             /\ KM!Alive(KM!OfType("delete")) # {} => KM!Alive(KM!InstallRoles) = {}
             /\ ~obj.stored.exists => KM!Alive(KM!Roles) = {}
  <2>1. KMArranged(KMLive, KMDone)
    BY <1>3 DEF KMInv, KMPlan
  <2>2. /\ \A r \in KM!Roles : KM!Alive({r}) # {} <=> r \in KMLive
        /\ "boot" \in KM!Roles /\ KM!OfType("install") \subseteq KM!Roles
    BY <1>2, KMReferences DEF KM!Roles
  <2>3. \A r \in KMDone : KM!Done(r)
    BY DEF KMDone, KM!Done, KM!Alive
  <2>4. ASSUME ~obj.stored.deleting
        PROVE  /\ \A q, r \in KM!OfType("install") :
                    References[q].priority > References[r].priority /\ KM!Alive({r}) # {}
                    => KM!Done(q)
               /\ KM!Alive({"boot"}) # {} => \A r \in KM!OfType("install") : KM!Done(r)
               /\ obj.stored.ready => KM!Done("boot")
    BY <2>1, <2>2, <2>3, <2>4 DEF KMArranged
  <2>5. KM!Alive(KM!OfType("delete")) # {} => KM!Alive(KM!InstallRoles) = {}
    <3>1. /\ KM!Alive(KM!OfType("delete")) # {} <=> KM!OfType("delete") \cap KMLive # {}
          /\ KM!Alive(KM!InstallRoles) # {} <=> KM!InstallRoles \cap KMLive # {}
      BY <1>2, KMReferences
    <3> QED
      BY <2>1, <3>1 DEF KMArranged
  <2>6. ~obj.stored.exists => KM!Alive(KM!Roles) = {}
    <3>1. KM!Alive(KM!Roles) # {} <=> KM!Roles \cap KMLive # {}
      BY <1>2
    <3> QED
      BY <2>1, <3>1 DEF KMArranged
  <2> QED
    BY <2>4, <2>5, <2>6
<1>4. KM!PipelineOrder
  BY <1>3 DEF KM!PipelineOrder
<1> QED
  BY <1>1, <1>4

-----------------------------------------------------------------------------
(* The four controllers *)

\* Each has its own invariant in its own behaviours.
Inv ==
    /\ focus \in Parts
    /\ focus = "playbook" => PBInv
    /\ focus = "deployment" => PDInv
    /\ focus = "machine" => KMInv
    /\ focus = "cluster" => KCInv

LEMMA Inductive ==
    /\ Init => Inv
    /\ Inv /\ [Next]_vars => Inv'
<1>1. Init => Inv
  BY PBBegins, PDBegins, KMBegins, KCBegins DEF Init, Inv, Parts
<1>2. Inv /\ [Next]_vars => Inv'
  <2> SUFFICES ASSUME Inv, [Next]_vars PROVE Inv'
    OBVIOUS
  <2>1. /\ focus \in Parts /\ focus' = focus
        /\ focus = "playbook" => [PB!Next]_(PB!vars) /\ PBInv
        /\ focus = "deployment" => [PD!Next]_(PD!vars) /\ PDInv
        /\ focus = "machine" => [KM!Next]_(KM!vars) /\ KMInv
        /\ focus = "cluster" => [KC!Next]_(KC!vars) /\ KCInv
    BY PartSteps DEF Inv
  <2>2. focus = "playbook" => PBInv'
    BY <2>1, PBStep
  <2>3. focus = "deployment" => PDInv'
    BY <2>1, PDStep
  <2>4. focus = "machine" => KMInv'
    BY <2>1, KMStep
  <2>5. focus = "cluster" => KCInv'
    BY <2>1, KCStep
  <2> QED
    BY <2>1, <2>2, <2>3, <2>4, <2>5 DEF Inv
<1> QED
  BY <1>1, <1>2

\* The state of the four controllers stays of its type, for every number of machines,
\* of undelivered events and of troubles.
THEOREM TypeCorrect == Spec => []TypeOK
<1>1. Inv => TypeOK
  BY PBShows, PDShows, KMShows, KCShows DEF Inv, Parts, TypeOK, Whose
<1> QED
  BY <1>1, Inductive, PTL DEF Spec

\* createExternalPlaybook and createExternalPlaybookDeployment: failed calls, outdated
\* copies and restarts alone never lead to a second counterpart on the agent, and neither
\* do changes by others alone; it takes one that is removed before its name was seen.
THEOREM OneCounterpart == Spec => []ExecutedOnce
<1>1. Inv => ExecutedOnce
  BY PBShows, PDShows DEF Inv, Parts, ExecutedOnce, Whose
<1> QED
  BY <1>1, Inductive, PTL DEF Spec

\* reconcileDelete: the finalizer of a Playbook outlives its counterpart unless a call has
\* failed, a copy was outdated or the deletion was forced; that of a KubeforceCluster
\* outlives its machines and their Playbooks through every failed call and restart, unless a
\* list was behind.
THEOREM CounterpartsGoFirst == Spec => []NothingLeftBehind
<1>1. Inv => NothingLeftBehind
  BY PBShows, PDShows, KCShows DEF Inv, Parts, NothingLeftBehind, Whose
<1> QED
  BY <1>1, Inductive, PTL DEF Spec

\* TemplateReconciler and reconcileDelete: an object of a lower priority is there only after
\* those of the higher ones have succeeded, that which boots the node only after the whole
\* installation has, and the machine is ready only after that one; no clean-up runs beside
\* an installation, and the KubeforceMachine goes after its Playbooks; over any number of
\* failures and restarts and of reconciles of which none has read an outdated list.
THEOREM PipelineInOrder == Spec => []PipelineOrder
<1>1. Inv => PipelineOrder
  BY KMShows DEF Inv, Parts, PipelineOrder, Whose
<1> QED
  BY <1>1, Inductive, PTL DEF Spec
=============================================================================
