-------------------------- MODULE Informer_proofs --------------------------
(***************************************************************************)
(* Facts about the informer that the proofs of the controllers share.      *)
(***************************************************************************)
EXTENDS Informer, SequenceTheorems, TLAPS

\* Storing a version keeps every part of the object within the versions.
LEMMA StoreType ==
    ASSUME NEW V, NEW o \in Object(V), NEW v \in V
    PROVE  Store(o, v) \in Object(V)
<1>1. Append(o.events, v) \in Seq(V) /\ Append(o.events, v) # <<>>
  BY DEF Object
<1>2. Head(Append(o.events, v)) \in V /\ Tail(Append(o.events, v)) \in Seq(V)
  BY <1>1
<1> QED
  BY <1>1, <1>2 DEF Store, Object

\* So does the delivery of an event.
LEMMA DeliverType ==
    ASSUME NEW V, NEW o \in Object(V), ~Current(o)
    PROVE  Deliver(o) \in Object(V)
<1>1. o.events \in Seq(V) /\ o.events # <<>>
  BY DEF Object, Current
<1>2. Head(o.events) \in V /\ Tail(o.events) \in Seq(V)
  BY <1>1
<1> QED
  BY <1>2 DEF Deliver, Object

\* So does listing the stored version.
LEMMA ListedType ==
    ASSUME NEW V, NEW v \in V
    PROVE  Listed(v) \in Object(V)
BY DEF Listed, Object

\* A write is what is stored; reading does not change it.
LEMMA StoredVersion ==
    /\ \A o, v : Store(o, v).stored = v
    /\ \A o : Deliver(o).stored = o.stored
    /\ \A v : Listed(v).stored = v
BY DEF Store, Changes, Deliver, Listed

-----------------------------------------------------------------------------
(* The watch stream ends with the stored version, so a copy that has no     *)
(* event in front of it is the stored version.  This is what an optimistic  *)
(* Update relies on.                                                        *)

Coherent(o) ==
    IF o.events = <<>> THEN o.cached = o.stored
    ELSE o.events[Len(o.events)] = o.stored

LEMMA EmptyIffNoLength ==
    ASSUME NEW V, NEW s \in Seq(V)
    PROVE  s = <<>> <=> Len(s) = 0
<1>1. Len(<<>>) = 0 /\ (s # <<>> => Len(s) \in Nat \ {0})
  BY EmptySeq
<1> QED
  BY <1>1

LEMMA ListedCoherent ==
    ASSUME NEW v
    PROVE  Coherent(Listed(v))
BY DEF Coherent, Listed

LEMMA StoreCoherent ==
    ASSUME NEW V, NEW o \in Object(V), NEW v \in V, Coherent(o)
    PROVE  Coherent(Store(o, v))
<1> DEFINE L == Len(o.events)
           pending == Append(o.events, v)
<1>1. /\ o.events \in Seq(V) /\ L \in Nat
      /\ pending \in Seq(V) /\ Len(pending) = L + 1 /\ pending[L + 1] = v
      /\ pending # <<>>
  BY DEF Object
<1>2. CASE ~Changes(o, v)
  BY <1>2 DEF Store
<1>3. CASE Changes(o, v) /\ ~Overflows(o, v)
  BY <1>1, <1>3 DEF Store, Coherent
<1>4. CASE Overflows(o, v)
  <2> HIDE DEF pending
  <2>1. Tail(pending) \in Seq(V) /\ Len(Tail(pending)) = L
    BY <1>1
  <2>2. Store(o, v) = [stored |-> v, cached |-> Head(pending), events |-> Tail(pending)]
    BY <1>4 DEF Store, Overflows, pending
  <2>3. CASE L = 0
    <3>1. Tail(pending) = <<>>
      BY <2>1, <2>3, EmptyIffNoLength
    <3>2. Head(pending) = v
      BY <1>1, <2>3
    <3> QED
      BY <2>2, <3>1, <3>2 DEF Coherent
  <2>4. CASE L > 0
    <3>1. Tail(pending)[L] = pending[L + 1]
      BY <1>1, <2>4
    <3>2. Tail(pending) # <<>>
      <4>1. Len(Tail(pending)) # 0
        BY <1>1, <2>1, <2>4
      <4> QED
        BY <2>1, <4>1, EmptyIffNoLength
    <3> QED
      BY <1>1, <2>1, <2>2, <3>1, <3>2 DEF Coherent
  <2> QED
    BY <1>1, <2>3, <2>4
<1> QED
  BY <1>2, <1>3, <1>4 DEF Overflows

LEMMA DeliverCoherent ==
    ASSUME NEW V, NEW o \in Object(V), ~Current(o), Coherent(o)
    PROVE  Coherent(Deliver(o))
<1> DEFINE e == o.events
<1>1. e \in Seq(V) /\ e # <<>> /\ e[Len(e)] = o.stored
  BY DEF Object, Current, Coherent
<1>2. Deliver(o) = [stored |-> o.stored, cached |-> Head(e), events |-> Tail(e)]
  BY DEF Deliver
<1> HIDE DEF e
<1>3. Len(e) \in Nat /\ Len(e) > 0 /\ Tail(e) \in Seq(V) /\ Len(Tail(e)) = Len(e) - 1
  BY <1>1
<1>4. CASE Len(e) = 1
  <2>1. Tail(e) = <<>>
    <3>1. Len(Tail(e)) = 0
      BY <1>3, <1>4
    <3> QED
      BY <1>3, <3>1, EmptyIffNoLength
  <2>2. Head(e) = o.stored
    BY <1>1, <1>4
  <2> QED
    BY <1>2, <2>1, <2>2 DEF Coherent
<1>5. CASE Len(e) > 1
  <2>1. Tail(e)[Len(e) - 1] = e[Len(e)]
    BY <1>1, <1>3, <1>5
  <2>2. Tail(e) # <<>>
    BY <1>3, <1>5, EmptyIffNoLength
  <2> QED
    BY <1>1, <1>2, <1>3, <2>1, <2>2 DEF Coherent
<1> QED
  BY <1>3, <1>4, <1>5

\* A set of versions may be widened around the object.
LEMMA ObjectGrows ==
    ASSUME NEW V, NEW W, V \subseteq W
    PROVE  Object(V) \subseteq Object(W)
<1>1. Seq(V) \subseteq Seq(W)
  OBVIOUS
<1> QED
  BY <1>1 DEF Object
-----------------------------------------------------------------------------
(* Versions replace one another in an order, and the copy sees them in that *)
(* order.  R is a relation between versions, such as "the second may come   *)
(* after the first"; if every write keeps to it, the copy is related to     *)
(* every version that it has not seen yet, and each of those to the stored  *)
(* one.                                                                     *)

Chain(o, R) ==
    /\ Coherent(o)
    /\ \A i \in 1..Len(o.events) : <<o.cached, o.events[i]>> \in R
    /\ \A i, j \in 1..Len(o.events) : i <= j => <<o.events[i], o.events[j]>> \in R

Reflexive(V, R) == \A v \in V : <<v, v>> \in R

Transitive(V, R) ==
    \A u, v, w \in V : <<u, v>> \in R /\ <<v, w>> \in R => <<u, w>> \in R

\* The copy comes before the stored version.
LEMMA ChainEnds ==
    ASSUME NEW V, NEW R, NEW o \in Object(V), Reflexive(V, R), Chain(o, R)
    PROVE  <<o.cached, o.stored>> \in R
<1>1. o.events \in Seq(V) /\ o.stored \in V /\ o.cached \in V
  BY DEF Object
<1>2. CASE o.events = <<>>
  BY <1>1, <1>2 DEF Chain, Coherent, Reflexive
<1>3. CASE o.events # <<>>
  <2>1. Len(o.events) \in 1..Len(o.events)
    BY <1>1, <1>3, EmptyIffNoLength
  <2> QED
    BY <1>3, <2>1 DEF Chain, Coherent
<1> QED
  BY <1>2, <1>3

LEMMA ListedChain ==
    ASSUME NEW R, NEW v
    PROVE  Chain(Listed(v), R)
BY ListedCoherent DEF Chain, Listed

\* A delivery moves the copy forward.
LEMMA DeliverChain ==
    ASSUME NEW V, NEW R, NEW o \in Object(V), Chain(o, R), ~Current(o)
    PROVE  /\ Chain(Deliver(o), R)
           /\ <<o.cached, Deliver(o).cached>> \in R
<1> DEFINE e == o.events
<1>1. e \in Seq(V) /\ e # <<>> /\ Deliver(o).cached = Head(e) /\ Deliver(o).events = Tail(e)
  BY DEF Object, Current, Deliver
<1>2. Coherent(Deliver(o))
  BY DeliverCoherent DEF Chain
<1>3. /\ \A i \in 1..Len(e) : <<o.cached, e[i]>> \in R
      /\ \A i, j \in 1..Len(e) : i <= j => <<e[i], e[j]>> \in R
  BY DEF Chain
<1> HIDE DEF e
<1>4. Len(e) \in Nat /\ Len(e) >= 1 /\ Head(e) = e[1] /\ Len(Tail(e)) = Len(e) - 1
      /\ \A i \in 1..Len(Tail(e)) : i + 1 \in 1..Len(e) /\ Tail(e)[i] = e[i + 1]
  BY <1>1
<1>5. 1 \in 1..Len(e)
  BY <1>4
<1>6. \A i \in 1..Len(Tail(e)) : <<Head(e), Tail(e)[i]>> \in R
  BY <1>3, <1>4, <1>5
<1>7. \A i, j \in 1..Len(Tail(e)) : i <= j => <<Tail(e)[i], Tail(e)[j]>> \in R
  BY <1>3, <1>4
<1> QED
  BY <1>1, <1>2, <1>3, <1>4, <1>5, <1>6, <1>7 DEF Chain

\* So may a write, which extends the chain.
LEMMA StoreChain ==
    ASSUME NEW V, NEW R, NEW o \in Object(V), NEW v \in V,
           Reflexive(V, R), Transitive(V, R), Chain(o, R), <<o.stored, v>> \in R
    PROVE  /\ Chain(Store(o, v), R)
           /\ <<o.cached, Store(o, v).cached>> \in R
<1> DEFINE L == Len(o.events)
           e == Append(o.events, v)
<1>1. o.events \in Seq(V) /\ L \in Nat /\ o.cached \in V /\ o.stored \in V
  BY DEF Object
<1>2. /\ e \in Seq(V) /\ e # <<>> /\ Len(e) = L + 1 /\ e[L + 1] = v
      /\ \A i \in 1..L : e[i] = o.events[i]
  BY <1>1
<1>3. Coherent(Store(o, v))
  BY StoreCoherent DEF Chain
<1>4. <<v, v>> \in R /\ <<o.cached, o.cached>> \in R
  BY <1>1 DEF Reflexive
<1>5. <<o.cached, v>> \in R
  BY <1>1, ChainEnds DEF Transitive
<1>6. \A i \in 1..L : <<o.events[i], v>> \in R
  <2> SUFFICES ASSUME NEW i \in 1..L PROVE <<o.events[i], v>> \in R
    OBVIOUS
  <2>1. o.events # <<>> /\ o.events[i] \in V /\ L \in 1..L
    BY <1>1
  <2>2. <<o.events[i], o.events[L]>> \in R /\ o.events[L] = o.stored
    BY <1>1, <2>1 DEF Chain, Coherent
  <2> QED
    BY <1>1, <2>1, <2>2 DEF Transitive
<1>7. /\ \A i \in 1..L : <<o.cached, o.events[i]>> \in R
      /\ \A i, j \in 1..L : i <= j => <<o.events[i], o.events[j]>> \in R
  BY DEF Chain
<1> HIDE DEF L, e
<1>8. \A i \in 1..Len(e) : i \in 1..L \/ i = L + 1
  BY <1>1, <1>2
<1>9. /\ \A i \in 1..Len(e) : <<o.cached, e[i]>> \in R
      /\ \A i, j \in 1..Len(e) : i <= j => <<e[i], e[j]>> \in R
  <2>1. \A i \in 1..Len(e) : <<o.cached, e[i]>> \in R /\ <<e[i], v>> \in R
    BY <1>1, <1>2, <1>4, <1>5, <1>6, <1>7, <1>8
  <2> SUFFICES ASSUME NEW i \in 1..Len(e), NEW j \in 1..Len(e), i <= j
               PROVE  <<e[i], e[j]>> \in R
    BY <2>1
  <2>2. CASE j = L + 1
    BY <1>2, <2>1, <2>2
  <2>3. CASE j \in 1..L
    <3>1. i \in 1..L
      BY <1>1, <1>2, <2>3
    <3> QED
      BY <1>2, <1>7, <2>3, <3>1
  <2> QED
    BY <1>8, <2>2, <2>3
<1>10. CASE ~Changes(o, v)
  BY <1>4, <1>10 DEF Store
<1>11. CASE Changes(o, v) /\ ~Overflows(o, v)
  <2>1. Store(o, v).cached = o.cached /\ Store(o, v).events = e
    BY <1>11 DEF Store, e
  <2> QED
    BY <1>3, <1>4, <1>9, <2>1 DEF Chain
<1>12. CASE Overflows(o, v)
  <2>1. Store(o, v).cached = Head(e) /\ Store(o, v).events = Tail(e)
    BY <1>12 DEF Store, Overflows, e
  <2>2. Len(e) \in Nat /\ Len(e) >= 1 /\ Head(e) = e[1] /\ Len(Tail(e)) = Len(e) - 1
        /\ \A i \in 1..Len(Tail(e)) : i + 1 \in 1..Len(e) /\ Tail(e)[i] = e[i + 1]
    BY <1>2
  <2>3. 1 \in 1..Len(e)
    BY <2>2
  <2>4. \A i \in 1..Len(Tail(e)) : <<Head(e), Tail(e)[i]>> \in R
    BY <1>9, <2>2, <2>3
  <2>5. \A i, j \in 1..Len(Tail(e)) : i <= j => <<Tail(e)[i], Tail(e)[j]>> \in R
    BY <1>9, <2>2
  <2> QED
    BY <1>3, <1>9, <2>1, <2>2, <2>3, <2>4, <2>5 DEF Chain
<1> QED
  BY <1>10, <1>11, <1>12 DEF Overflows

-----------------------------------------------------------------------------
(* No write goes unnoticed: it leaves an event, or it pushes one into the   *)
(* cache, or it changed nothing.                                            *)

LEMMA UnnoticedWrite ==
    ASSUME NEW V, NEW o \in Object(V), NEW v \in V,
           Current(Store(o, v)), ~Overflows(o, v)
    PROVE  v = o.stored /\ Store(o, v) = o
<1>1. CASE ~Changes(o, v)
  BY <1>1 DEF Changes, Store
<1>2. CASE Changes(o, v)
  <2>1. o.events \in Seq(V) /\ Append(o.events, v) # <<>>
    BY DEF Object
  <2>2. Store(o, v).events = Append(o.events, v)
    BY <1>2 DEF Store
  <2> QED
    BY <2>1, <2>2 DEF Current
<1> QED
  BY <1>1, <1>2
=============================================================================
