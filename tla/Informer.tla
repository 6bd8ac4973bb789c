------------------------------ MODULE Informer ------------------------------
(***************************************************************************)
(* One API object as a controller sees it.  A controller never reads the   *)
(* API server: Client.Get and Client.List answer from the informer's copy, *)
(* which follows the stored object through a watch stream and may be some  *)
(* versions behind it.  Writes go to the API server at once.               *)
(*                                                                         *)
(* This module stands for controller-runtime and client-go, which are not  *)
(* part of the repository; it is written from what the reconcilers under   *)
(* src/ assume of them.                                                    *)
(*                                                                         *)
(*   stored   the object in etcd                                           *)
(*   cached   the copy that Get and List return                            *)
(*   events   versions already stored and not yet delivered, oldest first  *)
(*                                                                         *)
(* MaxLag bounds how many versions the copy may be behind.  With MaxLag =  *)
(* 0 a reconciler reads its own writes; with MaxLag > 0 it may act on a    *)
(* version that has been overwritten.                                      *)
(***************************************************************************)
EXTENDS Naturals, Sequences

CONSTANT MaxLag

ASSUME MaxLagAssumption == MaxLag \in Nat

\* The type of an object whose versions are the elements of V.
Object(V) == [stored : V, cached : V, events : Seq(V)]

\* The object right after the informer has listed it.
Listed(v) == [stored |-> v, cached |-> v, events |-> <<>>]

\* A write that changes nothing produces no version and no event.
Changes(o, v) == v # o.stored

\* Whether storing v pushes the oldest undelivered version into the cache.
Overflows(o, v) == Changes(o, v) /\ Len(o.events) + 1 > MaxLag

\* The object after v has been stored.
Store(o, v) ==
    LET pending == Append(o.events, v)
    IN  IF ~Changes(o, v) THEN o
        ELSE IF Overflows(o, v)
        THEN [stored |-> v, cached |-> Head(pending), events |-> Tail(pending)]
        ELSE [stored |-> v, cached |-> o.cached, events |-> pending]

\* The next watch event reaches the informer.
Deliver(o) ==
    [stored |-> o.stored, cached |-> Head(o.events), events |-> Tail(o.events)]

\* The informer's copy is the stored version: an optimistic Update, which
\* carries the copy's resourceVersion, is accepted exactly then.
Current(o) == o.events = <<>>
=============================================================================
