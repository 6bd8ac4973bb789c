---------------------------- MODULE Initializer ----------------------------
(***************************************************************************)
(* The start of the provider (main.go) and the resources that every other  *)
(* part takes for granted: the GitHub repository and the templates of the  *)
(* Playbooks that install, clean and balance (controllers/initializer.go,  *)
(* pkg/assets).                                                            *)
(*                                                                         *)
(* Several pods may be running, but only the leader's runnables are        *)
(* started.  The templates carry the version in their names, without what  *)
(* follows a "+" (pkg/util/templates): the model is about builds that      *)
(* share these names, v1 and v2; others do not meet.                       *)
(***************************************************************************)
EXTENDS Naturals, Sequences

CONSTANTS
    Replicas,       \* the pods of the manager
    NoLeader,       \* nobody
    MaxEvents       \* bound on failed calls, crashes and edits

VARIABLES
    resource,       \* what is stored of each resource
    leader,         \* who holds the leader election's lease
    next,           \* the resource that the leader's init is at; past the last: done
    version,        \* the build of every pod
    edited,         \* observer: the resources that a user has changed since
    events          \* observer: failed calls, crashes and edits so far

vars == <<resource, leader, next, version, edited, events>>

-----------------------------------------------------------------------------

\* init
Order == <<"github", "installer", "cleaner", "loadbalancer">>

\* Spec.Timeout of the repository is set if it is not there; everything else is
\* overwritten.  "edited" stands for a content of the user's.
Content == {"absent", "v1", "v2", "edited"}

\* GetPlaybook: the assets of this build.  The repository's address is the same in all.
Wanted(r, p) == IF r = "github" THEN "v1" ELSE version[p]

Started(p) == leader = p

\* ensureGitHubRepo, ensurePlaybookTemplate, ensurePlaybookDeploymentTemplate: created
\* if missing, patched if different.  The informer's copy may not show an edit yet: then
\* nothing is done about it.
Ensure(p) ==
    /\ Started(p) /\ next <= Len(Order)
    /\ \/ /\ resource' = [resource EXCEPT ![Order[next]] = Wanted(Order[next], p)]
          /\ edited' = edited \ {Order[next]}
       \/ Order[next] \in edited /\ UNCHANGED <<resource, edited>>
    /\ next' = next + 1
    /\ UNCHANGED <<leader, version, events>>

Event == events < MaxEvents /\ events' = events + 1

\* A call fails, with or without effect: after the back-off init begins again.
EnsureFails(p) ==
    /\ Started(p) /\ next <= Len(Order)
    /\ Event
    /\ resource' \in {resource, [resource EXCEPT ![Order[next]] = Wanted(Order[next], p)]}
    /\ next' = 1
    /\ UNCHANGED <<leader, version, edited>>

\* mgr.Start with LeaderElection: the runnables are started by the one that leads.
Lead_BeforeFirst(p) ==
    /\ leader = NoLeader
    /\ leader' = p
    /\ next' = 0
    /\ UNCHANGED <<resource, version, edited, events>>
Lead(p) ==
    /\ leader = NoLeader
    /\ leader' = p
    /\ next' = 1
    /\ UNCHANGED <<resource, version, edited, events>>

\* The lease is lost or the pod stops; the deployment may start it with another build.
Stop(p) ==
    /\ leader = p
    /\ Event
    /\ leader' = NoLeader
    /\ \E v \in {"v1", "v2"} : version' = [version EXCEPT ![p] = v]
    /\ UNCHANGED <<resource, next, edited>>

\* A user edits or deletes a resource.
Edit(r) ==
    /\ Event
    /\ resource[r] # "absent"
    /\ \E c \in {"absent", "edited"} : resource' = [resource EXCEPT ![r] = c]
    /\ edited' = edited \cup {r}
    /\ UNCHANGED <<leader, next, version>>

Resources == {Order[i] : i \in DOMAIN Order}

Init ==
    /\ resource = [r \in Resources |-> "absent"]
    /\ leader = NoLeader
    /\ next = 1
    /\ version \in [Replicas -> {"v1", "v2"}]
    /\ edited = {}
    /\ events = 0

Next ==
    \/ \E p \in Replicas : Lead(p)
    \/ \E p \in Replicas : Ensure(p)
    \/ \E p \in Replicas : EnsureFails(p)
    \/ \E p \in Replicas : Stop(p)
    \/ \E r \in Resources : Edit(r)

Controller == \E p \in Replicas : Lead(p) \/ Ensure(p)

Fairness == WF_vars(Controller)

Spec == Init /\ [][Next]_vars /\ Fairness

-----------------------------------------------------------------------------
(* Properties *)

TypeOK ==
    /\ resource \in [Resources -> Content]
    /\ leader \in Replicas \cup {NoLeader}
    /\ next \in 1 .. Len(Order) + 1

\* What the leader has been through is there as in its build, unless a user has edited it
\* since; a pod of another build that led before leaves nothing of its own.
InitializedInOrder ==
    leader # NoLeader =>
        \A i \in 1 .. next - 1 :
            Order[i] \notin edited => resource[Order[i]] = Wanted(Order[i], leader)

\* The leader comes to the end of init.
Initialized == leader # NoLeader /\ next = Len(Order) + 1
=============================================================================
