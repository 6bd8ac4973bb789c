-------------------------- MODULE PlaybookLifecycle --------------------------
(***************************************************************************)
(* What a Playbook of the agent API promises to its clients: it is active  *)
(* until it gets a verdict, the verdict stands, and the object leaves the  *)
(* API only on request and never comes back.  The PlaybookDeployment       *)
(* controller and the provider's Playbook controller rely on nothing else. *)
(*                                                                         *)
(* The verdict may be withdrawn in one case only: the controller has acted *)
(* on an outdated copy of the object, after which it is no longer trusted. *)
(***************************************************************************)
VARIABLES
    verdict,    \* "active", "Succeeded", "Failed" or "gone"
    asked,      \* deletion has been requested
    trusted     \* the controller has only acted on current copies

lifecycleVars == <<verdict, asked, trusted>>

Verdicts == {"Succeeded", "Failed"}

LifecycleInit ==
    /\ verdict = "active"
    /\ asked = FALSE
    /\ trusted = TRUE

\* The playbook gets its verdict.
Finish(v) ==
    /\ verdict = "active"
    /\ verdict' = v
    /\ UNCHANGED <<asked, trusted>>

\* A client requests the deletion of the object.
Ask ==
    /\ verdict # "gone"
    /\ ~asked
    /\ asked' = TRUE
    /\ UNCHANGED <<verdict, trusted>>

\* The object leaves the API; before it has a finalizer, at once.
Vanish ==
    /\ verdict # "gone"
    /\ verdict' = "gone"
    /\ asked' = TRUE
    /\ UNCHANGED trusted

\* The controller reads an outdated copy.
Distrust ==
    /\ trusted
    /\ trusted' = FALSE
    /\ UNCHANGED <<verdict, asked>>

\* A verdict based on an outdated copy replaces the one that stood.
Overrule ==
    /\ ~trusted
    /\ verdict \in Verdicts
    /\ verdict' \in (Verdicts \cup {"active"}) \ {verdict}
    /\ UNCHANGED <<asked, trusted>>

LifecycleNext ==
    \/ \E v \in Verdicts : Finish(v)
    \/ Ask
    \/ Vanish
    \/ Distrust
    \/ Overrule

LifecycleSpec == LifecycleInit /\ [][LifecycleNext]_lifecycleVars
=============================================================================
