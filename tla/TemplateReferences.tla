-------------------------- MODULE TemplateReferences --------------------------
(***************************************************************************)
(* The templates of a KubeforceMachine, Spec.PlaybookTemplates.References, *)
(* by role, as the webhook stores them                                     *)
(* (pkg/webhooks/kubeforce_machine.go).                                    *)
(***************************************************************************)
EXTENDS Naturals

\* TemplateReference
Reference ==
    [type : {"install", "delete"}, priority : Nat,
     kind : {"PlaybookTemplate", "PlaybookDeploymentTemplate"}]

\* Default of the webhook: three roles are there in any case, and keep the type and the
\* priority that they have here.
Defaults ==
    [installer |-> [type |-> "install", priority |-> 1000, kind |-> "PlaybookTemplate"],
     loadbalancer |-> [type |-> "install", priority |-> 100,
                       kind |-> "PlaybookDeploymentTemplate"],
     cleaner |-> [type |-> "delete", priority |-> 1000, kind |-> "PlaybookTemplate"]]

\* The load balancer is for the machines of a cluster that has one.
Required(balanced) ==
    IF balanced THEN DOMAIN Defaults ELSE DOMAIN Defaults \ {"loadbalancer"}

\* What is stored for the references that the user has given.
Defaulted(requested, balanced) ==
    [r \in DOMAIN requested \cup Required(balanced) |->
        IF r \notin Required(balanced) THEN requested[r]
        ELSE IF r \notin DOMAIN requested THEN Defaults[r]
        ELSE [Defaults[r] EXCEPT !.kind = requested[r].kind]]

\* validateTemplateReferences; the templates that they name exist.
Admitted(ref) == ref \in Reference /\ ref.priority > 0
=============================================================================
