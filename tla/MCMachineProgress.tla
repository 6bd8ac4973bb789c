-------------------------- MODULE MCMachineProgress --------------------------
(***************************************************************************)
(* MachineAgentClaim for TLC, under its fairness, in two settings: all     *)
(* machines compete, or one is alone and has more trouble than TLC can     *)
(* explore with several.  focus says which.                                *)
(***************************************************************************)
EXTENDS Naturals

CONSTANTS
    MaxLag, Machines, Agents, None, MaxTrouble,
    LoneMachine,    \* the machine that is alone
    LoneTrouble     \* its MaxTrouble

VARIABLES
    focus,          \* "all" or "one"
    machines, agents, playbooks, cleaned, aged, leaving, dirty, work, released, repeats,
    parked, lost, flaps, faults, stale

All == INSTANCE MachineAgentClaim
One == INSTANCE MachineAgentClaim
        WITH Machines <- {LoneMachine}, MaxTrouble <- LoneTrouble

vars == <<focus, All!vars>>

InAll(A) == focus = "all" /\ A /\ UNCHANGED focus
InOne(A) == focus = "one" /\ A /\ UNCHANGED focus

Init ==
    \/ focus = "all" /\ All!Init
    \/ focus = "one" /\ One!Init

Next == InAll(All!Next) \/ InOne(One!Next)

\* The fairness that MachineAgentClaim states.
Fairness ==
    /\ \A m \in Machines :
        LET Lone(A) == m = LoneMachine /\ InOne(A)
        IN  /\ WF_vars(InAll(All!Reconcile(m)) \/ Lone(One!Reconcile(m)))
            /\ WF_vars(InAll(All!Finish(m)) \/ Lone(One!Finish(m)))
            /\ WF_vars(InAll(All!DeliverMachine(m)) \/ Lone(One!DeliverMachine(m)))
            /\ WF_vars(InAll(All!PlaybooksGone(m)) \/ Lone(One!PlaybooksGone(m)))
            /\ WF_vars(InAll(All!MinutePasses(m)) \/ Lone(One!MinutePasses(m)))
    /\ \A a \in Agents : WF_vars(InAll(All!DeliverAgent(a)) \/ InOne(One!DeliverAgent(a)))

Spec == Init /\ [][Next]_vars /\ Fairness

-----------------------------------------------------------------------------
(* Properties *)

\* A machine does not wait for ever while a ready agent is free: agents are not watched,
\* so reconcileAgentRef comes back only by its requeue.  (A machine whose AgentRef patch
\* is lost twice, with an outdated read in between, labels two agents and is stuck: that
\* takes the setting with one machine, which is left out here.)
NoStarvation == <>[](focus = "all" => \A m \in Machines : All!Served(m))

\* A deleted machine goes away, whatever the order of its Playbooks, its agent's
\* deletion and failed calls, also if it has labelled two agents.  It does not when its
\* agent is gone or stays unhealthy, and it need not when its last reconcile was the
\* wait of reconcileCleaner, which nothing ends.
DeletionCompletes ==
    []<>(IF focus = "all" THEN \A m \in Machines : All!DeletionEnds(m)
         ELSE One!DeletionEnds(LoneMachine))
==============================================================================
