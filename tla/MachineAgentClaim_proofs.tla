---------------------- MODULE MachineAgentClaim_proofs ----------------------
(***************************************************************************)
(* For every set of machines and agents and every lag of the informers: no *)
(* claim takes an agent from another machine; as long as no machine        *)
(* releases twice a running machine holds the label of its agent, and an   *)
(* agent is handed on without Playbooks; and while the copies read were    *)
(* current a machine takes one agent, keeps it and gives it back.          *)
(***************************************************************************)
EXTENDS MachineAgentClaim, Informer_proofs, TLAPS

-----------------------------------------------------------------------------
(* The inductive invariant.  A reconcile decides on outdated copies, so what *)
(* LabelHeld says of the stored machine has to hold of every version of it   *)
(* that somebody may still read, and likewise for the agents' labels.        *)

\* The agent is being deleted, or gone.
Going(a) == agents[a].stored.deleting \/ ~agents[a].stored.exists

\* Machine m has released its agent and will never start a Playbook again.
Finished(m) == m \in released /\ m \in cleaned /\ m \notin playbooks

\* What m can rely on once it has put its name on agent a.
Holds(m, a) ==
    repeats = 0 =>
        /\ m \notin released => Label(a) = m \/ ~agents[a].stored.exists
        /\ ~Finished(m) => Label(a) = m \/ Going(a)

\* Versions of m whose AgentRef names an agent that m holds.
Held(m) == {v \in Machine : v.ref # None => Holds(m, v.ref)}

\* Versions of a whose label is that of a machine that holds it.
Marked(a) == {g \in Agent : g.label # None => Holds(g.label, a)}

\* The machine is on its way out, or gone, in version v; q may be stored after
\* p: a deletion is not taken back.
Out(v) == v.deleting \/ ~v.exists

Succession == {x \in Machine \X Machine : Out(x[1]) => Out(x[2])}

AgentsOK == \A a \in Agents : agents[a] \in Object(Marked(a)) /\ Coherent(agents[a])
MachinesOK ==
    \A m \in Machines : machines[m] \in Object(Held(m)) /\ Chain(machines[m], Succession)
WorkOK == \A m \in Machines : work[m].new \in Held(m)
ReleasedOK == \A m \in released : Out(machines[m].cached)

IInv == TypeOK /\ AgentsOK /\ MachinesOK /\ WorkOK /\ ReleasedOK

LEMMA SuccessionOrder ==
    Reflexive(Machine, Succession) /\ Transitive(Machine, Succession)
BY DEF Reflexive, Transitive, Succession, Out

\* A machine that has released is on its way out.
LEMMA ReleasedOut ==
    ASSUME IInv, NEW m \in Machines, Out(machines[m].cached)
    PROVE  Out(machines[m].stored)
<1>1. machines[m] \in Object(Machine) /\ Chain(machines[m], Succession)
  BY DEF IInv, TypeOK, MachinesOK
<1>2. <<machines[m].cached, machines[m].stored>> \in Succession
  BY <1>1, ChainEnds, SuccessionOrder
<1> QED
  BY <1>2 DEF Succession

-----------------------------------------------------------------------------
(* How a step may change the labels *)

LabelsEvolve == \A m \in Machines, a \in Agents : Holds(m, a) => Holds(m, a)'

LEMMA HeldGrows ==
    ASSUME TypeOK, LabelsEvolve
    PROVE  /\ \A m \in Machines : Held(m) \subseteq Held(m)'
           /\ \A a \in Agents : Marked(a) \subseteq Marked(a)'
<1>1. ASSUME NEW m \in Machines, NEW v \in Held(m) PROVE v \in Held(m)'
  <2>1. v \in Machine /\ v.ref \in Agents \cup {None} /\ (v.ref # None => Holds(m, v.ref))
    BY DEF Held, Machine
  <2>2. v.ref # None => Holds(m, v.ref)'
    BY <2>1 DEF LabelsEvolve
  <2> QED
    BY <2>1, <2>2 DEF Held
<1>2. ASSUME NEW a \in Agents, NEW g \in Marked(a) PROVE g \in Marked(a)'
  <2>1. g \in Agent /\ g.label \in Machines \cup {None} /\ (g.label # None => Holds(g.label, a))
    BY DEF Marked, Agent
  <2>2. g.label # None => Holds(g.label, a)'
    BY <2>1 DEF LabelsEvolve
  <2> QED
    BY <2>1, <2>2 DEF Marked
<1> QED
  BY <1>1, <1>2

\* A step that leaves the releases alone and lets no machine start again, and
\* after which every agent has its label or has gone.
LEMMA LabelsSafe ==
    ASSUME TypeOK, UNCHANGED <<released, repeats>>,
           \A m \in Machines : Finished(m) => Finished(m)',
           \A a \in Agents :
                /\ ~agents[a].stored.exists => ~agents'[a].stored.exists
                /\ agents[a].stored.deleting => Going(a)'
                /\ Label(a)' = Label(a) \/ Label(a) = None \/ ~agents'[a].stored.exists
    PROVE  LabelsEvolve
<1> SUFFICES ASSUME NEW m \in Machines, NEW a \in Agents, Holds(m, a), repeats' = 0
             PROVE  /\ m \notin released' => Label(a)' = m \/ ~agents'[a].stored.exists
                    /\ ~Finished(m)' => Label(a)' = m \/ Going(a)'
  BY DEF LabelsEvolve, Holds
<1>1. repeats = 0 /\ m # None /\ (Finished(m) => Finished(m)')
  BY NoneAssumption
<1>2. /\ m \notin released => Label(a) = m \/ ~agents[a].stored.exists
      /\ ~Finished(m) => Label(a) = m \/ Going(a)
  BY <1>1 DEF Holds
<1> QED
  BY <1>1, <1>2 DEF Going

\* The parts of the invariant that a step leaves alone survive it.
LEMMA Frame ==
    ASSUME IInv, LabelsEvolve
    PROVE  /\ \A a \in Agents : agents'[a] = agents[a]
                  => agents'[a] \in Object(Marked(a)') /\ Coherent(agents'[a])
           /\ machines' = machines => MachinesOK'
           /\ work' = work => WorkOK'
           /\ machines' = machines /\ released' = released => ReleasedOK'
<1>1. /\ \A m \in Machines : Held(m) \subseteq Held(m)'
      /\ \A a \in Agents : Marked(a) \subseteq Marked(a)'
  BY HeldGrows DEF IInv
<1>2. ASSUME NEW a \in Agents, agents'[a] = agents[a]
      PROVE  agents'[a] \in Object(Marked(a)') /\ Coherent(agents'[a])
  <2>1. Object(Marked(a)) \subseteq Object(Marked(a)')
    BY <1>1, ObjectGrows
  <2> QED
    BY <1>2, <2>1 DEF IInv, AgentsOK
<1>3. ASSUME machines' = machines PROVE MachinesOK'
  <2> SUFFICES ASSUME NEW m \in Machines
               PROVE  machines[m] \in Object(Held(m)') /\ Chain(machines[m], Succession)
    BY <1>3 DEF MachinesOK
  <2>1. Object(Held(m)) \subseteq Object(Held(m)')
    BY <1>1, ObjectGrows
  <2> QED
    BY <2>1 DEF IInv, MachinesOK
<1>4. ASSUME work' = work PROVE WorkOK'
  BY <1>1, <1>4 DEF IInv, WorkOK
<1>5. ASSUME machines' = machines, released' = released PROVE ReleasedOK'
  BY <1>5 DEF IInv, ReleasedOK
<1> QED
  BY <1>2, <1>3, <1>4, <1>5

\* A step that leaves the agents and the releases alone changes no label.
LEMMA LabelsKept ==
    ASSUME TypeOK, UNCHANGED <<agents, released, repeats>>,
           \A m \in Machines : Finished(m) => Finished(m)'
    PROVE  LabelsEvolve
<1>1. \A a \in Agents :
            /\ ~agents[a].stored.exists => ~agents'[a].stored.exists
            /\ agents[a].stored.deleting => Going(a)'
            /\ Label(a)' = Label(a)
  BY DEF Going, Label
<1> QED
  BY <1>1, LabelsSafe

\* So does one that also leaves the Playbooks alone.
LEMMA NothingStarts ==
    ASSUME UNCHANGED <<released, cleaned>>, playbooks' \subseteq playbooks
    PROVE  \A m \in Machines : Finished(m) => Finished(m)'
BY DEF Finished

-----------------------------------------------------------------------------
(* Writes *)

\* A machine is written.
LEMMA MachineWrite ==
    ASSUME IInv, LabelsEvolve, UNCHANGED <<agents, released, repeats>>,
           NEW m \in Machines, NEW v \in Held(m), Out(machines[m].stored) => Out(v),
           machines' = [machines EXCEPT ![m] = Store(machines[m], v)]
    PROVE  /\ machines' \in [Machines -> Object(Machine)]
           /\ MachinesOK' /\ ReleasedOK'
<1>1. \A n \in Machines : Held(n) \subseteq Held(n)'
  BY HeldGrows DEF IInv
<1>2. machines'[m] = Store(machines[m], v)
  BY DEF IInv, TypeOK
<1>3. \A n \in Machines : n # m => machines'[n] = machines[n]
  BY DEF IInv, TypeOK
<1>4. v \in Machine /\ machines[m] \in Object(Machine) /\ machines[m].stored \in Machine
      /\ Chain(machines[m], Succession)
  BY DEF Held, IInv, TypeOK, Object, MachinesOK
<1>5. <<machines[m].stored, v>> \in Succession
  BY <1>4 DEF Succession
<1>6. /\ Chain(machines'[m], Succession)
      /\ <<machines[m].cached, machines'[m].cached>> \in Succession
  BY <1>2, <1>4, <1>5, StoreChain, SuccessionOrder
<1>7. \A n \in Machines : machines[n] \in Object(Held(n)')
  <2> SUFFICES ASSUME NEW n \in Machines PROVE machines[n] \in Object(Held(n)')
    OBVIOUS
  <2>1. Object(Held(n)) \subseteq Object(Held(n)')
    BY <1>1, ObjectGrows
  <2> QED
    BY <2>1 DEF IInv, MachinesOK
<1>8. machines'[m] \in Object(Held(m)')
  BY <1>1, <1>2, <1>7, StoreType
<1>9. MachinesOK'
  BY <1>3, <1>6, <1>7, <1>8 DEF IInv, MachinesOK
<1>10. machines' \in [Machines -> Object(Machine)]
  <2>1. Store(machines[m], v) \in Object(Machine)
    BY <1>4, StoreType
  <2> QED
    BY <2>1 DEF IInv, TypeOK
<1>11. \A n \in Machines : Out(machines[n].cached) => Out(machines'[n].cached)
  BY <1>3, <1>6 DEF Succession
<1>12. ReleasedOK'
  BY <1>11 DEF IInv, TypeOK, ReleasedOK
<1> QED
  BY <1>9, <1>10, <1>12

\* An agent is written.
LEMMA AgentWrite ==
    ASSUME IInv, LabelsEvolve, NEW a \in Agents, NEW g \in Marked(a)',
           agents' = [agents EXCEPT ![a] = Store(agents[a], g)]
    PROVE  agents' \in [Agents -> Object(Agent)] /\ AgentsOK'
<1>1. g \in Agent
  BY DEF Marked
<1>2. agents'[a] = Store(agents[a], g) /\ Store(agents[a], g) \in Object(Agent)
  BY <1>1, StoreType DEF IInv, TypeOK
<1>3. Object(Marked(a)) \subseteq Object(Marked(a)')
  BY HeldGrows, ObjectGrows DEF IInv
<1>4. agents[a] \in Object(Marked(a)') /\ Coherent(agents[a])
  BY <1>3 DEF IInv, AgentsOK
<1>5. agents'[a] \in Object(Marked(a)') /\ Coherent(agents'[a])
  BY <1>2, <1>4, StoreType, StoreCoherent
<1>6. \A b \in Agents : b # a => agents'[b] = agents[b]
  BY DEF IInv, TypeOK
<1>7. AgentsOK'
  BY <1>5, <1>6, Frame DEF AgentsOK
<1>8. agents' \in [Agents -> Object(Agent)]
  BY <1>2 DEF IInv, TypeOK
<1> QED
  BY <1>7, <1>8

-----------------------------------------------------------------------------
(* The actions *)

LEMMA VersionTypes ==
    /\ NewAgent \in Agent /\ NoAgent \in Agent
    /\ NewMachine \in Machine /\ NoMachine \in Machine
    /\ \A g \in Agent, l \in Machines \cup {None} :
            SetLabel(g, l) \in Agent /\ SetLabel(g, l).label = l
            /\ SetLabel(g, l).exists = g.exists /\ SetLabel(g, l).deleting = g.deleting
    /\ \A v \in Machine, b \in BOOLEAN :
            SetFinalizer(v, b) \in Machine /\ SetFinalizer(v, b).ref = v.ref
            /\ SetFinalizer(v, b).deleting = v.deleting
            /\ SetFinalizer(v, b).exists = v.exists
    /\ \A v \in Machine, a \in Agents \cup {None} :
            SetRef(v, a) \in Machine /\ SetRef(v, a).ref = a
            /\ SetRef(v, a).deleting = v.deleting /\ SetRef(v, a).exists = v.exists
BY DEF NewAgent, NoAgent, Agent, NewMachine, NoMachine, Machine, SetLabel,
       SetFinalizer, SetRef

\* The versions of a machine that a reconcile reads or writes.
LEMMA HeldVersions ==
    ASSUME IInv, NEW m \in Machines
    PROVE  /\ machines[m].cached \in Held(m)
           /\ machines[m].stored \in Held(m)
           /\ NoMachine \in Held(m)
           /\ \A v \in Held(m), b \in BOOLEAN : SetFinalizer(v, b) \in Held(m)
<1>1. machines[m] \in Object(Held(m))
  BY DEF IInv, MachinesOK
<1>2. NoMachine \in Held(m)
  BY VersionTypes DEF Held, NoMachine
<1>3. \A v \in Held(m), b \in BOOLEAN : SetFinalizer(v, b) \in Held(m)
  BY VersionTypes DEF Held
<1> QED
  BY <1>1, <1>2, <1>3 DEF Object

\* A step that writes no object: it may begin or end a reconcile.
LEMMA NoWrite ==
    ASSUME IInv, UNCHANGED <<machines, agents, released, repeats>>, LabelsEvolve,
           WorkOK', work' \in [Machines -> Work],
           playbooks' \in SUBSET Machines, cleaned' \in SUBSET Machines,
           parked' \in SUBSET Machines, leaving' \in SUBSET Agents,
           aged' \in SUBSET Machines, lost' \in SUBSET Machines,
           dirty' \in SUBSET Machines,
           flaps' \in Nat, faults' \in Nat, stale' \in Nat
    PROVE  IInv'
<1>1. AgentsOK' /\ MachinesOK' /\ ReleasedOK'
  BY Frame DEF AgentsOK
<1>2. TypeOK'
  BY DEF IInv, TypeOK
<1> QED
  BY <1>1, <1>2 DEF IInv

\* A reconcile that goes on to its patch with a version that m holds.
LEMMA PatchWithInv ==
    ASSUME IInv, LabelsEvolve,
           NEW m \in Machines, NEW v \in Held(m), PatchWith(m, v)
    PROVE  WorkOK' /\ work' \in [Machines -> Work]
<1>2. \A n \in Machines : Held(n) \subseteq Held(n)'
  BY HeldGrows DEF IInv
<1>3. v \in Machine /\ machines[m].cached \in Machine
  BY DEF Held, IInv, TypeOK, Object
<1>4. [busy |-> TRUE, old |-> machines[m].cached, new |-> v] \in Work
  BY <1>3 DEF Work
<1>5. work \in [Machines -> Work]
  BY DEF IInv, TypeOK
<1>6. work' \in [Machines -> Work]
  BY <1>4, <1>5 DEF PatchWith
<1>7. work'[m].new = v /\ \A n \in Machines : n # m => work'[n] = work[n]
  BY <1>5 DEF PatchWith
<1>8. WorkOK'
  BY <1>2, <1>7 DEF IInv, WorkOK
<1> QED
  BY <1>6, <1>8

\* Begin leaves the objects alone.
LEMMA BeginType ==
    ASSUME IInv, NEW m \in Machines, Begin(m)
    PROVE  /\ UNCHANGED <<machines, aged, lost, flaps, faults>>
           /\ stale' \in Nat /\ parked' \in SUBSET Machines
BY DEF IInv, TypeOK, Begin

\* The branches of Reconcile that leave the machine, its agents and its
\* Playbooks alone.
LEMMA ReconcileIdleInv ==
    ASSUME IInv, NEW m \in Machines, Begin(m), Unchanged(m), Inert,
           Again(m) \/ Done(m)
    PROVE  IInv'
<1>1. UNCHANGED <<machines, agents, released, repeats, work, playbooks, cleaned, leaving>>
  BY BeginType DEF Unchanged, Inert
<1>2. LabelsEvolve /\ WorkOK'
  BY <1>1, NothingStarts, LabelsKept, Frame DEF IInv
<1>3. dirty' \in SUBSET Machines
  BY DEF Again, Done, IInv, TypeOK
<1>4. TypeOK
  BY DEF IInv
<1> QED
  BY <1>1, <1>2, <1>3, <1>4, BeginType, NoWrite DEF TypeOK

\* The branches that only patch the machine.
LEMMA ReconcilePatchInv ==
    ASSUME IInv, NEW m \in Machines, Begin(m), Inert, Again(m) \/ Done(m),
           NEW v \in Held(m), PatchWith(m, v)
    PROVE  IInv'
<1>1. UNCHANGED <<machines, agents, released, repeats, playbooks, cleaned, leaving>>
  BY BeginType DEF Inert
<1>2. LabelsEvolve /\ WorkOK' /\ work' \in [Machines -> Work]
  BY <1>1, NothingStarts, LabelsKept, PatchWithInv DEF IInv
<1>3. dirty' \in SUBSET Machines
  BY DEF Again, Done, IInv, TypeOK
<1>4. TypeOK
  BY DEF IInv
<1> QED
  BY <1>1, <1>2, <1>3, <1>4, BeginType, NoWrite DEF TypeOK

\* An adopted agent carries the name of the machine in some version, so it
\* still does.
LEMMA AdoptedHeld ==
    ASSUME IInv, NEW m \in Machines, NEW a \in Agents, agents[a].cached.label = m
    PROVE  SetRef(machines[m].cached, a) \in Held(m)
<1>1. agents[a].cached \in Marked(a) /\ m # None
  BY NoneAssumption DEF IInv, AgentsOK, Object
<1>2. Holds(m, a)
  BY <1>1 DEF Marked
<1>3. machines[m].cached \in Machine
  BY DEF IInv, TypeOK, Object
<1>4. SetRef(machines[m].cached, a) \in Machine /\ SetRef(machines[m].cached, a).ref = a
  BY <1>3, VersionTypes
<1> QED
  BY <1>2, <1>4 DEF Held

LEMMA ClaimInv ==
    ASSUME IInv, NEW m \in Machines, NEW a \in Agents, ReconcileClaim(m, a)
    PROVE  IInv'
<1> DEFINE g == SetLabel(agents[a].cached, m)
           v == SetRef(machines[m].cached, a)
<1>1. /\ agents' = [agents EXCEPT ![a] = Store(agents[a], g)]
      /\ PatchWith(m, v) /\ Begin(m)
      /\ UNCHANGED <<playbooks, cleaned, leaving, released, repeats, dirty>>
  BY DEF ReconcileClaim, StoreAgent, Again
<1>2. agents[a].cached = agents[a].stored /\ agents[a].stored.label = None
  BY DEF ReconcileClaim, Accepted, Choosing, Free, Current, IInv, AgentsOK, Coherent
<1>3. agents[a].cached \in Agent /\ agents \in [Agents -> Object(Agent)]
  BY DEF IInv, TypeOK, Object
<1>4. g \in Agent /\ g.label = m /\ g.exists = agents[a].stored.exists
      /\ g.deleting = agents[a].stored.deleting
  BY <1>2, <1>3, VersionTypes
<1> HIDE DEF g
<1>5. agents'[a].stored = g /\ \A b \in Agents : b # a => agents'[b] = agents[b]
  BY <1>1, <1>3, StoredVersion
<1>6. LabelsEvolve
  <2>1. \A b \in Agents :
            /\ ~agents[b].stored.exists => ~agents'[b].stored.exists
            /\ agents[b].stored.deleting => Going(b)'
            /\ Label(b)' = Label(b) \/ Label(b) = None
    BY <1>2, <1>4, <1>5 DEF Going, Label
  <2> QED
    BY <1>1, <2>1, NothingStarts, LabelsSafe DEF IInv
<1>7. g \in Marked(a)'
  BY <1>4, <1>5 DEF Marked, Label, Holds
<1>8. agents' \in [Agents -> Object(Agent)] /\ AgentsOK'
  BY <1>1, <1>6, <1>7, AgentWrite
<1>9. v \in Machine /\ v.ref = a /\ machines[m].cached \in Machine
  <2>1. machines[m].cached \in Machine
    BY DEF IInv, TypeOK, Object
  <2> QED
    BY <2>1, VersionTypes
<1> HIDE DEF v
<1>10. v \in Held(m)'
  BY <1>4, <1>5, <1>9 DEF Held, Label, Holds
<1>11. [busy |-> TRUE, old |-> machines[m].cached, new |-> v] \in Work
  BY <1>9 DEF Work
<1>12. /\ work' \in [Machines -> Work] /\ work'[m].new = v
       /\ \A n \in Machines : n # m => work'[n] = work[n]
  BY <1>1, <1>11 DEF PatchWith, IInv, TypeOK
<1>13. WorkOK'
  BY <1>6, <1>10, <1>12, HeldGrows DEF IInv, WorkOK
<1>14. /\ UNCHANGED <<machines, aged, lost, flaps, faults>>
       /\ stale' \in Nat /\ parked' \in SUBSET Machines
  BY <1>1, BeginType
<1>15. TypeOK'
  BY <1>1, <1>8, <1>12, <1>14 DEF IInv, TypeOK
<1> QED
  BY <1>1, <1>6, <1>8, <1>13, <1>14, <1>15, Frame DEF IInv

\* The first release of a machine takes its own name off the agent.
LEMMA ReleaseInv ==
    ASSUME IInv, NEW m \in Machines, ReconcileRelease(m)
    PROVE  IInv'
<1>0. machines[m].cached.ref \in Agents
  BY HeldVersions DEF ReconcileRelease, Vacated, Discarded, Held, Machine
<1> PICK a \in Agents : a = machines[m].cached.ref
  BY <1>0
<1> DEFINE g == SetLabel(agents[a].cached, None)
           v == SetFinalizer(machines[m].cached, FALSE)
<1>1. /\ agents' = [agents EXCEPT ![a] = Store(agents[a], g)]
      /\ PatchWith(m, v) /\ Begin(m) /\ Done(m)
      /\ released' = released \cup {m}
      /\ repeats' = IF m \in released THEN repeats + 1 ELSE repeats
      /\ UNCHANGED <<playbooks, leaving>>
      /\ cleaned \subseteq cleaned' /\ cleaned' \subseteq cleaned \cup {m}
      /\ m \notin playbooks /\ (m \in cleaned' \/ agents[a].cached.deleting)
  BY DEF ReconcileRelease, CleanedBy, StoreAgent, Vacated, CleanerBlocked, CleanerDue
<1>2. machines[m].cached \in Held(m) /\ v \in Held(m)
  BY HeldVersions
<1>3. machines[m].cached \in Machine /\ v \in Machine
  BY <1>2 DEF Held
<1>4. machines[m].cached.deleting
  BY DEF ReconcileRelease, Vacated, Discarded
<1> HIDE DEF v
<1>5. agents[a].cached = agents[a].stored /\ agents[a].stored.exists
  BY <1>4 DEF ReconcileRelease, Accepted, Current, IInv, AgentsOK, Coherent
<1>6. m \notin released /\ repeats = 0 => Label(a) = m
  BY <1>2, <1>4, <1>5 DEF Held, Holds, ReconcileRelease, Vacated, Discarded
<1>7. agents[a].cached \in Agent /\ agents \in [Agents -> Object(Agent)]
  BY <1>4 DEF IInv, TypeOK, Object
<1>8. g \in Agent /\ g.label = None /\ g.exists = agents[a].stored.exists
      /\ g.deleting = agents[a].stored.deleting
  <2>1. \A h \in Agent :
            /\ SetLabel(h, None) \in Agent /\ SetLabel(h, None).label = None
            /\ SetLabel(h, None).exists = h.exists
            /\ SetLabel(h, None).deleting = h.deleting
    BY DEF SetLabel, Agent
  <2> QED
    BY <1>5, <1>7, <2>1
<1> HIDE DEF g
<1>9. agents'[a].stored = g /\ \A b \in Agents : b # a => agents'[b] = agents[b]
  BY <1>1, <1>4, <1>7, StoredVersion
<1>10. repeats \in Nat /\ repeats' \in Nat /\ (repeats' = 0 => repeats = 0 /\ m \notin released)
  <2>1. repeats \in Nat
    BY DEF IInv, TypeOK
  <2>2. CASE m \in released
    BY <1>1, <2>1, <2>2
  <2>3. CASE m \notin released
    BY <1>1, <2>1, <2>3
  <2> QED
    BY <2>2, <2>3
<1>11. LabelsEvolve
  <2> SUFFICES ASSUME NEW k \in Machines, NEW b \in Agents, Holds(k, b), repeats' = 0
               PROVE  /\ k \notin released' => Label(b)' = k \/ ~agents'[b].stored.exists
                      /\ ~Finished(k)' => Label(b)' = k \/ Going(b)'
    BY DEF LabelsEvolve, Holds
  <2>1. repeats = 0 /\ m \notin released /\ Label(a) = m
    BY <1>6, <1>10
  <2>2. Finished(k) => Finished(k)'
    BY <1>1 DEF Finished
  <2>3. /\ k \notin released => Label(b) = k \/ ~agents[b].stored.exists
        /\ ~Finished(k) => Label(b) = k \/ Going(b)
    BY <2>1 DEF Holds
  <2>4. CASE b # a
    <3>1. agents'[b] = agents[b]
      BY <1>9, <2>4
    <3>2. Label(b)' = Label(b) /\ (Going(b) => Going(b)')
      BY <3>1 DEF Label, Going
    <3> QED
      BY <1>1, <2>2, <2>3, <3>1, <3>2
  <2>5. CASE b = a /\ k # m
    <3>1. Going(a) => Going(a)'
      BY <1>5, <1>8, <1>9 DEF Going
    <3> QED
      BY <1>1, <1>5, <2>1, <2>2, <2>3, <2>5, <3>1
  <2>6. CASE b = a /\ k = m
    <3>1. m \in released'
      BY <1>1
    <3>2. Finished(m)' \/ Going(a)'
      BY <1>1, <1>5, <1>8, <1>9 DEF Going, Finished
    <3> QED
      BY <2>6, <3>1, <3>2
  <2> QED
    BY <2>4, <2>5, <2>6
<1>12. g \in Marked(a)'
  BY <1>8 DEF Marked
<1>13. agents' \in [Agents -> Object(Agent)] /\ AgentsOK'
  BY <1>1, <1>4, <1>11, <1>12, AgentWrite
<1>14. v \in Held(m)'
  BY <1>2, <1>11, HeldGrows DEF IInv
<1>15. [busy |-> TRUE, old |-> machines[m].cached, new |-> v] \in Work
  BY <1>3 DEF Work
<1>16. /\ work' \in [Machines -> Work] /\ work'[m].new = v
       /\ \A n \in Machines : n # m => work'[n] = work[n]
  BY <1>1, <1>15 DEF PatchWith, IInv, TypeOK
<1>17. WorkOK'
  BY <1>11, <1>14, <1>16, HeldGrows DEF IInv, WorkOK
<1>18. /\ UNCHANGED <<machines, aged, lost, flaps, faults>>
       /\ stale' \in Nat /\ parked' \in SUBSET Machines
  BY <1>1, BeginType
<1>19. ReleasedOK'
  BY <1>1, <1>4, <1>18 DEF IInv, ReleasedOK, Out
<1>20. TypeOK'
  BY <1>1, <1>10, <1>13, <1>16, <1>18 DEF IInv, TypeOK, Done
<1> QED
  BY <1>11, <1>13, <1>17, <1>18, <1>19, <1>20, Frame DEF IInv

\* The worker of a machine comes to rest.
LEMMA RestInv ==
    ASSUME IInv, LabelsEvolve, NEW m \in Machines, work' = [work EXCEPT ![m] = Rest]
    PROVE  WorkOK' /\ work' \in [Machines -> Work]
<1>1. Rest \in Work /\ Rest.new = NoMachine
  BY VersionTypes DEF Rest, Work
<1>2. /\ work' \in [Machines -> Work] /\ work'[m] = Rest
      /\ \A n \in Machines : n # m => work'[n] = work[n]
  BY <1>1 DEF IInv, TypeOK
<1>3. \A n \in Machines : Held(n) \subseteq Held(n)' /\ NoMachine \in Held(n)
  BY HeldGrows, HeldVersions DEF IInv
<1> QED
  BY <1>1, <1>2, <1>3 DEF IInv, WorkOK

LEMMA ReconcileInv ==
    ASSUME IInv, NEW m \in Machines, Reconcile(m)
    PROVE  IInv'
<1>1. CASE \/ ReconcileNotFound(m) \/ ReconcileWaitForAgent(m)
           \/ ReconcileAmbiguous(m) \/ ReconcileNoFreeAgent(m)
           \/ \E a \in Agents : ReconcileClaimConflict(m, a)
           \/ ReconcileDeleteNoAgent(m) \/ ReconcileCleanup(m)
           \/ ReconcileReleaseConflict(m)
  <2>1. Begin(m) /\ Unchanged(m) /\ Inert /\ (Again(m) \/ Done(m))
    BY <1>1 DEF ReconcileNotFound, ReconcileWaitForAgent, ReconcileAmbiguous,
                ReconcileNoFreeAgent, ReconcileClaimConflict,
                ReconcileDeleteNoAgent, ReconcileCleanup, ReconcileReleaseConflict
  <2> QED
    BY <2>1, ReconcileIdleInv
<1>2. CASE ReconcileAddFinalizer(m)
  <2>1. SetFinalizer(machines[m].cached, TRUE) \in Held(m)
    BY HeldVersions
  <2> QED
    BY <1>2, <2>1, ReconcilePatchInv DEF ReconcileAddFinalizer
<1>3. CASE ReconcileForget(m)
  <2>1. SetFinalizer(machines[m].cached, FALSE) \in Held(m)
    BY HeldVersions
  <2> QED
    BY <1>3, <2>1, ReconcilePatchInv DEF ReconcileForget
<1>4. CASE ReconcileAdopt(m)
  <2> PICK a \in Agents : Labelled(m) = {a} /\ PatchWith(m, SetRef(machines[m].cached, a))
    BY <1>4 DEF ReconcileAdopt
  <2>1. agents[a].cached.label = m
    BY DEF Labelled
  <2>2. SetRef(machines[m].cached, a) \in Held(m)
    BY <2>1, AdoptedHeld
  <2> QED
    BY <1>4, <2>2, ReconcilePatchInv DEF ReconcileAdopt
<1>5. CASE ReconcileUse(m) \/ ReconcileCleanerWaits(m) \/ ReconcileCleaner(m)
  <2>1. /\ Begin(m) /\ Unchanged(m) /\ Done(m)
        /\ playbooks' \subseteq playbooks \cup {m}
        /\ cleaned \subseteq cleaned' /\ cleaned' \subseteq cleaned \cup {m}
        /\ UNCHANGED <<agents, leaving, released, repeats>>
    BY <1>5 DEF ReconcileUse, ReconcileCleanerWaits, ReconcileCleaner, Inert
  <2>2. /\ UNCHANGED <<machines, aged, lost, work, flaps, faults>>
        /\ stale' \in Nat /\ parked' \in SUBSET Machines
    BY <2>1, BeginType DEF Unchanged
  <2>3. Finished(m) => playbooks' = playbooks
    <3>1. CASE ReconcileUse(m)
      <4>1. ~Out(machines[m].cached)
        BY <3>1 DEF ReconcileUse, Wanted, Out
      <4>2. m \notin released
        BY <4>1 DEF IInv, ReleasedOK
      <4> QED
        BY <4>2 DEF Finished
    <3>2. CASE ReconcileCleaner(m) \/ ReconcileCleanerWaits(m)
      BY <3>2 DEF ReconcileCleaner, ReconcileCleanerWaits, CleanerBlocked, CleanerDue,
                  Finished, Inert
    <3> QED
      BY <1>5, <3>1, <3>2
  <2>4. \A k \in Machines : Finished(k) => Finished(k)'
    BY <2>1, <2>3 DEF Finished
  <2>5. TypeOK /\ LabelsEvolve
    BY <2>1, <2>4, LabelsKept DEF IInv
  <2>6. WorkOK'
    BY <2>2, <2>5, Frame
  <2> QED
    BY <2>1, <2>2, <2>5, <2>6, NoWrite DEF TypeOK, Done
<1>6. CASE \E a \in Agents : ReconcileClaim(m, a)
  BY <1>6, ClaimInv
<1>7. CASE ReconcileRelease(m)
  BY <1>7, ReleaseInv
<1> QED
  BY <1>1, <1>2, <1>3, <1>4, <1>5, <1>6, <1>7 DEF Reconcile

LEMMA FinishInv ==
    ASSUME IInv, NEW m \in Machines, Finish(m)
    PROVE  IInv'
<1>1. UNCHANGED <<agents, released, repeats>> /\ work' = [work EXCEPT ![m] = Rest]
  BY DEF Finish, PatchApplied, PatchNotFound, PatchFails
<1>2. UNCHANGED <<playbooks, cleaned>>
  BY DEF Finish, PatchApplied, PatchNotFound, PatchFails
<1>3. LabelsEvolve
  BY <1>1, <1>2, NothingStarts, LabelsKept DEF IInv
<1>4. WorkOK' /\ work' \in [Machines -> Work]
  BY <1>1, <1>3, RestInv
<1>5. CASE PatchApplied(m)
  <2> DEFINE cur == machines[m].stored
  <2>1. cur \in Held(m) /\ work[m].new \in Held(m)
    BY HeldVersions DEF IInv, WorkOK
  <2>2. cur \in Machine /\ work[m].new \in Machine
    BY <2>1 DEF Held
  <2>3. work[m].new.ref \in Agents \cup {None}
    BY <2>2 DEF Machine
  <2>4. SetRef(cur, work[m].new.ref) \in Held(m)
    BY <2>1, <2>2, <2>3, VersionTypes DEF Held
  <2>5. Patched(m) \in {NoMachine, SetFinalizer(cur, TRUE), SetRef(cur, work[m].new.ref)}
    BY DEF Patched
  <2>6. Patched(m) \in Held(m)
    BY <2>1, <2>4, <2>5, HeldVersions
  <2>7. Out(cur) => Out(Patched(m))
    <3>1. ~NoMachine.exists
      BY DEF NoMachine
    <3>2. /\ SetFinalizer(cur, TRUE).deleting = cur.deleting
          /\ SetFinalizer(cur, TRUE).exists = cur.exists
      BY <2>2, VersionTypes
    <3>3. /\ SetRef(cur, work[m].new.ref).deleting = cur.deleting
          /\ SetRef(cur, work[m].new.ref).exists = cur.exists
      BY <2>2, <2>3, VersionTypes
    <3> QED
      BY <2>5, <3>1, <3>2, <3>3, Zenon DEF Out
  <2>8. machines' = [machines EXCEPT ![m] = Store(machines[m], Patched(m))]
    BY <1>5 DEF PatchApplied, StoreMachine
  <2>9. machines' \in [Machines -> Object(Machine)] /\ MachinesOK' /\ ReleasedOK'
    BY <1>1, <1>3, <2>6, <2>7, <2>8, MachineWrite
  <2>10. dirty' \in SUBSET Machines
    BY <1>5 DEF PatchApplied, StoreMachine, IInv, TypeOK
  <2>11. TypeOK'
    BY <1>4, <1>5, <2>9, <2>10 DEF PatchApplied, IInv, TypeOK
  <2> QED
    BY <1>1, <1>3, <1>4, <2>9, <2>11, Frame DEF IInv, AgentsOK
<1>6. CASE PatchNotFound(m) \/ PatchFails(m)
  <2>1. /\ UNCHANGED <<machines, playbooks, cleaned, aged, leaving, parked, flaps, stale>>
        /\ dirty' = dirty \cup {m} /\ faults' \in Nat /\ lost' \in SUBSET Machines
    BY <1>6 DEF PatchNotFound, PatchFails, IInv, TypeOK
  <2>2. TypeOK
    BY DEF IInv
  <2> QED
    BY <1>1, <1>3, <1>4, <2>1, <2>2, NoWrite DEF TypeOK
<1> QED
  BY <1>5, <1>6 DEF Finish

\* A client or the agent controller deletes a machine.
LEMMA DeletionInv ==
    ASSUME IInv, NEW m \in Machines,
           StoreMachine(m, IF machines[m].stored.finalizer
                             THEN [machines[m].stored EXCEPT !.deleting = TRUE]
                             ELSE NoMachine),
           UNCHANGED <<agents, playbooks, cleaned, aged, leaving, work, observers>>
    PROVE  IInv'
<1> DEFINE v == IF machines[m].stored.finalizer
                  THEN [machines[m].stored EXCEPT !.deleting = TRUE] ELSE NoMachine
<1>1. machines[m].stored \in Held(m) /\ NoMachine \in Held(m)
  BY HeldVersions
<1>2. v \in Held(m)
  <2>1. [machines[m].stored EXCEPT !.deleting = TRUE] \in Held(m)
    BY <1>1 DEF Held, Machine
  <2> QED
    BY <1>1, <2>1
<1>3. Out(v)
  BY <1>1 DEF NoMachine, Held, Machine, Out
<1>4. /\ machines' = [machines EXCEPT ![m] = Store(machines[m], v)]
      /\ dirty' \in SUBSET Machines
  BY DEF StoreMachine, IInv, TypeOK
<1> HIDE DEF v
<1>5. UNCHANGED <<released, repeats>> /\ LabelsEvolve
  BY NothingStarts, LabelsKept DEF observers, IInv
<1>6. machines' \in [Machines -> Object(Machine)] /\ MachinesOK' /\ ReleasedOK'
  BY <1>2, <1>3, <1>4, <1>5, MachineWrite
<1>7. TypeOK'
  BY <1>4, <1>6 DEF observers, IInv, TypeOK
<1> QED
  BY <1>5, <1>6, <1>7, Frame DEF IInv, AgentsOK

LEMMA MachineStepInv ==
    ASSUME IInv, NEW m \in Machines, MachineStep(m)
    PROVE  IInv'
<1>1. CASE Reconcile(m)
  BY <1>1, ReconcileInv
<1>2. CASE Finish(m)
  BY <1>2, FinishInv
<1>3. CASE DeliverMachine(m)
  <2>1. /\ machines' = [machines EXCEPT ![m] = Deliver(machines[m])]
        /\ ~Current(machines[m]) /\ dirty' = dirty \cup {m}
        /\ UNCHANGED <<agents, playbooks, cleaned, aged, leaving, work, observers>>
    BY <1>3 DEF DeliverMachine
  <2>2. UNCHANGED <<released, repeats>> /\ LabelsEvolve
    BY <2>1, NothingStarts, LabelsKept DEF observers, IInv
  <2>3. /\ machines'[m] = Deliver(machines[m])
        /\ \A n \in Machines : n # m => machines'[n] = machines[n]
    BY <2>1 DEF IInv, TypeOK
  <2>4. \A n \in Machines : Held(n)' = Held(n)
    BY <2>1, <2>2 DEF Held, Holds, Finished, Label, Going
  <2>5. machines'[m] \in Object(Held(m))
    BY <2>1, <2>3, DeliverType DEF IInv, MachinesOK
  <2>6. /\ Chain(machines'[m], Succession)
        /\ <<machines[m].cached, machines'[m].cached>> \in Succession
    BY <2>1, <2>3, DeliverChain DEF IInv, TypeOK, MachinesOK
  <2>7. MachinesOK'
    BY <2>3, <2>4, <2>5, <2>6 DEF IInv, MachinesOK
  <2>8. ReleasedOK'
    BY <2>2, <2>3, <2>6 DEF IInv, TypeOK, ReleasedOK, Succession
  <2>9. Deliver(machines[m]) \in Object(Machine)
    BY <2>1, DeliverType DEF IInv, TypeOK
  <2>10. TypeOK'
    BY <2>1, <2>9 DEF IInv, TypeOK, observers
  <2> QED
    BY <2>1, <2>2, <2>7, <2>8, <2>10, Frame DEF IInv, AgentsOK
<1>4. CASE Wake(m) \/ PlaybooksGone(m) \/ MinutePasses(m)
  <2>1. /\ UNCHANGED <<machines, agents, cleaned, leaving, work, released, repeats, parked,
                       lost, flaps, faults, stale>>
        /\ playbooks' \subseteq playbooks /\ dirty' \subseteq dirty \cup {m}
        /\ aged' \subseteq aged \cup {m}
    BY <1>4 DEF Wake, PlaybooksGone, MinutePasses, observers
  <2>2. TypeOK /\ LabelsEvolve /\ WorkOK'
    BY <2>1, NothingStarts, LabelsKept, Frame DEF IInv
  <2> QED
    BY <2>1, <2>2, NoWrite DEF TypeOK
<1>5. CASE DeleteMachine(m)
  BY <1>5, DeletionInv DEF DeleteMachine
<1> QED
  BY <1>1, <1>2, <1>3, <1>4, <1>5 DEF MachineStep

\* A write of an agent that keeps the label, or the agent's end.
LEMMA AgentChangeInv ==
    ASSUME IInv, NEW a \in Agents, NEW g \in Agent, StoreAgent(a, g),
           \/ ~g.exists
           \/ /\ agents[a].stored.exists /\ g.label = Label(a)
              /\ agents[a].stored.deleting => g.deleting,
           leaving' \in SUBSET Agents, flaps' \in Nat,
           UNCHANGED <<machines, playbooks, cleaned, aged, dirty, work, released, repeats,
                       parked, lost, faults, stale>>
    PROVE  IInv'
<1>1. agents' = [agents EXCEPT ![a] = Store(agents[a], g)]
  BY DEF StoreAgent
<1>2. agents'[a].stored = g /\ \A b \in Agents : b # a => agents'[b] = agents[b]
  BY <1>1, StoredVersion DEF IInv, TypeOK
<1>3. LabelsEvolve
  <2>1. \A b \in Agents :
            /\ ~agents[b].stored.exists => ~agents'[b].stored.exists
            /\ agents[b].stored.deleting => Going(b)'
            /\ Label(b)' = Label(b) \/ Label(b) = None \/ ~agents'[b].stored.exists
    BY <1>2 DEF Going, Label
  <2> QED
    BY <2>1, NothingStarts, LabelsSafe DEF IInv
<1>4. g \in Marked(a)'
  BY <1>2 DEF Marked, Label, Holds, Going
<1>5. agents' \in [Agents -> Object(Agent)] /\ AgentsOK'
  BY <1>1, <1>3, <1>4, AgentWrite
<1>6. TypeOK'
  BY <1>5 DEF IInv, TypeOK
<1> QED
  BY <1>3, <1>5, <1>6, Frame DEF IInv

LEMMA AgentStepInv ==
    ASSUME IInv, NEW a \in Agents, AgentStep(a)
    PROVE  IInv'
<1>0. agents[a].stored \in Agent /\ agents[a].cached \in Agent
  BY DEF IInv, TypeOK, Object
<1>1. CASE AgentDeletesMachine(a)
  <2>1. agents[a].cached.label \in Machines
    BY <1>0, <1>1 DEF AgentDeletesMachine, HasMachine, Agent
  <2> PICK m \in Machines : m = agents[a].cached.label
    BY <2>1
  <2> QED
    BY <1>1, DeletionInv DEF AgentDeletesMachine
<1>2. CASE AgentUninstall(a)
  <2>1. /\ UNCHANGED <<machines, agents, playbooks, cleaned, aged, dirty, work, released,
                       repeats, parked, lost, flaps, faults, stale>>
        /\ leaving' = leaving \cup {a}
    BY <1>2 DEF AgentUninstall, observers
  <2>2. TypeOK /\ LabelsEvolve /\ WorkOK'
    BY <2>1, NothingStarts, LabelsKept, Frame DEF IInv
  <2> QED
    BY <2>1, <2>2, NoWrite DEF TypeOK
<1>3. CASE AgentFinalized(a)
  <2>1. NoAgent \in Agent /\ ~NoAgent.exists
    BY VersionTypes DEF NoAgent
  <2>2. leaving' \in SUBSET Agents /\ flaps' \in Nat
    BY <1>3 DEF AgentFinalized, observers, IInv, TypeOK
  <2> QED
    BY <1>3, <2>1, <2>2, AgentChangeInv DEF AgentFinalized, observers
<1>4. CASE DeliverAgent(a)
  <2>1. /\ agents' = [agents EXCEPT ![a] = Deliver(agents[a])]
        /\ ~Current(agents[a])
        /\ UNCHANGED <<machines, playbooks, cleaned, aged, leaving, dirty, work, released,
                       repeats, parked, lost, flaps, faults, stale>>
    BY <1>4 DEF DeliverAgent, observers
  <2>2. /\ agents'[a] = Deliver(agents[a])
        /\ \A b \in Agents : b # a => agents'[b] = agents[b]
    BY <2>1 DEF IInv, TypeOK
  <2>3. \A b \in Agents : agents'[b].stored = agents[b].stored
    BY <2>2, StoredVersion
  <2>4. LabelsEvolve
    <3>1. \A b \in Agents :
            /\ ~agents[b].stored.exists => ~agents'[b].stored.exists
            /\ agents[b].stored.deleting => Going(b)'
            /\ Label(b)' = Label(b)
      BY <2>3 DEF Going, Label
    <3> QED
      BY <2>1, <3>1, NothingStarts, LabelsSafe DEF IInv
  <2>5. Object(Marked(a)) \subseteq Object(Marked(a)')
    BY <2>4, HeldGrows, ObjectGrows DEF IInv
  <2>6. agents'[a] \in Object(Marked(a)') /\ Coherent(agents'[a])
    BY <2>1, <2>2, <2>5, DeliverType, DeliverCoherent DEF IInv, AgentsOK
  <2>7. AgentsOK'
    BY <2>2, <2>4, <2>6, Frame DEF AgentsOK
  <2>8. Deliver(agents[a]) \in Object(Agent)
    BY <2>1, DeliverType DEF IInv, TypeOK
  <2>9. TypeOK'
    BY <2>1, <2>8 DEF IInv, TypeOK
  <2> QED
    BY <2>1, <2>4, <2>7, <2>9, Frame DEF IInv
<1>5. CASE DeleteAgent(a)
  <2>1. /\ [agents[a].stored EXCEPT !.deleting = TRUE] \in Agent
        /\ [agents[a].stored EXCEPT !.deleting = TRUE].label = Label(a)
        /\ [agents[a].stored EXCEPT !.deleting = TRUE].deleting
    BY <1>0 DEF Agent, Label
  <2>2. leaving' \in SUBSET Agents /\ flaps' \in Nat
    BY <1>5 DEF DeleteAgent, IInv, TypeOK
  <2> QED
    BY <1>5, <2>1, <2>2, AgentChangeInv DEF DeleteAgent
<1>6. CASE Flap(a)
  <2>1. /\ [agents[a].stored EXCEPT !.ready = ~agents[a].stored.ready] \in Agent
        /\ [agents[a].stored EXCEPT !.ready = ~agents[a].stored.ready].label = Label(a)
        /\ [agents[a].stored EXCEPT !.ready = ~agents[a].stored.ready].deleting
             = agents[a].stored.deleting
    BY <1>0 DEF Agent, Label
  <2>2. leaving' \in SUBSET Agents /\ flaps' \in Nat
    BY <1>6 DEF Flap, IInv, TypeOK
  <2> QED
    BY <1>6, <2>1, <2>2, AgentChangeInv DEF Flap
<1> QED
  BY <1>1, <1>2, <1>3, <1>4, <1>5, <1>6 DEF AgentStep

LEMMA RestartInv ==
    ASSUME IInv, Restart
    PROVE  IInv'
<1>1. /\ machines' = [m \in Machines |-> Listed(machines[m].stored)]
      /\ agents' = [a \in Agents |-> Listed(agents[a].stored)]
      /\ work' = [m \in Machines |-> Rest]
      /\ UNCHANGED <<playbooks, cleaned, aged, released, repeats, parked, flaps, stale>>
      /\ lost' = lost \cup {m \in Machines : BringsRef(m)}
  BY DEF Restart
<1>2. /\ \A a \in Agents : agents'[a].stored = agents[a].stored
      /\ \A m \in Machines : machines'[m].stored = machines[m].stored
  BY <1>1, StoredVersion
<1>3. LabelsEvolve
  <2>1. \A b \in Agents :
            /\ ~agents[b].stored.exists => ~agents'[b].stored.exists
            /\ agents[b].stored.deleting => Going(b)'
            /\ Label(b)' = Label(b)
    BY <1>2 DEF Going, Label
  <2> QED
    BY <1>1, <2>1, NothingStarts, LabelsSafe DEF IInv
<1>4. /\ \A m \in Machines : Held(m) \subseteq Held(m)'
      /\ \A a \in Agents : Marked(a) \subseteq Marked(a)'
  BY <1>3, HeldGrows DEF IInv
<1>5. AgentsOK'
  <2> SUFFICES ASSUME NEW a \in Agents
               PROVE  agents'[a] \in Object(Marked(a)') /\ Coherent(agents'[a])
    BY DEF AgentsOK
  <2>1. agents[a].stored \in Marked(a)'
    BY <1>4 DEF IInv, AgentsOK, Object
  <2> QED
    BY <1>1, <2>1, ListedType, ListedCoherent
<1>6. MachinesOK'
  <2> SUFFICES ASSUME NEW m \in Machines
               PROVE  machines'[m] \in Object(Held(m)') /\ Chain(machines'[m], Succession)
    BY DEF MachinesOK
  <2>1. machines[m].stored \in Held(m)'
    BY <1>4, HeldVersions
  <2> QED
    BY <1>1, <2>1, ListedType, ListedChain
<1>7. Rest \in Work /\ Rest.new = NoMachine
  BY VersionTypes DEF Rest, Work
<1>8. WorkOK'
  BY <1>1, <1>4, <1>7, HeldVersions DEF WorkOK
<1>9. ReleasedOK'
  <2>1. \A m \in Machines : machines'[m].cached = machines[m].stored
    BY <1>1 DEF Listed
  <2> QED
    BY <1>1, <2>1, ReleasedOut DEF IInv, TypeOK, ReleasedOK
<1>10. /\ machines' \in [Machines -> Object(Machine)]
       /\ agents' \in [Agents -> Object(Agent)]
  <2>1. \A m \in Machines : machines[m].stored \in Machine
    BY DEF IInv, TypeOK, Object
  <2>2. \A a \in Agents : agents[a].stored \in Agent
    BY DEF IInv, TypeOK, Object
  <2> QED
    BY <1>1, <2>1, <2>2, ListedType
<1>11. TypeOK'
  BY <1>1, <1>7, <1>10 DEF IInv, TypeOK, Restart
<1> QED
  BY <1>5, <1>6, <1>8, <1>9, <1>11 DEF IInv

LEMMA InitInv == Init => IInv
<1> SUFFICES ASSUME Init PROVE IInv
  OBVIOUS
<1>1. /\ \A a \in Agents : agents[a] = Listed(NewAgent)
      /\ \A m \in Machines : machines[m] = Listed(NewMachine)
      /\ released = {} /\ \A m \in Machines : work[m] = Rest
  BY DEF Init
<1>2. Rest \in Work /\ Rest.new = NoMachine
  BY VersionTypes DEF Rest, Work
<1>3. /\ \A a \in Agents : NewAgent \in Marked(a)
      /\ \A m \in Machines : NewMachine \in Held(m) /\ NoMachine \in Held(m)
  BY VersionTypes DEF Marked, Held, NewAgent, NewMachine, NoMachine
<1>4. TypeOK
  <2>1. Listed(NewAgent) \in Object(Agent) /\ Listed(NewMachine) \in Object(Machine)
    BY VersionTypes, ListedType
  <2> QED
    BY <1>2, <2>1 DEF Init, TypeOK
<1>5. AgentsOK
  BY <1>1, <1>3, ListedType, ListedCoherent DEF AgentsOK
<1>6. MachinesOK
  BY <1>1, <1>3, ListedType, ListedChain DEF MachinesOK
<1> QED
  BY <1>1, <1>2, <1>3, <1>4, <1>5, <1>6 DEF IInv, WorkOK, ReleasedOK

LEMMA NextInv == IInv /\ [Next]_vars => IInv'
<1> SUFFICES ASSUME IInv, [Next]_vars PROVE IInv'
  OBVIOUS
<1>1. CASE \E m \in Machines : MachineStep(m)
  BY <1>1, MachineStepInv
<1>2. CASE \E a \in Agents : AgentStep(a)
  BY <1>2, AgentStepInv
<1>3. CASE Restart
  BY <1>3, RestartInv
<1>4. CASE UNCHANGED vars
  <2>1. UNCHANGED <<machines, agents, playbooks, cleaned, aged, leaving, dirty, work, released,
                    repeats, parked, lost, flaps, faults, stale>>
    BY <1>4 DEF vars, observers
  <2>2. TypeOK /\ LabelsEvolve /\ WorkOK'
    BY <2>1, NothingStarts, LabelsKept, Frame DEF IInv
  <2> QED
    BY <2>1, <2>2, NoWrite DEF TypeOK
<1> QED
  BY <1>1, <1>2, <1>3, <1>4 DEF Next

LEMMA InductiveInvariant == Spec => []IInv
BY InitInv, NextInv, PTL DEF Spec

-----------------------------------------------------------------------------
(* The theorems *)

\* Every reachable state of the claim protocol is well typed.
THEOREM TypeCorrect == Spec => []TypeOK
<1>1. IInv => TypeOK
  BY DEF IInv
<1> QED
  BY <1>1, InductiveInvariant, PTL

\* While no machine has released twice, a machine with an AgentRef that is not
\* being deleted holds the label of that agent, whatever is lost, repeated or
\* read late.
THEOREM RunningMachineHoldsItsAgent == Spec => []LabelHeld
<1>1. IInv => LabelHeld
  <2> SUFFICES ASSUME IInv, repeats = 0, NEW m \in Machines,
                      machines[m].stored.exists, ~machines[m].stored.deleting, Ref(m) # None
               PROVE  Label(Ref(m)) = m \/ ~agents[Ref(m)].stored.exists
    BY DEF LabelHeld, LabelNamesUser
  <2>1. machines[m].stored \in Held(m)
    BY HeldVersions
  <2>2. m \notin released
    BY ReleasedOut DEF IInv, ReleasedOK, Out
  <2> QED
    BY <2>1, <2>2 DEF Held, Holds, Ref
<1> QED
  BY <1>1, InductiveInvariant, PTL

\* A write of agent a with version g keeps the other labels and sets its own.
LEMMA LabelWritten ==
    ASSUME TypeOK, NEW a \in Agents, NEW g, StoreAgent(a, g)
    PROVE  /\ Label(a)' = g.label
           /\ \A b \in Agents : b # a => Label(b)' = Label(b)
<1>1. agents'[a].stored = g /\ \A b \in Agents : b # a => agents'[b] = agents[b]
  BY StoredVersion DEF StoreAgent, TypeOK
<1> QED
  BY <1>1 DEF Label

\* No step replaces the name on an agent's label by another name: the Update of
\* a claim is accepted only if the copy that showed the agent free is the stored
\* version.
THEOREM ClaimTakesOnlyFreeAgents == Spec => NoTakeover
<1> DEFINE Kept(a) == Label(a) # None /\ Label(a)' # None => Label(a)' = Label(a)
<1>1. IInv /\ [Next]_vars => [\A a \in Agents : Kept(a)]_vars
  <2> SUFFICES ASSUME IInv, Next PROVE \A a \in Agents : Kept(a)
    OBVIOUS
  <2>0. TypeOK
    BY DEF IInv
  <2>1. ASSUME UNCHANGED agents PROVE \A a \in Agents : Kept(a)
    BY <2>1 DEF Label
  <2>2. ASSUME NEW m \in Machines, MachineStep(m) PROVE \A a \in Agents : Kept(a)
    <3>1. CASE \E a \in Agents : ReconcileClaim(m, a)
      <4> PICK a \in Agents : ReconcileClaim(m, a)
        BY <3>1
      <4>1. agents[a].cached = agents[a].stored
        BY DEF ReconcileClaim, Accepted, Current, IInv, AgentsOK, Coherent
      <4>2. Label(a) = None
        BY <4>1 DEF ReconcileClaim, Choosing, Free, Label
      <4>3. StoreAgent(a, SetLabel(agents[a].cached, m))
        BY DEF ReconcileClaim
      <4> QED
        BY <2>0, <4>2, <4>3, LabelWritten
    <3>2. CASE ReconcileRelease(m)
      <4>1. machines[m].cached.ref \in Agents
        BY <3>2, HeldVersions DEF ReconcileRelease, Vacated, Discarded, Held, Machine
      <4> PICK a \in Agents : a = machines[m].cached.ref
        BY <4>1
      <4>2. StoreAgent(a, SetLabel(agents[a].cached, None))
        BY <3>2 DEF ReconcileRelease
      <4>3. SetLabel(agents[a].cached, None).label = None
        BY DEF SetLabel
      <4> QED
        BY <2>0, <4>2, <4>3, LabelWritten
    <3>3. CASE /\ Reconcile(m) /\ ~ReconcileRelease(m)
               /\ ~\E a \in Agents : ReconcileClaim(m, a)
      <4>1. UNCHANGED agents
        BY <3>3 DEF Reconcile, ReconcileNotFound, ReconcileAddFinalizer,
                    ReconcileWaitForAgent, ReconcileUse, ReconcileAmbiguous,
                    ReconcileAdopt, ReconcileNoFreeAgent, ReconcileClaimConflict,
                    ReconcileForget, ReconcileDeleteNoAgent, ReconcileCleanup,
                    ReconcileCleanerWaits, ReconcileCleaner, ReconcileReleaseConflict, Inert
      <4> QED
        BY <2>1, <4>1
    <3>4. CASE ~Reconcile(m)
      <4>1. UNCHANGED agents
        BY <2>2, <3>4 DEF MachineStep, Finish, PatchApplied, PatchNotFound, PatchFails,
                    DeliverMachine, Wake, PlaybooksGone, MinutePasses, DeleteMachine
      <4> QED
        BY <2>1, <4>1
    <3> QED
      BY <3>1, <3>2, <3>3, <3>4
  <2>3. ASSUME NEW a \in Agents, AgentStep(a) PROVE \A b \in Agents : Kept(b)
    <3>1. CASE AgentDeletesMachine(a) \/ AgentUninstall(a)
      BY <2>1, <3>1 DEF AgentDeletesMachine, AgentUninstall
    <3>2. CASE AgentFinalized(a)
      <4>1. StoreAgent(a, NoAgent) /\ NoAgent.label = None
        BY <3>2 DEF AgentFinalized, NoAgent
      <4> QED
        BY <2>0, <4>1, LabelWritten
    <3>3. CASE DeliverAgent(a)
      <4>1. \A b \in Agents : agents'[b].stored = agents[b].stored
        BY <2>0, <3>3, StoredVersion DEF DeliverAgent, TypeOK
      <4> QED
        BY <4>1 DEF Label
    <3>4. CASE DeleteAgent(a) \/ Flap(a)
      <4>1. agents[a].stored \in Agent
        BY <2>0 DEF TypeOK, Object
      <4>2. PICK g : StoreAgent(a, g) /\ g.label = Label(a)
        BY <3>4, <4>1 DEF DeleteAgent, Flap, Agent, Label
      <4> QED
        BY <2>0, <4>2, LabelWritten
    <3> QED
      BY <2>3, <3>1, <3>2, <3>3, <3>4 DEF AgentStep
  <2>4. CASE Restart
    <3>1. \A a \in Agents : agents'[a].stored = agents[a].stored
      BY <2>4, StoredVersion DEF Restart
    <3> QED
      BY <3>1 DEF Label
  <2> QED
    BY <2>2, <2>3, <2>4 DEF Next
<1>2. Spec => [][\A a \in Agents : Kept(a)]_vars
  BY <1>1, InductiveInvariant, PTL DEF Spec
<1> QED
  BY <1>2 DEF NoTakeover

\* As long as no machine releases twice, an agent that stays is handed on only
\* after the Playbooks of the machine before have gone: the clean-up of a released
\* machine does not start again.
THEOREM HandedOnVacated == Spec => []VacatedBeforeReuse
<1>1. IInv => VacatedBeforeReuse
  <2> SUFFICES ASSUME IInv, repeats = 0, NEW m \in playbooks, Ref(m) # None
               PROVE  Label(Ref(m)) = m \/ Going(Ref(m))
    BY DEF VacatedBeforeReuse, Going
  <2>1. m \in Machines
    BY DEF IInv, TypeOK
  <2>2. machines[m].stored \in Held(m) /\ ~Finished(m)
    BY <2>1, HeldVersions DEF Finished
  <2> QED
    BY <2>2 DEF Held, Holds, Ref
<1> QED
  BY <1>1, InductiveInvariant, PTL

-----------------------------------------------------------------------------
(* The kinds of steps, by what they do to labels, AgentRefs and reconciles. *)

\* Every agent keeps its label, or it goes.
LabelsStay ==
    \A a \in Agents :
        \/ agents'[a].stored.exists = agents[a].stored.exists /\ Label(a)' = Label(a)
        \/ ~agents'[a].stored.exists /\ Label(a)' = None

StoredMachinesStay == \A m \in Machines : machines'[m].stored = machines[m].stored

\* Outdated reads are not forgotten.
Counted == stale' = 0 => stale = 0

Waits == LabelsStay /\ StoredMachinesStay /\ Counted /\ UNCHANGED <<work, lost>>

\* A reconcile of m has read its copies and goes on to its patch with v.
Decides(m, v) ==
    /\ ~work[m].busy
    /\ work'[m].busy /\ work'[m].old = machines[m].cached /\ work'[m].new = v
    /\ \A k \in Machines : k # m => work'[k] = work[k]
    /\ Counted /\ (stale' = 0 => AllCurrent(m))
    /\ UNCHANGED <<machines, lost>>

\* The reconcile of m is over without its patch.
Stops(m) ==
    /\ LabelsStay /\ StoredMachinesStay /\ Counted
    /\ lost' = IF BringsRef(m) THEN lost \cup {m} ELSE lost
    /\ work[m].busy /\ ~work'[m].busy
    /\ \A k \in Machines : k # m => work'[k] = work[k]

\* The patch of m is applied.
Applies(m) ==
    /\ UNCHANGED <<agents, stale>>
    /\ lost' = IF BringsRef(m) THEN lost \ {m} ELSE lost
    /\ work[m].busy /\ ~work'[m].busy
    /\ machines[m].stored.exists
    /\ machines'[m].stored = Patched(m)
    /\ \A k \in Machines : k # m => work'[k] = work[k] /\ machines'[k] = machines[k]

\* Somebody deletes m.
Deletes(m) ==
    /\ UNCHANGED <<agents, stale, lost, work>>
    /\ machines[m].stored.exists
    /\ \A k \in Machines : k # m => machines'[k] = machines[k]
    /\ \/ ~machines[m].stored.finalizer /\ ~machines'[m].stored.exists
       \/ /\ machines'[m].stored.exists = machines[m].stored.exists
          /\ machines'[m].stored.finalizer = machines[m].stored.finalizer
          /\ Ref(m)' = Ref(m)

Kind ==
    \/ Waits
    \/ \E m \in Machines : Stops(m) \/ Applies(m) \/ Deletes(m)
    \/ \E m \in Machines : ReconcileAddFinalizer(m) \/ ReconcileForget(m) \/ ReconcileAdopt(m)
    \/ \E m \in Machines, a \in Agents : ReconcileClaim(m, a)
    \/ \E m \in Machines : ReconcileRelease(m)
    \/ Restart

LEMMA CountedBegin ==
    ASSUME IInv, NEW m \in Machines, Begin(m)
    PROVE  /\ Counted /\ (stale' = 0 => AllCurrent(m)) /\ ~work[m].busy
           /\ UNCHANGED <<machines, lost>>
<1>1. stale \in Nat
  BY DEF IInv, TypeOK
<1> QED
  BY <1>1 DEF Begin, Counted

LEMMA DecidesPatch ==
    ASSUME IInv, NEW m \in Machines, NEW v, Begin(m), PatchWith(m, v)
    PROVE  Decides(m, v)
<1>1. /\ work'[m] = [busy |-> TRUE, old |-> machines[m].cached, new |-> v]
      /\ \A k \in Machines : k # m => work'[k] = work[k]
  BY DEF PatchWith, IInv, TypeOK
<1> QED
  BY <1>1, CountedBegin DEF Decides

LEMMA CurrentCopies ==
    ASSUME IInv, NEW m \in Machines, AllCurrent(m)
    PROVE  /\ machines[m].cached = machines[m].stored
           /\ \A a \in Agents : agents[a].cached = agents[a].stored
BY DEF IInv, MachinesOK, AgentsOK, Chain, Coherent, AllCurrent, Current

LEMMA LabelsStayKept ==
    ASSUME \A a \in Agents : agents'[a].stored = agents[a].stored
    PROVE  LabelsStay
BY DEF LabelsStay, Label

LEMMA ReconcileKind ==
    ASSUME IInv, NEW m \in Machines, Reconcile(m)
    PROVE  Kind
<1>1. CASE \/ ReconcileNotFound(m) \/ ReconcileWaitForAgent(m) \/ ReconcileUse(m)
           \/ ReconcileAmbiguous(m) \/ ReconcileNoFreeAgent(m)
           \/ \E a \in Agents : ReconcileClaimConflict(m, a)
           \/ ReconcileDeleteNoAgent(m) \/ ReconcileCleanup(m)
           \/ ReconcileCleanerWaits(m) \/ ReconcileCleaner(m)
           \/ ReconcileReleaseConflict(m)
  <2>1. Begin(m) /\ UNCHANGED <<agents, work>>
    BY <1>1 DEF ReconcileNotFound, ReconcileWaitForAgent, ReconcileAmbiguous,
                ReconcileNoFreeAgent, ReconcileClaimConflict, ReconcileUse,
                ReconcileDeleteNoAgent, ReconcileCleanup, ReconcileReleaseConflict,
                ReconcileCleanerWaits, ReconcileCleaner, Unchanged, Inert
  <2>2. Counted /\ UNCHANGED <<machines, lost>>
    BY <2>1, CountedBegin
  <2>3. LabelsStay /\ StoredMachinesStay
    BY <2>1, <2>2, LabelsStayKept DEF StoredMachinesStay
  <2> QED
    BY <2>1, <2>2, <2>3 DEF Kind, Waits
<1>2. CASE ReconcileAddFinalizer(m) \/ ReconcileForget(m) \/ ReconcileAdopt(m)
  BY <1>2 DEF Kind
<1>3. CASE (\E a \in Agents : ReconcileClaim(m, a)) \/ ReconcileRelease(m)
  BY <1>3 DEF Kind
<1> QED
  BY <1>1, <1>2, <1>3 DEF Reconcile

LEMMA FinishKind ==
    ASSUME IInv, NEW m \in Machines, Finish(m)
    PROVE  Kind
<1>1. ~Rest.busy
  BY DEF Rest
<1>2. UNCHANGED <<agents, stale>> /\ work[m].busy /\ ~work'[m].busy
      /\ \A k \in Machines : k # m => work'[k] = work[k]
  BY <1>1 DEF Finish, PatchApplied, PatchNotFound, PatchFails, IInv, TypeOK
<1>3. CASE PatchApplied(m)
  <2>1. /\ machines[m].stored.exists
        /\ lost' = IF BringsRef(m) THEN lost \ {m} ELSE lost
        /\ machines' = [machines EXCEPT ![m] = Store(machines[m], Patched(m))]
    BY <1>3 DEF PatchApplied, StoreMachine
  <2>2. machines'[m].stored = Patched(m)
        /\ \A k \in Machines : k # m => machines'[k] = machines[k]
    BY <2>1, StoredVersion DEF IInv, TypeOK
  <2>3. Applies(m)
    BY <1>2, <2>1, <2>2 DEF Applies
  <2> QED
    BY <2>3 DEF Kind
<1>4. CASE PatchNotFound(m) \/ PatchFails(m)
  <2>1. /\ UNCHANGED machines /\ Counted
        /\ lost' = IF BringsRef(m) THEN lost \cup {m} ELSE lost
    BY <1>2, <1>4 DEF PatchNotFound, PatchFails, Counted
  <2>2. Stops(m)
    BY <1>2, <2>1, LabelsStayKept DEF Stops, StoredMachinesStay
  <2> QED
    BY <2>2 DEF Kind
<1> QED
  BY <1>3, <1>4 DEF Finish

LEMMA DeletionKind ==
    ASSUME IInv, NEW m \in Machines, machines[m].stored.exists,
           StoreMachine(m, IF machines[m].stored.finalizer
                             THEN [machines[m].stored EXCEPT !.deleting = TRUE]
                             ELSE NoMachine),
           UNCHANGED <<agents, work, observers>>
    PROVE  Kind
<1> DEFINE s == machines[m].stored
           v == IF s.finalizer THEN [s EXCEPT !.deleting = TRUE] ELSE NoMachine
<1>1. s \in Machine
  BY DEF IInv, TypeOK, Object
<1>2. \/ ~s.finalizer /\ ~v.exists
      \/ v.exists = s.exists /\ v.finalizer = s.finalizer /\ v.ref = s.ref
  BY <1>1 DEF NoMachine, Machine
<1>3. machines'[m].stored = v /\ \A k \in Machines : k # m => machines'[k] = machines[k]
  BY StoredVersion DEF StoreMachine, IInv, TypeOK
<1>4. UNCHANGED <<agents, work, stale, lost>>
  BY DEF observers
<1> HIDE DEF v
<1>5. Deletes(m)
  BY <1>2, <1>3, <1>4 DEF Deletes, Ref
<1> QED
  BY <1>5 DEF Kind

LEMMA AgentKind ==
    ASSUME IInv, NEW a \in Agents, AgentStep(a)
    PROVE  Kind
<1>1. agents[a].stored \in Agent /\ agents[a].cached \in Agent
  BY DEF IInv, TypeOK, Object
<1>2. CASE AgentDeletesMachine(a)
  <2>1. agents[a].cached.label \in Machines
    BY <1>1, <1>2 DEF AgentDeletesMachine, HasMachine, Agent
  <2> PICK m \in Machines : m = agents[a].cached.label
    BY <2>1
  <2> QED
    BY <1>2, DeletionKind DEF AgentDeletesMachine
<1>3. CASE AgentUninstall(a) \/ DeliverAgent(a)
  <2>1. \A b \in Agents : agents'[b].stored = agents[b].stored
    BY <1>3, StoredVersion DEF AgentUninstall, DeliverAgent, IInv, TypeOK
  <2>2. UNCHANGED <<machines, work, lost>> /\ Counted
    BY <1>3 DEF AgentUninstall, DeliverAgent, observers, Counted
  <2> QED
    BY <2>1, <2>2, LabelsStayKept DEF Kind, Waits, StoredMachinesStay
<1>4. CASE AgentFinalized(a) \/ DeleteAgent(a) \/ Flap(a)
  <2>1. PICK g : /\ StoreAgent(a, g)
                 /\ \/ ~g.exists /\ g.label = None
                    \/ g.exists = agents[a].stored.exists /\ g.label = Label(a)
    BY <1>1, <1>4 DEF AgentFinalized, DeleteAgent, Flap, Agent, NoAgent, Label
  <2>2. agents'[a].stored = g /\ \A b \in Agents : b # a => agents'[b] = agents[b]
    BY <2>1, StoredVersion DEF StoreAgent, IInv, TypeOK
  <2>3. LabelsStay
    BY <2>1, <2>2 DEF LabelsStay, Label
  <2>4. UNCHANGED <<machines, work, lost>> /\ Counted
    BY <1>4 DEF AgentFinalized, DeleteAgent, Flap, observers, Counted
  <2> QED
    BY <2>3, <2>4 DEF Kind, Waits, StoredMachinesStay
<1> QED
  BY <1>2, <1>3, <1>4 DEF AgentStep

LEMMA StepKind ==
    ASSUME IInv, [Next]_vars
    PROVE  Kind
<1>1. ASSUME NEW m \in Machines, MachineStep(m) PROVE Kind
  <2>1. CASE Reconcile(m) \/ Finish(m)
    BY <2>1, ReconcileKind, FinishKind
  <2>2. CASE DeleteMachine(m)
    BY <2>2, DeletionKind DEF DeleteMachine
  <2>3. CASE DeliverMachine(m) \/ Wake(m) \/ PlaybooksGone(m) \/ MinutePasses(m)
    <3>1. StoredMachinesStay
      BY <2>3, StoredVersion DEF DeliverMachine, Wake, PlaybooksGone, MinutePasses,
                                 StoredMachinesStay, IInv, TypeOK
    <3>2. UNCHANGED <<agents, work, lost>> /\ Counted
      BY <2>3 DEF DeliverMachine, Wake, PlaybooksGone, MinutePasses, observers, Counted
    <3> QED
      BY <3>1, <3>2, LabelsStayKept DEF Kind, Waits
  <2> QED
    BY <1>1, <2>1, <2>2, <2>3 DEF MachineStep
<1>2. CASE UNCHANGED vars
  <2>1. UNCHANGED <<machines, agents, work, stale, lost>>
    BY <1>2 DEF vars, observers
  <2> QED
    BY <2>1, LabelsStayKept DEF Kind, Waits, StoredMachinesStay, Counted
<1>3. CASE Restart
  BY <1>3 DEF Kind
<1> QED
  BY <1>1, <1>2, <1>3, AgentKind DEF Next

-----------------------------------------------------------------------------
(* While the copies read were current: the second inductive invariant.      *)

\* An agent that has gone carries no name.
Unnamed == \A a \in Agents : ~agents[a].stored.exists => Label(a) = None

\* A reconcile patches the AgentRef it has read, and only if there was none.
RefKept ==
    stale = 0 => \A m \in Machines : work[m].busy /\ machines[m].stored.exists =>
        /\ Ref(m) = work[m].old.ref
        /\ work[m].new.ref = work[m].old.ref \/ work[m].old.ref = None

\* A patch that brings an AgentRef is of a machine with its finalizer, and names the
\* only agent that may carry the machine's name.
BringKept ==
    stale = 0 => \A m \in Machines : BringsRef(m) =>
        /\ work[m].new.finalizer /\ work[m].old.finalizer
        /\ machines[m].stored.exists => machines[m].stored.finalizer
        /\ \A a \in Agents : Label(a) = m => a = work[m].new.ref

\* A machine whose name is on an agent is there to give it back: it has its finalizer,
\* and its AgentRef or the patch that brings it, unless that patch was lost.
ClaimKept ==
    stale = 0 => \A m \in Machines, a \in Agents : Label(a) = m /\ m \notin lost =>
        /\ machines[m].stored.exists /\ machines[m].stored.finalizer
        /\ IF work[m].busy
             THEN work[m].new.ref = a /\ work[m].new.finalizer /\ work[m].old.finalizer
             ELSE Ref(m) = a

CInv == IInv /\ Unnamed /\ OneAgentPerMachine /\ RefKept /\ BringKept /\ ClaimKept

\* What a claim and a release do to the labels.
LEMMA ClaimEffect ==
    ASSUME IInv, NEW m \in Machines, NEW a \in Agents, ReconcileClaim(m, a)
    PROVE  /\ Decides(m, SetRef(machines[m].cached, a))
           /\ agents'[a].stored.exists /\ Label(a)' = m
           /\ \A b \in Agents : b # a => agents'[b] = agents[b] /\ Label(b)' = Label(b)
           /\ machines[m].cached.exists /\ machines[m].cached.finalizer
           /\ machines[m].cached.ref = None
           /\ stale' = 0 => \A b \in Agents : agents[b].stored.exists => Label(b) # m
<1> DEFINE g == SetLabel(agents[a].cached, m)
<1>1. Begin(m) /\ PatchWith(m, SetRef(machines[m].cached, a)) /\ StoreAgent(a, g)
  BY DEF ReconcileClaim
<1>2. Decides(m, SetRef(machines[m].cached, a))
  BY <1>1, DecidesPatch
<1>3. g.label = m /\ g.exists = agents[a].cached.exists /\ agents[a].cached.exists
  BY DEF SetLabel, ReconcileClaim, Choosing, Free
<1> HIDE DEF g
<1>4. agents'[a].stored = g /\ \A b \in Agents : b # a => agents'[b] = agents[b]
  BY <1>1, StoredVersion DEF StoreAgent, IInv, TypeOK
<1>5. stale' = 0 => \A b \in Agents : agents[b].stored.exists => Label(b) # m
  <2>1. Labelled(m) = {}
    BY DEF ReconcileClaim, Choosing
  <2> QED
    BY <1>2, <2>1, CurrentCopies DEF Decides, Labelled, Label
<1> QED
  BY <1>2, <1>3, <1>4, <1>5 DEF ReconcileClaim, Choosing, Wanted, Label

LEMMA ReleaseEffect ==
    ASSUME IInv, NEW m \in Machines, ReconcileRelease(m)
    PROVE  /\ Decides(m, SetFinalizer(machines[m].cached, FALSE))
           /\ \E a \in Agents :
                /\ a = machines[m].cached.ref
                /\ agents'[a].stored.exists /\ Label(a)' = None
                /\ \A b \in Agents : b # a => agents'[b] = agents[b] /\ Label(b)' = Label(b)
<1>1. machines[m].cached.ref \in Agents
  BY HeldVersions DEF ReconcileRelease, Vacated, Discarded, Held, Machine
<1> PICK a \in Agents : a = machines[m].cached.ref
  BY <1>1
<1> DEFINE g == SetLabel(agents[a].cached, None)
<1>2. /\ Begin(m) /\ PatchWith(m, SetFinalizer(machines[m].cached, FALSE))
      /\ StoreAgent(a, g)
  BY DEF ReconcileRelease
<1>3. Decides(m, SetFinalizer(machines[m].cached, FALSE))
  BY <1>2, DecidesPatch
<1>4. g.label = None /\ g.exists = agents[a].cached.exists /\ agents[a].cached.exists
  BY DEF SetLabel, ReconcileRelease, Vacated
<1> HIDE DEF g
<1>5. agents'[a].stored = g /\ \A b \in Agents : b # a => agents'[b] = agents[b]
  BY <1>2, StoredVersion DEF StoreAgent, IInv, TypeOK
<1> QED
  BY <1>3, <1>4, <1>5 DEF Label

\* What a reconcile that writes no agent decides.
LEMMA DecisionEffect ==
    ASSUME IInv, NEW m \in Machines,
           ReconcileAddFinalizer(m) \/ ReconcileForget(m) \/ ReconcileAdopt(m)
    PROVE  /\ UNCHANGED agents
           /\ \E v \in Machine :
                /\ Decides(m, v)
                /\ \/ v.ref = machines[m].cached.ref /\ ~machines[m].cached.finalizer
                   \/ v.ref = machines[m].cached.ref /\ machines[m].cached.ref = None
                   \/ /\ machines[m].cached.ref = None
                      /\ machines[m].cached.finalizer /\ v.finalizer
                      /\ Labelled(m) = {v.ref}
<1> DEFINE c == machines[m].cached
<1>1. c \in Machine
  BY DEF IInv, TypeOK, Object
<1>2. UNCHANGED agents
  BY DEF ReconcileAddFinalizer, ReconcileForget, ReconcileAdopt, Inert
<1>3. CASE ReconcileAddFinalizer(m)
  <2>1. Decides(m, SetFinalizer(c, TRUE)) /\ ~c.finalizer
    BY <1>3, DecidesPatch DEF ReconcileAddFinalizer
  <2> QED
    BY <1>1, <1>2, <2>1, VersionTypes
<1>4. CASE ReconcileForget(m)
  <2>1. Decides(m, SetFinalizer(c, FALSE)) /\ c.ref = None
    BY <1>4, DecidesPatch DEF ReconcileForget
  <2> QED
    BY <1>1, <1>2, <2>1, VersionTypes
<1>5. CASE ReconcileAdopt(m)
  <2>1. PICK a \in Agents : Labelled(m) = {a} /\ PatchWith(m, SetRef(c, a))
    BY <1>5 DEF ReconcileAdopt
  <2>2. Decides(m, SetRef(c, a)) /\ c.ref = None /\ c.finalizer
    BY <1>5, <2>1, DecidesPatch DEF ReconcileAdopt, Wanted
  <2>3. SetRef(c, a) \in Machine /\ SetRef(c, a).ref = a /\ SetRef(c, a).finalizer
    BY <1>1, <2>2, VersionTypes DEF SetRef
  <2> QED
    BY <1>2, <2>1, <2>2, <2>3
<1> QED
  BY <1>3, <1>4, <1>5

\* A restart leaves the labels and the stored machines alone.
LEMMA RestartEffect ==
    ASSUME IInv, Restart
    PROVE  LabelsStay /\ StoredMachinesStay /\ stale' = stale
           /\ lost' = lost \cup {m \in Machines : BringsRef(m)}
           /\ \A m \in Machines : ~work'[m].busy
<1>1. \A a \in Agents : agents'[a].stored = agents[a].stored
  BY StoredVersion DEF Restart
<1>2. \A m \in Machines : machines'[m].stored = machines[m].stored /\ ~work'[m].busy
  BY StoredVersion DEF Restart, Rest
<1> QED
  BY <1>1, <1>2, LabelsStayKept DEF StoredMachinesStay, Restart

LEMMA LabelsInv ==
    ASSUME CInv, [Next]_vars
    PROVE  Unnamed' /\ OneAgentPerMachine'
<1>1. IInv /\ Unnamed /\ OneAgentPerMachine
  BY DEF CInv
<1>2. CASE LabelsStay /\ (stale' = 0 => stale = 0)
  BY <1>1, <1>2, NoneAssumption DEF LabelsStay, Unnamed, OneAgentPerMachine
<1>3. ASSUME NEW m \in Machines, NEW a \in Agents, ReconcileClaim(m, a)
      PROVE  Unnamed' /\ OneAgentPerMachine'
  <2>1. /\ agents'[a].stored.exists /\ Label(a)' = m
        /\ \A b \in Agents : b # a => agents'[b] = agents[b] /\ Label(b)' = Label(b)
        /\ stale' = 0 => stale = 0 /\ \A b \in Agents : agents[b].stored.exists => Label(b) # m
    BY <1>1, <1>3, ClaimEffect DEF Decides, Counted
  <2>2. Unnamed'
    BY <1>1, <2>1 DEF Unnamed
  <2>3. ASSUME stale' = 0
        PROVE  stale = 0 /\ \A b \in Agents : Label(b) # m
    BY <1>1, <2>1, <2>3, NoneAssumption DEF Unnamed
  <2> QED
    BY <1>1, <2>1, <2>2, <2>3 DEF OneAgentPerMachine
<1>4. ASSUME NEW m \in Machines, ReconcileRelease(m)
      PROVE  Unnamed' /\ OneAgentPerMachine'
  <2>1. PICK a \in Agents :
            /\ Label(a)' = None /\ (stale' = 0 => stale = 0)
            /\ \A b \in Agents : b # a => agents'[b] = agents[b] /\ Label(b)' = Label(b)
    BY <1>1, <1>4, ReleaseEffect DEF Decides, Counted
  <2> QED
    BY <1>1, <2>1, NoneAssumption DEF Unnamed, OneAgentPerMachine
<1>5. Kind
  BY <1>1, StepKind
<1>6. ASSUME NEW m \in Machines,
             \/ Stops(m) \/ Applies(m) \/ Deletes(m)
             \/ ReconcileAddFinalizer(m) \/ ReconcileForget(m) \/ ReconcileAdopt(m)
      PROVE  LabelsStay /\ (stale' = 0 => stale = 0)
  <2>1. CASE Stops(m) \/ Applies(m) \/ Deletes(m)
    BY <2>1, LabelsStayKept DEF Stops, Applies, Deletes, Counted
  <2>2. CASE ReconcileAddFinalizer(m) \/ ReconcileForget(m) \/ ReconcileAdopt(m)
    BY <1>1, <2>2, DecisionEffect, LabelsStayKept DEF Decides, Counted
  <2> QED
    BY <1>6, <2>1, <2>2
<1>7. Waits \/ Restart => LabelsStay /\ (stale' = 0 => stale = 0)
  BY <1>1, RestartEffect DEF Waits, Counted
<1> QED
  BY <1>2, <1>3, <1>4, <1>5, <1>6, <1>7 DEF Kind

\* A reconcile that has read the current machine decides on what is stored.
LEMMA DecisionRef ==
    ASSUME CInv, NEW m \in Machines, NEW v, Decides(m, v),
           v.ref = machines[m].cached.ref \/ machines[m].cached.ref = None
    PROVE  RefKept'
<1>1. IInv /\ RefKept
  BY DEF CInv
<1> SUFFICES ASSUME stale' = 0, NEW k \in Machines, work'[k].busy, machines'[k].stored.exists
             PROVE  /\ Ref(k)' = work'[k].old.ref
                    /\ work'[k].new.ref = work'[k].old.ref \/ work'[k].old.ref = None
  BY DEF RefKept
<1>2. stale = 0 /\ AllCurrent(m) /\ UNCHANGED machines
  BY DEF Decides, Counted
<1>3. CASE k = m
  BY <1>1, <1>2, <1>3, CurrentCopies DEF Decides, Ref
<1>4. CASE k # m
  BY <1>1, <1>2, <1>4 DEF Decides, Ref, RefKept
<1> QED
  BY <1>3, <1>4

LEMMA RefInv ==
    ASSUME CInv, [Next]_vars
    PROVE  RefKept'
<1>1. IInv /\ RefKept
  BY DEF CInv
<1>2. CASE Waits
  BY <1>1, <1>2 DEF Waits, Counted, StoredMachinesStay, RefKept, Ref
<1>3. ASSUME NEW m \in Machines, Stops(m) PROVE RefKept'
  <2>1. (stale' = 0 => stale = 0) /\ \A k \in Machines : work'[k] = work[k] \/ ~work'[k].busy
    BY <1>3 DEF Stops, Counted
  <2> QED
    BY <1>1, <1>3, <2>1 DEF Stops, StoredMachinesStay, RefKept, Ref
<1>4. ASSUME NEW m \in Machines, Applies(m) PROVE RefKept'
  <2>1. stale' = stale /\ ~work'[m].busy
        /\ \A k \in Machines : k # m => work'[k] = work[k] /\ machines'[k] = machines[k]
    BY <1>4 DEF Applies
  <2> QED
    BY <1>1, <2>1 DEF RefKept, Ref
<1>5. ASSUME NEW m \in Machines, Deletes(m) PROVE RefKept'
  <2>1. \A k \in Machines :
            machines'[k].stored.exists => machines[k].stored.exists /\ Ref(k)' = Ref(k)
    BY <1>5 DEF Deletes, Ref
  <2> QED
    BY <1>1, <1>5, <2>1 DEF Deletes, RefKept
<1>6. ASSUME NEW m \in Machines,
             ReconcileAddFinalizer(m) \/ ReconcileForget(m) \/ ReconcileAdopt(m)
      PROVE  RefKept'
  BY <1>1, <1>6, DecisionEffect, DecisionRef
<1>7. ASSUME NEW m \in Machines, NEW a \in Agents, ReconcileClaim(m, a)
      PROVE  RefKept'
  BY <1>1, <1>7, ClaimEffect, DecisionRef
<1>8. ASSUME NEW m \in Machines, ReconcileRelease(m)
      PROVE  RefKept'
  <2>1. SetFinalizer(machines[m].cached, FALSE).ref = machines[m].cached.ref
    BY DEF SetFinalizer
  <2> QED
    BY <1>1, <1>8, <2>1, ReleaseEffect, DecisionRef
<1>9. CASE Restart
  BY <1>1, <1>9, RestartEffect DEF RefKept
<1> QED
  BY <1>1, <1>2, <1>3, <1>4, <1>5, <1>6, <1>7, <1>8, <1>9, StepKind DEF Kind

\* Nobody but m's own reconcile puts m's name on an agent, so the one that its patch is
\* to bring stays the only one.
LEMMA BringInv ==
    ASSUME CInv, [Next]_vars
    PROVE  BringKept'
<1>1. IInv /\ BringKept /\ Unnamed /\ \A m \in Machines : m # None
  BY NoneAssumption DEF CInv
<1> SUFFICES ASSUME stale' = 0, NEW k \in Machines, BringsRef(k)'
             PROVE  /\ work'[k].new.finalizer /\ work'[k].old.finalizer
                    /\ machines'[k].stored.exists => machines'[k].stored.finalizer
                    /\ \A b \in Agents : Label(b)' = k => b = work'[k].new.ref
  BY DEF BringKept
<1> DEFINE Goal ==
        /\ work'[k].new.finalizer /\ work'[k].old.finalizer
        /\ machines'[k].stored.exists => machines'[k].stored.finalizer
        /\ \A b \in Agents : Label(b)' = k => b = work'[k].new.ref
<1>2. work'[k].busy /\ work'[k].new.ref # work'[k].old.ref
  BY DEF BringsRef
\* k's reconcile goes on while somebody else acts.
<1>3. ASSUME stale = 0, work'[k] = work[k], \A b \in Agents : Label(b)' = k => Label(b) = k,
             \/ machines'[k].stored = machines[k].stored
             \/ ~machines'[k].stored.exists
             \/ /\ machines'[k].stored.finalizer = machines[k].stored.finalizer
                /\ machines'[k].stored.exists = machines[k].stored.exists
      PROVE  Goal
  BY <1>1, <1>2, <1>3 DEF BringKept, BringsRef
<1>4. LabelsStay => \A b \in Agents : Label(b)' = k => Label(b) = k
  BY <1>1 DEF LabelsStay
<1>5. CASE Waits
  BY <1>3, <1>4, <1>5 DEF Waits, Counted, StoredMachinesStay
<1>6. ASSUME NEW m \in Machines, Stops(m) PROVE Goal
  BY <1>2, <1>3, <1>4, <1>6 DEF Stops, Counted, StoredMachinesStay
<1>7. ASSUME NEW m \in Machines, Applies(m) PROVE Goal
  BY <1>2, <1>3, <1>7 DEF Applies, Label
<1>8. ASSUME NEW m \in Machines, Deletes(m) PROVE Goal
  <2>1. /\ stale = 0 /\ work'[k] = work[k] /\ \A b \in Agents : Label(b)' = Label(b)
        /\ \/ machines'[k].stored = machines[k].stored
           \/ ~machines'[k].stored.exists
           \/ /\ machines'[k].stored.finalizer = machines[k].stored.finalizer
              /\ machines'[k].stored.exists = machines[k].stored.exists
    BY <1>8 DEF Deletes, Label
  <2> QED
    BY <1>3, <2>1
<1>9. ASSUME NEW m \in Machines,
             ReconcileAddFinalizer(m) \/ ReconcileForget(m) \/ ReconcileAdopt(m)
      PROVE  Goal
  <2>1. PICK v \in Machine :
            /\ Decides(m, v)
            /\ \/ v.ref = machines[m].cached.ref /\ ~machines[m].cached.finalizer
               \/ v.ref = machines[m].cached.ref /\ machines[m].cached.ref = None
               \/ /\ machines[m].cached.ref = None
                  /\ machines[m].cached.finalizer /\ v.finalizer
                  /\ Labelled(m) = {v.ref}
    BY <1>1, <1>9, DecisionEffect
  <2>2. \A b \in Agents : Label(b)' = Label(b)
    BY <1>1, <1>9, DecisionEffect DEF Label
  <2>3. /\ machines' = machines /\ machines[m].cached = machines[m].stored /\ stale = 0
        /\ \A b \in Agents : agents[b].cached = agents[b].stored
    BY <1>1, <2>1, CurrentCopies DEF Decides, Counted
  <2>4. CASE k # m
    BY <1>3, <2>1, <2>2, <2>3, <2>4 DEF Decides
  <2>5. CASE k = m
    <3>1. work'[k].new = v /\ work'[k].old = machines[m].stored
      BY <2>1, <2>3, <2>5 DEF Decides
    <3>2. /\ machines[m].stored.finalizer /\ v.finalizer
          /\ Labelled(m) = {v.ref}
      BY <1>2, <2>1, <2>3, <3>1
    <3>3. \A b \in Agents : Label(b) = m => b = v.ref
      BY <1>1, <2>3, <3>2 DEF Labelled, Label, Unnamed
    <3> QED
      BY <2>2, <2>3, <2>5, <3>1, <3>2, <3>3
  <2> QED
    BY <2>4, <2>5
<1>10. ASSUME NEW m \in Machines, NEW a \in Agents, ReconcileClaim(m, a)
       PROVE  Goal
  <2>1. /\ Decides(m, SetRef(machines[m].cached, a))
        /\ Label(a)' = m /\ \A x \in Agents : x # a => Label(x)' = Label(x)
        /\ machines[m].cached.finalizer
        /\ \A x \in Agents : agents[x].stored.exists => Label(x) # m
    BY <1>1, <1>10, ClaimEffect
  <2>2. machines[m].cached = machines[m].stored /\ machines' = machines /\ stale = 0
    BY <1>1, <2>1, CurrentCopies DEF Decides, Counted
  <2>3. CASE k = m
    <3>1. \A x \in Agents : Label(x)' = m => x = a
      BY <1>1, <2>1 DEF Unnamed
    <3>2. /\ work'[k].new = SetRef(machines[m].stored, a)
          /\ work'[k].old = machines[m].stored
      BY <2>1, <2>2, <2>3 DEF Decides
    <3> QED
      BY <2>1, <2>2, <2>3, <3>1, <3>2 DEF SetRef
  <2>4. CASE k # m
    <3>1. work'[k] = work[k] /\ \A x \in Agents : Label(x)' = k => Label(x) = k
      BY <2>1, <2>4 DEF Decides
    <3> QED
      BY <1>3, <2>2, <3>1
  <2> QED
    BY <2>3, <2>4
<1>11. ASSUME NEW m \in Machines, ReconcileRelease(m) PROVE Goal
  <2>1. PICK a \in Agents :
            Label(a)' = None /\ \A x \in Agents : x # a => Label(x)' = Label(x)
    BY <1>1, <1>11, ReleaseEffect
  <2>2. Decides(m, SetFinalizer(machines[m].cached, FALSE))
    BY <1>1, <1>11, ReleaseEffect
  <2>3. k # m
    BY <1>2, <2>2 DEF Decides, SetFinalizer
  <2>4. \A x \in Agents : Label(x)' = k => Label(x) = k
    BY <1>1, <2>1
  <2> QED
    BY <1>3, <2>2, <2>3, <2>4 DEF Decides, Counted
<1>12. ~Restart
  BY <1>1, <1>2, RestartEffect
<1>13. Kind
  BY <1>1, StepKind
<1>14. Goal
  BY <1>5, <1>6, <1>7, <1>8, <1>9, <1>10, <1>11, <1>12, <1>13 DEF Kind
<1> QED
  BY <1>14

LEMMA ClaimsInv ==
    ASSUME CInv, [Next]_vars
    PROVE  ClaimKept'
<1>1. IInv /\ ClaimKept /\ BringKept /\ RefKept /\ Unnamed /\ \A m \in Machines : m # None
  BY NoneAssumption DEF CInv
<1> SUFFICES ASSUME stale' = 0, NEW k \in Machines, NEW b \in Agents, Label(b)' = k,
                    k \notin lost'
             PROVE  /\ machines'[k].stored.exists /\ machines'[k].stored.finalizer
                    /\ IF work'[k].busy
                         THEN work'[k].new.ref = b /\ work'[k].new.finalizer
                              /\ work'[k].old.finalizer
                         ELSE Ref(k)' = b
  BY DEF ClaimKept
<1> DEFINE Kept ==
        /\ machines[k].stored.exists /\ machines[k].stored.finalizer
        /\ IF work[k].busy
             THEN work[k].new.ref = b /\ work[k].new.finalizer /\ work[k].old.finalizer
             ELSE Ref(k) = b
<1>2. ASSUME stale = 0, Label(b) = k, k \notin lost PROVE Kept
  BY <1>1, <1>2 DEF ClaimKept
<1>3. LabelsStay => Label(b) = k
  BY <1>1 DEF LabelsStay
\* A reconcile of k that brings no AgentRef ends without its patch.
<1>4. ASSUME stale = 0, Label(b) = k, k \notin lost, ~BringsRef(k)
      PROVE  machines[k].stored.exists /\ machines[k].stored.finalizer /\ Ref(k) = b
  BY <1>1, <1>2, <1>4 DEF BringsRef, RefKept
<1>5. CASE Waits
  <2>1. Kept
    BY <1>2, <1>3, <1>5 DEF Waits, Counted
  <2> QED
    BY <1>5, <2>1 DEF Waits, StoredMachinesStay, Ref
<1>6. ASSUME NEW m \in Machines, Stops(m)
      PROVE  /\ machines'[k].stored = machines[k].stored
             /\ \/ Kept /\ work'[k] = work[k]
                \/ /\ ~work'[k].busy /\ machines[k].stored.exists
                   /\ machines[k].stored.finalizer /\ Ref(k) = b
  <2>1. stale = 0 /\ Label(b) = k /\ machines'[k].stored = machines[k].stored
    BY <1>3, <1>6 DEF Stops, Counted, StoredMachinesStay
  <2>2. CASE k = m
    <3>1. k \notin lost /\ ~BringsRef(k) /\ ~work'[k].busy
      BY <1>6, <2>2 DEF Stops
    <3> QED
      BY <1>4, <2>1, <3>1
  <2>3. CASE k # m
    <3>1. k \notin lost /\ work'[k] = work[k]
      BY <1>6, <2>3 DEF Stops
    <3> QED
      BY <1>2, <2>1, <3>1
  <2> QED
    BY <2>2, <2>3
<1>7. ASSUME NEW m \in Machines, Applies(m)
      PROVE  /\ machines'[k].stored.exists /\ machines'[k].stored.finalizer
             /\ IF work'[k].busy
                  THEN work'[k].new.ref = b /\ work'[k].new.finalizer /\ work'[k].old.finalizer
                  ELSE Ref(k)' = b
  <2>1. Label(b) = k /\ stale = 0
    BY <1>7 DEF Applies, Label
  <2>2. CASE k # m
    <3>1. k \notin lost
      BY <1>7, <2>2 DEF Applies
    <3>2. Kept
      BY <1>2, <2>1, <3>1
    <3> QED
      BY <1>7, <2>2, <3>2 DEF Applies, Ref
  <2>3. CASE k = m
    <3>1. /\ work[m].new.ref = b /\ work[m].new.finalizer /\ work[m].old.finalizer
          /\ machines[m].stored.exists /\ machines[m].stored.finalizer
      <4>1. CASE BringsRef(m)
        BY <1>1, <1>7, <2>1, <2>3, <4>1 DEF BringKept, Applies
      <4>2. CASE ~BringsRef(m)
        <5>1. m \notin lost /\ work[m].busy
          BY <1>7, <2>3, <4>2 DEF Applies
        <5> QED
          BY <1>2, <2>1, <2>3, <5>1
      <4> QED
        BY <4>1, <4>2
    <3>2. work[m].new.finalizer = work[m].old.finalizer
      <4>1. work[m].new \in Machine /\ work[m].old \in Machine
        BY <1>1 DEF IInv, TypeOK, Work
      <4> QED
        BY <3>1, <4>1 DEF Machine
    <3>3. Patched(m) = SetRef(machines[m].stored, b)
      BY <3>1, <3>2 DEF Patched
    <3> QED
      BY <1>7, <2>3, <3>1, <3>3 DEF Applies, SetRef, Ref
  <2> QED
    BY <2>2, <2>3
<1>8. ASSUME NEW m \in Machines, Deletes(m)
      PROVE  /\ Kept /\ work' = work
             /\ machines'[k].stored.exists /\ machines'[k].stored.finalizer /\ Ref(k)' = Ref(k)
  <2>1. Kept /\ work' = work
    BY <1>2, <1>8 DEF Deletes, Label
  <2> QED
    BY <1>8, <2>1 DEF Deletes, Ref
<1>9. ASSUME NEW m \in Machines,
             ReconcileAddFinalizer(m) \/ ReconcileForget(m) \/ ReconcileAdopt(m)
      PROVE  /\ machines' = machines /\ Kept
             /\ \/ work'[k] = work[k]
                \/ /\ work'[k].new.ref = b /\ work'[k].new.finalizer /\ work'[k].old.finalizer
                   /\ work'[k].busy
  <2>1. PICK v \in Machine :
            /\ Decides(m, v)
            /\ \/ v.ref = machines[m].cached.ref /\ ~machines[m].cached.finalizer
               \/ v.ref = machines[m].cached.ref /\ machines[m].cached.ref = None
               \/ /\ machines[m].cached.ref = None
                  /\ machines[m].cached.finalizer /\ v.finalizer
                  /\ Labelled(m) = {v.ref}
    BY <1>1, <1>9, DecisionEffect
  <2>2. Label(b) = k
    BY <1>1, <1>9, DecisionEffect DEF Label
  <2>3. stale = 0 /\ k \notin lost /\ machines' = machines
    BY <2>1 DEF Decides, Counted
  <2>4. Kept
    BY <1>2, <2>2, <2>3
  <2>5. machines[m].cached = machines[m].stored /\ ~work[m].busy
    BY <1>1, <2>1, CurrentCopies DEF Decides
  <2>6. k # m
    <3>1. ~machines[m].stored.finalizer \/ Ref(m) = None
      BY <2>1, <2>5 DEF Ref
    <3>2. b # None
      BY NoneAssumption
    <3> QED
      BY <2>4, <2>5, <3>1, <3>2
  <2> QED
    BY <2>1, <2>3, <2>4, <2>6 DEF Decides
<1>10. ASSUME NEW m \in Machines, NEW a \in Agents, ReconcileClaim(m, a)
      PROVE  /\ machines'[k].stored.exists /\ machines'[k].stored.finalizer
             /\ IF work'[k].busy
                  THEN work'[k].new.ref = b /\ work'[k].new.finalizer /\ work'[k].old.finalizer
                  ELSE Ref(k)' = b
  <2>1. /\ Decides(m, SetRef(machines[m].cached, a)) /\ k \notin lost
        /\ Label(a)' = m /\ \A x \in Agents : x # a => Label(x)' = Label(x)
        /\ machines[m].cached.exists /\ machines[m].cached.finalizer
        /\ \A x \in Agents : agents[x].stored.exists => Label(x) # m
    BY <1>1, <1>10, ClaimEffect DEF Decides
  <2>2. machines[m].cached = machines[m].stored /\ machines' = machines /\ stale = 0
    BY <1>1, <2>1, CurrentCopies DEF Decides, Counted
  <2>3. CASE k = m
    <3>1. b = a
      BY <1>1, <2>1, <2>3 DEF Unnamed
    <3> QED
      BY <2>1, <2>2, <2>3, <3>1 DEF Decides, SetRef
  <2>4. CASE k # m
    <3>1. b # a /\ Label(b) = k
      BY <2>1, <2>4
    <3>2. Kept
      BY <1>2, <2>1, <2>2, <3>1
    <3> QED
      BY <2>1, <2>2, <2>4, <3>2 DEF Decides, Ref
  <2> QED
    BY <2>3, <2>4
<1>11. ASSUME NEW m \in Machines, ReconcileRelease(m)
       PROVE  Kept /\ machines' = machines /\ work'[k] = work[k]
  <2>1. PICK a \in Agents :
            /\ a = machines[m].cached.ref
            /\ Label(a)' = None /\ \A x \in Agents : x # a => Label(x)' = Label(x)
    BY <1>1, <1>11, ReleaseEffect
  <2>2. \E v : Decides(m, v)
    BY <1>1, <1>11, ReleaseEffect
  <2>3. /\ machines[m].cached = machines[m].stored /\ ~work[m].busy /\ stale = 0
        /\ machines' = machines /\ \A x \in Machines : x # m => work'[x] = work[x]
        /\ k \notin lost
    BY <1>1, <2>2, CurrentCopies DEF Decides, Counted
  <2>4. b # a /\ Label(b) = k
    BY <1>1, <2>1
  <2>5. Kept
    BY <1>2, <2>3, <2>4
  <2>6. k # m
    BY <2>1, <2>3, <2>4, <2>5 DEF Ref
  <2> QED
    BY <2>3, <2>5, <2>6
<1>12. CASE Restart
  <2>1. /\ Label(b) = k /\ stale = 0 /\ k \notin lost /\ ~BringsRef(k)
        /\ machines'[k].stored = machines[k].stored /\ ~work'[k].busy
    BY <1>1, <1>3, <1>12, RestartEffect DEF StoredMachinesStay
  <2> QED
    BY <1>4, <2>1 DEF Ref
<1>13. Kind
  BY <1>1, StepKind
<1> QED
  BY <1>5, <1>6, <1>7, <1>8, <1>9, <1>10, <1>11, <1>12, <1>13 DEF Kind, Ref

LEMMA CurrentInvariant == Spec => []CInv
<1>1. Init => CInv
  <2> SUFFICES ASSUME Init PROVE CInv
    OBVIOUS
  <2>1. IInv
    BY InitInv
  <2>2. \A a \in Agents : Label(a) = None
    BY StoredVersion DEF Init, Label, NewAgent
  <2>3. \A m \in Machines : ~work[m].busy /\ m # None
    BY NoneAssumption DEF Init, Rest
  <2> QED
    BY <2>1, <2>2, <2>3 DEF CInv, Unnamed, OneAgentPerMachine, RefKept, BringKept,
                             BringsRef, ClaimKept
<1>2. CInv /\ [Next]_vars => CInv'
  BY NextInv, LabelsInv, RefInv, BringInv, ClaimsInv DEF CInv
<1> QED
  BY <1>1, <1>2, PTL DEF Spec

\* A machine never labels two agents while the copies read were current: a claim
\* whose AgentRef was not stored, because of a crash or a failed patch, is found
\* again by its label.
THEOREM OneAgentClaimed == Spec => []OneAgentPerMachine
<1>1. CInv => OneAgentPerMachine
  BY DEF CInv
<1> QED
  BY <1>1, CurrentInvariant, PTL

\* While the copies read were current, no crash, failed call or deletion leaves an agent
\* reserved for a machine that has gone, but one: the machine went while the AgentRef of
\* its claim was not stored.
THEOREM ClaimsReturned == Spec => []NoLeakedClaim
<1>1. CInv => NoLeakedClaim
  <2> SUFFICES ASSUME CInv, stale = 0, NEW a \in Agents, Label(a) # None, Label(a) \notin lost
               PROVE  machines[Label(a)].stored.exists
    BY DEF NoLeakedClaim
  <2>1. Label(a) \in Machines
    BY DEF CInv, IInv, TypeOK, Object, Agent, Label
  <2> QED
    BY <2>1 DEF CInv, ClaimKept
<1> QED
  BY <1>1, CurrentInvariant, PTL

\* A machine's AgentRef does not change once it is set, while the copies read were
\* current: no webhook guards the status, the controller itself does.
THEOREM RefNeverChanges == Spec => AgentRefImmutable
<1> DEFINE Fixed ==
        \A m \in Machines :
            stale' = 0 /\ Ref(m) # None /\ machines[m].stored.exists /\ machines'[m].stored.exists
            => Ref(m)' = Ref(m)
<1>1. CInv /\ [Next]_vars => [Fixed]_vars
  <2> SUFFICES ASSUME CInv, [Next]_vars, NEW k \in Machines, stale' = 0, Ref(k) # None,
                      machines[k].stored.exists, machines'[k].stored.exists
               PROVE  Ref(k)' = Ref(k)
    OBVIOUS
  <2>1. IInv /\ RefKept /\ Kind
    BY StepKind DEF CInv
  <2>2. CASE Waits \/ (\E m \in Machines : Stops(m)) \/ Restart
    <3>1. StoredMachinesStay
      BY <2>1, <2>2, RestartEffect DEF Waits, Stops
    <3> QED
      BY <3>1 DEF StoredMachinesStay, Ref
  <2>3. ASSUME NEW m \in Machines, Deletes(m) PROVE Ref(k)' = Ref(k)
    BY <2>3 DEF Deletes, Ref
  <2>4. ASSUME NEW m \in Machines, Applies(m) PROVE Ref(k)' = Ref(k)
    <3>1. CASE k # m
      BY <2>4, <3>1 DEF Applies, Ref
    <3>2. CASE k = m
      <4>1. /\ machines'[m].stored = Patched(m) /\ ~NoMachine.exists
            /\ work[m].new.ref = Ref(m)
        BY <2>1, <2>4, <3>2 DEF Applies, RefKept, NoMachine
      <4>2. /\ SetFinalizer(machines[m].stored, TRUE).ref = Ref(m)
            /\ SetRef(machines[m].stored, Ref(m)).ref = Ref(m)
        BY DEF SetFinalizer, SetRef, Ref
      <4> QED
        BY <3>2, <4>1, <4>2 DEF Patched, Ref
    <3> QED
      BY <3>1, <3>2
  <2>5. ASSUME NEW m \in Machines,
               \/ ReconcileAddFinalizer(m) \/ ReconcileForget(m) \/ ReconcileAdopt(m)
               \/ ReconcileRelease(m) \/ \E a \in Agents : ReconcileClaim(m, a)
        PROVE  UNCHANGED machines
    BY <2>5 DEF ReconcileAddFinalizer, ReconcileForget, ReconcileAdopt, ReconcileRelease,
                ReconcileClaim, Begin
  <2>6. ASSUME UNCHANGED machines PROVE Ref(k)' = Ref(k)
    BY <2>6 DEF Ref
  <2> QED
    BY <2>1, <2>2, <2>3, <2>4, <2>5, <2>6 DEF Kind
<1>2. Spec => [][Fixed]_vars
  BY <1>1, CurrentInvariant, PTL DEF Spec
<1> QED
  BY <1>2 DEF AgentRefImmutable
=============================================================================
