----------------------- MODULE ConcurrencyGateProofs ------------------------
(***************************************************************************)
(* Proofs about ConcurrencyGate for any finite number of runs, and any     *)
(* sets of jobs and controller processes.                                  *)
(***************************************************************************)
EXTENDS ConcurrencyGate, FiniteSetTheorems, WellFoundedInduction, TLAPS

USE MembersAssumption, IncidentsAssumption

-----------------------------------------------------------------------------
(* The operators of the gate.                                              *)

(* A non-empty set of numbers has a least element.                         *)
LEMMA LeastNumber ==
    ASSUME NEW S, S \subseteq Nat, S # {}
    PROVE  \E x \in S : \A y \in S : x <= y
<1>1. PICK x \in S : \A y \in S : ~ (<<y, x>> \in OpToRel(<, Nat))
  BY NatLessThanWellFounded, WFMin
<1>2. \A y \in S : x <= y
  <2>1. ASSUME NEW y \in S, y < x PROVE FALSE
    BY <1>1, <2>1, Zenon DEF OpToRel
  <2> QED BY <2>1
<1> QED BY <1>2

(* sortConcurrencyCandidates: a non-empty list of runs has a first and a   *)
(* last entry.                                                             *)
LEMMA OldestIsOne ==
    ASSUME NEW S, S \subseteq Runs, S # {}
    PROVE  Oldest(S) \in S
<1> DEFINE A == {Age[r] : r \in S}
<1>1. A \subseteq Nat /\ A # {}
  BY AgeAssumption, FS_CardinalityType
<1>2. PICK x \in A : \A y \in A : x <= y
  BY <1>1, LeastNumber
<1>3. \E r \in S : \A q \in S : Age[r] <= Age[q]
  BY <1>2
<1> QED BY <1>3 DEF Oldest

LEMMA NewestIsOne ==
    ASSUME NEW S, S \subseteq Runs, S # {}
    PROVE  Newest(S) \in S
<1> DEFINE n == Cardinality(Runs)
           A == {n - Age[r] : r \in S}
<1>0. n \in Nat
  BY AgeAssumption, FS_CardinalityType
<1>1. A \subseteq Nat /\ A # {}
  BY <1>0, AgeAssumption
<1>2. PICK x \in A : \A y \in A : x <= y
  BY <1>1, LeastNumber
<1>3. PICK r \in S : x = n - Age[r]
  OBVIOUS
<1>4. \A q \in S : Age[q] <= Age[r]
  BY <1>0, <1>2, <1>3, AgeAssumption
<1> QED BY <1>4 DEF Newest

(* The Lease the gate writes is a Lease.                                   *)
LEMMA SettleType ==
    ASSUME NEW l \in Lease
    PROVE  Settle(l) \in Lease /\ Settle(l).exists
BY DEF Settle, Lease

LEMMA GateType ==
    ASSUME NEW l \in Lease, NEW m \in Members, NEW o \in Object
    PROVE  /\ Gate(l, m, o) \in Plan
           /\ Gate(l, m, o).lease.exists
<1> DEFINE s == Settle(l)
<1>1. s \in Lease /\ s.exists
  BY SettleType
<1> HIDE DEF s
<1>2. Settle(l) = s BY DEF s
<1> QED BY <1>1, <1>2 DEF Gate, Outcome, Plan, Lease, GateState, Preempts

(* What the gate decides about the member that asks.                       *)
LEMMA GateResult ==
    ASSUME NEW l \in Lease, NEW m \in Members, NEW o \in Object
    PROVE  LET p == Gate(l, m, o) IN
           /\ p.state = "acquired" => p.lease.holder = m
           /\ SuccessorOf(p) \in {"displace", "preempt"} => p.state # "acquired"
           /\ SuccessorOf(p) = "displace" => p.displaced \in Members
           /\ SuccessorOf(p) = "preempt" => p.cancelOwner \in Members
<1> DEFINE s == Settle(l)
<1>1. s \in Lease
  BY SettleType
<1> HIDE DEF s
<1>2. Settle(l) = s BY DEF s
<1> QED BY <1>1, <1>2 DEF Gate, Outcome, Lease, SuccessorOf

LEMMA BootstrapType ==
    ASSUME NEW m \in Members
    PROVE  Bootstrap(m) \in Lease /\ Bootstrap(m).exists
<1> DEFINE waiting == IF Waiting = {} THEN None ELSE Newest(Waiting)
<1>1. waiting \in Members \cup {None}
  BY NewestIsOne DEF Waiting, Members
<1>2. Planned # {} => Oldest(Planned) \in Members
  BY OldestIsOne DEF Planned, Members
<1> QED BY <1>1, <1>2 DEF Bootstrap, Lease

LEMMA ReleasedType ==
    ASSUME NEW l \in Lease, NEW m \in Members, l.exists
    PROVE  /\ Released(l, m) \in Lease
           /\ Released(l, m).exists \/ Released(l, m) = NoLease
BY DEF Released, Lease, NoLease

LEMMA ObjectFields ==
    ASSUME NEW o \in Object
    PROVE  /\ \A p \in Phase : /\ [o EXCEPT !.phase = p] \in Object
                              /\ [o EXCEPT !.phase = p].phase = p
                              /\ [o EXCEPT !.phase = p].cancel = o.cancel
           /\ [o EXCEPT !.cancel = TRUE] \in Object
           /\ [o EXCEPT !.cancel = TRUE].phase = o.phase
           /\ [o EXCEPT !.cancel = TRUE].cancel
<1>0. \A b \in BOOLEAN : [o EXCEPT !.cancel = b] = [phase |-> o.phase, cancel |-> b]
  BY DEF Object
<1>1. [o EXCEPT !.cancel = TRUE] = [phase |-> o.phase, cancel |-> TRUE]
  BY <1>0, Zenon
<1>2. \A p \in Phase : [o EXCEPT !.phase = p] = [phase |-> p, cancel |-> o.cancel]
  BY DEF Object
<1>3. o.phase \in Phase /\ o.cancel \in BOOLEAN
  BY DEF Object
<1> QED BY <1>1, <1>2, <1>3, Zenon DEF Object

LEMMA CancelledType ==
    ASSUME NEW m \in Members, obj[m] \in Object
    PROVE  Cancelled(m) \in Object
<1>1. "terminal" \in Phase BY DEF Phase
<1> QED BY <1>1, ObjectFields DEF Cancelled
LEMMA CancelledPhase ==
    ASSUME NEW m \in Members, obj[m] \in Object
    PROVE  /\ Terminal(obj[m]) => Cancelled(m) = obj[m]
           /\ \/ Cancelled(m).phase = obj[m].phase
              \/ Cancelled(m).phase = "terminal" /\ work[m] = "none"
           /\ \/ Terminal(obj[m])
              \/ Cancelled(m).phase = "terminal"
              \/ Cancelled(m).phase = obj[m].phase /\ Cancelled(m).cancel
<1>1. "terminal" \in Phase BY DEF Phase
<1>2. CASE Terminal(obj[m])
  BY <1>2 DEF Cancelled
<1>3. CASE ~Terminal(obj[m]) /\ m \in Jobs /\ work[m] = "none"
  BY <1>1, <1>3, ObjectFields DEF Cancelled
<1>4. CASE ~Terminal(obj[m]) /\ ~(m \in Jobs /\ work[m] = "none")
  <2>1. Cancelled(m) = [obj[m] EXCEPT !.cancel = TRUE]
    BY <1>4 DEF Cancelled
  <2>2. Cancelled(m).phase = obj[m].phase /\ Cancelled(m).cancel
    BY <2>1, ObjectFields, SMT
  <2> QED BY <1>4, <2>2
<1> QED BY <1>2, <1>3, <1>4

-----------------------------------------------------------------------------
(* Type correctness, with the agreement of a reconcile's registers.        *)

Control == TypeOK /\ \A w \in Workers : Registers(w)

LEMMA Defaults ==
    /\ NoObject \in Object /\ NoLease \in Lease /\ NoPlan \in Plan
    /\ "idle" \in PC
    /\ \A l \in Lease : /\ [NoPlan EXCEPT !.lease = l] \in Plan
                        /\ [NoPlan EXCEPT !.lease = l].lease = l
BY DEF NoObject, Object, Phase, NoLease, Lease, NoPlan, Plan, GateState, PC

LEMMA ControlInit == Init => Control
<1> SUFFICES ASSUME Init PROVE Control
  OBVIOUS
<1>1. obj \in [Members -> Object]
  BY DEF Init, Object, Phase
<1>2. TypeOK
  BY <1>1, Defaults DEF Init, TypeOK, Work, Members
<1>3. \A w \in Workers : Registers(w)
  BY DEF Init, Registers
<1> QED BY <1>2, <1>3 DEF Control

(* A reconcile keeps its registers while another one makes a step.         *)
LEMMA OtherWorker ==
    ASSUME NEW v \in Workers, Registers(v),
           pc'[v] = pc[v], who'[v] = who[v], snap'[v] = snap[v],
           seen'[v] = seen[v], plan'[v] = plan[v]
    PROVE  Registers(v)'
BY DEF Registers, SuccessorOf

LEMMA EndReconcileControl ==
    ASSUME Control, NEW w \in Workers, EndReconcile(w)
    PROVE  /\ pc' \in [Workers -> PC]
           /\ who' \in [Workers -> Members \cup {None}]
           /\ snap' \in [Workers -> Object]
           /\ seen' \in [Workers -> Lease]
           /\ fresh' \in [Workers -> BOOLEAN]
           /\ plan' \in [Workers -> Plan]
           /\ pc' = [pc EXCEPT ![w] = "idle"]
           /\ \A v \in Workers : Registers(v)'
<1>1. /\ pc' = [pc EXCEPT ![w] = "idle"]
      /\ pc' \in [Workers -> PC]
      /\ who' \in [Workers -> Members \cup {None}]
      /\ snap' \in [Workers -> Object]
      /\ seen' \in [Workers -> Lease]
      /\ plan' \in [Workers -> Plan]
  BY Defaults DEF Control, TypeOK, EndReconcile, Goto
<1>2. fresh' \in [Workers -> BOOLEAN]
  BY DEF Control, TypeOK, EndReconcile
<1>3. \A v \in Workers : Registers(v)'
  BY <1>1 DEF Control, TypeOK, EndReconcile, Goto, Registers
<1> QED BY <1>1, <1>2, <1>3

LEMMA WriteMemberType ==
    ASSUME TypeOK, NEW w \in Workers, NEW o \in Object, WriteMember(w, o)
    PROVE  obj' \in [Members -> Object]
BY DEF TypeOK, WriteMember

LEMMA ControlPersistDecision ==
    ASSUME Control, NEW w \in Workers, PersistDecision(w)
    PROVE  Control'
<1> DEFINE decided == [snap[w] EXCEPT !.phase = "decided"]
<1>0. snap[w] \in Object /\ "decided" \in Phase
  BY DEF Control, TypeOK, Phase
<1>1. decided \in Object /\ decided.phase = "decided"
  BY <1>0, ObjectFields, Zenon
<1>2. obj' \in [Members -> Object]
  BY <1>1, WriteMemberType DEF Control, PersistDecision
<1>3. CASE EndReconcile(w)
  BY <1>2, <1>3, EndReconcileControl DEF Control, TypeOK, PersistDecision
<1>4. CASE /\ snap' = [snap EXCEPT ![w] = decided]
           /\ pc' = [pc EXCEPT ![w] = "get"]
           /\ UNCHANGED <<who, seen, fresh, plan>>
  <2> HIDE DEF decided
  <2>1. TypeOK'
    BY <1>1, <1>2, <1>4 DEF Control, TypeOK, PersistDecision, PC
  <2>2. \A v \in Workers : Registers(v)'
    BY <1>1, <1>4 DEF Control, TypeOK, Registers, PersistDecision
  <2> QED BY <2>1, <2>2 DEF Control
<1> QED BY <1>3, <1>4 DEF PersistDecision, Goto

LEMMA ControlGetLease ==
    ASSUME Control, NEW w \in Workers, GetLease(w)
    PROVE  Control'
<1>1. TypeOK'
  BY DEF Control, TypeOK, Registers, GetLease, Goto, PC
<1>2. CASE lease.exists
  BY <1>1, <1>2 DEF Control, TypeOK, Registers, GetLease, Goto
<1>3. CASE ~lease.exists
  BY <1>1, <1>3 DEF Control, TypeOK, Registers, GetLease, Goto
<1> QED BY <1>2, <1>3

LEMMA ControlListRuns ==
    ASSUME Control, NEW w \in Workers, ListRuns(w)
    PROVE  Control'
<1> DEFINE b == Bootstrap(who[w])
<1>1. b \in Lease /\ b.exists
  BY BootstrapType DEF Control, TypeOK, Registers, ListRuns
<1> DEFINE p == [NoPlan EXCEPT !.lease = b]
<1>2. p \in Plan /\ p.lease.exists
  BY <1>1, Defaults
<1>3. plan' = [plan EXCEPT ![w] = p]
  BY DEF ListRuns
<1> HIDE DEF b, p
<1>4. TypeOK'
  BY <1>2, <1>3 DEF Control, TypeOK, ListRuns, Goto, PC
<1>5. ASSUME NEW v \in Workers PROVE Registers(v)'
  <2>1. CASE v = w
    BY <1>2, <1>3, <2>1 DEF Control, TypeOK, Registers, ListRuns, Goto
  <2>2. CASE v # w
    BY <1>3, <2>2, OtherWorker DEF Control, TypeOK, ListRuns, Goto
  <2> QED BY <2>1, <2>2
<1> QED BY <1>4, <1>5 DEF Control

LEMMA ControlCreateLease ==
    ASSUME Control, NEW w \in Workers, CreateLease(w)
    PROVE  Control'
<1>1. plan[w].lease \in Lease
  BY DEF Control, TypeOK, Plan
<1>0. lease' \in Lease /\ fresh' \in [Workers -> BOOLEAN]
  BY <1>1 DEF Control, TypeOK, CreateLease, WriteLease
<1>2. TypeOK'
  BY <1>0, Defaults DEF Control, TypeOK, CreateLease, Goto, PC
<1>3. \A v \in Workers : Registers(v)'
  BY DEF Control, TypeOK, Registers, CreateLease, Goto
<1> QED BY <1>2, <1>3 DEF Control

LEMMA ControlCheckGate ==
    ASSUME Control, NEW w \in Workers, CheckGate(w)
    PROVE  Control'
<1> DEFINE p == Gate(seen[w], who[w], snap[w])
<1>1. /\ p \in Plan /\ p.lease.exists
      /\ p.state = "acquired" => p.lease.holder = who[w]
      /\ SuccessorOf(p) \in {"displace", "preempt"} => p.state # "acquired"
      /\ SuccessorOf(p) = "displace" => p.displaced \in Members
      /\ SuccessorOf(p) = "preempt" => p.cancelOwner \in Members
  BY GateType, GateResult DEF Control, TypeOK, Registers, CheckGate
<1>2. SuccessorOf(p) \in {"displace", "preempt", "record"}
  BY DEF SuccessorOf
<1>3. plan' = [plan EXCEPT ![w] = p] /\ pc' \in {[pc EXCEPT ![w] = "update"], [pc EXCEPT ![w] = SuccessorOf(p)]}
  BY DEF CheckGate, Goto
<1> HIDE DEF p
<1>4. TypeOK'
  BY <1>1, <1>2, <1>3, Defaults DEF Control, TypeOK, CheckGate, PC
<1>5. \A v \in Workers : Registers(v)'
  BY <1>1, <1>2, <1>3 DEF Control, TypeOK, Registers, CheckGate
<1> QED BY <1>4, <1>5 DEF Control

LEMMA ControlUpdateLease ==
    ASSUME Control, NEW w \in Workers, UpdateLease(w)
    PROVE  Control'
<1>1. plan[w].lease \in Lease
  BY DEF Control, TypeOK, Plan
<1>2. SuccessorOf(plan[w]) \in {"displace", "preempt", "record"}
  BY DEF SuccessorOf
<1>3. CASE fresh[w]
  <2>0. lease' \in Lease /\ fresh' \in [Workers -> BOOLEAN]
    BY <1>1, <1>3 DEF UpdateLease, WriteLease
  <2>1. TypeOK'
    BY <1>2, <1>3, <2>0 DEF Control, TypeOK, UpdateLease, Goto, PC
  <2>2. \A v \in Workers : Registers(v)'
    <3>1. plan[w].displaced \in Members \cup {None} /\ plan[w].cancelOwner \in Members \cup {None}
      BY DEF Control, TypeOK, Plan
    <3>2. plan[w].state \in {"acquired", "waiting", "superseded"}
      BY DEF Control, TypeOK, Plan, GateState
    <3>3. pc' = [pc EXCEPT ![w] = SuccessorOf(plan[w])] /\ UNCHANGED <<who, snap, seen, plan>>
      BY <1>3 DEF UpdateLease, Goto
    <3>4. ASSUME NEW v \in Workers PROVE Registers(v)'
      <4>1. CASE v = w
        BY <3>1, <3>2, <3>3, <4>1 DEF Control, TypeOK, Registers, UpdateLease, SuccessorOf
      <4>2. CASE v # w
        BY <3>3, <4>2, OtherWorker DEF Control, TypeOK
      <4> QED BY <4>1, <4>2
    <3> QED BY <3>4
  <2> QED BY <2>1, <2>2 DEF Control
<1>4. CASE ~fresh[w]
  <2>1. TypeOK'
    BY <1>4, Defaults DEF Control, TypeOK, UpdateLease, Goto, PC
  <2>2. \A v \in Workers : Registers(v)'
    BY <1>4 DEF Control, TypeOK, Registers, UpdateLease, Goto
  <2> QED BY <2>1, <2>2 DEF Control
<1> QED BY <1>3, <1>4

LEMMA ControlCancelDisplaced ==
    ASSUME Control, NEW w \in Workers, CancelDisplaced(w)
    PROVE  Control'
<1>1. plan[w].displaced \in Members
  BY DEF Control, Registers, CancelDisplaced
<1>2. Cancelled(plan[w].displaced) \in Object
  BY <1>1, CancelledType DEF Control, TypeOK
<1>3. TypeOK'
  BY <1>1, <1>2 DEF Control, TypeOK, CancelDisplaced, Goto, PC
<1>4. \A v \in Workers : Registers(v)'
  BY DEF Plan, Control, TypeOK, Registers, CancelDisplaced, Goto
<1> QED BY <1>3, <1>4 DEF Control

LEMMA ControlCancelOwner ==
    ASSUME Control, NEW w \in Workers, CancelOwner(w)
    PROVE  Control'
<1>1. plan[w].cancelOwner \in Members
  BY DEF Control, Registers, CancelOwner
<1>2. Cancelled(plan[w].cancelOwner) \in Object
  BY <1>1, CancelledType DEF Control, TypeOK
<1>3. TypeOK'
  BY <1>1, <1>2 DEF Control, TypeOK, CancelOwner, Goto, PC
<1>4. \A v \in Workers : Registers(v)'
  BY DEF Control, TypeOK, Registers, CancelOwner, Goto
<1> QED BY <1>3, <1>4 DEF Control

LEMMA ControlRecordOutcome ==
    ASSUME Control, NEW w \in Workers, RecordOutcome(w)
    PROVE  Control'
<1> DEFINE o == Recorded(who[w], snap[w], plan[w].state)
<1>1. plan[w].state \in GateState /\ snap[w] \in Object
  BY DEF Control, TypeOK, Plan
<1>2. o \in Object
  BY <1>1, ObjectFields DEF Recorded, GateState, Phase
<1>3. obj' \in [Members -> Object]
  BY <1>2, WriteMemberType DEF Control, RecordOutcome
<1> QED BY <1>3, EndReconcileControl DEF Control, TypeOK, RecordOutcome

LEMMA ControlFinishCancelledRun ==
    ASSUME Control, NEW w \in Workers, FinishCancelledRun(w)
    PROVE  Control'
<1>0. snap[w] \in Object /\ "terminal" \in Phase
  BY DEF Control, TypeOK, Phase
<1>1. [snap[w] EXCEPT !.phase = "terminal"] \in Object
  BY <1>0, ObjectFields, Zenon
<1>2. obj' \in [Members -> Object]
  BY <1>1, WriteMemberType DEF Control, FinishCancelledRun
<1> QED BY <1>2, EndReconcileControl DEF Control, TypeOK, FinishCancelledRun

LEMMA ControlGetHeldLease ==
    ASSUME Control, NEW w \in Workers, GetHeldLease(w)
    PROVE  Control'
<1>1. CASE lease.exists
  <2>0. fresh' \in [Workers -> BOOLEAN]
    BY <1>1 DEF Control, TypeOK, GetHeldLease
  <2>1. TypeOK'
    BY <1>1, <2>0 DEF Control, TypeOK, GetHeldLease, Goto, PC
  <2>2. \A v \in Workers : Registers(v)'
    BY <1>1 DEF Control, TypeOK, Registers, GetHeldLease, Goto
  <2> QED BY <2>1, <2>2 DEF Control
<1>2. CASE ~lease.exists
  BY <1>2, EndReconcileControl DEF Control, TypeOK, GetHeldLease
<1> QED BY <1>1, <1>2

LEMMA ControlCheckRelease ==
    ASSUME Control, NEW w \in Workers, CheckRelease(w)
    PROVE  Control'
<1> DEFINE l == Released(seen[w], who[w])
<1>1. l \in Lease
  BY ReleasedType DEF Control, TypeOK, Registers, CheckRelease
<1>2. CASE l = seen[w]
  BY <1>2, EndReconcileControl DEF Control, TypeOK, CheckRelease
<1>3. CASE l # seen[w]
  <2> DEFINE p == [NoPlan EXCEPT !.lease = l]
  <2>1. p \in Plan
    BY <1>1, Defaults
  <2>2. plan' = [plan EXCEPT ![w] = p] /\ pc' = [pc EXCEPT ![w] = "rwrite"]
    BY <1>3 DEF CheckRelease, Goto
  <2>3. seen' = [seen EXCEPT ![w] = NoLease] /\ UNCHANGED <<who, snap, fresh>>
    BY <1>3 DEF CheckRelease
  <2> HIDE DEF l, p
  <2>4. TypeOK'
    BY <2>1, <2>2, <2>3, Defaults DEF Control, TypeOK, CheckRelease, PC
  <2>5. \A v \in Workers : Registers(v)'
    BY <2>2, <2>3 DEF Control, TypeOK, Registers, CheckRelease
  <2> QED BY <2>4, <2>5 DEF Control
<1> QED BY <1>2, <1>3

LEMMA ControlWriteRelease ==
    ASSUME Control, NEW w \in Workers, WriteRelease(w)
    PROVE  Control'
<1>1. plan[w].lease \in Lease
  BY DEF Control, TypeOK, Plan
<1>2. TypeOK'
  <2>1. CASE fresh[w]
    <3>1. fresh' \in [Workers -> BOOLEAN] /\ lease' \in Lease
      BY <1>1, <2>1 DEF WriteRelease, WriteLease
    <3>2. /\ pc' = [pc EXCEPT ![w] = "idle"] /\ who' = [who EXCEPT ![w] = None]
          /\ snap' = [snap EXCEPT ![w] = NoObject] /\ plan' = [plan EXCEPT ![w] = NoPlan]
          /\ UNCHANGED <<obj, cache, work, seen, incidents>>
      BY <2>1 DEF WriteRelease, Goto
    <3> QED BY <3>1, <3>2, Defaults DEF Control, TypeOK
  <2>2. CASE ~fresh[w]
    BY <2>2, Defaults DEF Control, TypeOK, WriteRelease, Goto, PC
  <2> QED BY <2>1, <2>2
<1>3. \A v \in Workers : Registers(v)'
  BY DEF Control, TypeOK, Registers, WriteRelease, Goto
<1> QED BY <1>2, <1>3 DEF Control

LEMMA ControlReconcile ==
    ASSUME Control, NEW w \in Workers, NEW m \in Members, Reconcile(w, m)
    PROVE  Control'
<1> DEFINE o == IF m \in Runs THEN cache[m] ELSE obj[m]
<1>1. o \in Object
  BY DEF Control, TypeOK
<1>2. o.phase \in {"new", "decided", "waiting", "terminal"}
  BY DEF Reconcile
<1>3. /\ pc' = [pc EXCEPT ![w] = FirstCall(m, o)]
      /\ who' = [who EXCEPT ![w] = m]
      /\ snap' = [snap EXCEPT ![w] = o]
      /\ UNCHANGED <<obj, cache, work, lease, seen, fresh, plan, incidents>>
  BY DEF Reconcile, Goto
<1> HIDE DEF o
<1>4. /\ FirstCall(m, o) \in {"persist", "get", "finish", "rget"}
      /\ FirstCall(m, o) = "persist" => o.phase = "new"
      /\ FirstCall(m, o) = "finish" => m \in Runs /\ o.phase = "waiting" /\ o.cancel
      /\ FirstCall(m, o) = "get" =>
           (o.phase = "decided" \/ (o.phase = "waiting" /\ (m \in Runs => ~o.cancel)))
  <2>1. CASE o.phase # "waiting"
    <3>1. \/ o.phase = "new" /\ FirstCall(m, o) = "persist"
          \/ o.phase = "decided" /\ FirstCall(m, o) = "get"
          \/ o.phase = "terminal" /\ FirstCall(m, o) = "rget"
      BY <1>2, <2>1 DEF FirstCall
    <3> QED BY <3>1, Zenon
  <2>2. CASE o.phase = "waiting" /\ m \in Runs /\ o.cancel
    <3>1. FirstCall(m, o) = "finish"
      BY <2>2 DEF FirstCall
    <3> QED BY <2>2, <3>1
  <2>3. CASE o.phase = "waiting" /\ ~(m \in Runs /\ o.cancel)
    <3>1. FirstCall(m, o) = "get"
      BY <2>3 DEF FirstCall
    <3> QED BY <2>3, <3>1
  <2> QED BY <2>1, <2>2, <2>3
<1>5. TypeOK'
  BY <1>1, <1>3, <1>4 DEF Control, TypeOK, PC
<1>6. ASSUME NEW v \in Workers PROVE Registers(v)'
  <2>1. CASE v = w
    <3>1. pc'[v] = FirstCall(m, o) /\ who'[v] = m /\ snap'[v] = o
      BY <1>3, <2>1 DEF Control, TypeOK
    <3> QED BY <1>4, <3>1 DEF Registers
  <2>2. CASE v # w
    BY <1>3, <2>2, OtherWorker DEF Control, TypeOK
  <2> QED BY <2>1, <2>2
<1> QED BY <1>5, <1>6 DEF Control

LEMMA ControlFault ==
    ASSUME Control, NEW w \in Workers, Fault(w)
    PROVE  Control'
<1>1. incidents' \in Nat
  BY DEF Control, TypeOK, Fault, Incident
<1> QED BY <1>1, EndReconcileControl DEF Control, TypeOK, Fault

LEMMA ControlStep ==
    ASSUME Control, NEW w \in Workers, Step(w)
    PROVE  Control'
BY ControlPersistDecision, ControlGetLease, ControlListRuns, ControlCreateLease,
   ControlCheckGate, ControlUpdateLease, ControlCancelDisplaced, ControlCancelOwner,
   ControlRecordOutcome, ControlFinishCancelledRun, ControlGetHeldLease,
   ControlCheckRelease, ControlWriteRelease DEF Step

LEMMA SetPhaseType ==
    ASSUME TypeOK, NEW m \in Members, NEW p \in Phase, SetPhase(m, p)
    PROVE  /\ obj' \in [Members -> Object]
           /\ obj' = [obj EXCEPT ![m] = [obj[m] EXCEPT !.phase = p]]
<1>1. obj' = [obj EXCEPT ![m] = [obj[m] EXCEPT !.phase = p]]
  BY DEF SetPhase
<1>2. [obj[m] EXCEPT !.phase = p] \in Object
  BY ObjectFields DEF TypeOK
<1> QED BY <1>1, <1>2 DEF TypeOK

LEMMA ControlCluster ==
    ASSUME Control, NEW m \in Members, Cluster(m)
    PROVE  Control'
<1>1. UNCHANGED <<pc, who, snap, seen, plan>>
  BY DEF Cluster, RequestCancel, FailPlanning, AssignRunner, Launch, StopWork, Complete,
         Delete, workerVars
<1>2. \A v \in Workers : Registers(v)'
  BY <1>1 DEF Control, Registers, SuccessorOf
<1>3. ASSUME RequestCancel(m) PROVE TypeOK'
  <2>1. Cancelled(m) \in Object
    BY CancelledType DEF Control, TypeOK
  <2> QED BY <1>3, <2>1 DEF Control, TypeOK, RequestCancel, Incident, workerVars
<1>4. ASSUME FailPlanning(m) PROVE TypeOK'
  BY <1>4, SetPhaseType DEF Control, TypeOK, FailPlanning, workerVars, Phase
<1>5. ASSUME AssignRunner(m) PROVE TypeOK'
  BY <1>5 DEF Control, TypeOK, AssignRunner, workerVars, Work
<1>6. ASSUME Launch(m) PROVE TypeOK'
  BY <1>6 DEF Control, TypeOK, Launch, workerVars, Work
<1>7. ASSUME StopWork(m) PROVE TypeOK'
  BY <1>7 DEF Control, TypeOK, StopWork, workerVars, Work
<1>8. ASSUME Complete(m) PROVE TypeOK'
  BY <1>8, SetPhaseType DEF Control, TypeOK, Complete, workerVars, Phase
<1>9. ASSUME Delete(m) PROVE TypeOK'
  BY <1>9, Defaults DEF Control, TypeOK, Delete, Incident, workerVars, Work
<1> QED BY <1>2, <1>3, <1>4, <1>5, <1>6, <1>7, <1>8, <1>9 DEF Control, Cluster

LEMMA ControlNext == Control /\ [Next]_vars => Control'
<1> SUFFICES ASSUME Control, [Next]_vars PROVE Control'
  OBVIOUS
<1>1. ASSUME NEW r \in Runs, SyncCache(r) PROVE Control'
  <2>1. obj[r] \in Object
    BY DEF Control, TypeOK, Members
  <2>2. TypeOK'
    BY <1>1, <2>1 DEF Control, TypeOK, SyncCache, workerVars
  <2>3. \A v \in Workers : Registers(v)'
    BY <1>1 DEF Control, Registers, SyncCache, workerVars, SuccessorOf
  <2> QED BY <2>2, <2>3 DEF Control
<1>2. ASSUME UNCHANGED vars PROVE Control'
  BY <1>2 DEF Control, TypeOK, Registers, SuccessorOf, vars
<1> QED BY <1>1, <1>2, ControlReconcile, ControlStep, ControlFault, ControlCluster DEF Next

(* Every reachable state is well typed, and every reconcile holds what the *)
(* call it is about to make needs: a member, a snapshot in a phase the     *)
(* gate handles, a Lease that was read.                                    *)
THEOREM TypeCorrect == Spec => []TypeOK
<1>1. Control => TypeOK
  BY DEF Control
<1> QED BY <1>1, ControlInit, ControlNext, PTL DEF Spec
-----------------------------------------------------------------------------
(* What a step does to the members.                                        *)

(* Nobody comes back: results and deletions are final, and so is the end   *)
(* of an execution.                                                        *)
Lasting ==
    \A m \in Members : /\ Terminal(obj[m]) => Terminal(obj[m])'
                       /\ Finished(m) => Finished(m)'

(* Nobody starts, and a run planned without a Lease stays planned while it *)
(* executes.                                                               *)
NobodyStarts ==
    \A m \in Members : Executing(m)' =>
        /\ Executing(m)
        /\ ~lease.exists /\ m \in Planned => m \in Planned'


LEMMA MembersUntouched ==
    ASSUME ExecutionOrder, UNCHANGED <<obj, cache, work>>
    PROVE  ExecutionOrder' /\ Lasting /\ NobodyStarts
BY DEF ExecutionOrder, Lasting, NobodyStarts, Executing, Stage, Finished, Terminal, Planned

LEMMA MembersRequestCancel ==
    ASSUME LeaseProtects, NEW m \in Members, RequestCancel(m)
    PROVE  ExecutionOrder' /\ Lasting /\ NobodyStarts
<1>1. ExecutionOrder'
  BY SMT DEF LeaseProtects, TypeOK, ExecutionOrder, Lasting, NobodyStarts, Executing, Stage, Finished, Terminal, Planned, Members, RequestCancel, Cancelled, Object, Phase, Work
<1>2. Lasting
  BY SMT DEF LeaseProtects, TypeOK, ExecutionOrder, Lasting, NobodyStarts, Executing, Stage, Finished, Terminal, Planned, Members, RequestCancel, Cancelled, Object, Phase, Work
<1>3. NobodyStarts
  BY SMT DEF LeaseProtects, TypeOK, ExecutionOrder, Lasting, NobodyStarts, Executing, Stage, Finished, Terminal, Planned, Members, RequestCancel, Cancelled, Object, Phase, Work
<1> QED BY <1>1, <1>2, <1>3

LEMMA MembersFailPlanning ==
    ASSUME LeaseProtects, NEW m \in Members, FailPlanning(m)
    PROVE  ExecutionOrder' /\ Lasting /\ NobodyStarts
<1>1. ExecutionOrder'
  BY SMT DEF LeaseProtects, TypeOK, ExecutionOrder, Lasting, NobodyStarts, Executing, Stage, Finished, Terminal, Planned, Members, FailPlanning, SetPhase, Object, Phase, Work
<1>2. Lasting
  BY SMT DEF LeaseProtects, TypeOK, ExecutionOrder, Lasting, NobodyStarts, Executing, Stage, Finished, Terminal, Planned, Members, FailPlanning, SetPhase, Object, Phase, Work
<1>3. NobodyStarts
  BY SMT DEF LeaseProtects, TypeOK, ExecutionOrder, Lasting, NobodyStarts, Executing, Stage, Finished, Terminal, Planned, Members, FailPlanning, SetPhase, Object, Phase, Work
<1> QED BY <1>1, <1>2, <1>3

LEMMA MembersAssignRunner ==
    ASSUME LeaseProtects, NEW m \in Members, AssignRunner(m)
    PROVE  ExecutionOrder' /\ Lasting /\ NobodyStarts
<1>1. Lasting
  BY SMT DEF LeaseProtects, TypeOK, ExecutionOrder, Lasting, NobodyStarts, Executing, Stage, Finished, Terminal, Planned, Members, AssignRunner, Object, Phase, Work
<1>2. NobodyStarts
  BY SMT DEF LeaseProtects, TypeOK, ExecutionOrder, Lasting, NobodyStarts, Executing, Stage, Finished, Terminal, Planned, Members, AssignRunner, Object, Phase, Work
<1>3. ASSUME NEW n \in Members
      PROVE  /\ obj'[n].phase \in {"new", "decided", "waiting"} => work'[n] = "none"
             /\ work'[n] = "assigned" => obj'[n].phase \in {"admitted", "gone"}
             /\ n \in Runs => work'[n] # "ended"
             /\ n \in Runs /\ obj'[n].phase = "terminal" => work'[n] = "none"
  BY SMT DEF LeaseProtects, TypeOK, ExecutionOrder, AssignRunner
<1>4. \A r \in Runs : cache'[r].phase = "terminal" => Finished(r)'
  BY <1>1 DEF LeaseProtects, ExecutionOrder, Lasting, AssignRunner, Members
<1>5. ExecutionOrder'
  BY <1>3, <1>4 DEF ExecutionOrder, Members
<1> QED BY <1>1, <1>2, <1>5

LEMMA MembersLaunch ==
    ASSUME LeaseProtects, NEW m \in Members, Launch(m)
    PROVE  ExecutionOrder' /\ Lasting /\ NobodyStarts
<1>1. ExecutionOrder'
  BY SMT DEF LeaseProtects, TypeOK, ExecutionOrder, Lasting, NobodyStarts, Executing, Stage, Finished, Terminal, Planned, Members, Launch, Object, Phase, Work
<1>2. Lasting
  BY SMT DEF LeaseProtects, TypeOK, ExecutionOrder, Lasting, NobodyStarts, Executing, Stage, Finished, Terminal, Planned, Members, Launch, Object, Phase, Work
<1>3. NobodyStarts
  BY SMT DEF LeaseProtects, TypeOK, ExecutionOrder, Lasting, NobodyStarts, Executing, Stage, Finished, Terminal, Planned, Members, Launch, Object, Phase, Work
<1> QED BY <1>1, <1>2, <1>3

LEMMA MembersStopWork ==
    ASSUME LeaseProtects, NEW m \in Members, StopWork(m)
    PROVE  ExecutionOrder' /\ Lasting /\ NobodyStarts
<1>1. ExecutionOrder'
  BY SMT DEF LeaseProtects, TypeOK, ExecutionOrder, Lasting, NobodyStarts, Executing, Stage, Finished, Terminal, Planned, Members, StopWork, Object, Phase, Work
<1>2. Lasting
  BY SMT DEF LeaseProtects, TypeOK, ExecutionOrder, Lasting, NobodyStarts, Executing, Stage, Finished, Terminal, Planned, Members, StopWork, Object, Phase, Work
<1>3. NobodyStarts
  BY SMT DEF LeaseProtects, TypeOK, ExecutionOrder, Lasting, NobodyStarts, Executing, Stage, Finished, Terminal, Planned, Members, StopWork, Object, Phase, Work
<1> QED BY <1>1, <1>2, <1>3

LEMMA MembersComplete ==
    ASSUME LeaseProtects, NEW m \in Members, Complete(m)
    PROVE  ExecutionOrder' /\ Lasting /\ NobodyStarts
<1>1. ExecutionOrder'
  BY SMT DEF LeaseProtects, TypeOK, ExecutionOrder, Lasting, NobodyStarts, Executing, Stage, Finished, Terminal, Planned, Members, Complete, SetPhase, Object, Phase, Work
<1>2. Lasting
  BY SMT DEF LeaseProtects, TypeOK, ExecutionOrder, Lasting, NobodyStarts, Executing, Stage, Finished, Terminal, Planned, Members, Complete, SetPhase, Object, Phase, Work
<1>3. NobodyStarts
  BY SMT DEF LeaseProtects, TypeOK, ExecutionOrder, Lasting, NobodyStarts, Executing, Stage, Finished, Terminal, Planned, Members, Complete, SetPhase, Object, Phase, Work
<1> QED BY <1>1, <1>2, <1>3

LEMMA MembersDelete ==
    ASSUME LeaseProtects, NEW m \in Members, Delete(m)
    PROVE  ExecutionOrder' /\ Lasting /\ NobodyStarts
<1>1. Lasting
  BY SMT DEF LeaseProtects, TypeOK, ExecutionOrder, Lasting, NobodyStarts, Executing, Stage, Finished, Terminal, Planned, Members, Delete, NoObject, Object, Phase, Work
<1>2. NobodyStarts
  BY SMT DEF LeaseProtects, TypeOK, ExecutionOrder, Lasting, NobodyStarts, Executing, Stage, Finished, Terminal, Planned, Members, Delete, NoObject, Object, Phase, Work
<1>3. ASSUME NEW n \in Members
      PROVE  /\ obj'[n].phase \in {"new", "decided", "waiting"} => work'[n] = "none"
             /\ work'[n] = "assigned" => obj'[n].phase \in {"admitted", "gone"}
             /\ n \in Runs => work'[n] # "ended"
             /\ n \in Runs /\ obj'[n].phase = "terminal" => work'[n] = "none"
  BY SMT DEF LeaseProtects, TypeOK, ExecutionOrder, Delete, NoObject
<1>4. \A r \in Runs : cache'[r].phase = "terminal" => Finished(r)'
  BY <1>1 DEF LeaseProtects, ExecutionOrder, Lasting, Delete, Members
<1>5. ExecutionOrder'
  BY <1>3, <1>4 DEF ExecutionOrder, Members
<1> QED BY <1>1, <1>2, <1>5

LEMMA MembersSyncCache ==
    ASSUME LeaseProtects, NEW r \in Runs, SyncCache(r)
    PROVE  ExecutionOrder' /\ Lasting /\ NobodyStarts
<1>1. Lasting /\ NobodyStarts
  BY DEF SyncCache, Lasting, NobodyStarts, Executing, Stage, Finished, Terminal, Planned
<1>2. ExecutionOrder'
  BY SMT DEF LeaseProtects, TypeOK, ExecutionOrder, SyncCache, Finished, Terminal, Members
<1> QED BY <1>1, <1>2

(* An object written by the controller without a start.                    *)
LEMMA MembersWritten ==
    ASSUME LeaseProtects, NEW m \in Members, NEW o \in Object,
           obj' = [obj EXCEPT ![m] = o], UNCHANGED <<cache, work>>,
           o.phase # "admitted" \/ obj[m].phase = "admitted",
           Terminal(obj[m]) => o = obj[m], o.phase = "gone" => Terminal(obj[m]),
           o.phase \in {"new", "decided", "waiting"} => work[m] = "none",
           o.phase = "terminal" /\ obj[m].phase # "terminal" => work[m] = "none"
    PROVE  ExecutionOrder' /\ Lasting /\ NobodyStarts
<1>1. Lasting
  BY SMT DEF LeaseProtects, TypeOK, Lasting, Finished, Terminal
<1>2. NobodyStarts
  BY SMT DEF LeaseProtects, TypeOK, ExecutionOrder, NobodyStarts, Executing, Stage, Terminal, Planned, Object, Phase
<1>3. ExecutionOrder'
  BY <1>1, SMT DEF LeaseProtects, TypeOK, ExecutionOrder, Lasting, Finished, Terminal, Members, Object, Phase
<1> QED BY <1>1, <1>2, <1>3

LEMMA MembersCancelDisplaced ==
    ASSUME LeaseProtects, NEW w \in Workers, CancelDisplaced(w)
    PROVE  ExecutionOrder' /\ Lasting /\ NobodyStarts
<1> DEFINE m == plan[w].displaced
<1>1. m \in Members
  BY DEF LeaseProtects, Registers, CancelDisplaced
<1>2. Cancelled(m) \in Object
  BY <1>1, CancelledType DEF LeaseProtects, TypeOK
<1>3. obj' = [obj EXCEPT ![m] = Cancelled(m)] /\ UNCHANGED <<cache, work>>
  BY DEF CancelDisplaced
<1>4. /\ Terminal(obj[m]) => Cancelled(m) = obj[m]
      /\ \/ Cancelled(m).phase = obj[m].phase
         \/ Cancelled(m).phase = "terminal" /\ work[m] = "none"
  BY <1>1, CancelledPhase DEF LeaseProtects, TypeOK
<1> HIDE DEF m
<1> QED BY <1>1, <1>2, <1>3, <1>4, MembersWritten DEF LeaseProtects, ExecutionOrder, Terminal

LEMMA MembersCancelOwner ==
    ASSUME LeaseProtects, NEW w \in Workers, CancelOwner(w)
    PROVE  ExecutionOrder' /\ Lasting /\ NobodyStarts
<1> DEFINE m == plan[w].cancelOwner
<1>1. m \in Members
  BY DEF LeaseProtects, Registers, CancelOwner
<1>2. Cancelled(m) \in Object
  BY <1>1, CancelledType DEF LeaseProtects, TypeOK
<1>3. obj' = [obj EXCEPT ![m] = Cancelled(m)] /\ UNCHANGED <<cache, work>>
  BY DEF CancelOwner
<1>4. /\ Terminal(obj[m]) => Cancelled(m) = obj[m]
      /\ \/ Cancelled(m).phase = obj[m].phase
         \/ Cancelled(m).phase = "terminal" /\ work[m] = "none"
  BY <1>1, CancelledPhase DEF LeaseProtects, TypeOK
<1> HIDE DEF m
<1> QED BY <1>1, <1>2, <1>3, <1>4, MembersWritten DEF LeaseProtects, ExecutionOrder, Terminal

LEMMA MembersFinishCancelledRun ==
    ASSUME LeaseProtects, NEW w \in Workers, FinishCancelledRun(w)
    PROVE  ExecutionOrder' /\ Lasting /\ NobodyStarts
<1> DEFINE o == [snap[w] EXCEPT !.phase = "terminal"]
<1>0. snap[w] \in Object /\ "terminal" \in Phase
  BY DEF LeaseProtects, TypeOK, Phase
<1>1. o \in Object /\ o.phase = "terminal"
  BY <1>0, ObjectFields, Zenon
<1>2. who[w] \in Members /\ snap[w].phase = "waiting"
  BY DEF LeaseProtects, Registers, FinishCancelledRun
<1>3. CASE obj[who[w]] = snap[w]
  <2>1. obj' = [obj EXCEPT ![who[w]] = o] /\ UNCHANGED <<cache, work>>
    BY <1>3 DEF FinishCancelledRun, WriteMember
  <2> HIDE DEF o
  <2> QED BY <1>1, <1>2, <1>3, <2>1, MembersWritten DEF LeaseProtects, ExecutionOrder, Terminal
<1>4. CASE obj[who[w]] # snap[w]
  BY <1>4, MembersUntouched DEF LeaseProtects, FinishCancelledRun, WriteMember
<1> QED BY <1>3, <1>4

LEMMA MembersPersistDecision ==
    ASSUME LeaseProtects, NEW w \in Workers, PersistDecision(w)
    PROVE  ExecutionOrder' /\ Lasting /\ NobodyStarts
<1> DEFINE o == [snap[w] EXCEPT !.phase = "decided"]
<1>0. snap[w] \in Object /\ "decided" \in Phase
  BY DEF LeaseProtects, TypeOK, Phase
<1>1. o \in Object /\ o.phase = "decided"
  BY <1>0, ObjectFields, Zenon
<1>2. who[w] \in Members /\ snap[w].phase = "new"
  BY DEF LeaseProtects, Registers, PersistDecision
<1>3. CASE obj[who[w]] = snap[w]
  <2>1. obj' = [obj EXCEPT ![who[w]] = o] /\ UNCHANGED <<cache, work>>
    BY <1>3 DEF PersistDecision, WriteMember
  <2> HIDE DEF o
  <2> QED BY <1>1, <1>2, <1>3, <2>1, MembersWritten DEF LeaseProtects, ExecutionOrder, Terminal
<1>4. CASE obj[who[w]] # snap[w]
  BY <1>4, MembersUntouched DEF LeaseProtects, PersistDecision, WriteMember
<1> QED BY <1>3, <1>4

LEMMA MembersRecordOutcome ==
    ASSUME LeaseProtects, NEW w \in Workers, RecordOutcome(w)
    PROVE  /\ ExecutionOrder' /\ Lasting
           /\ \/ NobodyStarts
              \/ /\ Holds(who[w])
                 /\ \A m \in Members : ~Executing(m)
                 /\ \A m \in Members : Executing(m)' => m = who[w]
<1> DEFINE m == who[w]
           o == Recorded(m, snap[w], plan[w].state)
<1>0. snap[w] \in Object /\ plan[w].state \in GateState /\ {"admitted", "waiting", "terminal"} \subseteq Phase
  BY DEF LeaseProtects, TypeOK, Phase, Plan
<1>1. /\ o \in Object
      /\ plan[w].state = "acquired" => o.phase = "admitted"
      /\ plan[w].state # "acquired" => o.phase \in {"waiting", "terminal", snap[w].phase}
  BY <1>0, ObjectFields DEF Recorded, GateState
<1>2. m \in Members /\ snap[w].phase \in {"decided", "waiting"}
  BY DEF LeaseProtects, Registers, RecordOutcome
<1>3. CASE obj[m] # snap[w]
  BY <1>3, MembersUntouched DEF LeaseProtects, RecordOutcome, WriteMember
<1>4. CASE obj[m] = snap[w]
  <2>1. obj' = [obj EXCEPT ![m] = o] /\ UNCHANGED <<cache, work>>
    BY <1>4 DEF RecordOutcome, WriteMember
  <2>2. work[m] = "none" /\ ~Terminal(obj[m])
    BY <1>2, <1>4 DEF LeaseProtects, ExecutionOrder, Terminal
  <2>3. CASE plan[w].state # "acquired"
    <3> HIDE DEF m, o
    <3> QED BY <1>1, <1>2, <1>4, <2>1, <2>2, <2>3, MembersWritten
  <2>4. CASE plan[w].state = "acquired"
    <3>1. Holds(m)
      BY <2>2, <2>4 DEF LeaseProtects, ReadsAreSafe, RecordOutcome
    <3> HIDE DEF m, o
    <3>2. Lasting
      BY <2>1, <2>2 DEF LeaseProtects, TypeOK, Lasting, Finished, Terminal
    <3>3. ExecutionOrder'
      BY <1>1, <1>2, <2>1, <2>2, <2>4, <3>2 DEF LeaseProtects, TypeOK, ExecutionOrder, Lasting, Members
    <3>4. ~Executing(m)
      BY <1>2, <1>4, <2>2 DEF Executing, Stage, Terminal
    <3>5. \A n \in Members : ~Executing(n)
      BY <3>1, <3>4 DEF LeaseProtects, LeaseNamesExecuting, Holds
    <3>6. \A n \in Members : Executing(n)' => n = m
      BY <1>2, <2>1, <3>5 DEF LeaseProtects, TypeOK, Executing, Stage, Terminal
    <3> QED BY <3>1, <3>2, <3>3, <3>5, <3>6 DEF m
  <2> QED BY <2>3, <2>4
<1> QED BY <1>3, <1>4

-----------------------------------------------------------------------------
(* What a step does to the Lease and to what other reconciles know of it.  *)

LEMMA NotBoth ==
    \A m \in Members : ~(Executing(m) /\ Finished(m))
BY DEF Executing, Stage, Finished, Terminal

LEMMA LeaseUntouched ==
    ASSUME LeaseProtects, NobodyStarts, UNCHANGED lease
    PROVE  LeaseNamesExecuting'
BY DEF LeaseProtects, LeaseNamesExecuting, NobodyStarts

LEMMA ReadsUntouched ==
    ASSUME LeaseProtects, Lasting, NobodyStarts \/ lease.exists, UNCHANGED lease,
           NEW v \in Workers, pc'[v] = pc[v], who'[v] = who[v], seen'[v] = seen[v],
           plan'[v] = plan[v], fresh'[v] = fresh[v]
    PROVE  ReadsAreSafe(v)'
<1>1. /\ Registers(v) /\ ReadsAreSafe(v)
      /\ lease \in Lease /\ seen[v] \in Lease /\ seen[v].holder \in Members \cup {None}
      /\ lease.holder \in Members \cup {None}
  BY DEF LeaseProtects, TypeOK, Lease
<1>2. pc[v] # "idle" => who[v] \in Members
  BY <1>1 DEF Registers
<1>3. \A m \in Members : Holds(m)' = Holds(m)
  BY DEF Holds
<1>4. \A m \in Members : Finished(m) => Finished(m)'
  BY DEF Lasting
<1>5. pc[v] \in {"check", "rcheck"} => (seen[v].holder = None \/ Holds(seen[v].holder)' \/ Finished(seen[v].holder)')
  BY <1>1, <1>3, <1>4 DEF ReadsAreSafe
<1>6. pc[v] = "create" /\ ~lease.exists =>
         \A m \in Members : Executing(m)' => plan[v].lease.holder = m
  BY <1>1 DEF ReadsAreSafe, NobodyStarts
<1>7. Handover(plan[v].lease) => Handover(plan[v].lease)'
  BY <1>1, <1>4 DEF Handover
<1>8. pc[v] \in {"rget", "rcheck", "rwrite"} => Finished(who[v])'
  BY <1>1, <1>2, <1>4 DEF ReadsAreSafe
<1>9. pc[v] = "record" /\ plan[v].state = "acquired" => Holds(who[v])' \/ Terminal(obj[who[v]])'
  BY <1>1, <1>2, <1>3 DEF ReadsAreSafe, Lasting
<1> QED BY <1>1, <1>5, <1>6, <1>7, <1>8, <1>9 DEF ReadsAreSafe

(* The one place where the group changes hands.                            *)
LEMMA LeaseWritten ==
    ASSUME LeaseProtects, UNCHANGED <<obj, cache, work>>, NEW l \in Lease, lease' = l,
           l.exists \/ l = NoLease,
           IF lease.exists THEN Handover(l)
           ELSE l.exists /\ \A m \in Members : Executing(m) => l.holder = m
    PROVE  /\ LeaseNamesExecuting'
           /\ \A m \in Members : Holds(m) => Holds(m)' \/ Finished(m)
           /\ ~l.exists => \A m \in Members : ~Executing(m)
<1>1. \A m \in Members : Executing(m)' <=> Executing(m)
  BY DEF Executing, Stage, Terminal
<1>2. None \notin Members
  OBVIOUS
<1>3. \A m \in Members : Executing(m) => l.exists /\ l.holder = m
  BY <1>2, NotBoth DEF LeaseProtects, LeaseNamesExecuting, Handover, NoLease
<1>4. LeaseNamesExecuting'
  BY <1>1, <1>3 DEF LeaseNamesExecuting
<1>5. \A m \in Members : Holds(m) => Holds(m)' \/ Finished(m)
  BY <1>2 DEF Holds, Handover, NoLease
<1> QED BY <1>3, <1>4, <1>5

LEMMA ReadsAfterWrite ==
    ASSUME LeaseProtects, UNCHANGED <<obj, cache, work>>, NEW l \in Lease, lease' = l,
           l.exists \/ l = NoLease,
           IF lease.exists THEN Handover(l)
           ELSE l.exists /\ \A m \in Members : Executing(m) => l.holder = m,
           NEW v \in Workers, pc'[v] = pc[v], who'[v] = who[v], seen'[v] = seen[v],
           plan'[v] = plan[v], ~fresh'[v]
    PROVE  ReadsAreSafe(v)'
<1>1. /\ Registers(v) /\ ReadsAreSafe(v)
      /\ seen[v].holder \in Members \cup {None}
  BY DEF LeaseProtects, TypeOK, Lease
<1>2. pc[v] # "idle" => who[v] \in Members
  BY <1>1 DEF Registers
<1>3. /\ \A m \in Members : Holds(m) => Holds(m)' \/ Finished(m)
      /\ ~l.exists => \A m \in Members : ~Executing(m)
  BY LeaseWritten
<1>4. \A m \in Members : (Finished(m)' <=> Finished(m)) /\ (Executing(m)' <=> Executing(m))
                         /\ (Terminal(obj[m])' <=> Terminal(obj[m]))
  BY DEF Finished, Executing, Stage, Terminal
<1>5. Finished(who[v]) => Terminal(obj[who[v]])
  BY DEF Finished
<1>6. pc[v] \in {"check", "rcheck"} => (seen[v].holder = None \/ Holds(seen[v].holder)' \/ Finished(seen[v].holder)')
  BY <1>1, <1>3, <1>4 DEF ReadsAreSafe
<1>7. pc[v] = "record" /\ plan[v].state = "acquired" => Holds(who[v])' \/ Terminal(obj[who[v]])'
  BY <1>1, <1>2, <1>3, <1>4, <1>5 DEF ReadsAreSafe
<1>8. pc[v] \in {"rget", "rcheck", "rwrite"} => Finished(who[v])'
  BY <1>1, <1>2, <1>4 DEF ReadsAreSafe
<1>9. pc[v] = "create" /\ ~lease'.exists =>
         \A m \in Members : Executing(m)' => plan[v].lease.holder = m
  BY <1>3, <1>4
<1> QED BY <1>1, <1>6, <1>7, <1>8, <1>9 DEF ReadsAreSafe

-----------------------------------------------------------------------------
(* The decisions of the gate respect whoever may still execute.            *)

LEMMA InactiveIsFinished ==
    ASSUME ExecutionOrder, NEW m \in Members, obj[m] \in Object, ~Active(m)
    PROVE  Finished(m)
BY DEF ExecutionOrder, Active, ExecutionActive, Finished, Terminal, Object, Phase, Members

LEMMA GateHandover ==
    ASSUME NEW l \in Lease, NEW m \in Members, NEW o \in Object,
           l.holder # None, Active(l.holder)
    PROVE  Gate(l, m, o).lease.holder = l.holder
<1>1. Settle(l).holder = l.holder /\ Settle(l) \in Lease
  BY SettleType DEF Settle
<1> QED BY <1>1 DEF Gate, Outcome, Lease

LEMMA ReleaseHandover ==
    ASSUME NEW l \in Lease, NEW m \in Members, l.holder # m
    PROVE  Released(l, m).holder = l.holder
BY DEF Released, Lease

LEMMA UnchangedLease ==
    ASSUME NEW l, NEW p, ~Changed(l, p)
    PROVE  p.lease = l
BY DEF Changed

LEMMA IdleReads ==
    ASSUME NEW w \in Workers, pc'[w] \in {"idle", "persist", "get", "list", "finish"}
    PROVE  ReadsAreSafe(w)'
BY DEF ReadsAreSafe

LEMMA ProtectsControl == LeaseProtects => Control
BY DEF LeaseProtects, Control

-----------------------------------------------------------------------------
(* Every step keeps the group protected.                                   *)

LEMMA SafeReconcile ==
    ASSUME LeaseProtects, NEW w \in Workers, NEW m \in Members, Reconcile(w, m)
    PROVE  LeaseProtects'
<1>1. Control'
  BY ControlReconcile, ProtectsControl
<1>2. ExecutionOrder' /\ Lasting /\ NobodyStarts
  BY MembersUntouched DEF LeaseProtects, Reconcile
<1>3. LeaseNamesExecuting'
  BY <1>2, LeaseUntouched DEF Reconcile
<1>4. ASSUME NEW v \in Workers PROVE ReadsAreSafe(v)'
  <2>1. CASE v # w
    BY <1>2, <2>1, ReadsUntouched DEF Reconcile, Goto, LeaseProtects, TypeOK
  <2>2. CASE v = w
    <3> DEFINE o == IF m \in Runs THEN cache[m] ELSE obj[m]
    <3>1. pc'[w] = FirstCall(m, o) /\ who'[w] = m
      BY DEF Reconcile, Goto, LeaseProtects, TypeOK
    <3>2. o.phase \in {"new", "decided", "waiting", "terminal"}
      BY DEF Reconcile
    <3>3. CASE o.phase # "terminal"
      <4>1. FirstCall(m, o) \in {"persist", "get", "finish"}
        BY <3>2, <3>3 DEF FirstCall
      <4> QED BY <2>2, <3>1, <4>1, IdleReads
    <3>4. CASE o.phase = "terminal"
      <4>1. FirstCall(m, o) = "rget"
        BY <3>4 DEF FirstCall
      <4>2. Finished(m)
        BY <3>4 DEF Reconcile, LeaseProtects, ExecutionOrder, Finished, Terminal, ExecutionActive, Members
      <4>3. Finished(m)'
        BY <1>2, <4>2 DEF Lasting
      <4> QED BY <2>2, <3>1, <4>1, <4>3 DEF ReadsAreSafe
    <3> QED BY <3>3, <3>4
  <2> QED BY <2>1, <2>2
<1> QED BY <1>1, <1>2, <1>3, <1>4 DEF LeaseProtects, Control

(* A step that leaves the Lease alone and ends the reconcile, or sends it  *)
(* back to a read.                                                         *)
LEMMA SafeReturn ==
    ASSUME LeaseProtects, Control', NEW w \in Workers,
           ExecutionOrder', Lasting, NobodyStarts, UNCHANGED lease,
           pc'[w] \in {"idle", "persist", "get", "list", "finish"},
           \A v \in Workers : v # w =>
             /\ pc'[v] = pc[v] /\ who'[v] = who[v] /\ seen'[v] = seen[v]
             /\ plan'[v] = plan[v] /\ fresh'[v] = fresh[v]
    PROVE  LeaseProtects'
<1>1. LeaseNamesExecuting'
  BY LeaseUntouched
<1>2. ASSUME NEW v \in Workers PROVE ReadsAreSafe(v)'
  BY ReadsUntouched, IdleReads
<1> QED BY <1>1, <1>2 DEF LeaseProtects, Control

LEMMA SafePersistDecision ==
    ASSUME LeaseProtects, NEW w \in Workers, PersistDecision(w)
    PROVE  LeaseProtects'
<1>1. Control'
  BY ControlPersistDecision, ProtectsControl
<1>2. ExecutionOrder' /\ Lasting /\ NobodyStarts
  BY MembersPersistDecision
<1>3. /\ pc'[w] \in {"idle", "get"} /\ UNCHANGED lease
      /\ \A v \in Workers : v # w =>
           /\ pc'[v] = pc[v] /\ who'[v] = who[v] /\ seen'[v] = seen[v]
           /\ plan'[v] = plan[v] /\ fresh'[v] = fresh[v]
  BY DEF PersistDecision, EndReconcile, Goto, LeaseProtects, TypeOK
<1> QED BY <1>1, <1>2, <1>3, SafeReturn

LEMMA SafeFinishCancelledRun ==
    ASSUME LeaseProtects, NEW w \in Workers, FinishCancelledRun(w)
    PROVE  LeaseProtects'
<1>1. Control'
  BY ControlFinishCancelledRun, ProtectsControl
<1>2. ExecutionOrder' /\ Lasting /\ NobodyStarts
  BY MembersFinishCancelledRun
<1>3. /\ pc'[w] = "idle" /\ UNCHANGED lease
      /\ \A v \in Workers : v # w =>
           /\ pc'[v] = pc[v] /\ who'[v] = who[v] /\ seen'[v] = seen[v]
           /\ plan'[v] = plan[v] /\ fresh'[v] = fresh[v]
  BY DEF FinishCancelledRun, EndReconcile, Goto, LeaseProtects, TypeOK
<1> QED BY <1>1, <1>2, <1>3, SafeReturn

LEMMA SafeFault ==
    ASSUME LeaseProtects, NEW w \in Workers, Fault(w)
    PROVE  LeaseProtects'
<1>1. Control'
  BY ControlFault, ProtectsControl
<1>2. ExecutionOrder' /\ Lasting /\ NobodyStarts
  BY MembersUntouched DEF LeaseProtects, Fault
<1>3. /\ pc'[w] = "idle" /\ UNCHANGED lease
      /\ \A v \in Workers : v # w =>
           /\ pc'[v] = pc[v] /\ who'[v] = who[v] /\ seen'[v] = seen[v]
           /\ plan'[v] = plan[v] /\ fresh'[v] = fresh[v]
  BY DEF Fault, EndReconcile, Goto, LeaseProtects, TypeOK
<1> QED BY <1>1, <1>2, <1>3, SafeReturn

LEMMA SafeRecordOutcome ==
    ASSUME LeaseProtects, NEW w \in Workers, RecordOutcome(w)
    PROVE  LeaseProtects'
<1>1. Control'
  BY ControlRecordOutcome, ProtectsControl
<1>2. /\ pc'[w] = "idle" /\ UNCHANGED lease
      /\ \A v \in Workers : v # w =>
           /\ pc'[v] = pc[v] /\ who'[v] = who[v] /\ seen'[v] = seen[v]
           /\ plan'[v] = plan[v] /\ fresh'[v] = fresh[v]
  BY DEF RecordOutcome, EndReconcile, Goto, LeaseProtects, TypeOK
<1>3. CASE NobodyStarts
  BY <1>1, <1>2, <1>3, MembersRecordOutcome, SafeReturn
<1>4. CASE ~NobodyStarts
  <2>1. /\ ExecutionOrder' /\ Lasting /\ Holds(who[w])
        /\ \A m \in Members : Executing(m)' => m = who[w]
    BY <1>4, MembersRecordOutcome
  <2>2. LeaseNamesExecuting'
    BY <1>2, <2>1 DEF LeaseNamesExecuting, Holds
  <2>3. lease.exists
    BY <2>1 DEF Holds
  <2>4. ASSUME NEW v \in Workers PROVE ReadsAreSafe(v)'
    BY <1>2, <2>1, <2>3, ReadsUntouched, IdleReads
  <2> QED BY <1>1, <2>1, <2>2, <2>4 DEF LeaseProtects, Control
<1> QED BY <1>3, <1>4

LEMMA SafeGetLease ==
    ASSUME LeaseProtects, NEW w \in Workers, GetLease(w)
    PROVE  LeaseProtects'
<1>1. Control'
  BY ControlGetLease, ProtectsControl
<1>2. ExecutionOrder' /\ Lasting /\ NobodyStarts
  BY MembersUntouched DEF LeaseProtects, GetLease
<1>3. LeaseNamesExecuting'
  BY <1>2, LeaseUntouched DEF GetLease
<1>4. ASSUME NEW v \in Workers PROVE ReadsAreSafe(v)'
  <2>1. CASE v # w
    BY <1>2, <2>1, ReadsUntouched DEF GetLease, Goto, LeaseProtects, TypeOK
  <2>2. CASE v = w
    <3>1. seen'[w] = lease' /\ pc'[w] \in {"check", "list"}
      BY DEF GetLease, Goto, LeaseProtects, TypeOK
    <3>2. pc'[w] = "check" => lease'.exists
      BY DEF GetLease, Goto, LeaseProtects, TypeOK
    <3> QED BY <2>2, <3>1, <3>2 DEF ReadsAreSafe, Holds
  <2> QED BY <2>1, <2>2
<1> QED BY <1>1, <1>2, <1>3, <1>4 DEF LeaseProtects, Control

LEMMA SafeListRuns ==
    ASSUME LeaseProtects, NEW w \in Workers, ListRuns(w)
    PROVE  LeaseProtects'
<1>1. Control'
  BY ControlListRuns, ProtectsControl
<1>2. ExecutionOrder' /\ Lasting /\ NobodyStarts
  BY MembersUntouched DEF LeaseProtects, ListRuns
<1>3. LeaseNamesExecuting'
  BY <1>2, LeaseUntouched DEF ListRuns
<1>4. ASSUME NEW v \in Workers PROVE ReadsAreSafe(v)'
  <2>1. CASE v # w
    BY <1>2, <2>1, ReadsUntouched DEF ListRuns, Goto, LeaseProtects, TypeOK
  <2>2. CASE v = w
    <3> DEFINE b == Bootstrap(who[w])
    <3>1. b \in Lease
      BY BootstrapType DEF LeaseProtects, Registers, ListRuns
    <3>2. plan'[w].lease = b /\ pc'[w] = "create"
      BY <3>1, Defaults DEF ListRuns, Goto, LeaseProtects, TypeOK
    <3>3. ASSUME ~lease.exists, NEW m \in Members, Executing(m) PROVE b.holder = m
      <4>1. m \in Planned
        BY <3>3 DEF LeaseProtects, LeaseNamesExecuting
      <4>2. ASSUME NEW r \in Planned PROVE Executing(r) /\ r \in Members
        <5>1. r \in Members /\ obj[r].phase = "admitted"
          BY DEF Planned, Members
        <5> QED BY <5>1 DEF Executing, Stage, Terminal
      <4>3. \A r \in Planned : r = m
        BY <3>3, <4>2 DEF LeaseProtects, LeaseNamesExecuting
      <4>4. Oldest(Planned) = m
        BY <4>1, <4>3, OldestIsOne DEF Planned
      <4> QED BY <4>1, <4>4 DEF Bootstrap
    <3>4. \A m \in Members : Executing(m)' => Executing(m)
      BY <1>2 DEF NobodyStarts
    <3>5. lease' = lease
      BY DEF ListRuns
    <3> HIDE DEF b
    <3> QED BY <2>2, <3>2, <3>3, <3>4, <3>5 DEF ReadsAreSafe
  <2> QED BY <2>1, <2>2
<1> QED BY <1>1, <1>2, <1>3, <1>4 DEF LeaseProtects, Control

LEMMA SafeCreateLease ==
    ASSUME LeaseProtects, NEW w \in Workers, CreateLease(w)
    PROVE  LeaseProtects'
<1>1. Control'
  BY ControlCreateLease, ProtectsControl
<1>2. ExecutionOrder' /\ Lasting /\ NobodyStarts
  BY MembersUntouched DEF LeaseProtects, CreateLease
<1>3. /\ pc'[w] = "get"
      /\ \A v \in Workers : v # w =>
           /\ pc'[v] = pc[v] /\ who'[v] = who[v] /\ seen'[v] = seen[v] /\ plan'[v] = plan[v]
  BY DEF CreateLease, Goto, LeaseProtects, TypeOK
<1>4. CASE lease.exists
  BY <1>1, <1>2, <1>3, <1>4, SafeReturn DEF CreateLease
<1>5. CASE ~lease.exists
  <2> DEFINE l == plan[w].lease
  <2>1. l \in Lease /\ l.exists
    BY DEF LeaseProtects, TypeOK, Plan, Registers, CreateLease
  <2>2. lease' = l /\ \A v \in Workers : ~fresh'[v]
    BY <1>5 DEF CreateLease, WriteLease
  <2>3. \A m \in Members : Executing(m) => l.holder = m
    BY <1>5 DEF LeaseProtects, ReadsAreSafe, CreateLease
  <2>4. UNCHANGED <<obj, cache, work>>
    BY DEF CreateLease
  <2> HIDE DEF l
  <2>5. LeaseNamesExecuting'
    BY <1>5, <2>1, <2>2, <2>3, <2>4, LeaseWritten
  <2>6. ASSUME NEW v \in Workers PROVE ReadsAreSafe(v)'
    <3>1. CASE v = w
      BY <1>3, <3>1, IdleReads
    <3>2. CASE v # w
      BY <1>3, <1>5, <2>1, <2>2, <2>3, <2>4, <3>2, ReadsAfterWrite
    <3> QED BY <3>1, <3>2
  <2> QED BY <1>1, <1>2, <2>5, <2>6 DEF LeaseProtects, Control
<1> QED BY <1>4, <1>5

LEMMA SafeCheckGate ==
    ASSUME LeaseProtects, NEW w \in Workers, CheckGate(w)
    PROVE  LeaseProtects'
<1> DEFINE p == Gate(seen[w], who[w], snap[w])
           h == seen[w].holder
<1>1. Control'
  BY ControlCheckGate, ProtectsControl
<1>2. ExecutionOrder' /\ Lasting /\ NobodyStarts
  BY MembersUntouched DEF LeaseProtects, CheckGate
<1>3. LeaseNamesExecuting'
  BY <1>2, LeaseUntouched DEF CheckGate
<1>4. /\ seen[w] \in Lease /\ seen[w].exists /\ h \in Members \cup {None}
      /\ who[w] \in Members /\ snap[w] \in Object
  BY DEF LeaseProtects, TypeOK, Registers, CheckGate, Lease
<1>5. /\ plan'[w] = p /\ who'[w] = who[w] /\ fresh'[w] = fresh[w] /\ lease' = lease
      /\ pc'[w] = IF Changed(seen[w], p) THEN "update" ELSE SuccessorOf(p)
  BY DEF CheckGate, Goto, LeaseProtects, TypeOK
<1>6. SuccessorOf(p) \in {"displace", "preempt", "record"}
  BY DEF SuccessorOf
<1>7. \A m \in Members : Finished(m) => Finished(m)' /\ Terminal(obj[m])'
  BY <1>2 DEF Lasting, Finished
<1>8. fresh[w] => Handover(plan[w].lease)'
  <2> SUFFICES ASSUME fresh[w] PROVE Handover(plan[w].lease)'
    OBVIOUS
  <2>1. seen[w] = lease
    BY DEF LeaseProtects, ReadsAreSafe, CheckGate
  <2>2. CASE h = None
    BY <1>4, <1>5, <2>1, <2>2 DEF Handover
  <2>3. CASE h # None /\ Active(h)
    <3>1. p.lease.holder = h
      BY <1>4, <2>3, GateHandover
    <3> HIDE DEF p
    <3> QED BY <1>4, <1>5, <2>1, <3>1 DEF Handover
  <2>4. CASE h # None /\ ~Active(h)
    <3>1. Finished(h)
      BY <1>4, <2>4, InactiveIsFinished DEF LeaseProtects, TypeOK
    <3> HIDE DEF p
    <3> QED BY <1>4, <1>5, <1>7, <2>1, <2>4, <3>1 DEF Handover
  <2> QED BY <2>2, <2>3, <2>4
<1>9. ~Changed(seen[w], p) /\ p.state = "acquired" => Holds(who[w])' \/ Terminal(obj[who[w]])'
  <2> SUFFICES ASSUME ~Changed(seen[w], p), p.state = "acquired"
               PROVE  Holds(who[w])' \/ Terminal(obj[who[w]])'
    OBVIOUS
  <2>1. h = who[w]
    BY <1>4, UnchangedLease, GateResult
  <2>2. Holds(h) \/ Finished(h)
    BY <1>4, <2>1 DEF LeaseProtects, ReadsAreSafe, CheckGate
  <2> QED BY <1>4, <1>5, <1>7, <2>1, <2>2 DEF Holds
<1>10. ASSUME NEW v \in Workers PROVE ReadsAreSafe(v)'
  <2>1. CASE v # w
    BY <1>2, <2>1, ReadsUntouched DEF CheckGate, Goto, LeaseProtects, TypeOK
  <2>2. CASE v = w
    <3> HIDE DEF p
    <3> QED BY <1>5, <1>6, <1>8, <1>9, <2>2 DEF ReadsAreSafe
  <2> QED BY <2>1, <2>2
<1> QED BY <1>1, <1>2, <1>3, <1>10 DEF LeaseProtects, Control

LEMMA SafeUpdateLease ==
    ASSUME LeaseProtects, NEW w \in Workers, UpdateLease(w)
    PROVE  LeaseProtects'
<1>1. Control'
  BY ControlUpdateLease, ProtectsControl
<1>2. ExecutionOrder' /\ Lasting /\ NobodyStarts
  BY MembersUntouched DEF LeaseProtects, UpdateLease
<1>3. CASE ~fresh[w]
  <2>1. /\ pc'[w] = "get" /\ UNCHANGED lease
        /\ \A v \in Workers : v # w =>
             /\ pc'[v] = pc[v] /\ who'[v] = who[v] /\ seen'[v] = seen[v]
             /\ plan'[v] = plan[v] /\ fresh'[v] = fresh[v]
    BY <1>3 DEF UpdateLease, Goto, LeaseProtects, TypeOK
  <2> QED BY <1>1, <1>2, <2>1, SafeReturn
<1>4. CASE fresh[w]
  <2> DEFINE l == plan[w].lease
  <2>1. l \in Lease /\ l.exists /\ who[w] \in Members
    BY DEF LeaseProtects, TypeOK, Plan, Registers, UpdateLease
  <2>2. lease' = l /\ \A v \in Workers : ~fresh'[v]
    BY <1>4 DEF UpdateLease, WriteLease
  <2>3. Handover(l) /\ lease.exists
    BY <1>4 DEF LeaseProtects, ReadsAreSafe, UpdateLease, Handover
  <2>4. /\ UNCHANGED <<obj, cache, work, who, seen, plan>>
        /\ pc' = [pc EXCEPT ![w] = SuccessorOf(plan[w])]
    BY <1>4 DEF UpdateLease, Goto
  <2>5. SuccessorOf(plan[w]) \in {"displace", "preempt", "record"}
    BY DEF SuccessorOf
  <2>6. plan[w].state = "acquired" => l.holder = who[w]
    BY DEF LeaseProtects, Registers, UpdateLease
  <2> HIDE DEF l
  <2>7. LeaseNamesExecuting'
    BY <2>1, <2>2, <2>3, <2>4, LeaseWritten
  <2>8. ASSUME NEW v \in Workers PROVE ReadsAreSafe(v)'
    <3>1. CASE v = w
      <4>1. pc'[w] \in {"displace", "preempt", "record"}
        BY <2>4, <2>5 DEF LeaseProtects, TypeOK
      <4>2. plan'[w].state = "acquired" => Holds(who[w])'
        BY <2>1, <2>2, <2>4, <2>6 DEF Holds
      <4> QED BY <3>1, <4>1, <4>2 DEF ReadsAreSafe
    <3>2. CASE v # w
      <4>1. pc'[v] = pc[v] /\ who'[v] = who[v] /\ seen'[v] = seen[v] /\ plan'[v] = plan[v]
        BY <2>4, <3>2 DEF LeaseProtects, TypeOK
      <4> QED BY <2>1, <2>2, <2>3, <2>4, <4>1, ReadsAfterWrite
    <3> QED BY <3>1, <3>2
  <2> QED BY <1>1, <1>2, <2>7, <2>8 DEF LeaseProtects, Control
<1> QED BY <1>3, <1>4

LEMMA SafeCancelDisplaced ==
    ASSUME LeaseProtects, NEW w \in Workers, CancelDisplaced(w)
    PROVE  LeaseProtects'
<1>1. Control'
  BY ControlCancelDisplaced, ProtectsControl
<1>2. ExecutionOrder' /\ Lasting /\ NobodyStarts
  BY MembersCancelDisplaced
<1>3. LeaseNamesExecuting'
  BY <1>2, LeaseUntouched DEF CancelDisplaced
<1>4. ASSUME NEW v \in Workers PROVE ReadsAreSafe(v)'
  <2>1. CASE v # w
    BY <1>2, <2>1, ReadsUntouched DEF CancelDisplaced, Goto, LeaseProtects, TypeOK
  <2>2. CASE v = w
    <3>1. pc'[w] \in {"preempt", "record"} /\ plan'[w].state # "acquired"
      BY DEF CancelDisplaced, Goto, LeaseProtects, TypeOK, Registers
    <3> QED BY <2>2, <3>1 DEF ReadsAreSafe
  <2> QED BY <2>1, <2>2
<1> QED BY <1>1, <1>2, <1>3, <1>4 DEF LeaseProtects, Control

LEMMA SafeCancelOwner ==
    ASSUME LeaseProtects, NEW w \in Workers, CancelOwner(w)
    PROVE  LeaseProtects'
<1>1. Control'
  BY ControlCancelOwner, ProtectsControl
<1>2. ExecutionOrder' /\ Lasting /\ NobodyStarts
  BY MembersCancelOwner
<1>3. LeaseNamesExecuting'
  BY <1>2, LeaseUntouched DEF CancelOwner
<1>4. ASSUME NEW v \in Workers PROVE ReadsAreSafe(v)'
  <2>1. CASE v # w
    BY <1>2, <2>1, ReadsUntouched DEF CancelOwner, Goto, LeaseProtects, TypeOK
  <2>2. CASE v = w
    <3>1. pc'[w] \in {"preempt", "record"} /\ plan'[w].state # "acquired"
      BY DEF CancelOwner, Goto, LeaseProtects, TypeOK, Registers
    <3> QED BY <2>2, <3>1 DEF ReadsAreSafe
  <2> QED BY <2>1, <2>2
<1> QED BY <1>1, <1>2, <1>3, <1>4 DEF LeaseProtects, Control

LEMMA SafeGetHeldLease ==
    ASSUME LeaseProtects, NEW w \in Workers, GetHeldLease(w)
    PROVE  LeaseProtects'
<1>1. Control'
  BY ControlGetHeldLease, ProtectsControl
<1>2. ExecutionOrder' /\ Lasting /\ NobodyStarts
  BY MembersUntouched DEF LeaseProtects, GetHeldLease
<1>3. CASE ~lease.exists
  <2>1. /\ pc'[w] = "idle" /\ UNCHANGED lease
        /\ \A v \in Workers : v # w =>
             /\ pc'[v] = pc[v] /\ who'[v] = who[v] /\ seen'[v] = seen[v]
             /\ plan'[v] = plan[v] /\ fresh'[v] = fresh[v]
    BY <1>3 DEF GetHeldLease, EndReconcile, Goto, LeaseProtects, TypeOK
  <2> QED BY <1>1, <1>2, <2>1, SafeReturn
<1>4. CASE lease.exists
  <2>1. LeaseNamesExecuting'
    BY <1>2, LeaseUntouched DEF GetHeldLease
  <2>2. ASSUME NEW v \in Workers PROVE ReadsAreSafe(v)'
    <3>1. CASE v # w
      BY <1>2, <1>4, <3>1, ReadsUntouched DEF GetHeldLease, Goto, LeaseProtects, TypeOK
    <3>2. CASE v = w
      <4>1. /\ seen'[w] = lease' /\ lease'.exists /\ pc'[w] = "rcheck" /\ who'[w] = who[w]
        BY <1>4 DEF GetHeldLease, Goto, LeaseProtects, TypeOK
      <4>2. Finished(who[w]) /\ who[w] \in Members
        BY DEF LeaseProtects, Registers, ReadsAreSafe, GetHeldLease
      <4>3. Finished(who[w])'
        BY <1>2, <4>1, <4>2 DEF Lasting
      <4> QED BY <3>2, <4>1, <4>3 DEF ReadsAreSafe, Holds
    <3> QED BY <3>1, <3>2
  <2> QED BY <1>1, <1>2, <2>1, <2>2 DEF LeaseProtects, Control
<1> QED BY <1>3, <1>4

LEMMA SafeCheckRelease ==
    ASSUME LeaseProtects, NEW w \in Workers, CheckRelease(w)
    PROVE  LeaseProtects'
<1> DEFINE l == Released(seen[w], who[w])
<1>1. Control'
  BY ControlCheckRelease, ProtectsControl
<1>2. ExecutionOrder' /\ Lasting /\ NobodyStarts
  BY MembersUntouched DEF LeaseProtects, CheckRelease
<1>3. CASE l = seen[w]
  <2>1. /\ pc'[w] = "idle" /\ UNCHANGED lease
        /\ \A v \in Workers : v # w =>
             /\ pc'[v] = pc[v] /\ who'[v] = who[v] /\ seen'[v] = seen[v]
             /\ plan'[v] = plan[v] /\ fresh'[v] = fresh[v]
    BY <1>3 DEF CheckRelease, EndReconcile, Goto, LeaseProtects, TypeOK
  <2> QED BY <1>1, <1>2, <2>1, SafeReturn
<1>4. CASE l # seen[w]
  <2>1. LeaseNamesExecuting'
    BY <1>2, LeaseUntouched DEF CheckRelease
  <2>2. /\ seen[w] \in Lease /\ seen[w].exists /\ seen[w].holder \in Members \cup {None}
        /\ who[w] \in Members /\ Finished(who[w])
        /\ fresh[w] => seen[w] = lease
    BY DEF LeaseProtects, TypeOK, Registers, ReadsAreSafe, CheckRelease, Lease
  <2>3. l \in Lease /\ (l.exists \/ l = NoLease)
    BY <2>2, ReleasedType
  <2>4. /\ plan'[w].lease = l /\ pc'[w] = "rwrite"
        /\ who'[w] = who[w] /\ fresh'[w] = fresh[w] /\ lease' = lease
    BY <1>4, <2>3, Defaults DEF CheckRelease, Goto, LeaseProtects, TypeOK
  <2>5. Finished(who[w])'
    BY <1>2, <2>2, <2>4 DEF Lasting
  <2>6. seen[w].holder # who[w] => l.holder = seen[w].holder
    BY <2>2, ReleaseHandover
  <2> HIDE DEF l
  <2>7. fresh[w] => Handover(plan[w].lease)'
    BY <2>2, <2>4, <2>5, <2>6 DEF Handover
  <2>8. ASSUME NEW v \in Workers PROVE ReadsAreSafe(v)'
    <3>1. CASE v # w
      BY <1>2, <1>4, <3>1, ReadsUntouched DEF CheckRelease, Goto, LeaseProtects, TypeOK, l
    <3>2. CASE v = w
      BY <2>3, <2>4, <2>5, <2>7, <3>2 DEF ReadsAreSafe
    <3> QED BY <3>1, <3>2
  <2> QED BY <1>1, <1>2, <2>1, <2>8 DEF LeaseProtects, Control
<1> QED BY <1>3, <1>4

LEMMA SafeWriteRelease ==
    ASSUME LeaseProtects, NEW w \in Workers, WriteRelease(w)
    PROVE  LeaseProtects'
<1>1. Control'
  BY ControlWriteRelease, ProtectsControl
<1>2. ExecutionOrder' /\ Lasting /\ NobodyStarts
  BY MembersUntouched DEF LeaseProtects, WriteRelease
<1>3. \A v \in Workers : v # w =>
           /\ pc'[v] = pc[v] /\ who'[v] = who[v] /\ seen'[v] = seen[v] /\ plan'[v] = plan[v]
  BY DEF WriteRelease, Goto, LeaseProtects, TypeOK
<1>4. CASE ~fresh[w]
  <2>1. LeaseNamesExecuting'
    BY <1>2, <1>4, LeaseUntouched DEF WriteRelease
  <2>2. ASSUME NEW v \in Workers PROVE ReadsAreSafe(v)'
    <3>1. CASE v # w
      BY <1>2, <1>3, <1>4, <3>1, ReadsUntouched DEF WriteRelease
    <3>2. CASE v = w
      <4>1. pc'[w] = "rget" /\ who'[w] = who[w]
        BY <1>4 DEF WriteRelease, Goto, LeaseProtects, TypeOK
      <4>2. Finished(who[w]) /\ who[w] \in Members
        BY DEF LeaseProtects, Registers, ReadsAreSafe, WriteRelease
      <4>3. Finished(who[w])'
        BY <1>2, <4>1, <4>2 DEF Lasting
      <4> QED BY <3>2, <4>1, <4>3 DEF ReadsAreSafe
    <3> QED BY <3>1, <3>2
  <2> QED BY <1>1, <1>2, <2>1, <2>2 DEF LeaseProtects, Control
<1>5. CASE fresh[w]
  <2> DEFINE l == plan[w].lease
  <2>1. l \in Lease /\ (l.exists \/ l = NoLease)
    BY DEF LeaseProtects, TypeOK, Plan, ReadsAreSafe, WriteRelease
  <2>2. lease' = l /\ \A v \in Workers : ~fresh'[v]
    BY <1>5 DEF WriteRelease, WriteLease
  <2>3. Handover(l) /\ lease.exists
    BY <1>5 DEF LeaseProtects, ReadsAreSafe, WriteRelease, Handover
  <2>4. UNCHANGED <<obj, cache, work>>
    BY DEF WriteRelease
  <2> HIDE DEF l
  <2>5. LeaseNamesExecuting'
    BY <2>1, <2>2, <2>3, <2>4, LeaseWritten
  <2>6. ASSUME NEW v \in Workers PROVE ReadsAreSafe(v)'
    <3>1. CASE v = w
      <4>1. pc'[w] = "idle"
        BY <1>5 DEF WriteRelease, Goto, LeaseProtects, TypeOK
      <4> QED BY <3>1, <4>1, IdleReads
    <3>2. CASE v # w
      BY <1>3, <2>1, <2>2, <2>3, <2>4, <3>2, ReadsAfterWrite
    <3> QED BY <3>1, <3>2
  <2> QED BY <1>1, <1>2, <2>5, <2>6 DEF LeaseProtects, Control
<1> QED BY <1>4, <1>5

LEMMA SafeElsewhere ==
    ASSUME LeaseProtects, Control', ExecutionOrder', Lasting, NobodyStarts,
           UNCHANGED <<lease, workerVars>>
    PROVE  LeaseProtects'
<1>1. LeaseNamesExecuting'
  BY LeaseUntouched
<1>2. ASSUME NEW v \in Workers PROVE ReadsAreSafe(v)'
  BY ReadsUntouched DEF workerVars
<1> QED BY <1>1, <1>2 DEF LeaseProtects, Control

LEMMA SafeCluster ==
    ASSUME LeaseProtects, NEW m \in Members, Cluster(m)
    PROVE  LeaseProtects'
<1>1. Control'
  BY ControlCluster, ProtectsControl
<1>2. UNCHANGED <<lease, workerVars>>
  BY DEF Cluster, RequestCancel, FailPlanning, AssignRunner, Launch, StopWork, Complete, Delete
<1>3. ExecutionOrder' /\ Lasting /\ NobodyStarts
  BY MembersRequestCancel, MembersFailPlanning, MembersAssignRunner, MembersLaunch,
     MembersStopWork, MembersComplete, MembersDelete DEF Cluster
<1> QED BY <1>1, <1>2, <1>3, SafeElsewhere

LEMMA SafeInit == Init => LeaseProtects
<1> SUFFICES ASSUME Init PROVE LeaseProtects
  OBVIOUS
<1>1. Control
  BY ControlInit
<1>2. \A w \in Workers : ReadsAreSafe(w)
  BY DEF Init, ReadsAreSafe
<1>3. ExecutionOrder
  BY DEF Init, ExecutionOrder, Members
<1>4. \A m \in Members : Executing(m) => m \in Planned
  BY <1>1 DEF Init, Executing, Stage, Terminal, Planned, Members
<1>5. LeaseNamesExecuting
  BY <1>4 DEF Init, LeaseNamesExecuting, NoLease
<1> QED BY <1>1, <1>2, <1>3, <1>5 DEF LeaseProtects, Control

LEMMA SafeStep ==
    ASSUME LeaseProtects, NEW w \in Workers, Step(w)
    PROVE  LeaseProtects'
BY SafePersistDecision, SafeGetLease, SafeListRuns, SafeCreateLease, SafeCheckGate,
   SafeUpdateLease, SafeCancelDisplaced, SafeCancelOwner, SafeRecordOutcome,
   SafeFinishCancelledRun, SafeGetHeldLease, SafeCheckRelease, SafeWriteRelease DEF Step

LEMMA SafeNext == LeaseProtects /\ [Next]_vars => LeaseProtects'
<1> SUFFICES ASSUME LeaseProtects, [Next]_vars PROVE LeaseProtects'
  OBVIOUS
<1>1. Control'
  BY ControlNext, ProtectsControl
<1>2. ASSUME NEW r \in Runs, SyncCache(r) PROVE LeaseProtects'
  BY <1>1, <1>2, MembersSyncCache, SafeElsewhere DEF SyncCache
<1>3. ASSUME UNCHANGED vars PROVE LeaseProtects'
  BY <1>1, <1>3, MembersUntouched, SafeElsewhere DEF vars, workerVars, LeaseProtects
<1> QED BY <1>2, <1>3, SafeReconcile, SafeStep, SafeFault, SafeCluster DEF Next

(* In every reachable state the Lease protects whoever executes, and no    *)
(* reconcile, however outdated what it has read, can write a Lease that    *)
(* would take the group from it.                                           *)
THEOREM LeaseProtectsHolds == Spec => []LeaseProtects
BY SafeInit, SafeNext, PTL DEF Spec

(* docs/reference.md "At most one member executes", for any number of      *)
(* runs, jobs, controller processes and failures.                          *)
THEOREM AtMostOneExecutes == Spec => []MutualExclusion
<1>1. LeaseProtects => MutualExclusion
  BY DEF LeaseProtects, LeaseNamesExecuting, MutualExclusion
<1> QED BY <1>1, LeaseProtectsHolds, PTL

-----------------------------------------------------------------------------
(* The handover.                                                           *)

LEMMA FinishedStage ==
    \A m \in Members : Finished(m) => Stage(m) = "finished"
BY DEF Finished, Stage, Terminal

LEMMA HandoverStep ==
    ASSUME LeaseProtects, [Next]_vars, lease.holder # None, lease'.holder # lease.holder
    PROVE  Finished(lease.holder) /\ lease.holder \in Members
<1>1. lease.exists /\ lease.holder \in Members
  BY DEF LeaseProtects, TypeOK, Lease, LeaseNamesExecuting, NoLease
<1>2. PICK w \in Workers : \/ UpdateLease(w) /\ fresh[w] /\ lease' = plan[w].lease
                           \/ WriteRelease(w) /\ fresh[w] /\ lease' = plan[w].lease
  BY <1>1 DEF Next, vars, Reconcile, Step, Fault, SyncCache, Cluster, PersistDecision, GetLease,
     ListRuns, CreateLease, CheckGate, UpdateLease, CancelDisplaced, CancelOwner,
     RecordOutcome, FinishCancelledRun, GetHeldLease, CheckRelease, WriteRelease, WriteLease,
     RequestCancel, FailPlanning, AssignRunner, Launch, StopWork, Complete, Delete
<1>3. Handover(plan[w].lease)
  BY <1>2 DEF LeaseProtects, ReadsAreSafe, UpdateLease, WriteRelease
<1> QED BY <1>1, <1>2, <1>3 DEF Handover

(* The Lease leaves a member only when it has its result or is deleted and *)
(* nothing runs for it, so that the next member never starts beside it.    *)
THEOREM GroupChangesHandsAfterStop == Spec => HandoverAfterStop
<1>1. LeaseProtects /\ [Next]_vars =>
        [lease.holder # None /\ lease'.holder # lease.holder
           => Stage(lease.holder) = "finished"]_lease
  BY HandoverStep, FinishedStage
<1> QED BY <1>1, LeaseProtectsHolds, PTL DEF Spec, HandoverAfterStop

-----------------------------------------------------------------------------
(* The refinement of ConcurrencyGroup.                                     *)

(* One member moves as the abstract group allows.                          *)
MovesAsGroup(m) ==
    /\ \A n \in Members : n # m => Stage(n)' = Stage(n)
    /\ \/ Stage(m)' = Stage(m)
       \/ Stage(m) = "queued" /\ Stage(m)' = "condemned"
       \/ Stage(m) # "finished" /\ Stage(m)' = "finished"
       \/ /\ Stage(m) = "queued" /\ Stage(m)' = "executing"
          /\ \A n \in Members : ~Executing(n)

LEMMA GroupStep ==
    ASSUME NEW m \in Members, MovesAsGroup(m)
    PROVE  [Group!Next]_stages
<1>1. stages' = [stages EXCEPT ![m] = Stage(m)']
  BY DEF MovesAsGroup, stages
<1>2. stages[m] = Stage(m)
  BY DEF stages
<1>3. CASE Stage(m)' = Stage(m)
  BY <1>1, <1>2, <1>3 DEF stages
<1>4. CASE Stage(m) = "queued" /\ Stage(m)' = "condemned"
  BY <1>1, <1>2, <1>4 DEF Group!Next, Group!Condemn
<1>5. CASE Stage(m) # "finished" /\ Stage(m)' = "finished"
  BY <1>1, <1>2, <1>5 DEF Group!Next, Group!Finish
<1>6. CASE /\ Stage(m) = "queued" /\ Stage(m)' = "executing"
           /\ \A n \in Members : ~Executing(n)
  <2>1. Group!Executing = {}
    BY <1>6 DEF Group!Executing, Executing, stages
  <2> QED BY <1>1, <1>2, <1>6, <2>1 DEF Group!Next, Group!Start
<1> QED BY <1>3, <1>4, <1>5, <1>6 DEF MovesAsGroup

LEMMA GroupStutter ==
    ASSUME UNCHANGED <<obj, work>>
    PROVE  UNCHANGED stages
BY DEF stages, Stage, Terminal

(* A member object is written and nothing else changes for the members.    *)
LEMMA GroupWrite ==
    ASSUME LeaseProtects, NEW m \in Members, NEW o \in Object,
           obj' = [obj EXCEPT ![m] = o], UNCHANGED work,
           Terminal(obj[m]) => o = obj[m], o.phase = "gone" => Terminal(obj[m]),
           obj[m].phase = "admitted" => o.phase \in {"admitted", "terminal"},
           o.phase = "terminal" /\ obj[m].phase # "terminal" => work[m] = "none",
           o.phase = "admitted" /\ obj[m].phase # "admitted" =>
               Stage(m) = "queued" /\ \A n \in Members : ~Executing(n),
           Stage(m) = "condemned" => o.phase = "terminal" \/ (o.phase = "waiting" /\ o.cancel)
    PROVE  MovesAsGroup(m)
<1>1. \A n \in Members : n # m => Stage(n)' = Stage(n)
  BY DEF LeaseProtects, TypeOK, Stage, Terminal
<1>2. obj'[m] = o /\ work'[m] = work[m]
  BY DEF LeaseProtects, TypeOK
<1>3. obj[m].phase \in Phase /\ o.phase \in Phase
  BY DEF LeaseProtects, TypeOK, Object
<1>4. CASE Terminal(obj[m])
  BY <1>1, <1>2, <1>4 DEF MovesAsGroup, Stage, Terminal
<1>5. CASE ~Terminal(obj[m]) /\ o.phase = "terminal"
  BY <1>1, <1>2, <1>5 DEF MovesAsGroup, Stage, Terminal
<1>6. CASE ~Terminal(obj[m]) /\ o.phase = "admitted"
  <2>1. Stage(m)' = "executing"
    BY <1>2, <1>6 DEF Stage, Terminal
  <2>2. obj[m].phase = "admitted" => Stage(m) = "executing"
    BY DEF Stage, Terminal
  <2> QED BY <1>1, <1>6, <2>1, <2>2 DEF MovesAsGroup
<1>7. CASE ~Terminal(obj[m]) /\ o.phase \in {"new", "decided", "waiting"}
  <2>1. obj[m].phase \in {"new", "decided", "waiting"}
    BY <1>3, <1>7 DEF Terminal, Phase
  <2>2. Stage(m) \in {"queued", "condemned"} /\ (Stage(m) = "condemned" => m \in Runs)
    BY <2>1 DEF Stage, Terminal
  <2>3. Stage(m)' \in {"queued", "condemned"}
    BY <1>2, <1>7 DEF Stage, Terminal
  <2>4. CASE Stage(m) = "condemned"
    <3>1. o.phase = "waiting" /\ o.cancel /\ m \in Runs
      BY <1>7, <2>2, <2>4
    <3>2. Stage(m)' = "condemned"
      BY <1>2, <3>1 DEF Stage, Terminal
    <3> QED BY <1>1, <2>4, <3>2 DEF MovesAsGroup
  <2> QED BY <1>1, <2>2, <2>3, <2>4 DEF MovesAsGroup
<1> QED BY <1>3, <1>4, <1>5, <1>6, <1>7 DEF Phase, Terminal

LEMMA GroupCancel ==
    ASSUME LeaseProtects, NEW m \in Members, obj' = [obj EXCEPT ![m] = Cancelled(m)],
           UNCHANGED work
    PROVE  MovesAsGroup(m)
<1>1. Cancelled(m) \in Object
  BY CancelledType DEF LeaseProtects, TypeOK
<1>2. obj[m] \in Object
  BY DEF LeaseProtects, TypeOK
<1>3. Stage(m) = "condemned" => obj[m].phase = "waiting"
  BY DEF Stage, Terminal
<1> QED BY <1>1, <1>2, <1>3, CancelledPhase, GroupWrite DEF Terminal

LEMMA GroupPersistDecision ==
    ASSUME LeaseProtects, NEW w \in Workers, PersistDecision(w)
    PROVE  MovesAsGroup(who[w]) \/ UNCHANGED <<obj, work>>
<1> DEFINE o == [snap[w] EXCEPT !.phase = "decided"]
<1>0. snap[w] \in Object /\ "decided" \in Phase
  BY DEF LeaseProtects, TypeOK, Phase
<1>1. o \in Object /\ o.phase = "decided"
  BY <1>0, ObjectFields, Zenon
<1>2. who[w] \in Members /\ snap[w].phase = "new"
  BY DEF LeaseProtects, Registers, PersistDecision
<1>3. CASE obj[who[w]] = snap[w]
  <2>1. obj' = [obj EXCEPT ![who[w]] = o] /\ UNCHANGED work
    BY <1>3 DEF PersistDecision, WriteMember
  <2>2. Stage(who[w]) = "queued"
    BY <1>2, <1>3 DEF Stage, Terminal
  <2> HIDE DEF o
  <2> QED BY <1>1, <1>2, <1>3, <2>1, <2>2, GroupWrite DEF Terminal
<1>4. CASE obj[who[w]] # snap[w]
  BY <1>4 DEF PersistDecision, WriteMember
<1> QED BY <1>3, <1>4

LEMMA GroupRecordOutcome ==
    ASSUME LeaseProtects, NEW w \in Workers, RecordOutcome(w)
    PROVE  MovesAsGroup(who[w]) \/ UNCHANGED <<obj, work>>
<1> DEFINE m == who[w]
           o == Recorded(m, snap[w], plan[w].state)
<1>0. snap[w] \in Object /\ plan[w].state \in GateState /\ {"admitted", "waiting", "terminal"} \subseteq Phase
  BY DEF LeaseProtects, TypeOK, Phase, Plan
<1>1. /\ o \in Object
      /\ plan[w].state = "acquired" => o.phase = "admitted"
      /\ plan[w].state # "acquired" => o.phase \in {"waiting", "terminal", snap[w].phase}
  BY <1>0, ObjectFields DEF Recorded, GateState
<1>2. /\ m \in Members /\ snap[w].phase \in {"decided", "waiting"}
      /\ snap[w].phase = "waiting" => (m \in Runs => ~snap[w].cancel)
  BY DEF LeaseProtects, Registers, RecordOutcome
<1>3. CASE obj[m] # snap[w]
  BY <1>3 DEF RecordOutcome, WriteMember
<1>4. CASE obj[m] = snap[w]
  <2>1. obj' = [obj EXCEPT ![m] = o] /\ UNCHANGED work
    BY <1>4 DEF RecordOutcome, WriteMember
  <2>2. work[m] = "none" /\ ~Terminal(obj[m]) /\ obj[m].phase # "admitted"
    BY <1>2, <1>4 DEF LeaseProtects, ExecutionOrder, Terminal
  <2>3. Stage(m) = "queued"
    BY <1>2, <1>4 DEF Stage, Terminal
  <2>4. plan[w].state = "acquired" => \A n \in Members : ~Executing(n)
    <3>1. ~Executing(m)
      BY <2>3 DEF Executing
    <3>2. plan[w].state = "acquired" => Holds(m)
      BY <2>2 DEF LeaseProtects, ReadsAreSafe, RecordOutcome
    <3> QED BY <3>1, <3>2 DEF LeaseProtects, LeaseNamesExecuting, Holds
  <2> HIDE DEF m, o
  <2>5. o.phase \in {"admitted", "waiting", "terminal", "decided"}
    BY <1>1, <1>2
  <2>6. o.phase = "admitted" => plan[w].state = "acquired"
    BY <1>1, <1>2
  <2>7. MovesAsGroup(m)
    BY <1>1, <1>2, <2>1, <2>2, <2>3, <2>4, <2>5, <2>6, GroupWrite
  <2> QED BY <2>7 DEF m
<1> QED BY <1>3, <1>4

LEMMA GroupFinishCancelledRun ==
    ASSUME LeaseProtects, NEW w \in Workers, FinishCancelledRun(w)
    PROVE  MovesAsGroup(who[w]) \/ UNCHANGED <<obj, work>>
<1> DEFINE o == [snap[w] EXCEPT !.phase = "terminal"]
<1>0. snap[w] \in Object /\ "terminal" \in Phase
  BY DEF LeaseProtects, TypeOK, Phase
<1>1. o \in Object /\ o.phase = "terminal"
  BY <1>0, ObjectFields, Zenon
<1>2. who[w] \in Members /\ snap[w].phase = "waiting"
  BY DEF LeaseProtects, Registers, FinishCancelledRun
<1>3. CASE obj[who[w]] = snap[w]
  <2>1. obj' = [obj EXCEPT ![who[w]] = o] /\ UNCHANGED work
    BY <1>3 DEF FinishCancelledRun, WriteMember
  <2>2. work[who[w]] = "none"
    BY <1>2, <1>3 DEF LeaseProtects, ExecutionOrder
  <2> HIDE DEF o
  <2> QED BY <1>1, <1>2, <1>3, <2>1, <2>2, GroupWrite DEF Terminal
<1>4. CASE obj[who[w]] # snap[w]
  BY <1>4 DEF FinishCancelledRun, WriteMember
<1> QED BY <1>3, <1>4

LEMMA GroupCluster ==
    ASSUME LeaseProtects, NEW m \in Members, Cluster(m)
    PROVE  MovesAsGroup(m)
<1>1. CASE RequestCancel(m)
  BY <1>1, GroupCancel DEF RequestCancel
<1>2. CASE FailPlanning(m)
  <2>1. work[m] = "none"
    BY <1>2 DEF FailPlanning, LeaseProtects, ExecutionOrder
  <2> QED BY <1>2, <2>1 DEF FailPlanning, SetPhase, MovesAsGroup, Stage, Terminal, LeaseProtects, TypeOK, Object
<1>3. CASE AssignRunner(m)
  BY <1>3 DEF AssignRunner, MovesAsGroup, Stage, Terminal, LeaseProtects, TypeOK
<1>4. CASE Launch(m)
  BY <1>4 DEF Launch, MovesAsGroup, Stage, Terminal, LeaseProtects, TypeOK, ExecutionOrder
<1>5. CASE StopWork(m)
  BY <1>5 DEF StopWork, MovesAsGroup, Stage, Terminal, LeaseProtects, TypeOK, ExecutionOrder
<1>6. CASE Complete(m)
  BY <1>6 DEF Complete, SetPhase, MovesAsGroup, Stage, Terminal, LeaseProtects, TypeOK, Object
<1>7. CASE Delete(m)
  BY <1>7 DEF Delete, NoObject, MovesAsGroup, Stage, Terminal, LeaseProtects, TypeOK, ExecutionOrder, Object, Phase
<1> QED BY <1>1, <1>2, <1>3, <1>4, <1>5, <1>6, <1>7 DEF Cluster

LEMMA GroupNext ==
    LeaseProtects /\ [Next]_vars => [Group!Next]_stages
<1> SUFFICES ASSUME LeaseProtects, [Next]_vars PROVE [Group!Next]_stages
  OBVIOUS
<1>1. ASSUME NEW m \in Members, Cluster(m) PROVE [Group!Next]_stages
  BY <1>1, GroupCluster, GroupStep
<1>2. CASE UNCHANGED <<obj, work>>
  BY <1>2, GroupStutter
<1>3. ASSUME NEW w \in Workers, CancelDisplaced(w) PROVE [Group!Next]_stages
  <2>1. plan[w].displaced \in Members
    BY <1>3 DEF LeaseProtects, Registers, CancelDisplaced
  <2>2. MovesAsGroup(plan[w].displaced)
    BY <1>3, <2>1, GroupCancel DEF CancelDisplaced
  <2> QED BY <2>1, <2>2, GroupStep
<1>4. ASSUME NEW w \in Workers, CancelOwner(w) PROVE [Group!Next]_stages
  <2>1. plan[w].cancelOwner \in Members
    BY <1>4 DEF LeaseProtects, Registers, CancelOwner
  <2>2. MovesAsGroup(plan[w].cancelOwner)
    BY <1>4, <2>1, GroupCancel DEF CancelOwner
  <2> QED BY <2>1, <2>2, GroupStep
<1>5. ASSUME NEW w \in Workers, PersistDecision(w) \/ RecordOutcome(w) \/ FinishCancelledRun(w)
      PROVE  [Group!Next]_stages
  <2>1. who[w] \in Members
    BY <1>5 DEF LeaseProtects, Registers, PersistDecision, RecordOutcome, FinishCancelledRun
  <2>2. MovesAsGroup(who[w]) \/ UNCHANGED <<obj, work>>
    BY <1>5, GroupPersistDecision, GroupRecordOutcome, GroupFinishCancelledRun
  <2> QED BY <1>2, <2>1, <2>2, GroupStep
<1>6. \/ UNCHANGED <<obj, work>>
      \/ \E m \in Members : Cluster(m)
      \/ \E w \in Workers : CancelDisplaced(w) \/ CancelOwner(w) \/ PersistDecision(w)
                            \/ RecordOutcome(w) \/ FinishCancelledRun(w)
  BY DEF Next, vars, Reconcile, Step, Fault, SyncCache, GetLease, ListRuns, CreateLease,
         CheckGate, UpdateLease, GetHeldLease, CheckRelease, WriteRelease
<1> QED BY <1>1, <1>2, <1>3, <1>4, <1>5, <1>6

LEMMA GroupInit == Init => Group!Init
<1> SUFFICES ASSUME Init PROVE Group!Init
  OBVIOUS
<1>1. \A m \in Members : Stage(m) = IF m \in Planned THEN "executing" ELSE "queued"
  BY DEF Init, Stage, Terminal, Planned, Members
<1>2. stages \in [Members -> {"queued", "executing"}]
  BY <1>1 DEF stages
<1>3. \A m, n \in Members : stages[m] = "executing" /\ stages[n] = "executing" => m = n
  BY <1>1 DEF Init, stages
<1> QED BY <1>2, <1>3 DEF Group!Init, Group!Executing

(* The gate with its Lease, caches, retries and crashes implements the     *)
(* abstract concurrency group: a member starts only in a free group, a run *)
(* cancelled while it waits never starts, and nobody comes back.           *)
THEOREM GateImplementsGroup == Spec => ImplementsGroup
BY GroupInit, GroupNext, LeaseProtectsHolds, PTL DEF Spec, ImplementsGroup, Group!Spec
=============================================================================
